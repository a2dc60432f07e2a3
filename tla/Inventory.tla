------------------------------ MODULE Inventory ------------------------------
(***************************************************************************)
(* The startup inventory: InventoryCoordinator of                          *)
(* subgen_core/mqtt_inventory.py, and the threads that drive it.           *)
(*                                                                         *)
(*   Scanner   transcribe_existing: counts the libraries, inspects every   *)
(*             file, then reconciles with what changed meanwhile           *)
(*             (subgen_core/scanner.py)                                    *)
(*   Watcher   the Watchdog thread, NewFileHandler                         *)
(*   Hooks     the webhooks, which queue one path each                     *)
(*   Workers   transcription_worker, held back until the scan is over      *)
(*                                                                         *)
(* The coordinator is one object guarded by one lock: each of its methods  *)
(* is a function of the record inv.  Between two calls a thread can be     *)
(* overtaken.  The scan is armed once, before any of the threads runs, so  *)
(* a generation is either the current one (bound) or None.                 *)
(***************************************************************************)
EXTENDS Integers, Sequences, FiniteSets

CONSTANTS
    Paths,       \* media files that may exist
    Libraries,   \* labels of the configured libraries
    Other,       \* label of a path outside every library
    LabelOf,     \* LabelOf[p]: the library of p (libraries do not overlap)
    Hooks,       \* webhook threads
    Workers,     \* transcription worker threads
    Scanner,
    Watcher,
    MayFail,     \* walks and inspections may fail, the scan may hang or be stopped
    MaxChanges   \* bound: changes of the file system

Callers == Hooks \cup {Scanner, Watcher}
Labels == Libraries \cup {Other}

ASSUME InventoryAssumption ==
    /\ IsFiniteSet(Paths)
    /\ LabelOf \in [Paths -> Labels]
    /\ Other \notin Libraries
    /\ Scanner # Watcher /\ {Scanner, Watcher} \cap Hooks = {}
    /\ MayFail \in BOOLEAN
    /\ MaxChanges \in Nat

VARIABLES
    inv,      \* the coordinator
    disk,     \* the media files that exist
    changes,  \* how often the file system changed
    watching, \* the Watchdog observer runs
    events,   \* its queue of events
    event,    \* the event the watcher handles
    task,     \* each path in the task queue: "none", "queued" or "held"
    scan,     \* the scanner's local variables
    call,     \* each caller's run through gen_subtitles_queue
    work,     \* each worker's task
    gaveUp    \* paths whose last task failed

vars == <<inv, disk, changes, watching, events, event, task, scan, call, work, gaveUp>>

-----------------------------------------------------------------------------
(***************************************************************************)
(* The coordinator.                                                        *)
(***************************************************************************)

\* pending        _pending_items (each under the label of its path)
\* early          those with counted_at_enqueue
\* unvisited      _scan_unvisited_items       seen  _scan_seen_items
\* runtime        _runtime_items_during_scan  counted  _counted_items
\* postRuntime, postRemoved   _post_cutoff_runtime_items, .._removed_items
\* open, inflight _scan_ingress_open, _scan_ingress_inflight
\* errors         _scan_errors > 0
\* finished       _scan_finished, which is set together with _scan_ready
NewInventory ==
    [pending |-> {}, early |-> {}, unvisited |-> {}, seen |-> {}, runtime |-> {},
     counted |-> {}, postRuntime |-> {}, postRemoved |-> {},
     total |-> [l \in Labels |-> 0], scanned |-> [l \in Labels |-> 0],
     left |-> [l \in Labels |-> 0],
     open |-> TRUE, inflight |-> 0, errors |-> FALSE,
     complete |-> FALSE, finished |-> FALSE, cancelled |-> FALSE]

AtLeast(a, b) == IF a < b THEN b ELSE a
AtMost(a, b) == IF a < b THEN a ELSE b
Less(n) == AtLeast(0, n - 1)
In(l, S) == {p \in S : LabelOf[p] = l}

ScanActive(v) == ~v.finished /\ ~v.cancelled

RecordError(v) == IF v.cancelled THEN v ELSE [v EXCEPT !.errors = TRUE]

RecordCounted(v, p) ==
    IF v.cancelled THEN v
    ELSE [v EXCEPT !.postRemoved = @ \ {p}, !.unvisited = @ \cup {p},
                   !.counted = @ \cup {p}]

SetTotal(v, l, n) ==
    IF v.cancelled THEN v
    ELSE [v EXCEPT !.total[l] = AtLeast(n, v.scanned[l])]

RecordScanned(v, p) ==
    LET l == LabelOf[p]
    IN  IF v.cancelled THEN v
        ELSE [v EXCEPT !.unvisited = @ \ {p}, !.runtime = @ \ {p},
                       !.postRuntime = @ \ {p}, !.postRemoved = @ \ {p},
                       !.seen = @ \cup {p}, !.counted = @ \cup {p},
                       !.scanned[l] = @ + 1,
                       !.total[l] = AtLeast(@, v.scanned[l] + 1)]

\* Mutant: arrivals after the cutoff are not told from earlier ones.
ArriveForgetsCutoff(v, p, bound) == [v EXCEPT !.runtime = @ \cup {p}]

\* Runtime arrivals wait for the end of the scan to be counted; those that
\* came after the cutoff are remembered as such.
Arrive(v, p, bound) ==
    [v EXCEPT !.runtime = @ \cup {p},
              !.postRuntime = IF ~bound /\ ~v.open THEN @ \cup {p} ELSE @]

Count(v, p) ==
    [v EXCEPT !.counted = @ \cup {p}, !.total[LabelOf[p]] = @ + 1,
              !.scanned[LabelOf[p]] = @ + 1]

MarkQueued(v, p, startup, bound) ==
    LET w == [v EXCEPT !.pending = @ \cup {p}, !.postRemoved = @ \ {p},
                       !.left[LabelOf[p]] = @ + 1]
    IN  IF p \in v.pending THEN v
        ELSE IF v.finished /\ p \notin v.counted
        THEN [Count(w, p) EXCEPT !.early = @ \cup {p}]
        ELSE IF startup THEN w ELSE Arrive(w, p, bound)

MarkObserved(v, p, bound) ==
    LET w == [v EXCEPT !.postRemoved = @ \ {p}]
    IN  IF p \in v.counted \cup v.runtime THEN v
        ELSE IF v.finished THEN Count(w, p) ELSE Arrive(w, p, bound)

\* Mutant: a completed item stays in its library's backlog.
UnqueueKeepsLeft(v, p) ==
    IF p \notin v.pending THEN v
    ELSE [v EXCEPT !.pending = @ \ {p}, !.early = @ \ {p},
                   !.runtime = @ \ {p}, !.postRuntime = @ \ {p}]

\* What completing, cancelling, removing and moving a pending item share.
Unqueue(v, p) ==
    IF p \notin v.pending THEN v
    ELSE [v EXCEPT !.pending = @ \ {p}, !.early = @ \ {p},
                   !.runtime = @ \ {p}, !.postRuntime = @ \ {p},
                   !.left[LabelOf[p]] = Less(@)]

MarkCompleted(v, p) == Unqueue(v, p)

\* The roll-back of a reservation that no queue accepted.
CancelQueue(v, p) ==
    LET w == Unqueue(v, p)
        l == LabelOf[p]
    IN  IF p \in v.early
        THEN [w EXCEPT !.counted = @ \ {p}, !.total[l] = Less(@), !.scanned[l] = Less(@)]
        ELSE w

Known(v, p) == p \in v.pending \cup v.counted
WasScanned(v, p) == v.finished \/ p \in v.seen

Forget(v, p, bound) ==
    [Unqueue(v, p) EXCEPT
        !.counted = @ \ {p}, !.runtime = @ \ {p}, !.postRuntime = @ \ {p},
        !.seen = @ \ {p}, !.unvisited = @ \ {p},
        !.postRemoved = IF ~bound /\ ~v.finished /\ ~v.open /\ Known(v, p)
                        THEN @ \cup {p} ELSE @]

Uncount(v, l, scanned) ==
    [v EXCEPT !.total[l] = Less(@),
              !.scanned[l] = AtMost(IF scanned THEN Less(@) ELSE @, Less(v.total[l]))]

MarkRemoved(v, p, bound) ==
    LET w == Forget(v, p, bound)
    IN  IF p \in v.counted THEN Uncount(w, LabelOf[p], WasScanned(v, p)) ELSE w

\* A counted identity moves to its new path, unless that is counted already
\* or lies outside the libraries.
MarkMoved(v, p, q, bound) ==
    LET from == LabelOf[p]
        to == LabelOf[q]
        was == WasScanned(v, p)
        transfer == p \in v.counted /\ to # Other /\ q \notin v.counted
        a == Forget(v, p, bound)
        b == IF p \in v.counted /\ (~transfer \/ from # to)
             THEN Uncount(a, from, was) ELSE a
        c == [b EXCEPT
                !.counted = @ \cup {q}, !.postRemoved = @ \ {q},
                !.seen = IF was THEN @ \cup {q} ELSE @,
                !.unvisited = IF ~was /\ p \in v.unvisited THEN @ \cup {q} ELSE @,
                !.total[to] = IF from # to THEN @ + 1 ELSE @,
                !.scanned[to] = IF from # to /\ was THEN @ + 1 ELSE @]
    IN  IF ~transfer THEN b ELSE IF v.finished THEN c ELSE Arrive(c, q, bound)

\* _reconcile_runtime_additions_locked
ReconcileRuntime(v, dropUnvisited) ==
    LET new == v.runtime \ v.counted
        missed(l) == In(l, v.unvisited \ v.runtime)
        scanned == [l \in Labels |-> v.scanned[l] + Cardinality(In(l, new))]
        total == [l \in Labels |->
                    AtLeast(v.total[l] + Cardinality(In(l, new \ v.unvisited)),
                        IF In(l, new \cap v.unvisited) = {} THEN 0 ELSE scanned[l])]
    IN  [v EXCEPT !.scanned = scanned,
                  !.total = IF dropUnvisited
                            THEN [l \in Labels |-> AtLeast(scanned[l],
                                     total[l] - Cardinality(missed(l)))]
                            ELSE total,
                  !.counted = @ \cup new,
                  !.runtime = {}, !.postRuntime = {}, !.postRemoved = {},
                  !.unvisited = {}, !.seen = {}]

\* Mutant: identities that are gone stay counted.
ReconcileLibraryKeepsGone(v, l, listed) ==
    LET keys == listed \ v.postRemoved
        gone == {p \in In(l, v.pending) : p \notin keys \cup v.postRuntime}
        settled == {p \in In(l, v.runtime) : p \in keys \/ p \notin v.postRuntime}
    IN  [v EXCEPT !.counted = @ \cup keys,
                  !.pending = @ \ gone, !.early = @ \ gone,
                  !.runtime = @ \ (gone \cup settled),
                  !.postRuntime = @ \ (gone \cup settled),
                  !.total[l] = Cardinality(keys), !.scanned[l] = Cardinality(keys),
                  !.left[l] = Cardinality(In(l, v.pending \ gone)),
                  !.unvisited = @ \ In(l, @), !.seen = @ \cup keys]

\* reconcile_final_library: the files listed after the cutoff are the
\* library, but for what the watcher has been told since.
ReconcileLibrary(v, l, listed) ==
    LET keys == listed \ v.postRemoved
        gone == {p \in In(l, v.pending) : p \notin keys \cup v.postRuntime}
        pending == v.pending \ gone
        settled == {p \in In(l, v.runtime) : p \in keys \/ p \notin v.postRuntime}
    IN  [v EXCEPT !.counted = (@ \ In(l, @)) \cup keys,
                  !.pending = pending, !.early = @ \ gone,
                  !.runtime = @ \ (gone \cup settled),
                  !.postRuntime = @ \ (gone \cup settled),
                  !.total[l] = Cardinality(keys), !.scanned[l] = Cardinality(keys),
                  !.left[l] = Cardinality(In(l, pending)),
                  !.unvisited = @ \ In(l, @), !.seen = @ \cup keys]

NeedsReconciliation(v, p) == ~v.cancelled /\ p \notin v.seen \cup v.pending

\* The last block of finish_scan.
EndScan(v, successful) ==
    LET ok == successful /\ ~v.cancelled
    IN  [ReconcileRuntime(v, ok) EXCEPT !.complete = ok, !.finished = TRUE]

\* Mutant: the expired scan does not open the barrier.
ExpireScanKeepsShut(v) ==
    [ReconcileRuntime(v, FALSE) EXCEPT
        !.cancelled = TRUE, !.open = FALSE, !.complete = FALSE, !.errors = TRUE]

\* _expire_scan, by the watchdog timer or by a worker that waited too long.
ExpireScan(v) ==
    [ReconcileRuntime(v, FALSE) EXCEPT
        !.cancelled = TRUE, !.open = FALSE, !.complete = FALSE,
        !.finished = TRUE, !.errors = TRUE]

-----------------------------------------------------------------------------
(***************************************************************************)
(* gen_subtitles_queue and _put_task_with_inventory, by any caller c.      *)
(* "back" is the return to the caller.                                     *)
(***************************************************************************)

Rest == [pc |-> "rest"]
Start(p, bound) == [pc |-> "start", path |-> p, bound |-> bound, reserved |-> FALSE]
At(c, label) == call' = [call EXCEPT ![c].pc = label]

NotActive(c) == call[c].bound /\ ~ScanActive(inv)

\* A hook serves one request after the other.
HookCall(h) ==
    /\ call[h] = Rest
    /\ \E p \in Paths : call' = [call EXCEPT ![h] = Start(p, FALSE)]
    /\ UNCHANGED <<inv, disk, changes, watching, events, event, task, scan, work, gaveUp>>

HookReturn(h) ==
    /\ call[h].pc = "back"
    /\ call' = [call EXCEPT ![h] = Rest]
    /\ UNCHANGED <<inv, disk, changes, watching, events, event, task, scan, work, gaveUp>>

\* A superseded scan, an active path, missing or unusable media, a file that
\* needs no subtitles: nothing is queued.
CheckPolicy(c) ==
    /\ call[c].pc = "start"
    /\ \/ At(c, "back")
       \/ /\ ~NotActive(c) /\ task[call[c].path] = "none" /\ call[c].path \in disk
          /\ At(c, "check")
    /\ UNCHANGED <<inv, disk, changes, watching, events, event, task, scan, work, gaveUp>>

CheckScan(c) ==
    /\ call[c].pc = "check"
    /\ At(c, IF NotActive(c) THEN "back" ELSE "reserve")
    /\ UNCHANGED <<inv, disk, changes, watching, events, event, task, scan, work, gaveUp>>

Reserve(c) ==
    /\ call[c].pc = "reserve"
    /\ inv' = MarkQueued(inv, call[c].path, c = Scanner, call[c].bound)
    /\ call' = [call EXCEPT ![c].pc = "recheck",
                            ![c].reserved = call[c].path \notin inv.pending]
    /\ UNCHANGED <<disk, changes, watching, events, event, task, scan, work, gaveUp>>

Recheck(c) ==
    /\ call[c].pc = "recheck"
    /\ At(c, IF ~NotActive(c) THEN "put"
             ELSE IF call[c].reserved THEN "cancel" ELSE "back")
    /\ UNCHANGED <<inv, disk, changes, watching, events, event, task, scan, work, gaveUp>>

PutTask(c) ==
    /\ call[c].pc = "put"
    /\ IF task[call[c].path] = "none"
       THEN task' = [task EXCEPT ![call[c].path] = "queued"] /\ At(c, "back")
       ELSE At(c, IF call[c].reserved THEN "refused" ELSE "back") /\ UNCHANGED task
    /\ UNCHANGED <<inv, disk, changes, watching, events, event, scan, work, gaveUp>>

\* Refused as a duplicate: the reservation stands if the other one is active.
Refused(c) ==
    /\ call[c].pc = "refused"
    /\ At(c, IF task[call[c].path] = "none" THEN "cancel" ELSE "back")
    /\ UNCHANGED <<inv, disk, changes, watching, events, event, task, scan, work, gaveUp>>

Cancel(c) ==
    /\ call[c].pc = "cancel"
    /\ inv' = CancelQueue(inv, call[c].path)
    /\ At(c, "back")
    /\ UNCHANGED <<disk, changes, watching, events, event, task, scan, work, gaveUp>>

-----------------------------------------------------------------------------
(***************************************************************************)
(* The scanner: transcribe_existing, _queue_existing, _scan_existing and   *)
(* _reconcile_inventory_cutoff.  A library is listed in one step (os.walk  *)
(* of a flat folder); its files are then visited one by one.               *)
(***************************************************************************)

ScannerKeeps == <<disk, changes, events, event, task, work, gaveUp>>
Phase(label) == scan' = [scan EXCEPT !.pc = label, !.libs = Libraries]

\* The watcher is started before the scan; without it the scan is marked
\* incomplete.
StartMonitor ==
    /\ scan.pc = "begin"
    /\ \E ok \in {TRUE, ~MayFail} :
         /\ watching' = ok
         /\ inv' = IF ok THEN inv ELSE RecordError(inv)
         /\ scan' = [scan EXCEPT !.pc = "count", !.libs = Libraries, !.failed = ~ok]
    /\ UNCHANGED <<ScannerKeeps, call>>

\* The scan stops at the next file or library once it was cancelled.
AbandonScan ==
    /\ scan.pc \in {"count", "inspect"}
    /\ inv.cancelled /\ call[Scanner] = Rest
    /\ scan' = [scan EXCEPT !.pc = "finish", !.failed = TRUE]
    /\ UNCHANGED <<inv, watching, ScannerKeeps, call>>

ListLibrary ==
    /\ scan.pc \in {"count", "inspect", "final"} /\ ~inv.cancelled
    /\ scan.lib = Other
    /\ \E l \in scan.libs :
         scan' = [scan EXCEPT !.lib = l, !.libs = @ \ {l}, !.n = 0,
                              !.todo = In(l, disk), !.listed = {}]
    /\ UNCHANGED <<inv, watching, ScannerKeeps, call>>

\* The walk of a library fails between two files; a library that was not
\* counted has total 0.
WalkError ==
    /\ MayFail
    /\ scan.pc \in {"count", "inspect", "final"} /\ ~inv.cancelled
    /\ scan.lib # Other /\ call[Scanner] = Rest
    /\ inv' = RecordError(inv)
    /\ scan' = [scan EXCEPT !.failed = TRUE, !.n = 0, !.todo = {},
                            !.primary = @ \/ scan.pc # "final",
                            !.lib = IF scan.pc = "count" THEN @ ELSE Other]
    /\ UNCHANGED <<watching, ScannerKeeps, call>>

CountFile ==
    /\ scan.pc = "count" /\ ~inv.cancelled
    /\ \E p \in scan.todo :
         /\ inv' = RecordCounted(inv, p)
         /\ scan' = [scan EXCEPT !.todo = @ \ {p}, !.n = @ + 1]
    /\ UNCHANGED <<watching, ScannerKeeps, call>>

CountDone ==
    /\ scan.pc = "count"
    /\ scan.lib # Other /\ scan.todo = {}
    /\ inv' = SetTotal(inv, scan.lib, scan.n)
    /\ scan' = [scan EXCEPT !.lib = Other]
    /\ UNCHANGED <<watching, ScannerKeeps, call>>

\* _inspect_inventory_candidate; the final pass skips what is known.
VisitFile ==
    /\ scan.pc \in {"inspect", "final"} /\ ~inv.cancelled
    /\ call[Scanner] = Rest
    /\ \E p \in scan.todo :
         /\ scan' = [scan EXCEPT !.todo = @ \ {p}, !.listed = @ \cup {p}]
         /\ IF scan.pc = "inspect" \/ NeedsReconciliation(inv, p)
            THEN call' = [call EXCEPT ![Scanner] = Start(p, TRUE)]
            ELSE UNCHANGED call
    /\ UNCHANGED <<inv, watching, ScannerKeeps>>

\* The inspection raised an error, which is recorded; the scan goes on.
InspectError ==
    /\ MayFail
    /\ call[Scanner].pc = "start"
    /\ inv' = RecordError(inv)
    /\ scan' = [scan EXCEPT !.failed = TRUE, !.primary = @ \/ scan.pc # "final"]
    /\ At(Scanner, "back")
    /\ UNCHANGED <<watching, ScannerKeeps>>

FileVisited ==
    /\ call[Scanner].pc = "back"
    /\ inv' = RecordScanned(inv, call[Scanner].path)
    /\ call' = [call EXCEPT ![Scanner] = Rest]
    /\ UNCHANGED <<watching, ScannerKeeps, scan>>

\* The inspected library is done; the final pass commits what it listed.
LibraryDone ==
    /\ scan.pc \in {"inspect", "final"}
    /\ scan.lib # Other /\ scan.todo = {} /\ call[Scanner] = Rest
    /\ inv' = IF scan.pc = "final" THEN ReconcileLibrary(inv, scan.lib, scan.listed)
              ELSE inv
    /\ scan' = [scan EXCEPT !.lib = Other]
    /\ UNCHANGED <<watching, ScannerKeeps, call>>

PhaseDone ==
    /\ scan.libs = {} /\ scan.lib = Other /\ ~inv.cancelled
    /\ \/ scan.pc = "count" /\ Phase("inspect")
       \/ scan.pc = "inspect" /\ Phase(IF scan.primary THEN "finish" ELSE "cutoff")
       \/ scan.pc = "final" /\ Phase("finish")
    /\ UNCHANGED <<inv, watching, ScannerKeeps, call>>

AbandonFinal ==
    /\ scan.pc = "final" /\ inv.cancelled /\ call[Scanner] = Rest
    /\ scan.todo # {} \/ scan.lib = Other
    /\ scan' = [scan EXCEPT !.pc = "finish", !.failed = TRUE]
    /\ UNCHANGED <<inv, watching, ScannerKeeps, call>>

\* close_scan_event_cutoff
CloseCutoff ==
    /\ scan.pc = "cutoff"
    /\ inv' = [inv EXCEPT !.open = FALSE]
    /\ scan' = [scan EXCEPT !.pc = "drain"]
    /\ UNCHANGED <<watching, ScannerKeeps, call>>

\* wait_for_scan_events: drained, cancelled, or timed out.
DrainEvents ==
    /\ scan.pc = "drain"
    /\ IF inv.inflight = 0 /\ ~inv.cancelled
       THEN Phase("final") /\ UNCHANGED inv
       ELSE /\ inv' = RecordError(inv)
            /\ scan' = [scan EXCEPT !.pc = "finish", !.failed = TRUE]
    /\ UNCHANGED <<watching, ScannerKeeps, call>>

\* finish_scan closes the ingress and drains it once more.
FinishScan ==
    /\ scan.pc = "finish"
    /\ \/ /\ scan.failed \/ inv.cancelled \/ inv.inflight = 0
          /\ inv' = EndScan([inv EXCEPT !.open = FALSE], ~scan.failed)
          /\ scan' = [scan EXCEPT !.pc = "monitor"]
       \/ /\ ~scan.failed /\ ~inv.cancelled /\ inv.inflight # 0
          /\ inv' = [inv EXCEPT !.open = FALSE]
          /\ scan' = [scan EXCEPT !.pc = "finishWait"]
    /\ UNCHANGED <<watching, ScannerKeeps, call>>

FinishDrained ==
    /\ scan.pc = "finishWait"
    /\ inv' = IF inv.inflight = 0 \/ inv.cancelled THEN EndScan(inv, TRUE)
              ELSE EndScan([inv EXCEPT !.errors = TRUE], FALSE)
    /\ scan' = [scan EXCEPT !.pc = "monitor"]
    /\ UNCHANGED <<watching, ScannerKeeps, call>>

\* A watcher that could not be started before the scan is started after it.
RestartMonitor ==
    /\ scan.pc = "monitor"
    /\ scan' = [scan EXCEPT !.pc = "end"]
    /\ \E ok \in BOOLEAN :
         /\ watching' = (watching \/ ok)
         /\ inv' = IF watching \/ ok THEN inv ELSE RecordError(inv)
    /\ UNCHANGED <<ScannerKeeps, call>>

-----------------------------------------------------------------------------
(***************************************************************************)
(* The file system and the watcher (NewFileHandler).                       *)
(***************************************************************************)

Notice(e) == events' = IF watching THEN Append(events, e) ELSE events

Change(files, e) ==
    /\ changes < MaxChanges /\ changes' = changes + 1
    /\ disk' = files
    /\ Notice(e)
    /\ UNCHANGED <<inv, watching, event, task, scan, call, work, gaveUp>>

CreateFile(p) ==
    p \notin disk /\ Change(disk \cup {p}, [kind |-> "created", path |-> p, to |-> p])

\* on_modified is on_created without its first sleep.
ModifyFile(p) ==
    p \in disk /\ Change(disk, [kind |-> "created", path |-> p, to |-> p])

DeleteFile(p) ==
    p \in disk /\ Change(disk \ {p}, [kind |-> "deleted", path |-> p, to |-> p])

MoveFile(p, q) ==
    /\ p \in disk /\ q \notin disk
    /\ Change((disk \ {p}) \cup {q}, [kind |-> "moved", path |-> p, to |-> q])

NoEvent == [pc |-> "rest"]
WatcherAt(label) == event' = [event EXCEPT !.pc = label]

\* dispatch: the callback is bound to the scan if it comes before the cutoff.
Dispatch ==
    /\ event = NoEvent /\ events # << >>
    /\ LET bound == ~inv.finished /\ inv.open
           e == Head(events)
       IN  /\ inv' = IF bound THEN [inv EXCEPT !.inflight = @ + 1] ELSE inv
           /\ event' = [pc |-> e.kind, path |-> e.path, to |-> e.to, bound |-> bound]
    /\ events' = Tail(events)
    /\ UNCHANGED <<disk, changes, watching, task, scan, call, work, gaveUp>>

OnDeleted ==
    /\ event.pc = "deleted"
    /\ inv' = MarkRemoved(inv, event.path, event.bound)
    /\ WatcherAt("release")
    /\ UNCHANGED <<disk, changes, watching, events, task, scan, call, work, gaveUp>>

\* A move the inventory knows nothing of is a removal, which then changes
\* nothing either.
OnMoved ==
    /\ event.pc = "moved"
    /\ inv' = IF Known(inv, event.path)
              THEN MarkMoved(inv, event.path, event.to, event.bound)
              ELSE MarkRemoved(inv, event.path, event.bound)
    /\ WatcherAt("created")
    /\ UNCHANGED <<disk, changes, watching, events, task, scan, call, work, gaveUp>>

\* handle_event: only a file that is there, and whose size settles while it is
\* looked at, is processed.
OnCreated ==
    /\ event.pc = "created"
    /\ (event.to \in disk /\ WatcherAt("observe")) \/ WatcherAt("release")
    /\ UNCHANGED <<inv, disk, changes, watching, events, task, scan, call, work, gaveUp>>

ObserveItem ==
    /\ event.pc = "observe"
    /\ inv' = MarkObserved(inv, event.to, event.bound)
    /\ call' = [call EXCEPT ![Watcher] = Start(event.to, event.bound)]
    /\ WatcherAt("called")
    /\ UNCHANGED <<disk, changes, watching, events, task, scan, work, gaveUp>>

CreatedQueued ==
    /\ event.pc = "called" /\ call[Watcher].pc = "back"
    /\ call' = [call EXCEPT ![Watcher] = Rest]
    /\ WatcherAt("release")
    /\ UNCHANGED <<inv, disk, changes, watching, events, task, scan, work, gaveUp>>

ReleaseEvent ==
    /\ event.pc = "release"
    /\ inv' = IF event.bound THEN [inv EXCEPT !.inflight = Less(@)] ELSE inv
    /\ event' = NoEvent
    /\ UNCHANGED <<disk, changes, watching, events, task, scan, call, work, gaveUp>>

-----------------------------------------------------------------------------
(***************************************************************************)
(* transcription_worker, as far as the inventory is concerned, and the     *)
(* watchdog of the scan.                                                   *)
(***************************************************************************)

TakeTask(w) ==
    /\ work[w].pc = "rest"
    /\ \E p \in Paths :
         /\ task[p] = "queued"
         /\ task' = [task EXCEPT ![p] = "held"]
         /\ work' = [work EXCEPT ![w] = [pc |-> "wait", path |-> p]]
    /\ UNCHANGED <<inv, disk, changes, watching, events, event, scan, call, gaveUp>>

\* wait_until_scanned
WaitScanned(w) ==
    /\ work[w].pc = "wait" /\ inv.finished
    /\ work' = [work EXCEPT ![w].pc = "work"]
    /\ UNCHANGED <<inv, disk, changes, watching, events, event, task, scan, call, gaveUp>>

\* gen_subtitles and inventory_item_completed
Complete(w) ==
    /\ work[w].pc = "work"
    /\ inv' = MarkCompleted(inv, work[w].path)
    /\ gaveUp' = gaveUp \ {work[w].path}
    /\ work' = [work EXCEPT ![w].pc = "finish"]
    /\ UNCHANGED <<disk, changes, watching, events, event, task, scan, call>>

\* The task failed: the item still waits for its subtitle.
Fail(w) ==
    /\ work[w].pc = "work"
    /\ gaveUp' = gaveUp \cup {work[w].path}
    /\ work' = [work EXCEPT ![w].pc = "finish"]
    /\ UNCHANGED <<inv, disk, changes, watching, events, event, task, scan, call>>

\* A language detection is followed by the transcription.
Detect(w) ==
    /\ work[w].pc = "work"
    /\ work' = [work EXCEPT ![w].pc = "detected"]
    /\ UNCHANGED <<inv, disk, changes, watching, events, event, task, scan, call, gaveUp>>

MarkDone(w) ==
    /\ work[w].pc \in {"finish", "detected"}
    /\ task' = [task EXCEPT ![work[w].path] = "none"]
    /\ work' = [work EXCEPT ![w] = IF @.pc = "finish" THEN [pc |-> "rest"]
                                   ELSE [@ EXCEPT !.pc = "follow"]]
    /\ UNCHANGED <<inv, disk, changes, watching, events, event, scan, call, gaveUp>>

PutNext(w) ==
    /\ work[w].pc = "follow"
    /\ task' = IF task[work[w].path] = "none"
               THEN [task EXCEPT ![work[w].path] = "queued"] ELSE task
    /\ work' = [work EXCEPT ![w] = [pc |-> "rest"]]
    /\ UNCHANGED <<inv, disk, changes, watching, events, event, scan, call, gaveUp>>

Expire ==
    /\ MayFail
    /\ ~inv.finished
    /\ inv' = ExpireScan(inv)
    /\ UNCHANGED <<disk, changes, watching, events, event, task, scan, call, work, gaveUp>>

\* stop, at shutdown
Stop ==
    /\ MayFail
    /\ ~inv.finished
    /\ inv' = [inv EXCEPT !.cancelled = TRUE, !.open = FALSE,
                          !.complete = FALSE, !.finished = TRUE]
    /\ UNCHANGED <<disk, changes, watching, events, event, task, scan, call, work, gaveUp>>

-----------------------------------------------------------------------------

Init ==
    /\ inv = NewInventory
    /\ disk \in SUBSET Paths
    /\ changes = 0
    /\ watching = FALSE
    /\ events = << >>
    /\ event = NoEvent
    /\ task = [p \in Paths |-> "none"]
    /\ scan = [pc |-> "begin", libs |-> {}, lib |-> Other, todo |-> {}, listed |-> {},
               n |-> 0, failed |-> FALSE, primary |-> FALSE]
    /\ call = [c \in Callers |-> Rest]
    /\ work = [w \in Workers |-> [pc |-> "rest"]]
    /\ gaveUp = {}

Call(c) ==
    \/ CheckPolicy(c) \/ CheckScan(c) \/ Reserve(c) \/ Recheck(c)
    \/ PutTask(c) \/ Refused(c) \/ Cancel(c)

Scan ==
    \/ StartMonitor \/ AbandonScan \/ ListLibrary \/ WalkError \/ CountFile
    \/ CountDone \/ VisitFile \/ InspectError \/ FileVisited \/ LibraryDone
    \/ PhaseDone \/ AbandonFinal \/ CloseCutoff \/ DrainEvents \/ FinishScan
    \/ FinishDrained \/ RestartMonitor

Watch ==
    \/ Dispatch \/ OnDeleted \/ OnMoved \/ OnCreated \/ ObserveItem
    \/ CreatedQueued \/ ReleaseEvent

Work(w) ==
    \/ TakeTask(w) \/ WaitScanned(w) \/ Complete(w) \/ Fail(w) \/ Detect(w)
    \/ MarkDone(w) \/ PutNext(w)

FileSystem ==
    \/ \E p \in Paths : CreateFile(p) \/ ModifyFile(p) \/ DeleteFile(p)
    \/ \E p, q \in Paths : MoveFile(p, q)

Next ==
    \/ \E c \in Callers : Call(c)
    \/ \E h \in Hooks : HookCall(h) \/ HookReturn(h)
    \/ Scan \/ Watch \/ FileSystem \/ Expire \/ Stop
    \/ \E w \in Workers : Work(w)

Spec == Init /\ [][Next]_vars

\* A worker with a task, and the watchdog, go on; the scanner may hang in the
\* file system for ever.
Fairness == WF_vars(Expire) /\ \A w \in Workers : WF_vars(Work(w))

-----------------------------------------------------------------------------
(***************************************************************************)
(* Properties.                                                             *)
(***************************************************************************)

\* Each library's items_left is the number of its pending items, whatever the
\* queue, the watcher, the scan and the workers do to them, although the
\* counter is kept apart and clamped at 0.
LeftMatchesPending ==
    \A l \in Labels : inv.left[l] = Cardinality(In(l, inv.pending))

\* The watcher has handled every event.
Quiet == event = NoEvent /\ events = << >>

\* "scan_complete=true and scan_errors=0 together prove that the pass
\* completed cleanly": from then on, whenever the watcher has caught up, a
\* library's total is the number of files the inventory knows in it, and no more
\* of them count as scanned.  Fewer may: a counted file that is moved to another
\* library after the cutoff, before it was inspected, adds to the total alone.
\* The percentage is published as 100 all the same (mqtt_inventory.py:1114).
CleanScanIsExact ==
    inv.complete /\ ~inv.errors /\ Quiet =>
        \A l \in Libraries :
            /\ inv.total[l] = Cardinality(In(l, inv.counted))
            /\ inv.scanned[l] <= inv.total[l]

\* "Subgen Items Left is the number of discovered items still waiting for a
\* successful subtitle": with no event, request or failure in between, a
\* queued file that exists is one of them.
QueuedIsLeft ==
    /\ Quiet
    /\ \A c \in Callers : call[c] = Rest
    => \A p \in disk : task[p] = "queued" => p \in inv.pending

\* Fail-open barrier: a worker that holds a task is not held back for ever,
\* even if the scan never ends.
BarrierOpens == \A w \in Workers : work[w].pc = "wait" ~> work[w].pc # "wait"
=============================================================================

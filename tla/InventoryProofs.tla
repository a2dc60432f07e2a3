--------------------------- MODULE InventoryProofs ---------------------------
(***************************************************************************)
(* The counters of the startup inventory are exact, for every set of       *)
(* paths, libraries, webhooks and workers, every number of changes of the  *)
(* file system, and with every failure of the scan.                        *)
(*                                                                         *)
(* The backlog: _items_left of a library, which the coordinator keeps      *)
(* apart from _pending_items and clamps at 0, is the number of its pending *)
(* items.  The invariant (Matches) is about the coordinator alone, and     *)
(* each of its methods keeps it.  That a pending item is one of the paths, *)
(* without which it would have no library to be counted in, is a fact      *)
(* about the callers: what a thread hands to the coordinator came from the *)
(* disk or from a request (Places).                                        *)
(*                                                                         *)
(* A clean scan: total and scanned of a library count the files that the   *)
(* inventory knows in it.  Here the methods are not enough: the primary    *)
(* pass leaves the counters wrong, and only the final pass, library by     *)
(* library, and the end of the scan put them right (Settled, ScanInv).     *)
(***************************************************************************)
EXTENDS Inventory, FiniteSetTheorems, TLAPS

\* The pending items and the backlog of a coordinator.
Matches(v) ==
    /\ {"pending", "left"} \subseteq DOMAIN v
    /\ v.pending \in SUBSET Paths
    /\ v.left \in [Labels -> Nat]
    /\ \A l \in Labels : v.left[l] = Cardinality(In(l, v.pending))

Event == [kind : {"created", "deleted", "moved"}, path : Paths, to : Paths]

\* Every path in hand is a path.
Places ==
    /\ disk \subseteq Paths
    /\ {"pc", "libs", "lib", "todo", "listed", "n", "failed", "primary"} \subseteq DOMAIN scan
    /\ scan.todo \subseteq Paths /\ scan.libs \subseteq Labels /\ scan.lib \in Labels
    /\ events \in Seq(Event)
    /\ event.pc # "rest" => {"pc", "to"} \subseteq DOMAIN event /\ event.to \in Paths
    /\ DOMAIN call = Callers
    /\ \A c \in Callers : call[c].pc # "rest" => /\ {"pc", "path"} \subseteq DOMAIN call[c]
                                                 /\ call[c].path \in Paths

InvInv == Matches(inv) /\ Places

-----------------------------------------------------------------------------
(* The methods of the coordinator. *)

\* The items of one library are finitely many.
LEMMA LibraryFinite ==
    ASSUME NEW S \in SUBSET Paths, NEW l
    PROVE  IsFiniteSet(In(l, S)) /\ Cardinality(In(l, S)) \in Nat
<1>1. In(l, S) \subseteq Paths
    BY DEF In
<1> QED
    BY <1>1, InventoryAssumption, FS_Subset, FS_CardinalityType

\* One more pending item is one more in its library, and in no other.
LEMMA LibraryGrows ==
    ASSUME NEW S \in SUBSET Paths, NEW p \in Paths, p \notin S, NEW l
    PROVE  Cardinality(In(l, S \cup {p})) =
               IF l = LabelOf[p] THEN Cardinality(In(l, S)) + 1 ELSE Cardinality(In(l, S))
<1>1. CASE l = LabelOf[p]
  <2>1. In(l, S \cup {p}) = In(l, S) \cup {p} /\ p \notin In(l, S)
      BY <1>1 DEF In
  <2> QED
      BY <1>1, <2>1, LibraryFinite, FS_AddElement
<1>2. CASE l # LabelOf[p]
  <2>1. In(l, S \cup {p}) = In(l, S)
      BY <1>2 DEF In
  <2> QED
      BY <1>2, <2>1
<1> QED
    BY <1>1, <1>2

\* One less pending item is one less in its library, and in no other.
LEMMA LibraryShrinks ==
    ASSUME NEW S \in SUBSET Paths, NEW p \in S, NEW l
    PROVE  /\ Cardinality(In(l, S \ {p})) =
                  IF l = LabelOf[p] THEN Cardinality(In(l, S)) - 1 ELSE Cardinality(In(l, S))
           /\ l = LabelOf[p] => Cardinality(In(l, S)) > 0
<1>1. CASE l = LabelOf[p]
  <2>1. In(l, S \ {p}) = In(l, S) \ {p} /\ p \in In(l, S)
      BY <1>1 DEF In
  <2>2. Cardinality(In(l, S)) # 0
    <3>1. In(l, S) # {} /\ IsFiniteSet(In(l, S))
        BY <2>1, LibraryFinite
    <3> QED
        BY <3>1, FS_EmptySet
  <2>3. IsFiniteSet(In(l, S)) /\ Cardinality(In(l, S)) \in Nat
      BY LibraryFinite
  <2>4. Cardinality(In(l, S) \ {p}) = Cardinality(In(l, S)) - 1
      BY <2>1, <2>3, FS_RemoveElement
  <2>5. Cardinality(In(l, S \ {p})) = Cardinality(In(l, S)) - 1
      BY <2>1, <2>4
  <2>6. Cardinality(In(l, S)) > 0
      BY <2>2, <2>3
  <2> QED
      BY <1>1, <2>5, <2>6
<1>2. CASE l # LabelOf[p]
  <2>1. In(l, S \ {p}) = In(l, S)
      BY <1>2 DEF In
  <2> QED
      BY <1>2, <2>1
<1> QED
    BY <1>1, <1>2

\* A method that leaves the pending items and the backlog alone.
LEMMA Untouched ==
    ASSUME NEW v, Matches(v), NEW w, DOMAIN w = DOMAIN v,
           w.pending = v.pending, w.left = v.left
    PROVE  Matches(w)
BY DEF Matches

\* mark_queued: the item is new in its library.
LEMMA QueuedMatches ==
    ASSUME NEW v, Matches(v), NEW p \in Paths, p \notin v.pending, NEW w,
           {"pending", "left"} \subseteq DOMAIN w,
           w.pending = v.pending \cup {p},
           w.left = [v.left EXCEPT ![LabelOf[p]] = @ + 1]
    PROVE  Matches(w)
<1>1. LabelOf[p] \in Labels /\ v.left \in [Labels -> Nat] /\ v.pending \in SUBSET Paths
    BY InventoryAssumption DEF Matches
<1>2. w.left \in [Labels -> Nat] /\ w.pending \in SUBSET Paths
    BY <1>1
<1>3. ASSUME NEW l \in Labels PROVE w.left[l] = Cardinality(In(l, w.pending))
    BY <1>1, LibraryGrows DEF Matches
<1> QED
    BY <1>2, <1>3 DEF Matches

\* What completing, cancelling, removing and moving a pending item share: the
\* clamp at 0 is never reached.
LEMMA UnqueueMatches ==
    ASSUME NEW v, Matches(v), NEW p
    PROVE  Matches(Unqueue(v, p)) /\ DOMAIN Unqueue(v, p) = DOMAIN v
<1>1. CASE p \notin v.pending
    BY <1>1 DEF Unqueue
<1>2. CASE p \in v.pending
  <2> DEFINE w == Unqueue(v, p)
  <2>1. /\ LabelOf[p] \in Labels /\ v.left \in [Labels -> Nat]
        /\ v.pending \in SUBSET Paths /\ p \in Paths
      BY <1>2, InventoryAssumption DEF Matches
  <2>2. /\ DOMAIN w = DOMAIN v
        /\ w.pending = v.pending \ {p}
        /\ w.left = [v.left EXCEPT ![LabelOf[p]] = Less(v.left[LabelOf[p]])]
      BY <1>2 DEF Unqueue, Matches
  <2>3. /\ v.left[LabelOf[p]] \in Nat /\ v.left[LabelOf[p]] > 0
        /\ v.left[LabelOf[p]] = Cardinality(In(LabelOf[p], v.pending))
      BY <1>2, <2>1, LibraryShrinks DEF Matches
  <2>4. Less(v.left[LabelOf[p]]) = v.left[LabelOf[p]] - 1
      BY <2>3 DEF Less, AtLeast
  <2> HIDE DEF w
  <2>5. w.left \in [Labels -> Nat] /\ w.pending \in SUBSET Paths
      BY <2>1, <2>2, <2>3, <2>4
  <2>6. ASSUME NEW l \in Labels PROVE w.left[l] = Cardinality(In(l, w.pending))
      BY <1>2, <2>1, <2>2, <2>4, LibraryShrinks DEF Matches
  <2>7. Matches(w)
      BY <2>2, <2>5, <2>6 DEF Matches
  <2> QED
      BY <2>2, <2>7 DEF w
<1> QED
    BY <1>1, <1>2

\* The methods that count and observe.
LEMMA CountingMatches ==
    ASSUME NEW v, Matches(v), NEW p, NEW l, NEW n, NEW bound
    PROVE  /\ Matches(RecordError(v))
           /\ Matches(RecordCounted(v, p))
           /\ Matches(SetTotal(v, l, n))
           /\ Matches(RecordScanned(v, p))
           /\ Matches(MarkObserved(v, p, bound))
<1>1. Matches(RecordError(v))
    BY Untouched DEF RecordError, Matches
<1>2. Matches(RecordCounted(v, p))
    BY Untouched DEF RecordCounted, Matches
<1>3. Matches(SetTotal(v, l, n))
    BY Untouched DEF SetTotal, Matches
<1>4. Matches(RecordScanned(v, p))
    BY Untouched DEF RecordScanned, Matches
<1>5. Matches(MarkObserved(v, p, bound))
    BY Untouched DEF MarkObserved, Arrive, Count, Matches
<1> QED
    BY <1>1, <1>2, <1>3, <1>4, <1>5

\* mark_queued, of a startup or a runtime item, before or after the scan.
LEMMA MarkQueuedMatches ==
    ASSUME NEW v, Matches(v), NEW p \in Paths, NEW startup, NEW bound
    PROVE  Matches(MarkQueued(v, p, startup, bound))
<1>1. CASE p \in v.pending
    BY <1>1 DEF MarkQueued
<1>2. CASE p \notin v.pending
  <2> DEFINE w == MarkQueued(v, p, startup, bound)
             q == [v EXCEPT !.pending = @ \cup {p}, !.postRemoved = @ \ {p},
                            !.left[LabelOf[p]] = @ + 1]
  <2>1. /\ DOMAIN q = DOMAIN v
        /\ q.pending = v.pending \cup {p}
        /\ q.left = [v.left EXCEPT ![LabelOf[p]] = @ + 1]
      BY DEF Matches
  <2> HIDE DEF q
  <2>2. w = q \/ w = Arrive(q, p, bound) \/ w = [Count(q, p) EXCEPT !.early = @ \cup {p}]
      BY <1>2 DEF MarkQueued, q
  <2>3. DOMAIN w = DOMAIN q /\ w.pending = q.pending /\ w.left = q.left
      BY <2>1, <2>2 DEF Arrive, Count, Matches
  <2> HIDE DEF w
  <2>4. {"pending", "left"} \subseteq DOMAIN w
      BY <2>1, <2>3 DEF Matches
  <2>5. Matches(w)
      BY <1>2, <2>1, <2>3, <2>4, QueuedMatches
  <2> QED
      BY <2>5 DEF w
<1> QED
    BY <1>1, <1>2

\* cancel_queue.
LEMMA CancelMatches ==
    ASSUME NEW v, Matches(v), NEW p
    PROVE  Matches(CancelQueue(v, p))
<1> DEFINE w == Unqueue(v, p)
<1>1. Matches(w)
    BY UnqueueMatches
<1> HIDE DEF w
<1>2. Matches([w EXCEPT !.counted = @ \ {p}, !.total[LabelOf[p]] = Less(@),
                        !.scanned[LabelOf[p]] = Less(@)])
    BY <1>1, Untouched DEF Matches
<1> QED
    BY <1>1, <1>2 DEF CancelQueue, w

\* mark_removed.
LEMMA RemovedMatches ==
    ASSUME NEW v, Matches(v), NEW p, NEW bound
    PROVE  /\ Matches(Forget(v, p, bound))
           /\ Matches(MarkRemoved(v, p, bound))
<1> DEFINE w == Unqueue(v, p)
           f == Forget(v, p, bound)
<1>1. Matches(w)
    BY UnqueueMatches
<1>2. Matches(f)
  <2> HIDE DEF w
  <2>1. Matches([w EXCEPT
            !.counted = @ \ {p}, !.runtime = @ \ {p}, !.postRuntime = @ \ {p},
            !.seen = @ \ {p}, !.unvisited = @ \ {p},
            !.postRemoved = IF ~bound /\ ~v.finished /\ ~v.open /\ Known(v, p)
                            THEN @ \cup {p} ELSE @])
      BY <1>1, Untouched DEF Matches
  <2> QED
      BY <2>1 DEF Forget, w
<1> HIDE DEF f
<1>3. Matches(Uncount(f, LabelOf[p], WasScanned(v, p)))
    BY <1>2, Untouched DEF Matches, Uncount
<1> QED
    BY <1>2, <1>3 DEF MarkRemoved, f

\* mark_moved.
LEMMA MovedMatches ==
    ASSUME NEW v, Matches(v), NEW p, NEW q, NEW bound
    PROVE  Matches(MarkMoved(v, p, q, bound))
<1> DEFINE from == LabelOf[p]
           to == LabelOf[q]
           was == WasScanned(v, p)
           transfer == p \in v.counted /\ to # Other /\ q \notin v.counted
           a == Forget(v, p, bound)
           b == IF p \in v.counted /\ (~transfer \/ from # to)
                THEN Uncount(a, from, was) ELSE a
           c == [b EXCEPT
                   !.counted = @ \cup {q}, !.postRemoved = @ \ {q},
                   !.seen = IF was THEN @ \cup {q} ELSE @,
                   !.unvisited = IF ~was /\ p \in v.unvisited THEN @ \cup {q} ELSE @,
                   !.total[to] = IF from # to THEN @ + 1 ELSE @,
                   !.scanned[to] = IF from # to /\ was THEN @ + 1 ELSE @]
<1>1. MarkMoved(v, p, q, bound) =
         IF ~transfer THEN b ELSE IF v.finished THEN c ELSE Arrive(c, q, bound)
    BY DEF MarkMoved
<1>2. Matches(a)
    BY RemovedMatches
<1> HIDE DEF a, transfer, was, from, to
<1>3. Matches(b)
    BY <1>2, Untouched DEF Matches, Uncount
<1> HIDE DEF b
<1>4. Matches(c)
    BY <1>3, Untouched DEF Matches
<1> HIDE DEF c
<1>5. Matches(Arrive(c, q, bound))
    BY <1>4, Untouched DEF Matches, Arrive
<1> QED
    BY <1>1, <1>3, <1>4, <1>5

\* _reconcile_runtime_additions_locked, and the ends of the scan around it.
LEMMA ScanEndMatches ==
    ASSUME NEW v, Matches(v), NEW ok
    PROVE  /\ Matches(ReconcileRuntime(v, ok))
           /\ Matches(EndScan(v, ok))
           /\ Matches(ExpireScan(v))
<1>1. ASSUME NEW drop PROVE Matches(ReconcileRuntime(v, drop))
    BY Untouched DEF ReconcileRuntime, Matches
<1>2. Matches(EndScan(v, ok))
  <2> DEFINE good == ok /\ ~v.cancelled
             w == ReconcileRuntime(v, good)
  <2>1. Matches(w)
      BY <1>1
  <2> HIDE DEF w
  <2>2. Matches([w EXCEPT !.complete = good, !.finished = TRUE])
      BY <2>1, Untouched DEF Matches
  <2> QED
      BY <2>2 DEF EndScan, w
<1>3. Matches(ExpireScan(v))
  <2> DEFINE w == ReconcileRuntime(v, FALSE)
  <2>1. Matches(w)
      BY <1>1
  <2> HIDE DEF w
  <2>2. Matches([w EXCEPT !.cancelled = TRUE, !.open = FALSE, !.complete = FALSE,
                          !.finished = TRUE, !.errors = TRUE])
      BY <2>1, Untouched DEF Matches
  <2> QED
      BY <2>2 DEF ExpireScan, w
<1> QED
    BY <1>1, <1>2, <1>3

\* reconcile_final_library drops pending items of its own library only, and
\* counts what is left of them.
LEMMA LibraryReconciled ==
    ASSUME NEW v, Matches(v), NEW l \in Labels, NEW listed
    PROVE  Matches(ReconcileLibrary(v, l, listed))
<1> DEFINE keys == listed \ v.postRemoved
           gone == {p \in In(l, v.pending) : p \notin keys \cup v.postRuntime}
           rest == v.pending \ gone
           w == ReconcileLibrary(v, l, listed)
<1>1. gone \subseteq In(l, v.pending)
    OBVIOUS
<1>2. /\ DOMAIN w = DOMAIN v
      /\ w.pending = rest
      /\ w.left = [v.left EXCEPT ![l] = Cardinality(In(l, rest))]
    BY DEF ReconcileLibrary, Matches
<1>3. v.pending \in SUBSET Paths /\ rest \in SUBSET Paths /\ v.left \in [Labels -> Nat]
    BY DEF Matches
<1>4. \A k \in Labels : k # l => In(k, rest) = In(k, v.pending)
    BY <1>1 DEF In
<1> HIDE DEF w, rest, gone, keys
<1>5. w.left \in [Labels -> Nat]
    BY <1>2, <1>3, LibraryFinite
<1>6. ASSUME NEW k \in Labels PROVE w.left[k] = Cardinality(In(k, w.pending))
    BY <1>2, <1>3, <1>4 DEF Matches
<1>7. Matches(w)
    BY <1>2, <1>3, <1>5, <1>6 DEF Matches
<1> QED
    BY <1>7 DEF w

-----------------------------------------------------------------------------
(* The threads. *)

\* A thread's own move to another line.
LEMMA CallMoves ==
    ASSUME Places, NEW c \in Callers, NEW label, call[c].pc # "rest", At(c, label)
    PROVE  /\ DOMAIN call' = Callers
           /\ \A d \in Callers : call'[d].pc # "rest" =>
                 {"pc", "path"} \subseteq DOMAIN call'[d] /\ call'[d].path \in Paths
BY DEF Places, At

\* Places holds of the callers after a thread was started or came to rest.
LEMMA CallReplaced ==
    ASSUME Places, NEW c \in Callers, NEW r,
           r = Rest \/ \E p \in Paths, b \in BOOLEAN : r = Start(p, b),
           call' = [call EXCEPT ![c] = r]
    PROVE  /\ DOMAIN call' = Callers
           /\ \A d \in Callers : call'[d].pc # "rest" =>
                 {"pc", "path"} \subseteq DOMAIN call'[d] /\ call'[d].path \in Paths
<1>1. r.pc # "rest" => {"pc", "path"} \subseteq DOMAIN r /\ r.path \in Paths
    BY DEF Rest, Start
<1> QED
    BY <1>1 DEF Places

\* gen_subtitles_queue and _put_task_with_inventory.
LEMMA CallKeeps ==
    ASSUME InvInv, NEW c \in Callers, Call(c)
    PROVE  InvInv'
<1>1. CASE CheckPolicy(c) \/ CheckScan(c) \/ Recheck(c) \/ PutTask(c) \/ Refused(c)
  <2>1. /\ UNCHANGED <<inv, disk, events, event, scan>>
        /\ call[c].pc # "rest"
        /\ \E label \in {"back", "check", "reserve", "put", "cancel", "refused"} : At(c, label)
      BY <1>1 DEF CheckPolicy, CheckScan, Recheck, PutTask, Refused
  <2>2. InvInv => Places
      BY DEF InvInv
  <2>3. /\ DOMAIN call' = Callers
        /\ \A d \in Callers : call'[d].pc # "rest" =>
              {"pc", "path"} \subseteq DOMAIN call'[d] /\ call'[d].path \in Paths
      BY <2>1, <2>2, CallMoves
  <2> QED
      BY <2>1, <2>3 DEF InvInv, Places
<1>2. CASE Reserve(c)
  <2>1. /\ UNCHANGED <<disk, events, event, scan>>
        /\ call[c].pc = "reserve" /\ call[c].path \in Paths
        /\ inv' = MarkQueued(inv, call[c].path, c = Scanner, call[c].bound)
        /\ call' = [call EXCEPT ![c].pc = "recheck",
                                ![c].reserved = call[c].path \notin inv.pending]
      BY <1>2 DEF Reserve, InvInv, Places
  <2>2. Matches(inv')
      BY <2>1, MarkQueuedMatches DEF InvInv
  <2>3. /\ DOMAIN call' = Callers
        /\ \A d \in Callers : call'[d].pc # "rest" =>
              {"pc", "path"} \subseteq DOMAIN call'[d] /\ call'[d].path \in Paths
      BY <2>1 DEF InvInv, Places
  <2> QED
      BY <2>1, <2>2, <2>3 DEF InvInv, Places
<1>3. CASE Cancel(c)
  <2>1. /\ UNCHANGED <<disk, events, event, scan>>
        /\ call[c].pc = "cancel"
        /\ inv' = CancelQueue(inv, call[c].path)
        /\ At(c, "back")
      BY <1>3 DEF Cancel
  <2>2. Matches(inv')
      BY <2>1, CancelMatches DEF InvInv
  <2>3. /\ DOMAIN call' = Callers
        /\ \A d \in Callers : call'[d].pc # "rest" =>
              {"pc", "path"} \subseteq DOMAIN call'[d] /\ call'[d].path \in Paths
      BY <2>1, CallMoves DEF InvInv
  <2> QED
      BY <2>1, <2>2, <2>3 DEF InvInv, Places
<1> QED
    BY <1>1, <1>2, <1>3 DEF Call

\* The webhooks.
LEMMA HookKeeps ==
    ASSUME InvInv, NEW h \in Hooks, HookCall(h) \/ HookReturn(h)
    PROVE  InvInv'
<1>1. h \in Callers
    BY DEF Callers
<1>2. UNCHANGED <<inv, disk, events, event, scan>>
    BY DEF HookCall, HookReturn
<1>3. PICK r : /\ r = Rest \/ \E p \in Paths, b \in BOOLEAN : r = Start(p, b)
               /\ call' = [call EXCEPT ![h] = r]
    BY DEF HookCall, HookReturn
<1>4. /\ DOMAIN call' = Callers
      /\ \A d \in Callers : call'[d].pc # "rest" =>
            {"pc", "path"} \subseteq DOMAIN call'[d] /\ call'[d].path \in Paths
    BY <1>1, <1>3, CallReplaced DEF InvInv
<1> QED
    BY <1>2, <1>4 DEF InvInv, Places

\* The scanner is one of the callers; the labels are libraries or Other.
LEMMA ScannerIsCaller == Scanner \in Callers /\ Watcher \in Callers
                         /\ Other \in Labels /\ Libraries \subseteq Labels
BY DEF Callers, Labels

\* A step of the scanner that leaves its call alone.
LEMMA ScanMoves ==
    ASSUME InvInv, UNCHANGED <<disk, events, event, call>>, Matches(inv'),
           DOMAIN scan' = DOMAIN scan,
           scan'.todo \subseteq Paths, scan'.libs \subseteq Labels, scan'.lib \in Labels
    PROVE  InvInv'
BY DEF InvInv, Places

\* The walks and counts of the scanner.
LEMMA WalkKeeps ==
    ASSUME InvInv, \/ StartMonitor \/ AbandonScan \/ ListLibrary \/ WalkError
                   \/ CountFile \/ CountDone
    PROVE  InvInv'
<1> USE ScannerIsCaller
<1>1. CASE StartMonitor
  <2>1. Matches(inv')
      BY <1>1, CountingMatches DEF StartMonitor, InvInv
  <2> QED
      BY <1>1, <2>1, ScanMoves DEF StartMonitor, ScannerKeeps, InvInv, Places
<1>2. CASE AbandonScan
    BY <1>2, ScanMoves DEF AbandonScan, ScannerKeeps, InvInv, Places
<1>3. CASE ListLibrary
  <2>1. PICK l \in scan.libs : scan' = [scan EXCEPT !.lib = l, !.libs = @ \ {l}, !.n = 0,
                                            !.todo = In(l, disk), !.listed = {}]
      BY <1>3 DEF ListLibrary
  <2>2. In(l, disk) \subseteq Paths /\ l \in Labels
      BY DEF In, InvInv, Places
  <2>3. UNCHANGED <<inv, disk, events, event, call>>
      BY <1>3 DEF ListLibrary, ScannerKeeps
  <2> QED
      BY <2>1, <2>2, <2>3, ScanMoves DEF InvInv, Places
<1>4. CASE WalkError
  <2>1. Matches(inv')
      BY <1>4, CountingMatches DEF WalkError, InvInv
  <2> QED
      BY <1>4, <2>1, ScanMoves DEF WalkError, ScannerKeeps, InvInv, Places
<1>5. CASE CountFile
  <2>1. PICK p \in scan.todo : /\ inv' = RecordCounted(inv, p)
                               /\ scan' = [scan EXCEPT !.todo = @ \ {p}, !.n = @ + 1]
      BY <1>5 DEF CountFile
  <2>2. Matches(inv')
      BY <2>1, CountingMatches DEF InvInv
  <2>3. UNCHANGED <<disk, events, event, call>>
      BY <1>5 DEF CountFile, ScannerKeeps
  <2> QED
      BY <2>1, <2>2, <2>3, ScanMoves DEF InvInv, Places
<1>6. CASE CountDone
  <2>1. Matches(inv')
      BY <1>6, CountingMatches DEF CountDone, InvInv
  <2> QED
      BY <1>6, <2>1, ScanMoves DEF CountDone, ScannerKeeps, InvInv, Places
<1> QED
    BY <1>1, <1>2, <1>3, <1>4, <1>5, <1>6

\* The inspection of one file, which the scanner queues itself.
LEMMA VisitKeeps ==
    ASSUME InvInv, VisitFile \/ InspectError \/ FileVisited
    PROVE  InvInv'
<1> USE ScannerIsCaller
<1>1. CASE VisitFile
  <2>1. PICK p \in scan.todo :
           /\ scan' = [scan EXCEPT !.todo = @ \ {p}, !.listed = @ \cup {p}]
           /\ \/ call' = [call EXCEPT ![Scanner] = Start(p, TRUE)]
              \/ UNCHANGED call
      BY <1>1 DEF VisitFile
  <2>2. UNCHANGED <<inv, disk, events, event>> /\ p \in Paths
      BY <1>1 DEF VisitFile, ScannerKeeps, InvInv, Places
  <2>3. CASE UNCHANGED call
      BY <2>1, <2>2, <2>3, ScanMoves DEF InvInv, Places
  <2>4. CASE call' = [call EXCEPT ![Scanner] = Start(p, TRUE)]
    <3>1. \E q \in Paths, b \in BOOLEAN : Start(p, TRUE) = Start(q, b)
        BY <2>2
    <3>2. /\ DOMAIN call' = Callers
          /\ \A d \in Callers : call'[d].pc # "rest" =>
                {"pc", "path"} \subseteq DOMAIN call'[d] /\ call'[d].path \in Paths
        BY <2>4, <3>1, CallReplaced DEF InvInv
    <3> QED
        BY <2>1, <2>2, <3>2 DEF InvInv, Places
  <2> QED
      BY <2>1, <2>3, <2>4
<1>2. CASE InspectError
  <2>1. /\ UNCHANGED <<disk, events, event>> /\ call[Scanner].pc # "rest"
        /\ At(Scanner, "back") /\ inv' = RecordError(inv)
        /\ scan' = [scan EXCEPT !.failed = TRUE, !.primary = @ \/ scan.pc # "final"]
      BY <1>2 DEF InspectError, ScannerKeeps
  <2>2. Matches(inv')
      BY <2>1, CountingMatches DEF InvInv
  <2>3. /\ DOMAIN call' = Callers
        /\ \A d \in Callers : call'[d].pc # "rest" =>
              {"pc", "path"} \subseteq DOMAIN call'[d] /\ call'[d].path \in Paths
      BY <2>1, CallMoves DEF InvInv
  <2> QED
      BY <2>1, <2>2, <2>3 DEF InvInv, Places
<1>3. CASE FileVisited
  <2>1. /\ UNCHANGED <<disk, events, event, scan>>
        /\ inv' = RecordScanned(inv, call[Scanner].path)
        /\ call' = [call EXCEPT ![Scanner] = Rest]
      BY <1>3 DEF FileVisited, ScannerKeeps
  <2>2. Matches(inv')
      BY <2>1, CountingMatches DEF InvInv
  <2>3. /\ DOMAIN call' = Callers
        /\ \A d \in Callers : call'[d].pc # "rest" =>
              {"pc", "path"} \subseteq DOMAIN call'[d] /\ call'[d].path \in Paths
      BY <2>1, CallReplaced DEF InvInv
  <2> QED
      BY <2>1, <2>2, <2>3 DEF InvInv, Places
<1> QED
    BY <1>1, <1>2, <1>3

\* The end of a library, of a phase and of the scan.
LEMMA ScanEndKeeps ==
    ASSUME InvInv,
           \/ LibraryDone \/ PhaseDone \/ AbandonFinal \/ CloseCutoff \/ DrainEvents
           \/ FinishScan \/ FinishDrained \/ RestartMonitor
    PROVE  InvInv'
<1> USE ScannerIsCaller
<1>1. Matches([inv EXCEPT !.open = FALSE]) /\ Matches([inv EXCEPT !.errors = TRUE])
    BY Untouched DEF InvInv, Matches
<1>2. Matches(inv')
  <2>1. CASE LibraryDone
      BY <2>1, LibraryReconciled DEF LibraryDone, InvInv, Places
  <2>2. CASE PhaseDone \/ AbandonFinal
      BY <2>2 DEF PhaseDone, AbandonFinal, InvInv
  <2>3. CASE CloseCutoff
      BY <1>1, <2>3 DEF CloseCutoff
  <2>4. CASE DrainEvents \/ RestartMonitor
      BY <2>4, CountingMatches DEF DrainEvents, RestartMonitor, InvInv
  <2>5. CASE FinishScan
    <3>1. Matches(EndScan([inv EXCEPT !.open = FALSE], ~scan.failed))
        BY <1>1, ScanEndMatches
    <3> QED
        BY <1>1, <2>5, <3>1 DEF FinishScan
  <2>6. CASE FinishDrained
      BY <1>1, <2>6, ScanEndMatches DEF FinishDrained, InvInv
  <2> QED
      BY <2>1, <2>2, <2>3, <2>4, <2>5, <2>6
<1>3. /\ UNCHANGED <<disk, events, event, call>>
      /\ \/ \E p \in {"drain", "monitor", "finishWait", "end"} :
               scan' = [scan EXCEPT !.pc = p]
         \/ scan' = [scan EXCEPT !.lib = Other]
         \/ \E p \in {"inspect", "finish", "cutoff", "final"} :
               scan' = [scan EXCEPT !.pc = p, !.libs = Libraries]
         \/ scan' = [scan EXCEPT !.pc = "finish", !.failed = TRUE]
    BY DEF LibraryDone, PhaseDone, AbandonFinal, CloseCutoff, DrainEvents, FinishScan,
           FinishDrained, RestartMonitor, Phase, ScannerKeeps
<1> QED
    BY <1>2, <1>3, ScanMoves DEF InvInv, Places

\* The callbacks of the watcher.
LEMMA WatchKeeps ==
    ASSUME InvInv, Watch
    PROVE  InvInv'
<1> USE ScannerIsCaller
<1>1. CASE Dispatch
  <2>1. /\ events # <<>> /\ events' = Tail(events) /\ UNCHANGED <<disk, scan, call>>
        /\ inv' \in {inv, [inv EXCEPT !.inflight = @ + 1]}
        /\ event' = [pc |-> Head(events).kind, path |-> Head(events).path,
                     to |-> Head(events).to, bound |-> ~inv.finished /\ inv.open]
      BY <1>1 DEF Dispatch
  <2>2. events \in Seq(Event)
      BY DEF InvInv, Places
  <2>3. events' \in Seq(Event) /\ Head(events) \in Event
      BY <2>1, <2>2
  <2>4. Head(events).to \in Paths
      BY <2>3 DEF Event
  <2>5. {"pc", "to"} \subseteq DOMAIN event' /\ event'.to \in Paths
      BY <2>1, <2>4
  <2>6. Matches(inv')
      BY <2>1, Untouched DEF InvInv, Matches
  <2> QED
      BY <2>1, <2>3, <2>5, <2>6 DEF InvInv, Places
<1>2. CASE OnDeleted \/ OnMoved
  <2>1. /\ UNCHANGED <<disk, events, scan, call>>
        /\ event.pc # "rest"
        /\ \E label \in {"release", "created"} : event' = [event EXCEPT !.pc = label]
      BY <1>2 DEF OnDeleted, OnMoved, WatcherAt
  <2>2. Matches(inv')
      BY <1>2, RemovedMatches, MovedMatches DEF OnDeleted, OnMoved, InvInv
  <2> QED
      BY <2>1, <2>2 DEF InvInv, Places
<1>3. CASE OnCreated
  <2>1. /\ UNCHANGED <<inv, disk, events, scan, call>>
        /\ event.pc # "rest"
        /\ \E label \in {"release", "observe"} : event' = [event EXCEPT !.pc = label]
      BY <1>3 DEF OnCreated, WatcherAt
  <2> QED
      BY <2>1 DEF InvInv, Places
<1>4. CASE ObserveItem
  <2>1. /\ UNCHANGED <<disk, events, scan>>
        /\ event.pc # "rest" /\ event.to \in Paths
        /\ inv' = MarkObserved(inv, event.to, event.bound)
        /\ call' = [call EXCEPT ![Watcher] = Start(event.to, event.bound)]
        /\ event' = [event EXCEPT !.pc = "called"]
      BY <1>4 DEF ObserveItem, WatcherAt, InvInv, Places
  <2>2. Matches(inv')
      BY <2>1, CountingMatches DEF InvInv
  <2>3. /\ DOMAIN call' = Callers
        /\ \A d \in Callers : call'[d].pc # "rest" =>
              {"pc", "path"} \subseteq DOMAIN call'[d] /\ call'[d].path \in Paths
      BY <2>1 DEF Start, InvInv, Places
  <2> QED
      BY <2>1, <2>2, <2>3 DEF InvInv, Places
<1>5. CASE CreatedQueued
  <2>1. /\ UNCHANGED <<inv, disk, events, scan>> /\ event.pc # "rest"
        /\ call' = [call EXCEPT ![Watcher] = Rest]
        /\ event' = [event EXCEPT !.pc = "release"]
      BY <1>5 DEF CreatedQueued, WatcherAt
  <2>2. /\ DOMAIN call' = Callers
        /\ \A d \in Callers : call'[d].pc # "rest" =>
              {"pc", "path"} \subseteq DOMAIN call'[d] /\ call'[d].path \in Paths
      BY <2>1, CallReplaced DEF InvInv
  <2> QED
      BY <2>1, <2>2 DEF InvInv, Places
<1>6. CASE ReleaseEvent
  <2>1. /\ UNCHANGED <<disk, events, scan, call>> /\ event'.pc = "rest"
        /\ inv' \in {inv, [inv EXCEPT !.inflight = Less(@)]}
      BY <1>6 DEF ReleaseEvent, NoEvent
  <2>2. Matches(inv')
      BY <2>1, Untouched DEF InvInv, Matches
  <2> QED
      BY <2>1, <2>2 DEF InvInv, Places
<1> QED
    BY <1>1, <1>2, <1>3, <1>4, <1>5, <1>6 DEF Watch

\* The file system changes, and the watcher's queue grows.
LEMMA FileSystemKeeps ==
    ASSUME InvInv, FileSystem
    PROVE  InvInv'
<1>1. PICK files \in SUBSET Paths, e \in Event : Change(files, e)
  <2>1. CASE \E p \in Paths : CreateFile(p)
      BY <2>1 DEF CreateFile, Event, InvInv, Places
  <2>2. CASE \E p \in Paths : ModifyFile(p)
      BY <2>2 DEF ModifyFile, Event, InvInv, Places
  <2>3. CASE \E p \in Paths : DeleteFile(p)
      BY <2>3 DEF DeleteFile, Event, InvInv, Places
  <2>4. CASE \E p, q \in Paths : MoveFile(p, q)
      BY <2>4 DEF MoveFile, Event, InvInv, Places
  <2> QED
      BY <2>1, <2>2, <2>3, <2>4 DEF FileSystem
<1>2. /\ disk' = files /\ events' \in {events, Append(events, e)}
      /\ UNCHANGED <<inv, event, scan, call>>
    BY <1>1 DEF Change, Notice
<1>3. events \in Seq(Event)
    BY DEF InvInv, Places
<1>4. events' \in Seq(Event)
    BY <1>2, <1>3
<1> QED
    BY <1>2, <1>4 DEF InvInv, Places

\* The workers, the watchdog of the scan and the shutdown.
LEMMA OthersKeep ==
    ASSUME InvInv, Expire \/ Stop \/ \E w \in Workers : Work(w)
    PROVE  InvInv'
<1>1. UNCHANGED <<disk, events, event, scan, call>>
    BY DEF Expire, Stop, Work, TakeTask, WaitScanned, Complete, Fail, Detect, MarkDone, PutNext
<1>2. Matches(inv')
  <2>1. CASE Expire
      BY <2>1, ScanEndMatches DEF Expire, InvInv
  <2>2. CASE Stop
      BY <2>2, Untouched DEF Stop, InvInv, Matches
  <2>3. ASSUME NEW w \in Workers, Work(w) PROVE Matches(inv')
    <3>1. inv' = inv \/ inv' = MarkCompleted(inv, work[w].path)
        BY <2>3 DEF Work, TakeTask, WaitScanned, Complete, Fail, Detect, MarkDone, PutNext
    <3> QED
        BY <3>1, UnqueueMatches DEF MarkCompleted, InvInv
  <2> QED
      BY <2>1, <2>2, <2>3
<1> QED
    BY <1>1, <1>2 DEF InvInv, Places

-----------------------------------------------------------------------------
(* The theorem. *)

\* A fresh coordinator has nothing pending.
LEMMA InitMatches == Init => InvInv
<1> SUFFICES ASSUME Init PROVE InvInv
    OBVIOUS
<1>1. Matches(inv)
  <2>1. \A l \in Labels : In(l, {}) = {}
      BY DEF In
  <2>2. Cardinality({}) = 0
      BY FS_EmptySet
  <2> QED
      BY <2>1, <2>2 DEF Init, NewInventory, Matches
<1>2. Places
    BY DEF Init, Places, Rest, NoEvent, Labels
<1> QED
    BY <1>1, <1>2 DEF InvInv

\* Every step keeps the invariant.
LEMMA NextMatches == InvInv /\ [Next]_vars => InvInv'
<1> SUFFICES ASSUME InvInv, [Next]_vars PROVE InvInv'
    OBVIOUS
<1>1. CASE UNCHANGED vars
    BY <1>1 DEF vars, InvInv, Places
<1>2. CASE Next
    BY <1>2, CallKeeps, HookKeeps, WalkKeeps, VisitKeeps, ScanEndKeeps, WatchKeeps,
       FileSystemKeeps, OthersKeep
       DEF Next, Scan
<1> QED
    BY <1>1, <1>2

\* items_left of every library is the number of its pending items, whatever
\* the queue, the watcher, the scan and the workers do: the counter that the
\* coordinator keeps apart never drifts and its clamp at 0 never hides a miss.
THEOREM BacklogIsExact == Spec => []LeftMatchesPending
<1>1. InvInv => LeftMatchesPending
    BY DEF InvInv, Matches, LeftMatchesPending
<1> QED
    BY <1>1, InitMatches, NextMatches, PTL DEF Spec

-----------------------------------------------------------------------------
(***************************************************************************)
(* The counters of a clean scan are exact.  The final pass commits one     *)
(* library after the other, and what a library's counters say stays true   *)
(* through whatever the watcher and the webhooks report meanwhile, until   *)
(* the end of the scan counts what arrived (Settled, ScanInv).             *)
(***************************************************************************)

InventoryFields ==
    {"pending", "early", "unvisited", "seen", "runtime", "counted", "postRuntime", "postRemoved",
     "total", "scanned", "left", "open", "inflight", "errors", "complete", "finished", "cancelled"}

\* What the counters of a coordinator are about.
Counters(v) ==
    /\ DOMAIN v = InventoryFields
    /\ v.counted \in SUBSET Paths /\ v.unvisited \in SUBSET Paths /\ v.runtime \in SUBSET Paths
    /\ v.total \in [Labels -> Nat] /\ v.scanned \in [Labels -> Nat]

Exact(v, l) == v.total[l] = Cardinality(In(l, v.counted)) /\ v.scanned[l] <= v.total[l]

\* The end of the scan will leave it exact: nothing of it is dropped then.
Settled(v, l) == Exact(v, l) /\ In(l, v.unvisited) \subseteq v.counted \cap v.runtime

\* The libraries the final pass has committed.
Committed ==
    CASE scan.pc = "final" -> Libraries \ (scan.libs \cup {scan.lib})
      [] scan.pc \in {"finish", "finishWait"} -> Libraries
      [] OTHER -> {}

ScanOver == scan.pc \in {"monitor", "end"}

\* What the scanner counts and lists; the tasks and the workers.
InPlace ==
    /\ scan.n \in Nat /\ scan.listed \subseteq Paths /\ scan.libs \subseteq Libraries
    /\ DOMAIN task = Paths /\ DOMAIN work = Workers

\* How far the scan is, as the coordinator and the scanner know it.
Course ==
    /\ inv.cancelled => inv.finished
    /\ inv.complete => ScanOver /\ ~scan.failed
    /\ inv.finished <=> ScanOver \/ inv.cancelled
    /\ scan.primary => scan.failed
    /\ scan.pc \in {"begin", "finishWait"} => ~scan.failed
    /\ ~inv.finished => inv.early = {}

\* The scanner has at most a file of its library in hand.
InHand ==
    /\ scan.lib = Other => scan.todo = {} /\ call[Scanner].pc = "rest"
    /\ scan.lib # Other => /\ scan.failed \/ scan.pc \in {"count", "inspect", "final"}
                           /\ scan.todo \subseteq In(scan.lib, Paths)
                           /\ scan.listed \subseteq In(scan.lib, Paths)
    /\ call[Scanner].pc # "rest" => /\ scan.pc \in {"inspect", "final"}
                                    /\ LabelOf[call[Scanner].path] = scan.lib

\* Before the scan is over no task is done and no reservation is taken back.
HeldBack ==
    /\ \A w \in Workers : work[w].pc \in {"rest", "wait"}
    /\ \A c \in Callers : /\ call[c].pc # "cancel"
                          /\ call[c].pc = "refused" => task[call[c].path] # "none"

ScanInv ==
    /\ Counters(inv) /\ InPlace /\ Course /\ InHand
    /\ ~inv.finished => HeldBack
    /\ ~inv.finished /\ ~scan.failed => \A l \in Committed : Settled(inv, l)
    /\ inv.complete => /\ inv.early \subseteq inv.pending \cap inv.counted
                       /\ \A l \in Libraries : Exact(inv, l)

\* An item that was counted when it was queued is still pending and counted.
EarlyKnown(v) == v.early \subseteq v.pending \cap v.counted

\* What the methods keep that count one item or forget it.
Kept(v, w) ==
    /\ Counters(w)
    /\ w.finished = v.finished /\ w.cancelled = v.cancelled /\ w.complete = v.complete
    /\ ~v.finished => w.early \subseteq v.early
    /\ ~v.finished => \A l \in Libraries : Settled(v, l) => Settled(w, l)
    /\ v.finished /\ EarlyKnown(v) => EarlyKnown(w)
    /\ v.finished /\ EarlyKnown(v) => \A l \in Libraries : Exact(v, l) => Exact(w, l)

\* A counter that goes down by one.
LEMMA LessIsNat ==
    ASSUME NEW m \in Nat
    PROVE  /\ Less(m) \in Nat /\ Less(m) <= m
           /\ m > 0 => Less(m) = m - 1
           /\ \A n \in Nat : n <= m => Less(n) <= Less(m)
BY DEF Less, AtLeast

\* A path has a label.
LEMMA HasLabel ==
    ASSUME NEW p \in Paths
    PROVE  LabelOf[p] \in Labels
BY InventoryAssumption

\* Nothing that is counted changes.
LEMMA SameCounters ==
    ASSUME NEW v, Counters(v), NEW w, DOMAIN w = DOMAIN v,
           w.counted = v.counted, w.total = v.total, w.scanned = v.scanned,
           w.unvisited = v.unvisited, w.runtime \in SUBSET Paths,
           ~v.finished => v.runtime \subseteq w.runtime,
           w.finished = v.finished, w.cancelled = v.cancelled, w.complete = v.complete,
           ~v.finished => w.early \subseteq v.early,
           v.finished /\ EarlyKnown(v) => EarlyKnown(w)
    PROVE  Kept(v, w)
<1>1. Counters(w)
  BY DEF Counters
<1>2. ASSUME NEW l, Exact(v, l)
      PROVE  Exact(w, l)
  BY <1>2 DEF Exact
<1>3. ASSUME NEW l, ~v.finished, Settled(v, l)
      PROVE  Settled(w, l)
  BY <1>2, <1>3 DEF Settled
<1> QED BY <1>1, <1>2, <1>3 DEF Kept

\* One item more is counted, visited or not, or one less.
CountsMore(v, w, p) ==
    /\ p \notin v.counted /\ w.counted = v.counted \cup {p}
    /\ w.total = [v.total EXCEPT ![LabelOf[p]] = @ + 1]
    /\ w.scanned \in {v.scanned, [v.scanned EXCEPT ![LabelOf[p]] = @ + 1]}

CountsLess(v, w, p) ==
    /\ p \in v.counted /\ w.counted = v.counted \ {p}
    /\ w.total = [v.total EXCEPT ![LabelOf[p]] = Less(@)]
    /\ w.scanned \in [Labels -> Nat]
    /\ \A l \in Labels : l # LabelOf[p] => w.scanned[l] = v.scanned[l]
    /\ v.scanned[LabelOf[p]] <= v.total[LabelOf[p]] =>
          w.scanned[LabelOf[p]] <= Less(v.total[LabelOf[p]])

\* Either way the counters say of a library what they said before.
StillCounted(v, w) ==
    /\ w.total \in [Labels -> Nat] /\ w.scanned \in [Labels -> Nat]
    /\ w.counted \in SUBSET Paths
    /\ \A l \in Labels : Exact(v, l) => Exact(w, l)

\* One more.
LEMMA ExactGrows ==
    ASSUME NEW v, Counters(v), NEW p \in Paths, NEW w, CountsMore(v, w, p)
    PROVE  StillCounted(v, w)
<1>1. LabelOf[p] \in Labels /\ v.total \in [Labels -> Nat] /\ v.scanned \in [Labels -> Nat]
      /\ v.counted \in SUBSET Paths
  BY HasLabel DEF Counters
<1>2. w.total \in [Labels -> Nat] /\ w.scanned \in [Labels -> Nat] /\ w.counted \in SUBSET Paths
  BY <1>1 DEF CountsMore
<1>3. ASSUME NEW l \in Labels, Exact(v, l)
      PROVE  Exact(w, l)
  <2>1. Cardinality(In(l, w.counted)) =
           IF l = LabelOf[p] THEN Cardinality(In(l, v.counted)) + 1
           ELSE Cardinality(In(l, v.counted))
    BY <1>1, LibraryGrows DEF CountsMore
  <2>2. v.total[l] \in Nat /\ v.scanned[l] \in Nat
    BY <1>1
  <2> QED BY <1>1, <1>3, <2>1, <2>2 DEF Exact, CountsMore
<1> QED BY <1>2, <1>3 DEF StillCounted

\* One less.
LEMMA ExactShrinks ==
    ASSUME NEW v, Counters(v), NEW p, NEW w, CountsLess(v, w, p)
    PROVE  StillCounted(v, w)
<1> USE DEF CountsLess
<1>1. /\ p \in Paths /\ LabelOf[p] \in Labels /\ v.total \in [Labels -> Nat]
      /\ v.scanned \in [Labels -> Nat] /\ v.counted \in SUBSET Paths
  BY HasLabel DEF Counters
<1>2. Less(v.total[LabelOf[p]]) \in Nat
  BY <1>1, LessIsNat
<1>3. w.total \in [Labels -> Nat] /\ w.counted \in SUBSET Paths
  BY <1>1, <1>2
<1>4. ASSUME NEW l \in Labels, Exact(v, l)
      PROVE  Exact(w, l)
  <2>1. CASE l = LabelOf[p]
    <3>1. Cardinality(In(l, w.counted)) = Cardinality(In(l, v.counted)) - 1
          /\ Cardinality(In(l, v.counted)) > 0
      BY <1>1, <2>1, LibraryShrinks
    <3>2. v.total[l] \in Nat /\ v.total[l] > 0 /\ v.total[l] = Cardinality(In(l, v.counted))
      BY <1>1, <1>4, <3>1 DEF Exact
    <3>3. w.total[l] = v.total[l] - 1
      <4>1. Less(v.total[l]) = v.total[l] - 1
        BY <3>2, LessIsNat
      <4> QED BY <1>1, <2>1, <4>1
    <3>4. w.scanned[l] <= w.total[l]
      BY <1>1, <1>4, <2>1 DEF Exact
    <3> QED BY <3>1, <3>2, <3>3, <3>4 DEF Exact
  <2>2. CASE l # LabelOf[p]
    <3>1. Cardinality(In(l, w.counted)) = Cardinality(In(l, v.counted))
      BY <1>1, <2>2, LibraryShrinks
    <3>2. w.total[l] = v.total[l] /\ w.scanned[l] = v.scanned[l]
      BY <1>1, <2>2
    <3> QED BY <1>4, <3>1, <3>2 DEF Exact
  <2> QED BY <2>1, <2>2
<1> QED BY <1>3, <1>4 DEF StillCounted

\* mark_queued, before and after the end of the scan.
LEMMA QueuedKept ==
    ASSUME NEW v, Counters(v), NEW p \in Paths, NEW startup, NEW bound,
           NEW w, w = MarkQueued(v, p, startup, bound)
    PROVE  Kept(v, w)
<1> DEFINE q == [v EXCEPT !.pending = @ \cup {p}, !.postRemoved = @ \ {p},
                          !.left[LabelOf[p]] = @ + 1]
<1>1. CASE p \in v.pending
  <2>1. w = v
    BY <1>1 DEF MarkQueued
  <2> QED BY <2>1, SameCounters DEF Counters
<1>2. CASE p \notin v.pending
  <2>1. /\ DOMAIN q = DOMAIN v /\ q.pending = v.pending \cup {p}
        /\ q.counted = v.counted /\ q.total = v.total /\ q.scanned = v.scanned
        /\ q.unvisited = v.unvisited /\ q.runtime = v.runtime /\ q.early = v.early
        /\ q.finished = v.finished /\ q.cancelled = v.cancelled /\ q.complete = v.complete
    BY DEF Counters, InventoryFields
  <2>2. w = IF v.finished /\ p \notin v.counted THEN [Count(q, p) EXCEPT !.early = @ \cup {p}]
            ELSE IF startup THEN q ELSE Arrive(q, p, bound)
    BY <1>2 DEF MarkQueued
  <2> HIDE DEF q
  <2>3. CASE v.finished /\ p \notin v.counted
    <3>1. w = [Count(q, p) EXCEPT !.early = q.early \cup {p}]
      BY <2>1, <2>2, <2>3 DEF Count, Counters, InventoryFields
    <3>2. /\ DOMAIN w = DOMAIN v /\ w.pending = v.pending \cup {p}
          /\ w.counted = v.counted \cup {p} /\ w.early = v.early \cup {p}
          /\ w.total = [v.total EXCEPT ![LabelOf[p]] = @ + 1]
          /\ w.scanned = [v.scanned EXCEPT ![LabelOf[p]] = @ + 1]
          /\ w.unvisited = v.unvisited /\ w.runtime = v.runtime
          /\ w.finished = v.finished /\ w.cancelled = v.cancelled /\ w.complete = v.complete
      BY <2>1, <3>1 DEF Count, Counters, InventoryFields
    <3>3. CountsMore(v, w, p)
      BY <2>3, <3>2 DEF CountsMore
    <3>4. StillCounted(v, w)
      BY <3>3, ExactGrows
    <3>5. Counters(w)
      BY <3>2, <3>4 DEF Counters, StillCounted
    <3>6. EarlyKnown(v) => EarlyKnown(w)
      BY <3>2 DEF EarlyKnown
    <3> QED BY <2>3, <3>2, <3>4, <3>5, <3>6 DEF Kept, Labels, StillCounted
  <2>4. CASE ~(v.finished /\ p \notin v.counted)
    <3>1. w = q \/ w = Arrive(q, p, bound)
      BY <2>2, <2>4
    <3>2. /\ DOMAIN w = DOMAIN v /\ w.pending = v.pending \cup {p}
          /\ w.counted = v.counted /\ w.early = v.early
          /\ w.total = v.total /\ w.scanned = v.scanned /\ w.unvisited = v.unvisited
          /\ v.runtime \subseteq w.runtime /\ w.runtime \subseteq v.runtime \cup {p}
          /\ w.finished = v.finished /\ w.cancelled = v.cancelled /\ w.complete = v.complete
      BY <2>1, <3>1 DEF Arrive, Counters, InventoryFields
    <3>3. EarlyKnown(v) => EarlyKnown(w)
      BY <3>2 DEF EarlyKnown
    <3>4. w.runtime \in SUBSET Paths
      BY <3>2 DEF Counters
    <3> QED BY <3>2, <3>3, <3>4, SameCounters
  <2> QED BY <2>3, <2>4
<1> QED BY <1>1, <1>2

\* mark_observed.
LEMMA ObservedKept ==
    ASSUME NEW v, Counters(v), NEW p \in Paths, NEW bound,
           NEW w, w = MarkObserved(v, p, bound)
    PROVE  Kept(v, w)
<1> DEFINE q == [v EXCEPT !.postRemoved = @ \ {p}]
<1>1. CASE p \in v.counted \cup v.runtime
  <2>1. w = v
    BY <1>1 DEF MarkObserved
  <2> QED BY <2>1, SameCounters DEF Counters
<1>2. CASE p \notin v.counted \cup v.runtime
  <2>1. /\ DOMAIN q = DOMAIN v /\ q.pending = v.pending
        /\ q.counted = v.counted /\ q.total = v.total /\ q.scanned = v.scanned
        /\ q.unvisited = v.unvisited /\ q.runtime = v.runtime /\ q.early = v.early
        /\ q.finished = v.finished /\ q.cancelled = v.cancelled /\ q.complete = v.complete
    BY DEF Counters, InventoryFields
  <2>2. w = IF v.finished THEN Count(q, p) ELSE Arrive(q, p, bound)
    BY <1>2 DEF MarkObserved
  <2> HIDE DEF q
  <2>3. CASE v.finished
    <3>0. w = Count(q, p)
      BY <2>2, <2>3
    <3>1. /\ DOMAIN w = DOMAIN v /\ w.pending = v.pending
          /\ w.counted = v.counted \cup {p} /\ w.early = v.early
          /\ w.total = [v.total EXCEPT ![LabelOf[p]] = @ + 1]
          /\ w.scanned = [v.scanned EXCEPT ![LabelOf[p]] = @ + 1]
          /\ w.unvisited = v.unvisited /\ w.runtime = v.runtime
          /\ w.finished = v.finished /\ w.cancelled = v.cancelled /\ w.complete = v.complete
      BY <2>1, <3>0 DEF Count, Counters, InventoryFields
    <3>2. CountsMore(v, w, p)
      BY <1>2, <3>1 DEF CountsMore
    <3>3. StillCounted(v, w)
      BY <3>2, ExactGrows
    <3>4. Counters(w)
      BY <3>1, <3>3 DEF Counters, StillCounted
    <3>5. EarlyKnown(v) => EarlyKnown(w)
      BY <3>1 DEF EarlyKnown
    <3> QED BY <2>3, <3>1, <3>3, <3>4, <3>5 DEF Kept, Labels, StillCounted
  <2>4. CASE ~v.finished
    <3>1. /\ DOMAIN w = DOMAIN v /\ w.early = v.early /\ w.pending = v.pending
          /\ w.counted = v.counted /\ w.total = v.total /\ w.scanned = v.scanned
          /\ w.unvisited = v.unvisited /\ w.runtime = v.runtime \cup {p}
          /\ w.finished = v.finished /\ w.cancelled = v.cancelled /\ w.complete = v.complete
      BY <2>1, <2>2, <2>4 DEF Arrive, Counters, InventoryFields
    <3>2. w.runtime \in SUBSET Paths
      BY <3>1 DEF Counters
    <3> QED BY <2>4, <3>1, <3>2, SameCounters
  <2> QED BY <2>3, <2>4
<1> QED BY <1>1, <1>2

\* What completing, cancelling and forgetting an item share.
Dropped(v, w, p) ==
    /\ DOMAIN w = DOMAIN v /\ w.pending = v.pending \ {p}
    /\ w.counted = v.counted /\ w.total = v.total /\ w.scanned = v.scanned
    /\ w.unvisited = v.unvisited
    /\ w.runtime \subseteq v.runtime /\ v.runtime \subseteq w.runtime \cup {p}
    /\ w.early \subseteq v.early /\ (p \in v.pending => p \notin w.early)
    /\ w.finished = v.finished /\ w.cancelled = v.cancelled /\ w.complete = v.complete
    /\ w.seen = v.seen /\ w.postRemoved = v.postRemoved /\ w.open = v.open
    /\ w.postRuntime \subseteq v.postRuntime /\ v.postRuntime \subseteq w.postRuntime \cup {p}

\* Unqueue does that.
LEMMA UnqueueDrops ==
    ASSUME NEW v, Counters(v), NEW p
    PROVE  Dropped(v, Unqueue(v, p), p)
<1>1. CASE p \notin v.pending
  BY <1>1 DEF Unqueue, Dropped
<1>2. CASE p \in v.pending
  BY <1>2 DEF Unqueue, Counters, InventoryFields, Dropped
<1> QED BY <1>1, <1>2

\* mark_completed, after the barrier.
LEMMA CompletedKept ==
    ASSUME NEW v, Counters(v), NEW p, v.finished, NEW w, w = MarkCompleted(v, p)
    PROVE  Kept(v, w)
<1>1. Dropped(v, w, p)
  BY UnqueueDrops DEF MarkCompleted
<1>2. EarlyKnown(v) => EarlyKnown(w)
  BY <1>1 DEF EarlyKnown, Dropped
<1>3. w.runtime \in SUBSET Paths
  BY <1>1 DEF Counters, Dropped
<1>4. /\ DOMAIN w = DOMAIN v
      /\ w.counted = v.counted /\ w.total = v.total /\ w.scanned = v.scanned
      /\ w.unvisited = v.unvisited
      /\ w.finished = v.finished /\ w.cancelled = v.cancelled /\ w.complete = v.complete
  BY <1>1 DEF Dropped
<1> QED BY <1>2, <1>3, <1>4, SameCounters

\* cancel_queue: an item that was counted when it was queued is counted no more.
LEMMA CancelKept ==
    ASSUME NEW v, Counters(v), NEW p, v.finished, EarlyKnown(v),
           NEW w, w = CancelQueue(v, p)
    PROVE  Kept(v, w)
<1>1. PICK u : u = Unqueue(v, p) /\ Dropped(v, u, p)
  BY UnqueueDrops
<1>2. CASE p \in v.early
  <2>1. p \in v.counted /\ p \in v.pending
    BY <1>2 DEF EarlyKnown
  <2>2. w = [u EXCEPT !.counted = @ \ {p}, !.total[LabelOf[p]] = Less(@),
                      !.scanned[LabelOf[p]] = Less(@)]
    BY <1>1, <1>2 DEF CancelQueue
  <2>3. /\ DOMAIN w = DOMAIN v /\ w.pending = v.pending \ {p}
        /\ w.counted = v.counted \ {p} /\ w.early = u.early
        /\ w.total = [v.total EXCEPT ![LabelOf[p]] = Less(@)]
        /\ w.scanned = [v.scanned EXCEPT ![LabelOf[p]] = Less(@)]
        /\ w.unvisited = v.unvisited /\ w.runtime = u.runtime
        /\ w.finished = v.finished /\ w.cancelled = v.cancelled /\ w.complete = v.complete
    <3>1. DOMAIN u = InventoryFields
      BY <1>1 DEF Counters, Dropped
    <3>2. /\ DOMAIN w = DOMAIN u /\ w.pending = u.pending
          /\ w.counted = u.counted \ {p} /\ w.early = u.early
          /\ w.total = [u.total EXCEPT ![LabelOf[p]] = Less(u.total[LabelOf[p]])]
          /\ w.scanned = [u.scanned EXCEPT ![LabelOf[p]] = Less(u.scanned[LabelOf[p]])]
          /\ w.unvisited = u.unvisited /\ w.runtime = u.runtime
          /\ w.finished = u.finished /\ w.cancelled = u.cancelled /\ w.complete = u.complete
      BY <2>2, <3>1 DEF InventoryFields
    <3> QED BY <1>1, <3>2 DEF Dropped
  <2>4. /\ LabelOf[p] \in Labels /\ v.scanned \in [Labels -> Nat] /\ v.total \in [Labels -> Nat]
    BY <2>1, HasLabel DEF Counters
  <2>5. /\ Less(v.scanned[LabelOf[p]]) \in Nat
        /\ v.scanned[LabelOf[p]] <= v.total[LabelOf[p]] =>
              Less(v.scanned[LabelOf[p]]) <= Less(v.total[LabelOf[p]])
    <3>1. v.scanned[LabelOf[p]] \in Nat /\ v.total[LabelOf[p]] \in Nat
      BY <2>4
    <3> QED BY <3>1, LessIsNat
  <2>6. /\ w.scanned \in [Labels -> Nat]
        /\ \A l \in Labels : l # LabelOf[p] => w.scanned[l] = v.scanned[l]
        /\ w.scanned[LabelOf[p]] = Less(v.scanned[LabelOf[p]])
    BY <2>3, <2>4, <2>5
  <2>7. v.scanned[LabelOf[p]] <= v.total[LabelOf[p]] =>
            w.scanned[LabelOf[p]] <= Less(v.total[LabelOf[p]])
    BY <2>5, <2>6
  <2>8. StillCounted(v, w)
    <3>1. CountsLess(v, w, p)
      BY <2>1, <2>3, <2>6, <2>7 DEF CountsLess
    <3> QED BY <3>1, ExactShrinks
  <2>9. Counters(w)
    BY <1>1, <2>3, <2>8 DEF Counters, Dropped, StillCounted
  <2>10. EarlyKnown(w)
    BY <1>1, <2>1, <2>3 DEF EarlyKnown, Dropped
  <2> QED BY <2>3, <2>8, <2>9, <2>10 DEF Kept, Labels, StillCounted
<1>3. CASE p \notin v.early
  <2>1. w = MarkCompleted(v, p)
    BY <1>3 DEF CancelQueue, MarkCompleted
  <2> QED BY <2>1, CompletedKept
<1> QED BY <1>2, <1>3

\* What removing and moving an item share.
Forgotten(v, w, p) ==
    /\ DOMAIN w = DOMAIN v /\ w.pending = v.pending \ {p}
    /\ w.counted = v.counted \ {p} /\ w.total = v.total /\ w.scanned = v.scanned
    /\ w.unvisited = v.unvisited \ {p} /\ w.runtime = v.runtime \ {p}
    /\ w.early \subseteq v.early /\ (p \in v.pending => p \notin w.early)
    /\ w.finished = v.finished /\ w.cancelled = v.cancelled /\ w.complete = v.complete

\* Forget does that.
LEMMA ForgetsItem ==
    ASSUME NEW v, Counters(v), NEW p, NEW bound
    PROVE  Forgotten(v, Forget(v, p, bound), p)
<1>1. PICK u : u = Unqueue(v, p) /\ Dropped(v, u, p)
  BY UnqueueDrops
<1>2. PICK gone : Forget(v, p, bound) =
         [u EXCEPT !.counted = @ \ {p}, !.runtime = @ \ {p}, !.postRuntime = @ \ {p},
                   !.seen = @ \ {p}, !.unvisited = @ \ {p}, !.postRemoved = gone]
  BY <1>1 DEF Forget
<1>3. DOMAIN u = InventoryFields
  BY <1>1 DEF Counters, Dropped
<1>4. PICK w : w = Forget(v, p, bound)
  OBVIOUS
<1>5. /\ DOMAIN w = DOMAIN u /\ w.pending = u.pending
      /\ w.counted = u.counted \ {p} /\ w.total = u.total /\ w.scanned = u.scanned
      /\ w.unvisited = u.unvisited \ {p} /\ w.runtime = u.runtime \ {p}
      /\ w.early = u.early
      /\ w.finished = u.finished /\ w.cancelled = u.cancelled /\ w.complete = u.complete
  BY <1>2, <1>3, <1>4 DEF InventoryFields
<1>6. u.runtime \ {p} = v.runtime \ {p}
  BY <1>1 DEF Dropped
<1> QED BY <1>1, <1>4, <1>5, <1>6 DEF Dropped, Forgotten

\* The counters go on, and what is unvisited in a settled library still is
\* counted and runtime.
LEMMA KeptByCounting ==
    ASSUME NEW v, Counters(v), NEW w, DOMAIN w = DOMAIN v, StillCounted(v, w),
           w.unvisited \in SUBSET Paths, w.runtime \in SUBSET Paths,
           w.finished = v.finished, w.cancelled = v.cancelled, w.complete = v.complete,
           w.early \subseteq v.early, EarlyKnown(v) => EarlyKnown(w),
           ~v.finished =>
              \A l \in Libraries : In(l, v.unvisited) \subseteq v.counted \cap v.runtime =>
                                   In(l, w.unvisited) \subseteq w.counted \cap w.runtime
    PROVE  Kept(v, w)
<1>1. Counters(w)
  BY DEF Counters, StillCounted
<1>2. \A l \in Libraries : Exact(v, l) => Exact(w, l)
  BY DEF StillCounted, Labels
<1>3. ASSUME NEW l \in Libraries, ~v.finished, Settled(v, l)
      PROVE  Settled(w, l)
  BY <1>2, <1>3 DEF Settled
<1> QED BY <1>1, <1>2, <1>3 DEF Kept

\* What is left of an item that was removed.
Removed(v, w, p) ==
    /\ Kept(v, w) /\ StillCounted(v, w) /\ DOMAIN w = DOMAIN v
    /\ w.counted = v.counted \ {p} /\ w.pending = v.pending \ {p}
    /\ w.unvisited = v.unvisited \ {p} /\ w.runtime = v.runtime \ {p}
    /\ w.early \subseteq v.early /\ (EarlyKnown(v) => EarlyKnown(w))

\* mark_removed.
LEMMA RemovedKept ==
    ASSUME NEW v, Counters(v), NEW p, NEW bound, NEW w, w = MarkRemoved(v, p, bound)
    PROVE  Removed(v, w, p)
<1>1. PICK f : f = Forget(v, p, bound) /\ Forgotten(v, f, p)
  BY ForgetsItem
<1>2. CASE p \notin v.counted
  <2>1. w = f
    BY <1>1, <1>2 DEF MarkRemoved
  <2>2. w.counted = v.counted /\ w.total = v.total /\ w.scanned = v.scanned
    BY <1>1, <1>2, <2>1 DEF Forgotten
  <2>3. StillCounted(v, w)
    BY <2>2 DEF StillCounted, Exact, Counters
  <2>4. w.unvisited \in SUBSET Paths /\ w.runtime \in SUBSET Paths
    BY <1>1, <2>1 DEF Forgotten, Counters
  <2>5. EarlyKnown(v) => EarlyKnown(w)
    BY <1>1, <2>1 DEF Forgotten, EarlyKnown
  <2>6. \A l \in Libraries : In(l, v.unvisited) \subseteq v.counted \cap v.runtime =>
                             In(l, w.unvisited) \subseteq w.counted \cap w.runtime
    BY <1>1, <2>1 DEF Forgotten, In
  <2>7. /\ DOMAIN w = DOMAIN v /\ w.early \subseteq v.early
        /\ w.finished = v.finished /\ w.cancelled = v.cancelled /\ w.complete = v.complete
    BY <1>1, <2>1 DEF Forgotten
  <2>8. Kept(v, w)
    BY <2>3, <2>4, <2>5, <2>6, <2>7, KeptByCounting
  <2> QED BY <1>1, <2>1, <2>3, <2>5, <2>8 DEF Forgotten, Removed
<1>3. CASE p \in v.counted
  <2>1. w = Uncount(f, LabelOf[p], WasScanned(v, p))
    BY <1>1, <1>3 DEF MarkRemoved
  <2>2. /\ p \in Paths /\ LabelOf[p] \in Labels
        /\ v.total \in [Labels -> Nat] /\ v.scanned \in [Labels -> Nat]
        /\ f.total = v.total /\ f.scanned = v.scanned /\ DOMAIN f = InventoryFields
    BY <1>1, <1>3, HasLabel DEF Counters, Forgotten
  <2>3. PICK n : n = AtMost(IF WasScanned(v, p) THEN Less(f.scanned[LabelOf[p]])
                            ELSE f.scanned[LabelOf[p]], Less(f.total[LabelOf[p]]))
    OBVIOUS
  <2>4. n \in Nat /\ n <= Less(v.total[LabelOf[p]])
    <3>1. v.total[LabelOf[p]] \in Nat /\ v.scanned[LabelOf[p]] \in Nat
      BY <2>2
    <3>2. Less(v.total[LabelOf[p]]) \in Nat /\ Less(v.scanned[LabelOf[p]]) \in Nat
      BY <3>1, LessIsNat
    <3> QED BY <2>2, <2>3, <3>1, <3>2 DEF AtMost
  <2>5. w = [f EXCEPT !.total[LabelOf[p]] = Less(@), !.scanned[LabelOf[p]] = n]
    BY <2>1, <2>2, <2>3 DEF Uncount, InventoryFields
  <2>6. /\ DOMAIN w = DOMAIN f /\ w.pending = f.pending /\ w.counted = f.counted
        /\ w.unvisited = f.unvisited /\ w.runtime = f.runtime /\ w.early = f.early
        /\ w.total = [v.total EXCEPT ![LabelOf[p]] = Less(@)]
        /\ w.scanned = [v.scanned EXCEPT ![LabelOf[p]] = n]
        /\ w.finished = f.finished /\ w.cancelled = f.cancelled /\ w.complete = f.complete
    BY <2>2, <2>5 DEF InventoryFields
  <2>7. /\ w.scanned \in [Labels -> Nat] /\ w.scanned[LabelOf[p]] = n
        /\ \A l \in Labels : l # LabelOf[p] => w.scanned[l] = v.scanned[l]
    BY <2>2, <2>4, <2>6
  <2>8. CountsLess(v, w, p)
    BY <1>1, <1>3, <2>4, <2>6, <2>7 DEF CountsLess, Forgotten
  <2>9. StillCounted(v, w)
    BY <2>8, ExactShrinks
  <2>10. w.unvisited \in SUBSET Paths /\ w.runtime \in SUBSET Paths
    BY <1>1, <2>6 DEF Forgotten, Counters
  <2>11. EarlyKnown(v) => EarlyKnown(w)
    BY <1>1, <2>6 DEF Forgotten, EarlyKnown
  <2>12. \A l \in Libraries : In(l, v.unvisited) \subseteq v.counted \cap v.runtime =>
                              In(l, w.unvisited) \subseteq w.counted \cap w.runtime
    BY <1>1, <2>6 DEF Forgotten, In
  <2>13. /\ DOMAIN w = DOMAIN v /\ w.early \subseteq v.early
         /\ w.finished = v.finished /\ w.cancelled = v.cancelled /\ w.complete = v.complete
    BY <1>1, <2>6 DEF Forgotten
  <2>14. Kept(v, w)
    BY <2>9, <2>10, <2>11, <2>12, <2>13, KeptByCounting
  <2> QED BY <1>1, <2>6, <2>9, <2>11, <2>14 DEF Forgotten, Removed
<1> QED BY <1>2, <1>3

\* An item in place of another one of its library.
LEMMA ExactSwaps ==
    ASSUME NEW v, Counters(v), NEW p \in v.counted, NEW q \in Paths, q \notin v.counted,
           LabelOf[p] = LabelOf[q], NEW w, w.counted = (v.counted \ {p}) \cup {q},
           w.total = v.total, w.scanned = v.scanned
    PROVE  StillCounted(v, w)
<1>1. v.counted \in SUBSET Paths /\ v.counted \ {p} \in SUBSET Paths /\ p \in Paths
  BY DEF Counters
<1>2. ASSUME NEW l \in Labels
      PROVE  Cardinality(In(l, w.counted)) = Cardinality(In(l, v.counted))
  <2>1. Cardinality(In(l, v.counted)) \in Nat /\ Cardinality(In(l, v.counted \ {p})) \in Nat
    BY <1>1, LibraryFinite
  <2>2. /\ Cardinality(In(l, v.counted \ {p})) =
              IF l = LabelOf[p] THEN Cardinality(In(l, v.counted)) - 1
              ELSE Cardinality(In(l, v.counted))
    BY <1>1, LibraryShrinks
  <2>3. Cardinality(In(l, w.counted)) =
           IF l = LabelOf[q] THEN Cardinality(In(l, v.counted \ {p})) + 1
           ELSE Cardinality(In(l, v.counted \ {p}))
    BY <1>1, LibraryGrows
  <2> QED BY <2>1, <2>2, <2>3
<1>3. \A l \in Labels : Exact(v, l) => Exact(w, l)
  BY <1>2 DEF Exact
<1> QED BY <1>1, <1>3 DEF StillCounted, Counters

\* The new path of a moved item is entered in b, from which the old one was
\* removed.
Entered(v, b, p, q) ==
    LET from == LabelOf[p]
        to == LabelOf[q]
        was == WasScanned(v, p)
    IN  [b EXCEPT
           !.counted = @ \cup {q}, !.postRemoved = @ \ {q},
           !.seen = IF was THEN @ \cup {q} ELSE @,
           !.unvisited = IF ~was /\ p \in v.unvisited THEN @ \cup {q} ELSE @,
           !.total[to] = IF from # to THEN @ + 1 ELSE @,
           !.scanned[to] = IF from # to /\ was THEN @ + 1 ELSE @]

\* The rest of the coordinator is as it was.
EnteredRest(b, c, q) ==
    /\ DOMAIN c = DOMAIN b /\ c.pending = b.pending /\ c.early = b.early
    /\ c.counted = b.counted \cup {q} /\ c.runtime = b.runtime
    /\ c.unvisited \in {b.unvisited, b.unvisited \cup {q}}
    /\ c.finished = b.finished /\ c.cancelled = b.cancelled /\ c.complete = b.complete

\* It is counted once more, unless it stays in its library.
EnteredCounts(b, c, p, q) ==
    /\ LabelOf[p] = LabelOf[q] => c.total = b.total /\ c.scanned = b.scanned
    /\ LabelOf[p] # LabelOf[q] =>
          /\ c.total = [b.total EXCEPT ![LabelOf[q]] = @ + 1]
          /\ c.scanned \in {b.scanned, [b.scanned EXCEPT ![LabelOf[q]] = @ + 1]}

\* That is what entering it does.
LEMMA EntersItem ==
    ASSUME NEW v, NEW b, Counters(b), NEW p, NEW q \in Paths, NEW c, c = Entered(v, b, p, q)
    PROVE  EnteredRest(b, c, q) /\ EnteredCounts(b, c, p, q)
<1>1. /\ LabelOf[q] \in Labels /\ DOMAIN b = InventoryFields
      /\ b.total \in [Labels -> Nat] /\ b.scanned \in [Labels -> Nat]
  BY HasLabel DEF Counters
<1> DEFINE from == LabelOf[p]
           to == LabelOf[q]
           was == WasScanned(v, p)
           pr == b.postRemoved \ {q}
           se == IF was THEN b.seen \cup {q} ELSE b.seen
           un == IF ~was /\ p \in v.unvisited THEN b.unvisited \cup {q} ELSE b.unvisited
           t == IF from # to THEN b.total[to] + 1 ELSE b.total[to]
           s == IF from # to /\ was THEN b.scanned[to] + 1 ELSE b.scanned[to]
<1>2. /\ c = [b EXCEPT !.counted = @ \cup {q}, !.postRemoved = pr, !.seen = se,
                       !.unvisited = un, !.total[to] = t, !.scanned[to] = s]
      /\ un \in {b.unvisited, b.unvisited \cup {q}}
      /\ from = to => t = b.total[to] /\ s = b.scanned[to]
      /\ from # to => t = b.total[to] + 1 /\ s \in {b.scanned[to], b.scanned[to] + 1}
  <2>1. c = [b EXCEPT !.counted = @ \cup {q}, !.postRemoved = pr, !.seen = se,
                      !.unvisited = un, !.total[to] = t, !.scanned[to] = s]
    BY <1>1 DEF Entered, InventoryFields
  <2> QED BY <2>1
<1> HIDE DEF pr, se, un, t, s, was
<1>3. /\ EnteredRest(b, c, q)
      /\ c.total = [b.total EXCEPT ![LabelOf[q]] = t]
      /\ c.scanned = [b.scanned EXCEPT ![LabelOf[q]] = s]
  BY <1>1, <1>2 DEF EnteredRest, InventoryFields
<1>4. CASE LabelOf[p] = LabelOf[q]
  BY <1>1, <1>2, <1>3, <1>4 DEF EnteredCounts
<1>5. CASE LabelOf[p] # LabelOf[q]
  BY <1>1, <1>2, <1>3, <1>5 DEF EnteredCounts
<1> QED BY <1>3, <1>4, <1>5

\* The new path of a moved item is unvisited only as a counted arrival.
LEMMA MovedInto ==
    ASSUME NEW v, Counters(v), NEW p, NEW q \in Paths, NEW b, NEW c, NEW w, NEW bound,
           DOMAIN b = DOMAIN v, b.counted = v.counted \ {p}, b.pending = v.pending \ {p},
           b.unvisited = v.unvisited \ {p}, b.runtime = v.runtime \ {p},
           b.early \subseteq v.early, EarlyKnown(v) => EarlyKnown(b),
           b.finished = v.finished, b.cancelled = v.cancelled, b.complete = v.complete,
           EnteredRest(b, c, q), StillCounted(v, c),
           w = IF v.finished THEN c ELSE Arrive(c, q, bound)
    PROVE  Kept(v, w)
<1> USE DEF EnteredRest
<1>1. DOMAIN c = InventoryFields
  BY DEF Counters
<1>2. /\ DOMAIN w = DOMAIN c /\ w.pending = c.pending /\ w.counted = c.counted
      /\ w.total = c.total /\ w.scanned = c.scanned /\ w.unvisited = c.unvisited
      /\ w.early = c.early
      /\ w.finished = c.finished /\ w.cancelled = c.cancelled /\ w.complete = c.complete
      /\ w.runtime = IF v.finished THEN c.runtime ELSE c.runtime \cup {q}
  <2>1. CASE v.finished
    BY <2>1
  <2>2. CASE ~v.finished
    <3>1. w = Arrive(c, q, bound)
      BY <2>2
    <3> QED BY <1>1, <2>2, <3>1 DEF Arrive, InventoryFields
  <2> QED BY <2>1, <2>2
<1>3. StillCounted(v, w)
  BY <1>2 DEF StillCounted, Exact
<1>4. w.unvisited \in SUBSET Paths /\ w.runtime \in SUBSET Paths
  BY <1>2 DEF Counters
<1>5. EarlyKnown(v) => EarlyKnown(w)
  BY <1>2 DEF EarlyKnown
<1>6. ASSUME ~v.finished, NEW l \in Libraries,
             In(l, v.unvisited) \subseteq v.counted \cap v.runtime
      PROVE  In(l, w.unvisited) \subseteq w.counted \cap w.runtime
  BY <1>2, <1>6 DEF In
<1>7. /\ DOMAIN w = DOMAIN v /\ w.early \subseteq v.early
      /\ w.finished = v.finished /\ w.cancelled = v.cancelled /\ w.complete = v.complete
  BY <1>2
<1> QED BY <1>3, <1>4, <1>5, <1>6, <1>7, KeptByCounting

\* mark_moved.
LEMMA MovedKept ==
    ASSUME NEW v, Counters(v), NEW p, NEW q \in Paths, NEW bound,
           NEW w, w = MarkMoved(v, p, q, bound)
    PROVE  Kept(v, w)
<1> DEFINE transfer == p \in v.counted /\ LabelOf[q] # Other /\ q \notin v.counted
<1>1. CASE ~transfer
  <2>1. w = MarkRemoved(v, p, bound)
    BY <1>1 DEF MarkMoved, MarkRemoved
  <2> QED BY <2>1, RemovedKept DEF Removed
<1>2. CASE transfer /\ LabelOf[p] # LabelOf[q]
  <2>1. PICK b : b = MarkRemoved(v, p, bound) /\ Removed(v, b, p)
    BY RemovedKept
  <2>2. PICK c : c = Entered(v, b, p, q)
    OBVIOUS
  <2>3. w = IF v.finished THEN c ELSE Arrive(c, q, bound)
    BY <1>2, <2>1, <2>2 DEF MarkMoved, MarkRemoved, Entered
  <2>4. Counters(b) /\ StillCounted(v, b) /\ q \notin b.counted
    BY <1>2, <2>1 DEF Removed, Kept
  <2>5. EnteredRest(b, c, q) /\ CountsMore(b, c, q)
    <3>1. /\ EnteredRest(b, c, q)
          /\ c.total = [b.total EXCEPT ![LabelOf[q]] = @ + 1]
          /\ c.scanned \in {b.scanned, [b.scanned EXCEPT ![LabelOf[q]] = @ + 1]}
      <4>1. EnteredRest(b, c, q) /\ EnteredCounts(b, c, p, q)
        BY <2>2, <2>4, EntersItem
      <4> QED BY <1>2, <4>1 DEF EnteredCounts
    <3> QED BY <2>4, <3>1 DEF CountsMore, EnteredRest
  <2>6. StillCounted(v, c)
    <3>1. StillCounted(b, c)
      BY <2>4, <2>5, ExactGrows
    <3> QED BY <2>4, <3>1 DEF StillCounted
  <2>7. /\ DOMAIN b = DOMAIN v /\ b.counted = v.counted \ {p} /\ b.pending = v.pending \ {p}
        /\ b.unvisited = v.unvisited \ {p} /\ b.runtime = v.runtime \ {p}
        /\ b.early \subseteq v.early /\ (EarlyKnown(v) => EarlyKnown(b))
        /\ b.finished = v.finished /\ b.cancelled = v.cancelled /\ b.complete = v.complete
    BY <2>1 DEF Removed, Kept
  <2> QED BY <2>3, <2>5, <2>6, <2>7, MovedInto
<1>3. CASE transfer /\ LabelOf[p] = LabelOf[q]
  <2>1. PICK b : b = Forget(v, p, bound) /\ Forgotten(v, b, p)
    BY ForgetsItem
  <2>2. PICK c : c = Entered(v, b, p, q)
    OBVIOUS
  <2>3. w = IF v.finished THEN c ELSE Arrive(c, q, bound)
    <3> DEFINE d == IF p \in v.counted /\ (~transfer \/ LabelOf[p] # LabelOf[q])
                    THEN Uncount(b, LabelOf[p], WasScanned(v, p)) ELSE b
    <3>1. w = IF ~transfer THEN d
              ELSE IF v.finished THEN Entered(v, d, p, q)
              ELSE Arrive(Entered(v, d, p, q), q, bound)
      BY <2>1 DEF MarkMoved, Entered
    <3>2. d = b
      BY <1>3
    <3> HIDE DEF d
    <3> QED BY <1>3, <2>2, <3>1, <3>2
  <2>4. /\ DOMAIN b = DOMAIN v /\ b.counted = v.counted \ {p} /\ b.pending = v.pending \ {p}
        /\ b.unvisited = v.unvisited \ {p} /\ b.runtime = v.runtime \ {p}
        /\ b.total = v.total /\ b.scanned = v.scanned /\ b.early \subseteq v.early
        /\ b.finished = v.finished /\ b.cancelled = v.cancelled /\ b.complete = v.complete
    BY <2>1 DEF Forgotten
  <2>5. Counters(b) /\ (EarlyKnown(v) => EarlyKnown(b))
    BY <2>1, <2>4 DEF Counters, EarlyKnown, Forgotten
  <2>6. EnteredRest(b, c, q) /\ c.total = b.total /\ c.scanned = b.scanned
    <3>1. EnteredRest(b, c, q) /\ EnteredCounts(b, c, p, q)
      BY <2>2, <2>5, EntersItem
    <3> QED BY <1>3, <3>1 DEF EnteredCounts
  <2>7. StillCounted(v, c)
    <3>1. c.counted = (v.counted \ {p}) \cup {q} /\ c.total = v.total /\ c.scanned = v.scanned
      BY <2>4, <2>6 DEF EnteredRest
    <3> QED BY <1>3, <3>1, ExactSwaps
  <2> QED BY <2>3, <2>4, <2>5, <2>6, <2>7, MovedInto
<1> QED BY <1>1, <1>2, <1>3

\* What every method of the scan keeps.
Recorded(v, w) ==
    /\ Counters(w)
    /\ w.finished = v.finished /\ w.cancelled = v.cancelled /\ w.complete = v.complete
    /\ ~v.finished => w.early \subseteq v.early

\* Errors, the cutoff and the callbacks in flight.
LEMMA NotedKept ==
    ASSUME NEW v, Counters(v), NEW x
    PROVE  /\ Kept(v, RecordError(v)) /\ Kept(v, [v EXCEPT !.errors = x])
           /\ Kept(v, [v EXCEPT !.open = x]) /\ Kept(v, [v EXCEPT !.inflight = x])
           /\ Kept(v, v)
<1>1. ASSUME NEW f \in {"errors", "open", "inflight"}, NEW y, NEW w, w = [v EXCEPT ![f] = y]
      PROVE  Kept(v, w)
  <2>1. DOMAIN v = InventoryFields
    BY DEF Counters
  <2>2. /\ DOMAIN w = DOMAIN v /\ w.counted = v.counted /\ w.total = v.total
        /\ w.scanned = v.scanned /\ w.unvisited = v.unvisited /\ w.runtime = v.runtime
        /\ w.finished = v.finished /\ w.cancelled = v.cancelled /\ w.complete = v.complete
        /\ w.early = v.early /\ w.pending = v.pending
    BY <1>1, <2>1 DEF InventoryFields
  <2>3. w.runtime \in SUBSET Paths /\ (EarlyKnown(v) => EarlyKnown(w))
    BY <2>2 DEF EarlyKnown, Counters
  <2> QED BY <2>2, <2>3, SameCounters
<1>2. Kept(v, v)
  BY SameCounters DEF Counters
<1>3. Kept(v, [v EXCEPT !.errors = x]) /\ Kept(v, [v EXCEPT !.errors = TRUE])
  BY <1>1
<1>4. Kept(v, [v EXCEPT !.open = x]) /\ Kept(v, [v EXCEPT !.inflight = x])
  BY <1>1
<1>5. Kept(v, RecordError(v))
  BY <1>2, <1>3 DEF RecordError
<1> QED BY <1>2, <1>3, <1>4, <1>5

\* _record_scan_item_counted and set_total.
LEMMA CountedRecorded ==
    ASSUME NEW v, Counters(v), NEW w,
           \/ \E p \in Paths : w = RecordCounted(v, p)
           \/ \E l \in Labels, n \in Nat : w = SetTotal(v, l, n)
    PROVE  Recorded(v, w)
<1>1. DOMAIN v = InventoryFields
  BY DEF Counters
<1>2. CASE v.cancelled
  <2>1. w = v
    BY <1>2 DEF RecordCounted, SetTotal
  <2> QED BY <2>1 DEF Recorded
<1>3. CASE ~v.cancelled /\ \E p \in Paths : w = RecordCounted(v, p)
  <2>1. PICK p \in Paths :
           w = [v EXCEPT !.postRemoved = @ \ {p}, !.unvisited = @ \cup {p},
                         !.counted = @ \cup {p}]
    BY <1>3 DEF RecordCounted
  <2>2. /\ DOMAIN w = DOMAIN v /\ w.counted = v.counted \cup {p} /\ w.total = v.total
        /\ w.scanned = v.scanned /\ w.unvisited = v.unvisited \cup {p} /\ w.runtime = v.runtime
        /\ w.finished = v.finished /\ w.cancelled = v.cancelled /\ w.complete = v.complete
        /\ w.early = v.early
    BY <1>1, <2>1 DEF InventoryFields
  <2> QED BY <2>2 DEF Recorded, Counters
<1>4. CASE ~v.cancelled /\ \E l \in Labels, n \in Nat : w = SetTotal(v, l, n)
  <2>1. PICK l \in Labels, n \in Nat : w = [v EXCEPT !.total[l] = AtLeast(n, v.scanned[l])]
    BY <1>4 DEF SetTotal
  <2>2. AtLeast(n, v.scanned[l]) \in Nat
    BY DEF AtLeast, Counters
  <2>3. /\ DOMAIN w = DOMAIN v /\ w.counted = v.counted
        /\ w.total = [v.total EXCEPT ![l] = AtLeast(n, v.scanned[l])]
        /\ w.scanned = v.scanned /\ w.unvisited = v.unvisited /\ w.runtime = v.runtime
        /\ w.finished = v.finished /\ w.cancelled = v.cancelled /\ w.complete = v.complete
        /\ w.early = v.early
    BY <1>1, <2>1 DEF InventoryFields
  <2>4. w.total \in [Labels -> Nat]
    BY <2>2, <2>3 DEF Counters
  <2> QED BY <2>3, <2>4 DEF Recorded, Counters
<1> QED BY <1>2, <1>3, <1>4

\* Nothing of a library changes.
SameLibrary(v, w, l) ==
    /\ In(l, w.counted) = In(l, v.counted) /\ w.total[l] = v.total[l]
    /\ w.scanned[l] = v.scanned[l] /\ In(l, w.unvisited) = In(l, v.unvisited)
    /\ In(l, v.runtime) \subseteq w.runtime

\* Then it is as settled as it was.
LEMMA SettledStays ==
    ASSUME NEW v, NEW w, NEW l, SameLibrary(v, w, l), Settled(v, l)
    PROVE  Settled(w, l)
<1>1. Exact(w, l)
  BY DEF SameLibrary, Settled, Exact
<1>2. In(l, w.unvisited) \subseteq w.counted \cap w.runtime
  BY DEF SameLibrary, Settled, In
<1> QED BY <1>1, <1>2 DEF Settled

\* record_scanned: only the library of the item is touched.
LEMMA ScannedRecorded ==
    ASSUME NEW v, Counters(v), NEW p \in Paths, NEW w, w = RecordScanned(v, p)
    PROVE  /\ Recorded(v, w)
           /\ \A l \in Labels : l # LabelOf[p] /\ Settled(v, l) => Settled(w, l)
<1>1. DOMAIN v = InventoryFields /\ LabelOf[p] \in Labels
  BY HasLabel DEF Counters
<1>2. CASE v.cancelled
  <2>1. w = v
    BY <1>2 DEF RecordScanned
  <2> QED BY <2>1 DEF Recorded
<1>3. CASE ~v.cancelled
  <2> DEFINE l == LabelOf[p]
             t == AtLeast(v.total[l], v.scanned[l] + 1)
  <2>1. w = [v EXCEPT !.unvisited = @ \ {p}, !.runtime = @ \ {p},
                      !.postRuntime = @ \ {p}, !.postRemoved = @ \ {p},
                      !.seen = @ \cup {p}, !.counted = @ \cup {p},
                      !.scanned[l] = v.scanned[l] + 1, !.total[l] = t]
    BY <1>1, <1>3 DEF RecordScanned, InventoryFields
  <2>2. v.scanned[l] \in Nat /\ v.total[l] \in Nat /\ v.scanned[l] + 1 \in Nat
    BY <1>1 DEF Counters
  <2>3. t \in Nat
    BY <2>2 DEF AtLeast
  <2> HIDE DEF t
  <2>4. /\ DOMAIN w = DOMAIN v /\ w.counted = v.counted \cup {p}
        /\ w.total = [v.total EXCEPT ![l] = t]
        /\ w.scanned = [v.scanned EXCEPT ![l] = v.scanned[l] + 1]
        /\ w.unvisited = v.unvisited \ {p} /\ w.runtime = v.runtime \ {p}
        /\ w.finished = v.finished /\ w.cancelled = v.cancelled /\ w.complete = v.complete
        /\ w.early = v.early
    BY <1>1, <2>1 DEF InventoryFields
  <2>5. w.total \in [Labels -> Nat] /\ w.scanned \in [Labels -> Nat]
    <3>1. v.total \in [Labels -> Nat] /\ v.scanned \in [Labels -> Nat]
      BY DEF Counters
    <3>2. w.total = [v.total EXCEPT ![l] = t]
          /\ w.scanned = [v.scanned EXCEPT ![l] = v.scanned[l] + 1]
      BY <2>4
    <3>3. w.total \in [Labels -> Nat]
      BY <2>3, <3>1, <3>2
    <3>4. w.scanned \in [Labels -> Nat]
      BY <2>2, <3>1, <3>2
    <3> QED BY <3>3, <3>4
  <2>6. Recorded(v, w)
    BY <2>4, <2>5 DEF Recorded, Counters
  <2>7. ASSUME NEW k \in Labels, k # l, Settled(v, k)
        PROVE  Settled(w, k)
    <3>1. w.total[k] = v.total[k] /\ w.scanned[k] = v.scanned[k]
      BY <1>1, <2>4, <2>7 DEF Counters
    <3>2. /\ In(k, w.counted) = In(k, v.counted) /\ In(k, w.unvisited) = In(k, v.unvisited)
          /\ In(k, v.runtime) \subseteq w.runtime
      BY <2>4, <2>7 DEF In
    <3> QED BY <2>7, <3>1, <3>2, SettledStays DEF SameLibrary
  <2> QED BY <2>6, <2>7
<1> QED BY <1>2, <1>3

\* reconcile_final_library: the library is settled, and no other is touched.
LEMMA LibrarySettled ==
    ASSUME NEW v, Counters(v), NEW l \in Labels, NEW listed \in SUBSET Paths,
           NEW w, w = ReconcileLibrary(v, l, listed)
    PROVE  /\ Recorded(v, w)
           /\ listed \subseteq In(l, Paths) =>
                /\ Settled(w, l)
                /\ \A k \in Labels : k # l /\ Settled(v, k) => Settled(w, k)
<1> DEFINE keys == listed \ v.postRemoved
           gone == {p \in In(l, v.pending) : p \notin keys \cup v.postRuntime}
           pending == v.pending \ gone
           settled == {p \in In(l, v.runtime) : p \in keys \/ p \notin v.postRuntime}
           n == Cardinality(keys)
           left == Cardinality(In(l, pending))
<1>1. DOMAIN v = InventoryFields /\ v.total \in [Labels -> Nat] /\ v.scanned \in [Labels -> Nat]
  BY DEF Counters
<1>2. w = [v EXCEPT !.counted = (v.counted \ In(l, v.counted)) \cup keys,
                    !.pending = pending, !.early = v.early \ gone,
                    !.runtime = v.runtime \ (gone \cup settled),
                    !.postRuntime = v.postRuntime \ (gone \cup settled),
                    !.total[l] = n, !.scanned[l] = n, !.left[l] = left,
                    !.unvisited = v.unvisited \ In(l, v.unvisited), !.seen = v.seen \cup keys]
  BY <1>1 DEF ReconcileLibrary, InventoryFields
<1>3. /\ gone \subseteq In(l, v.pending) /\ settled \subseteq In(l, v.runtime)
      /\ keys \subseteq listed
  OBVIOUS
<1>4. n \in Nat
  BY InventoryAssumption, FS_Subset, FS_CardinalityType
<1> HIDE DEF gone, settled, pending, left, n, keys
<1>5. /\ DOMAIN w = DOMAIN v /\ w.counted = (v.counted \ In(l, v.counted)) \cup keys
      /\ w.total = [v.total EXCEPT ![l] = n] /\ w.scanned = [v.scanned EXCEPT ![l] = n]
      /\ w.unvisited = v.unvisited \ In(l, v.unvisited)
      /\ w.runtime = v.runtime \ (gone \cup settled) /\ w.early = v.early \ gone
      /\ w.finished = v.finished /\ w.cancelled = v.cancelled /\ w.complete = v.complete
  BY <1>1, <1>2 DEF InventoryFields
<1>6. w.total \in [Labels -> Nat] /\ w.scanned \in [Labels -> Nat]
  BY <1>1, <1>4, <1>5
<1>7. Recorded(v, w)
  BY <1>3, <1>5, <1>6 DEF Recorded, Counters
<1>8. ASSUME listed \subseteq In(l, Paths)
      PROVE  Settled(w, l)
  <2>1. In(l, w.counted) = keys /\ In(l, w.unvisited) = {}
    BY <1>3, <1>5, <1>8 DEF In
  <2>2. w.total[l] = n /\ w.scanned[l] = n
    BY <1>1, <1>5
  <2> QED BY <1>4, <2>1, <2>2 DEF Settled, Exact, n
<1>9. ASSUME listed \subseteq In(l, Paths), NEW k \in Labels, k # l, Settled(v, k)
      PROVE  Settled(w, k)
  <2>1. w.total[k] = v.total[k] /\ w.scanned[k] = v.scanned[k]
    BY <1>1, <1>5, <1>9
  <2>2. /\ In(k, w.counted) = In(k, v.counted) /\ In(k, w.unvisited) = In(k, v.unvisited)
        /\ In(k, v.runtime) \subseteq w.runtime
    BY <1>3, <1>5, <1>9 DEF In
  <2> QED BY <1>9, <2>1, <2>2, SettledStays DEF SameLibrary
<1> QED BY <1>7, <1>8, <1>9

\* The counters after _reconcile_runtime_additions_locked.
AddedUp(v, w) ==
    /\ Counters(w) /\ w.early = v.early
    /\ w.finished = v.finished /\ w.cancelled = v.cancelled /\ w.complete = v.complete
    /\ w.counted = v.counted \cup v.runtime

\* The larger of a counter and another number.
LEMMA AtLeastIsNat ==
    ASSUME NEW m \in Nat, NEW n \in Int
    PROVE  /\ AtLeast(m, n) \in Nat
           /\ n <= m => AtLeast(m, n) = m
           /\ m <= n => AtLeast(m, n) = n
BY DEF AtLeast

\* It adds up what arrived in the meantime.
LEMMA ReconcileAddsUp ==
    ASSUME NEW v, Counters(v), NEW drop, NEW w, w = ReconcileRuntime(v, drop)
    PROVE  /\ AddedUp(v, w)
           /\ \A l \in Libraries : Settled(v, l) => Exact(w, l)
<1> DEFINE new == v.runtime \ v.counted
           missed(l) == In(l, v.unvisited \ v.runtime)
           scanned == [l \in Labels |-> v.scanned[l] + Cardinality(In(l, new))]
           all == [l \in Labels |->
                     AtLeast(v.total[l] + Cardinality(In(l, new \ v.unvisited)),
                         IF In(l, new \cap v.unvisited) = {} THEN 0 ELSE scanned[l])]
           kept == [l \in Labels |-> AtLeast(scanned[l], all[l] - Cardinality(missed(l)))]
           total == IF drop THEN kept ELSE all
<1>1. /\ DOMAIN v = InventoryFields /\ v.total \in [Labels -> Nat]
      /\ v.scanned \in [Labels -> Nat] /\ v.counted \in SUBSET Paths
      /\ v.runtime \in SUBSET Paths /\ v.unvisited \in SUBSET Paths
  BY DEF Counters
<1>2. w = [v EXCEPT !.scanned = scanned, !.total = total, !.counted = v.counted \cup new,
                    !.runtime = {}, !.postRuntime = {}, !.postRemoved = {},
                    !.unvisited = {}, !.seen = {}]
  BY <1>1 DEF ReconcileRuntime, InventoryFields
<1>3. ASSUME NEW l \in Labels
      PROVE  /\ scanned[l] = v.scanned[l] + Cardinality(In(l, new))
             /\ all[l] = AtLeast(v.total[l] + Cardinality(In(l, new \ v.unvisited)),
                            IF In(l, new \cap v.unvisited) = {} THEN 0 ELSE scanned[l])
             /\ kept[l] = AtLeast(scanned[l], all[l] - Cardinality(missed(l)))
  <2>1. scanned[l] = v.scanned[l] + Cardinality(In(l, new))
    OBVIOUS
  <2> HIDE DEF scanned
  <2>2. all[l] = AtLeast(v.total[l] + Cardinality(In(l, new \ v.unvisited)),
                    IF In(l, new \cap v.unvisited) = {} THEN 0 ELSE scanned[l])
    OBVIOUS
  <2> HIDE DEF all
  <2>3. kept[l] = AtLeast(scanned[l], all[l] - Cardinality(missed(l)))
    OBVIOUS
  <2> QED BY <2>1, <2>2, <2>3
<1>4. \E f : scanned = [l \in Labels |-> f[l]]
  <2>1. scanned = [l \in Labels |-> scanned[l]]
    OBVIOUS
  <2> QED BY <2>1
<1>5. all = [l \in Labels |-> all[l]] /\ kept = [l \in Labels |-> kept[l]]
  <2> HIDE DEF scanned
  <2>1. all = [l \in Labels |-> all[l]]
    OBVIOUS
  <2> HIDE DEF all
  <2>2. kept = [l \in Labels |-> kept[l]]
    OBVIOUS
  <2> QED BY <2>1, <2>2
<1>6. ASSUME NEW l \in Labels
      PROVE  /\ Cardinality(missed(l)) \in Nat /\ Cardinality(In(l, new)) \in Nat
             /\ Cardinality(In(l, new \ v.unvisited)) \in Nat
  BY <1>1, LibraryFinite
<1>7. total \in {all, kept}
  OBVIOUS
<1> HIDE DEF scanned, all, kept, total
<1>8. ASSUME NEW l \in Labels
      PROVE  scanned[l] \in Nat /\ all[l] \in Nat /\ kept[l] \in Nat
  <2>1. v.total[l] \in Nat /\ v.scanned[l] \in Nat
    BY <1>1
  <2>2. scanned[l] \in Nat
    <3>1. scanned[l] = v.scanned[l] + Cardinality(In(l, new))
      BY <1>3
    <3>2. Cardinality(In(l, new)) \in Nat
      BY <1>6
    <3> HIDE DEF new
    <3> QED BY <2>1, <3>1, <3>2
  <2>3. all[l] \in Nat
    <3>1. /\ v.total[l] + Cardinality(In(l, new \ v.unvisited)) \in Nat
          /\ (IF In(l, new \cap v.unvisited) = {} THEN 0 ELSE scanned[l]) \in Int
      BY <1>6, <2>1, <2>2
    <3> QED BY <1>3, <3>1, AtLeastIsNat
  <2>4. kept[l] \in Nat
    <3>1. all[l] - Cardinality(missed(l)) \in Int
      BY <1>6, <2>3
    <3> QED BY <1>3, <2>2, <3>1, AtLeastIsNat
  <2> QED BY <2>2, <2>3, <2>4
<1>9. scanned \in [Labels -> Nat] /\ total \in [Labels -> Nat]
  <2>1. scanned \in [Labels -> Nat]
    BY <1>4, <1>8
  <2>2. all \in [Labels -> Nat] /\ kept \in [Labels -> Nat]
    BY <1>5, <1>8
  <2> QED BY <1>7, <2>1, <2>2
<1>10. ASSUME NEW l \in Libraries, Settled(v, l)
       PROVE  /\ scanned[l] = v.scanned[l] + Cardinality(In(l, new))
              /\ total[l] = v.total[l] + Cardinality(In(l, new))
  <2>1. l \in Labels
    BY DEF Labels
  <2>2. /\ In(l, new \cap v.unvisited) = {} /\ In(l, new \ v.unvisited) = In(l, new)
        /\ missed(l) = {}
    BY <1>10 DEF Settled, In
  <2>3. v.scanned[l] <= v.total[l]
    BY <1>10 DEF Settled, Exact
  <2>4. Cardinality(missed(l)) = 0
    BY <2>2, FS_EmptySet
  <2>5. /\ v.total[l] \in Nat /\ v.scanned[l] \in Nat /\ Cardinality(In(l, new)) \in Nat
        /\ scanned[l] = v.scanned[l] + Cardinality(In(l, new))
    BY <1>1, <1>3, <1>6, <2>1
  <2> HIDE DEF new, missed
  <2>6. all[l] = v.total[l] + Cardinality(In(l, new))
    <3>1. all[l] = AtLeast(v.total[l] + Cardinality(In(l, new)), 0)
      BY <1>3, <2>1, <2>2
    <3>2. PICK n \in Nat : n = v.total[l] + Cardinality(In(l, new))
      BY <2>5
    <3>3. AtLeast(n, 0) = n
      BY DEF AtLeast
    <3> QED BY <3>1, <3>2, <3>3
  <2>7. kept[l] = v.total[l] + Cardinality(In(l, new))
    <3>1. kept[l] = AtLeast(scanned[l], all[l])
      <4>1. all[l] - Cardinality(missed(l)) = all[l]
        BY <2>4, <2>5, <2>6
      <4> QED BY <1>3, <2>1, <4>1
    <3>2. scanned[l] \in Nat /\ all[l] \in Int /\ scanned[l] <= all[l]
      BY <2>3, <2>5, <2>6
    <3>3. kept[l] = all[l]
      BY <3>1, <3>2, AtLeastIsNat
    <3> QED BY <2>6, <3>3
  <2> QED BY <1>7, <2>5, <2>6, <2>7
<1> HIDE DEF new
<1>11. /\ DOMAIN w = DOMAIN v /\ w.scanned = scanned /\ w.total = total
      /\ w.counted = v.counted \cup new /\ w.runtime = {} /\ w.unvisited = {}
      /\ w.early = v.early
      /\ w.finished = v.finished /\ w.cancelled = v.cancelled /\ w.complete = v.complete
  BY <1>1, <1>2 DEF InventoryFields
<1>12. v.counted \cup new = v.counted \cup v.runtime /\ new \in SUBSET Paths
      /\ v.counted \cap new = {}
  BY <1>1 DEF new
<1>13. AddedUp(v, w)
  BY <1>1, <1>9, <1>11, <1>12 DEF AddedUp, Counters
<1>14. ASSUME NEW l \in Libraries, Settled(v, l)
      PROVE  Exact(w, l)
  <2>1. Cardinality(In(l, w.counted)) = Cardinality(In(l, v.counted)) + Cardinality(In(l, new))
    <3>1. In(l, w.counted) = In(l, v.counted) \cup In(l, new)
          /\ In(l, v.counted) \cap In(l, new) = {}
      BY <1>11, <1>12 DEF In
    <3>2. IsFiniteSet(In(l, v.counted)) /\ IsFiniteSet(In(l, new))
      BY <1>1, <1>12, LibraryFinite
    <3>3. Cardinality({}) = 0
      BY FS_EmptySet
    <3>4. Cardinality(In(l, v.counted)) \in Nat /\ Cardinality(In(l, new)) \in Nat
      BY <3>2, FS_CardinalityType
    <3>5. Cardinality(In(l, v.counted) \cup In(l, new)) =
             Cardinality(In(l, v.counted)) + Cardinality(In(l, new))
             - Cardinality(In(l, v.counted) \cap In(l, new))
      BY <3>2, FS_Union
    <3>6. Cardinality(In(l, v.counted) \cap In(l, new)) = 0
      BY <3>1, <3>3
    <3>7. Cardinality(In(l, w.counted)) = Cardinality(In(l, v.counted) \cup In(l, new))
      BY <3>1
    <3> QED BY <3>4, <3>5, <3>6, <3>7
  <2>2. v.total[l] = Cardinality(In(l, v.counted)) /\ v.scanned[l] <= v.total[l]
    BY <1>14 DEF Settled, Exact
  <2>3. /\ v.total[l] \in Nat /\ v.scanned[l] \in Nat /\ Cardinality(In(l, new)) \in Nat
    BY <1>1, <1>12, LibraryFinite DEF Labels
  <2>4. w.scanned[l] = v.scanned[l] + Cardinality(In(l, new))
        /\ w.total[l] = v.total[l] + Cardinality(In(l, new))
    BY <1>10, <1>11, <1>14
  <2> QED BY <2>1, <2>2, <2>3, <2>4 DEF Exact
<1> QED BY <1>13, <1>14

\* The end of the scan, by finish_scan or by its watchdog.
Ended(v, w, ok) ==
    /\ Counters(w) /\ w.early = v.early
    /\ w.finished = TRUE /\ w.complete = ok

\* finish_scan.
LEMMA ScanEnds ==
    ASSUME NEW v, Counters(v), NEW ok, NEW w, w = EndScan(v, ok)
    PROVE  /\ Ended(v, w, ok /\ ~v.cancelled) /\ w.cancelled = v.cancelled
           /\ \A l \in Libraries : Settled(v, l) => Exact(w, l)
<1>1. PICK good : good = (ok /\ ~v.cancelled)
  OBVIOUS
<1>2. PICK u : u = ReconcileRuntime(v, good)
  OBVIOUS
<1>3. AddedUp(v, u) /\ \A l \in Libraries : Settled(v, l) => Exact(u, l)
  BY <1>2, ReconcileAddsUp
<1>4. w = [u EXCEPT !.complete = good, !.finished = TRUE]
  BY <1>1, <1>2 DEF EndScan
<1>5. DOMAIN u = InventoryFields
  BY <1>3 DEF AddedUp, Counters
<1>6. /\ DOMAIN w = DOMAIN u /\ w.counted = u.counted /\ w.total = u.total
      /\ w.scanned = u.scanned /\ w.unvisited = u.unvisited /\ w.runtime = u.runtime
      /\ w.early = u.early /\ w.finished = TRUE /\ w.cancelled = u.cancelled
      /\ w.complete = good
  BY <1>4, <1>5 DEF InventoryFields
<1>7. Counters(w) /\ \A l \in Libraries : Exact(u, l) => Exact(w, l)
  BY <1>3, <1>6 DEF AddedUp, Counters, Exact
<1> QED BY <1>1, <1>3, <1>6, <1>7 DEF Ended, AddedUp

\* _expire_scan and stop.
LEMMA ScanStops ==
    ASSUME NEW v, Counters(v), NEW w,
           \/ w = ExpireScan(v)
           \/ w = [v EXCEPT !.cancelled = TRUE, !.open = FALSE, !.complete = FALSE,
                            !.finished = TRUE]
    PROVE  Ended(v, w, FALSE) /\ w.cancelled = TRUE
<1>1. CASE w = ExpireScan(v)
  <2>1. PICK u : u = ReconcileRuntime(v, FALSE) /\ AddedUp(v, u)
    BY ReconcileAddsUp
  <2>2. w = [u EXCEPT !.cancelled = TRUE, !.open = FALSE, !.complete = FALSE,
                      !.finished = TRUE, !.errors = TRUE]
    BY <1>1, <2>1 DEF ExpireScan
  <2>3. DOMAIN u = InventoryFields
    BY <2>1 DEF AddedUp, Counters
  <2>4. /\ DOMAIN w = DOMAIN u /\ w.counted = u.counted /\ w.total = u.total
        /\ w.scanned = u.scanned /\ w.unvisited = u.unvisited /\ w.runtime = u.runtime
        /\ w.early = u.early /\ w.finished = TRUE /\ w.cancelled = TRUE /\ w.complete = FALSE
    BY <2>2, <2>3 DEF InventoryFields
  <2> QED BY <2>1, <2>4 DEF Ended, AddedUp, Counters
<1>2. CASE w = [v EXCEPT !.cancelled = TRUE, !.open = FALSE, !.complete = FALSE,
                         !.finished = TRUE]
  <2>1. DOMAIN v = InventoryFields
    BY DEF Counters
  <2>2. /\ DOMAIN w = DOMAIN v /\ w.counted = v.counted /\ w.total = v.total
        /\ w.scanned = v.scanned /\ w.unvisited = v.unvisited /\ w.runtime = v.runtime
        /\ w.early = v.early /\ w.finished = TRUE /\ w.cancelled = TRUE /\ w.complete = FALSE
    BY <1>2, <2>1 DEF InventoryFields
  <2> QED BY <2>2 DEF Ended, Counters
<1> QED BY <1>1, <1>2

\* cancel_queue keeps the counters counters.
LEMMA CancelRecorded ==
    ASSUME NEW v, Counters(v), NEW p \in Paths, NEW w, w = CancelQueue(v, p)
    PROVE  Recorded(v, w)
<1>1. PICK u : u = Unqueue(v, p) /\ Dropped(v, u, p)
  BY UnqueueDrops
<1>2. /\ DOMAIN u = InventoryFields /\ u.counted = v.counted /\ u.total = v.total
      /\ u.scanned = v.scanned /\ u.unvisited = v.unvisited /\ u.runtime \subseteq v.runtime
      /\ u.early \subseteq v.early
      /\ u.finished = v.finished /\ u.cancelled = v.cancelled /\ u.complete = v.complete
  BY <1>1 DEF Dropped, Counters
<1>3. Counters(u)
  BY <1>2 DEF Counters
<1>4. CASE p \notin v.early
  <2>1. w = u
    BY <1>1, <1>4 DEF CancelQueue
  <2> QED BY <1>2, <1>3, <2>1 DEF Recorded
<1>5. CASE p \in v.early
  <2> DEFINE l == LabelOf[p]
  <2>1. w = [u EXCEPT !.counted = u.counted \ {p}, !.total[l] = Less(u.total[l]),
                      !.scanned[l] = Less(u.scanned[l])]
    BY <1>1, <1>2, <1>5 DEF CancelQueue, InventoryFields
  <2>2. l \in Labels /\ v.total \in [Labels -> Nat] /\ v.scanned \in [Labels -> Nat]
    BY HasLabel DEF Counters
  <2>3. Less(v.total[l]) \in Nat /\ Less(v.scanned[l]) \in Nat
    BY <2>2, LessIsNat
  <2>4. /\ DOMAIN w = InventoryFields /\ w.counted = u.counted \ {p}
        /\ w.total = [u.total EXCEPT ![l] = Less(u.total[l])]
        /\ w.scanned = [u.scanned EXCEPT ![l] = Less(u.scanned[l])]
        /\ w.unvisited = u.unvisited /\ w.runtime = u.runtime /\ w.early = u.early
        /\ w.finished = u.finished /\ w.cancelled = u.cancelled /\ w.complete = u.complete
    BY <1>2, <2>1 DEF InventoryFields
  <2>5. w.total \in [Labels -> Nat]
    BY <1>2, <2>2, <2>3, <2>4
  <2>6. w.scanned \in [Labels -> Nat]
    BY <1>2, <2>2, <2>3, <2>4
  <2> QED BY <1>2, <1>3, <2>4, <2>5, <2>6 DEF Recorded, Counters
<1> QED BY <1>4, <1>5

-----------------------------------------------------------------------------
(* The threads, while the scan runs and after it. *)

\* What a step of another thread than the scanner leaves alone.
Beside ==
    /\ UNCHANGED scan /\ InPlace'
    /\ InHand => InHand'
    /\ ~inv.finished /\ HeldBack => HeldBack'

\* A step beside the scanner that keeps the counters.
LEMMA BesideScan ==
    ASSUME ScanInv, Kept(inv, inv'), Beside
    PROVE  ScanInv'
<1>1. Counters(inv') /\ InPlace'
  BY DEF Kept, Beside
<1>2. Course'
  BY DEF ScanInv, Course, Kept, Beside, ScanOver
<1>3. InHand'
  BY DEF ScanInv, Beside
<1>4. ~inv'.finished => HeldBack'
  BY DEF ScanInv, Beside, Kept
<1>5. Committed' = Committed
  BY DEF Committed, Beside
<1>6. Committed \subseteq Libraries
  BY DEF Committed
<1>7. ASSUME ~inv'.finished, ~scan'.failed, NEW l \in Committed'
      PROVE  Settled(inv', l)
  <2>1. ~inv.finished /\ ~scan.failed /\ l \in Committed /\ l \in Libraries
    BY <1>5, <1>6, <1>7 DEF Kept, Beside
  <2>2. Settled(inv, l)
    BY <2>1 DEF ScanInv
  <2> QED BY <2>1, <2>2 DEF Kept
<1>8. ASSUME inv'.complete
      PROVE  EarlyKnown(inv') /\ \A l \in Libraries : Exact(inv', l)
  <2>1. inv.complete /\ inv.finished
    BY <1>8 DEF Kept, ScanInv, Course
  <2>2. EarlyKnown(inv) /\ \A l \in Libraries : Exact(inv, l)
    BY <2>1 DEF ScanInv, EarlyKnown
  <2> QED BY <2>1, <2>2 DEF Kept
<1> QED BY <1>1, <1>2, <1>3, <1>4, <1>7, <1>8 DEF ScanInv, EarlyKnown

\* A caller that goes on with its path.
GoesOn(c) ==
    /\ \A d \in Callers : d # c => call'[d] = call[d]
    /\ call[c].pc # "rest" /\ call'[c].pc # "rest" /\ call'[c].path = call[c].path

\* The scanner has the same file in hand.
LEMMA HandStays ==
    ASSUME NEW c \in Callers, GoesOn(c), UNCHANGED scan, InHand
    PROVE  InHand'
<1>1. call'[Scanner].pc # "rest" <=> call[Scanner].pc # "rest"
  BY ScannerIsCaller DEF GoesOn
<1>2. call[Scanner].pc # "rest" => call'[Scanner].path = call[Scanner].path
  BY ScannerIsCaller DEF GoesOn
<1> QED BY <1>1, <1>2 DEF InHand

\* A caller's own move to another line, none of them to "cancel" or "refused".
LEMMA CallerMoves ==
    ASSUME InvInv, ScanInv, NEW c \in Callers, NEW label,
           label \notin {"rest", "cancel", "refused"},
           call[c].pc # "rest", At(c, label), UNCHANGED <<scan, work>>,
           DOMAIN task' = Paths,
           \A p \in Paths : task[p] # "none" => task'[p] # "none"
    PROVE  Beside
<1>1. /\ DOMAIN call' = Callers /\ DOMAIN call = Callers
      /\ \A d \in Callers : d # c => call'[d] = call[d]
      /\ call'[c].pc = label /\ call'[c].path = call[c].path
      /\ \A d \in Callers : call[d].pc # "rest" => call[d].path \in Paths
  BY DEF At, InvInv, Places
<1>2. InPlace'
  BY DEF ScanInv, InPlace
<1>3. ASSUME InHand
      PROVE  InHand'
  BY <1>1, <1>3, HandStays DEF GoesOn
<1>4. ASSUME HeldBack
      PROVE  HeldBack'
  BY <1>1, <1>4 DEF HeldBack
<1> QED BY <1>2, <1>3, <1>4 DEF Beside

\* gen_subtitles_queue and _put_task_with_inventory: before the scan is over
\* no reservation is taken back.
LEMMA CallScan ==
    ASSUME InvInv, ScanInv, NEW c \in Callers, Call(c)
    PROVE  ScanInv'
<1>0. Counters(inv) /\ DOMAIN task = Paths
  BY DEF ScanInv, InPlace
<1>1. CASE CheckPolicy(c) \/ CheckScan(c)
  <2>1. /\ UNCHANGED <<inv, scan, work, task>> /\ call[c].pc # "rest"
        /\ \E label \in {"back", "check", "reserve"} : At(c, label)
    BY <1>1 DEF CheckPolicy, CheckScan
  <2>2. Beside
    BY <1>0, <2>1, CallerMoves
  <2> QED BY <1>0, <2>1, <2>2, BesideScan, NotedKept
<1>2. CASE Reserve(c)
  <2>1. /\ UNCHANGED <<scan, work, task>> /\ call[c].pc = "reserve" /\ call[c].path \in Paths
        /\ inv' = MarkQueued(inv, call[c].path, c = Scanner, call[c].bound)
        /\ call' = [call EXCEPT ![c].pc = "recheck",
                                ![c].reserved = call[c].path \notin inv.pending]
    BY <1>2 DEF Reserve, InvInv, Places
  <2>2. Kept(inv, inv')
    BY <1>0, <2>1, QueuedKept
  <2>3. /\ DOMAIN call' = Callers /\ DOMAIN call = Callers
        /\ \A d \in Callers : d # c => call'[d] = call[d]
        /\ call'[c].pc = "recheck" /\ call'[c].path = call[c].path
    BY <2>1 DEF InvInv, Places
  <2>4. ASSUME InHand PROVE InHand'
    BY <2>1, <2>3, <2>4, HandStays DEF GoesOn
  <2>5. ASSUME HeldBack PROVE HeldBack'
    BY <2>1, <2>3, <2>5 DEF HeldBack
  <2>6. Beside
    BY <2>1, <2>4, <2>5 DEF Beside, ScanInv, InPlace
  <2> QED BY <2>2, <2>6, BesideScan
<1>3. CASE Recheck(c) \/ Refused(c)
  <2>1. /\ UNCHANGED <<inv, scan, work, task>> /\ call[c].pc # "rest"
        /\ \E label \in {"put", "back", "cancel"} : At(c, label)
    BY <1>3 DEF Recheck, Refused
  <2>2. Kept(inv, inv')
    BY <1>0, <2>1, NotedKept
  <2>3. CASE At(c, "put") \/ At(c, "back")
    <3>1. Beside
      BY <1>0, <2>1, <2>3, CallerMoves
    <3> QED BY <2>2, <3>1, BesideScan
  <2>4. CASE At(c, "cancel") /\ ~At(c, "put") /\ ~At(c, "back")
    <3>1. inv.finished
      <4>1. ASSUME ~inv.finished PROVE FALSE
        <5>1. HeldBack /\ ScanActive(inv)
          BY <4>1 DEF ScanInv, Course, ScanActive
        <5>2. CASE Recheck(c)
          BY <2>4, <5>1, <5>2 DEF Recheck, NotActive
        <5>3. CASE Refused(c)
          BY <2>4, <5>1, <5>3 DEF Refused, HeldBack
        <5> QED BY <1>3, <5>2, <5>3
      <4> QED BY <4>1
    <3>2. /\ DOMAIN call' = Callers /\ DOMAIN call = Callers
          /\ \A d \in Callers : d # c => call'[d] = call[d]
          /\ call'[c].pc = "cancel" /\ call'[c].path = call[c].path
      BY <2>1, <2>4 DEF At, InvInv, Places
    <3>3. ASSUME InHand PROVE InHand'
      BY <2>1, <3>2, <3>3, HandStays DEF GoesOn
    <3>4. Beside
      BY <2>1, <3>1, <3>3 DEF Beside, ScanInv, InPlace
    <3> QED BY <2>2, <3>4, BesideScan
  <2> QED BY <2>1, <2>3, <2>4
<1>4. CASE PutTask(c)
  <2>1. /\ UNCHANGED <<inv, scan, work>> /\ call[c].pc = "put" /\ call[c].path \in Paths
        /\ \/ /\ task' = [task EXCEPT ![call[c].path] = "queued"] /\ At(c, "back")
           \/ UNCHANGED task /\ At(c, "back")
           \/ UNCHANGED task /\ At(c, "refused") /\ task[call[c].path] # "none"
    BY <1>4 DEF PutTask, InvInv, Places
  <2>2. Kept(inv, inv')
    BY <1>0, <2>1, NotedKept
  <2>3. DOMAIN task' = Paths /\ \A p \in Paths : task[p] # "none" => task'[p] # "none"
    BY <1>0, <2>1
  <2>4. CASE At(c, "back")
    <3>1. Beside
      BY <2>1, <2>3, <2>4, CallerMoves
    <3> QED BY <2>2, <3>1, BesideScan
  <2>5. CASE UNCHANGED task /\ At(c, "refused") /\ task[call[c].path] # "none"
    <3>1. /\ DOMAIN call' = Callers /\ DOMAIN call = Callers
          /\ \A d \in Callers : d # c => call'[d] = call[d]
          /\ call'[c].pc = "refused" /\ call'[c].path = call[c].path
      BY <2>1, <2>5 DEF At, InvInv, Places
    <3>2. ASSUME InHand PROVE InHand'
      BY <2>1, <3>1, <3>2, HandStays DEF GoesOn
    <3>3. ASSUME HeldBack PROVE HeldBack'
      BY <2>1, <2>5, <3>1, <3>3 DEF HeldBack
    <3>4. Beside
      BY <2>1, <2>5, <3>2, <3>3 DEF Beside, ScanInv, InPlace
    <3> QED BY <2>2, <3>4, BesideScan
  <2> QED BY <2>1, <2>4, <2>5
<1>5. CASE Cancel(c)
  <2>1. /\ UNCHANGED <<scan, work, task>> /\ call[c].pc = "cancel" /\ call[c].path \in Paths
        /\ inv' = CancelQueue(inv, call[c].path) /\ At(c, "back")
    BY <1>5 DEF Cancel, InvInv, Places
  <2>2. inv.finished
    BY <2>1 DEF ScanInv, HeldBack
  <2>3. Beside
    BY <1>0, <2>1, CallerMoves
  <2>4. CASE inv.complete
    <3>1. EarlyKnown(inv)
      BY <2>4 DEF ScanInv, EarlyKnown
    <3>2. Kept(inv, inv')
      BY <1>0, <2>1, <2>2, <3>1, CancelKept
    <3> QED BY <2>3, <3>2, BesideScan
  <2>5. CASE ~inv.complete
    <3>1. Recorded(inv, inv')
      BY <1>0, <2>1, CancelRecorded
    <3>2. Course'
      BY <2>2, <2>3, <2>5, <3>1 DEF Recorded, Course, ScanInv, Beside, ScanOver
    <3> QED BY <2>2, <2>3, <2>5, <3>1, <3>2 DEF Recorded, ScanInv, Beside
  <2> QED BY <2>4, <2>5
<1> QED BY <1>1, <1>2, <1>3, <1>4, <1>5 DEF Call

\* A caller takes up a path or comes to rest.
TakesUp(c) ==
    /\ \A d \in Callers : d # c => call'[d] = call[d]
    /\ call'[c].pc \in {"rest", "start"}

\* It is another one than the scanner.
LEMMA CallerReplaced ==
    ASSUME ScanInv, NEW c \in Callers, c # Scanner, TakesUp(c), UNCHANGED <<scan, work, task>>
    PROVE  Beside
<1> USE DEF TakesUp
<1>1. InPlace'
  BY DEF ScanInv, InPlace
<1>2. ASSUME InHand PROVE InHand'
  <2>1. call'[Scanner] = call[Scanner]
    BY ScannerIsCaller
  <2> QED BY <1>2, <2>1 DEF InHand
<1>3. ASSUME HeldBack PROVE HeldBack'
  BY <1>3 DEF HeldBack
<1> QED BY <1>1, <1>2, <1>3 DEF Beside

\* The webhooks.
LEMMA HookScan ==
    ASSUME InvInv, ScanInv, NEW h \in Hooks, HookCall(h) \/ HookReturn(h)
    PROVE  ScanInv'
<1>1. h \in Callers /\ h # Scanner
  BY InventoryAssumption DEF Callers
<1>2. UNCHANGED <<inv, scan, work, task>>
  BY DEF HookCall, HookReturn
<1>3. TakesUp(h)
  BY <1>1 DEF HookCall, HookReturn, Rest, Start, TakesUp, InvInv, Places
<1>4. Beside
  BY <1>1, <1>2, <1>3, CallerReplaced
<1>5. Kept(inv, inv')
  BY <1>2, NotedKept DEF ScanInv
<1> QED BY <1>4, <1>5, BesideScan

\* Nothing of the threads changes that the scan depends on.
LEMMA NothingBeside ==
    ASSUME ScanInv, UNCHANGED <<scan, work, task, call>>
    PROVE  Beside
BY DEF Beside, ScanInv, InPlace, InHand, HeldBack

\* The callbacks of the watcher.
LEMMA WatchScan ==
    ASSUME InvInv, ScanInv, Watch
    PROVE  ScanInv'
<1>0. Counters(inv)
  BY DEF ScanInv
<1>1. CASE Dispatch \/ ReleaseEvent
  <2>1. /\ UNCHANGED <<scan, work, task, call>>
        /\ inv' = inv \/ \E n : inv' = [inv EXCEPT !.inflight = n]
    BY <1>1 DEF Dispatch, ReleaseEvent
  <2>2. Kept(inv, inv')
    BY <1>0, <2>1, NotedKept
  <2> QED BY <2>1, <2>2, NothingBeside, BesideScan
<1>2. CASE OnDeleted
  <2>1. UNCHANGED <<scan, work, task, call>> /\ inv' = MarkRemoved(inv, event.path, event.bound)
    BY <1>2 DEF OnDeleted
  <2>2. Kept(inv, inv')
    BY <1>0, <2>1, RemovedKept DEF Removed
  <2> QED BY <2>1, <2>2, NothingBeside, BesideScan
<1>3. CASE OnMoved
  <2>1. /\ UNCHANGED <<scan, work, task, call>> /\ event.to \in Paths
        /\ \/ inv' = MarkMoved(inv, event.path, event.to, event.bound)
           \/ inv' = MarkRemoved(inv, event.path, event.bound)
    BY <1>3 DEF OnMoved, InvInv, Places
  <2>2. CASE inv' = MarkMoved(inv, event.path, event.to, event.bound)
    <3>1. Kept(inv, inv')
      BY <1>0, <2>1, <2>2, MovedKept
    <3> QED BY <2>1, <3>1, NothingBeside, BesideScan
  <2>3. CASE inv' = MarkRemoved(inv, event.path, event.bound)
    <3>1. Kept(inv, inv')
      BY <1>0, <2>3, RemovedKept DEF Removed
    <3> QED BY <2>1, <3>1, NothingBeside, BesideScan
  <2> QED BY <2>1, <2>2, <2>3
<1>4. CASE OnCreated
  <2>1. UNCHANGED <<inv, scan, work, task, call>>
    BY <1>4 DEF OnCreated
  <2>2. Kept(inv, inv')
    BY <1>0, <2>1, NotedKept
  <2> QED BY <2>1, <2>2, NothingBeside, BesideScan
<1>5. Watcher \in Callers /\ Watcher # Scanner
  BY ScannerIsCaller, InventoryAssumption
<1>6. CASE ObserveItem
  <2>1. /\ UNCHANGED <<scan, work, task>> /\ event.to \in Paths
        /\ inv' = MarkObserved(inv, event.to, event.bound)
        /\ call' = [call EXCEPT ![Watcher] = Start(event.to, event.bound)]
    BY <1>6 DEF ObserveItem, InvInv, Places
  <2>2. TakesUp(Watcher)
    BY <1>5, <2>1 DEF TakesUp, Start, InvInv, Places
  <2>3. Kept(inv, inv')
    BY <1>0, <2>1, ObservedKept
  <2>4. Beside
    BY <1>5, <2>1, <2>2, CallerReplaced
  <2> QED BY <2>3, <2>4, BesideScan
<1>7. CASE CreatedQueued
  <2>1. UNCHANGED <<inv, scan, work, task>> /\ call' = [call EXCEPT ![Watcher] = Rest]
    BY <1>7 DEF CreatedQueued
  <2>2. TakesUp(Watcher)
    BY <1>5, <2>1 DEF TakesUp, Rest, InvInv, Places
  <2>3. Kept(inv, inv')
    BY <1>0, <2>1, NotedKept
  <2>4. Beside
    BY <1>5, <2>1, <2>2, CallerReplaced
  <2> QED BY <2>3, <2>4, BesideScan
<1> QED BY <1>1, <1>2, <1>3, <1>4, <1>6, <1>7 DEF Watch

\* Changes of the file system are events for the watcher.
LEMMA FileSystemScan ==
    ASSUME ScanInv, FileSystem
    PROVE  ScanInv'
<1>1. UNCHANGED <<inv, scan, work, task, call>>
  BY DEF FileSystem, CreateFile, ModifyFile, DeleteFile, MoveFile, Change
<1>2. Kept(inv, inv')
  BY <1>1, NotedKept DEF ScanInv
<1> QED BY <1>1, <1>2, NothingBeside, BesideScan

\* The workers are held back until the scan is over.
LEMMA WorkScan ==
    ASSUME ScanInv, NEW w \in Workers, Work(w)
    PROVE  ScanInv'
<1>0. Counters(inv) /\ DOMAIN task = Paths /\ DOMAIN work = Workers
  BY DEF ScanInv, InPlace
<1>1. CASE TakeTask(w)
  <2>1. PICK p \in Paths : /\ task' = [task EXCEPT ![p] = "held"]
                           /\ work' = [work EXCEPT ![w] = [pc |-> "wait", path |-> p]]
    BY <1>1 DEF TakeTask
  <2>2. UNCHANGED <<inv, scan, call>>
    BY <1>1 DEF TakeTask
  <2>3. InPlace'
    BY <1>0, <2>1, <2>2 DEF ScanInv, InPlace
  <2>4. ASSUME HeldBack PROVE HeldBack'
    <3>1. \A u \in Workers : work'[u].pc \in {"rest", "wait"}
      BY <1>0, <2>1, <2>4 DEF HeldBack
    <3>2. \A q : task[q] # "none" => task'[q] # "none"
      BY <1>0, <2>1
    <3> QED BY <2>2, <2>4, <3>1, <3>2 DEF HeldBack
  <2>5. Beside
    BY <2>2, <2>3, <2>4 DEF Beside, InHand
  <2>6. Kept(inv, inv')
    BY <1>0, <2>2, NotedKept
  <2> QED BY <2>5, <2>6, BesideScan
<1>2. CASE ~TakeTask(w)
  <2>1. inv.finished
    <3>1. work[w].pc \in {"work", "finish", "detected", "follow"} \/ inv.finished
      BY <1>2 DEF Work, WaitScanned, Complete, Fail, Detect, MarkDone, PutNext
    <3> QED BY <3>1 DEF ScanInv, HeldBack
  <2>2. /\ UNCHANGED <<scan, call>> /\ DOMAIN task' = DOMAIN task /\ DOMAIN work' = DOMAIN work
        /\ inv' = inv \/ inv' = MarkCompleted(inv, work[w].path)
    BY <1>2 DEF Work, WaitScanned, Complete, Fail, Detect, MarkDone, PutNext
  <2>3. Kept(inv, inv')
    BY <1>0, <2>1, <2>2, NotedKept, CompletedKept
  <2>4. Beside
    BY <1>0, <2>1, <2>2 DEF Beside, ScanInv, InPlace, InHand
  <2> QED BY <2>3, <2>4, BesideScan
<1> QED BY <1>1, <1>2

\* The watchdog of the scan and the shutdown end it, incomplete.
LEMMA StopScan ==
    ASSUME ScanInv, Expire \/ Stop
    PROVE  ScanInv'
<1>1. UNCHANGED <<scan, call, task, work>>
  BY DEF Expire, Stop
<1>2. Ended(inv, inv', FALSE) /\ inv'.cancelled = TRUE
  BY ScanStops DEF Expire, Stop, ScanInv
<1>3. Counters(inv') /\ inv'.finished /\ ~inv'.complete /\ inv'.cancelled
  BY <1>2 DEF Ended
<1>4. InPlace' /\ InHand'
  BY <1>1 DEF ScanInv, InPlace, InHand
<1>5. Course'
  BY <1>1, <1>3 DEF ScanInv, Course, ScanOver
<1> QED BY <1>3, <1>4, <1>5 DEF ScanInv

\* A step of the scanner before the end of the scan.
OnItsWay ==
    /\ Recorded(inv, inv') /\ UNCHANGED <<task, work>>
    /\ scan.pc \notin {"monitor", "end"} /\ scan'.pc \notin {"begin", "monitor", "end"}
    /\ scan'.n \in Nat /\ scan'.listed \subseteq Paths /\ scan'.libs \subseteq Libraries
    /\ scan'.primary => scan'.failed
    /\ scan'.pc = "finishWait" => ~scan'.failed
    /\ InHand'
    /\ \A c \in Callers : call'[c] = call[c] \/ call'[c].pc \in {"rest", "start", "back"}
    /\ ~inv.finished /\ ~scan'.failed => \A l \in Committed' : Settled(inv', l)

\* Such a step keeps the invariant.
LEMMA ScanGoesOn ==
    ASSUME ScanInv, OnItsWay
    PROVE  ScanInv'
<1> USE DEF OnItsWay
<1>1. Counters(inv') /\ InPlace'
  BY DEF Recorded, ScanInv, InPlace
<1>2. ~inv.complete /\ ~inv'.complete
  BY DEF ScanInv, Course, ScanOver, Recorded
<1>3. Course'
  BY <1>2 DEF ScanInv, Course, ScanOver, Recorded
<1>4. ~inv'.finished => ~inv.finished
  BY DEF Recorded
<1>5. ASSUME ~inv'.finished PROVE HeldBack'
  <2>1. HeldBack
    BY <1>4, <1>5 DEF ScanInv
  <2> QED BY <2>1 DEF HeldBack
<1> QED BY <1>1, <1>2, <1>3, <1>4, <1>5 DEF ScanInv

\* The scanner's variables.
LEMMA ScannerVariables ==
    ASSUME InvInv, ScanInv
    PROVE  /\ {"pc", "libs", "lib", "todo", "listed", "n", "failed", "primary"}
                 \subseteq DOMAIN scan
           /\ scan.n \in Nat /\ scan.listed \subseteq Paths /\ scan.libs \subseteq Libraries
           /\ scan.todo \subseteq Paths /\ scan.lib \in Labels
           /\ scan.primary => scan.failed
           /\ DOMAIN call = Callers /\ Scanner \in Callers
           /\ Counters(inv) /\ InHand
BY ScannerIsCaller DEF InvInv, Places, ScanInv, InPlace, Course

\* Errors and the cutoff: nothing is counted.
LEMMA NotedOnTheWay ==
    ASSUME ScanInv, \/ inv' = inv \/ inv' = RecordError(inv)
                    \/ inv' = [inv EXCEPT !.open = FALSE]
    PROVE  Recorded(inv, inv') /\ Kept(inv, inv')
<1>1. Kept(inv, inv')
  BY NotedKept DEF ScanInv
<1> QED BY <1>1 DEF Kept, Recorded

\* The failed steps: only that the counters are counters matters from now on.
LEMMA FailedScan ==
    ASSUME InvInv, ScanInv, \/ WalkError \/ InspectError \/ AbandonScan \/ AbandonFinal
                            \/ DrainEvents /\ scan'.failed
    PROVE  ScanInv'
<1> USE ScannerVariables
<1>1. inv' = inv \/ inv' = RecordError(inv)
  BY DEF WalkError, InspectError, AbandonScan, AbandonFinal, DrainEvents
<1>2. Recorded(inv, inv') /\ UNCHANGED <<task, work>>
  BY <1>1, NotedOnTheWay DEF WalkError, InspectError, AbandonScan, AbandonFinal, DrainEvents,
                             ScannerKeeps
<1>3. CASE WalkError
  <2>1. UNCHANGED call /\ call[Scanner].pc = "rest" /\ scan.lib # Other
    BY <1>3 DEF WalkError, Rest
  <2>2. /\ scan.pc \in {"count", "inspect", "final"} /\ scan'.pc = scan.pc /\ scan'.failed = TRUE
        /\ scan'.n = 0 /\ scan'.listed = scan.listed /\ scan'.libs = scan.libs
        /\ scan'.todo = {} /\ scan'.lib \in {scan.lib, Other}
    BY <1>3 DEF WalkError
  <2>3. InHand'
    BY <2>1, <2>2 DEF InHand
  <2>4. OnItsWay
    BY <1>2, <2>1, <2>2, <2>3 DEF OnItsWay
  <2> QED BY <2>4, ScanGoesOn
<1>4. CASE InspectError
  <2>1. call[Scanner].pc = "start" /\ call' = [call EXCEPT ![Scanner].pc = "back"]
    BY <1>4 DEF InspectError, At
  <2>2. /\ call'[Scanner].pc = "back" /\ call'[Scanner].path = call[Scanner].path
        /\ \A c \in Callers : c # Scanner => call'[c] = call[c]
    BY <2>1 DEF InvInv, Places
  <2>3. /\ scan.pc \in {"inspect", "final"} /\ scan'.pc = scan.pc /\ scan'.failed = TRUE
        /\ scan'.n = scan.n /\ scan'.listed = scan.listed /\ scan'.libs = scan.libs
        /\ scan'.todo = scan.todo /\ scan'.lib = scan.lib
    BY <1>4, <2>1 DEF InspectError, InHand
  <2>4. InHand'
    BY <2>1, <2>2, <2>3 DEF InHand
  <2>5. OnItsWay
    BY <1>2, <2>2, <2>3, <2>4 DEF OnItsWay
  <2> QED BY <2>5, ScanGoesOn
<1>5. CASE AbandonScan \/ AbandonFinal \/ (DrainEvents /\ scan'.failed)
  <2>1. UNCHANGED call /\ call[Scanner].pc = "rest"
    BY <1>5 DEF AbandonScan, AbandonFinal, DrainEvents, Rest, InHand
  <2>2. scan.pc \in {"count", "inspect", "final", "drain"}
    BY <1>5 DEF AbandonScan, AbandonFinal, DrainEvents
  <2>3. \/ scan' = [scan EXCEPT !.pc = "finish", !.failed = TRUE]
        \/ /\ scan' = [scan EXCEPT !.pc = "final", !.libs = Libraries]
           /\ scan'.failed /\ scan.pc = "drain"
    BY <1>5 DEF AbandonScan, AbandonFinal, DrainEvents, Phase
  <2>4. /\ scan'.pc \in {"finish", "final"} /\ scan'.failed
        /\ scan'.n = scan.n /\ scan'.listed = scan.listed /\ scan'.libs \subseteq Libraries
        /\ scan'.todo = scan.todo /\ scan'.lib = scan.lib
    BY <2>3
  <2>5. InHand'
    BY <2>1, <2>4 DEF InHand
  <2>6. OnItsWay
    BY <1>2, <2>1, <2>2, <2>4, <2>5 DEF OnItsWay
  <2> QED BY <2>6, ScanGoesOn
<1> QED BY <1>3, <1>4, <1>5

\* The walks that count: no library is committed yet.
LEMMA CountScan ==
    ASSUME InvInv, ScanInv, StartMonitor \/ CountFile \/ CountDone
    PROVE  ScanInv'
<1> USE ScannerVariables
<1>1. UNCHANGED <<task, work, call>>
  BY DEF StartMonitor, CountFile, CountDone, ScannerKeeps
<1>2. CASE StartMonitor
  <2>1. PICK ok \in {TRUE, ~MayFail} :
           /\ inv' = IF ok THEN inv ELSE RecordError(inv)
           /\ scan' = [scan EXCEPT !.pc = "count", !.libs = Libraries, !.failed = ~ok]
    BY <1>2 DEF StartMonitor
  <2>2. Recorded(inv, inv')
    BY <2>1, NotedOnTheWay
  <2>3. scan.pc = "begin" /\ ~scan.failed /\ ~scan.primary /\ scan.lib = Other
    BY <1>2 DEF StartMonitor, ScanInv, Course, InHand
  <2>4. /\ scan'.pc = "count" /\ scan'.libs = Libraries /\ scan'.lib = Other
        /\ scan'.n = scan.n /\ scan'.listed = scan.listed /\ scan'.todo = scan.todo
        /\ scan'.primary = scan.primary
    BY <2>1, <2>3
  <2>5. InHand'
    BY <1>1, <2>3, <2>4 DEF InHand
  <2>6. Committed' = {}
    BY <2>4 DEF Committed
  <2>7. OnItsWay
    BY <1>1, <2>2, <2>3, <2>4, <2>5, <2>6 DEF OnItsWay
  <2> QED BY <2>7, ScanGoesOn
<1>3. CASE CountFile
  <2>1. PICK p \in scan.todo : /\ inv' = RecordCounted(inv, p)
                               /\ scan' = [scan EXCEPT !.todo = @ \ {p}, !.n = @ + 1]
    BY <1>3 DEF CountFile
  <2>2. Recorded(inv, inv')
    BY <2>1, CountedRecorded
  <2>3. /\ scan.pc = "count" /\ scan'.pc = "count" /\ scan'.libs = scan.libs
        /\ scan'.lib = scan.lib /\ scan'.n = scan.n + 1 /\ scan'.listed = scan.listed
        /\ scan'.todo \subseteq scan.todo
        /\ scan'.primary = scan.primary /\ scan'.failed = scan.failed
    BY <1>3, <2>1 DEF CountFile
  <2>4. InHand'
    BY <1>1, <2>3 DEF InHand
  <2>5. Committed' = {}
    BY <2>3 DEF Committed
  <2>6. OnItsWay
    BY <1>1, <2>2, <2>3, <2>4, <2>5 DEF OnItsWay
  <2> QED BY <2>6, ScanGoesOn
<1>4. CASE CountDone
  <2>1. inv' = SetTotal(inv, scan.lib, scan.n) /\ scan.todo = {}
    BY <1>4 DEF CountDone
  <2>2. Recorded(inv, inv')
    BY <2>1, CountedRecorded
  <2>3. /\ scan.pc = "count" /\ scan'.pc = "count" /\ scan'.libs = scan.libs
        /\ scan'.lib = Other /\ scan'.n = scan.n /\ scan'.listed = scan.listed
        /\ scan'.todo = scan.todo
        /\ scan'.primary = scan.primary /\ scan'.failed = scan.failed
    BY <1>4 DEF CountDone
  <2>4. InHand'
    BY <1>1, <2>1, <2>3 DEF InHand
  <2>5. Committed' = {}
    BY <2>3 DEF Committed
  <2>6. OnItsWay
    BY <1>1, <2>2, <2>3, <2>4, <2>5 DEF OnItsWay
  <2> QED BY <2>6, ScanGoesOn
<1> QED BY <1>2, <1>3, <1>4

\* The next library, and the files of a library.
LEMMA VisitScan ==
    ASSUME InvInv, ScanInv, ListLibrary \/ VisitFile \/ FileVisited
    PROVE  ScanInv'
<1> USE ScannerVariables
<1>1. UNCHANGED <<task, work>>
  BY DEF ListLibrary, VisitFile, FileVisited, ScannerKeeps
<1>2. CASE ListLibrary
  <2>1. PICK l \in scan.libs : scan' = [scan EXCEPT !.lib = l, !.libs = @ \ {l}, !.n = 0,
                                            !.todo = In(l, disk), !.listed = {}]
    BY <1>2 DEF ListLibrary
  <2>2. /\ UNCHANGED <<inv, call>> /\ scan.pc \in {"count", "inspect", "final"}
        /\ scan.lib = Other
    BY <1>2 DEF ListLibrary
  <2>3. l \in Libraries /\ l # Other /\ Other \notin Libraries
    BY InventoryAssumption
  <2>4. /\ scan'.pc = scan.pc /\ scan'.libs = scan.libs \ {l} /\ scan'.lib = l
        /\ scan'.n = 0 /\ scan'.listed = {} /\ scan'.todo = In(l, disk)
        /\ scan'.primary = scan.primary /\ scan'.failed = scan.failed
    BY <2>1
  <2>5. InHand'
    BY <2>2, <2>3, <2>4 DEF InHand, In, InvInv, Places
  <2>6. Committed' = Committed
    BY <2>2, <2>3, <2>4 DEF Committed
  <2>7. Recorded(inv, inv')
    BY <2>2, NotedOnTheWay
  <2>8. ~inv.finished /\ ~scan'.failed => \A k \in Committed' : Settled(inv', k)
    BY <2>2, <2>4, <2>6 DEF ScanInv
  <2>9. OnItsWay
    BY <1>1, <2>2, <2>4, <2>5, <2>7, <2>8 DEF OnItsWay
  <2> QED BY <2>9, ScanGoesOn
<1>3. CASE VisitFile
  <2>1. PICK p \in scan.todo :
           /\ scan' = [scan EXCEPT !.todo = @ \ {p}, !.listed = @ \cup {p}]
           /\ \/ call' = [call EXCEPT ![Scanner] = Start(p, TRUE)]
              \/ UNCHANGED call
    BY <1>3 DEF VisitFile
  <2>2. /\ UNCHANGED inv /\ scan.pc \in {"inspect", "final"} /\ call[Scanner].pc = "rest"
    <3>1. UNCHANGED inv /\ scan.pc \in {"inspect", "final"} /\ call[Scanner] = Rest
      BY <1>3 DEF VisitFile
    <3> QED BY <3>1 DEF Rest
  <2>3. /\ scan'.pc = scan.pc /\ scan'.libs = scan.libs /\ scan'.lib = scan.lib
        /\ scan'.n = scan.n /\ scan'.listed = scan.listed \cup {p} /\ scan'.todo \subseteq scan.todo
        /\ scan'.primary = scan.primary /\ scan'.failed = scan.failed
    BY <2>1
  <2>4. /\ \A c \in Callers : c # Scanner => call'[c] = call[c]
        /\ \/ call'[Scanner].pc = "start" /\ call'[Scanner].path = p
           \/ call'[Scanner] = call[Scanner]
    BY <2>1 DEF Start
  <2>5. scan.lib # Other /\ p \in Paths /\ LabelOf[p] = scan.lib
    BY <2>1 DEF InHand, In
  <2>6. InHand'
    BY <2>2, <2>3, <2>4, <2>5 DEF InHand, In
  <2>7. Committed' = Committed
    BY <2>3 DEF Committed
  <2>8. Recorded(inv, inv')
    BY <2>2, NotedOnTheWay
  <2>9. ~inv.finished /\ ~scan'.failed => \A k \in Committed' : Settled(inv', k)
    BY <2>2, <2>3, <2>7 DEF ScanInv
  <2>10. OnItsWay
    BY <1>1, <2>2, <2>3, <2>4, <2>5, <2>6, <2>8, <2>9 DEF OnItsWay
  <2> QED BY <2>10, ScanGoesOn
<1>4. CASE FileVisited
  <2> DEFINE p == call[Scanner].path
  <2>1. /\ call[Scanner].pc = "back" /\ inv' = RecordScanned(inv, p) /\ UNCHANGED scan
        /\ call' = [call EXCEPT ![Scanner] = Rest]
    BY <1>4 DEF FileVisited
  <2>2. p \in Paths /\ LabelOf[p] = scan.lib /\ scan.pc \in {"inspect", "final"}
    BY <2>1 DEF InHand, InvInv, Places
  <2>3. /\ \A c \in Callers : c # Scanner => call'[c] = call[c]
        /\ call'[Scanner].pc = "rest"
    BY <2>1 DEF Rest
  <2> HIDE DEF p
  <2>4. /\ Recorded(inv, inv')
        /\ \A l \in Labels : l # LabelOf[p] /\ Settled(inv, l) => Settled(inv', l)
    BY <2>1, <2>2, ScannedRecorded
  <2>5. InHand'
    BY <2>1, <2>3 DEF InHand
  <2>6. Committed' = Committed /\ \A l \in Committed : l \in Labels /\ l # scan.lib
    BY <2>1, <2>2 DEF Committed, Labels
  <2>7. ~inv.finished /\ ~scan'.failed => \A l \in Committed' : Settled(inv', l)
    BY <2>1, <2>2, <2>4, <2>6 DEF ScanInv
  <2>8. OnItsWay
    BY <1>1, <2>1, <2>2, <2>3, <2>4, <2>5, <2>7 DEF OnItsWay
  <2> QED BY <2>8, ScanGoesOn
<1> QED BY <1>2, <1>3, <1>4

\* The final pass commits a library.
LEMMA LibraryScan ==
    ASSUME InvInv, ScanInv, LibraryDone
    PROVE  ScanInv'
<1> USE ScannerVariables
<1>1. /\ UNCHANGED <<task, work, call>> /\ scan.pc \in {"inspect", "final"}
      /\ scan.lib # Other /\ scan.todo = {} /\ call[Scanner].pc = "rest"
  BY DEF LibraryDone, ScannerKeeps, Rest
<1>2. /\ scan'.pc = scan.pc /\ scan'.libs = scan.libs /\ scan'.lib = Other
      /\ scan'.n = scan.n /\ scan'.listed = scan.listed /\ scan'.todo = scan.todo
      /\ scan'.primary = scan.primary /\ scan'.failed = scan.failed
  BY DEF LibraryDone
<1>3. InHand'
  BY <1>1, <1>2 DEF InHand
<1>4. CASE scan.pc = "inspect"
  <2>1. UNCHANGED inv
    BY <1>4 DEF LibraryDone
  <2>2. Committed' = {}
    BY <1>2, <1>4 DEF Committed
  <2>3. Recorded(inv, inv')
    BY <2>1, NotedOnTheWay
  <2>4. OnItsWay
    BY <1>1, <1>2, <1>3, <2>2, <2>3 DEF OnItsWay
  <2> QED BY <2>4, ScanGoesOn
<1>5. CASE scan.pc = "final"
  <2>1. inv' = ReconcileLibrary(inv, scan.lib, scan.listed)
    BY <1>5 DEF LibraryDone
  <2>2. scan.listed \subseteq In(scan.lib, Paths)
    BY <1>1 DEF InHand
  <2>3. /\ Recorded(inv, inv') /\ Settled(inv', scan.lib)
        /\ \A k \in Labels : k # scan.lib /\ Settled(inv, k) => Settled(inv', k)
    BY <2>1, <2>2, LibrarySettled
  <2>4. \A k \in Committed' : k \in Labels /\ (k = scan.lib \/ k \in Committed)
    BY <1>2, <1>5 DEF Committed, Labels
  <2>5. ~inv.finished /\ ~scan'.failed => \A k \in Committed' : Settled(inv', k)
    BY <1>2, <2>3, <2>4 DEF ScanInv
  <2>6. OnItsWay
    BY <1>1, <1>2, <1>3, <2>3, <2>5 DEF OnItsWay
  <2> QED BY <2>6, ScanGoesOn
<1> QED BY <1>1, <1>4, <1>5

\* The phases of the scan.
LEMMA PhaseScan ==
    ASSUME InvInv, ScanInv, PhaseDone \/ CloseCutoff \/ (DrainEvents /\ ~scan'.failed)
    PROVE  ScanInv'
<1> USE ScannerVariables
<1>1. UNCHANGED <<task, work, call>>
  BY DEF PhaseDone, CloseCutoff, DrainEvents, ScannerKeeps
<1>2. CASE PhaseDone
  <2>1. /\ UNCHANGED inv /\ scan.libs = {} /\ scan.lib = Other
        /\ scan.pc \in {"count", "inspect", "final"}
    BY <1>2 DEF PhaseDone
  <2>2. PICK q : /\ scan' = [scan EXCEPT !.pc = q, !.libs = Libraries]
                 /\ q \in {"inspect", "cutoff", "finish"}
                 /\ q = "finish" => scan.primary \/ scan.pc = "final"
    BY <1>2 DEF PhaseDone, Phase
  <2>3. /\ scan'.pc = q /\ scan'.libs = Libraries /\ scan'.lib = Other
        /\ scan'.n = scan.n /\ scan'.listed = scan.listed /\ scan'.todo = scan.todo
        /\ scan'.primary = scan.primary /\ scan'.failed = scan.failed
    BY <2>1, <2>2
  <2>4. InHand'
    BY <1>1, <2>1, <2>3 DEF InHand
  <2>5. ASSUME ~scan.failed, NEW l \in Committed'
        PROVE  l \in Committed
    <3>1. q = "finish" /\ l \in Libraries
      BY <2>2, <2>3, <2>5 DEF Committed
    <3>2. scan.pc = "final"
      BY <2>2, <2>5, <3>1
    <3> QED BY <2>1, <3>1, <3>2, InventoryAssumption DEF Committed
  <2>6. ~inv.finished /\ ~scan'.failed => \A l \in Committed' : Settled(inv', l)
    BY <2>1, <2>3, <2>5 DEF ScanInv
  <2>7. Recorded(inv, inv')
    BY <2>1, NotedOnTheWay
  <2>8. OnItsWay
    BY <1>1, <2>1, <2>2, <2>3, <2>4, <2>6, <2>7 DEF OnItsWay
  <2> QED BY <2>8, ScanGoesOn
<1>3. CASE CloseCutoff
  <2>1. inv' = [inv EXCEPT !.open = FALSE] /\ scan.pc = "cutoff"
    BY <1>3 DEF CloseCutoff
  <2>2. /\ scan'.pc = "drain" /\ scan'.libs = scan.libs /\ scan'.lib = scan.lib
        /\ scan'.n = scan.n /\ scan'.listed = scan.listed /\ scan'.todo = scan.todo
        /\ scan'.primary = scan.primary /\ scan'.failed = scan.failed
    BY <1>3 DEF CloseCutoff
  <2>3. Recorded(inv, inv')
    BY <2>1, NotedOnTheWay
  <2>4. InHand'
    BY <1>1, <2>1, <2>2 DEF InHand
  <2>5. Committed' = {}
    BY <2>2 DEF Committed
  <2>6. OnItsWay
    BY <1>1, <2>1, <2>2, <2>3, <2>4, <2>5 DEF OnItsWay
  <2> QED BY <2>6, ScanGoesOn
<1>4. CASE DrainEvents /\ ~scan'.failed
  <2>1. /\ UNCHANGED inv /\ scan.pc = "drain"
        /\ scan' = [scan EXCEPT !.pc = "final", !.libs = Libraries]
    BY <1>4 DEF DrainEvents, Phase
  <2>2. /\ scan'.pc = "final" /\ scan'.libs = Libraries /\ scan'.lib = scan.lib
        /\ scan'.n = scan.n /\ scan'.listed = scan.listed /\ scan'.todo = scan.todo
        /\ scan'.primary = scan.primary /\ scan'.failed = scan.failed
    BY <2>1
  <2>3. Recorded(inv, inv')
    BY <2>1, NotedOnTheWay
  <2>4. InHand'
    BY <1>1, <2>1, <2>2 DEF InHand
  <2>5. Committed' = {}
    BY <2>2 DEF Committed
  <2>6. OnItsWay
    BY <1>1, <2>1, <2>2, <2>3, <2>4, <2>5 DEF OnItsWay
  <2> QED BY <2>6, ScanGoesOn
<1> QED BY <1>2, <1>3, <1>4

\* The end of the scan: everything is committed, or it is incomplete.
LEMMA EndedScan ==
    ASSUME InvInv, ScanInv, FinishScan \/ FinishDrained \/ RestartMonitor
    PROVE  ScanInv'
<1> USE ScannerVariables
<1>1. UNCHANGED <<task, work, call>>
  BY DEF FinishScan, FinishDrained, RestartMonitor, ScannerKeeps
<1>2. CASE FinishScan /\ scan' = [scan EXCEPT !.pc = "finishWait"]
  <2>1. /\ inv' = [inv EXCEPT !.open = FALSE] /\ scan.pc = "finish" /\ ~scan.failed
    BY <1>2 DEF FinishScan
  <2>2. /\ scan'.pc = "finishWait" /\ scan'.libs = scan.libs /\ scan'.lib = scan.lib
        /\ scan'.n = scan.n /\ scan'.listed = scan.listed /\ scan'.todo = scan.todo
        /\ scan'.primary = scan.primary /\ scan'.failed = scan.failed
    BY <1>2
  <2>3. Recorded(inv, inv') /\ Kept(inv, inv')
    BY <2>1, NotedOnTheWay
  <2>4. InHand'
    BY <1>1, <2>1, <2>2 DEF InHand
  <2>5. Committed' = Committed /\ Committed \subseteq Libraries
    BY <2>1, <2>2 DEF Committed
  <2>6. ~inv.finished /\ ~scan'.failed => \A l \in Committed' : Settled(inv', l)
    BY <2>1, <2>3, <2>5 DEF ScanInv, Kept
  <2>7. OnItsWay
    BY <1>1, <2>1, <2>2, <2>3, <2>4, <2>6 DEF OnItsWay
  <2> QED BY <2>7, ScanGoesOn
<1>3. CASE FinishDrained \/ (FinishScan /\ scan' # [scan EXCEPT !.pc = "finishWait"])
  <2>1. /\ scan.pc \in {"finish", "finishWait"} /\ scan' = [scan EXCEPT !.pc = "monitor"]
    BY <1>3 DEF FinishScan, FinishDrained
  <2>2. PICK v, ok :
           /\ inv' = EndScan(v, ok) /\ (ok => ~scan.failed)
           /\ v = inv \/ v = [inv EXCEPT !.open = FALSE] \/ v = [inv EXCEPT !.errors = TRUE]
    BY <1>3 DEF FinishScan, FinishDrained, ScanInv, Course
  <2>3. Kept(inv, v)
    BY <2>2, NotedKept
  <2>4. /\ Ended(v, inv', ok /\ ~v.cancelled) /\ inv'.cancelled = v.cancelled
        /\ \A l \in Libraries : Settled(v, l) => Exact(inv', l)
    BY <2>2, <2>3, ScanEnds DEF Kept
  <2>5. /\ Counters(inv') /\ inv'.finished
        /\ inv'.complete => ~inv.finished /\ ~scan.failed
        /\ inv'.cancelled => inv.cancelled
    <3>1. ~inv.cancelled => ~inv.finished
      BY <2>1 DEF ScanInv, Course, ScanOver
    <3> QED BY <2>2, <2>3, <2>4, <3>1 DEF Ended, Kept
  <2>6. /\ scan'.pc = "monitor" /\ scan'.libs = scan.libs /\ scan'.lib = scan.lib
        /\ scan'.n = scan.n /\ scan'.listed = scan.listed /\ scan'.todo = scan.todo
        /\ scan'.primary = scan.primary /\ scan'.failed = scan.failed
    BY <2>1
  <2>7. InPlace' /\ InHand'
    BY <1>1, <2>1, <2>6 DEF ScanInv, InPlace, InHand
  <2>8. Course'
    BY <2>5, <2>6 DEF ScanInv, Course, ScanOver
  <2>9. ASSUME inv'.complete
        PROVE  EarlyKnown(inv') /\ \A l \in Libraries : Exact(inv', l)
    <3>1. ~inv.finished /\ ~scan.failed
      BY <2>5, <2>9
    <3>2. inv'.early = {}
      BY <2>3, <2>4, <3>1 DEF ScanInv, Course, Kept, Ended
    <3>3. Committed = Libraries
      BY <2>1 DEF Committed
    <3>4. \A l \in Libraries : Settled(inv, l)
      BY <3>1, <3>3 DEF ScanInv
    <3>5. \A l \in Libraries : Settled(v, l)
      BY <2>3, <3>1, <3>4 DEF Kept
    <3> QED BY <2>4, <3>2, <3>5 DEF EarlyKnown
  <2> QED BY <2>5, <2>7, <2>8, <2>9 DEF ScanInv, EarlyKnown
<1>4. CASE RestartMonitor
  <2>1. /\ scan.pc = "monitor" /\ scan' = [scan EXCEPT !.pc = "end"]
        /\ inv' = inv \/ inv' = RecordError(inv)
    BY <1>4 DEF RestartMonitor
  <2>2. Kept(inv, inv')
    BY <2>1, NotedOnTheWay
  <2>3. /\ scan'.pc = "end" /\ scan'.libs = scan.libs /\ scan'.lib = scan.lib
        /\ scan'.n = scan.n /\ scan'.listed = scan.listed /\ scan'.todo = scan.todo
        /\ scan'.primary = scan.primary /\ scan'.failed = scan.failed
    BY <2>1
  <2>4. inv.finished /\ inv'.finished /\ Counters(inv') /\ (inv'.complete => inv.complete)
    BY <2>1, <2>2 DEF ScanInv, Course, ScanOver, Kept
  <2>5. InPlace' /\ InHand'
    BY <1>1, <2>1, <2>3 DEF ScanInv, InPlace, InHand
  <2>6. Course'
    BY <2>1, <2>2, <2>3, <2>4 DEF ScanInv, Course, ScanOver, Kept
  <2>7. ASSUME inv'.complete
        PROVE  EarlyKnown(inv') /\ \A l \in Libraries : Exact(inv', l)
    <3>1. EarlyKnown(inv) /\ \A l \in Libraries : Exact(inv, l)
      BY <2>4, <2>7 DEF ScanInv, EarlyKnown
    <3> QED BY <2>2, <2>4, <3>1 DEF Kept
  <2> QED BY <2>4, <2>5, <2>6, <2>7 DEF ScanInv, EarlyKnown
<1> QED BY <1>2, <1>3, <1>4 

\* A scan that has not begun.
LEMMA InitScan == Init => ScanInv
<1> SUFFICES ASSUME Init PROVE ScanInv
  OBVIOUS
<1>1. Counters(inv)
  BY DEF Init, NewInventory, Counters, InventoryFields
<1>2. InPlace
  BY DEF Init, InPlace
<1>3. Course
  BY DEF Init, NewInventory, Course, ScanOver
<1>4. InHand
  BY ScannerIsCaller DEF Init, InHand, Rest
<1>5. HeldBack
  BY DEF Init, HeldBack, Rest
<1>6. Committed = {} /\ ~inv.complete
  BY DEF Init, NewInventory, Committed
<1> QED BY <1>1, <1>2, <1>3, <1>4, <1>5, <1>6 DEF ScanInv

\* Every step keeps the invariant.
LEMMA NextScan == InvInv /\ ScanInv /\ [Next]_vars => ScanInv'
<1> SUFFICES ASSUME InvInv, ScanInv, [Next]_vars PROVE ScanInv'
  OBVIOUS
<1>1. CASE UNCHANGED vars
  BY <1>1 DEF vars, ScanInv, InPlace, Course, ScanOver, InHand, HeldBack, Committed
<1>2. CASE Scan
  BY <1>2, FailedScan, CountScan, VisitScan, LibraryScan, PhaseScan, EndedScan DEF Scan
<1>3. CASE Next /\ ~Scan
  BY <1>3, CallScan, HookScan, WatchScan, FileSystemScan, WorkScan, StopScan DEF Next
<1> QED BY <1>1, <1>2, <1>3

\* "scan_complete=true and scan_errors=0 together prove that the pass completed
\* cleanly": from the end of such a scan on, a library's total is the number of
\* files the inventory knows in it and no more are scanned, whatever was
\* created, deleted, moved, requested and cancelled meanwhile.
THEOREM ScanIsExact == Spec => []CleanScanIsExact
<1>1. ScanInv => CleanScanIsExact
  BY DEF ScanInv, CleanScanIsExact, Exact
<1> QED BY <1>1, InitMatches, NextMatches, InitScan, NextScan, PTL DEF Spec
=============================================================================

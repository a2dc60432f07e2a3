------------------------- MODULE CohortTranscription -------------------------
(***************************************************************************)
(* One file on several GPUs: run_parallel_segmented_transcription          *)
(* (parallel_transcription.py), its ParallelChunkCoordinator               *)
(* (segmentation.py) and PendingChunkStore (segmented_result.py), the      *)
(* CohortModelRuntime that owns the worker processes (cohort_runtime.py),  *)
(* the memory lease CohortReservation (resource_management.py), and the    *)
(* file's owner, _cohort_segmented_transcription (transcription.py) with   *)
(* acquire_cohort_file and shutdown_cohort_runtime (model_runtime.py).     *)
(*                                                                         *)
(* The runner, the load thread, one inference thread per worker and the    *)
(* shutdown thread interleave.  A range of media is a pair of unit         *)
(* numbers; the ranges to retry, which the code keeps coalesced, are the   *)
(* set of their units.  A budget that rates balance is any size from the   *)
(* minimum to the worker's budget.                                         *)
(***************************************************************************)
EXTENDS AdaptiveChunk, Sequences, Functions

CONSTANTS
    Selected,     \* the selected workers, in order
    CoFiles       \* files: length of the media and chunk budget in units, and
                  \*   two bounds: pressure events, and whether a shutdown is
                  \*   explored

ASSUME CohortAssumption ==
    /\ Selected \in Seq(Range(Selected)) /\ Selected # <<>>
    /\ \A i, j \in 1 .. Len(Selected) : Selected[i] = Selected[j] => i = j
    /\ CoFiles # {}
    /\ CoFiles \subseteq [length : Nat \ {0}, budget : Nat \ {0},
                           pressure : Nat, stops : BOOLEAN]

Workers == Range(Selected)
MaximumPending == 2 * Len(Selected)

VARIABLES
    coFile,    \* the file in hand
    runner,    \* pc, turn, fate, unconfirmed, bound of the runner thread
    errs,      \* the terminal exceptions it has collected
    allocs,    \* WorkerAllocationFailures: worker, phase, attempted size
    cohort,    \* runtime.active_file_cohort: a CohortModelRuntime or none
    lease,     \* CohortReservation is taken
    procs,     \* live model processes of each worker
    load,      \* the future of cohort.load: step, worker index
    futs,      \* each worker's inference future and its assignment
    sched,     \* ParallelChunkCoordinator
    budgets,   \* AdaptiveChunkState of each worker
    loadFails, \* load_failures
    stop,      \* shutdown: no, requested, over
    cleanup,   \* runtime.cohort_cleanup_error is set
    events     \* pressure events left

coVars == <<coFile, runner, errs, allocs, cohort, lease, procs, load, futs, sched,
            budgets, loadFails, stop, cleanup, events>>

NoCohort == [state |-> "none", reason |-> "none", handles |-> {},
             active |-> {}, token |-> FALSE]
NoLoad == [st |-> "none", next |-> 0]
NoFut == [st |-> "none", from |-> 0, to |-> 0]
NewSched == [claimed |-> 0, done |-> 0, retry |-> {}, ready |-> {},
             paused |-> FALSE]
At(p) == [pc |-> p, turn |-> 0, fate |-> "none", then |-> "none",
          unconfirmed |-> FALSE, bound |-> FALSE, exhausted |-> FALSE]

CoInit ==
    /\ coFile \in CoFiles
    /\ runner = At("idle")
    /\ errs = {} /\ allocs = {}
    /\ cohort = NoCohort
    /\ lease = FALSE
    /\ procs = [w \in Workers |-> 0]
    /\ load = NoLoad
    /\ futs = [w \in Workers |-> NoFut]
    /\ sched = NewSched
    /\ budgets = [w \in Workers |-> Freshly(coFile.budget)]
    /\ loadFails = [w \in Workers |-> 0]
    /\ stop = "no"
    /\ cleanup = FALSE
    /\ events = coFile.pressure

-----------------------------------------------------------------------------
(* CohortModelRuntime. *)

Cancelled(c) == c.reason # "none"

\* cancel: the first reason stays.
CancelCohort(c, why) ==
    IF c.state = "none" THEN c
    ELSE [c EXCEPT !.reason = IF @ = "none" THEN why ELSE @,
                   !.state = IF @ = "ready" THEN "draining" ELSE @]

\* _raise_cancelled.
CancelKind(c) == IF c.reason = "pressure" THEN "pressure" ELSE "cancelled"

\* Mutant: the lease goes back although a release failed.
ReleaseWorkersDropsLease(c, live) ==
    {[cohort |-> [c EXCEPT !.handles = c.handles \ confirmed,
                           !.state = IF confirmed = c.handles THEN "released" ELSE "blocked",
                           !.token = FALSE],
      lease  |-> lease /\ ~c.token,
      procs  |-> [w \in Workers |-> IF w \in confirmed THEN 0 ELSE live[w]],
      ok     |-> confirmed = c.handles] : confirmed \in SUBSET c.handles}

\* _release_workers once the releases of confirmed have confirmed and the
\* processes of died are dead although theirs raised: the new cohort, lease,
\* processes and success.  Any failure blocks the cohort and keeps the lease.
Released(c, live, confirmed, died) ==
    [cohort |-> [c EXCEPT !.handles = c.handles \ confirmed,
                          !.state = IF confirmed = c.handles THEN "released" ELSE "blocked",
                          !.token = c.token /\ confirmed # c.handles],
     lease  |-> lease /\ ~(c.token /\ confirmed = c.handles),
     procs  |-> [w \in Workers |-> IF w \in confirmed \cup died THEN 0 ELSE live[w]],
     ok     |-> confirmed = c.handles]

\* _release_workers: each handle's release confirms, or raises with the
\* process dead or still alive.
ReleaseWorkers(c, live) ==
    {Released(c, live, confirmed, died) :
        confirmed \in SUBSET c.handles, died \in SUBSET c.handles}

\* The cohort and the machine after a release outcome.
Becomes(o) ==
    /\ cohort' = o.cohort
    /\ lease' = o.lease
    /\ procs' = o.procs

\* load's handler: cancel, release what was loaded, re-raise.
LoadRaises(c, kind, live) ==
    LET why == IF kind = "pressure" THEN "pressure" ELSE "failure"
        new == CancelCohort(c, why)
    IN  \E o \in ReleaseWorkers(new, live) :
            /\ Becomes(o)
            /\ load' = [load EXCEPT !.st =
                           IF ~o.ok THEN "release"
                           ELSE IF kind = "cancelled" THEN CancelKind(new) ELSE kind]

LoadFrame == UNCHANGED <<coFile, runner, errs, allocs, futs, sched, budgets, loadFails,
                         stop, cleanup>>

Spends(kind) == IF kind = "pressure" THEN events > 0 /\ events' = events - 1
                                     ELSE UNCHANGED events

\* load up to the lease: verification of the artifacts, _check, acquire with
\* decide_admission.
LoadAdmit ==
    /\ load.st = "admit"
    /\ LET c == [cohort EXCEPT !.state = "loading"]
       IN  \/ /\ Cancelled(c) \/ stop # "no"
              /\ LoadRaises(c, "cancelled", procs) /\ UNCHANGED events
           \/ \E kind \in {"error", "pressure"} :
                 LoadRaises(c, kind, procs) /\ Spends(kind)
           \/ /\ lease
              /\ LoadRaises(c, "error", procs) /\ UNCHANGED events
           \/ /\ ~Cancelled(c) /\ ~lease
              /\ lease' = TRUE
              /\ cohort' = [c EXCEPT !.token = TRUE]
              /\ load' = [st |-> "worker", next |-> 1]
              /\ UNCHANGED <<procs, events>>
    /\ LoadFrame

\* One worker: _check, the handle is kept before its load allocates.
LoadWorker ==
    /\ load.st = "worker"
    /\ load.next <= Len(Selected)
    /\ LET w == Selected[load.next]
           c == [cohort EXCEPT !.handles = @ \cup {w}]
       IN  \/ /\ Cancelled(cohort)
              /\ LoadRaises(cohort, "cancelled", procs) /\ UNCHANGED events
           \/ \E kind \in {"error", "pressure", "alloc"} :
                 LoadRaises(c, kind, [procs EXCEPT ![w] = @ + 1]) /\ Spends(kind)
           \/ /\ ~Cancelled(cohort)
              /\ procs' = [procs EXCEPT ![w] = @ + 1]
              /\ cohort' = c
              /\ load' = [load EXCEPT !.next = @ + 1]
              /\ UNCHANGED <<lease, events>>
    /\ LoadFrame

\* The last check and the state ready, under the condition.
LoadReady ==
    /\ load.st = "worker"
    /\ load.next > Len(Selected)
    /\ \/ Cancelled(cohort) /\ LoadRaises(cohort, "cancelled", procs)
       \/ /\ ~Cancelled(cohort)
          /\ cohort' = [cohort EXCEPT !.state = "ready"]
          /\ load' = [load EXCEPT !.st = "loaded"]
          /\ UNCHANGED <<lease, procs>>
    /\ UNCHANGED events
    /\ LoadFrame

InferFrame == UNCHANGED <<coFile, runner, errs, allocs, lease, procs, load, sched,
                          budgets, loadFails, stop, cleanup>>

Ends(w, st) == futs' = [futs EXCEPT ![w].st = st]

\* transcribe up to worker.transcribe.
InferBegin(w) ==
    /\ futs[w].st = "queued"
    /\ IF cohort.state # "ready" \/ Cancelled(cohort)
       THEN /\ Ends(w, CancelKind(cohort))
            /\ UNCHANGED cohort
       ELSE /\ Ends(w, "running")
            /\ cohort' = [cohort EXCEPT !.active = @ \cup {w}]
    /\ UNCHANGED events
    /\ InferFrame

\* worker.transcribe and the checks after it; every exception cancels the
\* cohort with its own reason.
InferEnd(w) ==
    /\ futs[w].st = "running"
    /\ LET c == [cohort EXCEPT !.active = @ \ {w}]
       IN  \/ /\ ~Cancelled(cohort) /\ cohort.state = "ready"
              /\ Ends(w, "decoded")
              /\ cohort' = c
              /\ UNCHANGED events
           \/ /\ Cancelled(cohort)
              /\ cohort' = CancelCohort(c, "stop")
              /\ Ends(w, CancelKind(CancelCohort(c, "stop")))
              /\ UNCHANGED events
           \/ \E kind \in {"pressure", "alloc", "error"} :
                 /\ Spends(kind)
                 /\ Ends(w, kind)
                 /\ cohort' = CancelCohort(c, IF kind = "pressure" THEN kind ELSE "failure")
    /\ InferFrame

\* transform_result between two checks for a stop; running out of memory
\* here does not cancel the cohort.
InferTransform(w) ==
    /\ futs[w].st = "decoded"
    /\ \/ /\ stop = "no"
          /\ \E st \in {"ok", "alloc", "error"} : Ends(w, st)
       \/ stop # "no" /\ Ends(w, "cancelled")
    /\ UNCHANGED <<cohort, events>>
    /\ InferFrame

Busy(f) == f.st \in {"queued", "running", "decoded"}
Assigned(f) == f.st # "none"

-----------------------------------------------------------------------------
(* ParallelChunkCoordinator. *)

Pending(s, f) == Cardinality({w \in Workers : Assigned(f[w])}) + Cardinality(s.ready)

\* The earliest retry range up to its end, otherwise fresh media.
NextStart(s) == IF s.retry # {} THEN Min(s.retry) ELSE s.claimed
NextLimit(s) ==
    IF s.retry = {} THEN coFile.length
    ELSE Min({u \in 1 .. coFile.length : u > Min(s.retry) /\ u \notin s.retry})

\* claim returns None.
NothingToClaim(s, f) ==
    \/ s.paused
    \/ Pending(s, f) >= MaximumPending
    \/ NextStart(s) = NextLimit(s)

\* Mutant: the retry range is popped even when only its head was claimed.
ClaimedPopsRange(s, end) ==
    IF s.retry # {} THEN [s EXCEPT !.retry = {u \in @ : u >= NextLimit(s)}]
                    ELSE [s EXCEPT !.claimed = end]

\* claim: the schedule afterwards; the window is NextStart(s) .. end.
Claimed(s, end) ==
    IF s.retry # {} THEN [s EXCEPT !.retry = {u \in @ : u >= end}]
                    ELSE [s EXCEPT !.claimed = end]

UnitsOf(r) == r.from .. r.to - 1

\* yielded gives the range back.
Yielded(s, r) == [s EXCEPT !.retry = @ \cup UnitsOf(r)]

\* completed and the runner's stage: whose chunk it is, and that the present
\* cohort made it.
Staged(w, f) == [from |-> f.from, to |-> f.to, by |-> w, fresh |-> TRUE]

\* yielded or stage for each of the futures ws; bad are those whose result the
\* seam check or the store refused.
Harvested(s, ws, bad) ==
    LET good == {w \in ws : futs[w].st = "ok"} \ bad
    IN  [s EXCEPT !.ready = @ \cup {Staged(w, futs[w]) : w \in good},
                  !.retry = @ \cup UNION {UnitsOf(futs[w]) : w \in ws \ good}]

\* What the futures ws raised.
ErrorsOf(ws, bad) ==
    {futs[w].st : w \in {x \in ws : futs[x].st \notin {"ok", "alloc"}}}
        \cup (IF bad = {} THEN {} ELSE {"error"})
AllocsOf(ws) ==
    {[w |-> w, load |-> FALSE, size |-> futs[w].to - futs[w].from] :
        w \in {x \in ws : futs[x].st = "alloc"}}
Cleared(ws) == [w \in Workers |-> IF w \in ws THEN NoFut ELSE futs[w]]

-----------------------------------------------------------------------------
(* run_parallel_segmented_transcription. *)

Go(p) == runner' = [runner EXCEPT !.pc = p]

\* runtime_check: the ways it can end.
RuntimeCheck ==
    IF stop # "no" THEN {"cancelled"} ELSE {"ok", "error", "pressure"}

\* _terminal_errors.
Terminal(es) == es \cap {"error", "release"}

\* drain up to its wait: the cohort and the futures are cancelled; a future
\* no thread has begun is dropped.
CancelAll(f, why) ==
    /\ cohort' = IF runner.bound THEN CancelCohort(cohort, why) ELSE cohort
    /\ futs' = [w \in Workers |->
                   IF f[w].st = "queued" THEN [f[w] EXCEPT !.st = "cancelled"]
                                         ELSE f[w]]

\* A control error enters the handler of the loop.
Control(s, f, kind, es, as) ==
    LET why == IF kind = "pressure" \/ (runner.bound /\ cohort.reason = "pressure")
               THEN "pressure" ELSE "stop"
    IN  /\ runner' = [runner EXCEPT !.pc = "drain", !.then = "account", !.fate = why]
        /\ errs' = Terminal(es)
        /\ allocs' = as
        /\ sched' = [s EXCEPT !.paused = TRUE]
        /\ CancelAll(f, why)

\* Any other exception leaves the loop; finally drains.
Leave(s, f, fate) ==
    /\ runner' = [runner EXCEPT !.pc = "drain", !.then = "end", !.fate = fate]
    /\ sched' = s
    /\ CancelAll(f, "stop")
    /\ UNCHANGED <<errs, allocs>>

Throw(s, f, kind) ==
    IF kind = "error" THEN Leave(s, f, "failed")
                      ELSE Control(s, f, kind, {}, {})

Frame == UNCHANGED <<coFile, lease, procs, budgets, loadFails, stop, cleanup>>

\* acquire_cohort_file and _prepare_file_cohort let a file in.
StartCohortFile ==
    /\ runner.pc = "idle"
    /\ stop = "no"
    /\ ~cleanup
    /\ cohort.state \in {"none", "released"}
    /\ runner' = At("top")
    /\ UNCHANGED <<coFile, errs, allocs, cohort, lease, procs, load, futs, sched, budgets,
                   loadFails, stop, cleanup, events>>

\* The head of the loop, and make_cohort with the submission of its load.
LoopHead ==
    /\ runner.pc = "top"
    /\ \E kind \in RuntimeCheck :
          /\ Spends(kind)
          /\ \/ /\ kind # "ok"
                /\ Throw(sched, futs, kind)
                /\ UNCHANGED load
             \/ /\ kind = "ok"
                /\ sched.done = coFile.length
                /\ Go("final")
                /\ UNCHANGED <<errs, allocs, cohort, load, futs, sched>>
             \/ /\ kind = "ok"
                /\ sched.done < coFile.length
                /\ runner.bound
                /\ Go("harvest")
                /\ UNCHANGED <<errs, allocs, cohort, load, futs, sched>>
             \/ /\ kind = "ok"
                /\ sched.done < coFile.length
                /\ ~runner.bound
                /\ cohort.state \in {"none", "released"}
                /\ cohort' = [NoCohort EXCEPT !.state = "cold"]
                /\ load' = [st |-> "admit", next |-> 0]
                /\ runner' = [runner EXCEPT !.pc = "loading", !.bound = TRUE]
                /\ UNCHANGED <<errs, allocs, futs, sched>>
    /\ Frame

Loading == load.st \in {"admit", "worker"}

\* While the load runs, the loop watches for pressure and stop.
WatchLoad ==
    /\ runner.pc = "loading"
    /\ Loading
    /\ \E kind \in RuntimeCheck \ {"ok"} :
          Spends(kind) /\ Throw(sched, futs, kind)
    /\ UNCHANGED load
    /\ Frame

LoadAlloc == [w |-> Selected[load.next], load |-> TRUE, size |-> 0]

\* loading.result().
LoadTaken ==
    /\ runner.pc = "loading"
    /\ ~Loading
    /\ \/ /\ load.st = "loaded"
          /\ load' = NoLoad
          /\ loadFails' = [w \in Workers |-> 0]
          /\ sched' = [sched EXCEPT !.paused = FALSE,
                          !.ready = {[r EXCEPT !.fresh = FALSE] : r \in @}]
          /\ Go("harvest")
          /\ UNCHANGED <<errs, allocs, cohort, futs>>
       \/ /\ load.st \in {"pressure", "cancelled", "alloc"}
          /\ Control(sched, futs, load.st, {},
                     IF load.st = "alloc" THEN {LoadAlloc} ELSE {})
          /\ UNCHANGED <<load, loadFails>>
       \/ /\ load.st \in {"release", "error"}
          /\ Leave(sched, futs, IF load.st = "error" THEN "unhealthy" ELSE "release")
          /\ UNCHANGED <<load, loadFails>>
    /\ UNCHANGED <<coFile, lease, procs, budgets, stop, cleanup, events>>

\* Harvest every finished future; the first terminal error goes before an
\* allocation failure, which goes before any other.
Harvest ==
    /\ runner.pc = "harvest"
    /\ LET ws == {w \in Workers : Assigned(futs[w]) /\ ~Busy(futs[w])}
       IN  \E bad \in SUBSET {w \in ws : futs[w].st = "ok"} :
             LET s == Harvested(sched, ws, bad)
                 es == ErrorsOf(ws, bad)
                 as == AllocsOf(ws)
             IN  IF es = {} /\ as = {}
                 THEN /\ sched' = s
                      /\ futs' = Cleared(ws)
                      /\ Go("commit")
                      /\ UNCHANGED <<errs, allocs, cohort>>
                 ELSE IF Terminal(es) # {} THEN Leave(s, Cleared(ws), "failed")
                 ELSE IF as # {} THEN Control(s, Cleared(ws), "alloc", es, as)
                 ELSE \E kind \in es : Control(s, Cleared(ws), kind, es, as)
    /\ UNCHANGED <<load, events>>
    /\ Frame

\* commit_ready(maximum_commits=1): the chunk at the cursor goes to the
\* journal once the check passes; its worker's budget learns of the success
\* if the cohort that made it is the present one.
CommitReady ==
    /\ runner.pc = "commit"
    /\ \E r \in sched.ready :
          /\ r.from = sched.done
          /\ \E kind \in RuntimeCheck :
                /\ Spends(kind)
                /\ \/ /\ kind # "ok"
                      /\ Throw(sched, futs, kind)
                      /\ UNCHANGED budgets
                   \/ /\ kind = "ok"
                      /\ sched' = [sched EXCEPT !.done = r.to, !.ready = @ \ {r}]
                      /\ budgets' = IF r.fresh
                                    THEN [budgets EXCEPT ![r.by] = RecordSuccess(@, TRUE, coFile.budget)]
                                    ELSE budgets
                      /\ UNCHANGED <<runner, errs, allocs, cohort, futs>>
    /\ UNCHANGED <<coFile, load, lease, procs, loadFails, stop, cleanup>>

CommitsDone ==
    /\ runner.pc = "commit"
    /\ \A r \in sched.ready : r.from # sched.done
    /\ runner' = IF sched.done = coFile.length
                 THEN [runner EXCEPT !.pc = "top"]
                 ELSE [runner EXCEPT !.pc = "dispatch", !.turn = 1]
    /\ UNCHANGED <<errs, allocs, cohort, load, futs, sched, events>>
    /\ Frame

NextTurn == runner' = [runner EXCEPT !.turn = @ + 1]

\* One worker's turn: check, claim, extraction, submission.  An exception of
\* the extraction gives the range back first.
Dispatch ==
    /\ runner.pc = "dispatch"
    /\ runner.turn <= Len(Selected)
    /\ LET w == Selected[runner.turn]
       IN  \/ /\ Assigned(futs[w])
              /\ NextTurn
              /\ UNCHANGED <<errs, allocs, cohort, futs, sched, events>>
           \/ /\ ~Assigned(futs[w])
              /\ \E kind \in RuntimeCheck \ {"ok"} :
                    Spends(kind) /\ Throw(sched, futs, kind)
           \/ /\ ~Assigned(futs[w])
              /\ stop = "no"
              /\ NothingToClaim(sched, futs)
              /\ NextTurn
              /\ UNCHANGED <<errs, allocs, cohort, futs, sched, events>>
           \/ /\ ~Assigned(futs[w])
              /\ stop = "no"
              /\ ~NothingToClaim(sched, futs)
              /\ \E size \in Minimum .. budgets[w].current :
                    LET from == NextStart(sched)
                        end == PlanNextWindow(from, size, NextLimit(sched))
                        s == Claimed(sched, end)
                    IN  \/ /\ futs' = [futs EXCEPT ![w] =
                                          [st |-> "queued", from |-> from, to |-> end]]
                           /\ sched' = s
                           /\ NextTurn
                           /\ UNCHANGED <<errs, allocs, cohort, events>>
                        \/ \E kind \in {"pressure", "error", "unconfirmed"} :
                              /\ Spends(kind)
                              /\ LET back == Yielded(s, [from |-> from, to |-> end])
                                 IN  IF kind = "unconfirmed"
                                     THEN Leave(back, futs, "process")
                                     ELSE Throw(back, futs, kind)
    /\ UNCHANGED load
    /\ Frame

\* After the turns: nothing in flight and nothing left to claim is one more
\* check and the RuntimeError "cannot make forward progress".
DispatchDone ==
    /\ runner.pc = "dispatch"
    /\ runner.turn > Len(Selected)
    /\ IF \A w \in Workers : ~Assigned(futs[w])
       THEN \E kind \in RuntimeCheck :
               /\ Spends(kind)
               /\ IF kind = "ok" THEN Leave(sched, futs, "stuck")
                                 ELSE Throw(sched, futs, kind)
       ELSE /\ Go("top")
            /\ UNCHANGED <<errs, allocs, cohort, futs, sched, events>>
    /\ UNCHANGED load
    /\ Frame

-----------------------------------------------------------------------------
(* drain, release, and what follows. *)

Unwound == ~Loading /\ \A w \in Workers : ~Busy(futs[w])

\* drain after its wait.  Past the deadline the reservation is retained, and
\* nobody touches the threads that are still there.
DrainWait ==
    /\ runner.pc = "drain"
    /\ \/ /\ Unwound
          /\ LET ws == {w \in Workers : Assigned(futs[w])}
             IN  \E bad \in SUBSET {w \in ws : futs[w].st = "ok"} :
                   /\ sched' = Harvested(sched, ws, bad)
                   /\ futs' = Cleared(ws)
                   /\ IF runner.then = "account"
                      THEN /\ errs' = errs \cup Terminal(ErrorsOf(ws, bad) \cup {load.st})
                           /\ allocs' = allocs \cup AllocsOf(ws)
                                  \cup (IF load.st = "alloc" THEN {LoadAlloc} ELSE {})
                      ELSE UNCHANGED <<errs, allocs>>
          /\ load' = NoLoad
          /\ runner' = [runner EXCEPT !.pc =
                           IF runner.bound /\ runner.fate # "process" THEN "release"
                           ELSE runner.then,
                        !.unconfirmed = runner.fate = "process"]
       \/ /\ ~Unwound
          /\ runner' = [runner EXCEPT !.pc = "end", !.fate = "release",
                                      !.unconfirmed = TRUE]
          /\ UNCHANGED <<errs, allocs, load, futs, sched>>
    /\ UNCHANGED <<cohort, events>>
    /\ Frame

\* cohort.release(): every inference has unwound, the operation lock is free.
ReleaseCohort ==
    /\ runner.pc \in {"release", "final"}
    /\ IF runner.bound
       THEN \E o \in ReleaseWorkers([CancelCohort(cohort, "stop") EXCEPT !.state = "draining"], procs) :
               /\ Becomes(o)
               /\ runner' =
                    IF ~o.ok /\ runner.then # "end"
                    THEN [runner EXCEPT !.pc = "release", !.then = "end", !.fate = "release"]
                    ELSE IF ~o.ok
                    THEN [runner EXCEPT !.pc = "end", !.fate = "release"]
                    ELSE IF runner.pc = "final"
                    THEN [runner EXCEPT !.pc = "finalize", !.bound = FALSE]
                    ELSE [runner EXCEPT !.pc = runner.then]
       ELSE /\ Go("finalize")
            /\ UNCHANGED <<cohort, lease, procs>>
    /\ UNCHANGED <<coFile, errs, allocs, load, futs, sched, budgets, loadFails, stop,
                   cleanup, events>>

\* The rest of the handler up to wait_for_recovery: terminal errors and a
\* stop leave; allocation failures are charged to their workers, pressure to
\* all of them.
Account ==
    /\ runner.pc = "account"
    /\ LET charged == {a.w : a \in allocs}
           atLoad == {a.w : a \in {b \in allocs : b.load}}
           size(w) == (CHOOSE a \in allocs : a.w = w).size
           lf == [w \in Workers |-> IF w \in atLoad THEN loadFails[w] + 1 ELSE loadFails[w]]
           bs == [w \in Workers |->
                     IF allocs = {} THEN RecordPressureYield(budgets[w])
                     ELSE IF w \in charged \ atLoad
                          THEN RecordAllocationFailure(budgets[w], size(w))
                          ELSE budgets[w]]
       IN  \/ /\ \/ \E e \in Terminal(errs) :
                       runner' = [runner EXCEPT !.pc = "drain", !.then = "end",
                                     !.fate = IF e = "error" THEN "failed" ELSE e]
                 \/ /\ Terminal(errs) = {}
                    /\ stop # "no" \/ (allocs = {} /\ runner.fate # "pressure")
                    /\ runner' = [runner EXCEPT !.pc = "drain", !.then = "end",
                                                !.fate = "stopped"]
              /\ UNCHANGED <<budgets, loadFails>>
           \/ /\ Terminal(errs) = {}
              /\ stop = "no"
              /\ allocs # {} \/ runner.fate = "pressure"
              /\ budgets' = bs
              /\ loadFails' = lf
              /\ runner' = [runner EXCEPT !.pc = "recover", !.bound = FALSE,
                               !.then = "none", !.fate = "none",
                               !.exhausted = \/ \E w \in atLoad : lf[w] >= 2
                                             \/ \E w \in charged \ atLoad : Exhausted(bs[w])]
    /\ UNCHANGED <<coFile, errs, allocs, cohort, lease, procs, load, futs, sched, stop,
                   cleanup, events>>

\* wait_for_recovery: outside means that the controllers counted a recovery
\* from external pressure meanwhile.
CoRecovered ==
    /\ runner.pc = "recover"
    /\ \/ /\ stop # "no"
          /\ runner' = [runner EXCEPT !.pc = "end", !.fate = "stopped"]
          /\ UNCHANGED <<errs, allocs, budgets, loadFails, events>>
       \/ /\ stop = "no"
          /\ \E outside \in BOOLEAN :
                LET charged == {a.w : a \in allocs}
                    forgiven == IF outside THEN charged ELSE {}
                IN  /\ Spends(IF outside THEN "pressure" ELSE "ok")
                    /\ budgets' = [w \in Workers |->
                          IF w \in forgiven THEN RecordExternalRecovery(budgets[w])
                                            ELSE budgets[w]]
                    /\ loadFails' = [w \in Workers |->
                          IF w \in forgiven THEN 0 ELSE loadFails[w]]
                    /\ runner' = IF runner.exhausted /\ forgiven = {}
                                 THEN [runner EXCEPT !.pc = "end", !.fate = "exhausted"]
                                 ELSE At("top")
                    /\ errs' = {} /\ allocs' = {}
    /\ UNCHANGED <<coFile, cohort, lease, procs, load, futs, sched, stop, cleanup>>

\* finalize_assembly and the last check_cancelled.
CoFinalize ==
    /\ runner.pc = "finalize"
    /\ \E fate \in {"failed", IF stop = "no" THEN "done" ELSE "stopped"} :
          runner' = [runner EXCEPT !.pc = "end", !.fate = fate]
    /\ UNCHANGED <<errs, allocs, cohort, load, futs, sched, events>>
    /\ Frame

\* coordinator.close, the handlers of _cohort_segmented_transcription and
\* release_cohort_file.  A cleanup error blocks every later file; a cohort
\* that is not released is retained.
EndFile ==
    /\ runner.pc = "end"
    /\ LET bad == runner.fate \in {"release", "process"}
       IN  /\ cleanup' = (cleanup \/ bad)
           /\ cohort' = IF cohort.state = "released" /\ ~cleanup /\ ~bad
                        THEN NoCohort ELSE cohort
    /\ runner' = At("idle")
    /\ errs' = {} /\ allocs' = {}
    /\ sched' = NewSched
    /\ budgets' = [w \in Workers |-> Freshly(coFile.budget)]
    /\ loadFails' = [w \in Workers |-> 0]
    /\ events' = coFile.pressure
    /\ UNCHANGED <<coFile, lease, procs, load, futs, stop>>

-----------------------------------------------------------------------------
(* shutdown_cohort_runtime. *)

\* The cancel event, then active.cancel.
ShutdownRequested ==
    /\ stop = "no"
    /\ coFile.stops
    /\ stop' = "requested"
    /\ cohort' = CancelCohort(cohort, "stop")
    /\ UNCHANGED <<coFile, runner, errs, allocs, lease, procs, load, futs, sched,
                   budgets, loadFails, cleanup, events>>

\* The file's owner did not give its token back in time.
ShutdownTimesOut ==
    /\ stop = "requested"
    /\ runner.pc # "idle"
    /\ stop' = "over"
    /\ cleanup' = TRUE
    /\ UNCHANGED <<coFile, runner, errs, allocs, cohort, lease, procs, load, futs,
                   sched, budgets, loadFails, events>>

\* Nobody owns a file: release what a file has left.
ShutdownRelease ==
    /\ stop = "requested"
    /\ runner.pc = "idle"
    /\ stop' = "over"
    /\ \/ /\ cohort.state = "none"
          /\ UNCHANGED <<cohort, lease, procs, cleanup>>
       \/ /\ cohort.state # "none"
          /\ Loading \/ cohort.active # {}
          /\ cleanup' = TRUE
          /\ cohort' = IF Loading THEN cohort ELSE [cohort EXCEPT !.state = "blocked"]
          /\ UNCHANGED <<lease, procs>>
       \/ /\ cohort.state # "none"
          /\ ~Loading /\ cohort.active = {}
          /\ \E o \in ReleaseWorkers([cohort EXCEPT !.state = "draining"], procs) :
                /\ lease' = o.lease
                /\ procs' = o.procs
                /\ cohort' = IF o.ok THEN NoCohort ELSE o.cohort
                /\ cleanup' = (cleanup \/ ~o.ok)
    /\ UNCHANGED <<coFile, runner, errs, allocs, load, futs, sched, budgets, loadFails,
                   events>>

RunnerStep ==
    \/ LoopHead \/ WatchLoad \/ LoadTaken \/ Harvest \/ CommitReady
    \/ CommitsDone \/ Dispatch \/ DispatchDone \/ DrainWait \/ ReleaseCohort
    \/ Account \/ CoRecovered \/ CoFinalize \/ EndFile

LoadStep == LoadAdmit \/ LoadWorker \/ LoadReady
InferStep(w) == InferBegin(w) \/ InferEnd(w) \/ InferTransform(w)
ShutdownStep == ShutdownRequested \/ ShutdownTimesOut \/ ShutdownRelease

CoNext ==
    \/ StartCohortFile
    \/ RunnerStep
    \/ LoadStep
    \/ \E w \in Workers : InferStep(w)
    \/ ShutdownStep

\* The runner's thread and the load thread keep running, and a worker honours
\* its deadline: every inference ends.
CoSpec ==
    /\ CoInit /\ [][CoNext]_coVars
    /\ WF_coVars(RunnerStep)
    /\ WF_coVars(LoadStep)
    /\ \A w \in Workers : WF_coVars(InferStep(w))

-----------------------------------------------------------------------------
InFlight == {futs[w] : w \in {x \in Workers : Assigned(futs[x])}}
Parts == {0 .. sched.done - 1, sched.retry, sched.claimed .. coFile.length - 1}
            \cup {UnitsOf(r) : r \in sched.ready \cup InFlight}

\* While a file runs, every unit of its media is in exactly one place: in the
\* journal, staged, in flight, to be retried or not yet claimed.  No yield,
\* split, retry or drain loses a range or gives it to two workers, so the
\* journal is made of each range once.
MediaIsPartitioned ==
    runner.pc \notin {"idle", "end"} =>
        /\ UNION Parts = 0 .. coFile.length - 1
        /\ \A p, q \in Parts : p # q => p \cap q = {}
        /\ \A r \in sched.ready, f \in InFlight : r.from # f.from
        /\ Cardinality({w \in Workers : Assigned(futs[w])}) = Cardinality(InFlight)

\* A model process is alive only under the memory lease and only once: no
\* failed, late or unconfirmed release lets another load spend its memory.
LeaseOwnsMemory ==
    \A w \in Workers : procs[w] > 0 => lease /\ procs[w] = 1

\* Every file comes to its end, whatever fails and however often.
CohortFileEnds == runner.pc = "top" ~> runner.pc = "idle"
=============================================================================

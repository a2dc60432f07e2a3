---------------------------- MODULE ModelRuntime ----------------------------
(***************************************************************************)
(* The model coordinator of subgen_core/model_runtime.py: the threads that *)
(* load the Whisper model, run inference on it, and release it, and the    *)
(* admission barrier, release generations, inference permits and load lock *)
(* that keep them apart.                                                   *)
(*                                                                         *)
(* One step is one critical section of the code (a block under             *)
(* model_runtime_condition, one semaphore operation, one lock acquisition, *)
(* one controller method), so a thread can be overtaken between any two of *)
(* them.  pc[t] names the block thread t executes next.                    *)
(*                                                                         *)
(*   workers   transcription_worker -> start_model, transcribe_with_model, *)
(*             check_segment_commit_allowed and the retry loop around them *)
(*   Observer  run_model_idle_observer / observe_idle_once                 *)
(*   cleaners  the delayed cleanup timer, _perform_model_cleanup           *)
(*                                                                         *)
(* The semaphore is a set of permits with an owner each.  Releasing one is *)
(* a left mover, so _acquire_inference_slot gives an unused permit back in *)
(* the step that finds it unused.                                          *)
(***************************************************************************)
EXTENDS PressureController, Integers, Sequences, FiniteSets

CONSTANTS
    Workers,         \* transcription worker threads
    Cleaners,        \* cleanup-timer threads that may run at once
    Permits,         \* inference permits: model_inference_permit_count of them
    Observer,        \* the idle-observer thread
    Free,            \* nobody: a free permit or a free lock
    Segmented,       \* workers recheck pressure before they commit a chunk
    BackendMayFail,  \* loads may run out of memory, unloads may fail
    MayShutDown      \* the process may be asked to shut down

Threads == Workers \cup Cleaners \cup {Observer}

ASSUME RuntimeAssumption ==
    /\ Workers \cap Cleaners = {}
    /\ Observer \notin Workers \cup Cleaners
    /\ Free \notin Threads
    /\ Permits # {}
    /\ {Segmented, BackendMayFail, MayShutDown} \subseteq BOOLEAN

VARIABLES
    ctl,          \* model_pressure_controller
    closed,       \* model_admission_closed
    relGen,       \* model_release_generation
    transitions,  \* every _ReleaseTransition; the last is the current one
    permit,       \* owner of each permit of model_inference_semaphore
    loadLock,     \* owner of model_load_lock
    active,       \* model_active_inferences
    model,        \* is a model resident
    loadFails,    \* model_load_allocation_failures
    unhealthy,    \* model_profile_unhealthy
    cancelled,    \* model_runtime_cancel_event
    timer,        \* a cleanup timer is armed
    pc,           \* next block of each thread
    local         \* each thread's local variables

shared == <<ctl, closed, relGen, transitions, permit, loadLock, active, model,
            loadFails, unhealthy, cancelled, timer>>
vars == <<shared, pc, local>>

NoSource == [bound |-> FALSE, gen |-> 0]
BoundTo(g) == [bound |-> TRUE, gen |-> g]

\* phase     inside start_model ("start") or transcribe_with_model ("run")
\* gen       the release generation captured by _acquire_inference_slot
\* source    the generation a release ticket is bound to
\* reason    the recovery reason the release will record
\* result    how the block under the inference slot ended
\* tx        index of the transition the thread owns or waits for
\* resident, busy   the observer's snapshot
\* aborted, failed  outcome of the release this thread owns
LocalType ==
    [phase : {"start", "run"}, gen : Nat, source : {NoSource} \cup
        [bound : {TRUE}, gen : Nat \cup {-1}],
     reason : Reasons \cup {"idle_cleanup"},
     result : {"none", "done", "stale", "capacity", "loadfail", "unhealthy",
               "pressure", "alloc", "commit", "error"},
     tx : Nat, resident : BOOLEAN, busy : BOOLEAN,
     aborted : BOOLEAN, failed : BOOLEAN]

NewLocal == [phase |-> "start", gen |-> 0, source |-> NoSource,
             reason |-> "none", result |-> "none", tx |-> 0,
             resident |-> FALSE, busy |-> FALSE,
             aborted |-> FALSE, failed |-> FALSE]

Labels ==
    {"idle", "popped", "admit", "enter", "snap", "permit", "valid", "lock", "fresh",
     "deny", "load", "infer", "gate", "shut", "yield", "unslot", "deact", "commit",
     "rebind", "commitClose", "recover", "enterWait", "ack", "wait", "poll",
     "reopen", "rel", "drain", "relLock", "unload", "latch", "relFree",
     "relDone", "join", "abortReopen", "quarantine",
     "observe", "oPriority", "oGate", "oShut", "oPoll", "oPolled", "oClose", "oRelease",
     "oIdlePoll", "oIdleGate", "oReopen", "oIdleShut", "oFail"}

-----------------------------------------------------------------------------
(***************************************************************************)
(* Helpers.                                                                *)
(***************************************************************************)

\* The current _ReleaseTransition.
HasTransition == transitions # << >>
Current == transitions[Len(transitions)]

TransitionActive == HasTransition /\ ~Current.complete
ReleaseFailed == HasTransition /\ Current.complete /\ Current.failed

\* task_queue.is_idle() and active_direct_tasks = 0, as far as the workers
\* go: a task already taken from the heap but not yet in _processing is
\* invisible (the queue itself may hold more work at any time).
NobodyProcessing == \A w \in Workers : pc[w] \in {"idle", "popped"}

HeldBy(t) == {p \in Permits : permit[p] = t}
HoldsAPermit(t) == HeldBy(t) # {}

Goto(t, label) == pc' = [pc EXCEPT ![t] = label]

\* Locals are dropped where the code drops them: AtRest keeps the phase.
SetLocal(t, l) == local' = [local EXCEPT ![t] = l]
AtRest(w) == [NewLocal EXCEPT !.phase = local[w].phase]

Home(t) == IF t = Observer THEN "observe" ELSE "idle"

\* close_model_admission: the first close of an epoch advances it.
CloseBarrier(c) ==
    /\ ctl' = CloseAdmission(c)
    /\ closed' = TRUE
    /\ relGen' = IF closed THEN relGen ELSE relGen + 1

\* A worker's task ends: transcription_worker's finally block marks it done
\* and delete_model arms the cleanup timer when nothing else is running
\* (unless more work is queued).
EndTask(w) ==
    /\ Goto(w, "idle") /\ SetLocal(w, NewLocal)
    /\ \E queued \in BOOLEAN :
         timer' = (timer \/ (~queued /\ \A v \in Workers \ {w} :
                                          pc[v] \in {"idle", "popped"}))

\* A runtime error leaves the thread: a worker's task ends, the observer
\* goes on to fail closed, the timer thread ends.
Raise(t) ==
    IF t \in Workers THEN EndTask(t)
    ELSE /\ Goto(t, IF t = Observer THEN "oFail" ELSE "idle")
         /\ SetLocal(t, NewLocal)
         /\ UNCHANGED timer

\* The priority observation and sample one poll may read; a throttled poll
\* reads neither.
PolledObservations == Observations \cup {NoObservation}
PolledSamples == Samples \cup {NoSample}
ForcedObservations == IF PriorityConfigured THEN Observations ELSE {NoObservation}

-----------------------------------------------------------------------------
(***************************************************************************)
(* Admission: wait_for_model_admission and _acquire_inference_slot.        *)
(***************************************************************************)

\* queue.get returned: the task left the heap (DeduplicatedQueue.get).
Pop(w) ==
    /\ pc[w] = "idle"
    /\ ~cancelled
    /\ Goto(w, "popped")
    /\ UNCHANGED <<shared, local>>

\* It enters _processing and the worker calls start_model.
Register(w) ==
    /\ pc[w] = "popped"
    /\ Goto(w, "admit")
    /\ local' = [local EXCEPT ![w].phase = "start"]
    /\ UNCHANGED shared

\* _raise_if_profile_unhealthy and _cancelled, before the condition is taken.
MustStop == unhealthy \/ cancelled

AdmitCheck(w) ==
    /\ pc[w] = "admit"
    /\ ~MustStop
    /\ Goto(w, "enter")
    /\ UNCHANGED <<shared, local>>

AdmitRaise(w) ==
    /\ \/ pc[w] = "admit" /\ MustStop
       \/ pc[w] = "enter" /\ ReleaseFailed
    /\ Raise(w)
    /\ UNCHANGED <<ctl, closed, relGen, transitions, permit, loadLock, active,
                   model, loadFails, unhealthy, cancelled>>

\* The barrier is open, or the controller says it may be reopened.
MayEnter == ~closed \/ (ctl.state = "normal" /\ ctl.open)

Admit(w) ==
    /\ pc[w] = "enter"
    /\ ~ReleaseFailed /\ ~TransitionActive
    /\ MayEnter
    /\ closed' = FALSE
    /\ Goto(w, "snap")
    /\ UNCHANGED <<ctl, relGen, transitions, permit, loadLock, active, model,
                   loadFails, unhealthy, cancelled, timer, local>>

AdmitRecover(w) ==
    /\ pc[w] = "enter"
    /\ ~ReleaseFailed /\ ~TransitionActive
    /\ closed /\ ctl.state = "recovering"
    /\ Goto(w, "recover")
    /\ UNCHANGED <<shared, local>>

\* condition.wait, and the checks again.
AdmitWait(w) ==
    /\ pc[w] = "enter"
    /\ \/ TransitionActive
       \/ ~ReleaseFailed /\ ~MayEnter /\ ctl.state # "recovering"
    /\ Goto(w, "admit")
    /\ UNCHANGED <<shared, local>>

Snap(w) ==
    /\ pc[w] = "snap"
    /\ IF closed \/ TransitionActive
       THEN Goto(w, "admit") /\ UNCHANGED local
       ELSE /\ Goto(w, "permit")
            /\ local' = [local EXCEPT ![w].gen = relGen]
    /\ UNCHANGED shared

AcquirePermit(w) ==
    /\ pc[w] = "permit"
    /\ \E p \in HeldBy(Free) : permit' = [permit EXCEPT ![p] = w]
    /\ Goto(w, "valid")
    /\ UNCHANGED <<ctl, closed, relGen, transitions, loadLock, active, model,
                   loadFails, unhealthy, cancelled, timer, local>>

\* semaphore.acquire(timeout=model_permit_wait_seconds) returned False.
PermitTimeout(w) ==
    /\ pc[w] = "permit"
    /\ HeldBy(Free) = {}
    /\ Goto(w, "admit") /\ SetLocal(w, AtRest(w))
    /\ UNCHANGED shared

SlotValid(w) ==
    /\ ~cancelled /\ ~closed /\ ~TransitionActive
    /\ relGen = local[w].gen

FreeOf(t) == [p \in Permits |-> IF permit[p] = t THEN Free ELSE permit[p]]

\* The second check, under the condition, after the permit was taken.
Validate(w) ==
    /\ pc[w] = "valid"
    /\ \/ /\ SlotValid(w)
          /\ active' = active + 1
          /\ Goto(w, "lock")
          /\ UNCHANGED <<permit, local>>
       \/ /\ ~SlotValid(w)
          /\ permit' = FreeOf(w)
          /\ Goto(w, "admit") /\ SetLocal(w, AtRest(w))
          /\ UNCHANGED active
    /\ UNCHANGED <<ctl, closed, relGen, transitions, loadLock, model, loadFails,
                   unhealthy, cancelled, timer>>

-----------------------------------------------------------------------------
(***************************************************************************)
(* Loading: _load_model_once, under model_load_lock.                       *)
(***************************************************************************)

EndSlot(w, result) ==
    /\ Goto(w, "unslot")
    /\ local' = [local EXCEPT ![w].result = result]

\* Lock, recheck the generation, and use a resident model or go on to load.
LoadLock(w) ==
    /\ pc[w] = "lock"
    /\ loadLock = Free
    /\ \/ /\ closed \/ relGen # local[w].gen
          /\ EndSlot(w, "stale")
          /\ UNCHANGED loadLock
       \/ /\ ~closed /\ relGen = local[w].gen /\ model
          /\ IF local[w].phase = "start"
             THEN EndSlot(w, "done")
             ELSE Goto(w, "infer") /\ UNCHANGED local
          /\ UNCHANGED loadLock
       \/ /\ ~closed /\ relGen = local[w].gen /\ ~model
          /\ loadLock' = w
          /\ Goto(w, "fresh") /\ UNCHANGED local
    /\ UNCHANGED <<ctl, closed, relGen, transitions, permit, active, model,
                   loadFails, unhealthy, cancelled, timer>>

\* _fresh_model_admission
FreshAdmission(w) ==
    /\ pc[w] = "fresh"
    /\ \E o \in ForcedObservations, s \in Samples :
         LET d == ImmediateAdmission(ctl, o, s)
         IN  /\ ctl' = d.ctl
             /\ Goto(w, IF d.admitted THEN "load" ELSE "deny")
    /\ UNCHANGED <<closed, relGen, transitions, permit, loadLock, active, model,
                   loadFails, unhealthy, cancelled, timer, local>>

\* The refused load closes the barrier and returns _LOAD_DEFERRED_CAPACITY.
DenyLoad(w) ==
    /\ pc[w] = "deny"
    /\ CloseBarrier(ctl)
    /\ loadLock' = Free
    /\ EndSlot(w, "capacity")
    /\ UNCHANGED <<transitions, permit, active, model, loadFails, unhealthy,
                   cancelled, timer>>

LoadOk(w) ==
    /\ pc[w] = "load"
    /\ model' = TRUE
    /\ loadFails' = 0
    /\ loadLock' = Free
    /\ IF local[w].phase = "start"
       THEN EndSlot(w, "done")
       ELSE Goto(w, "infer") /\ UNCHANGED local
    /\ UNCHANGED <<ctl, closed, relGen, transitions, permit, active, unhealthy,
                   cancelled, timer>>

\* The backend could not allocate the model.
LoadOutOfMemory(w) ==
    /\ pc[w] = "load" /\ BackendMayFail
    /\ loadFails' = IF loadFails < 2 THEN loadFails + 1 ELSE 2
    /\ CloseBarrier(ctl)
    /\ loadLock' = Free
    /\ EndSlot(w, IF loadFails >= 1 THEN "unhealthy" ELSE "loadfail")
    /\ UNCHANGED <<transitions, permit, active, model, unhealthy, cancelled,
                   timer>>

\* Any other load error ends the task.
LoadError(w) ==
    /\ pc[w] = "load" /\ BackendMayFail
    /\ loadLock' = Free
    /\ EndSlot(w, "error")
    /\ UNCHANGED <<ctl, closed, relGen, transitions, permit, active, model,
                   loadFails, unhealthy, cancelled, timer>>

-----------------------------------------------------------------------------
(***************************************************************************)
(* Inference: runtime.model.transcribe with the composed pressure callback *)
(***************************************************************************)

\* The progress callback polls the controller (check_or_raise).
Callback(w) ==
    /\ pc[w] = "infer"
    /\ \E o \in PolledObservations, s \in PolledSamples :
         LET c == Poll(ctl, o, s, TRUE, TRUE)
         IN  /\ ctl' = c
             /\ Goto(w, IF c.state = "yielding" THEN "yield" ELSE "gate")
    /\ UNCHANGED <<closed, relGen, transitions, permit, loadLock, active, model,
                   loadFails, unhealthy, cancelled, timer, local>>

\* ... and closes the barrier when the controller no longer admits; the
\* flag is read before the close takes its locks.
CallbackGate(w) ==
    /\ pc[w] = "gate"
    /\ Goto(w, IF ctl.open THEN "infer" ELSE "shut")
    /\ UNCHANGED <<shared, local>>

CallbackClose(w) ==
    /\ pc[w] = "shut"
    /\ CloseBarrier(ctl)
    /\ Goto(w, "infer")
    /\ UNCHANGED <<transitions, permit, loadLock, active, model, loadFails,
                   unhealthy, cancelled, timer, local>>

\* MemoryPressureYield: close, and record the reason in the release ticket.
Yield(w) ==
    /\ pc[w] = "yield"
    /\ CloseBarrier(ctl)
    /\ Goto(w, "unslot")
    /\ local' = [local EXCEPT ![w].result = "pressure",
                              ![w].reason = IF ctl.reason = "none"
                                            THEN "other" ELSE ctl.reason]
    /\ UNCHANGED <<transitions, permit, loadLock, active, model, loadFails,
                   unhealthy, cancelled, timer>>

InferOutOfMemory(w) ==
    /\ pc[w] = "infer" /\ BackendMayFail
    /\ CloseBarrier(ctl)
    /\ EndSlot(w, "alloc")
    /\ UNCHANGED <<transitions, permit, loadLock, active, model, loadFails,
                   unhealthy, cancelled, timer>>

InferReturn(w) ==
    /\ pc[w] = "infer"
    /\ \E r \in {"done", "error"} : EndSlot(w, r)
    /\ UNCHANGED shared

\* Mutant: the slot is given up without returning its permit.
ReleasePermitLost(w) ==
    /\ pc[w] = "unslot"
    /\ Goto(w, "deact")
    /\ UNCHANGED <<shared, local>>

\* _release_inference_slot: the permit first, the counter in a later step.
ReleasePermit(w) ==
    /\ pc[w] = "unslot"
    /\ permit' = FreeOf(w)
    /\ Goto(w, "deact")
    /\ UNCHANGED <<ctl, closed, relGen, transitions, loadLock, active, model,
                   loadFails, unhealthy, cancelled, timer, local>>

\* Where the caller goes once the slot is returned.
AfterSlot(w) ==
    CASE local[w].result = "done" /\ local[w].phase = "start" -> "admit"
      [] local[w].result = "done" /\ local[w].phase = "run" ->
             IF Segmented THEN "commit" ELSE "idle"
      [] local[w].result = "stale" -> "admit"
      [] local[w].result = "capacity" -> "recover"
      [] local[w].result \in {"loadfail", "unhealthy", "pressure", "alloc"} -> "rel"
      [] OTHER -> "idle"

\* A failed load is released on behalf of the slot's generation, like a
\* yield or a failed inference.
TicketOf(w) ==
    [AtRest(w) EXCEPT
        !.result = local[w].result,
        !.source = BoundTo(local[w].gen),
        !.reason = IF local[w].result = "pressure" THEN local[w].reason
                   ELSE "other"]

Deactivate(w) ==
    /\ pc[w] = "deact"
    /\ active' = IF active = 0 THEN 0 ELSE active - 1
    /\ IF AfterSlot(w) = "idle" THEN EndTask(w)
       ELSE /\ Goto(w, AfterSlot(w))
            /\ SetLocal(w, CASE AfterSlot(w) = "rel" -> TicketOf(w)
                            [] local[w].result = "done" ->
                                  [AtRest(w) EXCEPT !.phase = "run"]
                            [] OTHER -> AtRest(w))
            /\ UNCHANGED timer
    /\ UNCHANGED <<ctl, closed, relGen, transitions, permit, loadLock, model,
                   loadFails, unhealthy, cancelled>>

-----------------------------------------------------------------------------
(***************************************************************************)
(* The segmented caller: check_segment_commit_allowed, after the slot was  *)
(* returned and before the chunk is committed.                             *)
(***************************************************************************)

\* Bind to the current barrier: an epoch that is already closed has not
\* been released yet, as far as this caller knows.
CommitSource(w) ==
    /\ pc[w] = "commit"
    /\ local' = [local EXCEPT ![w].source =
                    BoundTo(IF closed THEN relGen - 1 ELSE relGen)]
    /\ Goto(w, "rebind")
    /\ UNCHANGED shared

\* check_or_raise(force_priority=True), then the admission flags.  An
\* admitted chunk is committed: the task goes on to the next one or ends.
CommitCheck(w) ==
    /\ pc[w] = "rebind"
    /\ \E o \in ForcedObservations, s \in PolledSamples :
         LET c == Poll(ctl, o, s, TRUE, TRUE)
         IN  /\ ctl' = c
             /\ \/ /\ c.state = "normal" /\ c.open /\ ~closed
                   /\ \/ /\ Goto(w, "admit") /\ SetLocal(w, AtRest(w))
                         /\ UNCHANGED timer
                      \/ EndTask(w)
                \/ /\ ~(c.state = "normal" /\ c.open /\ ~closed)
                   /\ Goto(w, "commitClose") /\ UNCHANGED <<timer, local>>
    /\ UNCHANGED <<closed, relGen, transitions, permit, loadLock, active, model,
                   loadFails, unhealthy, cancelled>>

CommitReject(w) ==
    /\ pc[w] = "commitClose"
    /\ CloseBarrier(ctl)
    /\ Goto(w, "rel")
    /\ local' = [local EXCEPT ![w].result = "commit",
                              ![w].reason = IF ctl.reason = "none"
                                            THEN "other" ELSE ctl.reason]
    /\ UNCHANGED <<transitions, permit, loadLock, active, model, loadFails,
                   unhealthy, cancelled, timer>>

-----------------------------------------------------------------------------
(***************************************************************************)
(* Releasing: _release_model_once, by any thread.                          *)
(***************************************************************************)

\* Mutant: the ticket's generation is not compared.
JoinsReleaseIgnoresTicket(t) ==
    \/ TransitionActive
    \/ /\ HasTransition /\ ~local[t].source.bound
       /\ ~Current.failed /\ Current.gen = relGen /\ closed

\* A release of this generation is running, or has been done already.
JoinsRelease(t) ==
    \/ TransitionActive
    \/ /\ HasTransition
       /\ LET source == local[t].source
          IN  IF source.bound THEN Current.gen > source.gen
              ELSE ~Current.failed /\ Current.gen = relGen /\ closed

\* The generation a new release takes: closing an open barrier, or releasing
\* a closed epoch a second time, advances it.
NextGeneration ==
    IF ~closed \/ (HasTransition /\ relGen <= Current.gen)
    THEN relGen + 1 ELSE relGen

JoinRelease(t) ==
    /\ pc[t] = "rel"
    /\ JoinsRelease(t)
    /\ Goto(t, "join")
    /\ local' = [local EXCEPT ![t].tx = Len(transitions)]
    /\ UNCHANGED shared

\* Mutant: the owner goes for the load lock without draining the permits.
OwnReleaseUndrained(t) ==
    /\ pc[t] = "rel"
    /\ ~JoinsRelease(t)
    /\ closed' = TRUE
    /\ relGen' = NextGeneration
    /\ transitions' = Append(transitions, [gen |-> NextGeneration,
                                          complete |-> FALSE, failed |-> FALSE])
    /\ Goto(t, "relLock")
    /\ local' = [local EXCEPT ![t].tx = Len(transitions) + 1]
    /\ UNCHANGED <<ctl, permit, loadLock, active, model, loadFails, unhealthy,
                   cancelled, timer>>

OwnRelease(t) ==
    /\ pc[t] = "rel"
    /\ ~JoinsRelease(t)
    /\ closed' = TRUE
    /\ relGen' = NextGeneration
    /\ transitions' = Append(transitions, [gen |-> NextGeneration,
                                          complete |-> FALSE, failed |-> FALSE])
    /\ Goto(t, "drain")
    /\ local' = [local EXCEPT ![t].tx = Len(transitions) + 1]
    /\ UNCHANGED <<ctl, permit, loadLock, active, model, loadFails, unhealthy,
                   cancelled, timer>>

\* Drain: take every permit, one at a time.
DrainPermit(t) ==
    /\ pc[t] = "drain"
    /\ \E p \in HeldBy(Free) :
         /\ permit' = [permit EXCEPT ![p] = t]
         /\ Goto(t, IF HeldBy(t) \cup {p} = Permits THEN "relLock" ELSE "drain")
    /\ UNCHANGED <<ctl, closed, relGen, transitions, loadLock, active, model,
                   loadFails, unhealthy, cancelled, timer, local>>

\* model_load_lock; an idle cleanup that finds work aborts and drops it.
ReleaseLock(t) ==
    /\ pc[t] = "relLock"
    /\ loadLock = Free
    /\ \/ /\ loadLock' = t
          /\ local[t].reason = "idle_cleanup" => NobodyProcessing
          /\ Goto(t, "unload")
          /\ UNCHANGED local
       \/ /\ local[t].reason = "idle_cleanup"
          /\ Goto(t, "relFree")
          /\ local' = [local EXCEPT ![t].aborted = TRUE]
          /\ UNCHANGED loadLock
    /\ UNCHANGED <<ctl, closed, relGen, transitions, permit, active, model,
                   loadFails, unhealthy, cancelled, timer>>

ReleaseReason(t) ==
    IF local[t].reason = "idle_cleanup" THEN "other" ELSE local[t].reason

Unload(t) ==
    /\ pc[t] = "unload"
    /\ model' = FALSE
    /\ ctl' = MarkReleased(ctl, ReleaseReason(t))
    /\ loadLock' = Free
    /\ Goto(t, "relFree")
    /\ UNCHANGED <<closed, relGen, transitions, permit, active, loadFails,
                   unhealthy, cancelled, timer, local>>

\* The backend refused to unload, or the cache release after it failed.
UnloadFails(t) ==
    /\ pc[t] = "unload" /\ BackendMayFail
    /\ \/ model /\ UNCHANGED <<model, ctl>>
       \/ model' = FALSE /\ ctl' = MarkReleased(ctl, ReleaseReason(t))
    /\ loadLock' = Free
    /\ Goto(t, "latch")
    /\ UNCHANGED <<closed, relGen, transitions, permit, active, loadFails,
                   unhealthy, cancelled, timer, local>>

LatchFailure(t) ==
    /\ pc[t] = "latch"
    /\ closed' = TRUE
    /\ ctl' = LatchReleaseFailure(ctl, model)
    /\ local' = [local EXCEPT ![t].failed = TRUE]
    /\ Goto(t, "relFree")
    /\ UNCHANGED <<relGen, transitions, permit, loadLock, active, model,
                   loadFails, unhealthy, cancelled, timer>>

ReturnPermits(t) ==
    /\ pc[t] = "relFree"
    /\ permit' = FreeOf(t)
    /\ Goto(t, "relDone")
    /\ UNCHANGED <<ctl, closed, relGen, transitions, loadLock, active, model,
                   loadFails, unhealthy, cancelled, timer, local>>

\* Where a thread goes once the release it asked for is complete.
AfterRelease(t) ==
    IF t \notin Workers THEN Home(t)
    ELSE IF local[t].result = "unhealthy" THEN "quarantine"
    ELSE "recover"

\* The release as a thread leaves it: its failure is raised to everyone.
LeaveRelease(t, failed, next) ==
    IF failed THEN Raise(t)
    ELSE /\ Goto(t, next)
         /\ SetLocal(t, [AtRest(t) EXCEPT !.result = local[t].result])
         /\ UNCHANGED timer

\* Mutant: a failed release is never marked complete.
FinishReleaseOnSuccess(t) ==
    /\ pc[t] = "relDone"
    /\ transitions' = [transitions EXCEPT
                          ![local[t].tx].complete = ~local[t].failed,
                          ![local[t].tx].failed = local[t].failed]
    /\ LeaveRelease(t, local[t].failed,
                    IF local[t].aborted THEN "abortReopen" ELSE AfterRelease(t))
    /\ UNCHANGED <<ctl, closed, relGen, permit, loadLock, active, model,
                   loadFails, unhealthy, cancelled>>

FinishRelease(t) ==
    /\ pc[t] = "relDone"
    /\ transitions' = [transitions EXCEPT
                          ![local[t].tx].complete = TRUE,
                          ![local[t].tx].failed = local[t].failed]
    /\ LeaveRelease(t, local[t].failed,
                    IF local[t].aborted THEN "abortReopen" ELSE AfterRelease(t))
    /\ UNCHANGED <<ctl, closed, relGen, permit, loadLock, active, model,
                   loadFails, unhealthy, cancelled>>

Joined(t) ==
    /\ pc[t] = "join"
    /\ transitions[local[t].tx].complete
    /\ LeaveRelease(t, transitions[local[t].tx].failed, AfterRelease(t))
    /\ UNCHANGED <<ctl, closed, relGen, transitions, permit, loadLock, active,
                   model, loadFails, unhealthy, cancelled>>

\* Mutant: the waiters are not cancelled.
QuarantineLeavesWaiters(w) ==
    /\ pc[w] = "quarantine"
    /\ unhealthy' = TRUE /\ closed' = TRUE
    /\ Raise(w)
    /\ UNCHANGED <<ctl, relGen, transitions, permit, loadLock, active, model,
                   loadFails, cancelled>>

\* _mark_model_profile_unhealthy, after a second failed load: nothing will
\* be admitted again, and every waiter is cancelled.
Quarantine(w) ==
    /\ pc[w] = "quarantine"
    /\ unhealthy' = TRUE /\ closed' = TRUE /\ cancelled' = TRUE
    /\ Raise(w)
    /\ UNCHANGED <<ctl, relGen, transitions, permit, loadLock, active, model,
                   loadFails>>

-----------------------------------------------------------------------------
(***************************************************************************)
(* Recovery: wait_for_model_recovery, reopen_model_admission and the       *)
(* controller's wait_for_recovery.                                         *)
(***************************************************************************)

\* reopen_model_admission; Reopens(c) says whether it reports success.
Reopens(c) ==
    /\ ~unhealthy /\ ~TransitionActive
    /\ c.state = "normal" /\ c.open

Reopen(c) ==
    /\ ctl' = IF unhealthy THEN ctl ELSE c
    /\ closed' = (closed /\ ~Reopens(c))

AbortReopen(t) ==
    /\ pc[t] = "abortReopen"
    /\ \E stillFresh \in BOOLEAN : Reopen(OpenIfNormal(ctl, stillFresh))
    /\ Goto(t, Home(t))
    /\ UNCHANGED <<relGen, transitions, permit, loadLock, active, model,
                   loadFails, unhealthy, cancelled, timer, local>>

RecoverRaise(w) ==
    /\ pc[w] \in {"recover", "wait", "poll"}
    /\ IF pc[w] = "recover" THEN MustStop \/ ReleaseFailed ELSE cancelled
    /\ Raise(w)
    /\ UNCHANGED <<ctl, closed, relGen, transitions, permit, loadLock, active,
                   model, loadFails, unhealthy, cancelled>>

\* The loop waits out a running release, a yield nobody acknowledged yet,
\* and a normal controller that does not admit.
Recover(w) ==
    /\ pc[w] = "recover"
    /\ ~MustStop /\ ~ReleaseFailed /\ ~TransitionActive
    /\ \/ ctl.state = "recovering"
       \/ ctl.state = "normal" /\ ctl.open
    /\ Goto(w, "enterWait")
    /\ UNCHANGED <<shared, local>>

EnterWait(w) ==
    /\ pc[w] = "enterWait"
    /\ Goto(w, CASE ctl.state = "normal" -> "reopen"
                 [] ctl.state = "yielding" -> "ack"
                 [] ctl.state = "recovering" -> "wait")
    /\ UNCHANGED <<shared, local>>

\* wait_for_recovery entered while yielding acknowledges the release itself.
AcknowledgeYield(w) ==
    /\ pc[w] = "ack"
    /\ ctl' = MarkReleased(ctl, "none")
    /\ Goto(w, "wait")
    /\ UNCHANGED <<closed, relGen, transitions, permit, loadLock, active, model,
                   loadFails, unhealthy, cancelled, timer, local>>

\* The state is read before the delay, and the poll made after it.
WaitCheck(w) ==
    /\ pc[w] = "wait"
    /\ ctl.state = "normal" \/ ~cancelled
    /\ Goto(w, IF ctl.state = "normal" THEN "reopen" ELSE "poll")
    /\ UNCHANGED <<shared, local>>

PollRecovery(w) ==
    /\ pc[w] = "poll"
    /\ ~cancelled
    /\ \E o \in PolledObservations, s \in PolledSamples :
         ctl' = Poll(ctl, o, s, FALSE, FALSE)
    /\ Goto(w, "wait")
    /\ UNCHANGED <<closed, relGen, transitions, permit, loadLock, active, model,
                   loadFails, unhealthy, cancelled, timer, local>>

\* After recovery the caller retries, except that an unsegmented inference
\* (and a segmented one at its smallest chunk) gives up after running out of
\* memory.
ReopenAdmission(w) ==
    /\ pc[w] = "reopen"
    /\ \E stillFresh \in BOOLEAN :
         LET c == OpenIfNormal(ctl, stillFresh)
         IN  /\ Reopen(c)
             /\ \/ ~Reopens(c) /\ Goto(w, "recover") /\ UNCHANGED <<timer, local>>
                \/ /\ Reopens(c)
                   /\ local[w].result = "alloc" => Segmented
                   /\ Goto(w, "admit") /\ SetLocal(w, AtRest(w))
                   /\ UNCHANGED timer
                \/ /\ Reopens(c) /\ local[w].result = "alloc"
                   /\ EndTask(w)
    /\ UNCHANGED <<relGen, transitions, permit, loadLock, active, model,
                   loadFails, unhealthy, cancelled>>

-----------------------------------------------------------------------------
(***************************************************************************)
(* The idle observer: observe_idle_once and run_model_idle_observer.       *)
(***************************************************************************)

\* What each of the observer's blocks leaves alone.
ObserverKeeps == <<transitions, permit, loadLock, active, model, loadFails,
                   unhealthy, cancelled, timer>>

\* The snapshot under the condition; everything below uses it unlocked.
ObserveSnapshot ==
    /\ pc[Observer] = "observe"
    /\ SetLocal(Observer, [NewLocal EXCEPT !.resident = model,
                              !.busy = active > 0 \/ TransitionActive])
    /\ Goto(Observer, "oPriority")
    /\ UNCHANGED shared

AfterPriority ==
    IF local[Observer].busy THEN "observe"
    ELSE IF local[Observer].resident THEN "oPoll"
    ELSE "oIdlePoll"

ObservePrioritySignal ==
    /\ pc[Observer] = "oPriority"
    /\ \E o \in PolledObservations :
         ctl' = PollPriority(ctl, o, local[Observer].resident)
    /\ Goto(Observer, IF PriorityConfigured THEN "oGate" ELSE AfterPriority)
    /\ UNCHANGED <<closed, relGen, ObserverKeeps, local>>

\* "if not controller.admission_open": the flag is read without a lock, and
\* the close that follows takes the locks again.
ObserverGate ==
    /\ pc[Observer] = "oGate"
    /\ Goto(Observer, IF ctl.open THEN AfterPriority ELSE "oShut")
    /\ UNCHANGED <<shared, local>>

ObserverClose ==
    /\ pc[Observer] = "oShut"
    /\ CloseBarrier(ctl)
    /\ Goto(Observer, AfterPriority)
    /\ UNCHANGED <<ObserverKeeps, local>>

\* poll_idle_resident: should the loaded idle model be unloaded?
PollIdleResident ==
    /\ pc[Observer] = "oPoll"
    /\ \E o \in PolledObservations, s \in PolledSamples :
         LET c == Poll(ctl, o, s, TRUE, FALSE)
         IN  /\ ctl' = c
             /\ SetLocal(Observer, [NewLocal EXCEPT !.result =
                            IF c.state = "yielding" THEN "pressure" ELSE "none"])
    /\ Goto(Observer, "oPolled")
    /\ UNCHANGED <<closed, relGen, ObserverKeeps>>

AfterPoll ==
    IF local[Observer].result = "pressure" THEN "oRelease" ELSE "observe"

ResidentGate ==
    /\ pc[Observer] = "oPolled"
    /\ Goto(Observer, IF ctl.open THEN AfterPoll ELSE "oClose")
    /\ UNCHANGED <<shared, local>>

ResidentClose ==
    /\ pc[Observer] = "oClose"
    /\ CloseBarrier(ctl)
    /\ Goto(Observer, AfterPoll)
    /\ UNCHANGED <<ObserverKeeps, local>>

ObserverRelease ==
    /\ pc[Observer] = "oRelease"
    /\ local' = [local EXCEPT ![Observer].reason =
                    IF ctl.reason = "none" THEN "other" ELSE ctl.reason]
    /\ Goto(Observer, "rel")
    /\ UNCHANGED shared

\* No model: poll only what may still have to recover.
PollUnloaded ==
    /\ pc[Observer] = "oIdlePoll"
    /\ IF PriorityConfigured \/ ctl.state # "normal"
       THEN \E o \in PolledObservations, s \in PolledSamples :
              ctl' = Poll(ctl, o, s, FALSE, FALSE)
       ELSE UNCHANGED ctl
    /\ Goto(Observer, "oIdleGate")
    /\ UNCHANGED <<closed, relGen, ObserverKeeps, local>>

UnloadedGate ==
    /\ pc[Observer] = "oIdleGate"
    /\ Goto(Observer, IF ~ctl.open THEN "oIdleShut"
                      ELSE IF ctl.state = "normal" THEN "oReopen"
                      ELSE "observe")
    /\ UNCHANGED <<shared, local>>

UnloadedClose ==
    /\ pc[Observer] = "oIdleShut"
    /\ CloseBarrier(ctl)
    /\ Goto(Observer, "observe")
    /\ UNCHANGED <<ObserverKeeps, local>>

ObserverReopen ==
    /\ pc[Observer] = "oReopen"
    /\ \E stillFresh \in BOOLEAN : Reopen(OpenIfNormal(ctl, stillFresh))
    /\ Goto(Observer, "observe")
    /\ UNCHANGED <<relGen, ObserverKeeps, local>>

\* run_model_idle_observer fails closed on any exception and goes on.
ObserverFailsClosed ==
    /\ pc[Observer] = "oFail"
    /\ CloseBarrier(ctl)
    /\ Goto(Observer, "observe")
    /\ UNCHANGED <<ObserverKeeps, local>>

-----------------------------------------------------------------------------
(***************************************************************************)
(* The cleanup timer (_perform_model_cleanup) and process shutdown.        *)
(***************************************************************************)

\* The armed timer fires, and finds the system idle or not.
CleanupTimer(c) ==
    /\ pc[c] = "idle"
    /\ timer /\ timer' = FALSE
    /\ \/ UNCHANGED <<pc, local>>
       \/ /\ NobodyProcessing
          /\ Goto(c, "rel")
          /\ SetLocal(c, [NewLocal EXCEPT !.reason = "idle_cleanup"])
    /\ UNCHANGED <<ctl, closed, relGen, transitions, permit, loadLock, active,
                   model, loadFails, unhealthy, cancelled>>

\* The process is asked to stop: model_runtime_cancel_event is set.
Shutdown ==
    /\ MayShutDown /\ ~cancelled
    /\ cancelled' = TRUE
    /\ UNCHANGED <<ctl, closed, relGen, transitions, permit, loadLock, active,
                   model, loadFails, unhealthy, timer, pc, local>>

-----------------------------------------------------------------------------
(***************************************************************************)
(* The specification.                                                      *)
(***************************************************************************)

\* initialize_model_runtime selected an admitted model and let the new
\* controller observe the bootstrap sample.
Init ==
    /\ \E o \in ForcedObservations, s \in {x \in Samples : x.fits},
          stillFresh \in BOOLEAN :
         LET seen == PollPriority(
                        ObserveSample(NewController, s, FALSE, FALSE), o, FALSE)
         IN  ctl = OpenIfNormal(seen, stillFresh)
    /\ closed = ~ctl.open
    /\ relGen = 0
    /\ transitions = << >>
    /\ permit = [p \in Permits |-> Free]
    /\ loadLock = Free
    /\ active = 0
    /\ model = FALSE
    /\ loadFails = 0
    /\ unhealthy = FALSE
    /\ cancelled = FALSE
    /\ timer = FALSE
    /\ pc = [t \in Threads |-> Home(t)]
    /\ local = [t \in Threads |-> NewLocal]

TakeSlot(w) ==
    \/ Pop(w) \/ Register(w) \/ AdmitCheck(w) \/ AdmitRaise(w) \/ Admit(w)
    \/ AdmitRecover(w) \/ AdmitWait(w) \/ Snap(w) \/ AcquirePermit(w) \/ PermitTimeout(w) \/ Validate(w)

UseSlot(w) ==
    \/ LoadLock(w) \/ FreshAdmission(w) \/ DenyLoad(w) \/ LoadOk(w)
    \/ LoadOutOfMemory(w) \/ LoadError(w)
    \/ Callback(w) \/ CallbackGate(w) \/ CallbackClose(w) \/ Yield(w)
    \/ InferOutOfMemory(w) \/ InferReturn(w) \/ ReleasePermit(w) \/ Deactivate(w)

Commit(w) == CommitSource(w) \/ CommitCheck(w) \/ CommitReject(w)

Release(t) ==
    \/ JoinRelease(t) \/ OwnRelease(t) \/ DrainPermit(t) \/ ReleaseLock(t)
    \/ Unload(t) \/ UnloadFails(t) \/ LatchFailure(t) \/ ReturnPermits(t)
    \/ FinishRelease(t) \/ Joined(t) \/ AbortReopen(t)

WaitRecovery(w) ==
    \/ Quarantine(w) \/ RecoverRaise(w) \/ Recover(w) \/ EnterWait(w)
    \/ AcknowledgeYield(w) \/ WaitCheck(w) \/ PollRecovery(w)
    \/ ReopenAdmission(w)

Observe ==
    \/ ObserveSnapshot \/ ObservePrioritySignal \/ ObserverGate
    \/ ObserverClose \/ PollIdleResident \/ ResidentGate \/ ResidentClose
    \/ ObserverRelease \/ PollUnloaded \/ UnloadedGate \/ UnloadedClose
    \/ ObserverReopen \/ ObserverFailsClosed

Worker(w) == TakeSlot(w) \/ UseSlot(w) \/ Commit(w) \/ WaitRecovery(w)

Next ==
    \/ \E w \in Workers : Worker(w)
    \/ \E c \in Cleaners : CleanupTimer(c)
    \/ \E t \in Threads : Release(t)
    \/ Observe
    \/ Shutdown

Spec == Init /\ [][Next]_vars

\* A thread inside a call keeps running (a worker without a task may wait for
\* one forever), the observer thread never stops, and an inference, which may
\* call back any number of times, ends at last.
Busy(t) == pc[t] # "idle" /\ (Release(t) \/ (t \in Workers /\ Worker(t)))

Fairness ==
    /\ \A t \in Workers \cup Cleaners : WF_vars(Busy(t))
    /\ WF_vars(Observe \/ Release(Observer))
    /\ \A w \in Workers : SF_vars(InferReturn(w))

FairSpec == Spec /\ Fairness

-----------------------------------------------------------------------------
(***************************************************************************)
(* Properties.                                                             *)
(***************************************************************************)

Transition == [gen : Nat, complete : BOOLEAN, failed : BOOLEAN]

\* Every variable has its type.
TypeOK ==
    /\ ctl \in CtlType
    /\ closed \in BOOLEAN
    /\ relGen \in Nat
    /\ transitions \in Seq(Transition)
    /\ permit \in [Permits -> Threads \cup {Free}]
    /\ loadLock \in Threads \cup {Free}
    /\ active \in Nat
    /\ model \in BOOLEAN
    /\ loadFails \in 0 .. 2
    /\ unhealthy \in BOOLEAN
    /\ cancelled \in BOOLEAN
    /\ timer \in BOOLEAN
    /\ pc \in [Threads -> Labels]
    /\ local \in [Threads -> LocalType]

\* The code between _load_model_once's True and the slot's return.
Inferring == {"infer", "gate", "shut", "yield"}

\* Labels at which a worker holds its permit, and at which it is counted in
\* model_active_inferences (which is decremented after the permit is given
\* back).
InSlot == {"valid", "lock", "fresh", "deny", "load", "unslot"} \cup Inferring
Counted == (InSlot \ {"valid"}) \cup {"deact"}

\* Labels of the owner of a release, and those at which it holds every permit.
Owning == {"drain", "relLock", "unload", "latch", "relFree", "relDone"}
Drained == {"relLock", "unload", "latch", "relFree"}

\* The model is never unloaded under an inference: while a worker is inside
\* runtime.model.transcribe (transcribe_with_model), whatever yields, idle
\* cleanups, observer releases and reloads the other threads run, the model
\* it uses stays resident.
NoUnloadDuringInference ==
    \A w \in Workers : pc[w] \in Inferring => model

\* The controller admits work only when it is normal and the priority signal
\* has recovered, whoever touched it last.
OpenMeansRecovered == ctl.open => ctl.state = "normal" /\ PriorityReady(ctl)

\* A quarantined profile gets no more slots (_mark_model_profile_unhealthy):
\* not even a worker that had passed every check before the quarantine, with
\* the barrier reopened by somebody else in between.
QuarantineIsFinal ==
    [][unhealthy => \A w \in Workers : pc[w] = "valid" => pc'[w] # "lock"]_vars

\* A release that started is completed: its owner gets every permit and the
\* load lock, whatever the workers it has to wait for are doing.
ReleaseCompletes == TransitionActive ~> ~TransitionActive

\* ... and a thread that joined a release gets its result.
JoinersReturn == \A t \in Threads : pc[t] = "join" ~> pc[t] # "join"
=============================================================================

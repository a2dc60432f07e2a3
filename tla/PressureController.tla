------------------------- MODULE PressureController -------------------------
(***************************************************************************)
(* The three-state memory/priority pressure controller of                  *)
(* subgen_core/resource_management.py (class PressureController).          *)
(*                                                                         *)
(* The controller is one object guarded by its own lock, so each of its    *)
(* methods is one atomic function of the controller record.  The module    *)
(* gives those functions; ModelRuntime applies them to its own variable.   *)
(*                                                                         *)
(* Byte counts, percentages and clocks are abstracted to what the control  *)
(* flow distinguishes in one sample: did _classify return a pressure       *)
(* reason, a critical reason, is the GPU telemetry fresh, and does         *)
(* evaluate_admission admit the configured load requirement.               *)
(***************************************************************************)
EXTENDS Naturals

CONSTANTS
    RecoverySamples,     \* recovery_sample_count (3 in the code)
    PriorityClears,      \* _PRIORITY_RECOVERY_CLEAR_COUNT (3 in the code)
    PriorityConfigured,  \* priority_reader is not None
    CanonicalCuda,       \* canonical_shared_cuda: GPU telemetry is required
    SourceGens           \* source generations a priority publication may carry

ASSUME ControllerAssumption ==
    /\ RecoverySamples \in Nat \ {0}
    /\ PriorityClears \in Nat \ {0}
    /\ PriorityConfigured \in BOOLEAN
    /\ CanonicalCuda \in BOOLEAN
    /\ SourceGens \subseteq Nat \ {0}

ControllerStates == {"normal", "yielding", "recovering"}
PriorityStates == {"disabled", "clear", "neutral", "asserted", "unavailable"}

\* recovery_reason, reduced to the one value the control flow compares with.
Reasons == {"none", "priority_pressure", "other"}

\* One PressureSample.  A sample with stale GPU telemetry is never admitted
\* when the telemetry is required.
Samples ==
    {s \in [pressure : BOOLEAN, critical : BOOLEAN,
            gpuFresh : BOOLEAN, fits : BOOLEAN] :
        IF CanonicalCuda THEN s.fits => s.gpuFresh ELSE s.gpuFresh}

\* One accepted or synthesised PriorityObservation (generation 0 is None).
\* A new epoch is a new publication, and a publication carries a generation.
Observations ==
    IF ~PriorityConfigured THEN {}
    ELSE {o \in [state : {"clear", "neutral", "asserted", "unavailable"},
                 new : BOOLEAN, epoch : BOOLEAN, gen : SourceGens \cup {0}] :
             /\ o.epoch => o.new
             /\ o.new => o.gen # 0 /\ o.state # "unavailable"
             /\ o.state # "unavailable" => o.gen # 0}

\* A throttled poll reads nothing.
NoSample == [pressure |-> FALSE, critical |-> FALSE,
             gpuFresh |-> FALSE, fits |-> TRUE]
NoObservation == [state |-> "disabled", new |-> FALSE, epoch |-> FALSE, gen |-> 0]

CtlType ==
    [state : ControllerStates, open : BOOLEAN, reason : Reasons,
     pressureRun : 0 .. 1, healthy : 0 .. RecoverySamples, gpuMiss : 0 .. 2,
     seen : BOOLEAN, prio : PriorityStates, clears : 0 .. PriorityClears,
     high : Nat, episode : BOOLEAN, extGen : Nat]

NewController ==
    [state |-> IF PriorityConfigured THEN "recovering" ELSE "normal",
     open |-> ~CanonicalCuda /\ ~PriorityConfigured,
     reason |-> IF PriorityConfigured THEN "priority_pressure" ELSE "none",
     pressureRun |-> 0, healthy |-> 0, gpuMiss |-> 0, seen |-> FALSE,
     prio |-> IF PriorityConfigured THEN "unavailable" ELSE "disabled",
     clears |-> 0, high |-> 0, episode |-> FALSE, extGen |-> 0]

-----------------------------------------------------------------------------
(***************************************************************************)
(* The controller's methods, as functions of the record c.                 *)
(***************************************************************************)

\* A yield asks the owner of a resident model to release it; without one the
\* controller recovers at once, since no release acknowledgement can arrive.
Blocked(resident) == IF resident THEN "yielding" ELSE "recovering"

PriorityReady(c) ==
    ~PriorityConfigured \/ (c.prio = "clear" /\ c.clears >= PriorityClears)

MaybeFinishRecovery(c) ==
    IF c.state = "recovering" /\ c.healthy >= RecoverySamples /\ PriorityReady(c)
    THEN [c EXCEPT !.state = "normal", !.open = TRUE, !.reason = "none",
                   !.healthy = 0, !.episode = FALSE,
                   !.extGen = IF c.episode THEN @ + 1 ELSE @]
    ELSE c

\* _observe_priority_locked: asserted, unavailable or a new producer epoch
\* yields; neutral holds; only a strictly newer clear generation counts.
ObservePriority(c, o, resident) ==
    LET reset == o.state \in {"asserted", "neutral", "unavailable"} \/ o.epoch
        base == [c EXCEPT
                    !.prio = o.state,
                    !.clears = IF reset THEN 0 ELSE @,
                    !.high = IF reset /\ o.gen > @ THEN o.gen ELSE @,
                    !.episode = @ \/ o.state \in {"asserted", "unavailable"}]
        held == [base EXCEPT !.open = FALSE, !.healthy = 0,
                             !.reason = "priority_pressure"]
        fresh == o.state = "clear" /\ o.new /\ ~o.epoch /\ o.gen > base.high
        counted == [base EXCEPT
                       !.high = o.gen,
                       !.clears = IF @ < PriorityClears THEN @ + 1 ELSE @]
    IN  IF o.state \in {"asserted", "unavailable"} \/ o.epoch
        THEN [held EXCEPT !.state = Blocked(resident)]
        ELSE IF o.state = "neutral"
        THEN [held EXCEPT !.state = IF @ = "normal" THEN "recovering" ELSE @]
        ELSE MaybeFinishRecovery(IF fresh THEN counted ELSE base)

\* The GPU-telemetry part of _observe_locked: one stale sample closes
\* admission, a second consecutive one blocks.  (The counter is only ever
\* compared with 0 and 2, so it saturates at 2.)
ObserveGpu(c, s, resident) ==
    IF ~CanonicalCuda THEN c
    ELSE IF s.gpuFresh THEN [c EXCEPT !.gpuMiss = 0]
    ELSE IF c.gpuMiss = 0 THEN [c EXCEPT !.gpuMiss = 1, !.open = FALSE]
    ELSE [c EXCEPT !.gpuMiss = 2, !.open = FALSE, !.pressureRun = 0,
                   !.healthy = 0, !.state = Blocked(resident),
                   !.reason = "other"]

\* The NORMAL branch of _observe_locked: two pressured samples, or one
\* critical sample, block.
ObserveNormal(c, s, resident) ==
    IF s.critical \/ (s.pressure /\ c.pressureRun = 1)
    THEN [c EXCEPT !.healthy = 0, !.pressureRun = 0,
                   !.state = Blocked(resident)]
    ELSE IF s.pressure
    THEN [c EXCEPT !.healthy = 0, !.pressureRun = 1]
    ELSE [c EXCEPT !.healthy = 0, !.pressureRun = 0,
                   !.open = @ \/ ((~CanonicalCuda \/ s.gpuFresh)
                                     /\ PriorityReady(c))]

\* The RECOVERING branch of _observe_locked: consecutive qualified samples
\* finish the recovery; pressure met by an active inference yields, and so
\* does an idle model that only blocks its own reload.
ObserveRecovering(c, s, resident, active) ==
    LET pressured == s.pressure \/ s.critical
        selfBlocked == /\ ~active
                       /\ c.reason = "priority_pressure"
                       /\ PriorityReady(c)
    IN  IF pressured \/ ~s.fits
        THEN [c EXCEPT !.pressureRun = 0, !.healthy = 0,
                       !.state = IF resident /\ ((active /\ pressured)
                                                    \/ selfBlocked)
                                 THEN "yielding" ELSE @]
        ELSE MaybeFinishRecovery(
                [c EXCEPT !.pressureRun = 0,
                          !.healthy = IF @ < RecoverySamples
                                      THEN @ + 1 ELSE @])

\* Mutant: leaving NORMAL does not close admission.
ObserveSampleKeepsOpen(c, s, resident, active) ==
    LET g == ObserveGpu([c EXCEPT !.seen = TRUE], s, resident)
    IN  IF g.state = "normal" THEN ObserveNormal(g, s, resident)
        ELSE IF g.state = "recovering"
        THEN ObserveRecovering(g, s, resident, active)
        ELSE g

\* _observe_locked
ObserveSample(c, s, resident, active) ==
    LET g == ObserveGpu([c EXCEPT !.seen = TRUE], s, resident)
        n == IF g.state = "normal" THEN ObserveNormal(g, s, resident)
             ELSE IF g.state = "recovering"
             THEN ObserveRecovering(g, s, resident, active)
             ELSE g
    IN  [n EXCEPT !.open = @ /\ n.state = "normal"]

\* poll_priority: only the priority signal, on its own cadence.
PollPriority(c, o, resident) ==
    IF o = NoObservation THEN c ELSE ObservePriority(c, o, resident)

\* poll: priority first, then one fresh sample unless the controller yields.
Poll(c, o, s, resident, active) ==
    LET p == PollPriority(c, o, resident)
    IN  IF p.state = "yielding" \/ s = NoSample THEN p
        ELSE ObserveSample(p, s, resident, active)

\* mark_released: the owner acknowledged a release; recovery starts over.
MarkReleased(c, reason) ==
    [c EXCEPT !.state = "recovering", !.open = FALSE, !.pressureRun = 0,
              !.healthy = 0, !.reason = IF reason = "none" THEN @ ELSE reason]

\* close_admission
CloseAdmission(c) == [c EXCEPT !.open = FALSE]

\* open_admission_if_normal; stillFresh says whether the last sample's GPU
\* telemetry has not yet aged out.
OpenIfNormal(c, stillFresh) ==
    [c EXCEPT !.open = /\ c.state = "normal"
                       /\ PriorityReady(c)
                       /\ CanonicalCuda =>
                             c.seen /\ c.gpuMiss = 0 /\ stillFresh]

\* immediate_load_admission: the fresh check inside every load gate.
ImmediateAdmission(c, o, s) ==
    LET p == PollPriority(c, o, FALSE)
        admitted == c.state = "normal" /\ p.state = "normal" /\ s.fits
    IN  [admitted |-> admitted,
         ctl |-> IF c.state # "normal" THEN CloseAdmission(c)
                 ELSE IF p.state # "normal" THEN CloseAdmission(p)
                 ELSE IF s.fits THEN [p EXCEPT !.open = PriorityReady(p)]
                 ELSE MarkReleased(p, "other")]

\* latch_release_failure_without_publication
LatchReleaseFailure(c, resident) ==
    [c EXCEPT !.state = Blocked(resident), !.open = FALSE, !.reason = "other",
              !.pressureRun = 0, !.healthy = 0]
=============================================================================

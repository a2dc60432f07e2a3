------------------------- MODULE ModelRuntimeProofs -------------------------
(***************************************************************************)
(* Theorems about ModelRuntime, for any number of workers, cleanup timers  *)
(* and permits, any number of recovery samples, with and without priority  *)
(* signal, CUDA telemetry, failing backends and shutdown:                  *)
(*                                                                         *)
(*   TypeCorrect           Spec => []TypeOK                                *)
(*   AdmissionIsRecovered  Spec => []OpenMeansRecovered                    *)
(*   InferenceKeepsModel   Spec => []NoUnloadDuringInference               *)
(*   QuarantineHolds       Spec => QuarantineIsFinal                       *)
(*   TicketsReleaseTheirOwn  MCSpec => []TicketReleasesItsOwnModel         *)
(*                                                                         *)
(* The first two are proved together: the controller's methods keep CtlOK  *)
(* whatever their arguments, and the type of every other variable is kept  *)
(* by each action.  The third is not inductive; SlotInv is.                *)
(***************************************************************************)
EXTENDS MCModelRuntime, SequenceTheorems, TLAPS

-----------------------------------------------------------------------------
(***************************************************************************)
(* What every method of the pressure controller preserves, for any number  *)
(* of recovery samples, priority clears and source generations.            *)
(***************************************************************************)

\* The controller's own invariant: admission is open only in NORMAL and only
\* with a recovered priority signal.
CtlOK(c) ==
    /\ c \in CtlType
    /\ c.open => c.state = "normal" /\ PriorityReady(c)

-----------------------------------------------------------------------------
(***************************************************************************)
(* The values the methods assign belong to the fields' types.              *)
(***************************************************************************)

\* The values the controller's methods give its fields.
LEMMA FieldValues ==
    /\ {"normal", "yielding", "recovering"} \subseteq ControllerStates
    /\ {"none", "priority_pressure", "other"} \subseteq Reasons
    /\ 0 \in 0 .. RecoverySamples /\ 0 \in 0 .. PriorityClears
    /\ 0 \in 0 .. 1 /\ 1 \in 0 .. 1
    /\ 0 \in 0 .. 2 /\ 1 \in 0 .. 2 /\ 2 \in 0 .. 2
BY ControllerAssumption DEF ControllerStates, Reasons

\* The counters step inside their bounds.
LEMMA CounterSteps ==
    /\ \A h \in 0 .. RecoverySamples :
          (IF h < RecoverySamples THEN h + 1 ELSE h) \in 0 .. RecoverySamples
    /\ \A n \in 0 .. PriorityClears :
          (IF n < PriorityClears THEN n + 1 ELSE n) \in 0 .. PriorityClears
BY ControllerAssumption

\* What a record of the controller's type looks like, field by field.
LEMMA CtlFields ==
    ASSUME NEW c \in CtlType
    PROVE  /\ c.state \in ControllerStates
           /\ c.open \in BOOLEAN
           /\ c.reason \in Reasons
           /\ c.pressureRun \in 0 .. 1
           /\ c.healthy \in 0 .. RecoverySamples
           /\ c.gpuMiss \in 0 .. 2
           /\ c.seen \in BOOLEAN
           /\ c.prio \in PriorityStates
           /\ c.clears \in 0 .. PriorityClears
           /\ c.high \in Nat
           /\ c.episode \in BOOLEAN
           /\ c.extGen \in Nat
BY DEF CtlType

-----------------------------------------------------------------------------
(***************************************************************************)
(* The methods.                                                            *)
(***************************************************************************)

\* _maybe_finish_recovery_locked opens admission only with a ready signal.
LEMMA MaybeFinishOK ==
    ASSUME NEW c, CtlOK(c)
    PROVE  CtlOK(MaybeFinishRecovery(c))
<1>1. c \in CtlType
  BY DEF CtlOK
<1>2. CASE c.state = "recovering" /\ c.healthy >= RecoverySamples
           /\ PriorityReady(c)
  <2> DEFINE d == [c EXCEPT !.state = "normal", !.open = TRUE, !.reason = "none",
                            !.healthy = 0, !.episode = FALSE,
                            !.extGen = IF c.episode THEN @ + 1 ELSE @]
  <2>1. (IF c.episode THEN c.extGen + 1 ELSE c.extGen) \in Nat
    BY <1>1, CtlFields
  <2>2. d \in CtlType
    BY <1>1, <2>1, FieldValues DEF CtlType
  <2>3. d.state = "normal" /\ d.prio = c.prio /\ d.clears = c.clears
    BY <1>1 DEF CtlType
  <2>4. PriorityReady(d)
    BY <1>2, <2>3 DEF PriorityReady
  <2>5. MaybeFinishRecovery(c) = d
    BY <1>2 DEF MaybeFinishRecovery
  <2> HIDE DEF d
  <2> QED BY <2>2, <2>3, <2>4, <2>5 DEF CtlOK
<1>3. CASE ~(c.state = "recovering" /\ c.healthy >= RecoverySamples
             /\ PriorityReady(c))
  BY <1>3 DEF MaybeFinishRecovery
<1> QED BY <1>2, <1>3

\* _observe_priority_locked keeps the controller's invariant.
LEMMA ObservePriorityOK ==
    ASSUME NEW c, CtlOK(c), NEW o \in Observations, NEW resident \in BOOLEAN
    PROVE  CtlOK(ObservePriority(c, o, resident))
<1> DEFINE reset == o.state \in {"asserted", "neutral", "unavailable"} \/ o.epoch
           base == [c EXCEPT
                    !.prio = o.state,
                    !.clears = IF reset THEN 0 ELSE @,
                    !.high = IF reset /\ o.gen > @ THEN o.gen ELSE @,
                    !.episode = @ \/ o.state \in {"asserted", "unavailable"}]
           held == [base EXCEPT !.open = FALSE, !.healthy = 0,
                             !.reason = "priority_pressure"]
           counted == [base EXCEPT
                       !.high = o.gen,
                       !.clears = IF @ < PriorityClears THEN @ + 1 ELSE @]
<1>2. PriorityConfigured
  BY DEF Observations
<1>1. /\ o.state \in {"clear", "neutral", "asserted", "unavailable"}
      /\ o.gen \in Nat /\ o.epoch \in BOOLEAN /\ o.new \in BOOLEAN
  <2>1. o \in [state : {"clear", "neutral", "asserted", "unavailable"},
               new : BOOLEAN, epoch : BOOLEAN, gen : SourceGens \cup {0}]
    BY <1>2 DEF Observations
  <2>2. SourceGens \cup {0} \subseteq Nat
    BY ControllerAssumption
  <2> QED BY <2>1, <2>2
<1>3. c \in CtlType
  BY DEF CtlOK
<1>4. /\ o.state \in PriorityStates
      /\ (IF reset THEN 0 ELSE c.clears) \in 0 .. PriorityClears
      /\ (IF reset /\ o.gen > c.high THEN o.gen ELSE c.high) \in Nat
      /\ (c.episode \/ o.state \in {"asserted", "unavailable"}) \in BOOLEAN
  BY <1>1, <1>3, CtlFields, FieldValues DEF PriorityStates
<1>5. base \in CtlType
  BY <1>3, <1>4 DEF CtlType
<1>6. /\ base.open = c.open /\ base.state = c.state
      /\ base.prio = o.state
      /\ base.clears = IF reset THEN 0 ELSE c.clears
  BY <1>3 DEF CtlType
<1>7. held \in CtlType /\ held.open = FALSE
  <2> HIDE DEF base
  <2> QED BY <1>5, FieldValues DEF CtlType
<1>8. CASE o.state \in {"asserted", "unavailable"} \/ o.epoch
  <2>1. ObservePriority(c, o, resident) = [held EXCEPT !.state = Blocked(resident)]
    BY <1>8 DEF ObservePriority
  <2>2. Blocked(resident) \in ControllerStates
    BY FieldValues DEF Blocked
  <2> HIDE DEF held
  <2>3. /\ [held EXCEPT !.state = Blocked(resident)] \in CtlType
        /\ [held EXCEPT !.state = Blocked(resident)].open = FALSE
    BY <1>7, <2>2 DEF CtlType
  <2> QED BY <2>1, <2>3 DEF CtlOK
<1>9. CASE ~(o.state \in {"asserted", "unavailable"} \/ o.epoch)
           /\ o.state = "neutral"
  <2> DEFINE next == IF held.state = "normal" THEN "recovering" ELSE held.state
  <2>1. ObservePriority(c, o, resident) = [held EXCEPT !.state = next]
    BY <1>9 DEF ObservePriority
  <2> HIDE DEF held
  <2>2. next \in ControllerStates
    BY <1>7, CtlFields, FieldValues
  <2> HIDE DEF next
  <2>3. /\ [held EXCEPT !.state = next] \in CtlType
        /\ [held EXCEPT !.state = next].open = FALSE
    BY <1>7, <2>2 DEF CtlType
  <2> QED BY <2>1, <2>3 DEF CtlOK
<1>10. CASE ~(o.state \in {"asserted", "unavailable"} \/ o.epoch)
            /\ o.state # "neutral"
  <2>1. o.state = "clear" /\ ~reset
    BY <1>1, <1>10
  <2>2. \/ ObservePriority(c, o, resident) = MaybeFinishRecovery(counted)
        \/ ObservePriority(c, o, resident) = MaybeFinishRecovery(base)
    BY <1>10 DEF ObservePriority
  <2>3. base.clears = c.clears
    BY <1>6, <2>1
  <2>4. c.open => c.state = "normal" /\ c.clears >= PriorityClears
    BY <1>2 DEF CtlOK, PriorityReady
  <2>5. CtlOK(base)
    <3> HIDE DEF base
    <3> QED BY <1>5, <1>6, <2>1, <2>3, <2>4 DEF CtlOK, PriorityReady
  <2>6. CtlOK(counted)
    <3> HIDE DEF base
    <3>1. (IF base.clears < PriorityClears THEN base.clears + 1 ELSE base.clears)
             \in 0 .. PriorityClears
      BY <1>5, CtlFields, CounterSteps
    <3>2. counted \in CtlType
      BY <1>1, <1>5, <3>1 DEF CtlType
    <3>3. /\ counted.open = base.open /\ counted.state = base.state
          /\ counted.prio = base.prio
          /\ counted.clears = IF base.clears < PriorityClears
                              THEN base.clears + 1 ELSE base.clears
      BY <1>5 DEF CtlType
    <3>4. base.clears >= PriorityClears => counted.clears >= PriorityClears
      BY <3>3, <1>5, CtlFields, ControllerAssumption
    <3> HIDE DEF counted
    <3> QED BY <3>2, <3>3, <3>4, <2>5 DEF CtlOK, PriorityReady
  <2> HIDE DEF base, counted
  <2> QED BY <2>2, <2>5, <2>6, MaybeFinishOK
<1> QED BY <1>8, <1>9, <1>10

\* poll_priority, throttled or not.
LEMMA PollPriorityOK ==
    ASSUME NEW c, CtlOK(c), NEW o \in Observations \cup {NoObservation},
           NEW resident \in BOOLEAN
    PROVE  CtlOK(PollPriority(c, o, resident))
BY ObservePriorityOK DEF PollPriority

\* The telemetry part of _observe_locked keeps the invariant.
LEMMA ObserveGpuOK ==
    ASSUME NEW c, CtlOK(c), NEW s, NEW resident \in BOOLEAN
    PROVE  /\ ObserveGpu(c, s, resident) \in CtlType
           /\ LET g == ObserveGpu(c, s, resident)
              IN  g.open => PriorityReady(g) /\ g.state = "normal"
<1>1. c \in CtlType
  BY DEF CtlOK
<1>2. CASE ~CanonicalCuda
  BY <1>2 DEF ObserveGpu, CtlOK
<1>3. CASE CanonicalCuda /\ s.gpuFresh
  <2> DEFINE d == [c EXCEPT !.gpuMiss = 0]
  <2>1. ObserveGpu(c, s, resident) = d
    BY <1>3 DEF ObserveGpu
  <2>2. /\ d \in CtlType /\ d.open = c.open /\ d.state = c.state
        /\ d.prio = c.prio /\ d.clears = c.clears
    BY <1>1, FieldValues DEF CtlType
  <2> HIDE DEF d
  <2> QED BY <2>1, <2>2 DEF CtlOK, PriorityReady
<1>4. CASE CanonicalCuda /\ ~s.gpuFresh /\ c.gpuMiss = 0
  <2> DEFINE d == [c EXCEPT !.gpuMiss = 1, !.open = FALSE]
  <2>1. ObserveGpu(c, s, resident) = d
    BY <1>4 DEF ObserveGpu
  <2>2. d \in CtlType /\ d.open = FALSE
    BY <1>1, FieldValues DEF CtlType
  <2> HIDE DEF d
  <2> QED BY <2>1, <2>2
<1>5. CASE CanonicalCuda /\ ~s.gpuFresh /\ c.gpuMiss # 0
  <2> DEFINE d == [c EXCEPT !.gpuMiss = 2, !.open = FALSE, !.pressureRun = 0,
                            !.healthy = 0, !.state = Blocked(resident),
                            !.reason = "other"]
  <2>1. ObserveGpu(c, s, resident) = d
    BY <1>5 DEF ObserveGpu
  <2>2. Blocked(resident) \in ControllerStates
    BY FieldValues DEF Blocked
  <2>3. d \in CtlType /\ d.open = FALSE
    BY <1>1, <2>2, FieldValues DEF CtlType
  <2> HIDE DEF d
  <2> QED BY <2>1, <2>3
<1> QED BY <1>2, <1>3, <1>4, <1>5

\* The NORMAL branch may leave NORMAL with the flag still set, which the last
\* statement of _observe_locked clears.
LEMMA ObserveNormalOK ==
    ASSUME NEW c \in CtlType, c.open => PriorityReady(c), NEW s,
           NEW resident \in BOOLEAN
    PROVE  LET n == ObserveNormal(c, s, resident)
           IN  n \in CtlType /\ (n.open => PriorityReady(n))
<1>0. Blocked(resident) \in ControllerStates
  BY FieldValues DEF Blocked
<1>1. CASE s.critical \/ (s.pressure /\ c.pressureRun = 1)
  <2> DEFINE d == [c EXCEPT !.healthy = 0, !.pressureRun = 0,
                            !.state = Blocked(resident)]
  <2>1. ObserveNormal(c, s, resident) = d
    BY <1>1 DEF ObserveNormal
  <2>2. d \in CtlType /\ d.open = c.open /\ d.prio = c.prio /\ d.clears = c.clears
    BY <1>0, FieldValues DEF CtlType
  <2> HIDE DEF d
  <2> QED BY <2>1, <2>2 DEF PriorityReady
<1>2. CASE ~(s.critical \/ (s.pressure /\ c.pressureRun = 1)) /\ s.pressure
  <2> DEFINE d == [c EXCEPT !.healthy = 0, !.pressureRun = 1]
  <2>1. ObserveNormal(c, s, resident) = d
    BY <1>2 DEF ObserveNormal
  <2>2. d \in CtlType /\ d.open = c.open /\ d.prio = c.prio /\ d.clears = c.clears
    BY FieldValues DEF CtlType
  <2> HIDE DEF d
  <2> QED BY <2>1, <2>2 DEF PriorityReady
<1>3. CASE ~(s.critical \/ (s.pressure /\ c.pressureRun = 1)) /\ ~s.pressure
  <2> DEFINE o == c.open \/ ((~CanonicalCuda \/ s.gpuFresh) /\ PriorityReady(c))
             d == [c EXCEPT !.healthy = 0, !.pressureRun = 0, !.open = o]
  <2>1. ObserveNormal(c, s, resident) = d
    BY <1>3 DEF ObserveNormal
  <2>2. o \in BOOLEAN /\ (o => PriorityReady(c))
    BY CtlFields
  <2> HIDE DEF o
  <2>3. d \in CtlType /\ d.open = o /\ d.prio = c.prio /\ d.clears = c.clears
    BY <2>2, FieldValues DEF CtlType
  <2> HIDE DEF d
  <2> QED BY <2>1, <2>2, <2>3 DEF PriorityReady
<1> QED BY <1>1, <1>2, <1>3

\* The RECOVERING branch never opens admission except by finishing.
LEMMA ObserveRecoveringOK ==
    ASSUME NEW c \in CtlType, c.open = FALSE, NEW s, NEW resident \in BOOLEAN,
           NEW working \in BOOLEAN
    PROVE  CtlOK(ObserveRecovering(c, s, resident, working))
<1> DEFINE pressured == s.pressure \/ s.critical
           selfBlocked == /\ ~working
                          /\ c.reason = "priority_pressure"
                          /\ PriorityReady(c)
           next == IF resident /\ ((working /\ pressured) \/ selfBlocked)
                   THEN "yielding" ELSE c.state
           d == [c EXCEPT !.pressureRun = 0, !.healthy = 0, !.state = next]
           h == IF c.healthy < RecoverySamples THEN c.healthy + 1 ELSE c.healthy
           e == [c EXCEPT !.pressureRun = 0, !.healthy = h]
<1>1. CASE pressured \/ ~s.fits
  <2>1. ObserveRecovering(c, s, resident, working) = d
    BY <1>1 DEF ObserveRecovering
  <2>2. next \in ControllerStates
    BY CtlFields, FieldValues
  <2> HIDE DEF next
  <2>3. d \in CtlType /\ d.open = FALSE
    BY <2>2, FieldValues DEF CtlType
  <2> HIDE DEF d
  <2> QED BY <2>1, <2>3 DEF CtlOK
<1>2. CASE ~(pressured \/ ~s.fits)
  <2>1. ObserveRecovering(c, s, resident, working) = MaybeFinishRecovery(e)
    BY <1>2 DEF ObserveRecovering
  <2>2. h \in 0 .. RecoverySamples
    BY CtlFields, CounterSteps
  <2> HIDE DEF h
  <2>3. e \in CtlType /\ e.open = FALSE
    BY <2>2, FieldValues DEF CtlType
  <2> HIDE DEF e
  <2> QED BY <2>1, <2>3, MaybeFinishOK DEF CtlOK
<1> QED BY <1>1, <1>2

\* _observe_locked keeps the controller's invariant, whatever the sample.
LEMMA ObserveSampleOK ==
    ASSUME NEW c, CtlOK(c), NEW s, NEW resident \in BOOLEAN,
           NEW working \in BOOLEAN
    PROVE  CtlOK(ObserveSample(c, s, resident, working))
<1> DEFINE b == [c EXCEPT !.seen = TRUE]
           g == ObserveGpu(b, s, resident)
           n == IF g.state = "normal" THEN ObserveNormal(g, s, resident)
                ELSE IF g.state = "recovering"
                THEN ObserveRecovering(g, s, resident, working)
                ELSE g
           f == [n EXCEPT !.open = @ /\ n.state = "normal"]
<1>1. CtlOK(b)
  <2>1. /\ b \in CtlType /\ b.open = c.open /\ b.state = c.state
        /\ b.prio = c.prio /\ b.clears = c.clears
    BY DEF CtlOK, CtlType
  <2> HIDE DEF b
  <2> QED BY <2>1 DEF CtlOK, PriorityReady
<1> HIDE DEF b
<1>2. g \in CtlType /\ (g.open => PriorityReady(g) /\ g.state = "normal")
  BY <1>1, ObserveGpuOK
<1>3. ObserveSample(c, s, resident, working) = f
  BY DEF ObserveSample, b
<1> HIDE DEF g
<1>4. n \in CtlType /\ (n.open => PriorityReady(n))
  <2>1. CASE g.state = "normal"
    BY <2>1, <1>2, ObserveNormalOK
  <2>2. CASE g.state = "recovering"
    <3>1. g.open = FALSE
      BY <1>2, <2>2, CtlFields
    <3> QED BY <1>2, <2>2, <3>1, ObserveRecoveringOK DEF CtlOK
  <2>3. CASE g.state \notin {"normal", "recovering"}
    BY <2>3, <1>2
  <2> QED BY <2>1, <2>2, <2>3
<1> HIDE DEF n
<1>5. (n.open /\ n.state = "normal") \in BOOLEAN
  OBVIOUS
<1>6. /\ f \in CtlType /\ f.open = (n.open /\ n.state = "normal")
      /\ f.state = n.state /\ f.prio = n.prio /\ f.clears = n.clears
  BY <1>4, <1>5 DEF CtlType
<1> HIDE DEF f
<1> QED BY <1>3, <1>4, <1>6 DEF CtlOK, PriorityReady

\* poll
LEMMA PollOK ==
    ASSUME NEW c, CtlOK(c), NEW o \in Observations \cup {NoObservation}, NEW s,
           NEW resident \in BOOLEAN, NEW working \in BOOLEAN
    PROVE  CtlOK(Poll(c, o, s, resident, working))
<1>1. CtlOK(PollPriority(c, o, resident))
  BY PollPriorityOK
<1> QED BY <1>1, ObserveSampleOK DEF Poll

\* mark_released
LEMMA MarkReleasedOK ==
    ASSUME NEW c \in CtlType, NEW reason \in Reasons
    PROVE  CtlOK(MarkReleased(c, reason))
<1> DEFINE r == IF reason = "none" THEN c.reason ELSE reason
           d == [c EXCEPT !.state = "recovering", !.open = FALSE,
                          !.pressureRun = 0, !.healthy = 0, !.reason = r]
<1>1. MarkReleased(c, reason) = d
  BY DEF MarkReleased
<1>2. r \in Reasons
  BY CtlFields
<1> HIDE DEF r
<1>3. d \in CtlType /\ d.open = FALSE
  BY <1>2, FieldValues DEF CtlType
<1> HIDE DEF d
<1> QED BY <1>1, <1>3 DEF CtlOK

\* close_admission
LEMMA CloseAdmissionOK ==
    ASSUME NEW c \in CtlType
    PROVE  CtlOK(CloseAdmission(c))
<1>1. CloseAdmission(c) \in CtlType /\ CloseAdmission(c).open = FALSE
  BY DEF CloseAdmission, CtlType
<1> QED BY <1>1 DEF CtlOK

\* open_admission_if_normal
LEMMA OpenIfNormalOK ==
    ASSUME NEW c \in CtlType, NEW stillFresh \in BOOLEAN
    PROVE  CtlOK(OpenIfNormal(c, stillFresh))
<1> DEFINE o == /\ c.state = "normal"
                /\ PriorityReady(c)
                /\ CanonicalCuda => c.seen /\ c.gpuMiss = 0 /\ stillFresh
           d == [c EXCEPT !.open = o]
<1>1. OpenIfNormal(c, stillFresh) = d
  BY DEF OpenIfNormal
<1>2. o \in BOOLEAN /\ (o => c.state = "normal" /\ PriorityReady(c))
  OBVIOUS
<1> HIDE DEF o
<1>3. /\ d \in CtlType /\ d.open = o /\ d.state = c.state
      /\ d.prio = c.prio /\ d.clears = c.clears
  BY <1>2 DEF CtlType
<1> HIDE DEF d
<1> QED BY <1>1, <1>2, <1>3 DEF CtlOK, PriorityReady

\* immediate_load_admission
LEMMA ImmediateAdmissionOK ==
    ASSUME NEW c, CtlOK(c), NEW o \in Observations \cup {NoObservation}, NEW s
    PROVE  CtlOK(ImmediateAdmission(c, o, s).ctl)
<1> DEFINE p == PollPriority(c, o, FALSE)
           d == [p EXCEPT !.open = PriorityReady(p)]
<1>1. CtlOK(p)
  BY PollPriorityOK
<1> HIDE DEF p
<1>2. ASSUME p.state = "normal" PROVE CtlOK(d)
  <2>1. PriorityReady(p) \in BOOLEAN
    BY ControllerAssumption DEF PriorityReady
  <2>2. /\ d \in CtlType /\ d.open = PriorityReady(p) /\ d.state = p.state
        /\ d.prio = p.prio /\ d.clears = p.clears
    BY <1>1, <2>1 DEF CtlOK, CtlType
  <2> HIDE DEF d
  <2> QED BY <1>2, <2>2 DEF CtlOK, PriorityReady
<1>3. c \in CtlType /\ p \in CtlType
  BY <1>1 DEF CtlOK
<1>4. CtlOK(CloseAdmission(c)) /\ CtlOK(CloseAdmission(p))
      /\ CtlOK(MarkReleased(p, "other"))
  BY <1>3, CloseAdmissionOK, MarkReleasedOK, FieldValues
<1>5. ImmediateAdmission(c, o, s).ctl \in
         {CloseAdmission(c), CloseAdmission(p), MarkReleased(p, "other")}
           \cup (IF p.state = "normal" THEN {d} ELSE {})
  BY DEF ImmediateAdmission, p
<1> HIDE DEF d
<1> QED BY <1>2, <1>4, <1>5

\* latch_release_failure_without_publication
LEMMA LatchReleaseFailureOK ==
    ASSUME NEW c \in CtlType, NEW resident \in BOOLEAN
    PROVE  CtlOK(LatchReleaseFailure(c, resident))
<1>1. Blocked(resident) \in ControllerStates
  BY FieldValues DEF Blocked
<1>2. /\ LatchReleaseFailure(c, resident) \in CtlType
      /\ LatchReleaseFailure(c, resident).open = FALSE
  BY <1>1, FieldValues DEF LatchReleaseFailure, CtlType
<1> QED BY <1>2 DEF CtlOK

\* The constructor, before its first observation.
LEMMA NewControllerOK == CtlOK(NewController)
<1>1. NewController \in CtlType
  BY ControllerAssumption, FieldValues
     DEF NewController, CtlType, ControllerStates, Reasons, PriorityStates
<1>2. NewController.open => NewController.state = "normal" /\ ~PriorityConfigured
  BY ControllerAssumption DEF NewController
<1> QED BY <1>1, <1>2 DEF CtlOK, PriorityReady

-----------------------------------------------------------------------------
(***************************************************************************)
(* Types.                                                                  *)
(***************************************************************************)

\* TypeOK, with the controller's own invariant.
TypeInv == TypeOK /\ CtlOK(ctl)

\* Every label the actions go to is a label.
LEMMA LabelNames ==
    /\ "idle" \in Labels /\ "popped" \in Labels /\ "admit" \in Labels
    /\ "enter" \in Labels
    /\ "snap" \in Labels /\ "permit" \in Labels /\ "valid" \in Labels
    /\ "lock" \in Labels /\ "fresh" \in Labels /\ "deny" \in Labels
    /\ "load" \in Labels /\ "infer" \in Labels /\ "gate" \in Labels
    /\ "shut" \in Labels /\ "yield" \in Labels /\ "unslot" \in Labels
    /\ "deact" \in Labels /\ "commit" \in Labels /\ "rebind" \in Labels
    /\ "commitClose" \in Labels /\ "recover" \in Labels
    /\ "enterWait" \in Labels /\ "ack" \in Labels /\ "wait" \in Labels
    /\ "poll" \in Labels /\ "reopen" \in Labels /\ "rel" \in Labels
    /\ "drain" \in Labels /\ "relLock" \in Labels /\ "unload" \in Labels
    /\ "latch" \in Labels /\ "relFree" \in Labels /\ "relDone" \in Labels
    /\ "join" \in Labels /\ "abortReopen" \in Labels
    /\ "quarantine" \in Labels /\ "observe" \in Labels
    /\ "oPriority" \in Labels /\ "oGate" \in Labels /\ "oShut" \in Labels
    /\ "oPoll" \in Labels /\ "oPolled" \in Labels /\ "oClose" \in Labels
    /\ "oRelease" \in Labels /\ "oIdlePoll" \in Labels
    /\ "oIdleGate" \in Labels /\ "oReopen" \in Labels
    /\ "oIdleShut" \in Labels /\ "oFail" \in Labels
BY DEF Labels

\* The values an action gives a field of a thread's locals.
LEMMA LocalUpdates ==
    ASSUME NEW l \in LocalType
    PROVE  /\ \A x \in {"start", "run"} : [l EXCEPT !.phase = x] \in LocalType
           /\ \A x \in Nat : [l EXCEPT !.gen = x] \in LocalType
           /\ \A x \in Nat \cup {-1} : [l EXCEPT !.source = BoundTo(x)] \in LocalType
           /\ \A x \in Reasons : [l EXCEPT !.reason = x] \in LocalType
           /\ [l EXCEPT !.reason = "idle_cleanup"] \in LocalType
           /\ \A x \in {"none", "done", "stale", "capacity", "loadfail",
                        "unhealthy", "pressure", "alloc", "commit", "error"} :
                 [l EXCEPT !.result = x] \in LocalType
           /\ \A x \in Nat : [l EXCEPT !.tx = x] \in LocalType
           /\ \A x, y \in BOOLEAN :
                 [l EXCEPT !.resident = x, !.busy = y] \in LocalType
           /\ [l EXCEPT !.aborted = TRUE] \in LocalType
           /\ [l EXCEPT !.failed = TRUE] \in LocalType
BY DEF LocalType, BoundTo

\* The fields of a thread's locals.
LEMMA LocalFields ==
    ASSUME NEW l \in LocalType
    PROVE  /\ l.phase \in {"start", "run"}
           /\ l.gen \in Nat /\ l.tx \in Nat
           /\ l.reason \in Reasons \cup {"idle_cleanup"}
           /\ l.result \in {"none", "done", "stale", "capacity", "loadfail",
                            "unhealthy", "pressure", "alloc", "commit", "error"}
           /\ l.failed \in BOOLEAN /\ l.aborted \in BOOLEAN
BY DEF LocalType

\* A thread starts with locals of the right type.
LEMMA NewLocalType == NewLocal \in LocalType
BY DEF NewLocal, LocalType, NoSource, Reasons

\* The thread sets are what TypeOK says of pc and local.
LEMMA ThreadSets ==
    /\ Workers \subseteq Threads /\ Cleaners \subseteq Threads
    /\ Observer \in Threads
BY DEF Threads

\* At rest a worker has only its phase.
LEMMA AtRestType ==
    ASSUME TypeOK, NEW t \in Threads
    PROVE  AtRest(t) \in LocalType
<1>1. local[t] \in LocalType
  BY DEF TypeOK
<1>2. local[t].phase \in {"start", "run"}
  BY <1>1, LocalFields
<1> QED BY <1>2, NewLocalType, LocalUpdates DEF AtRest

\* Goto keeps the type of pc.
LEMMA GotoType ==
    ASSUME TypeOK, NEW t \in Threads, NEW label \in Labels, Goto(t, label)
    PROVE  pc' \in [Threads -> Labels]
BY DEF Goto, TypeOK

\* SetLocal keeps the type of local.
LEMMA SetLocalType ==
    ASSUME TypeOK, NEW t \in Threads, NEW l \in LocalType, SetLocal(t, l)
    PROVE  local' \in [Threads -> LocalType]
BY DEF SetLocal, TypeOK

\* The end of a worker's task keeps the types of what it changes.
LEMMA EndTaskType ==
    ASSUME TypeOK, NEW w \in Threads, EndTask(w)
    PROVE  /\ pc' \in [Threads -> Labels]
           /\ local' \in [Threads -> LocalType]
           /\ timer' \in BOOLEAN
<1>1. pc' \in [Threads -> Labels]
  BY GotoType, LabelNames DEF EndTask
<1>2. local' \in [Threads -> LocalType]
  BY SetLocalType, NewLocalType DEF EndTask
<1>3. timer' \in BOOLEAN
  BY Zenon DEF EndTask, TypeOK
<1> QED BY <1>1, <1>2, <1>3

\* An error that leaves a thread keeps the types of what it changes.
LEMMA RaiseType ==
    ASSUME TypeOK, NEW t \in Threads, Raise(t)
    PROVE  /\ pc' \in [Threads -> Labels]
           /\ local' \in [Threads -> LocalType]
           /\ timer' \in BOOLEAN
<1>1. CASE t \in Workers
  BY <1>1, EndTaskType DEF Raise
<1>2. CASE t \notin Workers
  <2>1. pc' \in [Threads -> Labels]
    BY <1>2, GotoType, LabelNames DEF Raise
  <2>2. local' \in [Threads -> LocalType] /\ timer' \in BOOLEAN
    BY <1>2, SetLocalType, NewLocalType DEF Raise, TypeOK
  <2> QED BY <2>1, <2>2
<1> QED BY <1>1, <1>2

\* Closing the barrier keeps the controller's invariant.
LEMMA CloseBarrierType ==
    ASSUME TypeInv, CloseBarrier(ctl)
    PROVE  CtlOK(ctl') /\ closed' = TRUE /\ relGen' \in Nat
BY CloseAdmissionOK DEF TypeInv, TypeOK, CloseBarrier

\* A poll of the controller by any thread keeps its invariant.
LEMMA PolledObservationsAre ==
    /\ PolledObservations = Observations \cup {NoObservation}
    /\ ForcedObservations \subseteq Observations \cup {NoObservation}
BY DEF PolledObservations, ForcedObservations

-----------------------------------------------------------------------------
(***************************************************************************)
(* Each group of actions keeps TypeInv.                                    *)
(***************************************************************************)

\* Taking a slot, by a worker.
LEMMA TakeSlotType ==
    ASSUME TypeInv, NEW w \in Workers, TakeSlot(w)
    PROVE  TypeInv'
<1>0. w \in Threads /\ local[w] \in LocalType
  BY ThreadSets DEF TypeInv, TypeOK
<1>1. CASE Pop(w)
  BY <1>0, <1>1, GotoType, LabelNames DEF Pop, TypeInv, TypeOK, shared
<1>2. CASE Register(w)
  BY <1>0, <1>2, GotoType, LabelNames, LocalUpdates
     DEF Register, TypeInv, TypeOK, shared
<1>3. CASE AdmitRaise(w)
  BY <1>0, <1>3, RaiseType DEF AdmitRaise, TypeInv, TypeOK
<1>4. CASE Admit(w)
  BY <1>0, <1>4, GotoType, LabelNames DEF Admit, TypeInv, TypeOK
<1>5. CASE AdmitRecover(w)
  BY <1>0, <1>5, GotoType, LabelNames DEF AdmitRecover, TypeInv, TypeOK, shared
<1>6. CASE Snap(w)
  BY <1>0, <1>6, GotoType, LabelNames, LocalUpdates
     DEF Snap, TypeInv, TypeOK, shared
<1>7. CASE AcquirePermit(w)
  BY <1>0, <1>7, GotoType, LabelNames DEF AcquirePermit, TypeInv, TypeOK
<1>8. CASE PermitTimeout(w)
  BY <1>0, <1>8, GotoType, LabelNames, SetLocalType, AtRestType
     DEF PermitTimeout, TypeInv, TypeOK, shared
<1>9. CASE Validate(w)
  BY <1>0, <1>9, GotoType, LabelNames, SetLocalType, AtRestType
     DEF Validate, FreeOf, TypeInv, TypeOK
<1>10. CASE AdmitCheck(w)
  BY <1>0, <1>10, GotoType, LabelNames DEF AdmitCheck, TypeInv, TypeOK, shared
<1>11. CASE AdmitWait(w)
  BY <1>0, <1>11, GotoType, LabelNames DEF AdmitWait, TypeInv, TypeOK, shared
<1> QED
  BY <1>1, <1>2, <1>3, <1>4, <1>5, <1>6, <1>7, <1>8, <1>9, <1>10, <1>11
     DEF TakeSlot

\* The ticket of a release carries the slot's generation.
LEMMA TicketType ==
    ASSUME TypeOK, NEW t \in Threads
    PROVE  TicketOf(t) \in LocalType
<1>1. local[t] \in LocalType
  BY DEF TypeOK
<1>2. /\ local[t].gen \in Nat
      /\ local[t].reason \in Reasons \cup {"idle_cleanup"}
      /\ local[t].result \in {"none", "done", "stale", "capacity", "loadfail",
                            "unhealthy", "pressure", "alloc", "commit", "error"}
  BY <1>1, LocalFields
<1> DEFINE a == [AtRest(t) EXCEPT !.result = local[t].result]
           b == [a EXCEPT !.source = BoundTo(local[t].gen)]
           r == IF local[t].result = "pressure" THEN local[t].reason ELSE "other"
<1>3. a \in LocalType
  BY <1>2, AtRestType, LocalUpdates
<1>4. b \in LocalType
  <2> HIDE DEF a
  <2> QED BY <1>2, <1>3, LocalUpdates
<1>5. r \in Reasons \cup {"idle_cleanup"}
  BY <1>2, FieldValues
<1>6. [b EXCEPT !.reason = r] \in LocalType
  <2> HIDE DEF b, r
  <2> QED BY <1>4, <1>5, LocalUpdates
<1>7. TicketOf(t) = [b EXCEPT !.reason = r]
  <2>1. AtRest(t) \in LocalType
    BY AtRestType
  <2> QED BY <2>1 DEF TicketOf, LocalType
<1> QED BY <1>6, <1>7

\* Where a returned slot leads.
LEMMA DeactivateLocals ==
    ASSUME TypeOK, NEW w \in Threads, Deactivate(w)
    PROVE  /\ pc' \in [Threads -> Labels]
           /\ local' \in [Threads -> LocalType]
           /\ timer' \in BOOLEAN
<1>1. CASE AfterSlot(w) = "idle"
  BY <1>1, EndTaskType DEF Deactivate
<1>2. CASE AfterSlot(w) # "idle"
  <2>1. AfterSlot(w) \in Labels
    BY LabelNames DEF AfterSlot
  <2>2. pc' \in [Threads -> Labels]
    BY <1>2, <2>1, GotoType DEF Deactivate
  <2>3. [AtRest(w) EXCEPT !.phase = "run"] \in LocalType
    BY AtRestType, LocalUpdates
  <2>4. PICK l \in LocalType : SetLocal(w, l)
    <3>1. CASE AfterSlot(w) = "rel"
      <4>1. local[w].result # "done"
        BY <3>1 DEF AfterSlot
      <4> QED BY <1>2, <3>1, <4>1, TicketType DEF Deactivate
    <3>2. CASE AfterSlot(w) # "rel" /\ local[w].result = "done"
      BY <1>2, <3>2, <2>3 DEF Deactivate
    <3>3. CASE AfterSlot(w) # "rel" /\ local[w].result # "done"
      BY <1>2, <3>3, AtRestType DEF Deactivate
    <3> QED BY <3>1, <3>2, <3>3
  <2>5. local' \in [Threads -> LocalType]
    BY <2>4, SetLocalType
  <2> QED BY <1>2, <2>2, <2>5 DEF Deactivate, TypeOK
<1> QED BY <1>1, <1>2

\* Loading and inference, inside the slot.
LEMMA UseSlotType ==
    ASSUME TypeInv, NEW w \in Workers, UseSlot(w)
    PROVE  TypeInv'
<1>0. w \in Threads /\ local[w] \in LocalType /\ ctl \in CtlType
  BY ThreadSets DEF TypeInv, TypeOK
<1>1. CASE LoadLock(w)
  BY <1>0, <1>1, GotoType, LabelNames, LocalUpdates
     DEF LoadLock, EndSlot, TypeInv, TypeOK
<1>2. CASE FreshAdmission(w)
  BY <1>0, <1>2, GotoType, LabelNames, ImmediateAdmissionOK,
     PolledObservationsAre
     DEF FreshAdmission, TypeInv, TypeOK, CtlOK
<1>3. CASE DenyLoad(w)
  BY <1>0, <1>3, GotoType, LabelNames, LocalUpdates, CloseBarrierType
     DEF DenyLoad, EndSlot, TypeInv, TypeOK, CtlOK
<1>4. CASE LoadOk(w)
  <2>1. pc' \in [Threads -> Labels]
    BY <1>0, <1>4, GotoType, LabelNames DEF LoadOk, EndSlot, TypeInv
  <2>2. local' \in [Threads -> LocalType]
    BY <1>0, <1>4, LocalUpdates DEF LoadOk, EndSlot, TypeInv, TypeOK
  <2>3. loadFails' \in 0 .. 2 /\ loadLock' = Free /\ model' = TRUE
    BY <1>4 DEF LoadOk
  <2> QED BY <1>4, <2>1, <2>2, <2>3 DEF LoadOk, TypeInv, TypeOK
<1>5. CASE LoadOutOfMemory(w)
  <2>1. pc' \in [Threads -> Labels]
    BY <1>0, <1>5, GotoType, LabelNames DEF LoadOutOfMemory, EndSlot, TypeInv
  <2>2. local' \in [Threads -> LocalType]
    BY <1>0, <1>5, LocalUpdates DEF LoadOutOfMemory, EndSlot, TypeInv, TypeOK
  <2>3. loadFails' \in 0 .. 2 /\ loadLock' = Free
    BY <1>5 DEF LoadOutOfMemory, TypeInv, TypeOK
  <2> QED BY <1>5, <2>1, <2>2, <2>3, CloseBarrierType
          DEF LoadOutOfMemory, TypeInv, TypeOK, CtlOK
<1>6. CASE LoadError(w)
  BY <1>0, <1>6, GotoType, LabelNames, LocalUpdates
     DEF LoadError, EndSlot, TypeInv, TypeOK
<1>7. CASE Callback(w)
  <2>1. CtlOK(ctl')
    BY <1>7, PollOK, PolledObservationsAre DEF Callback, TypeInv
  <2>2. pc' \in [Threads -> Labels]
    BY <1>0, <1>7, GotoType, LabelNames DEF Callback, TypeInv
  <2> QED BY <1>7, <2>1, <2>2 DEF Callback, TypeInv, TypeOK, CtlOK
<1>8. CASE CallbackGate(w)
  BY <1>0, <1>8, GotoType, LabelNames DEF CallbackGate, TypeInv, TypeOK, shared
<1>9. CASE CallbackClose(w)
  BY <1>0, <1>9, GotoType, LabelNames, CloseBarrierType
     DEF CallbackClose, TypeInv, TypeOK, CtlOK
<1>10. CASE Yield(w)
  BY <1>0, <1>10, GotoType, LabelNames, LocalUpdates, CloseBarrierType,
     CtlFields, FieldValues
     DEF Yield, TypeInv, TypeOK, CtlOK
<1>11. CASE InferOutOfMemory(w)
  BY <1>0, <1>11, GotoType, LabelNames, LocalUpdates, CloseBarrierType
     DEF InferOutOfMemory, EndSlot, TypeInv, TypeOK, CtlOK
<1>12. CASE InferReturn(w)
  BY <1>0, <1>12, GotoType, LabelNames, LocalUpdates
     DEF InferReturn, EndSlot, TypeInv, TypeOK, shared
<1>13. CASE ReleasePermit(w)
  BY <1>0, <1>13, GotoType, LabelNames DEF ReleasePermit, FreeOf, TypeInv, TypeOK
<1>14. CASE Deactivate(w)
  <2>1. active' \in Nat
    BY <1>14 DEF Deactivate, TypeInv, TypeOK
  <2>2. /\ pc' \in [Threads -> Labels]
        /\ local' \in [Threads -> LocalType]
        /\ timer' \in BOOLEAN
    BY <1>0, <1>14, DeactivateLocals DEF TypeInv
  <2> QED BY <1>14, <2>1, <2>2 DEF Deactivate, TypeInv, TypeOK
<1> QED
  BY <1>1, <1>2, <1>3, <1>4, <1>5, <1>6, <1>7, <1>8, <1>9, <1>10, <1>11,
     <1>12, <1>13, <1>14 DEF UseSlot

\* The segmented caller's commit check.
LEMMA CommitType ==
    ASSUME TypeInv, NEW w \in Workers, Commit(w)
    PROVE  TypeInv'
<1>0. w \in Threads /\ local[w] \in LocalType /\ ctl \in CtlType
  BY ThreadSets DEF TypeInv, TypeOK
<1>1. CASE CommitSource(w)
  <2>1. (IF closed THEN relGen - 1 ELSE relGen) \in Nat \cup {-1}
    BY DEF TypeInv, TypeOK
  <2>2. local' \in [Threads -> LocalType]
    BY <1>0, <1>1, <2>1, LocalUpdates DEF CommitSource, TypeInv, TypeOK
  <2> QED BY <1>0, <1>1, <2>2, GotoType, LabelNames
          DEF CommitSource, TypeInv, TypeOK, shared
<1>2. CASE CommitCheck(w)
  <2>1. CtlOK(ctl')
    BY <1>2, PollOK, PolledObservationsAre DEF CommitCheck, TypeInv
  <2>2. /\ pc' \in [Threads -> Labels]
        /\ local' \in [Threads -> LocalType]
        /\ timer' \in BOOLEAN
    <3>1. CASE EndTask(w)
      BY <1>0, <3>1, EndTaskType DEF TypeInv
    <3>2. CASE ~EndTask(w)
      BY <1>0, <1>2, <3>2, GotoType, LabelNames, SetLocalType, AtRestType
         DEF CommitCheck, TypeInv, TypeOK
    <3> QED BY <3>1, <3>2
  <2> QED BY <1>2, <2>1, <2>2 DEF CommitCheck, TypeInv, TypeOK, CtlOK
<1>3. CASE CommitReject(w)
  <2>1. (IF ctl.reason = "none" THEN "other" ELSE ctl.reason) \in Reasons
    BY <1>0, CtlFields, FieldValues
  <2>2. [local[w] EXCEPT !.result = "commit"] \in LocalType
    BY <1>0, LocalUpdates
  <2>3. local' \in [Threads -> LocalType]
    BY <1>0, <1>3, <2>1, <2>2, LocalUpdates DEF CommitReject, TypeInv, TypeOK
  <2> QED BY <1>0, <1>3, <2>3, GotoType, LabelNames, CloseBarrierType
          DEF CommitReject, TypeInv, TypeOK, CtlOK
<1> QED BY <1>1, <1>2, <1>3 DEF Commit

\* A thread leaves the release it asked for.
LEMMA LeaveReleaseType ==
    ASSUME TypeOK, NEW t \in Threads, NEW failed, NEW next \in Labels,
           LeaveRelease(t, failed, next)
    PROVE  /\ pc' \in [Threads -> Labels]
           /\ local' \in [Threads -> LocalType]
           /\ timer' \in BOOLEAN
<1>1. CASE failed
  BY <1>1, RaiseType DEF LeaveRelease
<1>2. CASE ~failed
  <2>1. local[t].result \in {"none", "done", "stale", "capacity", "loadfail",
                             "unhealthy", "pressure", "alloc", "commit", "error"}
    BY LocalFields DEF TypeOK
  <2>2. [AtRest(t) EXCEPT !.result = local[t].result] \in LocalType
    BY <2>1, AtRestType, LocalUpdates
  <2> QED BY <1>2, <2>2, GotoType, SetLocalType DEF LeaveRelease, TypeOK
<1> QED BY <1>1, <1>2

\* Appending to the transitions, and completing one, keep their type.
LEMMA TransitionsType ==
    ASSUME TypeOK
    PROVE  /\ \A g \in Nat :
                Append(transitions, [gen |-> g, complete |-> FALSE,
                                     failed |-> FALSE]) \in Seq(Transition)
           /\ \A i \in Nat, f \in BOOLEAN :
                [transitions EXCEPT ![i].complete = TRUE, ![i].failed = f]
                    \in Seq(Transition)
<1>1. transitions \in Seq(Transition)
  BY DEF TypeOK
<1>2. ASSUME NEW g \in Nat
      PROVE  Append(transitions, [gen |-> g, complete |-> FALSE,
                                  failed |-> FALSE]) \in Seq(Transition)
  BY <1>1 DEF Transition
<1>3. ASSUME NEW i \in Nat, NEW f \in BOOLEAN
      PROVE  [transitions EXCEPT ![i].complete = TRUE, ![i].failed = f]
                 \in Seq(Transition)
  <2> DEFINE n == [transitions EXCEPT ![i].complete = TRUE, ![i].failed = f]
  <2>1. transitions \in [1 .. Len(transitions) -> Transition]
    BY <1>1, LenProperties
  <2>2. CASE i \in 1 .. Len(transitions)
    <3> DEFINE e == [[transitions[i] EXCEPT !.complete = TRUE] EXCEPT !.failed = f]
    <3>1. transitions[i] \in Transition
      BY <2>1, <2>2
    <3>2. e \in Transition
      BY <3>1 DEF Transition
    <3>3. n = [transitions EXCEPT ![i] = e]
      BY <2>1, <2>2
    <3> HIDE DEF e, n
    <3>4. n \in Seq(Transition)
      BY <1>1, <2>2, <3>2, <3>3, ExceptSeq
    <3> QED BY <3>4 DEF n
  <2>3. CASE i \notin 1 .. Len(transitions)
    <3>1. n = transitions
      BY <2>1, <2>3
    <3> QED BY <1>1, <3>1
  <2> QED BY <2>2, <2>3
<1> QED BY <1>2, <1>3

\* Releasing, by any thread.
LEMMA ReleaseType ==
    ASSUME TypeInv, NEW t \in Threads, Release(t)
    PROVE  TypeInv'
<1>0. local[t] \in LocalType /\ ctl \in CtlType /\ TypeOK /\ CtlOK(ctl)
  BY DEF TypeInv, TypeOK
<1>1. CASE JoinRelease(t)
  <2>1. Len(transitions) \in Nat
    BY <1>0 DEF TypeOK
  <2> QED BY <1>0, <1>1, <2>1, GotoType, LabelNames, LocalUpdates
          DEF JoinRelease, TypeInv, TypeOK, shared
<1>2. CASE OwnRelease(t)
  <2>1. Len(transitions) + 1 \in Nat /\ NextGeneration \in Nat
    BY <1>0 DEF TypeOK, NextGeneration
  <2>2. transitions' \in Seq(Transition)
    BY <1>0, <1>2, <2>1, TransitionsType DEF OwnRelease
  <2>3. local' \in [Threads -> LocalType]
    BY <1>0, <1>2, <2>1, LocalUpdates DEF OwnRelease, TypeOK
  <2>4. pc' \in [Threads -> Labels]
    BY <1>0, <1>2, GotoType, LabelNames DEF OwnRelease
  <2> QED BY <1>0, <1>2, <2>1, <2>2, <2>3, <2>4 DEF OwnRelease, TypeInv, TypeOK
<1>3. CASE DrainPermit(t)
  BY <1>0, <1>3, GotoType, LabelNames DEF DrainPermit, TypeInv, TypeOK
<1>4. CASE ReleaseLock(t)
  BY <1>0, <1>4, GotoType, LabelNames, LocalUpdates
     DEF ReleaseLock, TypeInv, TypeOK
<1>5. ReleaseReason(t) \in Reasons
  BY <1>0, LocalFields, FieldValues DEF ReleaseReason
<1>6. CASE Unload(t)
  BY <1>0, <1>5, <1>6, GotoType, LabelNames, MarkReleasedOK
     DEF Unload, TypeInv, TypeOK, CtlOK
<1>7. CASE UnloadFails(t)
  BY <1>0, <1>5, <1>7, GotoType, LabelNames, MarkReleasedOK
     DEF UnloadFails, TypeInv, TypeOK, CtlOK
<1>8. CASE LatchFailure(t)
  BY <1>0, <1>8, GotoType, LabelNames, LocalUpdates, LatchReleaseFailureOK
     DEF LatchFailure, TypeInv, TypeOK, CtlOK
<1>9. CASE ReturnPermits(t)
  BY <1>0, <1>9, GotoType, LabelNames DEF ReturnPermits, FreeOf, TypeInv, TypeOK
<1>10. AfterRelease(t) \in Labels /\ Home(t) \in Labels
  BY LabelNames DEF AfterRelease, Home
<1>11. CASE FinishRelease(t)
  <2>1. local[t].tx \in Nat /\ local[t].failed \in BOOLEAN
    BY <1>0, LocalFields
  <2>2. transitions' \in Seq(Transition)
    BY <1>0, <1>11, <2>1, TransitionsType DEF FinishRelease
  <2>3. (IF local[t].aborted THEN "abortReopen" ELSE AfterRelease(t)) \in Labels
    BY <1>10, LabelNames
  <2>4. /\ pc' \in [Threads -> Labels]
        /\ local' \in [Threads -> LocalType]
        /\ timer' \in BOOLEAN
    BY <1>0, <1>11, <2>3, LeaveReleaseType DEF FinishRelease
  <2> QED BY <1>0, <1>11, <2>2, <2>4 DEF FinishRelease, TypeInv, TypeOK
<1>12. CASE Joined(t)
  <2>1. /\ pc' \in [Threads -> Labels]
        /\ local' \in [Threads -> LocalType]
        /\ timer' \in BOOLEAN
    BY <1>0, <1>10, <1>12, LeaveReleaseType DEF Joined
  <2> QED BY <1>0, <1>12, <2>1 DEF Joined, TypeInv, TypeOK
<1>13. CASE AbortReopen(t)
  <2>1. CtlOK(ctl') /\ closed' \in BOOLEAN
    BY <1>0, <1>13, OpenIfNormalOK DEF AbortReopen, Reopen, TypeOK
  <2>2. pc' \in [Threads -> Labels]
    BY <1>0, <1>10, <1>13, GotoType DEF AbortReopen
  <2> QED BY <1>0, <1>13, <2>1, <2>2 DEF AbortReopen, TypeInv, TypeOK, CtlOK
<1> QED
  BY <1>1, <1>2, <1>3, <1>4, <1>6, <1>7, <1>8, <1>9, <1>11, <1>12, <1>13
     DEF Release

\* Waiting for recovery, by a worker.
LEMMA WaitRecoveryType ==
    ASSUME TypeInv, NEW w \in Workers, WaitRecovery(w)
    PROVE  TypeInv'
<1>0. w \in Threads /\ local[w] \in LocalType /\ ctl \in CtlType
      /\ TypeOK /\ CtlOK(ctl)
  BY ThreadSets DEF TypeInv, TypeOK
<1>1. CASE Quarantine(w)
  BY <1>0, <1>1, RaiseType DEF Quarantine, TypeInv, TypeOK
<1>2. CASE RecoverRaise(w)
  BY <1>0, <1>2, RaiseType DEF RecoverRaise, TypeInv, TypeOK
<1>3. CASE Recover(w)
  BY <1>0, <1>3, GotoType, LabelNames DEF Recover, TypeInv, TypeOK, shared
<1>4. CASE EnterWait(w)
  <2>1. ctl.state \in ControllerStates
    BY <1>0, CtlFields
  <2>2. (CASE ctl.state = "normal" -> "reopen"
           [] ctl.state = "yielding" -> "ack"
           [] ctl.state = "recovering" -> "wait") \in Labels
    BY <2>1, LabelNames DEF ControllerStates
  <2>3. pc' \in [Threads -> Labels]
    BY <1>0, <1>4, <2>2, GotoType DEF EnterWait
  <2> QED BY <1>0, <1>4, <2>3 DEF EnterWait, TypeInv, TypeOK, shared
<1>5. CASE AcknowledgeYield(w)
  BY <1>0, <1>5, GotoType, LabelNames, MarkReleasedOK, FieldValues
     DEF AcknowledgeYield, TypeInv, TypeOK, CtlOK
<1>6. CASE WaitCheck(w)
  BY <1>0, <1>6, GotoType, LabelNames DEF WaitCheck, TypeInv, TypeOK, shared
<1>7. CASE PollRecovery(w)
  <2>1. CtlOK(ctl')
    BY <1>0, <1>7, PollOK, PolledObservationsAre DEF PollRecovery
  <2> QED BY <1>0, <1>7, <2>1, GotoType, LabelNames
          DEF PollRecovery, TypeInv, TypeOK, CtlOK
<1>8. CASE ReopenAdmission(w)
  <2>1. CtlOK(ctl') /\ closed' \in BOOLEAN
    BY <1>0, <1>8, OpenIfNormalOK DEF ReopenAdmission, Reopen, TypeOK
  <2>2. /\ pc' \in [Threads -> Labels]
        /\ local' \in [Threads -> LocalType]
        /\ timer' \in BOOLEAN
    <3>1. CASE EndTask(w)
      BY <1>0, <3>1, EndTaskType
    <3>2. CASE ~EndTask(w)
      BY <1>0, <1>8, <3>2, GotoType, LabelNames, SetLocalType, AtRestType
         DEF ReopenAdmission, TypeOK
    <3> QED BY <3>1, <3>2
  <2> QED BY <1>0, <1>8, <2>1, <2>2 DEF ReopenAdmission, TypeInv, TypeOK, CtlOK
<1> QED
  BY <1>1, <1>2, <1>3, <1>4, <1>5, <1>6, <1>7, <1>8 DEF WaitRecovery

\* The idle observer.
LEMMA ObserveType ==
    ASSUME TypeInv, Observe
    PROVE  TypeInv'
<1>0. Observer \in Threads /\ local[Observer] \in LocalType /\ ctl \in CtlType
      /\ TypeOK /\ CtlOK(ctl)
  BY ThreadSets DEF TypeInv, TypeOK
<1>1. CASE ObserveSnapshot
  <2>1. model \in BOOLEAN /\ (active > 0 \/ TransitionActive) \in BOOLEAN
    BY <1>0 DEF TypeOK
  <2>2. [NewLocal EXCEPT !.resident = model,
                         !.busy = active > 0 \/ TransitionActive] \in LocalType
    BY <2>1, NewLocalType, LocalUpdates
  <2> QED BY <1>0, <1>1, <2>2, GotoType, SetLocalType, LabelNames
          DEF ObserveSnapshot, TypeInv, TypeOK, shared
<1>2. AfterPriority \in Labels /\ AfterPoll \in Labels
  BY LabelNames DEF AfterPriority, AfterPoll
<1>3. local[Observer].resident \in BOOLEAN
  BY <1>0 DEF LocalType
<1>4. CASE ObservePrioritySignal
  <2>1. CtlOK(ctl')
    BY <1>0, <1>3, <1>4, PollPriorityOK, PolledObservationsAre
       DEF ObservePrioritySignal
  <2> QED BY <1>0, <1>2, <1>4, <2>1, GotoType, LabelNames
          DEF ObservePrioritySignal, ObserverKeeps, TypeInv, TypeOK, CtlOK
<1>5. CASE ObserverGate
  BY <1>0, <1>2, <1>5, GotoType, LabelNames
     DEF ObserverGate, TypeInv, TypeOK, shared
<1>6. CASE ObserverClose
  BY <1>0, <1>2, <1>6, GotoType, CloseBarrierType
     DEF ObserverClose, ObserverKeeps, TypeInv, TypeOK, CtlOK
<1>7. CASE PollIdleResident
  <2>1. PICK o \in PolledObservations, s \in PolledSamples :
          /\ ctl' = Poll(ctl, o, s, TRUE, FALSE)
          /\ SetLocal(Observer, [NewLocal EXCEPT !.result =
               IF ctl'.state = "yielding" THEN "pressure" ELSE "none"])
    BY <1>7 DEF PollIdleResident
  <2>2. CtlOK(ctl')
    BY <1>0, <2>1, PollOK, PolledObservationsAre
  <2>3. [NewLocal EXCEPT !.result =
           IF ctl'.state = "yielding" THEN "pressure" ELSE "none"] \in LocalType
    BY NewLocalType, LocalUpdates
  <2>4. local' \in [Threads -> LocalType]
    BY <1>0, <2>1, <2>3, SetLocalType
  <2> QED BY <1>0, <1>7, <2>2, <2>4, GotoType, LabelNames
          DEF PollIdleResident, ObserverKeeps, TypeInv, TypeOK, CtlOK
<1>8. CASE ResidentGate
  BY <1>0, <1>2, <1>8, GotoType, LabelNames
     DEF ResidentGate, TypeInv, TypeOK, shared
<1>9. CASE ResidentClose
  BY <1>0, <1>2, <1>9, GotoType, CloseBarrierType
     DEF ResidentClose, ObserverKeeps, TypeInv, TypeOK, CtlOK
<1>10. CASE ObserverRelease
  <2>1. (IF ctl.reason = "none" THEN "other" ELSE ctl.reason) \in Reasons
    BY <1>0, CtlFields, FieldValues
  <2> QED BY <1>0, <1>10, <2>1, GotoType, LabelNames, LocalUpdates
          DEF ObserverRelease, TypeInv, TypeOK, shared
<1>11. CASE PollUnloaded
  <2>1. CtlOK(ctl')
    BY <1>0, <1>11, PollOK, PolledObservationsAre DEF PollUnloaded
  <2> QED BY <1>0, <1>11, <2>1, GotoType, LabelNames
          DEF PollUnloaded, ObserverKeeps, TypeInv, TypeOK, CtlOK
<1>12. CASE UnloadedGate
  BY <1>0, <1>12, GotoType, LabelNames DEF UnloadedGate, TypeInv, TypeOK, shared
<1>13. CASE UnloadedClose
  BY <1>0, <1>13, GotoType, LabelNames, CloseBarrierType
     DEF UnloadedClose, ObserverKeeps, TypeInv, TypeOK, CtlOK
<1>14. CASE ObserverReopen
  <2>1. CtlOK(ctl') /\ closed' \in BOOLEAN
    BY <1>0, <1>14, OpenIfNormalOK DEF ObserverReopen, Reopen, TypeOK
  <2> QED BY <1>0, <1>14, <2>1, GotoType, LabelNames
          DEF ObserverReopen, ObserverKeeps, TypeInv, TypeOK, CtlOK
<1>15. CASE ObserverFailsClosed
  BY <1>0, <1>15, GotoType, LabelNames, CloseBarrierType
     DEF ObserverFailsClosed, ObserverKeeps, TypeInv, TypeOK, CtlOK
<1> QED
  BY <1>1, <1>4, <1>5, <1>6, <1>7, <1>8, <1>9, <1>10, <1>11, <1>12, <1>13,
     <1>14, <1>15 DEF Observe

\* The armed timer fires.
LEMMA CleanupTimerType ==
    ASSUME TypeInv, NEW c \in Cleaners, CleanupTimer(c)
    PROVE  TypeInv'
<1>0. c \in Threads
  BY ThreadSets
<1>1. [NewLocal EXCEPT !.reason = "idle_cleanup"] \in LocalType
  BY NewLocalType, LocalUpdates
<1> QED BY <1>0, <1>1, GotoType, SetLocalType, LabelNames
        DEF CleanupTimer, TypeInv, TypeOK

\* The controller that observed the bootstrap sample is sound.
LEMMA InitType == Init => TypeInv
<1> SUFFICES ASSUME Init PROVE TypeInv
  OBVIOUS
<1>1. CtlOK(ctl)
  <2>1. PICK o \in ForcedObservations, s \in {x \in Samples : x.fits},
             stillFresh \in BOOLEAN :
          ctl = OpenIfNormal(PollPriority(
                   ObserveSample(NewController, s, FALSE, FALSE), o, FALSE),
                   stillFresh)
    BY DEF Init
  <2>2. CtlOK(ObserveSample(NewController, s, FALSE, FALSE))
    BY NewControllerOK, ObserveSampleOK
  <2>3. CtlOK(PollPriority(ObserveSample(NewController, s, FALSE, FALSE),
                           o, FALSE))
    BY <2>2, PollPriorityOK, PolledObservationsAre
  <2> QED BY <2>1, <2>3, OpenIfNormalOK DEF CtlOK
<1>2. ctl \in CtlType /\ closed \in BOOLEAN
  BY <1>1, CtlFields DEF CtlOK, Init
<1>3. transitions \in Seq(Transition)
  BY DEF Init
<1>4. pc \in [Threads -> Labels]
  BY LabelNames DEF Init, Home
<1>5. local \in [Threads -> LocalType]
  BY NewLocalType DEF Init
<1>6. permit \in [Permits -> Threads \cup {Free}]
  BY DEF Init
<1>7. /\ relGen \in Nat /\ active \in Nat /\ loadFails \in 0 .. 2
      /\ loadLock \in Threads \cup {Free}
  BY DEF Init
<1>8. /\ model \in BOOLEAN /\ unhealthy \in BOOLEAN
      /\ cancelled \in BOOLEAN /\ timer \in BOOLEAN
  BY DEF Init
<1> QED BY <1>1, <1>2, <1>3, <1>4, <1>5, <1>6, <1>7, <1>8 DEF TypeInv, TypeOK

\* Every step keeps the types.
LEMMA NextType == TypeInv /\ [Next]_vars => TypeInv'
<1> SUFFICES ASSUME TypeInv, [Next]_vars PROVE TypeInv'
  OBVIOUS
<1>1. CASE \E w \in Workers : Worker(w)
  BY <1>1, TakeSlotType, UseSlotType, CommitType, WaitRecoveryType DEF Worker
<1>2. CASE \E c \in Cleaners : CleanupTimer(c)
  BY <1>2, CleanupTimerType
<1>3. CASE \E t \in Threads : Release(t)
  BY <1>3, ReleaseType
<1>4. CASE Observe
  BY <1>4, ObserveType
<1>5. CASE Shutdown
  BY <1>5 DEF Shutdown, TypeInv, TypeOK
<1>6. CASE UNCHANGED vars
  BY <1>6 DEF vars, shared, TypeInv, TypeOK
<1> QED BY <1>1, <1>2, <1>3, <1>4, <1>5, <1>6 DEF Next

\* TypeInv holds throughout.
LEMMA TypeInvHolds == Spec => []TypeInv
BY InitType, NextType, PTL DEF Spec

\* Every variable of the runtime keeps its type: in particular the
\* controller's counters (healthy samples, GPU misses, priority clears) never
\* leave their bounds, whatever sequence of polls, releases and priority
\* publications the threads of model_runtime.py produce.
THEOREM TypeCorrect == Spec => []TypeOK
BY TypeInvHolds, PTL DEF TypeInv

\* The controller admits work only in NORMAL and only with a recovered
\* priority signal, whichever thread called it last and however many there
\* are (PressureController's check on _admission_open).
THEOREM AdmissionIsRecovered == Spec => []OpenMeansRecovered
<1>1. TypeInv => OpenMeansRecovered
  BY DEF TypeInv, CtlOK, OpenMeansRecovered
<1> QED BY <1>1, TypeInvHolds, PTL

-----------------------------------------------------------------------------
(***************************************************************************)
(* The model stays resident under an inference.                            *)
(*                                                                         *)
(* NoUnloadDuringInference is not inductive: the step that unloads knows   *)
(* nothing of the workers.  What keeps them apart are the permits.  A      *)
(* worker inside its slot holds one, and the thread that unloads holds all *)
(* of them; there is at least one, so the two exclude each other.          *)
(***************************************************************************)

SlotHeld == \A w \in Workers : pc[w] \in InSlot => \E p \in Permits : permit[p] = w
DrainHoldsAll == \A t \in Threads : pc[t] \in Drained => \A p \in Permits : permit[p] = t
SlotInv == SlotHeld /\ DrainHoldsAll /\ NoUnloadDuringInference

\* A step of one thread that leaves the permits and the model alone keeps
\* SlotInv, if it does not enter a slot, the inference or the drained part of
\* a release.
LEMMA PlainStep ==
    ASSUME TypeOK, SlotInv, NEW t \in Threads, NEW label \in Labels,
           Goto(t, label), permit' = permit, model' = model,
           label \in InSlot => pc[t] \in InSlot,
           label \in Drained => pc[t] \in Drained,
           label \in Inferring => pc[t] \in Inferring \/ model
    PROVE  SlotInv'
<1>1. \A u \in Threads : pc'[u] = IF u = t THEN label ELSE pc[u]
  BY DEF Goto, TypeOK
<1>2. SlotHeld'
  BY <1>1, ThreadSets DEF SlotInv, SlotHeld
<1>3. DrainHoldsAll'
  BY <1>1 DEF SlotInv, DrainHoldsAll
<1>4. NoUnloadDuringInference'
  BY <1>1, ThreadSets DEF SlotInv, NoUnloadDuringInference
<1> QED BY <1>2, <1>3, <1>4 DEF SlotInv

\* The labels the plain steps go to.
LEMMA OutsideSlot ==
    /\ \A l \in {"idle", "popped", "admit", "enter", "snap", "permit", "deact", "commit",
                 "rebind", "commitClose", "recover", "enterWait", "ack", "wait",
                 "poll", "reopen", "rel", "drain", "relDone", "join",
                 "abortReopen", "quarantine", "observe", "oPriority", "oGate",
                 "oShut", "oPoll", "oPolled", "oClose", "oRelease",
                 "oIdlePoll", "oIdleGate", "oReopen", "oIdleShut", "oFail"} :
          l \in Labels /\ l \notin InSlot /\ l \notin Drained /\ l \notin Inferring
    /\ \A l \in {"valid", "lock", "fresh", "deny", "load", "unslot"} :
          l \in Labels /\ l \in InSlot /\ l \notin Drained /\ l \notin Inferring
    /\ \A l \in {"infer", "gate", "shut", "yield"} :
          l \in Labels /\ l \in InSlot /\ l \notin Drained /\ l \in Inferring
    /\ \A l \in {"relLock", "unload", "latch", "relFree"} :
          l \in Labels /\ l \notin InSlot /\ l \in Drained /\ l \notin Inferring
BY LabelNames DEF InSlot, Drained, Inferring

\* A permit that is free, or held by a worker in its slot, is not held by
\* anybody who has drained.
LEMMA DrainedExcludes ==
    ASSUME TypeOK, SlotInv, NEW t \in Threads, pc[t] \in Drained
    PROVE  /\ \A p \in Permits : permit[p] # Free
           /\ \A w \in Workers : pc[w] \notin InSlot
<1>1. \A p \in Permits : permit[p] = t
  BY DEF SlotInv, DrainHoldsAll
<1>2. t # Free
  BY RuntimeAssumption
<1>3. ASSUME NEW w \in Workers, pc[w] \in InSlot
      PROVE  FALSE
  <2>1. PICK p \in Permits : permit[p] = w
    BY <1>3 DEF SlotInv, SlotHeld
  <2>2. w = t
    BY <1>1, <2>1
  <2> QED BY <1>3, <2>2 DEF InSlot, Drained, Inferring
<1> QED BY <1>1, <1>2, <1>3

\* Returning a thread's permits: the thread leaves its slot or its release,
\* and nobody else's permit is touched.
LEMMA FreeStep ==
    ASSUME TypeOK, SlotInv, NEW t \in Threads, NEW label \in Labels,
           Goto(t, label), permit' = FreeOf(t), model' = model,
           label \notin InSlot, label \notin Drained, label \notin Inferring,
           pc[t] \in InSlot \/ pc[t] \in Drained, pc[t] \in InSlot => t \in Workers
    PROVE  SlotInv'
<1>1. \A u \in Threads : pc'[u] = IF u = t THEN label ELSE pc[u]
  BY DEF Goto, TypeOK
<1>2. \A p \in Permits : permit'[p] = IF permit[p] = t THEN Free ELSE permit[p]
  BY DEF FreeOf
<1>3. SlotHeld'
  <2> SUFFICES ASSUME NEW w \in Workers, pc'[w] \in InSlot
               PROVE  \E p \in Permits : permit'[p] = w
    BY DEF SlotHeld
  <2>1. w # t /\ pc[w] \in InSlot
    BY <1>1, ThreadSets
  <2> QED BY <1>2, <2>1 DEF SlotInv, SlotHeld
<1>4. DrainHoldsAll'
  <2> SUFFICES ASSUME NEW u \in Threads, pc'[u] \in Drained
               PROVE  \A p \in Permits : permit'[p] = u
    BY DEF DrainHoldsAll
  <2>1. u # t /\ pc[u] \in Drained
    BY <1>1
  <2> QED BY <1>2, <2>1 DEF SlotInv, DrainHoldsAll
<1>5. NoUnloadDuringInference'
  BY <1>1, ThreadSets DEF SlotInv, NoUnloadDuringInference
<1> QED BY <1>3, <1>4, <1>5 DEF SlotInv

\* Taking a slot.
LEMMA TakeSlotKeeps ==
    ASSUME TypeOK, SlotInv, NEW w \in Workers, TakeSlot(w)
    PROVE  SlotInv'
<1>0. w \in Threads
  BY ThreadSets
<1>1. CASE Pop(w)
  BY <1>0, <1>1, PlainStep, OutsideSlot
     DEF Pop, shared
<1>2. CASE Register(w)
  BY <1>0, <1>2, PlainStep, OutsideSlot
     DEF Register, shared
<1>3. CASE AdmitRaise(w)
  BY <1>0, <1>3, PlainStep, OutsideSlot
     DEF AdmitRaise, Raise, EndTask
<1>4. CASE Admit(w)
  BY <1>0, <1>4, PlainStep, OutsideSlot
     DEF Admit
<1>5. CASE AdmitRecover(w)
  BY <1>0, <1>5, PlainStep, OutsideSlot
     DEF AdmitRecover, shared
<1>6. CASE Snap(w)
  BY <1>0, <1>6, PlainStep, OutsideSlot
     DEF Snap, shared
<1>7. CASE AcquirePermit(w)
  <2>1. PICK p \in Permits : permit[p] = Free /\ permit' = [permit EXCEPT ![p] = w]
    BY <1>7 DEF AcquirePermit, HeldBy
  <2>2. \A u \in Threads : pc[u] \notin Drained
    BY <2>1, DrainedExcludes
  <2>3. \A u \in Threads : pc'[u] = IF u = w THEN "valid" ELSE pc[u]
    BY <1>7 DEF AcquirePermit, Goto, TypeOK
  <2>4. permit'[p] = w /\ \A q \in Permits : q # p => permit'[q] = permit[q]
    BY <2>1 DEF TypeOK
  <2>5. SlotHeld'
    <3> SUFFICES ASSUME NEW v \in Workers, pc'[v] \in InSlot
                 PROVE  \E q \in Permits : permit'[q] = v
      BY DEF SlotHeld
    <3>1. CASE v = w
      BY <2>4, <3>1
    <3>2. CASE v # w
      <4>1. PICK q \in Permits : permit[q] = v
        BY <2>3, <3>2, ThreadSets DEF SlotInv, SlotHeld
      <4>2. q # p
        BY <2>1, <4>1, RuntimeAssumption, ThreadSets
      <4> QED BY <2>4, <4>1, <4>2
    <3> QED BY <3>1, <3>2
  <2>6. DrainHoldsAll'
    BY <2>2, <2>3, OutsideSlot DEF DrainHoldsAll
  <2>7. NoUnloadDuringInference'
    BY <1>7, <2>3, ThreadSets, OutsideSlot
       DEF AcquirePermit, SlotInv, NoUnloadDuringInference
  <2> QED BY <2>5, <2>6, <2>7 DEF SlotInv
<1>8. CASE PermitTimeout(w)
  BY <1>0, <1>8, PlainStep, OutsideSlot
     DEF PermitTimeout, shared
<1>9. CASE Validate(w)
  <2>1. CASE SlotValid(w)
    BY <1>0, <1>9, <2>1, PlainStep, OutsideSlot DEF Validate
  <2>2. CASE ~SlotValid(w)
    BY <1>0, <1>9, <2>2, FreeStep, OutsideSlot DEF Validate
  <2> QED BY <2>1, <2>2
<1>10. CASE AdmitCheck(w)
  BY <1>0, <1>10, PlainStep, OutsideSlot
     DEF AdmitCheck, shared
<1>11. CASE AdmitWait(w)
  BY <1>0, <1>11, PlainStep, OutsideSlot
     DEF AdmitWait, shared
<1> QED
  BY <1>1, <1>2, <1>3, <1>4, <1>5, <1>6, <1>7, <1>8, <1>9, <1>10, <1>11
     DEF TakeSlot

\* Loading and inference.
LEMMA UseSlotKeeps ==
    ASSUME TypeOK, SlotInv, NEW w \in Workers, UseSlot(w)
    PROVE  SlotInv'
<1>0. w \in Threads
  BY ThreadSets
<1>1. CASE LoadLock(w)
  BY <1>0, <1>1, PlainStep, OutsideSlot
     DEF LoadLock, EndSlot
<1>2. CASE FreshAdmission(w)
  BY <1>0, <1>2, PlainStep, OutsideSlot
     DEF FreshAdmission
<1>3. CASE DenyLoad(w)
  BY <1>0, <1>3, PlainStep, OutsideSlot
     DEF DenyLoad, EndSlot
<1>4. CASE LoadOk(w)
  <2>1. PICK label \in {"unslot", "infer"} : Goto(w, label)
    BY <1>4 DEF LoadOk, EndSlot
  <2>2. \A u \in Threads : pc'[u] = IF u = w THEN label ELSE pc[u]
    BY <2>1 DEF Goto, TypeOK
  <2>3. permit' = permit /\ model' = TRUE /\ pc[w] = "load"
    BY <1>4 DEF LoadOk
  <2>4. SlotHeld'
    BY <2>2, <2>3, ThreadSets, OutsideSlot DEF SlotInv, SlotHeld
  <2>5. DrainHoldsAll'
    BY <2>2, <2>3, OutsideSlot DEF SlotInv, DrainHoldsAll
  <2> QED BY <2>3, <2>4, <2>5 DEF SlotInv, NoUnloadDuringInference
<1>5. CASE LoadOutOfMemory(w)
  BY <1>0, <1>5, PlainStep, OutsideSlot
     DEF LoadOutOfMemory, EndSlot
<1>6. CASE LoadError(w)
  BY <1>0, <1>6, PlainStep, OutsideSlot
     DEF LoadError, EndSlot
<1>7. CASE Callback(w)
  BY <1>0, <1>7, PlainStep, OutsideSlot
     DEF Callback
<1>8. CASE CallbackGate(w)
  BY <1>0, <1>8, PlainStep, OutsideSlot
     DEF CallbackGate, shared
<1>9. CASE CallbackClose(w)
  BY <1>0, <1>9, PlainStep, OutsideSlot
     DEF CallbackClose
<1>10. CASE Yield(w)
  BY <1>0, <1>10, PlainStep, OutsideSlot
     DEF Yield
<1>11. CASE InferOutOfMemory(w)
  BY <1>0, <1>11, PlainStep, OutsideSlot
     DEF InferOutOfMemory, EndSlot
<1>12. CASE InferReturn(w)
  BY <1>0, <1>12, PlainStep, OutsideSlot
     DEF InferReturn, EndSlot, shared
<1>13. CASE ReleasePermit(w)
  BY <1>0, <1>13, FreeStep, OutsideSlot DEF ReleasePermit
<1>14. CASE Deactivate(w)
  <2>1. PICK label \in {"idle", "admit", "commit", "recover", "rel"} :
           Goto(w, label)
    BY <1>14 DEF Deactivate, AfterSlot, EndTask
  <2> QED BY <1>0, <1>14, <2>1, PlainStep, OutsideSlot DEF Deactivate
<1> QED
  BY <1>1, <1>2, <1>3, <1>4, <1>5, <1>6, <1>7, <1>8, <1>9, <1>10, <1>11,
     <1>12, <1>13, <1>14 DEF UseSlot

\* The commit check of a segmented caller.
LEMMA CommitKeeps ==
    ASSUME TypeOK, SlotInv, NEW w \in Workers, Commit(w)
    PROVE  SlotInv'
<1>0. w \in Threads
  BY ThreadSets
<1>1. CASE CommitSource(w)
  BY <1>0, <1>1, PlainStep, OutsideSlot
     DEF CommitSource, shared
<1>2. CASE CommitCheck(w)
  <2>1. PICK label \in {"idle", "admit", "commitClose"} : Goto(w, label)
    BY <1>2 DEF CommitCheck, EndTask
  <2> QED BY <1>0, <1>2, <2>1, PlainStep, OutsideSlot DEF CommitCheck
<1>3. CASE CommitReject(w)
  BY <1>0, <1>3, PlainStep, OutsideSlot
     DEF CommitReject
<1> QED
  BY <1>1, <1>2, <1>3 DEF Commit

\* Releasing: the only step that unloads is taken by a thread that drained.
LEMMA ReleaseKeeps ==
    ASSUME TypeOK, SlotInv, NEW t \in Threads, Release(t)
    PROVE  SlotInv'
<1>0. t \in Threads
  OBVIOUS
<1>1. CASE JoinRelease(t)
  BY <1>0, <1>1, PlainStep, OutsideSlot
     DEF JoinRelease, shared
<1>2. CASE OwnRelease(t)
  BY <1>0, <1>2, PlainStep, OutsideSlot
     DEF OwnRelease
<1>3. CASE DrainPermit(t)
  <2>1. PICK p \in Permits :
          /\ permit[p] = Free
          /\ permit' = [permit EXCEPT ![p] = t]
          /\ Goto(t, IF HeldBy(t) \cup {p} = Permits THEN "relLock" ELSE "drain")
    BY <1>3 DEF DrainPermit, HeldBy
  <2>2. \A u \in Threads : pc[u] \notin Drained
    BY <2>1, DrainedExcludes
  <2>3. /\ pc'[t] = IF HeldBy(t) \cup {p} = Permits THEN "relLock" ELSE "drain"
        /\ \A u \in Threads : u # t => pc'[u] = pc[u]
    BY <2>1 DEF Goto, TypeOK
  <2>4. permit'[p] = t /\ \A q \in Permits : q # p => permit'[q] = permit[q]
    BY <2>1 DEF TypeOK
  <2>5. pc'[t] \notin InSlot /\ pc'[t] \notin Inferring
    BY <2>3, OutsideSlot
  <2>6. SlotHeld'
    <3> SUFFICES ASSUME NEW v \in Workers, pc'[v] \in InSlot
                 PROVE  \E q \in Permits : permit'[q] = v
      BY DEF SlotHeld
    <3>1. v # t /\ pc[v] \in InSlot
      BY <2>3, <2>5, ThreadSets
    <3>2. PICK q \in Permits : permit[q] = v
      BY <3>1 DEF SlotInv, SlotHeld
    <3>3. q # p
      BY <2>1, <3>2, RuntimeAssumption, ThreadSets
    <3> QED BY <2>4, <3>2, <3>3
  <2>7. DrainHoldsAll'
    <3> SUFFICES ASSUME NEW u \in Threads, pc'[u] \in Drained,
                        NEW q \in Permits
                 PROVE  permit'[q] = u
      BY DEF DrainHoldsAll
    <3>1. u = t /\ HeldBy(t) \cup {p} = Permits
      BY <2>2, <2>3, OutsideSlot
    <3>2. q # p => permit[q] = t
      BY <3>1 DEF HeldBy
    <3> QED BY <2>4, <3>1, <3>2
  <2>8. NoUnloadDuringInference'
    BY <1>3, <2>3, <2>5, ThreadSets
       DEF DrainPermit, SlotInv, NoUnloadDuringInference
  <2> QED BY <2>6, <2>7, <2>8 DEF SlotInv
<1>4. CASE ReleaseLock(t)
  BY <1>0, <1>4, PlainStep, OutsideSlot
     DEF ReleaseLock
<1>5. CASE Unload(t)
  <2>1. pc[t] = "unload" /\ Goto(t, "relFree") /\ permit' = permit
    BY <1>5 DEF Unload
  <2>2. \A w \in Workers : pc[w] \notin InSlot
    BY <2>1, DrainedExcludes, OutsideSlot
  <2>3. \A u \in Threads : pc'[u] = IF u = t THEN "relFree" ELSE pc[u]
    BY <2>1 DEF Goto, TypeOK
  <2>4. \A w \in Workers : pc'[w] \notin InSlot /\ pc'[w] \notin Inferring
    BY <2>2, <2>3, ThreadSets, OutsideSlot DEF InSlot
  <2>5. DrainHoldsAll'
    BY <2>1, <2>3, OutsideSlot DEF SlotInv, DrainHoldsAll
  <2> QED BY <2>4, <2>5 DEF SlotInv, SlotHeld, NoUnloadDuringInference
<1>6. CASE UnloadFails(t)
  <2>1. pc[t] = "unload" /\ Goto(t, "latch") /\ permit' = permit
    BY <1>6 DEF UnloadFails
  <2>2. \A w \in Workers : pc[w] \notin InSlot
    BY <2>1, DrainedExcludes, OutsideSlot
  <2>3. \A u \in Threads : pc'[u] = IF u = t THEN "latch" ELSE pc[u]
    BY <2>1 DEF Goto, TypeOK
  <2>4. \A w \in Workers : pc'[w] \notin InSlot /\ pc'[w] \notin Inferring
    BY <2>2, <2>3, ThreadSets, OutsideSlot DEF InSlot
  <2>5. DrainHoldsAll'
    BY <2>1, <2>3, OutsideSlot DEF SlotInv, DrainHoldsAll
  <2> QED BY <2>4, <2>5 DEF SlotInv, SlotHeld, NoUnloadDuringInference
<1>7. CASE LatchFailure(t)
  BY <1>0, <1>7, PlainStep, OutsideSlot
     DEF LatchFailure
<1>8. CASE ReturnPermits(t)
  BY <1>0, <1>8, FreeStep, OutsideSlot DEF ReturnPermits
<1>9. CASE FinishRelease(t)
  <2>1. PICK label \in {"idle", "oFail", "observe", "quarantine", "recover",
                        "abortReopen"} : Goto(t, label)
    BY <1>9 DEF FinishRelease, LeaveRelease, Raise, EndTask, AfterRelease, Home
  <2> QED BY <1>0, <1>9, <2>1, PlainStep, OutsideSlot DEF FinishRelease
<1>10. CASE Joined(t)
  <2>1. PICK label \in {"idle", "oFail", "observe", "quarantine", "recover"} :
           Goto(t, label)
    BY <1>10 DEF Joined, LeaveRelease, Raise, EndTask, AfterRelease, Home
  <2> QED BY <1>0, <1>10, <2>1, PlainStep, OutsideSlot DEF Joined
<1>11. CASE AbortReopen(t)
  BY <1>0, <1>11, PlainStep, OutsideSlot
     DEF AbortReopen, Home
<1> QED
  BY <1>1, <1>2, <1>3, <1>4, <1>5, <1>6, <1>7, <1>8, <1>9, <1>10,
     <1>11 DEF Release

\* Waiting for recovery.
LEMMA WaitRecoveryKeeps ==
    ASSUME TypeOK, SlotInv, NEW w \in Workers, WaitRecovery(w)
    PROVE  SlotInv'
<1>0. w \in Threads
  BY ThreadSets
<1>1. CASE Quarantine(w)
  BY <1>0, <1>1, PlainStep, OutsideSlot
     DEF Quarantine, Raise, EndTask
<1>2. CASE RecoverRaise(w)
  BY <1>0, <1>2, PlainStep, OutsideSlot
     DEF RecoverRaise, Raise, EndTask
<1>3. CASE Recover(w)
  BY <1>0, <1>3, PlainStep, OutsideSlot
     DEF Recover, shared
<1>4. CASE EnterWait(w)
  <2>1. ctl.state \in ControllerStates
    BY CtlFields DEF TypeOK
  <2>2. PICK label \in {"reopen", "ack", "wait"} : Goto(w, label)
    BY <1>4, <2>1 DEF EnterWait, ControllerStates
  <2> QED BY <1>0, <1>4, <2>2, PlainStep, OutsideSlot DEF EnterWait, shared
<1>5. CASE AcknowledgeYield(w)
  BY <1>0, <1>5, PlainStep, OutsideSlot
     DEF AcknowledgeYield
<1>6. CASE WaitCheck(w)
  BY <1>0, <1>6, PlainStep, OutsideSlot
     DEF WaitCheck, shared
<1>7. CASE PollRecovery(w)
  BY <1>0, <1>7, PlainStep, OutsideSlot
     DEF PollRecovery
<1>8. CASE ReopenAdmission(w)
  <2>1. PICK label \in {"recover", "admit", "idle"} : Goto(w, label)
    BY <1>8 DEF ReopenAdmission, EndTask
  <2> QED BY <1>0, <1>8, <2>1, PlainStep, OutsideSlot DEF ReopenAdmission
<1> QED
  BY <1>1, <1>2, <1>3, <1>4, <1>5, <1>6, <1>7, <1>8 DEF WaitRecovery

\* The idle observer.
LEMMA ObserveKeeps ==
    ASSUME TypeOK, SlotInv, Observe
    PROVE  SlotInv'
<1>0. Observer \in Threads
  BY ThreadSets
<1>1. CASE ObserveSnapshot
  BY <1>0, <1>1, PlainStep, OutsideSlot
     DEF ObserveSnapshot, shared
<1>2. CASE ObservePrioritySignal
  BY <1>0, <1>2, PlainStep, OutsideSlot
     DEF ObservePrioritySignal, AfterPriority, ObserverKeeps
<1>3. CASE ObserverGate
  BY <1>0, <1>3, PlainStep, OutsideSlot
     DEF ObserverGate, AfterPriority, shared
<1>4. CASE ObserverClose
  BY <1>0, <1>4, PlainStep, OutsideSlot
     DEF ObserverClose, AfterPriority, ObserverKeeps
<1>5. CASE PollIdleResident
  BY <1>0, <1>5, PlainStep, OutsideSlot
     DEF PollIdleResident, ObserverKeeps
<1>6. CASE ResidentGate
  BY <1>0, <1>6, PlainStep, OutsideSlot
     DEF ResidentGate, AfterPoll, shared
<1>7. CASE ResidentClose
  BY <1>0, <1>7, PlainStep, OutsideSlot
     DEF ResidentClose, AfterPoll, ObserverKeeps
<1>8. CASE ObserverRelease
  BY <1>0, <1>8, PlainStep, OutsideSlot
     DEF ObserverRelease, shared
<1>9. CASE PollUnloaded
  BY <1>0, <1>9, PlainStep, OutsideSlot
     DEF PollUnloaded, ObserverKeeps
<1>10. CASE UnloadedGate
  BY <1>0, <1>10, PlainStep, OutsideSlot
     DEF UnloadedGate, shared
<1>11. CASE UnloadedClose
  BY <1>0, <1>11, PlainStep, OutsideSlot
     DEF UnloadedClose, ObserverKeeps
<1>12. CASE ObserverReopen
  BY <1>0, <1>12, PlainStep, OutsideSlot
     DEF ObserverReopen, ObserverKeeps
<1>13. CASE ObserverFailsClosed
  BY <1>0, <1>13, PlainStep, OutsideSlot
     DEF ObserverFailsClosed, ObserverKeeps
<1> QED
  BY <1>1, <1>2, <1>3, <1>4, <1>5, <1>6, <1>7, <1>8, <1>9, <1>10,
     <1>11, <1>12, <1>13 DEF Observe

\* The cleanup timer.
LEMMA CleanupTimerKeeps ==
    ASSUME TypeOK, SlotInv, NEW c \in Cleaners, CleanupTimer(c)
    PROVE  SlotInv'
<1>0. c \in Threads
  BY ThreadSets
<1>1. CASE UNCHANGED pc
  BY <1>1 DEF CleanupTimer, SlotInv, SlotHeld, DrainHoldsAll,
              NoUnloadDuringInference
<1>2. CASE Goto(c, "rel")
  BY <1>0, <1>2, PlainStep, OutsideSlot DEF CleanupTimer
<1> QED BY <1>1, <1>2 DEF CleanupTimer

\* A worker inside its slot holds a permit, and a thread past its drain holds
\* every one of them.
LEMMA SlotInvHolds == Spec => []SlotInv
<1>1. Init => SlotInv
  <2> SUFFICES ASSUME Init PROVE SlotInv
    OBVIOUS
  <2>1. \A t \in Threads : pc[t] \in {"observe", "idle"}
    BY DEF Init, Home
  <2> QED BY <2>1, ThreadSets, OutsideSlot
          DEF SlotInv, SlotHeld, DrainHoldsAll, NoUnloadDuringInference
<1>2. TypeOK /\ SlotInv /\ [Next]_vars => SlotInv'
  <2> SUFFICES ASSUME TypeOK, SlotInv, [Next]_vars PROVE SlotInv'
    OBVIOUS
  <2>1. CASE \E w \in Workers : Worker(w)
    BY <2>1, TakeSlotKeeps, UseSlotKeeps, CommitKeeps, WaitRecoveryKeeps
       DEF Worker
  <2>2. CASE \E c \in Cleaners : CleanupTimer(c)
    BY <2>2, CleanupTimerKeeps
  <2>3. CASE \E t \in Threads : Release(t)
    BY <2>3, ReleaseKeeps
  <2>4. CASE Observe
    BY <2>4, ObserveKeeps
  <2>5. CASE Shutdown \/ UNCHANGED vars
    BY <2>5 DEF Shutdown, vars, shared, SlotInv, SlotHeld, DrainHoldsAll,
                NoUnloadDuringInference
  <2> QED BY <2>1, <2>2, <2>3, <2>4, <2>5 DEF Next
<1> QED BY <1>1, <1>2, TypeCorrect, PTL DEF Spec

\* The model is never unloaded under an inference, with any number of
\* workers, permits and cleanup timers: _release_model_once drains every
\* permit before it unloads, and a worker keeps its permit until
\* runtime.model.transcribe has returned.
THEOREM InferenceKeepsModel == Spec => []NoUnloadDuringInference
BY SlotInvHolds, PTL DEF SlotInv


-----------------------------------------------------------------------------
(***************************************************************************)
(* Quarantine.  The barrier may be reopened by a worker that had passed    *)
(* its checks before, so the argument is about the cancel event, which the *)
(* last check of _acquire_inference_slot reads under the condition.        *)
(***************************************************************************)

\* A quarantine has cancelled every waiter.
Cancels == unhealthy => cancelled

\* Nothing clears the cancel event, and only a quarantine sets unhealthy.
LEMMA CancelsHolds == Spec => []Cancels
<1>1. Init => Cancels
  BY DEF Init, Cancels
<1>2. Cancels /\ [Next]_vars => Cancels'
  <2> SUFFICES ASSUME Cancels, [Next]_vars PROVE Cancels'
    OBVIOUS
  <2>1. ASSUME NEW w \in Workers, TakeSlot(w) PROVE Cancels'
    BY <2>1 DEF Cancels, TakeSlot, Pop, Register, AdmitCheck, AdmitRaise, Admit,
       AdmitRecover, AdmitWait, Snap, AcquirePermit, PermitTimeout, Validate,
       shared
  <2>2. ASSUME NEW w \in Workers, UseSlot(w) PROVE Cancels'
    BY <2>2 DEF Cancels, UseSlot, LoadLock, FreshAdmission, DenyLoad, LoadOk,
       LoadOutOfMemory, LoadError, Callback, CallbackGate, CallbackClose,
       Yield, InferOutOfMemory, InferReturn, ReleasePermit, Deactivate, shared
  <2>3. ASSUME NEW w \in Workers, Commit(w) PROVE Cancels'
    BY <2>3 DEF Cancels, Commit, CommitSource, CommitCheck, CommitReject, shared
  <2>4. ASSUME NEW w \in Workers, WaitRecovery(w) PROVE Cancels'
    BY <2>4 DEF Cancels, WaitRecovery, Quarantine, RecoverRaise, Recover,
       EnterWait, AcknowledgeYield, WaitCheck, PollRecovery, ReopenAdmission,
       shared
  <2>5. ASSUME NEW t \in Threads, Release(t) PROVE Cancels'
    BY <2>5 DEF Cancels, Release, JoinRelease, OwnRelease, DrainPermit,
       ReleaseLock, Unload, UnloadFails, LatchFailure, ReturnPermits,
       FinishRelease, Joined, AbortReopen, shared
  <2>6. ASSUME Observe PROVE Cancels'
    BY <2>6 DEF Cancels, Observe, ObserveSnapshot, ObservePrioritySignal,
       ObserverGate, ObserverClose, PollIdleResident, ResidentGate,
       ResidentClose, ObserverRelease, PollUnloaded, UnloadedGate,
       UnloadedClose, ObserverReopen, ObserverFailsClosed, ObserverKeeps, shared
  <2>7. ASSUME NEW c \in Cleaners, CleanupTimer(c) PROVE Cancels'
    BY <2>7 DEF Cancels, CleanupTimer
  <2>8. CASE Shutdown
    BY <2>8 DEF Cancels, Shutdown
  <2>9. CASE UNCHANGED vars
    BY <2>9 DEF Cancels, vars, shared
  <2> QED BY <2>1, <2>2, <2>3, <2>4, <2>5, <2>6, <2>7, <2>8, <2>9 DEF Next, Worker
<1> QED BY <1>1, <1>2, PTL DEF Spec

\* No worker gets a slot after a quarantine, however many workers passed
\* wait_for_model_admission before it: the second check of
\* _acquire_inference_slot finds the cancel event set, and no other step
\* leads into the slot.
THEOREM QuarantineHolds == Spec => QuarantineIsFinal
<1>1. TypeOK /\ Cancels /\ [Next]_vars =>
        [unhealthy => \A w \in Workers : pc[w] = "valid" => pc'[w] # "lock"]_vars
  <2> SUFFICES ASSUME TypeOK, Cancels, Next, unhealthy,
                      NEW w \in Workers, pc[w] = "valid"
               PROVE  pc'[w] # "lock"
    OBVIOUS
  <2>0. cancelled /\ w \in Threads /\ pc \in [Threads -> Labels]
        /\ Workers \subseteq Threads /\ Observer \in Threads \ Workers
        /\ Cleaners \subseteq Threads \ Workers
    BY ThreadSets, RuntimeAssumption DEF Cancels, TypeOK, Threads
  <2>1. ASSUME NEW v \in Workers, TakeSlot(v) PROVE pc'[w] # "lock"
    BY <2>0, <2>1 DEF TakeSlot, Pop, Register, AdmitCheck, AdmitRaise, Admit,
       AdmitRecover, AdmitWait, Snap, AcquirePermit, PermitTimeout, Validate,
       SlotValid, Raise, EndTask, Goto
  <2>2. ASSUME NEW v \in Workers, UseSlot(v) PROVE pc'[w] # "lock"
    <3>1. PICK l : Goto(v, l)
      BY <2>2 DEF UseSlot, LoadLock, FreshAdmission, DenyLoad, LoadOk,
         LoadOutOfMemory, LoadError, Callback, CallbackGate, CallbackClose,
         Yield, InferOutOfMemory, InferReturn, ReleasePermit, Deactivate,
         EndSlot, EndTask
    <3>2. pc[v] # "valid"
      BY <2>2 DEF UseSlot, LoadLock, FreshAdmission, DenyLoad, LoadOk,
         LoadOutOfMemory, LoadError, Callback, CallbackGate, CallbackClose,
         Yield, InferOutOfMemory, InferReturn, ReleasePermit, Deactivate
    <3> QED BY <2>0, <3>1, <3>2 DEF Goto
  <2>3. ASSUME NEW v \in Workers, Commit(v) PROVE pc'[w] # "lock"
    BY <2>0, <2>3 DEF Commit, CommitSource, CommitCheck, CommitReject, EndTask,
       Goto
  <2>4. ASSUME NEW v \in Workers, WaitRecovery(v) PROVE pc'[w] # "lock"
    <3>1. PICK l : Goto(v, l)
      BY <2>4 DEF WaitRecovery, Quarantine, RecoverRaise, Recover, EnterWait,
         AcknowledgeYield, WaitCheck, PollRecovery, ReopenAdmission, Raise,
         EndTask
    <3>2. pc[v] # "valid"
      BY <2>4 DEF WaitRecovery, Quarantine, RecoverRaise, Recover, EnterWait,
         AcknowledgeYield, WaitCheck, PollRecovery, ReopenAdmission
    <3> QED BY <2>0, <3>1, <3>2 DEF Goto
  <2>5. ASSUME NEW t \in Threads, Release(t) PROVE pc'[w] # "lock"
    <3>1. PICK l : Goto(t, l)
      BY <2>5 DEF Release, JoinRelease, OwnRelease, DrainPermit,
         ReleaseLock, Unload, UnloadFails, LatchFailure, ReturnPermits,
         FinishRelease, Joined, AbortReopen, LeaveRelease, Raise, EndTask
    <3>2. pc[t] # "valid"
      BY <2>5 DEF Release, JoinRelease, OwnRelease, DrainPermit,
         ReleaseLock, Unload, UnloadFails, LatchFailure, ReturnPermits,
         FinishRelease, Joined, AbortReopen
    <3> QED BY <2>0, <3>1, <3>2 DEF Goto
  <2>6. ASSUME Observe PROVE pc'[w] # "lock"
    <3>1. PICK l : Goto(Observer, l)
      BY <2>6 DEF Observe, ObserveSnapshot, ObservePrioritySignal,
         ObserverGate, ObserverClose, PollIdleResident, ResidentGate,
         ResidentClose, ObserverRelease, PollUnloaded, UnloadedGate,
         UnloadedClose, ObserverReopen, ObserverFailsClosed
    <3> QED BY <2>0, <3>1 DEF Goto
  <2>7. ASSUME NEW c \in Cleaners, CleanupTimer(c) PROVE pc'[w] # "lock"
    BY <2>0, <2>7 DEF CleanupTimer, Goto
  <2>8. CASE Shutdown
    BY <2>8 DEF Shutdown
  <2> QED BY <2>1, <2>2, <2>3, <2>4, <2>5, <2>6, <2>7, <2>8 DEF Next, Worker
<1> QED BY <1>1, TypeCorrect, CancelsHolds, PTL DEF Spec, QuarantineIsFinal
-----------------------------------------------------------------------------
(***************************************************************************)
(* Whose model a ticket releases.                                          *)
(*                                                                         *)
(* Between the failure of an inference and the release it asks for, the    *)
(* barrier may have been closed and reopened, the model released by        *)
(* somebody else and loaded again.  A ticket of generation g is safe       *)
(* because of one of three things: the model that was used is still there; *)
(* a release later than g has been started, which the ticket then joins;   *)
(* or a quarantine, which closes the barrier without a new generation,     *)
(* cancelled everybody who could load (Over).  Each follows from what the  *)
(* permits exclude (SlotInv), the load lock, and the owner of a release.   *)
(***************************************************************************)

\* What an inference's release ticket may come from: the workers between the
\* check under the load lock and _release_model_once, and the generation the
\* ticket is, or will be, bound to.
Ticketed == {"pressure", "alloc"}
Loading == {"fresh", "load"}
Locked == {"fresh", "deny", "load", "unload"}
Claiming == {"drain", "relLock", "unload"}

Using(w) == \/ pc[w] \in Inferring
            \/ pc[w] = "unslot" /\ local[w].result \in Ticketed
Due(w) == pc[w] \in {"deact", "rel"} /\ local[w].result \in Ticketed
Bears(w) == pc[w] \in Loading \/ Using(w) \/ Due(w)
GenOf(w) == IF pc[w] = "rel" THEN local[w].source.gen ELSE local[w].gen

\* The load lock has the owner its holder thinks it has, and a model that is
\* being loaded is not resident.
LockHeld == \A t \in Threads : pc[t] \in Locked => loadLock = t
LoadsAbsent == \A w \in Workers : pc[w] \in Loading => ~model

\* A release in progress is the last one, keeps the barrier shut and has one
\* owner; generations only grow.
GenerationsGrow == HasTransition => Current.gen <= relGen
ReleaseShuts == TransitionActive => closed
OwnsLast == \A t \in Threads :
                pc[t] \in Owning => TransitionActive /\ local[t].tx = Len(transitions)
OneOwner == \A t, u \in Threads : pc[t] \in Owning /\ pc[u] \in Owning => t = u

\* Nothing is loaded again: the process was cancelled and nobody is left who
\* could load.
Spent(g) == HasTransition /\ Current.gen > g
Over == cancelled /\ ~model /\ \A v \in Workers : pc[v] \notin Loading \cup {"lock"}

\* A ticket's generation is over once the barrier was closed, and a release
\* that runs is a later one, unless a quarantine closed it.
TicketAges == \A w \in Workers : Bears(w) =>
    /\ GenOf(w) <= relGen
    /\ closed => GenOf(w) < relGen \/ cancelled
    /\ TransitionActive => GenOf(w) < Current.gen \/ cancelled

BornBefore == born \in Nat /\ (model => born <= relGen)
UsesOwn == \A w \in Workers : Using(w) => model /\ born <= local[w].gen
DueOwn == \A w \in Workers : Due(w) =>
    (model /\ born <= GenOf(w)) \/ Spent(GenOf(w)) \/ Over
DueBound == \A w \in Workers :
    pc[w] = "rel" /\ local[w].result \in Ticketed => local[w].source.bound
ClaimsOwn == \A w \in Workers :
    pc[w] \in Claiming /\ local[w].result \in Ticketed =>
        /\ model => born <= local[w].source.gen
        /\ \A v \in Workers : pc[v] \notin Loading

LockInv == LockHeld /\ LoadsAbsent
OwnerInv == GenerationsGrow /\ ReleaseShuts /\ OwnsLast /\ OneOwner
TicketInv == LockInv /\ OwnerInv /\ TicketAges /\ BornBefore /\ UsesOwn /\ DueOwn /\ DueBound /\ ClaimsOwn

\* How a step moves the barrier: not at all, closed as a new generation,
\* opened with no release running, or closed for good.
BarrierMoves ==
    \/ closed' = closed /\ relGen' = relGen
    \/ closed' = TRUE /\ relGen' = IF closed THEN relGen ELSE relGen + 1
    \/ closed' = FALSE /\ relGen' = relGen /\ ~TransitionActive
    \/ closed' = TRUE /\ relGen' = relGen /\ cancelled'

\* A step of thread t that loads, unloads, starts and ends nothing, and leaves
\* t's own obligations as they were or drops them.
PlainTicketStep(t) ==
    /\ \A u \in Threads : u # t => pc'[u] = pc[u] /\ local'[u] = local[u]
    /\ BarrierMoves /\ transitions' = transitions /\ model' = model
    /\ born' = IF model THEN born ELSE 0
    /\ cancelled => cancelled'
    /\ \/ loadLock' = loadLock
       \/ loadLock = t /\ loadLock' = Free
       \/ loadLock = Free /\ loadLock' = t
    /\ pc'[t] \in Locked => \/ pc[t] \in Locked /\ loadLock' = loadLock
                            \/ loadLock = Free /\ loadLock' = t
    /\ pc'[t] \in Loading => pc[t] \in Loading \/ (pc[t] = "lock" /\ ~closed /\ ~model)
    /\ pc'[t] = "lock" => pc[t] = "lock" \/ ~cancelled
    /\ pc'[t] \in Owning => pc[t] \in Owning /\ local'[t].tx = local[t].tx
    /\ t \in Workers =>
         /\ Using(t)' => \/ Using(t) /\ local'[t].gen = local[t].gen
                         \/ model /\ local'[t].gen = relGen
         /\ Due(t)' => Using(t) \/ Due(t)
         /\ Bears(t)' => \/ Bears(t) /\ GenOf(t)' = GenOf(t)
                         \/ ~Due(t)' /\ ~closed' /\ ~TransitionActive
                            /\ relGen' = relGen /\ GenOf(t)' = relGen
         /\ pc'[t] = "rel" /\ local'[t].result \in Ticketed => local'[t].source.bound
         /\ pc'[t] \in Claiming /\ local'[t].result \in Ticketed =>
              /\ pc[t] \in Claiming /\ local[t].result \in Ticketed
              /\ local'[t].source = local[t].source

\* The types of the generations that are compared.
LEMMA GenTypes ==
    ASSUME TypeOK
    PROVE  /\ relGen \in Nat
           /\ \A t \in Threads : local[t].gen \in Nat /\ local[t].source.gen \in Int
                                 /\ local[t].tx \in Nat
           /\ HasTransition => Current.gen \in Nat /\ Len(transitions) \in Nat
                               /\ Current \in Transition
<1>1. /\ relGen \in Nat
      /\ \A t \in Threads : local[t] \in LocalType
  BY DEF TypeOK
<1>2. ASSUME NEW t \in Threads
      PROVE  local[t].gen \in Nat /\ local[t].source.gen \in Int /\ local[t].tx \in Nat
  <2>1. local[t].gen \in Nat /\ local[t].tx \in Nat
    BY <1>1, LocalFields
  <2>2. local[t].source \in {NoSource} \cup [bound : {TRUE}, gen : Nat \cup {-1}]
    BY <1>1 DEF LocalType
  <2>3. CASE local[t].source = NoSource
    BY <2>1, <2>3 DEF NoSource
  <2>4. CASE local[t].source \in [bound : {TRUE}, gen : Nat \cup {-1}]
    <3>1. local[t].source.gen \in Nat \cup {-1}
      BY <2>4
    <3> QED BY <2>1, <3>1
  <2> QED BY <2>2, <2>3, <2>4
<1>3. HasTransition => Current \in Transition /\ Len(transitions) \in Nat
  BY DEF TypeOK, HasTransition, Current
<1> QED BY <1>1, <1>2, <1>3 DEF Transition

\* A plain step keeps TicketInv.
LEMMA TicketStep ==
    ASSUME TypeOK, TypeOK', TicketInv, NEW t \in Threads, PlainTicketStep(t)
    PROVE  TicketInv'
<1>0. /\ \A u \in Threads : u # t => pc'[u] = pc[u] /\ local'[u] = local[u]
      /\ BarrierMoves /\ transitions' = transitions /\ model' = model
      /\ born' = IF model THEN born ELSE 0
      /\ cancelled => cancelled'
      /\ Workers \subseteq Threads
  BY ThreadSets DEF PlainTicketStep
<1>1. /\ HasTransition' = HasTransition /\ Current' = Current
      /\ TransitionActive' = TransitionActive
  BY <1>0 DEF HasTransition, Current, TransitionActive
<1>2. LockHeld'
  <2>1. ASSUME NEW u \in Threads, pc'[u] \in Locked PROVE loadLock' = u
    <3>0. u # Free
      BY RuntimeAssumption
    <3>1. pc[u] \in Locked => loadLock = u
      BY DEF TicketInv, LockInv, LockHeld
    <3>2. CASE u = t
      BY <2>1, <3>1, <3>2 DEF PlainTicketStep
    <3>3. CASE u # t
      BY <2>1, <3>0, <3>1, <3>3 DEF PlainTicketStep
    <3> QED BY <3>2, <3>3
  <2> QED BY <2>1 DEF LockHeld
<1>3. LoadsAbsent'
  BY <1>0 DEF PlainTicketStep, LoadsAbsent, TicketInv, LockInv
<1>4. GenerationsGrow' /\ ReleaseShuts'
  <2>1. relGen <= relGen' /\ (TransitionActive => closed')
    BY <1>0, GenTypes DEF BarrierMoves, TicketInv, OwnerInv, ReleaseShuts
  <2> QED BY <2>1, <1>0, <1>1, GenTypes DEF GenerationsGrow, ReleaseShuts, TicketInv, OwnerInv, TypeOK
<1>5. OwnsLast' /\ OneOwner'
  <2>1. \A u \in Threads : pc'[u] \in Owning => pc[u] \in Owning /\ local'[u].tx = local[u].tx
    BY <1>0 DEF PlainTicketStep
  <2> QED BY <2>1, <1>0, <1>1 DEF TicketInv, OwnerInv, OwnsLast, OneOwner
<1>6. ASSUME NEW w \in Workers
      PROVE  /\ Using(w)' => \/ Using(w) /\ local'[w].gen = local[w].gen
                             \/ model /\ local'[w].gen = relGen
             /\ Due(w)' => Using(w) \/ Due(w)
             /\ Bears(w)' => \/ Bears(w) /\ GenOf(w)' = GenOf(w)
                             \/ ~Due(w)' /\ ~closed' /\ ~TransitionActive
                                /\ relGen' = relGen /\ GenOf(w)' = relGen
  <2>1. CASE w = t
    BY <2>1 DEF PlainTicketStep
  <2>2. CASE w # t
    BY <2>2, <1>0 DEF Using, Due, Bears, GenOf
  <2> QED BY <2>1, <2>2
<1>7. TicketAges'
  <2> SUFFICES ASSUME NEW w \in Workers, Bears(w)'
               PROVE  /\ GenOf(w)' <= relGen'
                      /\ closed' => GenOf(w)' < relGen' \/ cancelled'
                      /\ TransitionActive' => GenOf(w)' < Current.gen' \/ cancelled'
    BY DEF TicketAges
  <2>0. CASE ~closed' /\ ~TransitionActive /\ relGen' = relGen /\ GenOf(w)' = relGen
    BY <2>0, <1>1, GenTypes
  <2>1. CASE Bears(w) /\ GenOf(w)' = GenOf(w)
    <3>2. GenOf(w) \in Int /\ relGen \in Nat
      BY <1>0, GenTypes DEF GenOf
    <3>3. /\ GenOf(w) <= relGen
          /\ closed => GenOf(w) < relGen \/ cancelled
          /\ TransitionActive => GenOf(w) < Current.gen \/ cancelled
      BY <2>1 DEF TicketInv, TicketAges
    <3>4. GenOf(w) <= relGen' /\ (closed' => GenOf(w) < relGen' \/ cancelled')
      BY <3>2, <3>3, <1>0 DEF BarrierMoves
    <3> QED BY <2>1, <3>3, <3>4, <1>0, <1>1
  <2> QED BY <1>6, <2>0, <2>1
<1>8. BornBefore'
  <2>1. relGen <= relGen' /\ relGen \in Nat /\ relGen' \in Nat
    BY <1>0, GenTypes DEF BarrierMoves, TypeOK
  <2>2. CASE ~model
    BY <2>2, <1>0 DEF BornBefore
  <2>3. CASE model
    BY <2>1, <2>3, <1>0 DEF BornBefore, TicketInv
  <2> QED BY <2>2, <2>3
<1>9. UsesOwn'
  <2> SUFFICES ASSUME NEW w \in Workers, Using(w)' PROVE model' /\ born' <= local'[w].gen
    BY DEF UsesOwn
  <2>1. CASE Using(w) /\ local'[w].gen = local[w].gen
    BY <1>0, <2>1 DEF TicketInv, UsesOwn
  <2>2. CASE model /\ local'[w].gen = relGen
    BY <1>0, <2>2 DEF TicketInv, BornBefore
  <2> QED BY <1>6, <2>1, <2>2
<1>10. Over => Over'
  BY <1>0 DEF PlainTicketStep, Over
<1>11. DueOwn'
  <2> SUFFICES ASSUME NEW w \in Workers, Due(w)'
               PROVE  (model' /\ born' <= GenOf(w)') \/ Spent(GenOf(w))' \/ Over'
    BY DEF DueOwn
  <2>0. GenOf(w)' = GenOf(w)
    BY <1>6 DEF Bears
  <2>1. CASE Using(w)
    <3>1. GenOf(w) = local[w].gen
      BY <2>1 DEF Using, GenOf, Inferring
    <3> QED BY <2>0, <2>1, <3>1, <1>0 DEF TicketInv, UsesOwn
  <2>2. CASE Due(w)
    BY <2>0, <2>2, <1>0, <1>1, <1>10 DEF TicketInv, DueOwn, Spent
  <2> QED BY <2>1, <2>2, <1>6
<1>12. DueBound'
  BY <1>0 DEF TicketInv, DueBound, PlainTicketStep
<1>13. ClaimsOwn'
  <2> SUFFICES ASSUME NEW w \in Workers, pc'[w] \in Claiming, local'[w].result \in Ticketed
               PROVE  /\ model' => born' <= local'[w].source.gen
                      /\ \A v \in Workers : pc'[v] \notin Loading
    BY DEF ClaimsOwn
  <2>1. pc[w] \in Claiming /\ local[w].result \in Ticketed /\ local'[w].source = local[w].source
    BY <1>0 DEF PlainTicketStep
  <2>2. /\ model => born <= local[w].source.gen
        /\ \A v \in Workers : pc[v] \notin Loading
    BY <2>1 DEF TicketInv, ClaimsOwn
  <2>3. closed
    BY <1>0, <2>1 DEF TicketInv, OwnerInv, OwnsLast, ReleaseShuts, Claiming, Owning
  <2> QED BY <1>0, <2>1, <2>2, <2>3 DEF PlainTicketStep
<1> QED BY <1>2, <1>3, <1>4, <1>5, <1>7, <1>8, <1>9, <1>11, <1>12, <1>13
        DEF TicketInv, LockInv, OwnerInv

\* What a step of thread t may do to the program counters and the locals.
Moves(t, label) ==
    /\ Goto(t, label)
    /\ \A u \in Threads : u # t => local'[u] = local[u]

\* Labels that carry no obligation.
Carefree == Labels \ (Locked \cup Owning \cup Inferring \cup {"lock", "unslot", "deact", "rel"})

\* The usual case of a plain step: the new label carries no obligation.
LEMMA CarefreeStep ==
    ASSUME TypeOK, TypeOK', TicketInv, TracksBirth, NEW t \in Threads, NEW label \in Labels,
           Moves(t, label), BarrierMoves,
           transitions' = transitions, model' = model, cancelled => cancelled',
           loadLock' = loadLock \/ (loadLock = t /\ loadLock' = Free),
           \/ label \in Carefree
           \/ /\ label \in {"unslot", "deact", "rel"}
              /\ t \in Workers => local'[t].result \notin Ticketed
    PROVE  TicketInv'
<1>1. /\ pc'[t] = label
      /\ \A u \in Threads : u # t => pc'[u] = pc[u] /\ local'[u] = local[u]
  BY DEF Moves, Goto, TypeOK
<1>2. born' = IF model THEN born ELSE 0
  BY DEF TracksBirth
<1>3. label \notin Locked /\ label \notin Owning /\ label \notin Loading /\ label # "lock"
      /\ label \notin Claiming /\ label \notin Inferring
  BY DEF Carefree, Locked, Owning, Loading, Claiming, Inferring
<1>4. t \in Workers => ~Using(t)' /\ ~Due(t)' /\ ~Bears(t)'
                       /\ ~(pc'[t] = "rel" /\ local'[t].result \in Ticketed)
  BY <1>1, <1>3 DEF Using, Due, Bears, Carefree
<1>5. PlainTicketStep(t)
  BY <1>1, <1>2, <1>3, <1>4 DEF PlainTicketStep
<1> QED BY <1>5, TicketStep

\* ... which most labels are.
LEMMA CarefreeLabels ==
    \A l \in {"idle", "popped", "admit", "enter", "snap", "permit", "valid", "commit",
              "rebind", "commitClose", "recover", "enterWait", "ack", "wait",
              "poll", "reopen", "join",
              "abortReopen", "quarantine", "observe", "oPriority", "oGate",
              "oShut", "oPoll", "oPolled", "oClose", "oRelease",
              "oIdlePoll", "oIdleGate", "oReopen", "oIdleShut", "oFail"} :
        l \in Labels /\ l \in Carefree
BY LabelNames DEF Carefree, Locked, Owning, Inferring

\* How the locals change.
LEMMA LocalMoves ==
    ASSUME TypeOK, NEW t \in Threads
    PROVE  /\ \A l : SetLocal(t, l) => local'[t] = l /\ \A u \in Threads : u # t => local'[u] = local[u]
           /\ local' = local => \A u \in Threads : u # t => local'[u] = local[u]
BY DEF TypeOK, SetLocal

\* close_model_admission moves the barrier.
LEMMA Closes ==
    ASSUME NEW c, CloseBarrier(c)
    PROVE  BarrierMoves
BY DEF CloseBarrier, BarrierMoves

\* Taking a slot.
LEMMA TakeSlotTickets ==
    ASSUME TypeOK, TypeOK', TicketInv, TracksBirth, NEW w \in Workers, TakeSlot(w)
    PROVE  TicketInv'
<1>0. w \in Threads
  BY ThreadSets
<1>1. CASE Pop(w)
  BY <1>0, <1>1, CarefreeStep, CarefreeLabels
     DEF Pop, shared, Moves, BarrierMoves
<1>2. CASE Register(w)
  BY <1>0, <1>2, CarefreeStep, CarefreeLabels
     DEF Register, shared, Moves, BarrierMoves
<1>3. CASE AdmitRaise(w)
  BY <1>0, <1>3, CarefreeStep, CarefreeLabels, LocalMoves
     DEF AdmitRaise, Raise, EndTask, Moves, BarrierMoves
<1>4. CASE Admit(w)
  BY <1>0, <1>4, CarefreeStep, CarefreeLabels
     DEF Admit, Moves, BarrierMoves
<1>5. CASE AdmitRecover(w)
  BY <1>0, <1>5, CarefreeStep, CarefreeLabels
     DEF AdmitRecover, shared, Moves, BarrierMoves
<1>6. CASE Snap(w)
  <2>1. PICK label \in {"admit", "permit"} : Moves(w, label)
    BY <1>0, <1>6 DEF Snap, Moves, TypeOK
  <2> QED BY <1>0, <1>6, <2>1, CarefreeStep, CarefreeLabels DEF Snap, shared, BarrierMoves
<1>7. CASE AcquirePermit(w)
  BY <1>0, <1>7, CarefreeStep, CarefreeLabels
     DEF AcquirePermit, Moves, BarrierMoves
<1>8. CASE PermitTimeout(w)
  BY <1>0, <1>8, CarefreeStep, CarefreeLabels, LocalMoves
     DEF PermitTimeout, shared, Moves, BarrierMoves
<1>9. CASE Validate(w)
  <2>1. CASE SlotValid(w)
    <3>1. /\ pc'[w] = "lock" /\ ~cancelled
          /\ \A u \in Threads : u # w => pc'[u] = pc[u] /\ local'[u] = local[u]
      BY <1>0, <1>9, <2>1 DEF Validate, SlotValid, Goto, TypeOK
    <3>2. born' = IF model THEN born ELSE 0
      BY <1>9 DEF TracksBirth, Validate
    <3>3. PlainTicketStep(w)
      BY <1>9, <2>1, <3>1, <3>2
         DEF PlainTicketStep, Validate, BarrierMoves, Locked, Owning, Loading, Claiming,
             Inferring, Using, Due, Bears
    <3> QED BY <1>0, <3>3, TicketStep
  <2>2. CASE ~SlotValid(w)
    BY <1>0, <1>9, <2>2, CarefreeStep, CarefreeLabels, LocalMoves
       DEF Validate, Moves, BarrierMoves
  <2> QED BY <2>1, <2>2
<1>10. CASE AdmitCheck(w)
  BY <1>0, <1>10, CarefreeStep, CarefreeLabels
     DEF AdmitCheck, shared, Moves, BarrierMoves
<1>11. CASE AdmitWait(w)
  BY <1>0, <1>11, CarefreeStep, CarefreeLabels
     DEF AdmitWait, shared, Moves, BarrierMoves
<1> QED
  BY <1>1, <1>2, <1>3, <1>4, <1>5, <1>6, <1>7, <1>8, <1>9, <1>10, <1>11
     DEF TakeSlot

\* The commit gate: its release is not bound to a ticket.
LEMMA CommitTickets ==
    ASSUME TypeOK, TypeOK', TicketInv, TracksBirth, NEW w \in Workers, Commit(w)
    PROVE  TicketInv'
<1>0. w \in Threads
  BY ThreadSets
<1>1. CASE CommitSource(w)
  BY <1>0, <1>1, CarefreeStep, CarefreeLabels
     DEF CommitSource, shared, Moves, BarrierMoves
<1>2. CASE CommitCheck(w)
  <2>1. PICK label \in {"admit", "idle", "commitClose"} : Moves(w, label)
    BY <1>0, <1>2, LocalMoves DEF CommitCheck, Moves, EndTask
  <2> QED BY <1>0, <1>2, <2>1, CarefreeStep, CarefreeLabels DEF CommitCheck, BarrierMoves
<1>3. CASE CommitReject(w)
  <2>1. local'[w].result = "commit"
    <3>1. local[w] \in LocalType
      BY <1>0 DEF TypeOK
    <3> QED BY <1>0, <1>3, <3>1 DEF CommitReject, LocalType, TypeOK
  <2>2. Moves(w, "rel")
    BY <1>0, <1>3 DEF CommitReject, Moves, TypeOK
  <2>3. BarrierMoves
    BY <1>3, Closes DEF CommitReject
  <2>4. "rel" \in Labels /\ local'[w].result \notin Ticketed
    BY <2>1, LabelNames DEF Ticketed
  <2> QED BY <1>0, <1>3, <2>2, <2>3, <2>4, CarefreeStep DEF CommitReject
<1> QED BY <1>1, <1>2, <1>3 DEF Commit

\* Waiting for recovery.
LEMMA WaitRecoveryTickets ==
    ASSUME TypeOK, TypeOK', TicketInv, TracksBirth, NEW w \in Workers, WaitRecovery(w)
    PROVE  TicketInv'
<1>0. w \in Threads
  BY ThreadSets
<1>1. CASE Quarantine(w)
  BY <1>0, <1>1, CarefreeStep, CarefreeLabels, LocalMoves
     DEF Quarantine, Raise, EndTask, Moves, BarrierMoves
<1>2. CASE RecoverRaise(w)
  BY <1>0, <1>2, CarefreeStep, CarefreeLabels, LocalMoves
     DEF RecoverRaise, Raise, EndTask, Moves, BarrierMoves
<1>3. CASE Recover(w)
  BY <1>0, <1>3, CarefreeStep, CarefreeLabels
     DEF Recover, shared, Moves, BarrierMoves
<1>4. CASE EnterWait(w)
  <2>1. ctl.state \in ControllerStates
    BY CtlFields DEF TypeOK
  <2>2. PICK label \in {"reopen", "ack", "wait"} : Goto(w, label)
    BY <1>4, <2>1 DEF EnterWait, ControllerStates
  <2> QED BY <1>0, <1>4, <2>2, CarefreeStep, CarefreeLabels
          DEF EnterWait, shared, Moves, BarrierMoves
<1>5. CASE AcknowledgeYield(w)
  BY <1>0, <1>5, CarefreeStep, CarefreeLabels
     DEF AcknowledgeYield, Moves, BarrierMoves
<1>6. CASE WaitCheck(w)
  BY <1>0, <1>6, CarefreeStep, CarefreeLabels
     DEF WaitCheck, shared, Moves, BarrierMoves
<1>7. CASE PollRecovery(w)
  BY <1>0, <1>7, CarefreeStep, CarefreeLabels
     DEF PollRecovery, Moves, BarrierMoves
<1>8. CASE ReopenAdmission(w)
  <2>1. PICK label \in {"recover", "admit", "idle"} : Moves(w, label)
    BY <1>0, <1>8, LocalMoves DEF ReopenAdmission, EndTask, Moves
  <2>2. BarrierMoves
    BY <1>8 DEF ReopenAdmission, Reopen, Reopens, BarrierMoves, TypeOK
  <2> QED BY <1>0, <1>8, <2>1, <2>2, CarefreeStep, CarefreeLabels DEF ReopenAdmission
<1> QED
  BY <1>1, <1>2, <1>3, <1>4, <1>5, <1>6, <1>7, <1>8 DEF WaitRecovery

\* The observer bears no ticket.
LEMMA ObserveTickets ==
    ASSUME TypeOK, TypeOK', TicketInv, TracksBirth, Observe
    PROVE  TicketInv'
<1>0. Observer \in Threads /\ Observer \notin Workers
  BY ThreadSets, RuntimeAssumption
<1>1. PICK label \in {"observe", "oPriority", "oGate", "oShut", "oPoll", "oPolled", "oClose",
                      "oRelease", "oIdlePoll", "oIdleGate", "oReopen", "oIdleShut", "rel"} :
        Goto(Observer, label)
  BY DEF Observe, ObserveSnapshot, ObservePrioritySignal, ObserverGate, ObserverClose,
         PollIdleResident, ResidentGate, ResidentClose, ObserverRelease, PollUnloaded,
         UnloadedGate, UnloadedClose, ObserverReopen, ObserverFailsClosed,
         AfterPriority, AfterPoll
<1>2. \A u \in Threads : u # Observer => local'[u] = local[u]
  BY <1>0, LocalMoves
     DEF TypeOK, Observe, ObserveSnapshot, ObservePrioritySignal, ObserverGate, ObserverClose,
         PollIdleResident, ResidentGate, ResidentClose, ObserverRelease, PollUnloaded,
         UnloadedGate, UnloadedClose, ObserverReopen, ObserverFailsClosed
<1>3. /\ transitions' = transitions /\ model' = model /\ cancelled' = cancelled
      /\ loadLock' = loadLock
  BY DEF Observe, ObserveSnapshot, ObservePrioritySignal, ObserverGate, ObserverClose,
         PollIdleResident, ResidentGate, ResidentClose, ObserverRelease, PollUnloaded,
         UnloadedGate, UnloadedClose, ObserverReopen, ObserverFailsClosed, ObserverKeeps, shared
<1>4. BarrierMoves
  <2>1. CASE ObserverClose \/ ResidentClose \/ UnloadedClose \/ ObserverFailsClosed
    BY <2>1, Closes DEF ObserverClose, ResidentClose, UnloadedClose, ObserverFailsClosed
  <2>2. CASE ObserverReopen
    BY <2>2 DEF ObserverReopen, Reopen, Reopens, BarrierMoves, TypeOK
  <2>3. CASE UNCHANGED <<closed, relGen>>
    BY <2>3 DEF BarrierMoves
  <2> QED BY <2>1, <2>2, <2>3
          DEF Observe, ObserveSnapshot, ObservePrioritySignal, ObserverGate,
              PollIdleResident, ResidentGate, ObserverRelease, PollUnloaded,
              UnloadedGate, shared
<1>5. Moves(Observer, label)
  BY <1>1, <1>2 DEF Moves
<1>6. CASE label = "rel"
  BY <1>0, <1>3, <1>4, <1>5, <1>6, CarefreeStep, LabelNames
<1>7. CASE label # "rel"
  BY <1>0, <1>3, <1>4, <1>5, <1>7, CarefreeStep, CarefreeLabels
<1> QED BY <1>6, <1>7

\* Nor does the cleanup timer.
LEMMA CleanupTimerTickets ==
    ASSUME TypeOK, TypeOK', TicketInv, TracksBirth, NEW c \in Cleaners, CleanupTimer(c)
    PROVE  TicketInv'
<1>0. c \in Threads /\ c \notin Workers
  BY ThreadSets, RuntimeAssumption
<1>1. CASE UNCHANGED <<pc, local>>
  <2>1. pc[c] = "idle" /\ pc' = [pc EXCEPT ![c] = "idle"]
    BY <1>0, <1>1 DEF CleanupTimer, TypeOK
  <2> QED BY <1>0, <1>1, <2>1, CarefreeStep, CarefreeLabels
          DEF CleanupTimer, Moves, Goto, BarrierMoves
<1>2. CASE Goto(c, "rel") /\ SetLocal(c, [NewLocal EXCEPT !.reason = "idle_cleanup"])
  <2>1. Moves(c, "rel")
    BY <1>0, <1>2, LocalMoves DEF Moves
  <2> QED BY <1>0, <2>1, CarefreeStep, LabelNames DEF CleanupTimer, BarrierMoves
<1> QED BY <1>1, <1>2 DEF CleanupTimer

\* How EndSlot and Yield change the locals.
LEMMA ResultMoves ==
    ASSUME TypeOK, NEW w \in Threads, NEW r, EndSlot(w, r)
    PROVE  /\ Moves(w, "unslot")
           /\ local'[w].result = r /\ local'[w].gen = local[w].gen
<1>1. local[w] \in LocalType
  BY DEF TypeOK
<1> QED BY <1>1 DEF EndSlot, Moves, TypeOK, LocalType

\* A slot that ends without a ticket.
LEMMA EndedSlot ==
    ASSUME TypeOK, TypeOK', TicketInv, TracksBirth, NEW w \in Workers, NEW r, r \notin Ticketed,
           EndSlot(w, r), BarrierMoves,
           transitions' = transitions, model' = model, cancelled' = cancelled,
           loadLock' = loadLock \/ (loadLock = w /\ loadLock' = Free)
    PROVE  TicketInv'
<1>0. w \in Threads
  BY ThreadSets
<1>1. Moves(w, "unslot") /\ local'[w].result \notin Ticketed
  BY <1>0, ResultMoves
<1> QED BY <1>0, <1>1, CarefreeStep, LabelNames

\* A model that is loaded belongs to the loader's generation.  Nobody else is
\* loading, and whoever bears a ticket meanwhile has seen a later release.
LEMMA LoadOkTickets ==
    ASSUME TypeOK, TypeOK', TicketInv, TracksBirth, NEW w \in Workers, LoadOk(w)
    PROVE  TicketInv'
<1>0. w \in Threads /\ Workers \subseteq Threads
  BY ThreadSets
<1>1. /\ pc[w] = "load" /\ model' = TRUE /\ loadLock' = Free
      /\ closed' = closed /\ relGen' = relGen /\ transitions' = transitions
      /\ cancelled' = cancelled
  BY DEF LoadOk
<1>2. loadLock = w /\ ~model /\ \A v \in Workers : v # w => pc[v] \notin Loading
  BY <1>0, <1>1, RuntimeAssumption DEF TicketInv, LockInv, LockHeld, LoadsAbsent, Locked, Loading
<1>3. born' = local[w].gen
  <2>1. (CHOOSE v \in Workers : pc[v] = "load") = w
    BY <1>1, <1>2 DEF Loading
  <2> QED BY <1>1, <1>2, <2>1 DEF TracksBirth
<1>4. PICK label \in {"unslot", "infer"} :
        /\ Moves(w, label) /\ local'[w].gen = local[w].gen
        /\ label = "unslot" => local'[w].result = "done"
  <2>1. CASE EndSlot(w, "done")
    BY <1>0, <2>1, ResultMoves
  <2>2. CASE Goto(w, "infer") /\ UNCHANGED local
    BY <2>2 DEF Moves
  <2> QED BY <2>1, <2>2 DEF LoadOk
<1>5. /\ pc'[w] = label
      /\ \A u \in Threads : u # w => pc'[u] = pc[u] /\ local'[u] = local[u]
  BY <1>0, <1>4 DEF Moves, Goto, TypeOK
<1>6. /\ HasTransition' = HasTransition /\ Current' = Current
      /\ TransitionActive' = TransitionActive
  BY <1>1 DEF HasTransition, Current, TransitionActive
<1>7. LockHeld' /\ LoadsAbsent'
  <2>1. \A u \in Threads : pc'[u] \notin Locked
    BY <1>0, <1>2, <1>5 DEF TicketInv, LockInv, LockHeld, Locked
  <2> QED BY <2>1, <1>0 DEF LockHeld, LoadsAbsent, Locked, Loading
<1>8. OwnerInv'
  BY <1>0, <1>1, <1>5, <1>6, GenTypes
     DEF TicketInv, OwnerInv, GenerationsGrow, ReleaseShuts, OwnsLast, OneOwner, Owning
<1>9. \A v \in Workers : /\ v # w => (Using(v)' = Using(v)) /\ (Due(v)' = Due(v)) /\ GenOf(v)' = GenOf(v) /\ (Bears(v)' = Bears(v))
  BY <1>0, <1>5 DEF Using, Due, Bears, GenOf
<1>10. Bears(w) /\ ~Due(w)' /\ GenOf(w)' = GenOf(w) /\ GenOf(w) = local[w].gen
  BY <1>1, <1>4, <1>5 DEF Bears, Loading, GenOf, Due
<1>11. TicketAges'
  BY <1>1, <1>6, <1>9, <1>10 DEF TicketInv, TicketAges
<1>12. BornBefore'
  <2>1. local[w].gen \in Nat /\ local[w].gen <= relGen
    BY <1>0, <1>10, GenTypes DEF TicketInv, TicketAges
  <2> QED BY <1>1, <1>3, <2>1 DEF BornBefore
<1>13. UsesOwn'
  <2>1. \A v \in Workers : v # w => ~Using(v)
    BY <1>2 DEF TicketInv, UsesOwn
  <2>2. born' <= local'[w].gen
    BY <1>0, <1>3, <1>4, GenTypes
  <2> QED BY <1>1, <1>9, <2>1, <2>2 DEF UsesOwn
<1>14. DueOwn'
  <2> SUFFICES ASSUME NEW v \in Workers, Due(v)' PROVE Spent(GenOf(v))'
    BY DEF DueOwn
  <2>1. v # w /\ Due(v) /\ GenOf(v)' = GenOf(v)
    BY <1>9, <1>10
  <2>2. ~Over
    BY <1>1 DEF Over, Loading
  <2>3. Spent(GenOf(v))
    BY <1>2, <2>1, <2>2 DEF TicketInv, DueOwn
  <2> QED BY <1>6, <2>1, <2>3 DEF Spent
<1>15. DueBound'
  BY <1>0, <1>4, <1>5 DEF TicketInv, DueBound
<1>16. ClaimsOwn'
  <2>1. \A v \in Workers : pc[v] \in Claiming => local[v].result \notin Ticketed
    BY <1>1 DEF TicketInv, ClaimsOwn, Loading
  <2> QED BY <1>0, <1>4, <1>5, <2>1 DEF ClaimsOwn, Claiming
<1> QED BY <1>7, <1>8, <1>11, <1>12, <1>13, <1>14, <1>15, <1>16 DEF TicketInv, LockInv

\* Loading and inference: where tickets come from.
LEMMA UseSlotTickets ==
    ASSUME TypeOK, TypeOK', TicketInv, TracksBirth, NEW w \in Workers, UseSlot(w)
    PROVE  TicketInv'
<1>0. w \in Threads
  BY ThreadSets
<1>h. pc[w] \in Locked => loadLock = w
  BY <1>0 DEF TicketInv, LockInv, LockHeld
<1>b. model' = model => born' = IF model THEN born ELSE 0
  BY DEF TracksBirth
<1>1. CASE LoadLock(w)
  <2>0. /\ closed' = closed /\ relGen' = relGen /\ transitions' = transitions
        /\ model' = model /\ cancelled' = cancelled /\ pc[w] = "lock" /\ loadLock = Free
    BY <1>1 DEF LoadLock
  <2>1. CASE EndSlot(w, "stale") /\ loadLock' = loadLock
    BY <2>0, <2>1, EndedSlot DEF Ticketed, BarrierMoves
  <2>2. CASE EndSlot(w, "done") /\ loadLock' = loadLock
    BY <2>0, <2>2, EndedSlot DEF Ticketed, BarrierMoves
  <2>3. CASE /\ Goto(w, "infer") /\ UNCHANGED local /\ loadLock' = loadLock
             /\ ~closed /\ relGen = local[w].gen /\ model
    <3>1. /\ pc'[w] = "infer" /\ local'[w] = local[w]
          /\ \A u \in Threads : u # w => pc'[u] = pc[u] /\ local'[u] = local[u]
      BY <1>0, <2>3 DEF Goto, TypeOK
    <3>2. ~TransitionActive /\ ~Due(w)' /\ GenOf(w)' = relGen
      BY <2>3, <3>1 DEF TicketInv, OwnerInv, ReleaseShuts, Due, GenOf
    <3>3. PlainTicketStep(w)
      BY <2>0, <2>3, <3>1, <3>2, <1>b
         DEF PlainTicketStep, BarrierMoves, Locked, Owning, Loading, Claiming, Inferring
    <3> QED BY <1>0, <3>3, TicketStep
  <2>4. CASE /\ Goto(w, "fresh") /\ UNCHANGED local /\ loadLock' = w
             /\ ~closed /\ relGen = local[w].gen /\ ~model
    <3>1. /\ pc'[w] = "fresh" /\ local'[w] = local[w]
          /\ \A u \in Threads : u # w => pc'[u] = pc[u] /\ local'[u] = local[u]
      BY <1>0, <2>4 DEF Goto, TypeOK
    <3>2. ~TransitionActive /\ ~Due(w)' /\ ~Using(w)' /\ GenOf(w)' = relGen
      BY <2>4, <3>1 DEF TicketInv, OwnerInv, ReleaseShuts, Due, GenOf, Using, Inferring
    <3>3. PlainTicketStep(w)
      BY <2>0, <2>4, <3>1, <3>2, <1>b
         DEF PlainTicketStep, BarrierMoves, Locked, Owning, Loading, Claiming, Inferring
    <3> QED BY <1>0, <3>3, TicketStep
  <2> QED BY <1>1, <2>1, <2>2, <2>3, <2>4 DEF LoadLock
<1>2. CASE FreshAdmission(w)
  <2>1. PICK label \in {"load", "deny"} : Goto(w, label)
    BY <1>2 DEF FreshAdmission
  <2>2. /\ pc[w] = "fresh" /\ pc'[w] = label /\ local'[w] = local[w]
        /\ \A u \in Threads : u # w => pc'[u] = pc[u] /\ local'[u] = local[u]
    BY <1>0, <1>2, <2>1 DEF FreshAdmission, Goto, TypeOK
  <2>3. ~Using(w)' /\ ~Due(w)' /\ Bears(w) /\ GenOf(w)' = GenOf(w)
    BY <2>2 DEF Using, Due, Bears, GenOf, Inferring, Loading
  <2>4. PlainTicketStep(w)
    BY <1>2, <2>2, <2>3, <1>b
       DEF PlainTicketStep, FreshAdmission, BarrierMoves, Locked, Owning, Loading, Claiming
  <2> QED BY <1>0, <2>4, TicketStep
<1>3. CASE DenyLoad(w)
  BY <1>3, <1>h, EndedSlot, Closes DEF DenyLoad, Ticketed, Locked
<1>4. CASE LoadOk(w)
  BY <1>4, LoadOkTickets
<1>5. CASE LoadOutOfMemory(w)
  <2>1. PICK r \in {"unhealthy", "loadfail"} : EndSlot(w, r)
    BY <1>5 DEF LoadOutOfMemory
  <2> QED BY <1>5, <2>1, <1>h, EndedSlot, Closes DEF LoadOutOfMemory, Ticketed, Locked
<1>6. CASE LoadError(w)
  BY <1>6, <1>h, EndedSlot DEF LoadError, Ticketed, Locked, BarrierMoves
<1>7. CASE Callback(w) \/ CallbackGate(w) \/ CallbackClose(w)
  <2>1. PICK label \in Inferring : Goto(w, label)
    BY <1>7 DEF Callback, CallbackGate, CallbackClose, Inferring
  <2>2. /\ pc[w] \in Inferring /\ pc'[w] = label /\ local'[w] = local[w]
        /\ \A u \in Threads : u # w => pc'[u] = pc[u] /\ local'[u] = local[u]
    BY <1>0, <1>7, <2>1
       DEF Callback, CallbackGate, CallbackClose, Goto, TypeOK, Inferring, shared
  <2>3. Using(w) /\ ~Due(w)' /\ Bears(w) /\ GenOf(w)' = GenOf(w)
    BY <2>2 DEF Using, Due, Bears, GenOf, Inferring
  <2>4. BarrierMoves
    BY <1>7, Closes DEF Callback, CallbackGate, CallbackClose, BarrierMoves, shared
  <2>5. /\ transitions' = transitions /\ model' = model /\ cancelled' = cancelled
        /\ loadLock' = loadLock
    BY <1>7 DEF Callback, CallbackGate, CallbackClose, shared
  <2>6. /\ pc'[w] \notin Locked /\ pc'[w] \notin Owning /\ pc'[w] \notin Loading
        /\ pc'[w] \notin Claiming /\ pc'[w] # "lock" /\ pc'[w] # "rel"
    BY <2>2 DEF Locked, Owning, Loading, Claiming, Inferring
  <2>7. PlainTicketStep(w)
    BY <2>2, <2>3, <2>4, <2>5, <2>6, <1>b DEF PlainTicketStep
  <2> QED BY <1>0, <2>7, TicketStep
<1>8. CASE Yield(w) \/ InferOutOfMemory(w)
  <2>1. /\ Moves(w, "unslot") /\ local'[w].gen = local[w].gen
        /\ local'[w].result \in Ticketed
    <3>1. CASE InferOutOfMemory(w)
      BY <1>0, <3>1, ResultMoves DEF InferOutOfMemory, Ticketed
    <3>2. CASE Yield(w)
      <4>1. local[w] \in LocalType
        BY <1>0 DEF TypeOK
      <4> QED BY <1>0, <3>2, <4>1 DEF Yield, Moves, TypeOK, LocalType, Ticketed
    <3> QED BY <1>8, <3>1, <3>2
  <2>2. /\ pc[w] \in Inferring /\ pc'[w] = "unslot"
        /\ \A u \in Threads : u # w => pc'[u] = pc[u] /\ local'[u] = local[u]
    BY <1>0, <1>8, <2>1 DEF Yield, InferOutOfMemory, Moves, Goto, TypeOK, Inferring
  <2>3. Using(w) /\ ~Due(w)' /\ Bears(w) /\ GenOf(w)' = GenOf(w)
    BY <2>1, <2>2 DEF Using, Due, Bears, GenOf, Inferring
  <2>4. BarrierMoves
    BY <1>8, Closes DEF Yield, InferOutOfMemory
  <2>5. /\ transitions' = transitions /\ model' = model /\ cancelled' = cancelled
        /\ loadLock' = loadLock
    BY <1>8 DEF Yield, InferOutOfMemory
  <2>7. PlainTicketStep(w)
    BY <2>1, <2>2, <2>3, <2>4, <2>5, <1>b
       DEF PlainTicketStep, Locked, Owning, Loading, Claiming
  <2> QED BY <1>0, <2>7, TicketStep
<1>9. CASE InferReturn(w)
  <2>1. PICK r \in {"done", "error"} : EndSlot(w, r)
    BY <1>9 DEF InferReturn
  <2> QED BY <1>9, <2>1, EndedSlot DEF InferReturn, Ticketed, shared, BarrierMoves
<1>10. CASE ReleasePermit(w)
  <2>2. /\ pc[w] = "unslot" /\ pc'[w] = "deact" /\ local'[w] = local[w]
        /\ \A u \in Threads : u # w => pc'[u] = pc[u] /\ local'[u] = local[u]
    BY <1>0, <1>10 DEF ReleasePermit, Goto, TypeOK
  <2>3. /\ ~Using(w)' /\ (Due(w)' => Using(w)) /\ (Bears(w)' => Bears(w))
        /\ GenOf(w)' = GenOf(w)
    BY <2>2 DEF Using, Due, Bears, GenOf, Inferring, Loading
  <2>4. PlainTicketStep(w)
    BY <1>10, <2>2, <2>3, <1>b
       DEF PlainTicketStep, ReleasePermit, BarrierMoves, Locked, Owning, Loading, Claiming
  <2> QED BY <1>0, <2>4, TicketStep
<1>11. CASE Deactivate(w)
  <2>0. /\ pc[w] = "deact" /\ closed' = closed /\ relGen' = relGen /\ transitions' = transitions
        /\ model' = model /\ cancelled' = cancelled /\ loadLock' = loadLock
    BY <1>11 DEF Deactivate
  <2>1. CASE AfterSlot(w) = "rel"
    <3>1. local[w].result # "done"
      BY <2>1 DEF AfterSlot
    <3>2. Goto(w, "rel") /\ SetLocal(w, TicketOf(w))
      BY <1>11, <2>1, <3>1 DEF Deactivate
    <3>3. /\ TicketOf(w).result = local[w].result
          /\ TicketOf(w).source = BoundTo(local[w].gen)
      <4>1. AtRest(w) \in LocalType
        BY <1>0, AtRestType
      <4> QED BY <4>1 DEF TicketOf, LocalType
    <3>4. /\ pc'[w] = "rel" /\ local'[w] = TicketOf(w)
          /\ \A u \in Threads : u # w => pc'[u] = pc[u] /\ local'[u] = local[u]
      BY <1>0, <3>2, LocalMoves DEF Goto, TypeOK
    <3>5. local'[w].source.bound /\ GenOf(w)' = local[w].gen /\ GenOf(w) = local[w].gen
      BY <2>0, <3>3, <3>4 DEF BoundTo, GenOf
    <3>6. /\ ~Using(w)' /\ (Due(w)' => Due(w)) /\ (Bears(w)' => Bears(w))
      BY <2>0, <3>3, <3>4 DEF Using, Due, Bears, Inferring, Loading
    <3>7. PlainTicketStep(w)
      BY <2>0, <3>4, <3>5, <3>6, <1>b
         DEF PlainTicketStep, BarrierMoves, Locked, Owning, Loading, Claiming
    <3> QED BY <1>0, <3>7, TicketStep
  <2>2. CASE AfterSlot(w) # "rel"
    <3>1. AfterSlot(w) \in {"admit", "commit", "idle", "recover"}
      BY <2>2 DEF AfterSlot
    <3>2. PICK l : SetLocal(w, l)
      BY <1>11 DEF Deactivate, EndTask
    <3>3. Goto(w, AfterSlot(w))
      BY <1>11 DEF Deactivate, EndTask
    <3>4. Moves(w, AfterSlot(w))
      BY <1>0, <3>2, <3>3, LocalMoves DEF Moves
    <3> QED BY <1>0, <2>0, <3>1, <3>4, CarefreeStep, CarefreeLabels DEF BarrierMoves
  <2> QED BY <2>1, <2>2
<1> QED
  BY <1>1, <1>2, <1>3, <1>4, <1>5, <1>6, <1>7, <1>8, <1>9, <1>10, <1>11 DEF UseSlot

\* A model that is gone belongs to nobody: the release that unloaded it is later
\* than every ticket still held, or nothing will be loaded any more.
LEMMA GoneTickets ==
    ASSUME TypeOK, TypeOK', SlotInv, TicketInv, TracksBirth, NEW t \in Threads,
           pc[t] = "unload", NEW label \in {"relFree", "latch"}, Goto(t, label),
           local' = local, loadLock' = Free, model' = FALSE, closed' = closed,
           relGen' = relGen, transitions' = transitions, cancelled' = cancelled
    PROVE  TicketInv'
<1>0. Workers \subseteq Threads
  BY ThreadSets
<1>1. /\ pc'[t] = label
      /\ \A u \in Threads : u # t => pc'[u] = pc[u]
  BY DEF Goto, TypeOK
<1>2. born' = 0
  BY DEF TracksBirth
<1>3. \A w \in Workers : pc[w] \notin InSlot
  BY DrainedExcludes, OutsideSlot
<1>4. loadLock = t
  BY DEF TicketInv, LockInv, LockHeld, Locked
<1>5. \A u \in Threads : pc'[u] \notin Locked
  BY <1>1, <1>4 DEF TicketInv, LockInv, LockHeld, Locked
<1>6. LockHeld' /\ LoadsAbsent'
  BY <1>0, <1>5 DEF LockHeld, LoadsAbsent, Locked, Loading
<1>7. /\ HasTransition' = HasTransition /\ Current' = Current
      /\ TransitionActive' = TransitionActive
  BY DEF HasTransition, Current, TransitionActive
<1>8. \A u \in Threads : pc'[u] \in Owning => pc[u] \in Owning
  BY <1>1 DEF Owning
<1>9. OwnerInv'
  BY <1>0, <1>7, <1>8
     DEF TicketInv, OwnerInv, GenerationsGrow, ReleaseShuts, OwnsLast, OneOwner
<1>10. \A w \in Workers : ~Using(w)' /\ (Due(w)' => Due(w)) /\ (Bears(w)' => Due(w)')
                          /\ (Due(w)' => GenOf(w)' = GenOf(w))
  BY <1>0, <1>1, <1>3 DEF Using, Due, Bears, GenOf, Inferring, Loading, InSlot
<1>11. \A w \in Workers : Due(w) => Bears(w)
  BY DEF Bears
<1>12. TicketAges'
  <2>1. ASSUME NEW w \in Workers, Bears(w)' PROVE Bears(w) /\ GenOf(w)' = GenOf(w)
    BY <2>1, <1>10, <1>11
  <2> QED BY <2>1, <1>7 DEF TicketInv, TicketAges
<1>13. BornBefore'
  BY <1>2 DEF BornBefore
<1>14. UsesOwn' /\ DueBound'
  BY <1>0, <1>1, <1>10 DEF UsesOwn, DueBound, TicketInv
<1>15. DueOwn'
  <2> SUFFICES ASSUME NEW w \in Workers, Due(w)' PROVE Spent(GenOf(w))' \/ Over'
    BY DEF DueOwn
  <2>1. Due(w) /\ Bears(w) /\ GenOf(w)' = GenOf(w)
    BY <1>10, <1>11
  <2>2. TransitionActive
    BY DEF TicketInv, OwnerInv, OwnsLast, Owning
  <2>3. GenOf(w) < Current.gen \/ cancelled
    BY <2>1, <2>2 DEF TicketInv, TicketAges
  <2>4. CASE GenOf(w) < Current.gen
    <3>1. HasTransition' /\ GenOf(w)' < Current'.gen
      BY <2>1, <2>2, <2>4, <1>7 DEF TransitionActive
    <3>2. GenOf(w)' \in Int /\ Current'.gen \in Int
      <4>1. Current.gen \in Nat
        BY <2>2, GenTypes DEF TransitionActive
      <4>2. GenOf(w) \in Int
        BY <1>0, GenTypes DEF GenOf
      <4> QED BY <2>1, <4>1, <4>2, <1>7
    <3> QED BY <3>1, <3>2 DEF Spent
  <2>5. CASE cancelled
    <3>1. \A v \in Workers : pc'[v] \notin Loading \cup {"lock"}
      BY <1>0, <1>1, <1>3 DEF InSlot, Loading
    <3> QED BY <2>5, <3>1 DEF Over
  <2> QED BY <2>3, <2>4, <2>5
<1>16. ClaimsOwn'
  <2>1. \A v \in Workers : pc'[v] \notin Loading
    BY <1>0, <1>5 DEF Locked, Loading
  <2> QED BY <2>1 DEF ClaimsOwn
<1> QED BY <1>6, <1>9, <1>12, <1>13, <1>14, <1>15, <1>16 DEF TicketInv, LockInv

\* The owner ends its release; the transition keeps its generation.
LEMMA FinishTickets ==
    ASSUME TypeOK, TypeOK', TicketInv, TracksBirth, NEW t \in Threads, FinishRelease(t)
    PROVE  TicketInv'
<1>0. Workers \subseteq Threads
  BY ThreadSets
<1>1. /\ pc[t] = "relDone" /\ closed' = closed /\ relGen' = relGen /\ model' = model
      /\ loadLock' = loadLock /\ cancelled' = cancelled
  BY DEF FinishRelease
<1>2. PICK label \in {"idle", "oFail", "observe", "quarantine", "recover", "abortReopen"} :
        Moves(t, label)
  BY LocalMoves
     DEF FinishRelease, LeaveRelease, Raise, EndTask, AfterRelease, Home, Moves
<1>3. /\ pc'[t] = label
      /\ \A u \in Threads : u # t => pc'[u] = pc[u] /\ local'[u] = local[u]
  BY <1>2 DEF Moves, Goto, TypeOK
<1>4. TransitionActive /\ local[t].tx = Len(transitions)
  BY <1>1 DEF TicketInv, OwnerInv, OwnsLast, Owning
<1>5. HasTransition' /\ ~TransitionActive' /\ Current'.gen = Current.gen
  <2>1. transitions \in Seq(Transition) /\ transitions # << >>
    BY <1>4 DEF TypeOK, TransitionActive, HasTransition
  <2>2. Len(transitions) \in 1 .. Len(transitions)
    BY <2>1, EmptySeq, LenProperties
  <2>3. transitions \in [1 .. Len(transitions) -> Transition]
    BY <2>1, LenProperties
  <2>4. DOMAIN transitions' = DOMAIN transitions
        /\ transitions'[Len(transitions)] =
             [[transitions[Len(transitions)] EXCEPT !.complete = TRUE]
                                              EXCEPT !.failed = local[t].failed]
    BY <1>4, <2>2, <2>3 DEF FinishRelease
  <2>5. transitions' \in Seq(Transition)
    BY DEF TypeOK
  <2>6. Len(transitions') = Len(transitions)
    BY <2>1, <2>4, <2>5, LenProperties
  <2>7. transitions[Len(transitions)] \in Transition
    BY <2>2, <2>3
  <2>8. Current'.complete = TRUE /\ Current'.gen = Current.gen
    BY <2>4, <2>6, <2>7 DEF Current, Transition
  <2>9. transitions' # << >>
    BY <2>1, <2>2, <2>5, <2>6, EmptySeq
  <2> QED BY <2>8, <2>9 DEF HasTransition, TransitionActive
<1>6. /\ label \notin Locked /\ label \notin Owning /\ label \notin Loading /\ label # "lock"
      /\ label \notin Claiming /\ label \notin Inferring
      /\ label \notin {"unslot", "deact", "rel"}
  BY DEF Locked, Owning, Loading, Claiming, Inferring
<1>7. LockHeld' /\ LoadsAbsent'
  BY <1>0, <1>1, <1>3, <1>6 DEF TicketInv, LockInv, LockHeld, LoadsAbsent
<1>8. \A u \in Threads : pc'[u] \notin Owning
  BY <1>1, <1>3, <1>6 DEF TicketInv, OwnerInv, OneOwner, Owning
<1>9. OwnerInv'
  <2>1. Current.gen <= relGen
    BY <1>4 DEF TicketInv, OwnerInv, GenerationsGrow, TransitionActive
  <2> QED BY <1>1, <1>5, <1>8, <2>1
          DEF OwnerInv, GenerationsGrow, ReleaseShuts, OwnsLast, OneOwner
<1>10. \A w \in Workers :
          /\ w # t => /\ Using(w)' = Using(w) /\ Due(w)' = Due(w) /\ Bears(w)' = Bears(w)
                      /\ GenOf(w)' = GenOf(w) /\ local'[w] = local[w] /\ pc'[w] = pc[w]
          /\ w = t => ~Using(w)' /\ ~Due(w)' /\ ~Bears(w)'
  BY <1>0, <1>3, <1>6 DEF Using, Due, Bears, GenOf
<1>11. born' = IF model THEN born ELSE 0
  BY <1>1 DEF TracksBirth
<1>12. TicketAges'
  BY <1>1, <1>5, <1>10 DEF TicketInv, TicketAges
<1>13. BornBefore'
  BY <1>1, <1>11 DEF TicketInv, BornBefore
<1>14. UsesOwn'
  BY <1>1, <1>10, <1>11 DEF TicketInv, UsesOwn
<1>15. DueBound'
  BY <1>0, <1>3, <1>6 DEF TicketInv, DueBound
<1>16. DueOwn'
  <2>1. Over => Over'
    BY <1>0, <1>1, <1>3, <1>6 DEF Over
  <2>2. ASSUME NEW w \in Workers, Due(w)'
        PROVE (model' /\ born' <= GenOf(w)') \/ Spent(GenOf(w))' \/ Over'
    <3>1. Due(w) /\ GenOf(w)' = GenOf(w)
      BY <1>10, <2>2
    <3>2. (model /\ born <= GenOf(w)) \/ Spent(GenOf(w)) \/ Over
      BY <3>1 DEF TicketInv, DueOwn
    <3> QED BY <1>1, <1>5, <1>11, <2>1, <3>1, <3>2 DEF Spent
  <2> QED BY <2>2 DEF DueOwn
<1>17. ClaimsOwn'
  BY <1>0, <1>8 DEF ClaimsOwn, Claiming, Owning
<1> QED BY <1>7, <1>9, <1>12, <1>13, <1>14, <1>15, <1>16, <1>17 DEF TicketInv, LockInv

\* A new release is later than every other, and than every ticket but its
\* owner's; an owner with a ticket finds its own model, an older one, or none.
LEMMA OwnTickets ==
    ASSUME TypeOK, TypeOK', TicketInv, TracksBirth, NEW t \in Threads, OwnRelease(t)
    PROVE  TicketInv'
<1>0. Workers \subseteq Threads
  BY ThreadSets
<1>1. /\ pc[t] = "rel" /\ closed' = TRUE /\ relGen' = NextGeneration /\ model' = model
      /\ loadLock' = loadLock /\ cancelled' = cancelled /\ ~JoinsRelease(t)
      /\ Goto(t, "drain") /\ local' = [local EXCEPT ![t].tx = Len(transitions) + 1]
  BY DEF OwnRelease
<1>2. /\ pc'[t] = "drain"
      /\ \A u \in Threads : u # t => pc'[u] = pc[u] /\ local'[u] = local[u]
      /\ local'[t].tx = Len(transitions) + 1
      /\ local'[t].source = local[t].source /\ local'[t].result = local[t].result
  <2>1. local[t] \in LocalType
    BY DEF TypeOK
  <2> QED BY <1>1, <2>1 DEF Goto, TypeOK, LocalType
<1>3. /\ HasTransition' /\ TransitionActive' /\ Current'.gen = NextGeneration
      /\ Len(transitions') = Len(transitions) + 1
  <2>1. transitions \in Seq(Transition)
    BY DEF TypeOK
  <2> DEFINE e == [gen |-> NextGeneration, complete |-> FALSE, failed |-> FALSE]
  <2>2. transitions' = Append(transitions, e)
    BY DEF OwnRelease
  <2>3. /\ Len(transitions') = Len(transitions) + 1 /\ transitions'[Len(transitions) + 1] = e
        /\ transitions' # << >>
    <3> HIDE DEF e
    <3> QED BY <2>1, <2>2
  <2> QED BY <2>3 DEF HasTransition, TransitionActive, Current
<1>4. /\ relGen \in Nat /\ NextGeneration \in Nat /\ relGen <= NextGeneration
      /\ ~closed => relGen < NextGeneration
      /\ HasTransition => Current.gen \in Nat /\ Current.gen < NextGeneration
  BY GenTypes DEF NextGeneration, TicketInv, OwnerInv, GenerationsGrow
<1>5. ~TransitionActive /\ \A u \in Threads : pc[u] \notin Owning
  BY <1>1 DEF JoinsRelease, TicketInv, OwnerInv, OwnsLast
<1>6. LockHeld' /\ LoadsAbsent'
  BY <1>0, <1>1, <1>2 DEF TicketInv, LockInv, LockHeld, LoadsAbsent, Locked, Loading
<1>7. OwnerInv'
  BY <1>1, <1>2, <1>3, <1>4, <1>5
     DEF OwnerInv, GenerationsGrow, ReleaseShuts, OwnsLast, OneOwner
<1>8. \A w \in Workers :
          /\ w # t => /\ Using(w)' = Using(w) /\ Due(w)' = Due(w) /\ Bears(w)' = Bears(w)
                      /\ GenOf(w)' = GenOf(w)
          /\ w = t => ~Using(w)' /\ ~Due(w)' /\ ~Bears(w)'
  BY <1>0, <1>2 DEF Using, Due, Bears, GenOf, Inferring, Loading
<1>9. born' = IF model THEN born ELSE 0
  BY <1>1 DEF TracksBirth
<1>10. TicketAges'
  <2> SUFFICES ASSUME NEW w \in Workers, Bears(w)'
               PROVE  /\ GenOf(w)' <= relGen'
                      /\ GenOf(w)' < relGen' \/ cancelled'
                      /\ GenOf(w)' < Current.gen' \/ cancelled'
    BY DEF TicketAges
  <2>1. Bears(w) /\ GenOf(w)' = GenOf(w) /\ GenOf(w) \in Int
    BY <1>0, <1>8, GenTypes DEF GenOf
  <2>2. GenOf(w) <= relGen /\ (closed => GenOf(w) < relGen \/ cancelled)
    BY <2>1 DEF TicketInv, TicketAges
  <2>3. GenOf(w) <= NextGeneration /\ (GenOf(w) < NextGeneration \/ cancelled)
    BY <2>1, <2>2, <1>4
  <2> QED BY <2>1, <2>3, <1>1, <1>3
<1>11. BornBefore'
  <2>1. born \in Nat /\ (model => born <= relGen)
    BY DEF TicketInv, BornBefore
  <2> QED BY <2>1, <1>1, <1>4, <1>9 DEF BornBefore
<1>12. UsesOwn'
  <2> SUFFICES ASSUME NEW w \in Workers, Using(w)' PROVE model' /\ born' <= local'[w].gen
    BY DEF UsesOwn
  <2>1. Using(w) /\ w # t
    BY <1>8
  <2> QED BY <2>1, <1>0, <1>1, <1>2, <1>9 DEF TicketInv, UsesOwn
<1>13. DueBound'
  BY <1>0, <1>2 DEF TicketInv, DueBound
<1>14. DueOwn'
  <2>1. Over => Over'
    BY <1>0, <1>1, <1>2 DEF Over, Loading
  <2>2. ASSUME NEW w \in Workers, Due(w)'
        PROVE (model' /\ born' <= GenOf(w)') \/ Spent(GenOf(w))' \/ Over'
    <3>1. Due(w) /\ GenOf(w)' = GenOf(w) /\ GenOf(w) \in Int
      BY <1>0, <1>8, <2>2, GenTypes DEF GenOf
    <3>2. (model /\ born <= GenOf(w)) \/ Spent(GenOf(w)) \/ Over
      BY <3>1 DEF TicketInv, DueOwn
    <3>3. Spent(GenOf(w)) => Spent(GenOf(w))'
      BY <1>3, <1>4, <3>1 DEF Spent
    <3> QED BY <1>1, <1>9, <2>1, <3>1, <3>2, <3>3
  <2> QED BY <2>2 DEF DueOwn
<1>15. ClaimsOwn'
  <2> SUFFICES ASSUME NEW w \in Workers, pc'[w] \in Claiming, local'[w].result \in Ticketed
               PROVE  /\ model' => born' <= local'[w].source.gen
                      /\ \A v \in Workers : pc'[v] \notin Loading
    BY DEF ClaimsOwn
  <2>1. w = t /\ local[w].result \in Ticketed
    BY <1>0, <1>2, <1>5 DEF Claiming, Owning
  <2>2. Due(w) /\ GenOf(w) = local[w].source.gen /\ local[w].source.bound
    BY <2>1, <1>1 DEF Due, GenOf, TicketInv, DueBound
  <2>3. ~Spent(GenOf(w))
    <3>1. HasTransition => ~(Current.gen > local[t].source.gen)
      BY <1>1, <2>1, <2>2 DEF JoinsRelease
    <3> QED BY <2>1, <2>2, <3>1 DEF Spent
  <2>4. (model /\ born <= GenOf(w)) \/ Over
    BY <2>2, <2>3 DEF TicketInv, DueOwn
  <2>5. \A v \in Workers : pc[v] \notin Loading
    BY <2>4 DEF TicketInv, LockInv, LoadsAbsent, Over
  <2>6. model => born <= GenOf(w)
    BY <2>4 DEF Over
  <2> QED BY <1>0, <1>1, <1>2, <1>9, <2>1, <2>2, <2>5, <2>6 DEF Loading
<1> QED BY <1>6, <1>7, <1>10, <1>11, <1>12, <1>13, <1>14, <1>15 DEF TicketInv, LockInv

\* Releasing, by any thread.
LEMMA ReleaseTickets ==
    ASSUME TypeOK, TypeOK', SlotInv, TicketInv, TracksBirth, NEW t \in Threads, Release(t)
    PROVE  TicketInv'
<1>h. pc[t] \in Locked => loadLock = t
  BY DEF TicketInv, LockInv, LockHeld
<1>b. model' = model => born' = IF model THEN born ELSE 0
  BY DEF TracksBirth
<1>1. CASE JoinRelease(t)
  <2>1. Moves(t, "join")
    BY <1>1 DEF JoinRelease, Moves, TypeOK
  <2> QED BY <1>1, <2>1, CarefreeStep, CarefreeLabels DEF JoinRelease, shared, BarrierMoves
<1>2. CASE OwnRelease(t)
  BY <1>2, OwnTickets
<1>3. CASE DrainPermit(t)
  <2>1. PICK label \in {"drain", "relLock"} : Goto(t, label)
    BY <1>3 DEF DrainPermit
  <2>2. /\ pc[t] = "drain" /\ pc'[t] = label /\ local'[t] = local[t]
        /\ \A u \in Threads : u # t => pc'[u] = pc[u] /\ local'[u] = local[u]
    BY <1>3, <2>1 DEF DrainPermit, Goto, TypeOK
  <2>3. ~Using(t)' /\ ~Due(t)' /\ ~Bears(t)'
    BY <2>2 DEF Using, Due, Bears, Inferring, Loading
  <2>4. PlainTicketStep(t)
    BY <1>3, <2>2, <2>3, <1>b
       DEF PlainTicketStep, DrainPermit, BarrierMoves, Locked, Owning, Loading, Claiming
  <2> QED BY <2>4, TicketStep
<1>4. CASE ReleaseLock(t)
  <2>1. PICK label \in {"unload", "relFree"} :
          /\ Goto(t, label) /\ local'[t].tx = local[t].tx
          /\ label = "unload" => loadLock' = t /\ local' = local
          /\ label = "relFree" => loadLock' = loadLock
          /\ \A u \in Threads : u # t => local'[u] = local[u]
    <3>1. local[t] \in LocalType
      BY DEF TypeOK
    <3> QED BY <1>4, <3>1 DEF ReleaseLock, LocalType, TypeOK
  <2>2. /\ pc[t] = "relLock" /\ pc'[t] = label /\ loadLock = Free
        /\ \A u \in Threads : u # t => pc'[u] = pc[u] /\ local'[u] = local[u]
    BY <1>4, <2>1 DEF ReleaseLock, Goto, TypeOK
  <2>3. ~Using(t)' /\ ~Due(t)' /\ ~Bears(t)'
    BY <2>2 DEF Using, Due, Bears, Inferring, Loading
  <2>4. PlainTicketStep(t)
    BY <1>4, <2>1, <2>2, <2>3, <1>b
       DEF PlainTicketStep, ReleaseLock, BarrierMoves, Locked, Owning, Loading, Claiming
  <2> QED BY <2>4, TicketStep
<1>5. CASE Unload(t)
  BY <1>5, GoneTickets DEF Unload
<1>6. CASE UnloadFails(t)
  <2>1. CASE model' = FALSE
    BY <1>6, <2>1, GoneTickets DEF UnloadFails
  <2>2. CASE model' = model
    <3>1. /\ pc[t] = "unload" /\ pc'[t] = "latch" /\ local'[t] = local[t]
          /\ \A u \in Threads : u # t => pc'[u] = pc[u] /\ local'[u] = local[u]
      BY <1>6 DEF UnloadFails, Goto, TypeOK
    <3>2. ~Using(t)' /\ ~Due(t)' /\ ~Bears(t)'
      BY <3>1 DEF Using, Due, Bears, Inferring, Loading
    <3>3. PlainTicketStep(t)
      BY <1>6, <2>2, <3>1, <3>2, <1>b, <1>h
         DEF PlainTicketStep, UnloadFails, BarrierMoves, Locked, Owning, Loading, Claiming
    <3> QED BY <3>3, TicketStep
  <2> QED BY <1>6, <2>1, <2>2 DEF UnloadFails
<1>7. CASE LatchFailure(t)
  <2>1. /\ pc[t] = "latch" /\ pc'[t] = "relFree" /\ local'[t].tx = local[t].tx
        /\ \A u \in Threads : u # t => pc'[u] = pc[u] /\ local'[u] = local[u]
    <3>1. local[t] \in LocalType
      BY DEF TypeOK
    <3> QED BY <1>7, <3>1 DEF LatchFailure, Goto, TypeOK, LocalType
  <2>2. closed
    BY <2>1 DEF TicketInv, OwnerInv, OwnsLast, ReleaseShuts, Owning
  <2>3. ~Using(t)' /\ ~Due(t)' /\ ~Bears(t)'
    BY <2>1 DEF Using, Due, Bears, Inferring, Loading
  <2>4. PlainTicketStep(t)
    BY <1>7, <2>1, <2>2, <2>3, <1>b
       DEF PlainTicketStep, LatchFailure, BarrierMoves, Locked, Owning, Loading, Claiming
  <2> QED BY <2>4, TicketStep
<1>8. CASE ReturnPermits(t)
  <2>1. /\ pc[t] = "relFree" /\ pc'[t] = "relDone" /\ local'[t] = local[t]
        /\ \A u \in Threads : u # t => pc'[u] = pc[u] /\ local'[u] = local[u]
    BY <1>8 DEF ReturnPermits, Goto, TypeOK
  <2>2. ~Using(t)' /\ ~Due(t)' /\ ~Bears(t)'
    BY <2>1 DEF Using, Due, Bears, Inferring, Loading
  <2>3. PlainTicketStep(t)
    BY <1>8, <2>1, <2>2, <1>b
       DEF PlainTicketStep, ReturnPermits, BarrierMoves, Locked, Owning, Loading, Claiming
  <2> QED BY <2>3, TicketStep
<1>9. CASE FinishRelease(t)
  BY <1>9, FinishTickets
<1>10. CASE Joined(t)
  <2>1. PICK label \in {"idle", "oFail", "observe", "quarantine", "recover"} : Moves(t, label)
    BY <1>10, LocalMoves
       DEF Joined, LeaveRelease, Raise, EndTask, AfterRelease, Home, Moves
  <2> QED BY <1>10, <2>1, CarefreeStep, CarefreeLabels DEF Joined, BarrierMoves
<1>11. CASE AbortReopen(t)
  <2>1. PICK label \in {"idle", "observe"} : Moves(t, label)
    BY <1>11 DEF AbortReopen, Home, Moves
  <2>2. BarrierMoves
    BY <1>11 DEF AbortReopen, Reopen, Reopens, BarrierMoves, TypeOK
  <2> QED BY <1>11, <2>1, <2>2, CarefreeStep, CarefreeLabels DEF AbortReopen
<1> QED
  BY <1>1, <1>2, <1>3, <1>4, <1>5, <1>6, <1>7, <1>8, <1>9, <1>10, <1>11 DEF Release

\* A step of the specification with its history is one of the specification.
LEMMA HistoryIsConservative == MCSpec => Spec
<1>1. MCInit => Init
  BY DEF MCInit
<1>2. [MCNext]_mcVars => [Next]_vars
  BY DEF MCNext, BoundedNext, AtBound, mcVars
<1> QED BY <1>1, <1>2, PTL DEF MCSpec, Spec

\* TicketInv holds of the specification with its history.
LEMMA TicketInvHolds == MCSpec => []TicketInv
<1>1. MCInit => TicketInv
  <2> SUFFICES ASSUME MCInit PROVE TicketInv
    OBVIOUS
  <2>1. /\ \A t \in Threads : pc[t] \in {"observe", "idle"}
        /\ relGen = 0 /\ transitions = << >> /\ model = FALSE /\ born = 0
        /\ Workers \subseteq Threads
    BY ThreadSets DEF MCInit, Init, Home
  <2>2. \A t \in Threads : pc[t] \notin Locked /\ pc[t] \notin Owning
                            /\ pc[t] \notin Claiming /\ pc[t] \notin Loading /\ pc[t] # "rel"
    BY <2>1 DEF Locked, Owning, Claiming, Loading
  <2>3. \A w \in Workers : ~Using(w) /\ ~Due(w) /\ ~Bears(w)
    BY <2>1 DEF Using, Due, Bears, Inferring, Loading
  <2>4. ~HasTransition /\ ~TransitionActive
    BY <2>1 DEF HasTransition, TransitionActive
  <2> QED BY <2>1, <2>2, <2>3, <2>4
          DEF TicketInv, LockInv, LockHeld, LoadsAbsent, OwnerInv, GenerationsGrow,
              ReleaseShuts, OwnsLast, OneOwner, TicketAges, BornBefore, UsesOwn, DueOwn,
              DueBound, ClaimsOwn
<1>2. TypeOK /\ TypeOK' /\ SlotInv /\ TicketInv /\ [MCNext]_mcVars => TicketInv'
  <2> SUFFICES ASSUME TypeOK, TypeOK', SlotInv, TicketInv, [MCNext]_mcVars PROVE TicketInv'
    OBVIOUS
  <2>1. CASE Next /\ TracksBirth
    <3>1. CASE \E w \in Workers : Worker(w)
      BY <2>1, <3>1, TakeSlotTickets, UseSlotTickets, CommitTickets, WaitRecoveryTickets
         DEF Worker
    <3>2. CASE \E c \in Cleaners : CleanupTimer(c)
      BY <2>1, <3>2, CleanupTimerTickets
    <3>3. CASE \E t \in Threads : Release(t)
      BY <2>1, <3>3, ReleaseTickets
    <3>4. CASE Observe
      BY <2>1, <3>4, ObserveTickets
    <3>5. CASE Shutdown
      <4>1. PlainTicketStep(Observer)
        BY <2>1, <3>5, RuntimeAssumption
           DEF Shutdown, PlainTicketStep, TracksBirth, BarrierMoves
      <4> QED BY <4>1, TicketStep, ThreadSets
    <3> QED BY <2>1, <3>1, <3>2, <3>3, <3>4, <3>5 DEF Next
  <2>2. CASE UNCHANGED vars /\ born' = IF model THEN born ELSE 0
    <3>1. PlainTicketStep(Observer)
      BY <2>2, RuntimeAssumption DEF PlainTicketStep, BarrierMoves, vars, shared
    <3> QED BY <3>1, TicketStep, ThreadSets
  <2>3. CASE UNCHANGED mcVars
    <3>1. UNCHANGED <<vars, born>>
      BY <2>3 DEF mcVars
    <3> QED BY <3>1 DEF vars, shared, TicketInv, LockInv, LockHeld, LoadsAbsent, OwnerInv,
              GenerationsGrow, HasTransition, TransitionActive, Current, Using, Due, Bears,
              GenOf, Spent, Over,
              ReleaseShuts, OwnsLast, OneOwner, TicketAges, BornBefore, UsesOwn, DueOwn,
              DueBound, ClaimsOwn
  <2>4. CASE AtBound /\ TracksBirth
    BY <2>2, <2>4 DEF AtBound, TracksBirth, vars, shared
  <2> QED BY <2>1, <2>3, <2>4 DEF MCNext, BoundedNext
<1>3. MCSpec => [](TypeOK /\ SlotInv)
  BY HistoryIsConservative, TypeCorrect, SlotInvHolds, PTL
<1> QED BY <1>1, <1>2, <1>3, PTL DEF MCSpec

\* release_after_inference_failure unloads no model that was loaded after the
\* inference its ticket is about, with any number of workers, permits, observers
\* and cleanups, and however often the barrier was closed and reopened between the
\* failure and the release.
THEOREM TicketsReleaseTheirOwn == MCSpec => []TicketReleasesItsOwnModel
<1>1. TicketInv => TicketReleasesItsOwnModel
  BY DEF TicketInv, ClaimsOwn, TicketReleasesItsOwnModel, Claiming, Ticketed
<1> QED BY <1>1, TicketInvHolds, PTL
=============================================================================

--------------------------- MODULE MCModelRuntime ---------------------------
(***************************************************************************)
(* ModelRuntime for TLC.  The release generation and the controller's      *)
(* external-recovery counter grow without limit; MaxGen and MaxExt bound   *)
(* them.  The history variable born records the slot generation in which   *)
(* the resident model was loaded.                                          *)
(***************************************************************************)
EXTENDS ModelRuntime, TLC

CONSTANTS MaxGen, MaxExt

VARIABLE born

mcVars == <<vars, born>>

MCInit == Init /\ born = 0

\* Once MaxGen is reached, behaviours may stop there.
Bounded == relGen' <= MaxGen /\ ctl'.extGen <= MaxExt
AtBound == relGen = MaxGen /\ UNCHANGED vars

TracksBirth ==
    born' = IF ~model /\ model'
            THEN local[CHOOSE w \in Workers : pc[w] = "load"].gen
            ELSE IF model' THEN born ELSE 0

BoundedNext == (Next /\ Bounded) \/ AtBound
MCNext == BoundedNext /\ TracksBirth

MCSpec == MCInit /\ [][MCNext]_mcVars

\* ... without the history, for the runs that do not need it.
BoundedSpec == MCInit /\ [][BoundedNext /\ UNCHANGED born]_mcVars

MCFairSpec == BoundedSpec /\ Fairness

Symmetry == Permutations(Workers) \cup Permutations(Permits)

\* "Release only the generation bound to a pressure/allocation control": the
\* model an inference's ticket unloads (release_after_inference_failure) was
\* loaded no later than the generation that inference ran in.
TicketReleasesItsOwnModel ==
    \A w \in Workers :
        /\ pc[w] = "unload" /\ model
        /\ local[w].result \in {"pressure", "alloc"}
        => born <= local[w].source.gen

\* "Wait through controller recovery, then atomically reopen admission": once
\* the controller is normal the barrier does not stay closed for ever (unless
\* the run reached its bound).
NormalReopens ==
    (ctl.state = "normal" /\ closed)
        ~> (~closed \/ ctl.state # "normal" \/ relGen = MaxGen)

\* "No release acknowledgement can arrive for an unloaded model": the
\* controller does not wait for ever for a release nobody will make.
YieldIsAcknowledged ==
    ctl.state = "yielding" ~> (ctl.state # "yielding" \/ relGen = MaxGen)
=============================================================================

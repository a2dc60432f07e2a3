-------------------------- MODULE MCTranscription --------------------------
(***************************************************************************)
(* The two ways a service process transcribes its files, for TLC.  Which   *)
(* one it takes is settled when it starts: the coordinator's model, file   *)
(* by file (FileTranscription), or the device cohort                       *)
(* (CohortTranscription).  In the model's way a transcript is the set of   *)
(* recordings it was made from, and the files are a gate's long and short  *)
(* one; in the cohort's, two GPUs get either a file long enough to fill    *)
(* the spool of staged chunks or a short one whose chunks can be split,    *)
(* with pressure and a shutdown at any moment.                             *)
(***************************************************************************)
EXTENDS FileTranscription, CohortTranscription

CONSTANTS f1, f2, w1, w2

Recordings == {{0}, {1}, {0, 1}, Foreign}
LongAndShort == [p \in {f1, f2} |-> IF p = f1 THEN 3 ELSE 2]
PhaseAThenB == <<f1, f2>>

TwoGpus == <<w1, w2>>
LongAndShortFile ==
    {[length |-> 5, budget |-> 1, pressure |-> 0, stops |-> FALSE],
     [length |-> 2, budget |-> 2, pressure |-> 1, stops |-> TRUE]}

VARIABLE mode

trVars == <<ftVars, coVars, mode>>

\* The way not taken stays in one of its initial states.
TrInit ==
    /\ FtInit /\ CoInit
    /\ mode \in {"model", "cohort"}
    /\ mode = "model" => coFile.stops
    /\ mode = "cohort" => /\ ~gate /\ ~segmented /\ ~validated
                          /\ \A p \in Paths : target[p].now = Absent

TrNext ==
    /\ \/ mode = "model" /\ FtNext /\ UNCHANGED coVars
       \/ mode = "cohort" /\ CoNext /\ UNCHANGED ftVars
    /\ UNCHANGED mode

\* The fairness of FtSpec and CoSpec; the way not taken has no step enabled.
TrSpec ==
    /\ TrInit /\ [][TrNext]_trVars
    /\ WF_coVars(RunnerStep)
    /\ WF_coVars(LoadStep)
    /\ \A w \in Workers : WF_coVars(InferStep(w))
=============================================================================

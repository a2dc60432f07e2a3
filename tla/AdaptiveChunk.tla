---------------------------- MODULE AdaptiveChunk ----------------------------
(***************************************************************************)
(* AdaptiveChunkState (resource_management.py) as functions on a record,   *)
(* and plan_next_window (segmentation.py).  Time on the media is counted   *)
(* in units of the minimum chunk (five minutes).                           *)
(***************************************************************************)
EXTENDS Naturals, FiniteSetsExt

CONSTANT GrowAfter     \* successes_to_grow

ASSUME GrowAssumption == GrowAfter \in Nat \ {0}

Minimum == 1      \* minimum_seconds

\* AdaptiveChunkState(baseline_seconds).
Freshly(seconds) == [current |-> seconds, failures |-> 0, successes |-> 0]

Shrunk(c) == [c EXCEPT !.current = Max({Minimum, c.current \div 2}),
                       !.successes = 0]

RecordPressureYield(c) == [Shrunk(c) EXCEPT !.failures = 0]

\* Mutant: a failure at the minimum is forgotten.
RecordAllocationFailureForgets(c, attempted) == [Shrunk(c) EXCEPT !.failures = 0]

\* An attempt smaller than the budget takes the budget down to its own size.
\* Only a failure at the minimum size counts, and only in a row.
RecordAllocationFailure(c, attempted) ==
    LET size == Min({c.current, Max({Minimum, attempted})})
    IN  [Shrunk([c EXCEPT !.current = size])
            EXCEPT !.failures = IF size = Minimum THEN c.failures + 1 ELSE 0]

RecordExternalRecovery(c) == [c EXCEPT !.failures = 0, !.successes = 0]

Exhausted(c) == c.failures >= 2

RecordSuccess(c, healthy, baseline) ==
    LET base == [c EXCEPT !.failures = 0]
        won == c.successes + 1
    IN  IF ~healthy \/ c.current >= baseline
        THEN [base EXCEPT !.successes = 0]
        ELSE IF won >= GrowAfter
        THEN [base EXCEPT !.successes = 0,
                          !.current = Min({baseline, c.current * 2})]
        ELSE [base EXCEPT !.successes = won]

\* plan_next_window: the end of the core that starts at from.
PlanNextWindow(from, seconds, limit) == Min({limit, from + seconds})
=============================================================================

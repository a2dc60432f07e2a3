------------------------- MODULE AdaptiveChunkProofs -------------------------
(***************************************************************************)
(* Facts about AdaptiveChunk that the proofs of both transcription paths   *)
(* use: whatever an attempt ends in, the chunk length stays between the    *)
(* minimum and the baseline, and a planned window advances.                *)
(***************************************************************************)
EXTENDS AdaptiveChunk, TLAPS

\* The states of AdaptiveChunkState for a baseline.
Budget(baseline) == [current : Minimum .. baseline, failures : Nat, successes : Nat]

\* The smaller and the larger of two numbers.
LEMMA MinPair ==
    ASSUME NEW a \in Int, NEW b \in Int
    PROVE  Min({a, b}) = IF a <= b THEN a ELSE b
<1>1. \E x \in {a, b} : \A y \in {a, b} : x <= y
    OBVIOUS
<1> QED
    BY <1>1 DEF Min

LEMMA MaxPair ==
    ASSUME NEW a \in Int, NEW b \in Int
    PROVE  Max({a, b}) = IF a >= b THEN a ELSE b
<1>1. \E x \in {a, b} : \A y \in {a, b} : x >= y
    OBVIOUS
<1> QED
    BY <1>1 DEF Max

\* A fresh state has the whole baseline.
LEMMA FreshlyInBudget ==
    ASSUME NEW baseline \in Nat \ {0}
    PROVE  Freshly(baseline) \in Budget(baseline)
BY DEF Freshly, Budget, Minimum

\* Halving stops at the minimum, and never makes a chunk longer.
LEMMA ShrunkInBudget ==
    ASSUME NEW baseline \in Nat \ {0}, NEW c \in Budget(baseline)
    PROVE  Shrunk(c) \in Budget(baseline) /\ Shrunk(c).current <= c.current
<1>1. c.current \div 2 \in Nat /\ c.current \div 2 <= c.current /\ c.current \in Nat
    BY DEF Budget, Minimum
<1> DEFINE half == Max({Minimum, c.current \div 2})
<1>2. half \in Nat /\ Minimum <= half /\ half <= c.current
    BY <1>1, MaxPair DEF Budget, Minimum
<1>3. Shrunk(c) = [c EXCEPT !.current = half, !.successes = 0]
    BY DEF Shrunk
<1> HIDE DEF half
<1>4. half \in Minimum .. baseline
    BY <1>1, <1>2 DEF Budget, Minimum
<1>5. Shrunk(c) = [current |-> half, failures |-> c.failures, successes |-> 0]
    BY <1>3 DEF Budget
<1>6. c.failures \in Nat
    BY DEF Budget
<1> QED
    BY <1>2, <1>4, <1>5, <1>6 DEF Budget

\* record_pressure_yield.
LEMMA PressureYieldInBudget ==
    ASSUME NEW baseline \in Nat \ {0}, NEW c \in Budget(baseline)
    PROVE  RecordPressureYield(c) \in Budget(baseline)
BY ShrunkInBudget DEF RecordPressureYield, Budget

\* record_allocation_failure, whatever size was attempted.
LEMMA AllocationFailureInBudget ==
    ASSUME NEW baseline \in Nat \ {0}, NEW c \in Budget(baseline), NEW attempted \in Int
    PROVE  RecordAllocationFailure(c, attempted) \in Budget(baseline)
<1> DEFINE size == Min({c.current, Max({Minimum, attempted})})
<1>1. size \in Minimum .. baseline
    BY MinPair, MaxPair DEF Budget, Minimum
<1>2. [c EXCEPT !.current = size] \in Budget(baseline)
    BY <1>1 DEF Budget
<1> HIDE DEF size
<1>3. Shrunk([c EXCEPT !.current = size]) \in Budget(baseline)
    BY <1>2, ShrunkInBudget
<1>4. RecordAllocationFailure(c, attempted) =
        [Shrunk([c EXCEPT !.current = size])
            EXCEPT !.failures = IF size = Minimum THEN c.failures + 1 ELSE 0]
    BY DEF RecordAllocationFailure, size
<1> QED
    BY <1>3, <1>4 DEF Budget

\* record_external_recovery.
LEMMA ExternalRecoveryInBudget ==
    ASSUME NEW baseline \in Nat \ {0}, NEW c \in Budget(baseline)
    PROVE  RecordExternalRecovery(c) \in Budget(baseline)
BY DEF RecordExternalRecovery, Budget

\* record_success grows a chunk up to the baseline, never past it.
LEMMA SuccessInBudget ==
    ASSUME NEW baseline \in Nat \ {0}, NEW c \in Budget(baseline), NEW healthy \in BOOLEAN
    PROVE  RecordSuccess(c, healthy, baseline) \in Budget(baseline)
<1>1. c.current * 2 \in Nat /\ c.current \in Nat
    BY DEF Budget, Minimum
<1> DEFINE twice == Min({baseline, c.current * 2})
<1>2. twice \in Minimum .. baseline
    BY <1>1, MinPair DEF Budget, Minimum
<1> HIDE DEF twice
<1>3. \/ RecordSuccess(c, healthy, baseline) = [[c EXCEPT !.failures = 0] EXCEPT !.successes = 0]
      \/ RecordSuccess(c, healthy, baseline) =
            [[c EXCEPT !.failures = 0] EXCEPT !.successes = 0, !.current = twice]
      \/ RecordSuccess(c, healthy, baseline) =
            [[c EXCEPT !.failures = 0] EXCEPT !.successes = c.successes + 1]
    BY DEF RecordSuccess, twice
<1>4. [[c EXCEPT !.failures = 0] EXCEPT !.successes = 0] \in Budget(baseline)
    BY DEF Budget
<1>5. [[c EXCEPT !.failures = 0] EXCEPT !.successes = 0, !.current = twice] \in Budget(baseline)
    BY <1>2 DEF Budget
<1>6. [[c EXCEPT !.failures = 0] EXCEPT !.successes = c.successes + 1] \in Budget(baseline)
  <2>1. c.successes \in Nat
      BY DEF Budget
  <2>2. PICK won \in Nat : won = c.successes + 1
      BY <2>1
  <2>3. [[c EXCEPT !.failures = 0] EXCEPT !.successes = won] \in Budget(baseline)
      BY DEF Budget
  <2> QED
      BY <2>2, <2>3
<1> QED
    BY <1>3, <1>4, <1>5, <1>6

\* plan_next_window: a chunk that starts before the limit ends after its
\* start and at the limit at the latest.
LEMMA WindowAdvances ==
    ASSUME NEW limit \in Nat, NEW from \in Nat, NEW seconds \in Nat \ {0}, from < limit
    PROVE  PlanNextWindow(from, seconds, limit) \in from + 1 .. limit
BY MinPair DEF PlanNextWindow
=============================================================================

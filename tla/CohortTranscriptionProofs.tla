---------------------- MODULE CohortTranscriptionProofs ----------------------
(***************************************************************************)
(* CohortTranscription for every list of workers and every set of files:   *)
(* the memory lease covers every live model process, and the media of a    *)
(* file is partitioned between the journal, the staged chunks, the workers,*)
(* the retry ranges and the rest.                                          *)
(*                                                                         *)
(* LeaseInv: a live process has a handle in the present cohort, a cohort   *)
(* with handles has the lease's token, and the only thread that may add a  *)
(* process is the one load thread, which no release overlaps: a load that  *)
(* outlives its file's drain leaves a cleanup error behind, and that keeps *)
(* the next file out.                                                      *)
(*                                                                         *)
(* MediaInv: the ranges in hand are apart from each other and cover what   *)
(* is between the journal and the fresh media (Fits).  The moves of ranges *)
(* are proved first, for any schedule and futures; then each step of the   *)
(* runner is one of the moves.                                             *)
(***************************************************************************)
EXTENDS CohortTranscription, AdaptiveChunkProofs, FiniteSetTheorems,
        WellFoundedInduction

CohortFields == {"state", "reason", "handles", "active", "token"}
RunnerFields == {"pc", "turn", "fate", "then", "unconfirmed", "bound", "exhausted"}
SchedFields == {"claimed", "done", "retry", "ready", "paused"}
FutFields == {"st", "from", "to"}

Shapes ==
    /\ DOMAIN cohort = CohortFields
    /\ DOMAIN runner = RunnerFields
    /\ DOMAIN load = {"st", "next"}

\* A load that outlives the drain of its file leaves a cleanup error behind.
LoadKept ==
    /\ Loading => runner.pc \in {"loading", "drain", "end", "idle"}
    /\ runner.pc = "end" /\ Loading => runner.fate = "release"
    /\ runner.pc = "idle" /\ Loading => cleanup = TRUE

\* The states of a cohort that owns nothing.
Empty == {"none", "released", "cold"}

\* Processes, handles, token and lease: a live process has a handle, handles
\* need the token, the token is the lease's.
Holding(c, taken, live) ==
    /\ taken \in BOOLEAN
    /\ c.token \in BOOLEAN
    /\ c.handles \in SUBSET Workers
    /\ live \in [Workers -> {0, 1}]
    /\ \A w \in Workers : live[w] = 1 => w \in c.handles
    /\ c.handles # {} => c.token = TRUE
    /\ c.token = TRUE => taken = TRUE

Owned ==
    /\ Holding(cohort, lease, procs)
    /\ cohort.state \in Empty => cohort.handles = {} /\ cohort.token = FALSE
    /\ load.st = "admit" => cohort.handles = {} /\ cohort.token = FALSE
    /\ load.st = "worker" => /\ cohort.token = TRUE
                             /\ load.next \in Nat \ {0}
                             /\ \A i \in 1 .. Len(Selected) :
                                   Selected[i] \in cohort.handles => i < load.next

LeaseInv == Shapes /\ LoadKept /\ Owned

-----------------------------------------------------------------------------
(* Numbers. *)

\* The least element of a set of numbers.
LEMMA MinNat ==
    ASSUME NEW S \in SUBSET Nat, S # {}
    PROVE  Min(S) \in S /\ \A y \in S : Min(S) <= y
<1> DEFINE R == {ss \in Nat \X Nat : ss[1] < ss[2]}
<1>1. IsWellFoundedOn(R, Nat)
    BY NatLessThanWellFounded DEF OpToRel
<1>2. PICK x \in S : \A y \in S : ~(<<y, x>> \in R)
  <2> HIDE DEF R
  <2> QED
    BY <1>1, WFMin
<1>3. \A y \in S : x <= y
  <2> SUFFICES ASSUME NEW y \in S, ~(x <= y) PROVE FALSE
    OBVIOUS
  <2>1. y < x
    OBVIOUS
  <2> DEFINE p == <<y, x>>
  <2>2. p \in Nat \X Nat /\ p[1] = y /\ p[2] = x
    OBVIOUS
  <2> HIDE DEF p
  <2>3. p \in R
    BY <2>1, <2>2
  <2> QED
    BY <1>2, <2>3 DEF p
<1> QED
    BY <1>3 DEF Min

\* A balanced chunk size is at least the minimum.
LEMMA SizePositive ==
    ASSUME NEW b, NEW size \in Minimum .. b
    PROVE  size \in Nat \ {0}
BY DEF Minimum

-----------------------------------------------------------------------------
(* The memory lease. *)

\* d is the cohort c as far as its memory is concerned.
Kindred(c, d) ==
    /\ DOMAIN d = CohortFields
    /\ d.handles = c.handles
    /\ d.token = c.token
    /\ d.state \in Empty => c.state \in Empty

LEMMA CancelKindred ==
    ASSUME NEW c, DOMAIN c = CohortFields, NEW why
    PROVE  Kindred(c, CancelCohort(c, why))
BY DEF Kindred, CancelCohort, CohortFields, Empty

\* What every way into the drain does to the runner and the cohort.
LEMMA ThrowFacts ==
    ASSUME Shapes, NEW s, NEW f, NEW kind, Throw(s, f, kind)
    PROVE  /\ DOMAIN runner' = RunnerFields
           /\ runner'.pc = "drain"
           /\ Kindred(cohort, cohort')
<1>1. \A why : Kindred(cohort, CancelCohort(cohort, why)) /\ Kindred(cohort, cohort)
    BY CancelKindred DEF Shapes, Kindred
<1>2. Kindred(cohort, cohort')
    BY <1>1 DEF Throw, Leave, Control, CancelAll
<1> QED
    BY <1>2 DEF Throw, Leave, Control, Shapes, RunnerFields

LEMMA LeaveFacts ==
    ASSUME Shapes, NEW s, NEW f, NEW fate, Leave(s, f, fate)
    PROVE  /\ DOMAIN runner' = RunnerFields
           /\ runner'.pc = "drain"
           /\ Kindred(cohort, cohort')
<1>1. \A why : Kindred(cohort, CancelCohort(cohort, why)) /\ Kindred(cohort, cohort)
    BY CancelKindred DEF Shapes, Kindred
<1>2. Kindred(cohort, cohort')
    BY <1>1 DEF Leave, CancelAll
<1> QED
    BY <1>2 DEF Leave, Shapes, RunnerFields

LEMMA ControlFacts ==
    ASSUME Shapes, NEW s, NEW f, NEW kind, NEW es, NEW as, Control(s, f, kind, es, as)
    PROVE  /\ DOMAIN runner' = RunnerFields
           /\ runner'.pc = "drain"
           /\ Kindred(cohort, cohort')
<1>1. \A why : Kindred(cohort, CancelCohort(cohort, why)) /\ Kindred(cohort, cohort)
    BY CancelKindred DEF Shapes, Kindred
<1>2. Kindred(cohort, cohort')
    BY <1>1 DEF Control, CancelAll
<1> QED
    BY <1>2 DEF Control, Shapes, RunnerFields

\* A step that neither loads nor releases.
Quiet ==
    /\ lease' = lease
    /\ procs' = procs
    /\ load' = load \/ load' = NoLoad
    /\ Kindred(cohort, cohort')

LEMMA QuietOwned ==
    ASSUME Owned, Quiet
    PROVE  Owned'
<1>1. CASE load' = load
    BY <1>1 DEF Owned, Holding, Quiet, Kindred
<1>2. CASE load' = NoLoad
    BY <1>2 DEF Owned, Holding, Quiet, Kindred, NoLoad
<1> QED
    BY <1>1, <1>2 DEF Quiet

\* A quiet step of the runner that leaves the loop or stays out of a load.
LEMMA QuietStep ==
    ASSUME LeaseInv, Quiet, DOMAIN runner' = RunnerFields,
           cleanup' = cleanup,
           runner'.pc = "drain" \/ ~Loading' \/ runner' = runner
    PROVE  LeaseInv'
<1>1. Owned'
    BY QuietOwned DEF LeaseInv
<1>2. Shapes'
    BY DEF LeaseInv, Shapes, Quiet, Kindred, NoLoad
<1>3. Loading' => load' = load
    BY DEF Quiet, Loading, NoLoad
<1>4. LoadKept'
    BY <1>3 DEF LeaseInv, LoadKept, Loading
<1> QED
    BY <1>1, <1>2, <1>4 DEF LeaseInv

LEMMA KindredSelf ==
    ASSUME Shapes
    PROVE  Kindred(cohort, cohort)
BY DEF Shapes, Kindred

\* Where the runner's steps go when they do not throw.
LEMMA GoFacts ==
    ASSUME Shapes, NEW p, Go(p)
    PROVE  DOMAIN runner' = RunnerFields /\ runner'.pc = p
BY DEF Shapes, Go, RunnerFields

LEMMA StartLease ==
    ASSUME LeaseInv, StartCohortFile
    PROVE  LeaseInv'
<1>1. Quiet /\ cleanup' = cleanup
    BY KindredSelf DEF LeaseInv, StartCohortFile, Quiet
<1>2. cleanup # TRUE
    BY DEF StartCohortFile
<1>3. ~Loading'
    BY <1>2 DEF LeaseInv, LoadKept, StartCohortFile, Loading
<1>4. DOMAIN runner' = RunnerFields
    BY DEF StartCohortFile, At, RunnerFields
<1> QED
    BY <1>1, <1>3, <1>4, QuietStep

LEMMA WatchLoadLease ==
    ASSUME LeaseInv, WatchLoad
    PROVE  LeaseInv'
<1>1. PICK kind : Throw(sched, futs, kind)
    BY DEF WatchLoad
<1>2. DOMAIN runner' = RunnerFields /\ runner'.pc = "drain" /\ Kindred(cohort, cohort')
    BY <1>1, ThrowFacts DEF LeaseInv
<1>3. Quiet /\ cleanup' = cleanup
    BY <1>2 DEF WatchLoad, Frame, Quiet
<1> QED
    BY <1>2, <1>3, QuietStep

LEMMA LoadTakenLease ==
    ASSUME LeaseInv, LoadTaken
    PROVE  LeaseInv'
<1>1. ~Loading' /\ (load' = load \/ load' = NoLoad)
    BY DEF LoadTaken, Loading, NoLoad
<1>2. DOMAIN runner' = RunnerFields /\ Kindred(cohort, cohort')
  <2>1. CASE load.st = "loaded"
    <3>1. Go("harvest") /\ cohort' = cohort
        BY <2>1 DEF LoadTaken
    <3> QED
        BY <3>1, GoFacts, KindredSelf DEF LeaseInv
  <2>2. CASE load.st \in {"pressure", "cancelled", "alloc"}
    <3>1. \E as : Control(sched, futs, load.st, {}, as)
        BY <2>2 DEF LoadTaken
    <3> QED
        BY <3>1, ControlFacts DEF LeaseInv
  <2>3. CASE load.st \in {"release", "error"}
    <3>1. \E fate : Leave(sched, futs, fate)
        BY <2>3 DEF LoadTaken
    <3> QED
        BY <3>1, LeaveFacts DEF LeaseInv
  <2> QED
    BY <2>1, <2>2, <2>3 DEF LoadTaken
<1>3. Quiet /\ cleanup' = cleanup
    BY <1>1, <1>2 DEF LoadTaken, Quiet
<1> QED
    BY <1>1, <1>2, <1>3, QuietStep

LEMMA HarvestLease ==
    ASSUME LeaseInv, Harvest
    PROVE  LeaseInv'
<1>1. ~Loading /\ load' = load
    BY DEF LeaseInv, LoadKept, Harvest
<1>2. DOMAIN runner' = RunnerFields /\ Kindred(cohort, cohort')
  <2> DEFINE ws == {w \in Workers : Assigned(futs[w]) /\ ~Busy(futs[w])}
  <2>1. PICK bad \in SUBSET {w \in ws : futs[w].st = "ok"} :
             LET s == Harvested(sched, ws, bad)
                 es == ErrorsOf(ws, bad)
                 as == AllocsOf(ws)
             IN  IF es = {} /\ as = {}
                 THEN /\ sched' = s
                      /\ futs' = Cleared(ws)
                      /\ Go("commit")
                      /\ UNCHANGED <<errs, allocs, cohort>>
                 ELSE IF Terminal(es) # {} THEN Leave(s, Cleared(ws), "failed")
                 ELSE IF as # {} THEN Control(s, Cleared(ws), "alloc", es, as)
                 ELSE \E kind \in es : Control(s, Cleared(ws), kind, es, as)
    BY DEF Harvest
  <2>2. \/ Go("commit") /\ cohort' = cohort
        \/ \E s, f : Leave(s, f, "failed")
        \/ \E s, f, kind, es, as : Control(s, f, kind, es, as)
    BY <2>1
  <2> HIDE DEF ws
  <2> QED
    BY <2>2, GoFacts, LeaveFacts, ControlFacts, KindredSelf DEF LeaseInv
<1>3. Quiet /\ cleanup' = cleanup
    BY <1>1, <1>2 DEF Harvest, Frame, Quiet
<1>4. ~Loading'
    BY <1>1 DEF Loading
<1> QED
    BY <1>2, <1>3, <1>4, QuietStep

LEMMA CommitReadyLease ==
    ASSUME LeaseInv, CommitReady
    PROVE  LeaseInv'
<1>1. ~Loading /\ load' = load
    BY DEF LeaseInv, LoadKept, CommitReady
<1>2. \/ \E kind : Throw(sched, futs, kind)
      \/ runner' = runner /\ cohort' = cohort
    BY DEF CommitReady
<1>3. DOMAIN runner' = RunnerFields /\ Kindred(cohort, cohort')
    BY <1>2, ThrowFacts, KindredSelf DEF LeaseInv, Shapes
<1>4. Quiet /\ cleanup' = cleanup
    BY <1>1, <1>3 DEF CommitReady, Quiet
<1>5. ~Loading'
    BY <1>1 DEF Loading
<1> QED
    BY <1>3, <1>4, <1>5, QuietStep

LEMMA CommitsDoneLease ==
    ASSUME LeaseInv, CommitsDone
    PROVE  LeaseInv'
<1>1. ~Loading /\ load' = load /\ cohort' = cohort
    BY DEF LeaseInv, LoadKept, CommitsDone
<1>2. Quiet /\ cleanup' = cleanup
    BY <1>1, KindredSelf DEF LeaseInv, CommitsDone, Frame, Quiet
<1>3. DOMAIN runner' = RunnerFields
    BY DEF LeaseInv, Shapes, CommitsDone
<1>4. ~Loading'
    BY <1>1 DEF Loading
<1> QED
    BY <1>2, <1>3, <1>4, QuietStep

LEMMA DispatchLease ==
    ASSUME LeaseInv, Dispatch
    PROVE  LeaseInv'
<1>1. ~Loading /\ load' = load
    BY DEF LeaseInv, LoadKept, Dispatch
<1>2. \/ NextTurn /\ cohort' = cohort
      \/ \E s, f, fate : Leave(s, f, fate)
      \/ \E s, f, kind : Throw(s, f, kind)
    BY DEF Dispatch
<1>3. NextTurn => DOMAIN runner' = RunnerFields
    BY DEF NextTurn, LeaseInv, Shapes
<1>4. DOMAIN runner' = RunnerFields /\ Kindred(cohort, cohort')
    BY <1>2, <1>3, ThrowFacts, LeaveFacts, KindredSelf DEF LeaseInv
<1>5. Quiet /\ cleanup' = cleanup
    BY <1>1, <1>4 DEF Dispatch, Frame, Quiet
<1>6. ~Loading'
    BY <1>1 DEF Loading
<1> QED
    BY <1>4, <1>5, <1>6, QuietStep

LEMMA DispatchDoneLease ==
    ASSUME LeaseInv, DispatchDone
    PROVE  LeaseInv'
<1>1. ~Loading /\ load' = load
    BY DEF LeaseInv, LoadKept, DispatchDone
<1>2. \/ Go("top") /\ cohort' = cohort
      \/ \E s, f, fate : Leave(s, f, fate)
      \/ \E s, f, kind : Throw(s, f, kind)
    BY DEF DispatchDone
<1>3. DOMAIN runner' = RunnerFields /\ Kindred(cohort, cohort')
    BY <1>2, GoFacts, LeaveFacts, ThrowFacts, KindredSelf DEF LeaseInv
<1>4. Quiet /\ cleanup' = cleanup
    BY <1>1, <1>3 DEF DispatchDone, Frame, Quiet
<1>5. ~Loading'
    BY <1>1 DEF Loading
<1> QED
    BY <1>3, <1>4, <1>5, QuietStep

\* Past the deadline the file ends with the fate that becomes a cleanup error.
LEMMA DrainWaitLease ==
    ASSUME LeaseInv, DrainWait
    PROVE  LeaseInv'
<1>1. Quiet /\ cleanup' = cleanup
    BY KindredSelf DEF LeaseInv, DrainWait, Frame, Quiet
<1>2. DOMAIN runner' = RunnerFields
    BY DEF LeaseInv, Shapes, DrainWait
<1>3. \/ load' = NoLoad
      \/ load' = load /\ runner'.pc = "end" /\ runner'.fate = "release"
    BY DEF LeaseInv, Shapes, RunnerFields, DrainWait
<1>4. CASE load' = NoLoad
    BY <1>1, <1>2, <1>4, QuietStep DEF Loading, NoLoad
<1>5. CASE load' = load /\ runner'.pc = "end" /\ runner'.fate = "release"
  <2>1. LoadKept'
    BY <1>5 DEF LoadKept, Loading
  <2>2. Owned'
    BY <1>1, QuietOwned DEF LeaseInv
  <2>3. Shapes'
    BY <1>1, <1>2, <1>5 DEF Shapes, LeaseInv, Quiet, Kindred
  <2> QED
    BY <2>1, <2>2, <2>3 DEF LeaseInv
<1> QED
    BY <1>3, <1>4, <1>5

LEMMA AccountLease ==
    ASSUME LeaseInv, Account
    PROVE  LeaseInv'
<1>1. ~Loading /\ load' = load /\ cohort' = cohort
    BY DEF LeaseInv, LoadKept, Account
<1>2. Quiet /\ cleanup' = cleanup
    BY <1>1, KindredSelf DEF LeaseInv, Account, Quiet
<1>3. DOMAIN runner' = RunnerFields
  <2>1. \/ \E fate : runner' = [runner EXCEPT !.pc = "drain", !.then = "end", !.fate = fate]
        \/ \E x : runner' = [runner EXCEPT !.pc = "recover", !.bound = FALSE,
                               !.then = "none", !.fate = "none", !.exhausted = x]
    BY Zenon DEF Account
  <2> QED
    BY <2>1 DEF LeaseInv, Shapes
<1>4. ~Loading'
    BY <1>1 DEF Loading
<1> QED
    BY <1>2, <1>3, <1>4, QuietStep

LEMMA RecoveredLease ==
    ASSUME LeaseInv, CoRecovered
    PROVE  LeaseInv'
<1>1. ~Loading /\ load' = load /\ cohort' = cohort
    BY DEF LeaseInv, LoadKept, CoRecovered
<1>2. Quiet /\ cleanup' = cleanup
    BY <1>1, KindredSelf DEF LeaseInv, CoRecovered, Quiet
<1>3. DOMAIN runner' = RunnerFields
  <2>1. \/ \E fate : runner' = [runner EXCEPT !.pc = "end", !.fate = fate]
        \/ runner' = At("top")
    BY Zenon DEF CoRecovered
  <2> QED
    BY <2>1 DEF LeaseInv, Shapes, At, RunnerFields
<1>4. ~Loading'
    BY <1>1 DEF Loading
<1> QED
    BY <1>2, <1>3, <1>4, QuietStep

LEMMA FinalizeLease ==
    ASSUME LeaseInv, CoFinalize
    PROVE  LeaseInv'
<1>1. ~Loading /\ load' = load /\ cohort' = cohort
    BY DEF LeaseInv, LoadKept, CoFinalize
<1>2. Quiet /\ cleanup' = cleanup
    BY <1>1, KindredSelf DEF LeaseInv, CoFinalize, Frame, Quiet
<1>3. DOMAIN runner' = RunnerFields
    BY DEF LeaseInv, Shapes, CoFinalize
<1>4. ~Loading'
    BY <1>1 DEF Loading
<1> QED
    BY <1>2, <1>3, <1>4, QuietStep

\* A file that ends over a load leaves the cleanup error.
LEMMA EndFileLease ==
    ASSUME LeaseInv, EndFile
    PROVE  LeaseInv'
<1>1. load' = load /\ lease' = lease /\ procs' = procs
    BY DEF EndFile
<1>2. Kindred(cohort, cohort')
  <2>1. cohort' = cohort \/ (cohort.state = "released" /\ cohort' = NoCohort)
    BY DEF EndFile
  <2>2. cohort.state = "released" => cohort.handles = {} /\ cohort.token = FALSE
    BY DEF LeaseInv, Owned, Empty
  <2>3. cohort.state = "released" => Kindred(cohort, NoCohort)
    BY <2>2 DEF Empty, Kindred, NoCohort, CohortFields
  <2> QED
    BY <2>1, <2>2, <2>3, KindredSelf DEF LeaseInv
<1>3. Owned'
    BY <1>1, <1>2, QuietOwned DEF LeaseInv, Quiet
<1>4. Shapes'
    BY <1>1, <1>2 DEF LeaseInv, Shapes, Kindred, EndFile, At, RunnerFields
<1>5. Loading => runner.fate = "release"
    BY DEF LeaseInv, LoadKept, EndFile
<1>6. Loading => cleanup' = TRUE
    BY <1>5 DEF EndFile
<1>7. runner'.pc = "idle"
    BY DEF EndFile, At
<1>8. Loading' = Loading
    BY <1>1 DEF Loading
<1>9. LoadKept'
    BY <1>6, <1>7, <1>8 DEF LoadKept
<1> QED
    BY <1>3, <1>4, <1>9 DEF LeaseInv

LEMMA InferLease ==
    ASSUME LeaseInv, NEW w \in Workers, InferStep(w)
    PROVE  LeaseInv'
<1>1. /\ load' = load /\ lease' = lease /\ procs' = procs
      /\ runner' = runner /\ cleanup' = cleanup
    BY DEF InferStep, InferBegin, InferEnd, InferTransform, InferFrame
<1>2. ASSUME NEW x PROVE Kindred(cohort, [cohort EXCEPT !.active = x])
    BY DEF LeaseInv, Shapes, Kindred, CohortFields
<1>3. ASSUME NEW x, NEW why
      PROVE  Kindred(cohort, CancelCohort([cohort EXCEPT !.active = x], why))
  <2>1. Kindred([cohort EXCEPT !.active = x], CancelCohort([cohort EXCEPT !.active = x], why))
    BY <1>2, CancelKindred DEF Kindred
  <2> QED
    BY <1>2, <2>1 DEF Kindred
<1>4. Kindred(cohort, cohort')
  <2>1. CASE InferBegin(w)
    BY <2>1, <1>2, KindredSelf DEF InferBegin, LeaseInv
  <2>2. CASE InferEnd(w)
    BY <2>2, <1>2, <1>3 DEF InferEnd
  <2>3. CASE InferTransform(w)
    BY <2>3, KindredSelf DEF InferTransform, LeaseInv
  <2> QED
    BY <2>1, <2>2, <2>3 DEF InferStep
<1>5. Quiet
    BY <1>1, <1>4 DEF Quiet
<1>6. DOMAIN runner' = RunnerFields
    BY <1>1 DEF LeaseInv, Shapes
<1> QED
    BY <1>1, <1>5, <1>6, QuietStep

\* _release_workers keeps the token and the lease as long as a handle is left.
LEMMA ReleaseFacts ==
    ASSUME NEW c, DOMAIN c = CohortFields, NEW live, Holding(c, lease, live),
           NEW o \in ReleaseWorkers(c, live)
    PROVE  /\ DOMAIN o.cohort = CohortFields
           /\ Holding(o.cohort, o.lease, o.procs)
           /\ o.cohort.state \in Empty =>
                 o.cohort.handles = {} /\ o.cohort.token = FALSE
           /\ o.ok \in BOOLEAN
           /\ o.ok = TRUE => o.cohort.handles = {} /\ o.cohort.token = FALSE
<1>1. PICK confirmed \in SUBSET c.handles, died \in SUBSET c.handles :
         o = Released(c, live, confirmed, died)
    BY DEF ReleaseWorkers
<1>2. /\ o.cohort = [c EXCEPT !.handles = c.handles \ confirmed,
                           !.state = IF confirmed = c.handles THEN "released" ELSE "blocked",
                           !.token = c.token /\ confirmed # c.handles]
      /\ o.lease = (lease /\ ~(c.token /\ confirmed = c.handles))
      /\ o.procs = [w \in Workers |-> IF w \in confirmed \cup died THEN 0 ELSE live[w]]
      /\ o.ok = (confirmed = c.handles)
    BY <1>1 DEF Released
<1>3. /\ DOMAIN o.cohort = CohortFields
      /\ o.cohort.handles = c.handles \ confirmed
      /\ o.cohort.state = IF confirmed = c.handles THEN "released" ELSE "blocked"
      /\ o.cohort.token = (c.token /\ confirmed # c.handles)
    BY <1>2 DEF CohortFields
<1>4. o.procs \in [Workers -> {0, 1}]
    BY <1>2 DEF Holding
<1>5. CASE confirmed = c.handles
  <2>1. o.cohort.handles = {}
    BY <1>3, <1>5
  <2>2. o.cohort.token = FALSE
    BY <1>3, <1>5
  <2>3. \A w \in Workers : o.procs[w] # 1
    BY <1>2, <1>5 DEF Holding
  <2>4. o.lease \in BOOLEAN /\ o.ok \in BOOLEAN
    BY <1>2
  <2> QED
    BY <1>3, <1>4, <2>1, <2>2, <2>3, <2>4 DEF Holding
<1>6. CASE confirmed # c.handles
  <2>1. o.cohort.token = c.token
    BY <1>3, <1>6 DEF Holding
  <2>2. o.lease = lease
    BY <1>2, <1>6 DEF Holding
  <2>3. o.ok = FALSE
    BY <1>2, <1>6
  <2>4. c.token = TRUE /\ lease = TRUE
    BY <1>6 DEF Holding
  <2>5. \A w \in Workers : o.procs[w] = 1 => w \in o.cohort.handles
    BY <1>2, <1>3 DEF Holding
  <2>6. o.cohort.state = "blocked"
    BY <1>3, <1>6
  <2>7. o.cohort.handles \in SUBSET Workers
    BY <1>3 DEF Holding
  <2> QED
    BY <1>3, <1>4, <2>1, <2>2, <2>3, <2>4, <2>5, <2>6, <2>7 DEF Holding, Empty
<1> QED
    BY <1>5, <1>6

\* A load that raises has released what it could, and is over.
LEMMA LoadRaisesLease ==
    ASSUME LeaseInv, NEW c, DOMAIN c = CohortFields, NEW live, Holding(c, lease, live),
           NEW kind \in {"cancelled", "error", "pressure", "alloc"},
           LoadRaises(c, kind, live), LoadFrame
    PROVE  LeaseInv'
<1>1. PICK why : why = IF kind = "pressure" THEN "pressure" ELSE "failure"
    OBVIOUS
<1> DEFINE new == CancelCohort(c, why)
<1>2. Kindred(c, new)
    BY CancelKindred
<1>3. PICK o \in ReleaseWorkers(new, live) :
         /\ Becomes(o)
         /\ load' = [load EXCEPT !.st =
                           IF ~o.ok THEN "release"
                           ELSE IF kind = "cancelled" THEN CancelKind(new) ELSE kind]
    BY <1>1 DEF LoadRaises
<1>4. Holding(new, lease, live) /\ DOMAIN new = CohortFields
    BY <1>2 DEF Kindred, Holding
<1> HIDE DEF new
<1>5. DOMAIN load' = {"st", "next"} /\ load'.st \notin {"admit", "worker"}
    BY <1>3 DEF LeaseInv, Shapes, CancelKind
<1>6. Owned' /\ DOMAIN cohort' = CohortFields
    BY <1>3, <1>4, <1>5, ReleaseFacts DEF Becomes, Owned
<1>7. Shapes'
    BY <1>5, <1>6 DEF LeaseInv, Shapes, LoadFrame
<1>8. LoadKept'
    BY <1>5 DEF LoadKept, Loading
<1> QED
    BY <1>6, <1>7, <1>8 DEF LeaseInv

LEMMA LoadAdmitLease ==
    ASSUME LeaseInv, LoadAdmit
    PROVE  LeaseInv'
<1> DEFINE c == [cohort EXCEPT !.state = "loading"]
<1>1. /\ DOMAIN c = CohortFields /\ c.handles = cohort.handles /\ c.token = cohort.token
    BY DEF LeaseInv, Shapes, CohortFields
<1>2. Holding(c, lease, procs)
    BY <1>1 DEF LeaseInv, Owned, Holding
<1>3. LoadFrame /\ load.st = "admit"
    BY DEF LoadAdmit
<1>4. \/ \E kind \in {"cancelled", "error", "pressure"} : LoadRaises(c, kind, procs)
      \/ /\ lease' = TRUE
         /\ cohort' = [c EXCEPT !.token = TRUE]
         /\ load' = [st |-> "worker", next |-> 1]
         /\ procs' = procs
    BY Zenon DEF LoadAdmit
<1>5. CASE \E kind \in {"cancelled", "error", "pressure"} : LoadRaises(c, kind, procs)
  <2> HIDE DEF c
  <2> QED
    BY <1>1, <1>2, <1>3, <1>5, LoadRaisesLease
<1>6. CASE /\ lease' = TRUE
           /\ cohort' = [c EXCEPT !.token = TRUE]
           /\ load' = [st |-> "worker", next |-> 1]
           /\ procs' = procs
  <2>1. cohort.handles = {}
    BY <1>3 DEF LeaseInv, Owned
  <2>2. /\ DOMAIN cohort' = CohortFields /\ cohort'.token = TRUE
        /\ cohort'.handles = {} /\ cohort'.state = "loading"
    BY <1>6, <2>1 DEF LeaseInv, Shapes, CohortFields
  <2>3. load'.st = "worker" /\ load'.next = 1 /\ DOMAIN load' = {"st", "next"}
    BY <1>6
  <2>4. Holding(cohort', lease', procs')
    BY <1>2, <1>6, <2>1, <2>2, <1>1 DEF Holding
  <2>5. Owned'
    BY <2>2, <2>3, <2>4 DEF Owned, Empty
  <2>6. runner' = runner /\ cleanup' = cleanup
    BY <1>3 DEF LoadFrame
  <2>7. Loading
    BY <1>3 DEF Loading
  <2>8. LoadKept'
    BY <2>6, <2>7 DEF LeaseInv, LoadKept
  <2>9. Shapes'
    BY <2>2, <2>3, <2>6 DEF LeaseInv, Shapes
  <2> QED
    BY <2>5, <2>8, <2>9 DEF LeaseInv
<1> QED
    BY <1>4, <1>5, <1>6

\* The handle of the next worker is new, so its process is its only one.
LEMMA LoadWorkerLease ==
    ASSUME LeaseInv, LoadWorker
    PROVE  LeaseInv'
<1> DEFINE w == Selected[load.next]
           c == [cohort EXCEPT !.handles = @ \cup {w}]
           live == [procs EXCEPT ![w] = @ + 1]
<1>1. /\ load.st = "worker" /\ load.next \in 1 .. Len(Selected)
      /\ LoadFrame /\ cohort.token = TRUE
  <2>1. load.st = "worker" /\ load.next <= Len(Selected) /\ LoadFrame
    BY DEF LoadWorker
  <2>2. load.next \in Nat \ {0} /\ cohort.token = TRUE
    BY <2>1 DEF LeaseInv, Owned
  <2>3. Len(Selected) \in Nat
    BY CohortAssumption
  <2> QED
    BY <2>1, <2>2, <2>3
<1>2. w \in Workers
    BY <1>1, CohortAssumption DEF Workers, Range
<1>3. w \notin cohort.handles
    BY <1>1 DEF LeaseInv, Owned
<1>4. procs \in [Workers -> {0, 1}] /\ procs[w] = 0
    BY <1>2, <1>3 DEF LeaseInv, Owned, Holding
<1>5. live \in [Workers -> {0, 1}]
    BY <1>2, <1>4
<1>6. \A v \in Workers : live[v] = 1 => v = w \/ procs[v] = 1
    BY <1>2, <1>4
<1>7. /\ DOMAIN c = CohortFields /\ c.handles = cohort.handles \cup {w}
      /\ c.token = cohort.token /\ c.state = cohort.state
    BY DEF LeaseInv, Shapes, CohortFields
<1>8. Holding(cohort, lease, procs)
    BY DEF LeaseInv, Owned
<1>9. \/ LoadRaises(cohort, "cancelled", procs)
      \/ \E kind \in {"error", "pressure", "alloc"} : LoadRaises(c, kind, live)
      \/ /\ procs' = live
         /\ cohort' = c
         /\ load' = [load EXCEPT !.next = @ + 1]
         /\ lease' = lease
    BY Zenon DEF LoadWorker
<1> HIDE DEF w, c, live
<1>10. Holding(c, lease, live)
    BY <1>1, <1>2, <1>5, <1>6, <1>7, <1>8 DEF Holding
<1>11. CASE LoadRaises(cohort, "cancelled", procs)
    BY <1>11, <1>1, <1>8, LoadRaisesLease DEF LeaseInv, Shapes
<1>12. CASE \E kind \in {"error", "pressure", "alloc"} : LoadRaises(c, kind, live)
    BY <1>12, <1>1, <1>7, <1>10, LoadRaisesLease
<1>13. CASE /\ procs' = live
            /\ cohort' = c
            /\ load' = [load EXCEPT !.next = @ + 1]
            /\ lease' = lease
  <2>1. /\ DOMAIN load' = {"st", "next"} /\ load'.st = "worker"
        /\ load'.next = load.next + 1
    BY <1>1, <1>13 DEF LeaseInv, Shapes
  <2>2. cohort.state \notin Empty
    BY <1>1 DEF LeaseInv, Owned
  <2>3. \A i \in 1 .. Len(Selected) : Selected[i] = w => i = load.next
    BY <1>1, CohortAssumption DEF w
  <2>4. \A i \in 1 .. Len(Selected) : Selected[i] \in cohort.handles => i < load.next
    BY <1>1 DEF LeaseInv, Owned
  <2>5. Len(Selected) \in Nat
    BY CohortAssumption
  <2>6. \A i \in 1 .. Len(Selected) : Selected[i] \in c.handles => i < load.next + 1
    BY <1>1, <1>7, <2>3, <2>4, <2>5
  <2>7. Owned'
    BY <1>1, <1>7, <1>10, <1>13, <2>1, <2>2, <2>6 DEF Owned
  <2>8. runner' = runner /\ cleanup' = cleanup
    BY <1>1 DEF LoadFrame
  <2>9. Loading
    BY <1>1 DEF Loading
  <2>10. LoadKept'
    BY <2>8, <2>9 DEF LeaseInv, LoadKept
  <2>11. Shapes'
    BY <1>7, <1>13, <2>1, <2>8 DEF LeaseInv, Shapes
  <2> QED
    BY <2>7, <2>10, <2>11 DEF LeaseInv
<1> QED
    BY <1>9, <1>11, <1>12, <1>13

LEMMA LoadReadyLease ==
    ASSUME LeaseInv, LoadReady
    PROVE  LeaseInv'
<1>1. LoadFrame
    BY DEF LoadReady
<1>2. CASE LoadRaises(cohort, "cancelled", procs)
    BY <1>1, <1>2, LoadRaisesLease DEF LeaseInv, Shapes, Owned
<1>3. CASE /\ cohort' = [cohort EXCEPT !.state = "ready"]
           /\ load' = [load EXCEPT !.st = "loaded"]
           /\ lease' = lease /\ procs' = procs
  <2>1. DOMAIN load' = {"st", "next"} /\ load'.st = "loaded"
    BY <1>3 DEF LeaseInv, Shapes
  <2>2. /\ DOMAIN cohort' = CohortFields /\ cohort'.token = cohort.token
        /\ cohort'.handles = cohort.handles /\ cohort'.state = "ready"
    BY <1>3 DEF LeaseInv, Shapes, CohortFields
  <2>3. Holding(cohort', lease', procs')
    BY <1>3, <2>2 DEF LeaseInv, Owned, Holding
  <2>4. Owned'
    BY <2>1, <2>2, <2>3 DEF Owned, Empty
  <2>5. Shapes'
    BY <1>1, <2>1, <2>2 DEF LeaseInv, Shapes, LoadFrame
  <2>6. LoadKept'
    BY <2>1 DEF LoadKept, Loading
  <2> QED
    BY <2>4, <2>5, <2>6 DEF LeaseInv
<1> QED
    BY <1>2, <1>3 DEF LoadReady

\* A new cohort is made only where the old one owns nothing.
LEMMA LoopHeadLease ==
    ASSUME LeaseInv, LoopHead
    PROVE  LeaseInv'
<1>1. ~Loading /\ cleanup' = cleanup /\ lease' = lease /\ procs' = procs
    BY DEF LeaseInv, LoadKept, LoopHead, Frame
<1>2. \/ \E kind : Throw(sched, futs, kind) /\ load' = load
      \/ \E q : Go(q) /\ load' = load /\ cohort' = cohort
      \/ /\ cohort.state \in {"none", "released"}
         /\ cohort' = [NoCohort EXCEPT !.state = "cold"]
         /\ load' = [st |-> "admit", next |-> 0]
         /\ runner' = [runner EXCEPT !.pc = "loading", !.bound = TRUE]
    BY Zenon DEF LoopHead
<1>3. CASE \/ \E kind : Throw(sched, futs, kind) /\ load' = load
           \/ \E q : Go(q) /\ load' = load /\ cohort' = cohort
  <2>1. DOMAIN runner' = RunnerFields /\ Kindred(cohort, cohort') /\ load' = load
    BY <1>3, ThrowFacts, GoFacts, KindredSelf DEF LeaseInv
  <2>2. Quiet
    BY <1>1, <2>1 DEF Quiet
  <2>3. ~Loading'
    BY <1>1, <2>1 DEF Loading
  <2> QED
    BY <1>1, <2>1, <2>2, <2>3, QuietStep
<1>4. CASE /\ cohort.state \in {"none", "released"}
           /\ cohort' = [NoCohort EXCEPT !.state = "cold"]
           /\ load' = [st |-> "admit", next |-> 0]
           /\ runner' = [runner EXCEPT !.pc = "loading", !.bound = TRUE]
  <2>1. cohort.handles = {} /\ Holding(cohort, lease, procs)
    BY <1>4 DEF LeaseInv, Owned, Empty
  <2>2. /\ DOMAIN cohort' = CohortFields /\ cohort'.handles = {}
        /\ cohort'.token = FALSE
    BY <1>4 DEF NoCohort, CohortFields
  <2>3. DOMAIN load' = {"st", "next"} /\ load'.st = "admit"
    BY <1>4
  <2>4. DOMAIN runner' = RunnerFields /\ runner'.pc = "loading"
    BY <1>4 DEF LeaseInv, Shapes, RunnerFields
  <2>5. Holding(cohort', lease', procs')
    BY <1>1, <2>1, <2>2 DEF Holding
  <2>6. Owned'
    BY <2>2, <2>3, <2>5 DEF Owned
  <2>7. Shapes' /\ LoadKept'
    BY <2>2, <2>3, <2>4 DEF Shapes, LoadKept
  <2> QED
    BY <2>6, <2>7 DEF LeaseInv
<1> QED
    BY <1>2, <1>3, <1>4

\* Nobody releases under a load.
LEMMA ReleasedLease ==
    ASSUME LeaseInv, NEW c, Kindred(cohort, c), NEW o \in ReleaseWorkers(c, procs),
           load' = load, ~Loading, lease' = o.lease, procs' = o.procs,
           cohort' = o.cohort \/ (o.ok = TRUE /\ cohort' = NoCohort)
    PROVE  Owned' /\ DOMAIN cohort' = CohortFields /\ ~Loading'
<1>1. DOMAIN c = CohortFields /\ Holding(c, lease, procs)
    BY DEF LeaseInv, Owned, Kindred, Holding
<1>2. /\ DOMAIN o.cohort = CohortFields
      /\ Holding(o.cohort, o.lease, o.procs)
      /\ o.cohort.state \in Empty => o.cohort.handles = {} /\ o.cohort.token = FALSE
      /\ o.ok = TRUE => o.cohort.handles = {} /\ o.cohort.token = FALSE
    BY <1>1, ReleaseFacts
<1>3. ~Loading'
    BY DEF Loading
<1>4. CASE cohort' = o.cohort
    BY <1>2, <1>3, <1>4 DEF Owned, Loading
<1>5. CASE o.ok = TRUE /\ cohort' = NoCohort
  <2>1. /\ DOMAIN cohort' = CohortFields /\ cohort'.handles = {}
        /\ cohort'.token = FALSE
    BY <1>5 DEF NoCohort, CohortFields
  <2>2. o.cohort.handles = {}
    BY <1>2, <1>5
  <2>3. Holding(cohort', lease', procs')
    BY <1>2, <2>1, <2>2 DEF Holding
  <2> QED
    BY <1>3, <2>1, <2>3 DEF Owned, Loading
<1> QED
    BY <1>3, <1>4, <1>5

LEMMA ReleaseCohortLease ==
    ASSUME LeaseInv, ReleaseCohort
    PROVE  LeaseInv'
<1>1. ~Loading /\ load' = load /\ cleanup' = cleanup
    BY DEF LeaseInv, LoadKept, ReleaseCohort
<1>2. ~Loading'
    BY <1>1 DEF Loading
<1>3. CASE runner.bound
  <2> DEFINE c == [CancelCohort(cohort, "stop") EXCEPT !.state = "draining"]
  <2>1. PICK o \in ReleaseWorkers(c, procs) :
               /\ Becomes(o)
               /\ runner' =
                    IF ~o.ok /\ runner.then # "end"
                    THEN [runner EXCEPT !.pc = "release", !.then = "end", !.fate = "release"]
                    ELSE IF ~o.ok
                    THEN [runner EXCEPT !.pc = "end", !.fate = "release"]
                    ELSE IF runner.pc = "final"
                    THEN [runner EXCEPT !.pc = "finalize", !.bound = FALSE]
                    ELSE [runner EXCEPT !.pc = runner.then]
    BY <1>3 DEF ReleaseCohort
  <2>2. Kindred(cohort, c)
    BY CancelKindred DEF LeaseInv, Shapes, Kindred, CohortFields, Empty
  <2> HIDE DEF c
  <2>3. DOMAIN runner' = RunnerFields
    BY <2>1 DEF LeaseInv, Shapes
  <2>4. Owned' /\ DOMAIN cohort' = CohortFields
    BY <1>1, <2>1, <2>2, ReleasedLease DEF Becomes
  <2>5. Shapes' /\ LoadKept'
    BY <1>1, <1>2, <2>3, <2>4 DEF LeaseInv, Shapes, LoadKept
  <2> QED
    BY <2>4, <2>5 DEF LeaseInv
<1>4. CASE ~runner.bound
  <2>1. Go("finalize") /\ cohort' = cohort /\ lease' = lease /\ procs' = procs
    BY <1>4 DEF ReleaseCohort
  <2>2. Quiet /\ DOMAIN runner' = RunnerFields
    BY <1>1, <2>1, GoFacts, KindredSelf DEF LeaseInv, Quiet
  <2> QED
    BY <1>1, <1>2, <2>2, QuietStep
<1> QED
    BY <1>3, <1>4

LEMMA ShutdownLease ==
    ASSUME LeaseInv, ShutdownStep
    PROVE  LeaseInv'
<1>1. runner' = runner /\ load' = load
    BY DEF ShutdownStep, ShutdownRequested, ShutdownTimesOut, ShutdownRelease
<1>2. cleanup' = TRUE \/ cleanup' = cleanup \/ ~Loading
    BY DEF ShutdownStep, ShutdownRequested, ShutdownTimesOut, ShutdownRelease
<1>3. LoadKept'
    BY <1>1, <1>2 DEF LeaseInv, LoadKept, Loading
<1>4. Owned' /\ DOMAIN cohort' = CohortFields
  <2>1. CASE lease' = lease /\ procs' = procs /\ Kindred(cohort, cohort')
    BY <1>1, <2>1, QuietOwned DEF LeaseInv, Quiet, Kindred
  <2>2. CASE ShutdownRequested
    BY <2>1, <2>2, CancelKindred DEF LeaseInv, Shapes, ShutdownRequested
  <2>3. CASE ShutdownTimesOut
    BY <2>1, <2>3, KindredSelf DEF LeaseInv, ShutdownTimesOut
  <2>4. CASE ShutdownRelease
    <3>1. CASE lease' = lease /\ procs' = procs /\
               (cohort' = cohort \/ cohort' = [cohort EXCEPT !.state = "blocked"])
      <4>1. Kindred(cohort, [cohort EXCEPT !.state = "blocked"])
        BY DEF LeaseInv, Shapes, Kindred, CohortFields, Empty
      <4> QED
        BY <2>1, <3>1, <4>1, KindredSelf DEF LeaseInv
    <3>2. CASE /\ ~Loading
               /\ \E o \in ReleaseWorkers([cohort EXCEPT !.state = "draining"], procs) :
                     /\ lease' = o.lease
                     /\ procs' = o.procs
                     /\ cohort' = IF o.ok THEN NoCohort ELSE o.cohort
      <4>1. Kindred(cohort, [cohort EXCEPT !.state = "draining"])
        BY DEF LeaseInv, Shapes, Kindred, CohortFields, Empty
      <4>2. PICK o \in ReleaseWorkers([cohort EXCEPT !.state = "draining"], procs) :
                     /\ lease' = o.lease
                     /\ procs' = o.procs
                     /\ cohort' = IF o.ok THEN NoCohort ELSE o.cohort
        BY <3>2
      <4>3. o.ok \in BOOLEAN
        BY <4>1, <4>2, ReleaseFacts DEF LeaseInv, Owned, Kindred, Holding
      <4>4. cohort' = o.cohort \/ (o.ok = TRUE /\ cohort' = NoCohort)
        BY <4>2, <4>3
      <4> QED
        BY <1>1, <3>2, <4>1, <4>2, <4>4, ReleasedLease
    <3> QED
      BY <2>4, <3>1, <3>2, Zenon DEF ShutdownRelease
  <2> QED
    BY <2>2, <2>3, <2>4 DEF ShutdownStep
<1>5. Shapes'
    BY <1>1, <1>4 DEF LeaseInv, Shapes
<1> QED
    BY <1>3, <1>4, <1>5 DEF LeaseInv

LEMMA InitLease ==
    ASSUME CoInit
    PROVE  LeaseInv
<1>1. /\ DOMAIN cohort = CohortFields /\ cohort.handles = {} /\ cohort.token = FALSE
    BY DEF CoInit, NoCohort, CohortFields
<1>2. DOMAIN runner = RunnerFields
    BY DEF CoInit, At, RunnerFields
<1>3. DOMAIN load = {"st", "next"} /\ load.st = "none"
    BY DEF CoInit, NoLoad
<1>4. procs \in [Workers -> {0, 1}] /\ \A w \in Workers : procs[w] = 0
    BY DEF CoInit
<1>5. lease = FALSE
    BY DEF CoInit
<1>6. Holding(cohort, lease, procs)
  <2>1. \A w \in Workers : ~(procs[w] = 1)
    BY <1>4
  <2>2. lease \in BOOLEAN /\ cohort.token \in BOOLEAN /\ ~(cohort.token = TRUE)
    BY <1>1, <1>5
  <2>3. cohort.handles \in SUBSET Workers
    BY <1>1
  <2> QED
    BY <1>1, <1>4, <2>1, <2>2, <2>3 DEF Holding
<1> QED
    BY <1>1, <1>2, <1>3, <1>6 DEF LeaseInv, Shapes, LoadKept, Loading, Owned

LEMMA StutterLease ==
    ASSUME LeaseInv, UNCHANGED coVars
    PROVE  LeaseInv'
<1>1. /\ lease' = lease /\ procs' = procs /\ load' = load /\ cohort' = cohort
      /\ runner' = runner /\ cleanup' = cleanup
    BY DEF coVars
<1>2. Quiet /\ DOMAIN runner' = RunnerFields
    BY <1>1, KindredSelf DEF LeaseInv, Shapes, Quiet
<1> QED
    BY <1>1, <1>2, QuietStep

LEMMA NextLease ==
    ASSUME LeaseInv, [CoNext]_coVars
    PROVE  LeaseInv'
<1>1. CASE StartCohortFile
    BY <1>1, StartLease
<1>2. CASE RunnerStep
    BY <1>2, LoopHeadLease, WatchLoadLease, LoadTakenLease, HarvestLease,
       CommitReadyLease, CommitsDoneLease, DispatchLease, DispatchDoneLease,
       DrainWaitLease, ReleaseCohortLease, AccountLease, RecoveredLease,
       FinalizeLease, EndFileLease, Zenon DEF RunnerStep
<1>3. CASE LoadStep
    BY <1>3, LoadAdmitLease, LoadWorkerLease, LoadReadyLease DEF LoadStep
<1>4. CASE \E w \in Workers : InferStep(w)
    BY <1>4, InferLease
<1>5. CASE ShutdownStep
    BY <1>5, ShutdownLease
<1>6. CASE UNCHANGED coVars
    BY <1>6, StutterLease
<1> QED
    BY <1>1, <1>2, <1>3, <1>4, <1>5, <1>6 DEF CoNext

\* Whatever the load, the releases, the drain and the shutdown do to each
\* other (cohort_runtime.py, parallel_transcription.py), a model process is
\* alive only under the memory lease, and at most one of each worker.
THEOREM LeaseCoversMemory == CoSpec => []LeaseOwnsMemory
<1>1. LeaseInv => LeaseOwnsMemory
  <2> SUFFICES ASSUME LeaseInv, NEW w \in Workers, procs[w] > 0
               PROVE  lease /\ procs[w] = 1
    BY DEF LeaseOwnsMemory
  <2>1. procs[w] = 1
    BY DEF LeaseInv, Owned, Holding
  <2>2. lease = TRUE
    BY <2>1 DEF LeaseInv, Owned, Holding
  <2> QED
    BY <2>1, <2>2
<1> QED
    BY <1>1, InitLease, NextLease, PTL DEF CoSpec

-----------------------------------------------------------------------------
(* The places a unit of media can be in.  Fits is stated of any schedule s  *)
(* and futures f of a file of n units, so that the moves of ranges between  *)
(* the places can be proved apart from the steps that make them.            *)

\* The range r holds the unit u; two ranges have no unit in common; r lies
\* between the journal and the fresh media.
Has(r, u) == r.from <= u /\ u < r.to
Apart(r, t) == r.to <= t.from \/ t.to <= r.from
Within(s, r) ==
    /\ r.from \in Nat /\ r.to \in Nat
    /\ s.done <= r.from /\ r.from < r.to /\ r.to <= s.claimed

Bounds(s, n) ==
    /\ s.claimed \in Nat /\ s.done \in Nat /\ n \in Nat
    /\ s.done <= s.claimed /\ s.claimed <= n
    /\ \A u \in s.retry : u \in Nat /\ s.done <= u /\ u < s.claimed
    /\ \A r \in s.ready : DOMAIN r = {"from", "to", "by", "fresh"} /\ Within(s, r)

FutBounds(s, f) == \A w \in Workers : Assigned(f[w]) => Within(s, f[w])

ReadyApart(s) == \A r, t \in s.ready : r # t => Apart(r, t)
FutsApart(f) ==
    \A v, w \in Workers : v # w /\ Assigned(f[v]) /\ Assigned(f[w]) => Apart(f[v], f[w])
ReadyFutsApart(s, f) ==
    \A r \in s.ready, w \in Workers : Assigned(f[w]) => Apart(r, f[w])
RetryApart(s, f) ==
    \A u \in s.retry : /\ \A r \in s.ready : ~Has(r, u)
                       /\ \A w \in Workers : Assigned(f[w]) => ~Has(f[w], u)

Covered(s, f) ==
    \A u \in Nat : s.done <= u /\ u < s.claimed =>
        \/ u \in s.retry
        \/ \E r \in s.ready : Has(r, u)
        \/ \E w \in Workers : Assigned(f[w]) /\ Has(f[w], u)

Fits(s, f, n) ==
    /\ Bounds(s, n) /\ FutBounds(s, f)
    /\ ReadyApart(s) /\ FutsApart(f) /\ ReadyFutsApart(s, f) /\ RetryApart(s, f)
    /\ Covered(s, f)

\* s2 and f2 hold the ranges of s and f.
SameMedia(s, f, s2, f2) ==
    /\ s2.claimed = s.claimed /\ s2.done = s.done
    /\ s2.retry = s.retry /\ s2.ready = s.ready
    /\ \A w \in Workers : /\ Assigned(f2[w]) <=> Assigned(f[w])
                          /\ Assigned(f[w]) => f2[w].from = f[w].from /\ f2[w].to = f[w].to

LEMMA SameFits ==
    ASSUME NEW s, NEW f, NEW n, Fits(s, f, n), NEW s2, NEW f2, SameMedia(s, f, s2, f2)
    PROVE  Fits(s2, f2, n)
<1>1. Bounds(s2, n)
    BY DEF Fits, SameMedia, Bounds, Within
<1>2. FutBounds(s2, f2)
    BY DEF Fits, SameMedia, FutBounds, Within
<1>3. ReadyApart(s2) /\ FutsApart(f2) /\ ReadyFutsApart(s2, f2)
    BY DEF Fits, SameMedia, ReadyApart, FutsApart, ReadyFutsApart, Apart
<1>4. RetryApart(s2, f2)
    BY DEF Fits, SameMedia, RetryApart, Has
<1>5. Covered(s2, f2)
    BY DEF Fits, SameMedia, Covered, Has
<1> QED
    BY <1>1, <1>2, <1>3, <1>4, <1>5 DEF Fits

\* yielded and stage: the ranges of ws go to the retries, and those of good
\* among them to the staged chunks.
Moved(s, f, ws, good, s2, f2) ==
    /\ ws \in SUBSET Workers /\ good \in SUBSET ws
    /\ \A w \in ws : Assigned(f[w])
    /\ s2.claimed = s.claimed /\ s2.done = s.done
    /\ s2.ready = s.ready \cup {Staged(w, f[w]) : w \in good}
    /\ s2.retry = s.retry \cup UNION {UnitsOf(f[w]) : w \in ws \ good}
    /\ \A w \in Workers : f2[w] = IF w \in ws THEN NoFut ELSE f[w]

LEMMA HarvestFits ==
    ASSUME NEW s, NEW f, NEW n, Fits(s, f, n),
           NEW ws, NEW good, NEW s2, NEW f2, Moved(s, f, ws, good, s2, f2)
    PROVE  Fits(s2, f2, n)
<1> USE DEF Moved
<1>1. \A w \in Workers : /\ Assigned(f2[w]) <=> Assigned(f[w]) /\ w \notin ws
                         /\ Assigned(f2[w]) => f2[w] = f[w]
    BY DEF Assigned, NoFut
<1>2. \A w \in good : /\ Staged(w, f[w]).from = f[w].from
                      /\ Staged(w, f[w]).to = f[w].to
                      /\ DOMAIN Staged(w, f[w]) = {"from", "to", "by", "fresh"}
    BY DEF Staged
<1>3. /\ \A r \in s.ready : r \in s2.ready
      /\ \A w \in good : Staged(w, f[w]) \in s2.ready
    OBVIOUS
<1>4. \A r \in s2.ready : r \in s.ready \/ \E w \in good : r = Staged(w, f[w])
    OBVIOUS
<1>5. \A w \in ws : Within(s, f[w])
    BY DEF Fits, FutBounds
<1>6. \A w \in ws : \A u : u \in UnitsOf(f[w]) <=> u \in Nat /\ Has(f[w], u)
    BY <1>5 DEF UnitsOf, Has, Within, Fits, Bounds
<1>7. \A u : u \in s2.retry <=>
           u \in s.retry \/ \E w \in ws \ good : u \in Nat /\ Has(f[w], u)
    BY <1>6
<1>8. Bounds(s2, n)
  <2>1. \A u \in s2.retry : u \in Nat /\ s.done <= u /\ u < s.claimed
    BY <1>5, <1>7 DEF Fits, Bounds, Within, Has
  <2>2. \A r \in s2.ready : DOMAIN r = {"from", "to", "by", "fresh"} /\ Within(s, r)
    BY <1>2, <1>4, <1>5 DEF Fits, Bounds, Within
  <2> QED
    BY <2>1, <2>2 DEF Fits, Bounds, Within
<1>9. FutBounds(s2, f2)
    BY <1>1 DEF Fits, FutBounds, Within
<1>10. ReadyApart(s2)
    BY <1>2, <1>4 DEF Fits, ReadyApart, FutsApart, ReadyFutsApart, Apart
<1>11. FutsApart(f2)
    BY <1>1 DEF Fits, FutsApart
<1>12. ReadyFutsApart(s2, f2)
    BY <1>1, <1>2, <1>4 DEF Fits, FutsApart, ReadyFutsApart, Apart
<1>13. RetryApart(s2, f2)
  <2>1. \A u \in s.retry : /\ \A r \in s2.ready : ~Has(r, u)
                          /\ \A w \in Workers : Assigned(f2[w]) => ~Has(f2[w], u)
    BY <1>1, <1>2, <1>4 DEF Fits, RetryApart, Has
  <2>2. ASSUME NEW u \in Nat, NEW v \in ws \ good, Has(f[v], u)
        PROVE  /\ \A r \in s2.ready : ~Has(r, u)
               /\ \A w \in Workers : Assigned(f2[w]) => ~Has(f2[w], u)
    <3>1. \A w \in Workers : w # v /\ Assigned(f[w]) => Apart(f[v], f[w]) /\ Within(s, f[w])
        BY DEF Fits, FutsApart, FutBounds
    <3>2. \A w \in Workers : w # v /\ Assigned(f[w]) => ~Has(f[w], u)
        BY <1>5, <2>2, <3>1 DEF Apart, Has, Within
    <3>3. \A r \in s.ready : Apart(r, f[v]) /\ Within(s, r)
        BY DEF Fits, ReadyFutsApart, Bounds
    <3>4. \A r \in s.ready : ~Has(r, u)
        BY <1>5, <2>2, <3>3 DEF Apart, Has, Within
    <3>5. \A w \in good : ~Has(Staged(w, f[w]), u)
        BY <1>2, <3>2 DEF Has
    <3> QED
        BY <1>1, <1>4, <3>2, <3>4, <3>5
  <2> QED
    BY <1>7, <2>1, <2>2 DEF RetryApart
<1>14. Covered(s2, f2)
  <2> SUFFICES ASSUME NEW u \in Nat, s.done <= u, u < s.claimed
               PROVE  \/ u \in s2.retry
                      \/ \E r \in s2.ready : Has(r, u)
                      \/ \E w \in Workers : Assigned(f2[w]) /\ Has(f2[w], u)
    BY DEF Covered
  <2>1. CASE u \in s.retry
    BY <1>7, <2>1
  <2>2. CASE \E r \in s.ready : Has(r, u)
    BY <1>3, <2>2
  <2>3. ASSUME NEW w \in Workers, Assigned(f[w]), Has(f[w], u)
        PROVE  \/ u \in s2.retry
               \/ \E r \in s2.ready : Has(r, u)
               \/ \E v \in Workers : Assigned(f2[v]) /\ Has(f2[v], u)
    <3>1. CASE w \notin ws
        BY <1>1, <2>3, <3>1
    <3>2. CASE w \in good
      <4>1. Has(Staged(w, f[w]), u)
        BY <1>2, <2>3, <3>2 DEF Has
      <4> QED
        BY <1>3, <3>2, <4>1
    <3>3. CASE w \in ws \ good
        BY <1>7, <2>3, <3>3
    <3> QED
        BY <3>1, <3>2, <3>3
  <2> QED
    BY <2>1, <2>2, <2>3 DEF Fits, Covered
<1> QED
    BY <1>8, <1>9, <1>10, <1>11, <1>12, <1>13, <1>14 DEF Fits

\* The range that claim takes: the head of the retries as far as they are
\* without a gap, or fresh media.
LEMMA NextRange ==
    ASSUME NEW s, NEW f, Fits(s, f, coFile.length), NextStart(s) # NextLimit(s),
           NEW size \in Nat \ {0}, NEW end,
           end = PlanNextWindow(NextStart(s), size, NextLimit(s))
    PROVE  /\ NextStart(s) \in Nat /\ s.done <= NextStart(s)
           /\ end \in Nat /\ NextStart(s) < end /\ end <= coFile.length
           /\ s.retry # {} => /\ \A u \in s.retry : NextStart(s) <= u
                              /\ \A u \in Nat : NextStart(s) <= u /\ u < end => u \in s.retry
                              /\ end <= s.claimed
           /\ s.retry = {} => NextStart(s) = s.claimed
<1>1. /\ coFile.length \in Nat /\ s.claimed \in Nat /\ s.done \in Nat
      /\ s.done <= s.claimed /\ s.claimed <= coFile.length
      /\ \A u \in s.retry : u \in Nat /\ s.done <= u /\ u < s.claimed
    BY DEF Fits, Bounds
<1>2. CASE s.retry = {}
  <2>1. NextStart(s) = s.claimed /\ NextLimit(s) = coFile.length
    BY <1>2 DEF NextStart, NextLimit
  <2>2. s.claimed < coFile.length
    BY <1>1, <2>1
  <2>3. end \in s.claimed + 1 .. coFile.length
    BY <1>1, <2>1, <2>2, WindowAdvances
  <2> QED
    BY <1>1, <1>2, <2>1, <2>3
<1>3. CASE s.retry # {}
  <2> DEFINE from == Min(s.retry)
             S == {u \in 1 .. coFile.length : u > from /\ u \notin s.retry}
  <2>1. from \in s.retry /\ \A u \in s.retry : from <= u
    BY <1>1, <1>3, MinNat
  <2>2. NextStart(s) = from /\ NextLimit(s) = Min(S)
    BY <1>3 DEF NextStart, NextLimit
  <2>3. coFile.length \in S
    BY <1>1, <2>1
  <2>4. Min(S) \in S /\ \A u \in S : Min(S) <= u
    BY <1>1, <2>3, MinNat
  <2>5. PICK limit : limit = Min(S)
    OBVIOUS
  <2>6. limit \in Nat /\ from \in Nat /\ from < limit /\ limit <= coFile.length
    BY <1>1, <2>1, <2>4, <2>5
  <2>7. \A u \in Nat : from <= u /\ u < limit => u \in s.retry
    <3> SUFFICES ASSUME NEW u \in Nat, from <= u, u < limit, u \notin s.retry
                 PROVE  FALSE
        OBVIOUS
    <3>1. from # u
        BY <2>1
    <3>2. u \in S
        BY <1>1, <2>6, <3>1
    <3> QED
        BY <2>4, <2>5, <2>6, <3>2
  <2> HIDE DEF S, from
  <2>8. end \in from + 1 .. limit
    BY <2>2, <2>5, <2>6, WindowAdvances
  <2>9. end - 1 \in s.retry
    BY <2>6, <2>7, <2>8
  <2> QED
    BY <1>1, <1>3, <2>1, <2>2, <2>6, <2>7, <2>8, <2>9
<1> QED
    BY <1>2, <1>3

FutShape(f) == DOMAIN f = Workers /\ \A w \in Workers : DOMAIN f[w] = FutFields

\* claim: the range leaves the retries or the fresh media for the worker.
LEMMA ClaimFits ==
    ASSUME NEW s, NEW f, Fits(s, f, coFile.length), DOMAIN s = SchedFields, FutShape(f),
           NextStart(s) # NextLimit(s),
           NEW w \in Workers, ~Assigned(f[w]), NEW size \in Nat \ {0}, NEW end,
           end = PlanNextWindow(NextStart(s), size, NextLimit(s))
    PROVE  Fits(Claimed(s, end),
                [f EXCEPT ![w] = [st |-> "queued", from |-> NextStart(s), to |-> end]],
                coFile.length)
<1> DEFINE s2 == Claimed(s, end)
           f2 == [f EXCEPT ![w] = [st |-> "queued", from |-> NextStart(s), to |-> end]]
<1>1. PICK from : from = NextStart(s)
    OBVIOUS
<1>2. /\ from \in Nat /\ s.done <= from
      /\ end \in Nat /\ from < end /\ end <= coFile.length
      /\ s.retry # {} => /\ \A u \in s.retry : from <= u
                         /\ \A u \in Nat : from <= u /\ u < end => u \in s.retry
                         /\ end <= s.claimed
      /\ s.retry = {} => from = s.claimed
    BY <1>1, NextRange
<1>3. /\ s2.done = s.done /\ s2.ready = s.ready
      /\ s.retry # {} => s2.claimed = s.claimed /\ s2.retry = {u \in s.retry : u >= end}
      /\ s.retry = {} => s2.claimed = end /\ s2.retry = s.retry
    BY DEF Claimed, SchedFields
<1>4. /\ f2[w].st = "queued" /\ f2[w].from = from /\ f2[w].to = end
      /\ \A v \in Workers : v # w => f2[v] = f[v]
    BY <1>1 DEF FutShape
<1>5. /\ coFile.length \in Nat /\ s.claimed \in Nat /\ s.done \in Nat
      /\ s.done <= s.claimed /\ s.claimed <= coFile.length
      /\ \A u \in s.retry : u \in Nat /\ s.done <= u /\ u < s.claimed
      /\ \A r \in s.ready : DOMAIN r = {"from", "to", "by", "fresh"} /\ Within(s, r)
    BY DEF Fits, Bounds
<1> HIDE DEF s2, f2
<1>6. /\ s2.claimed \in Nat /\ s.claimed <= s2.claimed
      /\ s2.claimed <= coFile.length /\ end <= s2.claimed
    BY <1>2, <1>3, <1>5
<1>7. /\ Assigned(f2[w])
      /\ \A v \in Workers : v # w => (Assigned(f2[v]) <=> Assigned(f[v])) /\ f2[v] = f[v]
    BY <1>4 DEF Assigned
<1>8. \A u : u \in s2.retry <=> u \in s.retry /\ ~(from <= u /\ u < end)
    BY <1>2, <1>3, <1>5
<1>9. Bounds(s2, coFile.length)
  <2>1. \A r \in s.ready : Within(s2, r)
    BY <1>3, <1>5, <1>6 DEF Within
  <2>2. \A u \in s2.retry : u \in Nat /\ s2.done <= u /\ u < s2.claimed
    BY <1>3, <1>5, <1>6, <1>8
  <2> QED
    BY <1>3, <1>5, <1>6, <2>1, <2>2 DEF Bounds
<1>10. FutBounds(s2, f2)
  <2>1. Within(s2, f2[w])
    BY <1>2, <1>3, <1>4, <1>6 DEF Within
  <2>2. \A v \in Workers : Assigned(f[v]) => Within(s2, f[v])
    BY <1>3, <1>5, <1>6 DEF Fits, FutBounds, Within
  <2> QED
    BY <1>7, <2>1, <2>2 DEF FutBounds
\* A range of s has no unit of the range that is claimed.
<1>11. ASSUME NEW r, Within(s, r), \A u \in s.retry : ~Has(r, u)
       PROVE  Apart(r, f2[w])
  <2>1. CASE s.retry = {}
    BY <1>2, <1>4, <1>5, <1>11, <2>1 DEF Within, Apart
  <2>2. CASE s.retry # {}
    <3>1. SUFFICES ASSUME ~Apart(r, f2[w]) PROVE FALSE
        OBVIOUS
    <3>2. r.to > from /\ end > r.from /\ r.from \in Nat /\ r.to \in Nat /\ r.from < r.to
        BY <1>2, <1>4, <1>11, <3>1 DEF Apart, Within
    <3>3. CASE r.from >= from
      <4>1. r.from \in s.retry
        BY <1>2, <2>2, <3>2, <3>3
      <4> QED
        BY <1>11, <3>2, <4>1 DEF Has
    <3>4. CASE r.from < from
      <4>1. from \in s.retry
        BY <1>2, <2>2
      <4> QED
        BY <1>2, <1>11, <3>2, <3>4, <4>1 DEF Has
    <3> QED
        BY <1>2, <3>2, <3>3, <3>4
  <2> QED
    BY <2>1, <2>2
<1>12. \A v \in Workers : v # w /\ Assigned(f[v]) => Apart(f[v], f2[w]) /\ Apart(f2[w], f[v])
    BY <1>11 DEF Fits, FutBounds, RetryApart, Apart
<1>13. \A r \in s.ready : Apart(r, f2[w])
    BY <1>5, <1>11 DEF Fits, RetryApart
<1>14. ReadyApart(s2)
    BY <1>3 DEF Fits, ReadyApart
<1>15. FutsApart(f2)
    BY <1>7, <1>12 DEF Fits, FutsApart
<1>16. ReadyFutsApart(s2, f2)
    BY <1>3, <1>7, <1>13 DEF Fits, ReadyFutsApart
<1>17. RetryApart(s2, f2)
  <2>1. \A u \in s2.retry : ~Has(f2[w], u)
    BY <1>4, <1>8 DEF Has
  <2> QED
    BY <1>3, <1>7, <1>8, <2>1 DEF Fits, RetryApart
<1>18. Covered(s2, f2)
  <2> SUFFICES ASSUME NEW u \in Nat, s2.done <= u, u < s2.claimed
               PROVE  \/ u \in s2.retry
                      \/ \E r \in s2.ready : Has(r, u)
                      \/ \E v \in Workers : Assigned(f2[v]) /\ Has(f2[v], u)
    BY DEF Covered
  <2>1. CASE from <= u /\ u < end
    BY <1>4, <1>7, <2>1 DEF Has
  <2>2. CASE ~(from <= u /\ u < end)
    <3>1. s.done <= u /\ u < s.claimed
        BY <1>2, <1>3, <1>5, <2>2
    <3>2. \/ u \in s.retry
          \/ \E r \in s.ready : Has(r, u)
          \/ \E v \in Workers : Assigned(f[v]) /\ Has(f[v], u)
        BY <3>1 DEF Fits, Covered
    <3> QED
        BY <1>3, <1>7, <1>8, <2>2, <3>2
  <2> QED
    BY <2>1, <2>2
<1>19. Fits(s2, f2, coFile.length)
    BY <1>9, <1>10, <1>14, <1>15, <1>16, <1>17, <1>18 DEF Fits
<1> QED
    BY <1>19 DEF s2, f2

\* claim and yielded: the range of a claim that failed waits to be retried.
LEMMA GivenBackFits ==
    ASSUME NEW s, NEW f, Fits(s, f, coFile.length), DOMAIN s = SchedFields, FutShape(f),
           NextStart(s) # NextLimit(s),
           NEW w \in Workers, ~Assigned(f[w]), NEW size \in Nat \ {0}, NEW end,
           end = PlanNextWindow(NextStart(s), size, NextLimit(s))
    PROVE  Fits(Yielded(Claimed(s, end), [from |-> NextStart(s), to |-> end]), f,
                coFile.length)
<1> DEFINE s2 == Claimed(s, end)
           r == [from |-> NextStart(s), to |-> end]
           s3 == Yielded(s2, r)
           f2 == [f EXCEPT ![w] = [st |-> "queued", from |-> NextStart(s), to |-> end]]
           f3 == [f EXCEPT ![w] = NoFut]
<1>1. Fits(s2, f2, coFile.length)
    BY ClaimFits
<1>2. /\ f2[w].st = "queued" /\ f2[w].from = r.from /\ f2[w].to = r.to
      /\ \A v \in Workers : v # w => f2[v] = f[v]
    BY DEF FutShape
<1>3. \A v \in Workers : f3[v] = IF v \in {w} THEN NoFut ELSE f2[v]
    BY <1>2 DEF FutShape
<1>4. DOMAIN s2 = SchedFields
    BY DEF Claimed
<1> HIDE DEF s2, f2, f3, r
<1>5. /\ s3.claimed = s2.claimed /\ s3.done = s2.done /\ s3.ready = s2.ready
      /\ s3.retry = s2.retry \cup UnitsOf(r)
    BY <1>4 DEF Yielded, SchedFields
<1> HIDE DEF s3
<1>6. UnitsOf(f2[w]) = UnitsOf(r)
    BY <1>2 DEF UnitsOf
<1>7. PICK ws, good : ws = {w} /\ good = {}
    OBVIOUS
<1>8. /\ s3.retry = s2.retry \cup UNION {UnitsOf(f2[v]) : v \in ws \ good}
      /\ s3.ready = s2.ready \cup {Staged(v, f2[v]) : v \in good}
    BY <1>5, <1>6, <1>7
<1>9. Moved(s2, f2, ws, good, s3, f3)
  <2>1. /\ ws \in SUBSET Workers /\ good \in SUBSET ws
        /\ \A v \in ws : Assigned(f2[v])
        /\ \A v \in Workers : f3[v] = IF v \in ws THEN NoFut ELSE f2[v]
    BY <1>2, <1>3, <1>7 DEF Assigned
  <2> QED
    BY <1>5, <1>8, <2>1, Zenon DEF Moved
<1>10. Fits(s3, f3, coFile.length)
    BY <1>1, <1>9, HarvestFits
<1>11. SameMedia(s3, f3, s3, f)
    BY <1>2, <1>3 DEF SameMedia, Assigned, NoFut
<1>12. Fits(s3, f, coFile.length)
    BY <1>10, <1>11, SameFits
<1> QED
    BY <1>12 DEF s3, s2, r

\* commit: the chunk at the cursor goes to the journal.
LEMMA CommitFits ==
    ASSUME NEW s, NEW f, NEW n, Fits(s, f, n), DOMAIN s = SchedFields,
           NEW r \in s.ready, r.from = s.done
    PROVE  Fits([s EXCEPT !.done = r.to, !.ready = @ \ {r}], f, n)
<1> DEFINE s2 == [s EXCEPT !.done = r.to, !.ready = @ \ {r}]
<1>1. /\ s2.done = r.to /\ s2.ready = s.ready \ {r}
      /\ s2.claimed = s.claimed /\ s2.retry = s.retry
    BY DEF SchedFields
<1> HIDE DEF s2
<1>2. Within(s, r) /\ Bounds(s, n)
    BY DEF Fits, Bounds
<1>3. ASSUME NEW t, Within(s, t), Apart(r, t) \/ Apart(t, r)
      PROVE  Within(s2, t)
    BY <1>1, <1>2, <1>3 DEF Within, Apart, Bounds
<1>4. \A u \in s.retry : u >= r.to
    BY <1>2 DEF Fits, RetryApart, Has, Within, Bounds
<1>5. Bounds(s2, n)
  <2>1. \A t \in s2.ready : Within(s2, t)
    BY <1>1, <1>2, <1>3 DEF Fits, ReadyApart, Bounds
  <2> QED
    BY <1>1, <1>2, <1>4, <2>1 DEF Bounds, Within
<1>6. FutBounds(s2, f)
    BY <1>3 DEF Fits, FutBounds, ReadyFutsApart
<1>7. ReadyApart(s2) /\ FutsApart(f) /\ ReadyFutsApart(s2, f) /\ RetryApart(s2, f)
    BY <1>1 DEF Fits, ReadyApart, ReadyFutsApart, RetryApart
<1>8. Covered(s2, f)
  <2> SUFFICES ASSUME NEW u \in Nat, s2.done <= u, u < s2.claimed
               PROVE  \/ u \in s2.retry
                      \/ \E t \in s2.ready : Has(t, u)
                      \/ \E v \in Workers : Assigned(f[v]) /\ Has(f[v], u)
    BY DEF Covered
  <2>1. s.done <= u /\ u < s.claimed /\ ~Has(r, u)
    BY <1>1, <1>2 DEF Within, Bounds, Has
  <2> QED
    BY <1>1, <2>1 DEF Fits, Covered
<1>9. Fits(s2, f, n)
    BY <1>5, <1>6, <1>7, <1>8 DEF Fits
<1> QED
    BY <1>9 DEF s2

\* The staged chunks outlive the cohort that made them.
LEMMA StaleFits ==
    ASSUME NEW s, NEW f, NEW n, Fits(s, f, n), DOMAIN s = SchedFields
    PROVE  Fits([s EXCEPT !.paused = FALSE,
                          !.ready = {[r EXCEPT !.fresh = FALSE] : r \in @}], f, n)
<1> DEFINE old(r) == [r EXCEPT !.fresh = FALSE]
           s2 == [s EXCEPT !.paused = FALSE, !.ready = {old(r) : r \in @}]
<1>1. /\ s2.done = s.done /\ s2.ready = {old(r) : r \in s.ready}
      /\ s2.claimed = s.claimed /\ s2.retry = s.retry
    BY DEF SchedFields
<1>2. \A r \in s.ready : /\ DOMAIN old(r) = {"from", "to", "by", "fresh"}
                         /\ old(r).from = r.from /\ old(r).to = r.to
    BY DEF Fits, Bounds
<1> HIDE DEF old
<1>3. /\ \A r \in s.ready : old(r) \in s2.ready
      /\ \A t \in s2.ready : \E r \in s.ready : t = old(r)
    BY <1>1
<1> HIDE DEF s2
<1>4. Bounds(s2, n)
  <2>1. \A t \in s2.ready : DOMAIN t = {"from", "to", "by", "fresh"} /\ Within(s2, t)
    BY <1>1, <1>2, <1>3 DEF Fits, Bounds, Within
  <2> QED
    BY <1>1, <2>1 DEF Fits, Bounds
<1>5. FutBounds(s2, f)
    BY <1>1 DEF Fits, FutBounds, Within
<1>6. ReadyApart(s2) /\ FutsApart(f) /\ ReadyFutsApart(s2, f)
    BY <1>2, <1>3 DEF Fits, ReadyApart, ReadyFutsApart, Apart
<1>7. RetryApart(s2, f)
    BY <1>1, <1>2, <1>3 DEF Fits, RetryApart, Has
<1>8. Covered(s2, f)
  <2> SUFFICES ASSUME NEW u \in Nat, s2.done <= u, u < s2.claimed
               PROVE  \/ u \in s2.retry
                      \/ \E t \in s2.ready : Has(t, u)
                      \/ \E v \in Workers : Assigned(f[v]) /\ Has(f[v], u)
    BY DEF Covered
  <2>1. \A r \in s.ready : Has(r, u) => Has(old(r), u)
    BY <1>2 DEF Has
  <2> QED
    BY <1>1, <1>3, <2>1 DEF Fits, Covered
<1>9. Fits(s2, f, n)
    BY <1>4, <1>5, <1>6, <1>7, <1>8 DEF Fits
<1> QED
    BY <1>9 DEF s2, old

\* A file starts with nothing journalled, claimed or in flight.
LEMMA NewFits ==
    ASSUME NEW f, NEW n \in Nat, \A w \in Workers : ~Assigned(f[w])
    PROVE  Fits(NewSched, f, n)
<1>1. /\ NewSched.claimed = 0 /\ NewSched.done = 0
      /\ NewSched.retry = {} /\ NewSched.ready = {}
    BY DEF NewSched
<1>2. Bounds(NewSched, n)
    BY <1>1 DEF Bounds
<1>3. Covered(NewSched, f)
    BY <1>1 DEF Covered
<1> QED
    BY <1>1, <1>2, <1>3 DEF Fits, FutBounds, ReadyApart, FutsApart, ReadyFutsApart, RetryApart

-----------------------------------------------------------------------------
(* The steps of the file. *)

\* The steps of the runner at which every future has been taken, and its loop.
Settled == {"release", "account", "recover", "finalize"}
Loop == {"top", "loading", "harvest", "commit"}

\* An inference that outlived the drain of its file.
Leftover == \E w \in Workers : Assigned(futs[w])

FutsKept ==
    /\ runner.pc \in Settled => ~Leftover
    /\ runner.pc = "end" /\ Leftover => runner.fate = "release"
    /\ runner.pc = "idle" /\ Leftover => cleanup = TRUE

MediaInv ==
    /\ coFile.length \in Nat
    /\ DOMAIN sched = SchedFields
    /\ FutShape(futs)
    /\ runner.pc = "idle" => sched = NewSched
    /\ runner.pc = "final" => sched.done = coFile.length
    /\ runner.pc \in {"drain", "release"} => runner.then \in {"account", "end"}
    /\ runner.pc = "dispatch" => runner.turn \in Nat \ {0}
    /\ FutsKept
    /\ runner.pc \notin {"idle", "end"} => Fits(sched, futs, coFile.length)

\* Every way into the drain, from the schedule s and the futures f.
Drains(s, f) ==
    /\ runner'.pc = "drain" /\ runner'.then \in {"account", "end"}
    /\ sched' = s \/ sched' = [s EXCEPT !.paused = TRUE]
    /\ futs' = [w \in Workers |->
                   IF f[w].st = "queued" THEN [f[w] EXCEPT !.st = "cancelled"]
                                         ELSE f[w]]

LEMMA LeaveDrains ==
    ASSUME DOMAIN runner = RunnerFields, NEW s, NEW f, NEW fate, Leave(s, f, fate)
    PROVE  Drains(s, f)
BY DEF Leave, CancelAll, Drains, RunnerFields

LEMMA ControlDrains ==
    ASSUME DOMAIN runner = RunnerFields, NEW s, NEW f, NEW kind, NEW es, NEW as,
           Control(s, f, kind, es, as)
    PROVE  Drains(s, f)
<1>1. PICK why : runner' = [runner EXCEPT !.pc = "drain", !.then = "account", !.fate = why]
    BY DEF Control
<1>2. runner'.pc = "drain" /\ runner'.then = "account"
    BY <1>1 DEF RunnerFields
<1> QED
    BY <1>2 DEF Control, CancelAll, Drains

LEMMA ThrowDrains ==
    ASSUME DOMAIN runner = RunnerFields, NEW s, NEW f, NEW kind, Throw(s, f, kind)
    PROVE  Drains(s, f)
BY LeaveDrains, ControlDrains DEF Throw

\* Cancelling what no thread has begun moves no range.
LEMMA DrainsMedia ==
    ASSUME MediaInv, NEW s, NEW f, Drains(s, f), coFile' = coFile,
           DOMAIN s = SchedFields, FutShape(f), Fits(s, f, coFile.length)
    PROVE  MediaInv'
<1>1. /\ DOMAIN sched' = SchedFields
      /\ sched'.claimed = s.claimed /\ sched'.done = s.done
      /\ sched'.retry = s.retry /\ sched'.ready = s.ready
    BY DEF Drains, SchedFields
<1>2. FutShape(futs')
    BY DEF Drains, FutShape
<1>3. \A w \in Workers : /\ Assigned(futs'[w]) <=> Assigned(f[w])
                         /\ futs'[w].from = f[w].from /\ futs'[w].to = f[w].to
    BY DEF Drains, FutShape, FutFields, Assigned
<1>4. SameMedia(s, f, sched', futs')
    BY <1>1, <1>3 DEF SameMedia
<1>5. Fits(sched', futs', coFile.length)
    BY <1>4, SameFits
<1>6. runner'.pc = "drain" /\ runner'.then \in {"account", "end"}
    BY DEF Drains
<1>7. FutsKept'
    BY <1>6 DEF FutsKept, Settled
<1> QED
    BY <1>1, <1>2, <1>5, <1>6, <1>7 DEF MediaInv

\* A step of the loop that fits.
LEMMA LoopMedia ==
    ASSUME MediaInv, coFile' = coFile,
           runner'.pc \in Loop \/ (runner'.pc = "dispatch" /\ runner'.turn \in Nat \ {0}),
           DOMAIN sched' = SchedFields, FutShape(futs'), Fits(sched', futs', coFile.length)
    PROVE  MediaInv'
<1>1. FutsKept'
    BY DEF FutsKept, Settled, Loop
<1> QED
    BY <1>1 DEF MediaInv, Loop

\* A step that is not the runner's and leaves the ranges where they are.
LEMMA AsideMedia ==
    ASSUME MediaInv, coFile' = coFile, runner' = runner, sched' = sched,
           cleanup = TRUE => cleanup' = TRUE,
           FutShape(futs'), SameMedia(sched, futs, sched, futs')
    PROVE  MediaInv'
<1>1. Leftover' => Leftover
    BY DEF Leftover, SameMedia
<1>2. FutsKept'
    BY <1>1 DEF MediaInv, FutsKept
<1>3. runner.pc \notin {"idle", "end"} => Fits(sched, futs', coFile.length)
    BY SameFits DEF MediaInv
<1> QED
    BY <1>2, <1>3 DEF MediaInv

LEMMA StartMedia ==
    ASSUME MediaInv, StartCohortFile
    PROVE  MediaInv'
<1>1. cleanup # TRUE
    BY DEF StartCohortFile
<1>2. sched = NewSched /\ ~Leftover
    BY <1>1 DEF MediaInv, FutsKept, StartCohortFile
<1>3. Fits(sched, futs, coFile.length)
    BY <1>2, NewFits DEF MediaInv, Leftover
<1>4. sched' = sched /\ futs' = futs /\ coFile' = coFile /\ runner'.pc \in Loop
    BY DEF StartCohortFile, At, Loop
<1> QED
    BY <1>3, <1>4, LoopMedia DEF MediaInv

LEMMA LoopHeadMedia ==
    ASSUME Shapes, MediaInv, LoopHead
    PROVE  MediaInv'
<1>1. coFile' = coFile /\ Fits(sched, futs, coFile.length)
    BY DEF LoopHead, Frame, MediaInv
<1>2. \/ \E kind : Throw(sched, futs, kind)
      \/ sched.done = coFile.length /\ Go("final") /\ sched' = sched /\ futs' = futs
      \/ Go("harvest") /\ sched' = sched /\ futs' = futs
      \/ /\ runner' = [runner EXCEPT !.pc = "loading", !.bound = TRUE]
         /\ sched' = sched /\ futs' = futs
    BY Zenon DEF LoopHead
<1>3. CASE \E kind : Throw(sched, futs, kind)
    BY <1>1, <1>3, ThrowDrains, DrainsMedia DEF Shapes, MediaInv
<1>4. CASE sched.done = coFile.length /\ Go("final") /\ sched' = sched /\ futs' = futs
  <2>1. runner'.pc = "final"
    BY <1>4, GoFacts
  <2>2. FutsKept'
    BY <2>1 DEF FutsKept, Settled
  <2> QED
    BY <1>1, <1>4, <2>1, <2>2 DEF MediaInv
<1>5. CASE Go("harvest") /\ sched' = sched /\ futs' = futs
  <2>1. runner'.pc = "harvest"
    BY <1>5, GoFacts
  <2> QED
    BY <1>1, <1>5, <2>1, LoopMedia DEF MediaInv, Loop
<1>6. CASE /\ runner' = [runner EXCEPT !.pc = "loading", !.bound = TRUE]
           /\ sched' = sched /\ futs' = futs
  <2>1. runner'.pc = "loading"
    BY <1>6 DEF Shapes, RunnerFields
  <2> QED
    BY <1>1, <1>6, <2>1, LoopMedia DEF MediaInv, Loop
<1> QED
    BY <1>2, <1>3, <1>4, <1>5, <1>6

LEMMA WatchLoadMedia ==
    ASSUME Shapes, MediaInv, WatchLoad
    PROVE  MediaInv'
<1>1. coFile' = coFile /\ Fits(sched, futs, coFile.length)
    BY DEF WatchLoad, Frame, MediaInv
<1>2. \E kind : Throw(sched, futs, kind)
    BY DEF WatchLoad
<1> QED
    BY <1>1, <1>2, ThrowDrains, DrainsMedia DEF Shapes, MediaInv

LEMMA LoadTakenMedia ==
    ASSUME Shapes, MediaInv, LoadTaken
    PROVE  MediaInv'
<1>1. coFile' = coFile /\ Fits(sched, futs, coFile.length)
    BY DEF LoadTaken, MediaInv
<1>2. \/ \E kind, es, as : Control(sched, futs, kind, es, as)
      \/ \E fate : Leave(sched, futs, fate)
      \/ /\ sched' = [sched EXCEPT !.paused = FALSE,
                          !.ready = {[r EXCEPT !.fresh = FALSE] : r \in @}]
         /\ Go("harvest") /\ futs' = futs
    BY Zenon DEF LoadTaken
<1>3. CASE \/ \E kind, es, as : Control(sched, futs, kind, es, as)
           \/ \E fate : Leave(sched, futs, fate)
  <2>1. Drains(sched, futs)
    BY <1>3, ControlDrains, LeaveDrains DEF Shapes
  <2> QED
    BY <1>1, <2>1, DrainsMedia DEF MediaInv
<1>4. CASE /\ sched' = [sched EXCEPT !.paused = FALSE,
                          !.ready = {[r EXCEPT !.fresh = FALSE] : r \in @}]
           /\ Go("harvest") /\ futs' = futs
  <2>1. runner'.pc \in Loop
    BY <1>4, GoFacts DEF Loop
  <2>2. Fits(sched', futs', coFile.length)
    BY <1>1, <1>4, StaleFits DEF MediaInv
  <2>3. DOMAIN sched' = SchedFields /\ FutShape(futs')
    BY <1>4 DEF MediaInv
  <2> QED
    BY <1>1, <2>1, <2>2, <2>3, LoopMedia
<1> QED
    BY <1>2, <1>3, <1>4

\* Harvesting a set of finished futures, in the loop and in the drain.
LEMMA HarvestedFits ==
    ASSUME MediaInv, Fits(sched, futs, coFile.length), NEW ws \in SUBSET Workers,
           \A w \in ws : Assigned(futs[w]), NEW bad
    PROVE  /\ Fits(Harvested(sched, ws, bad), Cleared(ws), coFile.length)
           /\ DOMAIN Harvested(sched, ws, bad) = SchedFields
           /\ FutShape(Cleared(ws))
           /\ \A w \in ws : ~Assigned(Cleared(ws)[w])
<1> DEFINE good == {w \in ws : futs[w].st = "ok"} \ bad
           s == Harvested(sched, ws, bad)
<1>1. s = [sched EXCEPT !.ready = @ \cup {Staged(w, futs[w]) : w \in good},
                        !.retry = @ \cup UNION {UnitsOf(futs[w]) : w \in ws \ good}]
    BY DEF Harvested
<1>2. good \in SUBSET ws
    OBVIOUS
<1> HIDE DEF good, s
<1>3. PICK ready, retry :
         /\ ready = sched.ready \cup {Staged(w, futs[w]) : w \in good}
         /\ retry = sched.retry \cup UNION {UnitsOf(futs[w]) : w \in ws \ good}
    BY Zenon
<1>4. s = [sched EXCEPT !.ready = ready, !.retry = retry]
    BY <1>1, <1>3
<1>5. /\ DOMAIN s = SchedFields /\ s.claimed = sched.claimed /\ s.done = sched.done
      /\ s.ready = ready /\ s.retry = retry
    BY <1>4 DEF MediaInv, SchedFields
<1>6. \A w \in Workers : Cleared(ws)[w] = IF w \in ws THEN NoFut ELSE futs[w]
    BY DEF Cleared
<1>7. Moved(sched, futs, ws, good, s, Cleared(ws))
    BY <1>2, <1>3, <1>5, <1>6, Zenon DEF Moved
<1>8. Fits(s, Cleared(ws), coFile.length)
    BY <1>7, HarvestFits
<1>9. FutShape(Cleared(ws))
    BY DEF Cleared, FutShape, MediaInv, NoFut, FutFields
<1>10. \A w \in ws : ~Assigned(Cleared(ws)[w])
    BY <1>6 DEF Assigned, NoFut
<1> QED
    BY <1>5, <1>8, <1>9, <1>10 DEF s

LEMMA HarvestMedia ==
    ASSUME Shapes, MediaInv, Harvest
    PROVE  MediaInv'
<1>1. coFile' = coFile /\ Fits(sched, futs, coFile.length)
    BY DEF Harvest, Frame, MediaInv
<1> DEFINE ws == {w \in Workers : Assigned(futs[w]) /\ ~Busy(futs[w])}
<1>2. PICK bad \in SUBSET {w \in ws : futs[w].st = "ok"} :
             LET s == Harvested(sched, ws, bad)
                 es == ErrorsOf(ws, bad)
                 as == AllocsOf(ws)
             IN  IF es = {} /\ as = {}
                 THEN /\ sched' = s
                      /\ futs' = Cleared(ws)
                      /\ Go("commit")
                      /\ UNCHANGED <<errs, allocs, cohort>>
                 ELSE IF Terminal(es) # {} THEN Leave(s, Cleared(ws), "failed")
                 ELSE IF as # {} THEN Control(s, Cleared(ws), "alloc", es, as)
                 ELSE \E kind \in es : Control(s, Cleared(ws), kind, es, as)
    BY DEF Harvest
<1> DEFINE s == Harvested(sched, ws, bad)
<1>3. \/ sched' = s /\ futs' = Cleared(ws) /\ Go("commit")
      \/ \E fate : Leave(s, Cleared(ws), fate)
      \/ \E kind, es, as : Control(s, Cleared(ws), kind, es, as)
    BY <1>2
<1>4. ws \in SUBSET Workers /\ \A w \in ws : Assigned(futs[w])
    OBVIOUS
<1> HIDE DEF ws
<1>5. /\ Fits(s, Cleared(ws), coFile.length)
      /\ DOMAIN s = SchedFields /\ FutShape(Cleared(ws))
    BY <1>1, <1>4, HarvestedFits
<1> HIDE DEF s
<1>6. CASE sched' = s /\ futs' = Cleared(ws) /\ Go("commit")
  <2>1. runner'.pc \in Loop
    BY <1>6, GoFacts DEF Loop
  <2> QED
    BY <1>1, <1>5, <1>6, <2>1, LoopMedia
<1>7. CASE \/ \E fate : Leave(s, Cleared(ws), fate)
           \/ \E kind, es, as : Control(s, Cleared(ws), kind, es, as)
  <2>1. Drains(s, Cleared(ws))
    BY <1>7, ControlDrains, LeaveDrains DEF Shapes
  <2> QED
    BY <1>1, <1>5, <2>1, DrainsMedia
<1> QED
    BY <1>3, <1>6, <1>7

LEMMA CommitReadyMedia ==
    ASSUME Shapes, MediaInv, CommitReady
    PROVE  MediaInv'
<1>1. coFile' = coFile /\ Fits(sched, futs, coFile.length) /\ runner.pc = "commit"
    BY DEF CommitReady, MediaInv
<1>2. \/ \E kind : Throw(sched, futs, kind)
      \/ /\ \E r \in sched.ready :
               /\ r.from = sched.done
               /\ sched' = [sched EXCEPT !.done = r.to, !.ready = @ \ {r}]
         /\ runner' = runner /\ futs' = futs
    BY Zenon DEF CommitReady
<1>3. CASE \E kind : Throw(sched, futs, kind)
    BY <1>1, <1>3, ThrowDrains, DrainsMedia DEF Shapes, MediaInv
<1>4. CASE /\ \E r \in sched.ready :
                 /\ r.from = sched.done
                 /\ sched' = [sched EXCEPT !.done = r.to, !.ready = @ \ {r}]
           /\ runner' = runner /\ futs' = futs
  <2>1. PICK r \in sched.ready :
                 /\ r.from = sched.done
                 /\ sched' = [sched EXCEPT !.done = r.to, !.ready = @ \ {r}]
    BY <1>4
  <2>2. Fits(sched', futs', coFile.length)
    BY <1>1, <1>4, <2>1, CommitFits DEF MediaInv
  <2>3. DOMAIN sched' = SchedFields /\ FutShape(futs')
    BY <1>4, <2>1 DEF MediaInv
  <2> QED
    BY <1>1, <1>4, <2>2, <2>3, LoopMedia DEF Loop
<1> QED
    BY <1>2, <1>3, <1>4

LEMMA CommitsDoneMedia ==
    ASSUME Shapes, MediaInv, CommitsDone
    PROVE  MediaInv'
<1>1. /\ coFile' = coFile /\ sched' = sched /\ futs' = futs
      /\ Fits(sched, futs, coFile.length)
    BY DEF CommitsDone, Frame, MediaInv
<1>2. runner'.pc \in Loop \/ (runner'.pc = "dispatch" /\ runner'.turn \in Nat \ {0})
  <2>1. runner'.pc = "top" \/ (runner'.pc = "dispatch" /\ runner'.turn = 1)
    BY DEF CommitsDone, Shapes, RunnerFields
  <2> QED
    BY <2>1 DEF Loop
<1> QED
    BY <1>1, <1>2, LoopMedia DEF MediaInv

LEMMA DispatchMedia ==
    ASSUME Shapes, MediaInv, Dispatch
    PROVE  MediaInv'
<1>1. coFile' = coFile /\ Fits(sched, futs, coFile.length) /\ runner.pc = "dispatch"
    BY DEF Dispatch, Frame, MediaInv
<1>2. runner.turn \in 1 .. Len(Selected)
  <2>1. runner.turn \in Nat \ {0} /\ Len(Selected) \in Nat
    BY <1>1, CohortAssumption DEF MediaInv
  <2>2. runner.turn <= Len(Selected)
    BY DEF Dispatch
  <2> QED
    BY <2>1, <2>2
<1>3. ASSUME NextTurn
      PROVE  runner'.pc = "dispatch" /\ runner'.turn \in Nat \ {0}
  <2>1. runner'.pc = "dispatch" /\ runner'.turn = runner.turn + 1
    BY <1>1, <1>3 DEF NextTurn, Shapes, RunnerFields
  <2> QED
    BY <1>2, <2>1
<1> DEFINE w == Selected[runner.turn]
           Cut(size) == PlanNextWindow(NextStart(sched), size, NextLimit(sched))
           Window(size) == [from |-> NextStart(sched), to |-> Cut(size)]
<1>4. \/ NextTurn /\ sched' = sched /\ futs' = futs
      \/ \E kind : Throw(sched, futs, kind)
      \/ /\ ~Assigned(futs[w])
         /\ ~NothingToClaim(sched, futs)
         /\ \E size \in Minimum .. budgets[w].current :
              \/ /\ futs' = [futs EXCEPT ![w] =
                          [st |-> "queued", from |-> NextStart(sched), to |-> Cut(size)]]
                 /\ sched' = Claimed(sched, Cut(size))
                 /\ NextTurn
              \/ \E fate :
                    Leave(Yielded(Claimed(sched, Cut(size)), Window(size)), futs, fate)
              \/ \E kind :
                    Throw(Yielded(Claimed(sched, Cut(size)), Window(size)), futs, kind)
    BY DEF Dispatch
<1>5. CASE NextTurn /\ sched' = sched /\ futs' = futs
    BY <1>1, <1>3, <1>5, LoopMedia DEF MediaInv
<1>6. CASE \E kind : Throw(sched, futs, kind)
    BY <1>1, <1>6, ThrowDrains, DrainsMedia DEF Shapes, MediaInv
<1>7. ASSUME ~Assigned(futs[w]), ~NothingToClaim(sched, futs),
             NEW size \in Minimum .. budgets[w].current,
             \/ /\ futs' = [futs EXCEPT ![w] =
                          [st |-> "queued", from |-> NextStart(sched), to |-> Cut(size)]]
                /\ sched' = Claimed(sched, Cut(size))
                /\ NextTurn
             \/ \E fate :
                    Leave(Yielded(Claimed(sched, Cut(size)), Window(size)), futs, fate)
             \/ \E kind :
                    Throw(Yielded(Claimed(sched, Cut(size)), Window(size)), futs, kind)
      PROVE  MediaInv'
  <2>1. w \in Workers
    BY <1>2, CohortAssumption DEF Workers, Range
  <2>2. size \in Nat \ {0}
    BY <1>7, SizePositive
  <2>3. NextStart(sched) # NextLimit(sched)
    BY <1>7 DEF NothingToClaim
  <2>4. PICK end : end = Cut(size)
    OBVIOUS
  <2> HIDE DEF w
  <2>5. DOMAIN sched = SchedFields /\ FutShape(futs)
    BY DEF MediaInv
  <2>6. /\ Fits(Claimed(sched, end),
              [futs EXCEPT ![w] = [st |-> "queued", from |-> NextStart(sched), to |-> end]],
              coFile.length)
        /\ Fits(Yielded(Claimed(sched, end), [from |-> NextStart(sched), to |-> end]), futs,
                coFile.length)
    BY <1>1, <1>7, <2>1, <2>2, <2>3, <2>4, <2>5, ClaimFits, GivenBackFits
  <2>7. /\ DOMAIN Claimed(sched, end) = SchedFields
        /\ DOMAIN Yielded(Claimed(sched, end), [from |-> NextStart(sched), to |-> end])
             = SchedFields
    BY <2>5 DEF Claimed, Yielded
  <2>8. FutShape([futs EXCEPT ![w] = [st |-> "queued", from |-> NextStart(sched), to |-> end]])
    BY <2>5 DEF FutShape, FutFields
  <2> HIDE DEF Cut
  <2>9. CASE /\ futs' = [futs EXCEPT ![w] =
                          [st |-> "queued", from |-> NextStart(sched), to |-> Cut(size)]]
             /\ sched' = Claimed(sched, Cut(size))
             /\ NextTurn
    <3>1. /\ Fits(sched', futs', coFile.length) /\ DOMAIN sched' = SchedFields
          /\ FutShape(futs')
        BY <2>4, <2>6, <2>7, <2>8, <2>9
    <3> QED
        BY <1>1, <1>3, <2>9, <3>1, LoopMedia
  <2>10. CASE \/ \E fate :
                    Leave(Yielded(Claimed(sched, Cut(size)), Window(size)), futs, fate)
              \/ \E kind :
                    Throw(Yielded(Claimed(sched, Cut(size)), Window(size)), futs, kind)
    <3>1. PICK s : s = Yielded(Claimed(sched, end), [from |-> NextStart(sched), to |-> end])
        OBVIOUS
    <3>2. (\E fate : Leave(s, futs, fate)) \/ (\E kind : Throw(s, futs, kind))
        BY <2>4, <2>10, <3>1
    <3>3. Drains(s, futs)
        BY <3>2, LeaveDrains, ThrowDrains DEF Shapes
    <3> QED
        BY <1>1, <2>5, <2>6, <2>7, <3>1, <3>3, DrainsMedia
  <2> QED
    BY <1>7, <2>9, <2>10
<1> QED
    BY <1>4, <1>5, <1>6, <1>7

LEMMA DispatchDoneMedia ==
    ASSUME Shapes, MediaInv, DispatchDone
    PROVE  MediaInv'
<1>1. coFile' = coFile /\ Fits(sched, futs, coFile.length)
    BY DEF DispatchDone, Frame, MediaInv
<1>2. \/ Go("top") /\ sched' = sched /\ futs' = futs
      \/ \E fate : Leave(sched, futs, fate)
      \/ \E kind : Throw(sched, futs, kind)
    BY DEF DispatchDone
<1>3. CASE Go("top") /\ sched' = sched /\ futs' = futs
  <2>1. runner'.pc \in Loop
    BY <1>3, GoFacts DEF Loop
  <2> QED
    BY <1>1, <1>3, <2>1, LoopMedia DEF MediaInv
<1>4. CASE (\E fate : Leave(sched, futs, fate)) \/ (\E kind : Throw(sched, futs, kind))
  <2>1. Drains(sched, futs)
    BY <1>4, LeaveDrains, ThrowDrains DEF Shapes
  <2> QED
    BY <1>1, <2>1, DrainsMedia DEF MediaInv
<1> QED
    BY <1>2, <1>3, <1>4

\* The drain takes every future, or ends the file with the fate of a release
\* that is not confirmed.
LEMMA DrainWaitMedia ==
    ASSUME Shapes, MediaInv, DrainWait
    PROVE  MediaInv'
<1>1. /\ coFile' = coFile /\ Fits(sched, futs, coFile.length)
      /\ runner.then \in {"account", "end"}
    BY DEF DrainWait, Frame, MediaInv
<1> DEFINE ws == {w \in Workers : Assigned(futs[w])}
<1>2. \/ /\ \E bad : sched' = Harvested(sched, ws, bad)
         /\ futs' = Cleared(ws)
         /\ runner' = [runner EXCEPT !.pc =
                           IF runner.bound /\ runner.fate # "process" THEN "release"
                           ELSE runner.then,
                        !.unconfirmed = runner.fate = "process"]
      \/ /\ runner' = [runner EXCEPT !.pc = "end", !.fate = "release",
                                      !.unconfirmed = TRUE]
         /\ futs' = futs /\ sched' = sched
    BY DEF DrainWait
<1>3. CASE /\ \E bad : sched' = Harvested(sched, ws, bad)
           /\ futs' = Cleared(ws)
           /\ runner' = [runner EXCEPT !.pc =
                           IF runner.bound /\ runner.fate # "process" THEN "release"
                           ELSE runner.then,
                        !.unconfirmed = runner.fate = "process"]
  <2>1. ws \in SUBSET Workers /\ \A w \in ws : Assigned(futs[w])
    OBVIOUS
  <2>2. \A w \in Workers : w \notin ws => ~Assigned(futs[w])
    OBVIOUS
  <2> HIDE DEF ws
  <2>3. /\ Fits(sched', futs', coFile.length)
        /\ DOMAIN sched' = SchedFields /\ FutShape(futs')
        /\ \A w \in ws : ~Assigned(futs'[w])
    BY <1>1, <1>3, <2>1, HarvestedFits
  <2>4. \A w \in Workers \ ws : futs'[w] = futs[w]
    BY <1>3 DEF Cleared
  <2>5. ~Leftover'
    BY <2>2, <2>3, <2>4 DEF Leftover
  <2>6. /\ runner'.pc \in {"release", "account", "end"}
        /\ runner'.then = runner.then
    BY <1>1, <1>3 DEF Shapes, RunnerFields
  <2>7. FutsKept'
    BY <2>5, <2>6 DEF FutsKept
  <2> QED
    BY <1>1, <2>3, <2>6, <2>7 DEF MediaInv
<1>4. CASE /\ runner' = [runner EXCEPT !.pc = "end", !.fate = "release",
                                        !.unconfirmed = TRUE]
           /\ futs' = futs /\ sched' = sched
  <2>1. runner'.pc = "end" /\ runner'.fate = "release"
    BY <1>4 DEF Shapes, RunnerFields
  <2>2. FutsKept'
    BY <2>1 DEF FutsKept, Settled
  <2> QED
    BY <1>1, <1>4, <2>1, <2>2 DEF MediaInv
<1> QED
    BY <1>2, <1>3, <1>4

\* A step of the runner after the drain.
LEMMA SettledMedia ==
    ASSUME MediaInv, coFile' = coFile, sched' = sched, futs' = futs, ~Leftover,
           Fits(sched, futs, coFile.length),
           runner'.pc \in {"account", "recover", "finalize", "end", "top"} \/
               (runner'.pc \in {"release", "drain"} /\ runner'.then = "end")
    PROVE  MediaInv'
<1>1. ~Leftover'
    BY DEF Leftover
<1>2. FutsKept'
    BY <1>1 DEF FutsKept
<1> QED
    BY <1>2 DEF MediaInv

\* When the whole file is in the journal, no worker has a range of it.
LEMMA ReleaseCohortMedia ==
    ASSUME Shapes, MediaInv, ReleaseCohort
    PROVE  MediaInv'
<1>1. /\ coFile' = coFile /\ sched' = sched /\ futs' = futs
      /\ runner.pc \in {"release", "final"}
    BY DEF ReleaseCohort
<1>2. Fits(sched, futs, coFile.length)
    BY <1>1 DEF MediaInv
<1>3. ~Leftover
  <2>1. CASE runner.pc = "release"
    BY <2>1 DEF MediaInv, FutsKept, Settled
  <2>2. CASE runner.pc = "final"
    <3>1. sched.done = coFile.length
        BY <2>2 DEF MediaInv
    <3>2. ASSUME NEW w \in Workers, Assigned(futs[w]) PROVE FALSE
        BY <1>2, <3>1, <3>2 DEF Fits, FutBounds, Bounds, Within
    <3> QED
        BY <3>2 DEF Leftover
  <2> QED
    BY <1>1, <2>1, <2>2
<1>4. \/ Go("finalize")
      \/ runner' = [runner EXCEPT !.pc = "release", !.then = "end", !.fate = "release"]
      \/ runner' = [runner EXCEPT !.pc = "end", !.fate = "release"]
      \/ runner' = [runner EXCEPT !.pc = "finalize", !.bound = FALSE]
      \/ runner.pc = "release" /\ runner' = [runner EXCEPT !.pc = runner.then]
    BY Zenon DEF ReleaseCohort
<1>5. runner.pc = "release" => runner.then \in {"account", "end"}
    BY DEF MediaInv
<1>6. runner'.pc \in {"account", "recover", "finalize", "end", "top"} \/
               (runner'.pc \in {"release", "drain"} /\ runner'.then = "end")
    BY <1>4, <1>5, GoFacts DEF Shapes, RunnerFields
<1> QED
    BY <1>1, <1>2, <1>3, <1>6, SettledMedia

LEMMA AccountMedia ==
    ASSUME Shapes, MediaInv, Account
    PROVE  MediaInv'
<1>1. /\ coFile' = coFile /\ sched' = sched /\ futs' = futs /\ runner.pc = "account"
    BY DEF Account
<1>2. Fits(sched, futs, coFile.length) /\ ~Leftover
    BY <1>1 DEF MediaInv, FutsKept, Settled
<1>3. \/ \E fate : runner' = [runner EXCEPT !.pc = "drain", !.then = "end", !.fate = fate]
      \/ \E x : runner' = [runner EXCEPT !.pc = "recover", !.bound = FALSE,
                               !.then = "none", !.fate = "none", !.exhausted = x]
    BY Zenon DEF Account
<1>4. runner'.pc = "recover" \/ (runner'.pc = "drain" /\ runner'.then = "end")
    BY <1>3 DEF Shapes, RunnerFields
<1> QED
    BY <1>1, <1>2, <1>4, SettledMedia

LEMMA RecoveredMedia ==
    ASSUME Shapes, MediaInv, CoRecovered
    PROVE  MediaInv'
<1>1. /\ coFile' = coFile /\ sched' = sched /\ futs' = futs /\ runner.pc = "recover"
    BY DEF CoRecovered
<1>2. Fits(sched, futs, coFile.length) /\ ~Leftover
    BY <1>1 DEF MediaInv, FutsKept, Settled
<1>3. \/ \E fate : runner' = [runner EXCEPT !.pc = "end", !.fate = fate]
      \/ runner' = At("top")
    BY Zenon DEF CoRecovered
<1>4. runner'.pc \in {"end", "top"}
  <2>1. At("top").pc = "top"
    BY DEF At
  <2>2. \A fate : [runner EXCEPT !.pc = "end", !.fate = fate].pc = "end"
    BY DEF Shapes, RunnerFields
  <2> QED
    BY <1>3, <2>1, <2>2
<1> QED
    BY <1>1, <1>2, <1>4, SettledMedia

LEMMA FinalizeMedia ==
    ASSUME Shapes, MediaInv, CoFinalize
    PROVE  MediaInv'
<1>1. /\ coFile' = coFile /\ sched' = sched /\ futs' = futs /\ runner.pc = "finalize"
    BY DEF CoFinalize, Frame
<1>2. Fits(sched, futs, coFile.length) /\ ~Leftover
    BY <1>1 DEF MediaInv, FutsKept, Settled
<1>3. runner'.pc = "end"
    BY DEF CoFinalize, Shapes, RunnerFields
<1> QED
    BY <1>1, <1>2, <1>3, SettledMedia

LEMMA EndFileMedia ==
    ASSUME MediaInv, EndFile
    PROVE  MediaInv'
<1>1. /\ coFile' = coFile /\ futs' = futs /\ sched' = NewSched /\ runner.pc = "end"
      /\ runner'.pc = "idle"
    BY DEF EndFile, At
<1>2. Leftover => runner.fate = "release"
    BY <1>1 DEF MediaInv, FutsKept
<1>3. Leftover => cleanup' = TRUE
    BY <1>2 DEF EndFile
<1>4. Leftover' = Leftover
    BY <1>1 DEF Leftover
<1>5. FutsKept'
    BY <1>1, <1>3, <1>4 DEF FutsKept, Settled
<1>6. DOMAIN sched' = SchedFields
    BY <1>1 DEF NewSched, SchedFields
<1> QED
    BY <1>1, <1>5, <1>6 DEF MediaInv

LEMMA InferMedia ==
    ASSUME MediaInv, NEW w \in Workers, InferStep(w)
    PROVE  MediaInv'
<1>1. coFile' = coFile /\ runner' = runner /\ sched' = sched /\ cleanup' = cleanup
    BY DEF InferStep, InferBegin, InferEnd, InferTransform, InferFrame
<1>2. Assigned(futs[w]) /\ \E st : st # "none" /\ Ends(w, st)
    BY DEF InferStep, InferBegin, InferEnd, InferTransform, CancelKind, Assigned
<1>3. PICK st : st # "none" /\ futs' = [futs EXCEPT ![w].st = st]
    BY <1>2 DEF Ends
<1>4. FutShape(futs')
    BY <1>3 DEF MediaInv, FutShape
<1>5. /\ futs'[w].st = st /\ futs'[w].from = futs[w].from /\ futs'[w].to = futs[w].to
      /\ \A v \in Workers : v # w => futs'[v] = futs[v]
    BY <1>3 DEF MediaInv, FutShape, FutFields
<1>6. SameMedia(sched, futs, sched, futs')
    BY <1>2, <1>3, <1>5 DEF SameMedia, Assigned
<1> QED
    BY <1>1, <1>4, <1>6, AsideMedia

LEMMA SameSelf == SameMedia(sched, futs, sched, futs)
BY DEF SameMedia

LEMMA AsideSteps ==
    ASSUME MediaInv, LoadStep \/ ShutdownStep \/ UNCHANGED coVars
    PROVE  MediaInv'
<1>1. coFile' = coFile /\ runner' = runner /\ sched' = sched /\ futs' = futs
    BY DEF LoadStep, LoadAdmit, LoadWorker, LoadReady, LoadFrame, ShutdownStep,
           ShutdownRequested, ShutdownTimesOut, ShutdownRelease, coVars
<1>2. cleanup = TRUE => cleanup' = TRUE
  <2>1. CASE LoadStep \/ UNCHANGED coVars
    BY <2>1 DEF LoadStep, LoadAdmit, LoadWorker, LoadReady, LoadFrame, coVars
  <2>2. CASE ShutdownStep
    BY <2>2 DEF ShutdownStep, ShutdownRequested, ShutdownTimesOut, ShutdownRelease
  <2> QED
    BY <2>1, <2>2
<1> QED
    BY <1>1, <1>2, SameSelf, AsideMedia DEF MediaInv

LEMMA InitMedia ==
    ASSUME CoInit
    PROVE  MediaInv
<1>1. coFile.length \in Nat
    BY CohortAssumption DEF CoInit
<1>2. sched = NewSched /\ DOMAIN sched = SchedFields
    BY DEF CoInit, NewSched, SchedFields
<1>3. FutShape(futs) /\ ~Leftover
    BY DEF CoInit, FutShape, FutFields, NoFut, Leftover, Assigned
<1>4. runner.pc = "idle"
    BY DEF CoInit, At
<1> QED
    BY <1>1, <1>2, <1>3, <1>4 DEF MediaInv, FutsKept

LEMMA NextMedia ==
    ASSUME LeaseInv, MediaInv, [CoNext]_coVars
    PROVE  MediaInv'
<1>1. Shapes
    BY DEF LeaseInv
<1>2. CASE StartCohortFile
    BY <1>2, StartMedia
<1>3. CASE RunnerStep
    BY <1>1, <1>3, LoopHeadMedia, WatchLoadMedia, LoadTakenMedia, HarvestMedia,
       CommitReadyMedia, CommitsDoneMedia, DispatchMedia, DispatchDoneMedia,
       DrainWaitMedia, ReleaseCohortMedia, AccountMedia, RecoveredMedia,
       FinalizeMedia, EndFileMedia, Zenon DEF RunnerStep
<1>4. CASE \E w \in Workers : InferStep(w)
    BY <1>4, InferMedia
<1>5. CASE LoadStep \/ ShutdownStep \/ UNCHANGED coVars
    BY <1>5, AsideSteps
<1> QED
    BY <1>2, <1>3, <1>4, <1>5 DEF CoNext

LEMMA WorkersFinite == IsFiniteSet(Workers)
<1>1. IsFiniteSet(1 .. Len(Selected)) /\ DOMAIN Selected = 1 .. Len(Selected)
    BY CohortAssumption, FS_Interval
<1>2. Selected \in Surjection(1 .. Len(Selected), Workers)
    BY <1>1, CohortAssumption DEF Surjection, Workers, Range
<1> QED
    BY <1>1, <1>2, FS_Surjection

\* What Fits says of the sets of units.
LEMMA FitsPartition ==
    ASSUME Fits(sched, futs, coFile.length)
    PROVE  /\ UNION Parts = 0 .. coFile.length - 1
           /\ \A p, q \in Parts : p # q => p \cap q = {}
           /\ \A r \in sched.ready, f \in InFlight : r.from # f.from
           /\ Cardinality({w \in Workers : Assigned(futs[w])}) = Cardinality(InFlight)
<1> DEFINE ws == {w \in Workers : Assigned(futs[w])}
<1>1. /\ coFile.length \in Nat /\ sched.claimed \in Nat /\ sched.done \in Nat
      /\ sched.done <= sched.claimed /\ sched.claimed <= coFile.length
      /\ \A u \in sched.retry : u \in Nat /\ sched.done <= u /\ u < sched.claimed
      /\ \A r \in sched.ready : Within(sched, r)
      /\ \A w \in ws : Within(sched, futs[w])
    BY DEF Fits, Bounds, FutBounds
<1>2. \A f : f \in InFlight <=> \E w \in ws : f = futs[w]
    BY DEF InFlight
<1>3. ASSUME NEW r, Within(sched, r)
      PROVE  \A u : u \in UnitsOf(r) <=> u \in Nat /\ Has(r, u)
    BY <1>1, <1>3 DEF UnitsOf, Has, Within
<1>4. \A u : /\ u \in 0 .. sched.done - 1 <=> u \in Nat /\ u < sched.done
             /\ u \in sched.claimed .. coFile.length - 1
                   <=> u \in Nat /\ sched.claimed <= u /\ u < coFile.length
             /\ u \in 0 .. coFile.length - 1 <=> u \in Nat /\ u < coFile.length
    BY <1>1
<1> DEFINE Journal == 0 .. sched.done - 1
           Rest == sched.claimed .. coFile.length - 1
<1>5. \A p : p \in Parts <=>
                 \/ p = Journal \/ p = sched.retry \/ p = Rest
                 \/ \E r \in sched.ready : p = UnitsOf(r)
                 \/ \E w \in ws : p = UnitsOf(futs[w])
    BY <1>2 DEF Parts
<1> DEFINE Place(p, u) ==
             \/ p = Journal /\ u < sched.done
             \/ p = sched.retry /\ u \in sched.retry
             \/ p = Rest /\ sched.claimed <= u
             \/ \E r \in sched.ready : p = UnitsOf(r) /\ Has(r, u)
             \/ \E w \in ws : p = UnitsOf(futs[w]) /\ Has(futs[w], u)
<1>6. ASSUME NEW p \in Parts, NEW u \in p
      PROVE  u \in Nat /\ u < coFile.length /\ Place(p, u)
  <2>1. CASE p = Journal \/ p = sched.retry \/ p = Rest
    BY <1>1, <1>4, <1>6, <2>1
  <2>2. ASSUME NEW r \in sched.ready, p = UnitsOf(r)
        PROVE  u \in Nat /\ Has(r, u) /\ u < coFile.length
    BY <1>1, <1>3, <1>6, <2>2 DEF Within, Has
  <2>3. ASSUME NEW w \in ws, p = UnitsOf(futs[w])
        PROVE  u \in Nat /\ Has(futs[w], u) /\ u < coFile.length
    BY <1>1, <1>3, <1>6, <2>3 DEF Within, Has
  <2> HIDE DEF Journal, Rest, ws
  <2> QED
    BY <1>5, <1>6, <2>1, <2>2, <2>3
<1>7. ASSUME NEW u \in Nat, u < coFile.length
      PROVE  \E p \in Parts : u \in p
  <2>1. CASE u < sched.done
    BY <1>4, <1>5, <2>1
  <2>2. CASE sched.claimed <= u
    BY <1>4, <1>5, <1>7, <2>2
  <2>3. CASE sched.done <= u /\ u < sched.claimed
    <3>1. \/ u \in sched.retry
          \/ \E r \in sched.ready : Has(r, u)
          \/ \E w \in ws : Has(futs[w], u)
        BY <2>3 DEF Fits, Covered
    <3>2. CASE u \in sched.retry
        BY <1>5, <3>2
    <3>3. ASSUME NEW r \in sched.ready, Has(r, u) PROVE \E p \in Parts : u \in p
      <4>1. u \in UnitsOf(r)
        BY <1>1, <1>3, <3>3
      <4> QED
        BY <1>5, <4>1
    <3>4. ASSUME NEW w \in ws, Has(futs[w], u) PROVE \E p \in Parts : u \in p
      <4>1. u \in UnitsOf(futs[w])
        BY <1>1, <1>3, <3>4
      <4> QED
        BY <1>5, <4>1
    <3> QED
        BY <3>1, <3>2, <3>3, <3>4
  <2> QED
    BY <1>1, <2>1, <2>2, <2>3
<1>8. UNION Parts = 0 .. coFile.length - 1
  <2>1. \A u : u \in UNION Parts <=> u \in Nat /\ u < coFile.length
    BY <1>6, <1>7
  <2> QED
    BY <1>4, <2>1
<1>9. ASSUME NEW a, NEW b, Within(sched, a), Within(sched, b), Apart(a, b), NEW u \in Nat
      PROVE  ~(Has(a, u) /\ Has(b, u)) /\ a.from # b.from
    BY <1>9 DEF Within, Apart, Has
<1>10. ASSUME NEW r \in sched.ready, NEW u \in Nat, Has(r, u)
       PROVE  /\ ~(u < sched.done) /\ ~(sched.claimed <= u) /\ u \notin sched.retry
              /\ \A t \in sched.ready : Has(t, u) => t = r
              /\ \A w \in ws : ~Has(futs[w], u)
  <2>1. ~(u < sched.done) /\ ~(sched.claimed <= u)
    BY <1>1, <1>10 DEF Within, Has
  <2>2. u \notin sched.retry
    BY <1>10 DEF Fits, RetryApart
  <2>3. \A t \in sched.ready : Has(t, u) => t = r
    BY <1>1, <1>9, <1>10 DEF Fits, ReadyApart
  <2>4. \A w \in ws : ~Has(futs[w], u)
    BY <1>1, <1>9, <1>10 DEF Fits, ReadyFutsApart
  <2> QED
    BY <2>1, <2>2, <2>3, <2>4
<1>11. ASSUME NEW w \in ws, NEW u \in Nat, Has(futs[w], u)
       PROVE  /\ ~(u < sched.done) /\ ~(sched.claimed <= u) /\ u \notin sched.retry
              /\ \A v \in ws : Has(futs[v], u) => v = w
  <2>1. ~(u < sched.done) /\ ~(sched.claimed <= u)
    BY <1>1, <1>11 DEF Within, Has
  <2>2. u \notin sched.retry
    BY <1>11 DEF Fits, RetryApart
  <2>3. \A v \in ws : Has(futs[v], u) => v = w
    BY <1>1, <1>9, <1>11 DEF Fits, FutsApart
  <2> QED
    BY <2>1, <2>2, <2>3
<1>12. \A p, q \in Parts : p # q => p \cap q = {}
  <2> SUFFICES ASSUME NEW p \in Parts, NEW q \in Parts, NEW u \in p, u \in q
               PROVE  p = q
    OBVIOUS
  <2>1. u \in Nat /\ Place(p, u) /\ Place(q, u)
    BY <1>6
  <2>2. ~(u < sched.done /\ sched.claimed <= u)
    BY <1>1, <2>1
  <2>3. u \in sched.retry => ~(u < sched.done) /\ ~(sched.claimed <= u)
    BY <1>1, <2>1
  <2> HIDE DEF Journal, Rest, ws
  <2>4. CASE \E r \in sched.ready : p = UnitsOf(r) /\ Has(r, u)
    BY <1>10, <1>11, <2>1, <2>4
  <2>5. CASE \E w \in ws : p = UnitsOf(futs[w]) /\ Has(futs[w], u)
    BY <1>10, <1>11, <2>1, <2>5
  <2>6. CASE \/ p = Journal /\ u < sched.done
             \/ p = sched.retry /\ u \in sched.retry
             \/ p = Rest /\ sched.claimed <= u
    BY <1>10, <1>11, <2>1, <2>2, <2>3, <2>6
  <2> QED
    BY <2>1, <2>4, <2>5, <2>6
<1>13. \A r \in sched.ready, f \in InFlight : r.from # f.from
    BY <1>1, <1>2, <1>9 DEF Fits, ReadyFutsApart
<1>14. Cardinality(ws) = Cardinality(InFlight)
  <2> DEFINE g == [w \in ws |-> futs[w]]
  <2>1. \A v, w \in ws : futs[v] = futs[w] => v = w
    <3> SUFFICES ASSUME NEW v \in ws, NEW w \in ws, v # w PROVE futs[v] # futs[w]
        OBVIOUS
    <3>1. Apart(futs[v], futs[w])
        BY DEF Fits, FutsApart
    <3>2. futs[v].from # futs[w].from
        BY <1>1, <1>9, <3>1
    <3> QED
        BY <3>2
  <2> HIDE DEF ws
  <2>2. g \in Surjection(ws, InFlight) /\ g \in Injection(ws, InFlight)
    <3>1. g \in [ws -> InFlight] /\ \A w \in ws : g[w] = futs[w]
        BY <1>2
    <3> HIDE DEF g
    <3>2. \A f \in InFlight : \E w \in ws : g[w] = f
        BY <1>2, <3>1
    <3>3. \A v, w \in ws : g[v] = g[w] => v = w
        BY <2>1, <3>1
    <3> QED
        BY <3>1, <3>2, <3>3 DEF Surjection, Injection, IsInjective
  <2>3. IsFiniteSet(ws)
    BY WorkersFinite, FS_Subset DEF ws
  <2> HIDE DEF g
  <2> QED
    BY <2>2, <2>3, FS_Surjection
<1> QED
    BY <1>8, <1>12, <1>13, <1>14

\* However claims, splits, retries, harvests, drains and commits interleave
\* (segmentation.py, parallel_transcription.py), every unit of the media of a
\* running file is in exactly one place, for every number of workers and
\* every file.
THEOREM MediaStaysPartitioned == CoSpec => []MediaIsPartitioned
<1>1. MediaInv => MediaIsPartitioned
    BY FitsPartition DEF MediaInv, MediaIsPartitioned
<1>2. CoInit => LeaseInv /\ MediaInv
    BY InitLease, InitMedia
<1>3. LeaseInv /\ MediaInv /\ [CoNext]_coVars => (LeaseInv /\ MediaInv)'
    BY NextLease, NextMedia
<1> QED
    BY <1>1, <1>2, <1>3, PTL DEF CoSpec

=============================================================================

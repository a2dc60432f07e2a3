-------------------------- MODULE OperationsProofs --------------------------
(***************************************************************************)
(* Theorems about the parts of MCOperations, for every value of their      *)
(* parameters.  The parts share no state, so each has an inductive         *)
(* invariant of its own over its own variables; PartsStart and PartsStep   *)
(* reduce the composition to the part.                                     *)
(*                                                                         *)
(*   resident worker   ReleaseIsConfirmed     WorkerInv                    *)
(*   source proof      ProofIsOfOneRun        SourceInv                    *)
(*   evidence          EvidenceIsSealed       SealInv                      *)
(*   log scanner       ProfileMissedNothing   ScanInv                      *)
(*   cgroup pins       DrainIsComplete        CgroupInv                    *)
(*   smoke test        SmokeIsEarned          SmokeInv                     *)
(*   release journal   JournalResumes         ResumeInv                    *)
(*                     JournalRecovers        ResumeInv and BlockInv       *)
(*   MQTT publisher    EndedIsOffline         OfflineInv                   *)
(*   repair reporter   NoReportIsLost         RepairInv                    *)
(*   priority signal   ClearMustBeEarned      PrioInv                      *)
(*                     EvidenceIsNeverStale   PrioInv                      *)
(*   release gate      GateMissesNothing      DrainInv                     *)
(*                     GateWatchesOneCycle    CycleInv                     *)
(*                                                                         *)
(* The proofs use the types of what a record holds through the set of its  *)
(* fields, `DOMAIN r = ...Fields', where the values do not matter.         *)
(***************************************************************************)
EXTENDS MCOperations, FiniteSetTheorems, SequenceTheorems, TLAPS

-----------------------------------------------------------------------------
(***************************************************************************)
(* A step of the composition is a step of each part, or leaves it alone.   *)
(***************************************************************************)

\* What the composition's initial predicate says of each part.
LEMMA PartsStart ==
    OpsInit => /\ Journal!JournalInit /\ Smoke!SmokeInit /\ Source!SourceInit
               /\ Cgroup!CgroupInit /\ Prof!ProfInit /\ Resident!WorkerInit
               /\ Repair!RepairInit /\ Mqtt!PubInit
BY DEF OpsInit

\* What a step of the composition is for each part.
LEMMA PartsStep ==
    [OpsNext]_opsVars =>
        /\ Journal!JournalNext \/ UNCHANGED journalVars
        /\ Smoke!SmokeNext \/ UNCHANGED smokeVars
        /\ Source!SourceNext \/ UNCHANGED sourceVars
        /\ Cgroup!CgroupNext \/ UNCHANGED cgroupVars
        /\ Prof!ProfNext \/ UNCHANGED profVars
        /\ Resident!WorkerNext \/ UNCHANGED workerVars
        /\ Repair!RepairNext \/ UNCHANGED repairVars
        /\ Mqtt!PubNext \/ UNCHANGED pubVars
BY Zenon DEF OpsNext, opsVars

-----------------------------------------------------------------------------
(***************************************************************************)
(* The resident worker.  ReleasedIsGone alone is not inductive: the worker *)
(* also must not reach _finish_pipes while its child runs, and has no pipe *)
(* threads before it has a child.                                          *)
(***************************************************************************)

WorkerFields == {"op", "pc", "attempted", "loaded", "released", "request", "stop", "threads"}

WorkerInv ==
    /\ DOMAIN resident = WorkerFields
    /\ "state" \in DOMAIN child
    /\ resident.pc = "finish" => ~Resident!Running
    /\ ~Resident!Spawned => ~resident.threads
    /\ ReleasedIsGone

\* TerminateFrom: a worker with a child goes on to kill it, one without is
\* released at once.
LEMMA TerminateKeeps ==
    ASSUME WorkerInv, NEW v, DOMAIN v = WorkerFields,
           v.threads = resident.threads, v.released = resident.released,
           resident' = Resident!TerminateFrom(v), child' = child
    PROVE  WorkerInv'
BY DEF WorkerInv, WorkerFields, ReleasedIsGone, Resident!ReleasedIsGone, Resident!TerminateFrom,
       Resident!Idle, Resident!Spawned, Resident!Running

\* Every step of the worker, of its threads and of its child keeps it.
LEMMA WorkerStep ==
    ASSUME WorkerInv, Resident!WorkerNext
    PROVE  WorkerInv'
<1> USE DEF WorkerInv, WorkerFields, ReleasedIsGone, Resident!ReleasedIsGone, Resident!Idle,
            Resident!Spawned, Resident!Running, Resident!NotBusy
<1>1. CASE Resident!Kill
  BY <1>1 DEF Resident!Kill
<1>2. CASE Resident!Reap
  BY <1>2 DEF Resident!Reap, Resident!ReapTimedOut
<1>3. CASE Resident!FinishPipes
  BY <1>3 DEF Resident!FinishPipes
<1>4. CASE Resident!ThreadsEnd
  BY <1>4 DEF Resident!ThreadsEnd
<1>5. CASE Resident!LoadRefused
  BY <1>5, TerminateKeeps DEF Resident!LoadRefused
<1>6. CASE Resident!LoadUnverified
  <2>1. CASE backend = "cuda"
    BY <1>6, <2>1, TerminateKeeps DEF Resident!LoadUnverified
  <2>2. CASE backend # "cuda"
    BY <1>6, <2>2 DEF Resident!LoadUnverified
  <2> QED BY <2>1, <2>2
<1>7. CASE Resident!Load
  BY <1>7 DEF Resident!Load
<1>8. ASSUME NEW v, NEW command, DOMAIN v = WorkerFields,
             v.threads = resident.threads, v.released = resident.released,
             Resident!SendOrFail(v, command), child' = child
      PROVE  WorkerInv'
  <2>1. CASE Len(commands) < 2
    BY <1>8, <2>1 DEF Resident!SendOrFail
  <2>2. CASE ~(Len(commands) < 2)
    BY <1>8, <2>2, TerminateKeeps DEF Resident!SendOrFail
  <2> QED BY <2>1, <2>2
<1>9. ASSUME Resident!Fail, child' = child
      PROVE  WorkerInv'
  BY <1>9, TerminateKeeps DEF Resident!Fail
<1>10. CASE Resident!ObserveMemory
  BY <1>10, <1>8, <1>9 DEF Resident!ObserveMemory
<1>11. CASE Resident!Transcribe
  <2>1. PICK v : v = [resident EXCEPT !.op = "transcribe", !.request = @ + 1]
    OBVIOUS
  <2>2. DOMAIN v = WorkerFields /\ v.threads = resident.threads
        /\ v.released = resident.released
    BY <2>1
  <2>3. \/ \E command : Resident!SendOrFail(v, command)
        \/ Resident!Fail
    BY <1>11, <2>1 DEF Resident!Transcribe
  <2> QED BY <1>11, <2>2, <2>3, <1>8, <1>9 DEF Resident!Transcribe
<1>12. CASE Resident!ChunkUnwritten
  BY <1>12, <1>9 DEF Resident!ChunkUnwritten
<1>13. CASE Resident!Unload
  BY <1>13, <1>8, <1>9 DEF Resident!Unload
<1>14. CASE Resident!WaitFails
  BY <1>14, <1>9 DEF Resident!WaitFails
<1>15. CASE Resident!Receive
  <2>1. CASE Resident!Accept
    BY <1>15, <2>1 DEF Resident!Receive, Resident!Accept
  <2>2. CASE UNCHANGED resident
    BY <1>15, <2>2 DEF Resident!Receive
  <2>3. CASE Resident!Fail
    BY <1>15, <2>3, <1>9 DEF Resident!Receive
  <2> QED BY <1>15, <2>1, <2>2, <2>3 DEF Resident!Receive
<1>16. CASE Resident!ExitSeen
  BY <1>16 DEF Resident!ExitSeen
<1>17. CASE Resident!ServeCommand
  BY <1>17 DEF Resident!ServeCommand
<1>18. CASE Resident!ChildProgress
  BY <1>18 DEF Resident!ChildProgress
<1>19. CASE Resident!ChildResult
  BY <1>19 DEF Resident!ChildResult
<1>20. CASE Resident!ChildError
  BY <1>20 DEF Resident!ChildError
<1>21. CASE Resident!ChildRepeats
  BY <1>21 DEF Resident!ChildRepeats
<1>22. CASE Resident!ChildExits
  BY <1>22 DEF Resident!ChildExits
<1>23. CASE Resident!ChildDies
  BY <1>23 DEF Resident!ChildDies
<1> QED
  BY <1>1, <1>2, <1>3, <1>4, <1>5, <1>6, <1>7, <1>10, <1>11, <1>12, <1>13, <1>14, <1>15,
     <1>16, <1>17, <1>18, <1>19, <1>20, <1>21, <1>22, <1>23
  DEF Resident!WorkerNext

\* A worker whose owner is told that it is released has no process and no
\* pipe thread left, for any number of requests and repeated packets
\* (resident_worker.py, _terminate and _finish_pipes).
THEOREM ReleaseIsConfirmed == OpsSpec => []ReleasedIsGone
<1>1. OpsInit => WorkerInv
  BY PartsStart DEF WorkerInv, WorkerFields, ReleasedIsGone, Resident!ReleasedIsGone,
     Resident!WorkerInit, Resident!Spawned, Resident!Running
<1>2. WorkerInv /\ [OpsNext]_opsVars => WorkerInv'
  <2>1. ASSUME WorkerInv, UNCHANGED workerVars
        PROVE  WorkerInv'
    BY <2>1 DEF workerVars, WorkerInv, ReleasedIsGone, Resident!ReleasedIsGone,
       Resident!Spawned, Resident!Running
  <2> QED BY <2>1, WorkerStep, PartsStep
<1>3. WorkerInv => ReleasedIsGone
  BY DEF WorkerInv
<1> QED BY <1>1, <1>2, <1>3, PTL DEF OpsSpec

-----------------------------------------------------------------------------
(***************************************************************************)
(* The source proof.  What a stage has established of the captured bytes   *)
(* and of the commits stays so in the later stages: nothing is captured    *)
(* after "candidate", and what other processes rewrite is not read again.  *)
(***************************************************************************)

ProofFields == {"pc", "next", "opened", "captured", "engine", "gate", "soak"}

\* The stages after each check.
AfterCommits == {"open", "reading", "candidate", "gate", "soak", "recheck", "proved"}
AfterCandidate == {"gate", "soak", "recheck", "proved"}
AfterGate == {"soak", "recheck", "proved"}
AfterSoak == {"recheck", "proved"}

SourceInv ==
    /\ DOMAIN proof = ProofFields
    /\ repo \in Repositories
    /\ proof.pc \in AfterCommits =>
          \A i \in 1 .. Len(repo.workflows) : Source!WorkflowIsManualOnly(repo.workflows[i])
    /\ proof.pc \in AfterCandidate =>
          /\ Image[proof.captured[Source!At(CandidateRecord)]] = Intended
          /\ proof.engine = proof.captured[Source!At(Boundary)]
    /\ proof.pc \in AfterGate =>
          /\ proof.gate = repo.bound.gate
          /\ \A f \in Source!GateReads : proof.captured[f] = repo.bound.gate
    /\ proof.pc \in AfterSoak =>
          /\ proof.soak = repo.bound.soak
          /\ proof.captured[Source!At(SealPath)] = repo.bound.soak

\* The three files with a role are among those the gate verifier gets.
LEMMA RolesAreRead ==
    ASSUME NEW need \in {CandidateRecord, Boundary, SealPath}
    PROVE  Source!At(need) \in Source!GateReads /\ Evidence[Source!At(need)] = need
BY SourceAssumption DEF Source!At, Source!GateReads

\* The prover reads a block to its end unless a comment stands at column 0.
LEMMA BlockIsRead ==
    ASSUME NEW repository \in Repositories, NEW i \in 1 .. Len(repository.workflows),
           NEW j \in 1 .. Len(repository.workflows[i]),
           \A k \in DOMAIN repository.workflows[i][j] :
              repository.workflows[i][j][k] # [indent |-> 0, holds |-> "comment"]
    PROVE  Source!Read(repository.workflows[i][j]) = Source!Written(repository.workflows[i][j])
<1> DEFINE block == repository.workflows[i][j]
<1>1. /\ block \in Seq([indent : Nat, holds : STRING])
      /\ \A k \in DOMAIN block : block[k].indent = 0 => block[k].holds = "comment"
  BY SourceAssumption
<1> HIDE DEF block
<1>2. \A k \in DOMAIN block : block[k] \in [indent : Nat, holds : STRING]
  <2> DEFINE kinds == [indent : Nat, holds : STRING]
  <2>1. block \in Seq(kinds)
    BY <1>1
  <2> HIDE DEF kinds
  <2>2. \A k \in DOMAIN block : block[k] \in kinds
    BY <2>1
  <2> QED BY <2>2 DEF kinds
<1>4. \A k \in DOMAIN block : block[k] # [indent |-> 0, holds |-> "comment"]
  BY DEF block
<1>3. \A k \in DOMAIN block : block[k].indent # 0
  <2> SUFFICES ASSUME NEW k \in DOMAIN block, block[k].indent = 0
               PROVE  FALSE
    OBVIOUS
  <2>1. block[k].holds = "comment" /\ block[k] \in [indent : Nat, holds : STRING]
    BY <1>1, <1>2
  <2>2. block[k] = [indent |-> 0, holds |-> "comment"]
    BY <2>1
  <2> QED BY <2>2, <1>4
<1>5. {j_1 \in DOMAIN block : /\ block[j_1].holds # "comment"
                             /\ \A k \in DOMAIN block : k <= j_1 => block[k].indent # 0}
      = {j_1 \in DOMAIN block : block[j_1].holds # "comment"}
  BY <1>3
<1>6. Source!Read(block) = Source!Written(block)
  BY <1>5 DEF Source!Read, Source!Written
<1> QED BY <1>6 DEF block

\* Every stage of the proof, and every edit meanwhile, keeps it.
LEMMA SourceStep ==
    ASSUME SourceInv, Source!SourceNext
    PROVE  SourceInv'
<1> USE DEF SourceInv, ProofFields, AfterCommits, AfterCandidate, AfterGate, AfterSoak,
            Source!Held, Source!Proceeds, Source!Blocks
<1>1. CASE Source!CheckCheckout
  BY <1>1 DEF Source!CheckCheckout
<1>2. CASE Source!CheckCommits
  BY <1>2 DEF Source!CheckCommits
<1>3. CASE Source!OpenInput
  BY <1>3 DEF Source!OpenInput
<1>4. CASE Source!ReadInput
  BY <1>4 DEF Source!ReadInput
<1>5. CASE Source!DeriveCandidateIdentity
  BY <1>5 DEF Source!DeriveCandidateIdentity
<1>6. CASE Source!GateVerifier
  BY <1>6 DEF Source!GateVerifier
<1>7. CASE Source!SoakVerifier
  <2>1. Evidence[Source!At(SealPath)] \in SoakReads /\ Source!At(SealPath) \in 1 .. Len(Evidence)
    BY RolesAreRead, SourceAssumption DEF Source!GateReads
  <2> QED BY <1>7, <2>1 DEF Source!SoakVerifier
<1>8. CASE Source!WriteProof
  BY <1>8 DEF Source!WriteProof
<1>9. CASE Source!EditWorktree \/ Source!EditEvidence
  BY <1>9 DEF Source!EditWorktree, Source!EditEvidence
<1> QED
  BY <1>1, <1>2, <1>3, <1>4, <1>5, <1>6, <1>7, <1>8, <1>9 DEF Source!SourceNext

\* A source proof that is written is about one gate run, which tested the intended
\* image, for any repository, any evidence files and any number of edits meanwhile
\* (source_proof.py, _capture_verifier_inputs), and a workflow of the release that
\* starts by itself has a comment at column 0 in its `on' block.
THEOREM ProofIsOfOneRun == OpsSpec => []ProofBindsOneCapture
<1>1. OpsInit => SourceInv
  BY PartsStart DEF SourceInv, ProofFields, AfterCommits, AfterCandidate, AfterGate, AfterSoak,
     Source!SourceInit, Source!NewProof
<1>2. SourceInv /\ [OpsNext]_opsVars => SourceInv'
  <2>1. ASSUME SourceInv, UNCHANGED sourceVars
        PROVE  SourceInv'
    BY <2>1 DEF sourceVars, SourceInv
  <2> QED BY <2>1, SourceStep, PartsStep
<1>3. SourceInv => ProofBindsOneCapture
  <2> SUFFICES ASSUME SourceInv, proof.pc = "proved"
               PROVE  ProofBindsOneCapture
    BY DEF ProofBindsOneCapture, Source!ProofBindsOneCapture
  <2>1. proof.gate = proof.soak /\ proof.engine = proof.gate /\ Image[proof.gate] = Intended
    BY RolesAreRead DEF SourceInv, AfterCandidate, AfterGate, AfterSoak
  <2>2. ASSUME NEW i \in 1 .. Len(repo.workflows), NEW j \in 1 .. Len(repo.workflows[i]),
               \A k \in DOMAIN repo.workflows[i][j] :
                  repo.workflows[i][j][k] # [indent |-> 0, holds |-> "comment"]
        PROVE  Source!Triggers(Source!Written(repo.workflows[i][j])) = {"workflow_dispatch"}
    <3>1. /\ Len(repo.workflows[i]) = 1
          /\ Source!Triggers(Source!Read(repo.workflows[i][1])) = {"workflow_dispatch"}
      BY DEF SourceInv, AfterCommits, Source!WorkflowIsManualOnly
    <3>2. Source!Read(repo.workflows[i][j]) = Source!Written(repo.workflows[i][j])
      BY <2>2, BlockIsRead DEF SourceInv
    <3> QED BY <3>1, <3>2
  <2> QED BY <2>1, <2>2 DEF ProofBindsOneCapture, Source!ProofBindsOneCapture
<1> QED BY <1>1, <1>2, <1>3, PTL DEF OpsSpec

-----------------------------------------------------------------------------
(***************************************************************************)
(* The profiler's evidence file.  A power loss may keep the seal of one    *)
(* directory state and the final name of another, so the two may differ in *)
(* the seal only while neither has a final name: the seal is synced before *)
(* the link is made.                                                       *)
(***************************************************************************)

RunFields == {"n", "pc", "seen", "cursor", "until", "source", "samples", "then"}

\* A seal that is whole and binds all records of run n.
Binds(seal, n) == seal.of = n /\ seal.whole = TRUE /\ seal.records = wrote[n]

\* Between opening the evidence and linking it, the final name is free.
BeforeLink == {"start", "sample", "scan", "stop", "completion", "seal", "create",
               "fill", "sync", "link"}

SealInv ==
    /\ DOMAIN run = RunFields
    /\ run.n \in ProfilerRuns
    /\ DOMAIN wrote = ProfilerRuns /\ \A r \in ProfilerRuns : wrote[r] \in Nat
    /\ DOMAIN profNow = {"partial", "seal", "final"}
    /\ DOMAIN profDisk = {"partial", "seal", "final"}
    /\ DOMAIN profNow.seal = {"of", "records", "whole"}
    /\ DOMAIN profDisk.seal = {"of", "records", "whole"}
    /\ run.pc = "scan" => run.then \in {"sample", "stop", "seal"}
    /\ run.pc \in BeforeLink => profNow.final = 0
    /\ run.pc \in {"fill", "sync"} => profNow.seal.of = run.n
                                     /\ profNow.seal.records = wrote[run.n]
    /\ run.pc = "sync" => profNow.seal.whole = TRUE
    /\ run.pc = "link" => Binds(profNow.seal, run.n) /\ profNow.seal = profDisk.seal
    /\ profNow.final # 0 => Binds(profNow.seal, profNow.final)
                            /\ profNow.seal = profDisk.seal
    /\ profDisk.final \in {0, profNow.final}

\* The steps that leave the directory and the records alone.
LEMMA SealKept ==
    ASSUME SealInv, UNCHANGED <<profNow, profDisk, wrote>>,
           DOMAIN run' = RunFields, run'.n = run.n,
           \/ run'.pc = run.pc /\ run'.then = run.then
           \/ run'.pc \in {"arm", "open", "over"}
           \/ run'.pc \in {"sample", "completion"} /\ run.pc \in BeforeLink
           \/ /\ run'.pc = "scan" /\ run'.then \in {"sample", "stop", "seal"}
              /\ run.pc \in BeforeLink
    PROVE  SealInv'
BY DEF SealInv, BeforeLink, Binds, RunFields

\* Every step keeps the seal's invariant.
LEMMA SealStep ==
    ASSUME SealInv, Prof!ProfNext
    PROVE  SealInv'
<1> USE DEF Prof!Kept, Prof!SameFiles, RunFields
<1>1. CASE Prof!Tick \/ Prof!FailureLine \/ Prof!ProfilerEnds \/ Prof!Publish
  BY <1>1, SealKept DEF Prof!Tick, Prof!FailureLine, Prof!ProfilerEnds, Prof!Publish, SealInv
<1>2. CASE Prof!Abort
  BY <1>2, SealKept DEF Prof!Abort, SealInv
<1>3. CASE Prof!Arm
  BY <1>3, SealKept DEF Prof!Arm, SealInv
<1>4. CASE Prof!Sample
  BY <1>4, SealKept DEF Prof!Sample, SealInv, BeforeLink
<1>5. CASE Prof!ScanSource
  BY <1>5, SealKept DEF Prof!ScanSource, SealInv
<1>6. CASE Prof!FinalObservation
  BY <1>6, SealKept DEF Prof!FinalObservation, SealInv, BeforeLink
<1>7. CASE Prof!StopCandidate
  BY <1>7, SealKept DEF Prof!StopCandidate, Prof!Step, SealInv, BeforeLink
<1>8. CASE Prof!StopCompletion
  BY <1>8, SealKept DEF Prof!StopCompletion, SealInv, BeforeLink
<1>9. CASE Prof!OpenEvidence
  BY <1>9, ProfilerAssumption DEF Prof!OpenEvidence, Prof!Step, SealInv, BeforeLink, Binds
<1>10. ASSUME run.pc \in {"start", "scan", "seal"}, Prof!WriteRecord,
              DOMAIN run' = RunFields, run'.n = run.n,
              run'.pc \in {"sample", "stop", "seal", "create"}
       PROVE  SealInv'
  BY <1>10, ProfilerAssumption DEF Prof!WriteRecord, SealInv, BeforeLink, Binds
<1>11. CASE Prof!StartCandidate
  BY <1>11, <1>10 DEF Prof!StartCandidate, SealInv
<1>12. CASE Prof!EndScan
  BY <1>12, <1>10 DEF Prof!EndScan, SealInv
<1>13. CASE Prof!SealRecord
  BY <1>13, <1>10 DEF Prof!SealRecord, Prof!Step, SealInv
<1> USE DEF SealInv, BeforeLink, Binds, Prof!Step
<1>14. CASE Prof!CreateSeal
  BY <1>14 DEF Prof!CreateSeal
<1>15. CASE Prof!WriteSeal
  BY <1>15 DEF Prof!WriteSeal
<1>16. CASE Prof!SyncSeal
  BY <1>16 DEF Prof!SyncSeal
<1>17. CASE Prof!LinkFinal
  BY <1>17, ProfilerAssumption DEF Prof!LinkFinal
<1>18. CASE Prof!SyncFinal
  BY <1>18 DEF Prof!SyncFinal
<1>19. CASE Prof!VerifyFinal
  BY <1>19 DEF Prof!VerifyFinal
<1>20. CASE Prof!PowerLost
  <2>1. PICK s \in {profNow.seal, profDisk.seal}, f \in {profNow.final, profDisk.final},
             p \in {profNow.partial, profDisk.partial} :
          profDisk' = [partial |-> p, seal |-> s, final |-> f]
    BY <1>20 DEF Prof!PowerLost
  <2>2. f # 0 => s = profNow.seal /\ Binds(s, f)
    BY <2>1
  <2> QED BY <1>20, <2>1, <2>2 DEF Prof!PowerLost
<1>21. CASE Prof!RunAgain
  BY <1>21 DEF Prof!RunAgain, Prof!Fresh
<1> QED
  BY <1>1, <1>2, <1>3, <1>4, <1>5, <1>6, <1>7, <1>8, <1>9, <1>11, <1>12, <1>13, <1>14,
     <1>15, <1>16, <1>17, <1>18, <1>19, <1>20, <1>21
  DEF Prof!ProfNext

\* Evidence under its final name is bound by a whole seal, in the directory
\* that processes see and in every one a power loss leaves, for any number of
\* runs and records (gate_health_sampler.py, EvidenceWriter.seal).
THEOREM EvidenceIsSealed == OpsSpec => []FinalEvidenceIsSealed
<1>1. OpsInit => SealInv
  BY PartsStart, ProfilerAssumption
  DEF SealInv, RunFields, BeforeLink, Prof!ProfInit, Prof!Fresh, Prof!EmptyDirectory,
      Prof!NoSeal
<1>2. SealInv /\ [OpsNext]_opsVars => SealInv'
  <2>1. ASSUME SealInv, UNCHANGED profVars
        PROVE  SealInv'
    BY <2>1 DEF profVars, SealInv, Binds
  <2> QED BY <2>1, SealStep, PartsStep
<1>3. SealInv => FinalEvidenceIsSealed
  BY DEF SealInv, Binds, FinalEvidenceIsSealed, Prof!FinalEvidenceIsSealed
<1> QED BY <1>1, <1>2, <1>3, PTL DEF OpsSpec

-----------------------------------------------------------------------------
(***************************************************************************)
(* The profiler's log windows.  Every line has the time at which it was    *)
(* written, and the next window begins where the last one ended: no line   *)
(* of this run is older than the cursor, and none of a source that was     *)
(* scanned is older than the end of the window being scanned.              *)
(***************************************************************************)

ScanSources == {"candidate", "frigate", "kernel"}

\* The run is watching the logs, or has drained them past the stop.
Watching == {"sample", "scan", "stop", "completion"}
Drained == {"seal", "create", "fill", "sync", "link", "published", "verify", "passed"}

\* The sources before the i-th are scanned.
Scanned(i) == {Prof!LogSources[j] : j \in 1 .. i - 1}

\* No line of these sources is older than t.
NoneOlder(sources, t) == \A l \in lines : l[1] \in sources => l[2] >= t

ScanInv ==
    /\ DOMAIN run = RunFields
    /\ "status" \in DOMAIN profBox
    /\ clock \in Nat /\ run.cursor \in 0 .. clock /\ run.until \in 0 .. clock
    /\ run.source \in 1 .. 4
    /\ lines \subseteq ScanSources \X (0 .. clock)
    /\ profBox.status = "created" => lines = {}
    /\ run.pc = "scan" => run.then \in {"sample", "stop", "seal"}
    /\ run.pc \in Watching => NoneOlder(ScanSources, run.cursor)
    /\ run.pc = "scan" => NoneOlder(Scanned(run.source), run.until)
    /\ run.pc \in Drained => NoneOlder(ScanSources, run.until)

\* All three sources are scanned when the scan ends, and none when it begins.
LEMMA ScanOrder ==
    /\ Scanned(1) = {}
    /\ Scanned(2) = {"candidate"} /\ Scanned(3) = {"candidate", "frigate"}
    /\ Scanned(4) = ScanSources
    /\ Prof!LogSources[1] = "candidate" /\ Prof!LogSources[2] = "frigate"
    /\ Prof!LogSources[3] = "kernel"
<1>1. /\ Prof!LogSources[1] = "candidate" /\ Prof!LogSources[2] = "frigate"
      /\ Prof!LogSources[3] = "kernel"
  BY DEF Prof!LogSources
<1>2. /\ 1 .. 1 - 1 = {} /\ 1 .. 2 - 1 = {1} /\ 1 .. 3 - 1 = {1, 2}
      /\ 1 .. 4 - 1 = {1, 2, 3}
  OBVIOUS
<1> QED BY <1>1, <1>2 DEF Scanned, ScanSources

\* A scan of the next source finds nothing: its lines are younger than the
\* window too, since the window reaches back behind the cursor.
LEMMA NextScanned ==
    ASSUME ScanInv, run.pc = "scan", run.source <= 3, Prof!Shown = {}
    PROVE  NoneOlder(Scanned(run.source + 1), run.until)
<1>1. run.source \in {1, 2, 3}
  BY DEF ScanInv
<1>2. Scanned(run.source + 1) = Scanned(run.source) \cup {Prof!LogSources[run.source]}
  BY <1>1, ScanOrder DEF ScanSources
<1>3. ASSUME NEW l \in lines, l[1] = Prof!LogSources[run.source]
      PROVE  l[2] >= run.until
  <2>1. l[1] \in ScanSources /\ l[2] \in Nat
    BY DEF ScanInv
  <2>2. l[2] >= run.cursor
    BY <2>1 DEF ScanInv, NoneOlder, Watching
  <2>3. ~(l[2] + Overlap >= run.cursor /\ l[2] <= run.until)
    BY <1>3 DEF Prof!Shown
  <2> QED BY <2>1, <2>2, <2>3, ProfilerAssumption DEF ScanInv
<1>4. NoneOlder(Scanned(run.source), run.until)
  BY DEF ScanInv
<1> QED BY <1>2, <1>3, <1>4 DEF NoneOlder

\* The steps that leave the clock and the lines alone, and do not begin a
\* container.
LEMMA ScanKept ==
    ASSUME ScanInv, UNCHANGED <<clock, lines>>, DOMAIN run' = RunFields,
           "status" \in DOMAIN profBox',
           profBox.status # "created" => profBox'.status # "created",
           run'.cursor = run.cursor, run'.until = run.until, run'.source = run.source,
           \/ run'.pc = run.pc /\ run'.then = run.then
           \/ run'.pc \in {"arm", "open", "start", "over"}
           \/ run.pc \in Drained /\ run'.pc \in Drained
           \/ run.pc = "stop" /\ run'.pc = "completion"
    PROVE  ScanInv'
BY DEF ScanInv, NoneOlder, Watching, Drained, RunFields, Scanned

\* Every step keeps the windows' invariant.
LEMMA ScanStep ==
    ASSUME ScanInv, Prof!ProfNext
    PROVE  ScanInv'
<1> USE DEF Prof!Kept, Prof!Step
<1>1. CASE Prof!Tick
  <2>1. clock' \in Nat /\ 0 .. clock \subseteq 0 .. clock'
    BY <1>1 DEF Prof!Tick, ScanInv
  <2> QED BY <1>1, <2>1 DEF Prof!Tick, ScanInv, NoneOlder
<1>2. CASE Prof!FailureLine
  <2>1. PICK s \in ScanSources : lines' = lines \cup {<<s, clock>>}
    BY <1>2 DEF Prof!FailureLine, ScanSources
  <2>2. clock >= run.cursor /\ clock >= run.until /\ clock \in 0 .. clock
    BY DEF ScanInv
  <2> QED BY <1>2, <2>1, <2>2 DEF Prof!FailureLine, ScanInv, NoneOlder, Scanned
<1>3. CASE Prof!ProfilerEnds \/ Prof!Publish
  BY <1>3, ScanKept DEF Prof!ProfilerEnds, Prof!Publish, ScanInv
<1>4. CASE Prof!Abort
  BY <1>4, ScanKept DEF Prof!Abort, ScanInv, RunFields
<1>5. CASE Prof!Arm
  BY <1>5, ScanKept DEF Prof!Arm, ScanInv, RunFields
<1>6. CASE Prof!OpenEvidence
  BY <1>6, ScanKept DEF Prof!OpenEvidence, ScanInv, RunFields
<1>7. CASE Prof!StartCandidate
  BY <1>7 DEF Prof!StartCandidate, ScanInv, RunFields, NoneOlder, Watching, Drained
<1>8. ASSUME run.pc \in {"sample", "completion"}, UNCHANGED <<clock, lines, profBox>>,
             \E t \in {"sample", "stop", "seal"} :
                run'.pc = "scan" /\ run'.then = t,
             DOMAIN run' = RunFields,
             run'.until = clock, run'.source = 1, run'.cursor = run.cursor
      PROVE  ScanInv'
  <2>1. clock \in 0 .. clock
    BY DEF ScanInv
  <2> QED BY <1>8, <2>1, ScanOrder DEF ScanInv, NoneOlder, Watching, Drained, Scanned
<1>9. CASE Prof!Sample
  BY <1>9, <1>8 DEF Prof!Sample, ScanInv, RunFields
<1>10. CASE Prof!FinalObservation
  BY <1>10, <1>8 DEF Prof!FinalObservation, ScanInv, RunFields
<1>11. CASE Prof!StopCompletion
  BY <1>11, <1>8 DEF Prof!StopCompletion, ScanInv, RunFields
<1>12. CASE Prof!ScanSource
  <2>1. NoneOlder(Scanned(run.source + 1), run.until)
    BY <1>12, NextScanned DEF Prof!ScanSource
  <2>2. run.source + 1 \in 1 .. 4
    BY <1>12 DEF Prof!ScanSource, ScanInv
  <2> QED
    BY <1>12, <2>1, <2>2
    DEF Prof!ScanSource, ScanInv, NoneOlder, Watching, Drained, RunFields, Scanned
<1>13. CASE Prof!EndScan
  <2>1. NoneOlder(ScanSources, run.until)
    BY <1>13, ScanOrder DEF Prof!EndScan, ScanInv
  <2> QED
    BY <1>13, <2>1 DEF Prof!EndScan, ScanInv, NoneOlder, Watching, Drained, RunFields
<1>14. CASE Prof!StopCandidate
  BY <1>14, ScanKept DEF Prof!StopCandidate, ScanInv, RunFields
<1>15. CASE \/ Prof!SealRecord \/ Prof!CreateSeal \/ Prof!WriteSeal \/ Prof!SyncSeal
            \/ Prof!LinkFinal \/ Prof!SyncFinal \/ Prof!VerifyFinal
  BY <1>15, ScanKept
  DEF Prof!SealRecord, Prof!CreateSeal, Prof!WriteSeal, Prof!SyncSeal, Prof!LinkFinal,
      Prof!SyncFinal, Prof!VerifyFinal, ScanInv, RunFields, Drained
<1>16. CASE Prof!PowerLost
  BY <1>16, ScanKept DEF Prof!PowerLost, ScanInv, RunFields
<1>17. CASE Prof!RunAgain
  BY <1>17 DEF Prof!RunAgain, Prof!Fresh, ScanInv, RunFields, NoneOlder, Watching, Drained
<1> QED
  BY <1>1, <1>2, <1>3, <1>4, <1>5, <1>6, <1>7, <1>9, <1>10, <1>11, <1>12, <1>13, <1>14,
     <1>15, <1>16, <1>17
  DEF Prof!ProfNext

\* A profile that passes has seen every failure line of its run that is older
\* than the end of its last window, for any number of samples, any overlap and
\* any number of lines (gate_health_sampler.py, IncrementalLogScanner.scan).
THEOREM ProfileMissedNothing == OpsSpec => []PassSawEveryFailure
<1>1. OpsInit => ScanInv
  BY PartsStart
  DEF ScanInv, RunFields, Watching, Drained, Prof!ProfInit, Prof!Fresh
<1>2. ScanInv /\ [OpsNext]_opsVars => ScanInv'
  <2>1. ASSUME ScanInv, UNCHANGED profVars
        PROVE  ScanInv'
    BY <2>1 DEF profVars, ScanInv, NoneOlder, Scanned
  <2> QED BY <2>1, ScanStep, PartsStep
<1>3. ScanInv => PassSawEveryFailure
  BY DEF ScanInv, Drained, NoneOlder, PassSawEveryFailure, Prof!PassSawEveryFailure
<1> QED BY <1>1, <1>2, <1>3, PTL DEF OpsSpec

-----------------------------------------------------------------------------
(***************************************************************************)
(* The gate's cgroup.  While the candidate runs its directory cannot go,   *)
(* so that every event is counted in the directory under the name, which   *)
(* is the one the gate pins; once it has stopped there are no more events. *)
(***************************************************************************)

CgroupFields == {"direct", "child", "foreign", "keeper", "delegated", "oom"}
ParentFields == {"pc", "id", "bound", "base", "pin", "failed"}

\* The stages before the candidate, and after its stop.
BeforeStart == {"create", "delegate", "inspect", "uncreate", "start"}
AfterStop == {"drain", "clean", "await", "release", "remove", "done"}
AfterDrain == {"clean", "await", "release", "remove", "done"}

Directories == [direct : BOOLEAN, child : {"none", "live", "empty"}, foreign : BOOLEAN,
                keeper : BOOLEAN, delegated : BOOLEAN, oom : Nat]

CgroupTypes ==
    /\ DOMAIN parent = ParentFields /\ parent.failed \in BOOLEAN
    /\ cgroups \in Seq(Directories)
    /\ cgroupPath \in 0 .. Len(cgroups) /\ ooms \in Nat

\* Before the candidate has run nothing is counted.
NothingCounted ==
    parent.pc \in BeforeStart =>
        /\ cgroupBox = "created" /\ ooms = 0
        /\ parent.pin = 0 /\ parent.failed = FALSE
        /\ \A i \in DOMAIN cgroups : cgroups[i].oom = 0

\* A running candidate's events are those of the directory under the name.
LiveCounts ==
    cgroupBox = "running" =>
        /\ cgroupPath # 0 /\ cgroups[cgroupPath].child = "live"
        /\ cgroups[cgroupPath].oom = ooms

\* The pinned directory has counted all of them.
PinCounts ==
    parent.pin # 0 =>
        /\ parent.pin \in DOMAIN cgroups /\ cgroups[parent.pin].oom = ooms
        /\ cgroupBox = "running" => cgroupPath = parent.pin

\* What the gate knows after each of its stages.
StagesHold ==
    /\ parent.pc \in AfterStop => cgroupBox # "running"
    /\ parent.pc = "observe" => parent.pin # 0
    /\ parent.pc \in {"stop", "drain"} /\ ~parent.failed => parent.pin # 0
    /\ parent.pc \in AfterDrain /\ ~parent.failed => ooms = parent.base

CgroupInv == CgroupTypes /\ NothingCounted /\ LiveCounts /\ PinCounts /\ StagesHold

\* A directory as it is made.
LEMMA FreshDirectory ==
    ASSUME NEW d, NEW delegated \in BOOLEAN
    PROVE  /\ Cgroup!Fresh(d, delegated) \in Directories
           /\ [Cgroup!Fresh(d, delegated) EXCEPT !.child = "live"] \in Directories
           /\ Cgroup!Fresh(d, delegated).oom = 0
           /\ [Cgroup!Fresh(d, delegated) EXCEPT !.child = "live"].oom = 0
           /\ [Cgroup!Fresh(d, delegated) EXCEPT !.child = "live"].child = "live"
BY DEF Cgroup!Fresh, Directories

\* The steps of the gate that leave the directories and the candidate alone.
LEMMA GateKeeps ==
    ASSUME CgroupInv, UNCHANGED <<cgroups, cgroupPath, cgroupBox, ooms>>,
           DOMAIN parent' = ParentFields, parent'.failed \in BOOLEAN,
           parent'.pin = parent.pin, NothingCounted', StagesHold'
    PROVE  CgroupInv'
BY DEF CgroupInv, CgroupTypes, LiveCounts, PinCounts

\* The steps of the host that change directories, but neither their counters
\* nor the one the candidate runs in.
LEMMA HostKeeps ==
    ASSUME CgroupInv, UNCHANGED <<cgroupBox, ooms, parent>>,
           cgroups' \in Seq(Directories), cgroupPath' \in 0 .. Len(cgroups'),
           DOMAIN cgroups \subseteq DOMAIN cgroups',
           \A i \in DOMAIN cgroups : cgroups'[i].oom = cgroups[i].oom,
           \A i \in DOMAIN cgroups' \ DOMAIN cgroups : cgroups'[i].oom = 0,
           cgroupBox = "running" =>
              cgroupPath' = cgroupPath /\ cgroups'[cgroupPath].child = "live"
    PROVE  CgroupInv'
<1>1. CgroupTypes'
  BY DEF CgroupInv, CgroupTypes
<1>2. NothingCounted' /\ LiveCounts' /\ PinCounts'
  <2>1. cgroupPath # 0 => cgroupPath \in DOMAIN cgroups
    BY DEF CgroupInv, CgroupTypes
  <2> QED BY <2>1 DEF CgroupInv, NothingCounted, LiveCounts, PinCounts
<1>3. StagesHold'
  BY DEF CgroupInv, StagesHold
<1> QED BY <1>1, <1>2, <1>3 DEF CgroupInv

\* One directory replaced by another with the same counter.
LEMMA OneChanged ==
    ASSUME cgroups \in Seq(Directories), NEW i \in DOMAIN cgroups, NEW c \in Directories,
           c.oom = cgroups[i].oom, cgroups' = [cgroups EXCEPT ![i] = c]
    PROVE  /\ cgroups' \in Seq(Directories) /\ Len(cgroups') = Len(cgroups)
           /\ DOMAIN cgroups' = DOMAIN cgroups
           /\ \A j \in DOMAIN cgroups : cgroups'[j].oom = cgroups[j].oom
           /\ \A j \in DOMAIN cgroups : j # i => cgroups'[j] = cgroups[j]
           /\ cgroups'[i] = c
OBVIOUS

\* A directory with one field changed.
LEMMA FieldChanged ==
    ASSUME NEW r \in Directories, NEW b \in BOOLEAN, NEW c,
           \/ c = [r EXCEPT !.delegated = b] \/ c = [r EXCEPT !.keeper = b]
           \/ c = [r EXCEPT !.direct = b] \/ c = [r EXCEPT !.foreign = b]
    PROVE  c \in Directories /\ c.oom = r.oom /\ c.child = r.child
BY DEF Directories

\* A directory whose child comes, ends or goes.
LEMMA ChildChanged ==
    ASSUME NEW r \in Directories, NEW k \in {"none", "live", "empty"}, NEW c,
           c = [r EXCEPT !.child = k]
    PROVE  c \in Directories /\ c.oom = r.oom /\ c.child = k
BY DEF Directories

\* A directory that counts an event.
LEMMA EventCounted ==
    ASSUME NEW r \in Directories, NEW k \in {"none", "live", "empty"}, NEW c,
           c = [r EXCEPT !.oom = @ + 1, !.child = k]
    PROVE  c \in Directories /\ c.oom = r.oom + 1 /\ c.child = k
<1>1. PICK n \in Nat : n = r.oom + 1
  BY DEF Directories
<1>2. c = [r EXCEPT !.oom = n, !.child = k]
  BY <1>1
<1>3. c \in Directories /\ c.oom = n /\ c.child = k
  BY <1>2 DEF Directories
<1> QED BY <1>1, <1>3

\* Making the parent directory, up to the candidate's start.
LEMMA CreationStep ==
    ASSUME CgroupInv,
           \/ Cgroup!Create \/ Cgroup!Delegate \/ Cgroup!Inspect
           \/ Cgroup!CleanupFailedCreation \/ Cgroup!StartCandidate
    PROVE  CgroupInv'
<1> USE DEF Cgroup!Gate, Cgroup!Go, ParentFields
<1>1. CASE Cgroup!Create
  <2>1. CASE cgroupPath # 0 \/ Len(cgroups) = MaxCgroups
    BY <1>1, <2>1, GateKeeps
    DEF Cgroup!Create, Cgroup!Fail, CgroupInv, CgroupTypes, NothingCounted, StagesHold,
        BeforeStart, AfterStop, AfterDrain
  <2>2. CASE ~(cgroupPath # 0 \/ Len(cgroups) = MaxCgroups)
    <3>1. PICK new : new = Cgroup!Fresh(driver, driver = "systemd")
      OBVIOUS
    <3>2. new \in Directories /\ new.oom = 0
      BY <3>1, FreshDirectory
    <3>3. /\ cgroups' = Append(cgroups, new) /\ cgroupPath' = Len(cgroups) + 1
          /\ parent'.pc \in {"inspect", "delegate"} /\ parent' = [parent EXCEPT !.pc = parent'.pc]
          /\ UNCHANGED <<cgroupBox, ooms>> /\ parent.pc = "create"
      BY <1>1, <2>2, <3>1 DEF Cgroup!Create, CgroupInv, CgroupTypes
    <3> QED
      BY <3>2, <3>3
      DEF CgroupInv, CgroupTypes, NothingCounted, LiveCounts, PinCounts, StagesHold,
          BeforeStart, AfterStop, AfterDrain
  <2> QED BY <2>1, <2>2
<1>2. CASE Cgroup!Delegate
  <2>1. CASE cgroupPath = 0
    BY <1>2, <2>1, GateKeeps
    DEF Cgroup!Delegate, CgroupInv, CgroupTypes, NothingCounted, StagesHold,
        BeforeStart, AfterStop, AfterDrain
  <2>2. CASE cgroupPath # 0
    <3>1. cgroupPath \in DOMAIN cgroups /\ cgroups \in Seq(Directories)
      BY <2>2 DEF CgroupInv, CgroupTypes
    <3>2. PICK c : c = [cgroups[cgroupPath] EXCEPT !.delegated = TRUE]
      OBVIOUS
    <3>3. c \in Directories /\ c.oom = cgroups[cgroupPath].oom
      <4>1. cgroups[cgroupPath] \in Directories
        BY <3>1
      <4> QED BY <4>1, <3>2, FieldChanged
    <3>4. /\ cgroups' = [cgroups EXCEPT ![cgroupPath] = c] /\ cgroupPath' = cgroupPath
          /\ parent.pc = "delegate" /\ parent' = [parent EXCEPT !.pc = "inspect"]
          /\ UNCHANGED <<cgroupBox, ooms>>
      BY <1>2, <2>2, <3>2 DEF Cgroup!Delegate
    <3>5. /\ cgroups' \in Seq(Directories) /\ Len(cgroups') = Len(cgroups)
          /\ \A i \in DOMAIN cgroups' : cgroups'[i].oom = cgroups[i].oom /\ i \in DOMAIN cgroups
      BY <3>1, <3>3, <3>4
    <3> QED
      BY <3>4, <3>5
      DEF CgroupInv, CgroupTypes, NothingCounted, LiveCounts, PinCounts, StagesHold,
          BeforeStart, AfterStop, AfterDrain
  <2> QED BY <2>1, <2>2
<1>3. CASE Cgroup!Inspect
  BY <1>3, GateKeeps
  DEF Cgroup!Inspect, CgroupInv, CgroupTypes, NothingCounted, StagesHold,
      BeforeStart, AfterStop, AfterDrain
<1>4. CASE Cgroup!CleanupFailedCreation
  <2>1. /\ cgroupPath' \in {0, cgroupPath} /\ UNCHANGED <<cgroups, cgroupBox, ooms>>
        /\ parent' = [parent EXCEPT !.pc = "done", !.failed = TRUE]
        /\ parent.pc = "uncreate"
    BY <1>4 DEF Cgroup!CleanupFailedCreation
  <2> QED
    BY <2>1
    DEF CgroupInv, CgroupTypes, NothingCounted, LiveCounts, PinCounts, StagesHold,
        BeforeStart, AfterStop, AfterDrain
<1>5. CASE Cgroup!StartCandidate
  <2>1. /\ parent.pc = "start" /\ parent' = [parent EXCEPT !.pc = "bind"]
        /\ cgroupBox' = "running" /\ ooms' = ooms
    BY <1>5 DEF Cgroup!StartCandidate
  <2>2. /\ cgroups' \in Seq(Directories)
        /\ cgroupPath' \in DOMAIN cgroups' /\ cgroups'[cgroupPath'].child = "live"
        /\ cgroups'[cgroupPath'].oom = 0
    <3>1. CASE cgroupPath # 0
      <4>1. /\ cgroupPath \in DOMAIN cgroups /\ cgroups \in Seq(Directories)
            /\ cgroups[cgroupPath] \in Directories
        BY <3>1 DEF CgroupInv, CgroupTypes
      <4>2. cgroups[cgroupPath].oom = 0
        BY <2>1, <4>1 DEF CgroupInv, NothingCounted, BeforeStart
      <4>3. PICK c : c = [cgroups[cgroupPath] EXCEPT !.child = "live"]
        OBVIOUS
      <4>4. c \in Directories /\ c.oom = 0 /\ c.child = "live"
        BY <4>1, <4>2, <4>3, ChildChanged
      <4>5. cgroups' = [cgroups EXCEPT ![cgroupPath] = c] /\ cgroupPath' = cgroupPath
        BY <1>5, <3>1, <4>3 DEF Cgroup!StartCandidate
      <4> QED BY <4>1, <4>4, <4>5
    <3>2. CASE cgroupPath = 0
      <4>1. PICK new : new = [Cgroup!Fresh(driver, TRUE) EXCEPT !.child = "live"]
        OBVIOUS
      <4>2. new \in Directories /\ new.oom = 0 /\ new.child = "live"
        BY <4>1, FreshDirectory
      <4>3. cgroups' = Append(cgroups, new) /\ cgroupPath' = Len(cgroups) + 1
        BY <1>5, <3>2, <4>1 DEF Cgroup!StartCandidate
      <4> QED BY <4>2, <4>3 DEF CgroupInv, CgroupTypes
    <3> QED BY <3>1, <3>2
  <2> QED
    BY <2>1, <2>2
    DEF CgroupInv, CgroupTypes, NothingCounted, LiveCounts, PinCounts, StagesHold,
        BeforeStart, AfterStop, AfterDrain
<1> QED BY <1>1, <1>2, <1>3, <1>4, <1>5

\* Binding, pinning and observing the running candidate.
LEMMA ObservationStep ==
    ASSUME CgroupInv,
           \/ Cgroup!BindLive \/ Cgroup!MemoryEvents \/ Cgroup!ConfirmPlacement
           \/ Cgroup!CapturePinned \/ Cgroup!ObserveLive
    PROVE  CgroupInv'
<1> USE DEF Cgroup!Gate, Cgroup!Go, Cgroup!Fail, ParentFields
<1>1. CASE Cgroup!BindLive \/ Cgroup!MemoryEvents \/ Cgroup!ConfirmPlacement
           \/ Cgroup!ObserveLive
  BY <1>1, GateKeeps
  DEF Cgroup!BindLive, Cgroup!MemoryEvents, Cgroup!ConfirmPlacement, Cgroup!ObserveLive,
      CgroupInv, CgroupTypes, NothingCounted, StagesHold, BeforeStart, AfterStop, AfterDrain
<1>2. CASE Cgroup!CapturePinned
  <2>1. CASE Cgroup!PlacedAlone /\ Cgroup!Now.oom = parent.base
    <3>1. /\ cgroupBox = "running" /\ cgroupPath # 0 /\ parent.pc = "pin"
          /\ parent' = [parent EXCEPT !.pc = "observe", !.pin = cgroupPath]
          /\ UNCHANGED <<cgroups, cgroupPath, cgroupBox, ooms>>
      BY <1>2, <2>1
      DEF Cgroup!CapturePinned, Cgroup!PlacedAlone, Cgroup!SameParent
    <3>2. cgroupPath \in DOMAIN cgroups /\ cgroups[cgroupPath].oom = ooms
      BY <3>1 DEF CgroupInv, CgroupTypes, LiveCounts
    <3> QED
      BY <3>1, <3>2
      DEF CgroupInv, CgroupTypes, NothingCounted, LiveCounts, PinCounts, StagesHold,
          BeforeStart, AfterStop, AfterDrain
  <2>2. CASE ~(Cgroup!PlacedAlone /\ Cgroup!Now.oom = parent.base)
    BY <1>2, <2>2, GateKeeps
    DEF Cgroup!CapturePinned,
        CgroupInv, CgroupTypes, NothingCounted, StagesHold, BeforeStart, AfterStop, AfterDrain
  <2> QED BY <2>1, <2>2
<1> QED BY <1>1, <1>2

\* Stopping the candidate, the last drain and the clean-up.
LEMMA CleanupStep ==
    ASSUME CgroupInv,
           \/ Cgroup!StopCandidate \/ Cgroup!FinalDrain \/ Cgroup!Cleanup
           \/ Cgroup!AwaitChild \/ Cgroup!ReleaseParent \/ Cgroup!RemoveParent
    PROVE  CgroupInv'
<1> USE DEF Cgroup!Gate, Cgroup!Go, Cgroup!GiveUp, ParentFields
<1>1. CASE Cgroup!StopCandidate
  <2>1. /\ cgroupBox' = "stopped" /\ UNCHANGED <<cgroupPath, ooms>> /\ parent.pc = "stop"
        /\ parent' = [parent EXCEPT !.pc = IF parent.failed THEN "clean" ELSE "drain"]
    BY <1>1 DEF Cgroup!StopCandidate
  <2>2. ASSUME NEW i \in DOMAIN cgroups
        PROVE  Cgroup!Emptied(cgroups[i]) \in Directories
               /\ Cgroup!Emptied(cgroups[i]).oom = cgroups[i].oom
    <3>1. cgroups[i] \in Directories
      BY DEF CgroupInv, CgroupTypes
    <3>2. PICK k \in {"none", "live", "empty"} :
             Cgroup!Emptied(cgroups[i]) = [cgroups[i] EXCEPT !.child = k]
      BY <3>1 DEF Cgroup!Emptied, Directories
    <3> QED BY <3>1, <3>2, ChildChanged
  <2>3. /\ cgroups' \in Seq(Directories) /\ Len(cgroups') = Len(cgroups)
        /\ \A i \in DOMAIN cgroups : cgroups'[i].oom = cgroups[i].oom
    BY <1>1, <2>2 DEF Cgroup!StopCandidate, CgroupInv, CgroupTypes
  <2> QED
    BY <2>1, <2>3
    DEF CgroupInv, CgroupTypes, NothingCounted, LiveCounts, PinCounts, StagesHold,
        BeforeStart, AfterStop, AfterDrain
<1>2. CASE Cgroup!FinalDrain
  BY <1>2, GateKeeps
  DEF Cgroup!FinalDrain, Cgroup!Now, CgroupInv, CgroupTypes, NothingCounted, PinCounts,
      StagesHold, BeforeStart, AfterStop, AfterDrain
<1>3. CASE Cgroup!Cleanup \/ Cgroup!AwaitChild
  BY <1>3, GateKeeps
  DEF Cgroup!Cleanup, Cgroup!AwaitChild, CgroupInv, CgroupTypes, NothingCounted,
      StagesHold, BeforeStart, AfterStop, AfterDrain
<1>4. CASE Cgroup!ReleaseParent \/ Cgroup!RemoveParent
  <2>1. /\ UNCHANGED <<cgroupBox, ooms>> /\ parent.pc \in {"release", "remove"}
        /\ \/ parent' = [parent EXCEPT !.pc = "done"]
           \/ parent' = [parent EXCEPT !.pc = "remove"]
           \/ parent' = [parent EXCEPT !.pc = "done", !.failed = TRUE]
    BY <1>4 DEF Cgroup!ReleaseParent, Cgroup!RemoveParent
  <2>2. \/ cgroups' = cgroups /\ cgroupPath' \in {0, cgroupPath}
        \/ /\ cgroupPath # 0 /\ cgroupPath' = cgroupPath
           /\ cgroups' = [cgroups EXCEPT ![cgroupPath].delegated = FALSE]
    BY <1>4 DEF Cgroup!ReleaseParent, Cgroup!RemoveParent
  <2>3. /\ cgroups' \in Seq(Directories) /\ Len(cgroups') = Len(cgroups)
        /\ \A i \in DOMAIN cgroups : cgroups'[i].oom = cgroups[i].oom
        /\ cgroupPath' \in 0 .. Len(cgroups')
    <3>1. CASE cgroups' = cgroups /\ cgroupPath' \in {0, cgroupPath}
      BY <3>1 DEF CgroupInv, CgroupTypes
    <3>2. CASE /\ cgroupPath # 0 /\ cgroupPath' = cgroupPath
               /\ cgroups' = [cgroups EXCEPT ![cgroupPath].delegated = FALSE]
      <4>1. /\ cgroups \in Seq(Directories) /\ cgroupPath \in DOMAIN cgroups
            /\ cgroups[cgroupPath] \in Directories /\ cgroupPath \in 0 .. Len(cgroups)
        BY <3>2 DEF CgroupInv, CgroupTypes
      <4>2. PICK c : c = [cgroups[cgroupPath] EXCEPT !.delegated = FALSE]
        OBVIOUS
      <4>3. c \in Directories /\ c.oom = cgroups[cgroupPath].oom
        BY <4>1, <4>2, FieldChanged
      <4>4. cgroups' = [cgroups EXCEPT ![cgroupPath] = c]
        BY <3>2, <4>2
      <4>5. /\ cgroups' \in Seq(Directories) /\ Len(cgroups') = Len(cgroups)
            /\ \A i \in DOMAIN cgroups : cgroups'[i].oom = cgroups[i].oom
        BY <4>1, <4>3, <4>4, OneChanged
      <4> QED BY <3>2, <4>1, <4>5
    <3> QED BY <2>2, <3>1, <3>2
  <2>4. cgroupBox # "running"
    BY <2>1 DEF CgroupInv, StagesHold, AfterStop
  <2>5. DOMAIN cgroups' = DOMAIN cgroups
    BY <2>3 DEF CgroupInv, CgroupTypes
  <2>6. CgroupTypes'
    BY <2>1, <2>3 DEF CgroupInv, CgroupTypes
  <2>7. NothingCounted' /\ StagesHold'
    BY <2>1, <2>4
    DEF CgroupInv, CgroupTypes, NothingCounted, StagesHold, BeforeStart, AfterStop, AfterDrain
  <2>8. LiveCounts' /\ PinCounts'
    BY <2>1, <2>3, <2>4, <2>5 DEF CgroupInv, CgroupTypes, LiveCounts, PinCounts
  <2> QED BY <2>6, <2>7, <2>8 DEF CgroupInv
<1> QED BY <1>1, <1>2, <1>3, <1>4

\* What the candidate, Docker, systemd and other processes do.
LEMMA HostStep ==
    ASSUME CgroupInv,
           \/ Cgroup!OutOfMemory \/ Cgroup!ReapChild \/ Cgroup!ReapKeeper
           \/ Cgroup!Intrude \/ Cgroup!RemoveByOther \/ Cgroup!ReuseName
    PROVE  CgroupInv'
<1>0. /\ cgroups \in Seq(Directories) /\ cgroupPath \in 0 .. Len(cgroups) /\ ooms \in Nat
      /\ \A i \in DOMAIN cgroups : cgroups[i] \in Directories
      /\ cgroupPath # 0 => cgroupPath \in DOMAIN cgroups
  BY DEF CgroupInv, CgroupTypes
<1>1. CASE Cgroup!OutOfMemory
  <2>1. cgroupPath \in DOMAIN cgroups /\ cgroups[cgroupPath].child = "live"
        /\ cgroups[cgroupPath].oom = ooms /\ cgroupBox = "running"
    BY <1>0, <1>1 DEF Cgroup!OutOfMemory, CgroupInv, LiveCounts
  <2>2. PICK dies \in BOOLEAN :
          /\ cgroupBox' = IF dies THEN "exited" ELSE cgroupBox
          /\ cgroups' = [cgroups EXCEPT ![cgroupPath].oom = @ + 1,
                                        ![cgroupPath].child = IF dies THEN "empty" ELSE @]
    BY <1>1 DEF Cgroup!OutOfMemory
  <2>3. PICK k \in {"none", "live", "empty"} : k = IF dies THEN "empty" ELSE "live"
    OBVIOUS
  <2>0. PICK r \in Directories : r = cgroups[cgroupPath]
    BY <1>0, <2>1
  <2>4. PICK c : c = [r EXCEPT !.oom = @ + 1, !.child = k]
    OBVIOUS
  <2>5. c \in Directories /\ c.oom = ooms + 1 /\ c.child = k
    <3>1. c \in Directories /\ c.oom = r.oom + 1 /\ c.child = k
      BY <2>4, EventCounted
    <3> QED BY <3>1, <2>0, <2>1
  <2>6. cgroups' = [cgroups EXCEPT ![cgroupPath] = c]
    BY <1>0, <2>0, <2>1, <2>2, <2>3, <2>4
  <2>7. /\ cgroups' \in Seq(Directories) /\ Len(cgroups') = Len(cgroups)
        /\ DOMAIN cgroups' = DOMAIN cgroups /\ cgroups'[cgroupPath] = c
    BY <1>0, <2>1, <2>5, <2>6
  <2>8. UNCHANGED <<cgroupPath, parent>> /\ ooms' = ooms + 1
    BY <1>1 DEF Cgroup!OutOfMemory
  <2>9. parent.pc \notin BeforeStart /\ parent.pc \notin AfterStop
    BY <2>1 DEF CgroupInv, NothingCounted, StagesHold
  <2>10. parent.pin # 0 => parent.pin = cgroupPath
    BY <2>1 DEF CgroupInv, PinCounts
  <2>11. CgroupTypes'
    BY <1>0, <2>7, <2>8 DEF CgroupInv, CgroupTypes
  <2>12. cgroupBox' = "running" => c.child = "live"
    BY <2>2, <2>3, <2>5
  <2>13. NothingCounted' /\ StagesHold'
    BY <2>8, <2>9 DEF CgroupInv, NothingCounted, StagesHold, AfterDrain, AfterStop
  <2>14. LiveCounts' /\ PinCounts'
    BY <1>0, <2>1, <2>5, <2>7, <2>8, <2>10, <2>12 DEF LiveCounts, PinCounts
  <2> QED BY <2>11, <2>13, <2>14 DEF CgroupInv
<1>2. ASSUME NEW i \in DOMAIN cgroups, NEW c \in Directories,
             c.oom = cgroups[i].oom, cgroups' = [cgroups EXCEPT ![i] = c],
             cgroups[i].child = "live" => c.child = "live",
             UNCHANGED <<cgroupPath, cgroupBox, ooms, parent>>
      PROVE  CgroupInv'
  <2>1. /\ cgroups' \in Seq(Directories) /\ Len(cgroups') = Len(cgroups)
        /\ DOMAIN cgroups' = DOMAIN cgroups
        /\ \A j \in DOMAIN cgroups : cgroups'[j].oom = cgroups[j].oom
        /\ \A j \in DOMAIN cgroups : j # i => cgroups'[j] = cgroups[j]
        /\ cgroups'[i] = c
    BY <1>0, <1>2, OneChanged
  <2>2. cgroupBox = "running" => cgroups'[cgroupPath].child = "live"
    BY <1>0, <1>2, <2>1 DEF CgroupInv, LiveCounts
  <2> QED BY <1>0, <1>2, <2>1, <2>2, HostKeeps
<1>3. CASE Cgroup!ReapChild
  <2>1. PICK i \in DOMAIN cgroups : cgroups[i].child = "empty"
                                    /\ cgroups' = [cgroups EXCEPT ![i].child = "none"]
    BY <1>3 DEF Cgroup!ReapChild
  <2>2. PICK c : c = [cgroups[i] EXCEPT !.child = "none"]
    OBVIOUS
  <2>3. c \in Directories /\ c.oom = cgroups[i].oom
    BY <1>0, <2>2, ChildChanged
  <2>4. cgroups' = [cgroups EXCEPT ![i] = c]
    BY <2>1, <2>2
  <2> QED BY <1>2, <1>3, <2>1, <2>3, <2>4 DEF Cgroup!ReapChild
<1>4. CASE Cgroup!ReapKeeper
  <2>1. PICK c : c = [cgroups[cgroupPath] EXCEPT !.keeper = FALSE]
    OBVIOUS
  <2>2. cgroupPath \in DOMAIN cgroups
    BY <1>0, <1>4 DEF Cgroup!ReapKeeper
  <2>3. c \in Directories /\ c.oom = cgroups[cgroupPath].oom
        /\ c.child = cgroups[cgroupPath].child
    BY <1>0, <2>1, <2>2, FieldChanged
  <2>4. cgroups' = [cgroups EXCEPT ![cgroupPath] = c]
    BY <1>4, <2>1 DEF Cgroup!ReapKeeper
  <2> QED BY <1>2, <1>4, <2>2, <2>3, <2>4 DEF Cgroup!ReapKeeper
<1>5. CASE Cgroup!Intrude
  <2>1. cgroupPath \in DOMAIN cgroups
    BY <1>0, <1>5 DEF Cgroup!Intrude
  <2>2. PICK r \in Directories : r = cgroups[cgroupPath]
    BY <1>0, <2>1
  <2>3. PICK c : /\ cgroups' = [cgroups EXCEPT ![cgroupPath] = c]
                 /\ \/ c = [r EXCEPT !.direct = ~@] \/ c = [r EXCEPT !.foreign = ~@]
                    \/ c = [r EXCEPT !.delegated = ~@]
    BY <1>5, <2>2 DEF Cgroup!Intrude, Cgroup!Now
  <2>4. \E b \in BOOLEAN : \/ c = [r EXCEPT !.direct = b] \/ c = [r EXCEPT !.foreign = b]
                           \/ c = [r EXCEPT !.delegated = b]
    BY <2>3
  <2>5. c \in Directories /\ c.oom = r.oom /\ c.child = r.child
    BY <2>2, <2>4, FieldChanged
  <2> QED BY <1>2, <1>5, <2>1, <2>2, <2>3, <2>5 DEF Cgroup!Intrude, Cgroup!Upset
<1>6. CASE Cgroup!RemoveByOther
  <2>1. cgroups' = cgroups /\ cgroupPath' = 0 /\ UNCHANGED <<cgroupBox, ooms, parent>>
    BY <1>6 DEF Cgroup!RemoveByOther, Cgroup!Upset
  <2>2. cgroupBox # "running"
    BY <1>6 DEF Cgroup!RemoveByOther, Cgroup!HasChild, Cgroup!Now, CgroupInv, LiveCounts
  <2> QED BY <1>0, <2>1, <2>2, HostKeeps
<1>7. CASE Cgroup!ReuseName
  <2>1. PICK new : new = Cgroup!Fresh(driver, TRUE)
    OBVIOUS
  <2>2. new \in Directories /\ new.oom = 0
    BY <2>1, FreshDirectory
  <2>3. /\ cgroups' = Append(cgroups, new) /\ cgroupPath' = Len(cgroups) + 1
        /\ UNCHANGED <<cgroupBox, ooms, parent>> /\ cgroupPath = 0
    BY <1>7, <2>1 DEF Cgroup!ReuseName, Cgroup!Upset
  <2>4. cgroupBox # "running"
    BY <2>3 DEF CgroupInv, LiveCounts
  <2>5. /\ cgroups' \in Seq(Directories) /\ Len(cgroups') = Len(cgroups) + 1
        /\ \A i \in DOMAIN cgroups : i \in DOMAIN cgroups' /\ cgroups'[i] = cgroups[i]
        /\ \A i \in DOMAIN cgroups' \ DOMAIN cgroups : cgroups'[i] = new
    BY <1>0, <2>2, <2>3
  <2>6. cgroupPath' \in 0 .. Len(cgroups')
    BY <1>0, <2>3, <2>5
  <2> QED BY <1>0, <2>2, <2>3, <2>4, <2>5, <2>6, HostKeeps
<1> QED BY <1>1, <1>3, <1>4, <1>5, <1>6, <1>7

\* A gate that passes has counted every out-of-memory event of the candidate,
\* for any number of events, directories and disturbances by other processes
\* (runtime_gate_observer.py, PinnedCgroupEvidence.snapshot).
THEOREM DrainIsComplete == OpsSpec => []DrainCountsWholeLife
<1>1. OpsInit => CgroupInv
  <2> SUFFICES ASSUME Cgroup!CgroupInit
               PROVE  CgroupInv
    BY PartsStart
  <2>1. CgroupTypes
    BY DEF CgroupTypes, ParentFields, Cgroup!CgroupInit
  <2>2. NothingCounted /\ LiveCounts /\ PinCounts
    BY DEF NothingCounted, LiveCounts, PinCounts, Cgroup!CgroupInit
  <2>3. StagesHold
    BY DEF StagesHold, AfterStop, AfterDrain, Cgroup!CgroupInit
  <2> QED BY <2>1, <2>2, <2>3 DEF CgroupInv
<1>2. CgroupInv /\ [OpsNext]_opsVars => CgroupInv'
  <2>1. ASSUME CgroupInv, UNCHANGED cgroupVars
        PROVE  CgroupInv'
    BY <2>1 DEF cgroupVars, CgroupInv, CgroupTypes, NothingCounted, LiveCounts, PinCounts,
       StagesHold
  <2>2. ASSUME CgroupInv, Cgroup!CgroupNext
        PROVE  CgroupInv'
    BY <2>2, CreationStep, ObservationStep, CleanupStep, HostStep DEF Cgroup!CgroupNext
  <2> QED BY <2>1, <2>2, PartsStep
<1>3. CgroupInv => DrainCountsWholeLife
  BY DEF CgroupInv, StagesHold, AfterDrain, DrainCountsWholeLife,
     Cgroup!DrainCountsWholeLife
<1> QED BY <1>1, <1>2, <1>3, PTL DEF OpsSpec

-----------------------------------------------------------------------------
(***************************************************************************)
(* The anonymous smoke test.  An engine that is gone does not come back,   *)
(* so whatever answered or was pulled to since the session was bound lies  *)
(* between the bound engine and the one there now; when the last identity  *)
(* check finds the bound one, it was the only one.                         *)
(***************************************************************************)

SmokeFields == {"pc", "child", "selected", "bound", "stream", "at", "used", "pulled",
                "raised", "changed", "dirty"}

Walking == {"index", "children", "store", "open"}
Asking == {"list", "pull", "inspect", "remove", "list_after"}
InSession == Asking \cup {"closing"}

SmokeTypes ==
    /\ DOMAIN smoke = SmokeFields
    /\ engine \in Smoke!Engines /\ DOMAIN images = Smoke!Engines
    /\ Len(index) \in Nat
    /\ smoke.raised \in BOOLEAN /\ smoke.changed \in BOOLEAN /\ smoke.dirty \in BOOLEAN
    /\ smoke.pc \in Walking \cup InSession
                    \cup {"refused", "identity_changed", "cleanup_failed", "passed"}
    /\ smoke.at # "before" => smoke.pc \in Asking

\* Nothing has been asked of an engine during the walk over the registry.
WalkInv ==
    smoke.pc \in Walking =>
        /\ smoke.used = {} /\ smoke.raised = FALSE
        /\ \A e \in Smoke!Engines : "ours" \notin images[e]

\* The manifest with our config, among those fetched, and among all.
SelectedInv ==
    /\ smoke.pc = "index" => smoke.child = 1 /\ smoke.selected = 0
    /\ smoke.pc = "children" =>
          /\ smoke.child \in 1 .. Len(index) + 1 /\ smoke.selected \in 0 .. smoke.child - 1
          /\ \A i \in 1 .. smoke.child - 1 : index[i].ours <=> i = smoke.selected
    /\ smoke.pc \in {"store", "open", "passed"} \cup InSession =>
          {i \in 1 .. Len(index) : index[i].ours} = {smoke.selected}

\* Every engine that answered or was pulled to is one from the bound one on.
SessionInv ==
    smoke.pc \in InSession =>
        /\ smoke.bound \in 1 .. engine
        /\ smoke.used \subseteq smoke.bound .. engine
        /\ \A e \in Smoke!Engines : "ours" \in images[e] => e >= smoke.bound /\ e <= engine
        /\ ~smoke.raised => smoke.bound # Candidate
        /\ ~smoke.raised /\ (smoke.pc # "list" \/ smoke.at = "after") => smoke.used # {}

\* After the last listing, a bound engine that is still there is clean.
CleanInv ==
    /\ smoke.pc = "list_after" /\ smoke.at = "after" /\ ~smoke.dirty =>
          (engine = smoke.bound => "ours" \notin images[engine])
    /\ smoke.pc = "closing" /\ ~smoke.raised /\ ~smoke.changed /\ ~smoke.dirty =>
          (engine = smoke.bound => "ours" \notin images[engine])

SmokeInv == SmokeTypes /\ WalkInv /\ SelectedInv /\ SessionInv /\ CleanInv /\ PassIsEarned

\* The exchange that follows each exchange.
LEMMA FollowingExchange ==
    /\ Smoke!Following("list") = "pull" /\ Smoke!Following("pull") = "inspect"
    /\ Smoke!Following("inspect") = "remove" /\ Smoke!Following("remove") = "list_after"
    /\ Smoke!Following("list_after") = "closing"
<1>1. /\ Smoke!Exchanges[1] = "list" /\ Smoke!Exchanges[2] = "pull"
      /\ Smoke!Exchanges[3] = "inspect" /\ Smoke!Exchanges[4] = "remove"
      /\ Smoke!Exchanges[5] = "list_after" /\ Smoke!Exchanges[6] = "closing"
  BY DEF Smoke!Exchanges
<1>2. ASSUME NEW k \in 1 .. 5
      PROVE  (CHOOSE i \in 1 .. 5 : Smoke!Exchanges[i] = Smoke!Exchanges[k]) = k
  <2>1. \A i \in 1 .. 5 : Smoke!Exchanges[i] = Smoke!Exchanges[k] => i = k
    BY <1>1
  <2> QED BY <2>1
<1>3. \A k \in 1 .. 5 : Smoke!Following(Smoke!Exchanges[k]) = Smoke!Exchanges[k + 1]
  BY <1>2 DEF Smoke!Following
<1>4. /\ 1 + 1 = 2 /\ 2 + 1 = 3 /\ 3 + 1 = 4 /\ 4 + 1 = 5 /\ 5 + 1 = 6
      /\ 1 \in 1 .. 5 /\ 2 \in 1 .. 5 /\ 3 \in 1 .. 5 /\ 4 \in 1 .. 5 /\ 5 \in 1 .. 5
  OBVIOUS
<1> QED BY <1>1, <1>3, <1>4

\* The walk over the registry, and the session's opening.
LEMMA WalkStep ==
    ASSUME SmokeInv,
           \/ Smoke!FetchIndex \/ Smoke!FetchManifest \/ Smoke!FetchLayers
           \/ Smoke!RemoveStore \/ Smoke!OpenSession
    PROVE  SmokeInv'
<1>0. UNCHANGED <<index, engine, images>> /\ smoke.pc \in Walking
  BY DEF Smoke!FetchIndex, Smoke!FetchManifest, Smoke!FetchLayers, Smoke!RemoveStore,
         Smoke!OpenSession, Smoke!SameWorld, Walking
<1>1. smoke.at = "before"
  BY <1>0 DEF SmokeInv, SmokeTypes, Walking, Asking
<1>2. ASSUME smoke' = [smoke EXCEPT !.pc = "refused"]
      PROVE  SmokeInv'
  BY <1>0, <1>1, <1>2
  DEF SmokeInv, SmokeTypes, SmokeFields, WalkInv, SelectedInv, SessionInv, CleanInv,
      PassIsEarned, Smoke!PassIsEarned, Walking, InSession, Asking
<1>3. ASSUME DOMAIN smoke' = SmokeFields, smoke'.at = "before",
             smoke'.pc \in {"children", "store", "open"},
             smoke'.used = smoke.used, smoke'.raised = smoke.raised,
             smoke'.changed = smoke.changed, smoke'.dirty = smoke.dirty, SelectedInv'
      PROVE  SmokeInv'
  BY <1>0, <1>3
  DEF SmokeInv, SmokeTypes, WalkInv, SessionInv, CleanInv,
      PassIsEarned, Smoke!PassIsEarned, Walking, InSession, Asking
<1>4. CASE Smoke!FetchIndex
  <2>1. CASE index = << >>
    BY <1>2, <1>4, <2>1 DEF Smoke!FetchIndex, Smoke!Refused
  <2>2. CASE index # << >>
    <3>1. smoke.pc = "index" /\ smoke' = [smoke EXCEPT !.pc = "children"]
      BY <1>4, <2>2 DEF Smoke!FetchIndex
    <3>2. smoke.child = 1 /\ smoke.selected = 0
      BY <3>1 DEF SmokeInv, SelectedInv
    <3>3. SelectedInv'
      BY <1>0, <3>1, <3>2
      DEF SmokeInv, SmokeTypes, SmokeFields, SelectedInv, InSession, Asking
    <3> QED BY <1>1, <1>3, <3>1, <3>3 DEF SmokeInv, SmokeTypes, SmokeFields
  <2> QED BY <2>1, <2>2
<1>5. CASE Smoke!FetchManifest
  <2>1. PICK m : m = index[smoke.child]
    OBVIOUS
  <2>2. /\ smoke.pc = "children" /\ smoke.child <= Len(index)
        /\ \/ smoke' = [smoke EXCEPT !.pc = "refused"]
           \/ /\ ~(m.ours /\ (smoke.selected # 0 \/ ~m.amd64))
              /\ smoke' = [smoke EXCEPT !.child = @ + 1,
                                        !.selected = IF m.ours THEN smoke.child ELSE @]
    BY <1>5, <2>1 DEF Smoke!FetchManifest, Smoke!Refused
  <2>3. ASSUME ~(m.ours /\ smoke.selected # 0),
               smoke' = [smoke EXCEPT !.child = @ + 1,
                                      !.selected = IF m.ours THEN smoke.child ELSE @]
        PROVE  SmokeInv'
    <3>1. /\ smoke.child \in 1 .. Len(index) + 1 /\ smoke.selected \in 0 .. smoke.child - 1
          /\ \A i \in 1 .. smoke.child - 1 : index[i].ours <=> i = smoke.selected
          /\ Len(index) \in Nat
      BY <2>2 DEF SmokeInv, SmokeTypes, SelectedInv
    <3>2. /\ smoke'.child = smoke.child + 1 /\ smoke'.pc = "children"
          /\ smoke'.selected = IF m.ours THEN smoke.child ELSE smoke.selected
      BY <2>2, <2>3 DEF SmokeInv, SmokeTypes, SmokeFields
    <3>3. /\ smoke'.child \in 1 .. Len(index) + 1
          /\ smoke'.selected \in 0 .. smoke'.child - 1
          /\ \A i \in 1 .. smoke'.child - 1 : i \in 1 .. smoke.child - 1 \/ i = smoke.child
      BY <2>2, <3>1, <3>2
    <3>4. \A i \in 1 .. smoke'.child - 1 : index[i].ours <=> i = smoke'.selected
      <4> TAKE i \in 1 .. smoke'.child - 1
      <4>1. CASE i = smoke.child
        BY <2>1, <3>1, <3>2, <4>1
      <4>2. CASE i \in 1 .. smoke.child - 1
        BY <2>1, <2>3, <3>1, <3>2, <4>2
      <4> QED BY <3>3, <4>1, <4>2
    <3>5. SelectedInv'
      BY <1>0, <3>2, <3>3, <3>4 DEF SelectedInv, InSession, Asking
    <3> QED BY <1>1, <1>3, <2>2, <2>3, <3>2, <3>5 DEF SmokeInv, SmokeTypes, SmokeFields
  <2> QED BY <1>2, <2>2, <2>3
<1>6. CASE Smoke!FetchLayers
  <2>1. CASE smoke.selected # 0 /\ index[smoke.selected].layers
    <3>1. /\ smoke.pc = "children" /\ smoke.child > Len(index)
          /\ smoke' = [smoke EXCEPT !.pc = "store"]
      BY <1>6, <2>1 DEF Smoke!FetchLayers
    <3>2. /\ smoke.child \in 1 .. Len(index) + 1 /\ smoke.selected \in 0 .. smoke.child - 1
          /\ \A i \in 1 .. smoke.child - 1 : index[i].ours <=> i = smoke.selected
          /\ Len(index) \in Nat
      BY <3>1 DEF SmokeInv, SmokeTypes, SelectedInv
    <3>3. smoke.child - 1 = Len(index) /\ smoke.selected \in 1 .. Len(index)
      BY <2>1, <3>1, <3>2
    <3>4. {i \in 1 .. Len(index) : index[i].ours} = {smoke.selected}
      BY <3>2, <3>3
    <3>5. SelectedInv'
      BY <1>0, <3>1, <3>4 DEF SmokeInv, SmokeTypes, SmokeFields, SelectedInv
    <3> QED BY <1>1, <1>3, <3>1, <3>5 DEF SmokeInv, SmokeTypes, SmokeFields
  <2>2. CASE ~(smoke.selected # 0 /\ index[smoke.selected].layers)
    BY <1>2, <1>6, <2>2 DEF Smoke!FetchLayers, Smoke!Refused
  <2> QED BY <2>1, <2>2
<1>7. CASE Smoke!RemoveStore
  <2>1. SelectedInv'
    BY <1>0, <1>7
    DEF Smoke!RemoveStore, SmokeInv, SmokeTypes, SmokeFields, SelectedInv, InSession, Asking
  <2> QED BY <1>1, <1>3, <1>7, <2>1 DEF Smoke!RemoveStore, SmokeInv, SmokeTypes, SmokeFields
<1>8. CASE Smoke!OpenSession
  <2>1. smoke.pc = "open" /\ engine >= 1 /\ engine <= engine /\ engine \in Nat
    BY <1>8, SmokeAssumption DEF Smoke!OpenSession, SmokeInv, SmokeTypes, Smoke!Engines
  <2>2. \/ /\ smoke'.pc = "closing" /\ smoke'.raised = TRUE
        \/ /\ smoke'.pc = "list" /\ smoke'.raised = smoke.raised /\ engine # Candidate
    BY <1>8 DEF Smoke!OpenSession, SmokeInv, SmokeTypes, SmokeFields
  <2>3. /\ DOMAIN smoke' = SmokeFields /\ smoke'.at = "before" /\ smoke'.bound = engine
        /\ smoke'.used = smoke.used /\ smoke'.selected = smoke.selected
        /\ smoke'.changed = smoke.changed /\ smoke'.dirty = smoke.dirty
    BY <1>1, <1>8 DEF Smoke!OpenSession, SmokeInv, SmokeTypes, SmokeFields
  <2>4. SmokeTypes'
    BY <1>0, <2>2, <2>3 DEF SmokeInv, SmokeTypes, InSession, Asking
  <2>5. SelectedInv'
    BY <1>0, <2>1, <2>2, <2>3 DEF SmokeInv, SelectedInv, InSession, Asking
  <2>6. smoke.used = {} /\ \A e \in Smoke!Engines : "ours" \notin images[e]
    BY <1>0 DEF SmokeInv, WalkInv
  <2>7. SessionInv'
    <3>1. engine \in 1 .. engine
      BY <2>1
    <3> QED BY <1>0, <2>2, <2>3, <2>6, <3>1 DEF SessionInv
  <2>8. WalkInv' /\ CleanInv' /\ PassIsEarned'
    BY <1>0, <2>2, <2>3, <2>6
    DEF WalkInv, CleanInv, PassIsEarned, Smoke!PassIsEarned, Walking
  <2> QED BY <2>4, <2>5, <2>7, <2>8 DEF SmokeInv
<1> QED BY <1>4, <1>5, <1>6, <1>7, <1>8

\* What a step of the session keeps: the engine and the manifests stay, our
\* image comes only to the engine there now, and every answer is from it.
SessionMoves ==
    /\ smoke.pc \in Asking /\ smoke'.pc \in InSession
    /\ UNCHANGED <<index, engine>> /\ DOMAIN images' = Smoke!Engines
    /\ \A e \in Smoke!Engines : "ours" \in images'[e] => "ours" \in images[e] \/ e = engine
    /\ DOMAIN smoke' = SmokeFields
    /\ smoke'.bound = smoke.bound /\ smoke'.selected = smoke.selected
    /\ smoke'.used \in {smoke.used, smoke.used \cup {engine}}
    /\ smoke'.raised \in BOOLEAN /\ smoke'.changed \in BOOLEAN /\ smoke'.dirty \in BOOLEAN
    /\ smoke'.at # "before" => smoke'.pc \in Asking
    /\ smoke.raised => smoke'.raised

\* Such a step keeps all but what depends on the order of the exchanges.
LEMMA SessionKeeps ==
    ASSUME SmokeInv, SessionMoves, CleanInv',
           ~smoke'.raised /\ (smoke'.pc # "list" \/ smoke'.at = "after") =>
              \/ smoke'.used = smoke.used \cup {engine}
              \/ smoke.pc # "list" \/ smoke.at = "after"
    PROVE  SmokeInv'
<1>0. smoke.pc \in InSession /\ engine \in Nat
  BY SmokeAssumption DEF SessionMoves, InSession, SmokeInv, SmokeTypes, Smoke!Engines
<1>1. SmokeTypes'
  BY DEF SmokeInv, SmokeTypes, SessionMoves
<1>2. WalkInv' /\ PassIsEarned'
  BY DEF SessionMoves, WalkInv, PassIsEarned, Smoke!PassIsEarned, Walking, InSession, Asking
<1>3. SelectedInv'
  BY <1>0 DEF SessionMoves, SmokeInv, SelectedInv, InSession, Asking
<1>4. /\ smoke.bound \in 1 .. engine /\ smoke.used \subseteq smoke.bound .. engine
      /\ engine \in smoke.bound .. engine
      /\ \A e \in Smoke!Engines : "ours" \in images[e] => e >= smoke.bound /\ e <= engine
  BY <1>0 DEF SmokeInv, SessionInv
<1>5. smoke'.used \subseteq smoke'.bound .. engine'
  BY <1>4 DEF SessionMoves
<1>6. ASSUME NEW e \in Smoke!Engines, "ours" \in images'[e]
      PROVE  e >= smoke.bound /\ e <= engine
  BY <1>0, <1>4, <1>6 DEF SessionMoves
<1>7. ~smoke'.raised => smoke'.bound # Candidate
  BY <1>0 DEF SessionMoves, SmokeInv, SessionInv
<1>8. ~smoke'.raised /\ (smoke'.pc # "list" \/ smoke'.at = "after") => smoke'.used # {}
  BY <1>0 DEF SessionMoves, SmokeInv, SessionInv
<1>9. SessionInv'
  BY <1>4, <1>5, <1>6, <1>7, <1>8 DEF SessionInv, SessionMoves
<1> QED BY <1>1, <1>2, <1>3, <1>9 DEF SmokeInv

\* An exception, in an exchange or in the clean-up.
LEMMA RaisedKeeps ==
    ASSUME SmokeInv, smoke.pc \in Asking, UNCHANGED <<index, engine>>,
           DOMAIN images' = Smoke!Engines,
           \A e \in Smoke!Engines : "ours" \in images'[e] => "ours" \in images[e] \/ e = engine,
           NEW s, DOMAIN s = SmokeFields, s.pc = smoke.pc, s.bound = smoke.bound,
           s.selected = smoke.selected, s.used = smoke.used, s.changed = smoke.changed,
           s.dirty = smoke.dirty, s.raised = smoke.raised, smoke' = Smoke!Raised(s)
    PROVE  SmokeInv'
<1>1. CASE smoke.pc \in {"remove", "list_after"}
  <2>1. /\ smoke' = [s EXCEPT !.dirty = TRUE, !.pc = Smoke!Following(s.pc), !.at = "before"]
        /\ Smoke!Following(s.pc) \in {"list_after", "closing"}
    BY <1>1, FollowingExchange DEF Smoke!Raised
  <2>2. SessionMoves
    BY <2>1 DEF SessionMoves, SmokeInv, SmokeTypes, SmokeFields, InSession, Asking
  <2>3. CleanInv'
    BY <2>1 DEF CleanInv, SmokeFields
  <2> QED BY <1>1, <2>2, <2>3, SessionKeeps
<1>2. CASE smoke.pc \notin {"remove", "list_after"}
  <2>1. /\ smoke' = [s EXCEPT !.raised = TRUE, !.at = "before",
                              !.pc = IF s.pulled THEN "remove" ELSE "closing"]
    BY <1>2 DEF Smoke!Raised
  <2>2. SessionMoves
    BY <2>1 DEF SessionMoves, SmokeInv, SmokeTypes, SmokeFields, InSession, Asking
  <2>3. CleanInv' /\ smoke'.raised = TRUE
    BY <2>1 DEF CleanInv, SmokeFields
  <2> QED BY <2>2, <2>3, SessionKeeps
<1> QED BY <1>1, <1>2

\* The identity checks before and after each request.
LEMMA AssertStep ==
    ASSUME SmokeInv, Smoke!AssertDaemon
    PROVE  SmokeInv'
<1>0. /\ smoke.pc \in Asking /\ UNCHANGED <<index, engine, images>>
      /\ DOMAIN smoke = SmokeFields /\ DOMAIN images = Smoke!Engines
      /\ smoke.at \in {"before", "after"}
  BY DEF Smoke!AssertDaemon, Smoke!SameWorld, SmokeInv, SmokeTypes, Asking
<1>1. ASSUME smoke' = Smoke!Raised(smoke)
      PROVE  SmokeInv'
  BY <1>0, <1>1, RaisedKeeps
<1>2. ASSUME smoke' = Smoke!Changed(smoke)
      PROVE  SmokeInv'
  <2>1. CASE smoke.pc \in {"remove", "list_after"}
    <3>1. /\ smoke' = [smoke EXCEPT !.changed = TRUE, !.pc = Smoke!Following(smoke.pc),
                                    !.at = "before"]
          /\ Smoke!Following(smoke.pc) \in {"list_after", "closing"}
      BY <1>2, <2>1, FollowingExchange DEF Smoke!Changed
    <3>2. SessionMoves
      BY <1>0, <3>1 DEF SessionMoves, SmokeInv, SmokeTypes, SmokeFields, InSession, Asking
    <3>3. CleanInv'
      BY <1>0, <3>1 DEF CleanInv, SmokeFields
    <3> QED BY <2>1, <3>2, <3>3, SessionKeeps
  <2>2. CASE smoke.pc \notin {"remove", "list_after"}
    BY <1>1, <1>2, <2>2 DEF Smoke!Changed
  <2> QED BY <2>1, <2>2
<1>3. CASE /\ smoke.stream = "open" /\ engine = smoke.bound /\ smoke.at = "before"
           /\ smoke' = [smoke EXCEPT !.at = "send", !.pulled = @ \/ smoke.pc = "pull"]
  <2>1. SessionMoves
    BY <1>0, <1>3 DEF SessionMoves, SmokeInv, SmokeTypes, SmokeFields, InSession, Asking
  <2>2. CleanInv' /\ smoke'.pc = smoke.pc /\ smoke'.at = "send"
    BY <1>0, <1>3 DEF CleanInv, SmokeFields, Asking
  <2> QED BY <2>1, <2>2, SessionKeeps
<1>4. CASE /\ smoke.stream = "open" /\ engine = smoke.bound /\ smoke.at = "after"
           /\ smoke' = [smoke EXCEPT !.at = "before", !.pc = Smoke!Following(smoke.pc)]
  <2>1. Smoke!Following(smoke.pc) \in InSession
        /\ (Smoke!Following(smoke.pc) = "closing" => smoke.pc = "list_after")
    BY <1>0, FollowingExchange DEF Asking, InSession
  <2>2. SessionMoves
    BY <1>0, <1>4, <2>1 DEF SessionMoves, SmokeInv, SmokeTypes, SmokeFields
  <2>3. CleanInv'
    BY <1>0, <1>4, <2>1 DEF SmokeInv, CleanInv, SmokeFields
  <2> QED BY <1>4, <2>2, <2>3, SessionKeeps
<1> QED BY <1>0, <1>1, <1>2, <1>3, <1>4 DEF Smoke!AssertDaemon

\* The requests that the engine answers.
LEMMA RequestStep ==
    ASSUME SmokeInv,
           \/ Smoke!ListImages \/ Smoke!PullImage \/ Smoke!InspectImage
           \/ Smoke!RemoveImage \/ Smoke!ListAfter
    PROVE  SmokeInv'
<1>0. /\ smoke.pc \in Asking /\ UNCHANGED <<index, engine>> /\ smoke.at = "send"
      /\ DOMAIN smoke = SmokeFields /\ DOMAIN images = Smoke!Engines
      /\ engine \in Smoke!Engines
      /\ smoke.raised \in BOOLEAN /\ smoke.changed \in BOOLEAN /\ smoke.dirty \in BOOLEAN
  BY DEF Smoke!ListImages, Smoke!PullImage, Smoke!InspectImage, Smoke!RemoveImage,
         Smoke!ListAfter, Smoke!Sends, Smoke!SameWorld, SmokeInv, SmokeTypes, Asking
<1>1. ASSUME smoke' = Smoke!Raised(smoke), UNCHANGED images
      PROVE  SmokeInv'
  BY <1>0, <1>1, RaisedKeeps
<1>2. ASSUME smoke' = Smoke!Answered, smoke.pc # "list_after",
             DOMAIN images' = Smoke!Engines,
             \A e \in Smoke!Engines :
                "ours" \in images'[e] => "ours" \in images[e] \/ e = engine
      PROVE  SmokeInv'
  <2>1. smoke' = [smoke EXCEPT !.at = "after", !.used = @ \cup {engine}]
    BY <1>2 DEF Smoke!Answered
  <2>2. SessionMoves
    BY <1>0, <1>2, <2>1 DEF SessionMoves, SmokeFields, InSession
  <2>3. CleanInv'
    BY <1>0, <1>2, <2>1 DEF CleanInv, SmokeFields, Asking
  <2>4. smoke'.used = smoke.used \cup {engine}
    BY <1>0, <2>1 DEF SmokeFields
  <2> QED BY <2>2, <2>3, <2>4, SessionKeeps
<1>3. CASE Smoke!ListImages
  BY <1>0, <1>1, <1>2, <1>3 DEF Smoke!ListImages, Smoke!Sends, Smoke!SameWorld
<1>4. CASE Smoke!InspectImage
  BY <1>0, <1>1, <1>2, <1>4 DEF Smoke!InspectImage, Smoke!Sends, Smoke!SameWorld
<1>5. CASE Smoke!PullImage
  BY <1>0, <1>2, <1>5 DEF Smoke!PullImage, Smoke!Sends
<1>6. CASE Smoke!RemoveImage
  BY <1>0, <1>2, <1>6 DEF Smoke!RemoveImage, Smoke!Removed, Smoke!Sends
<1>7. CASE Smoke!ListAfter
  <2>1. /\ DOMAIN smoke' = SmokeFields /\ smoke'.at = "after" /\ smoke'.pc = "list_after"
        /\ smoke'.used = smoke.used \cup {engine}
        /\ smoke'.bound = smoke.bound /\ smoke'.selected = smoke.selected
        /\ smoke'.raised = smoke.raised /\ smoke'.changed = smoke.changed
        /\ UNCHANGED images
    BY <1>0, <1>7 DEF Smoke!ListAfter, Smoke!Answered, Smoke!Sends, Smoke!SameWorld, SmokeFields
  <2>2. smoke'.dirty = (smoke.dirty \/ images[engine] # {})
    BY <1>0, <1>7 DEF Smoke!ListAfter, Smoke!Answered, SmokeFields
  <2>3. smoke'.dirty \in BOOLEAN /\ (~smoke'.dirty => images[engine] = {})
    BY <1>0, <2>2
  <2>4. SessionMoves
    BY <1>0, <2>1, <2>3 DEF SessionMoves, InSession, Asking
  <2>5. CleanInv'
    BY <1>0, <2>1, <2>3 DEF CleanInv
  <2> QED BY <2>1, <2>4, <2>5, SessionKeeps
<1> QED BY <1>3, <1>4, <1>5, <1>6, <1>7

\* A request that is refused, breaks or times out.
LEMMA RequestFailsStep ==
    ASSUME SmokeInv, Smoke!RequestFails
    PROVE  SmokeInv'
<1>0. /\ smoke.pc \in Asking /\ UNCHANGED <<index, engine>>
      /\ DOMAIN smoke = SmokeFields /\ DOMAIN images = Smoke!Engines
      /\ engine \in Smoke!Engines
  BY DEF Smoke!RequestFails, SmokeInv, SmokeTypes
<1>1. /\ DOMAIN images' = Smoke!Engines
      /\ \A e \in Smoke!Engines : "ours" \in images'[e] => "ours" \in images[e] \/ e = engine
  BY <1>0 DEF Smoke!RequestFails, Smoke!Removed
<1>2. PICK s : /\ s \in {smoke, [smoke EXCEPT !.stream = "poisoned"]}
               /\ smoke' = Smoke!Raised(s)
  BY DEF Smoke!RequestFails
<1>3. /\ DOMAIN s = SmokeFields /\ s.pc = smoke.pc /\ s.bound = smoke.bound
      /\ s.selected = smoke.selected /\ s.used = smoke.used /\ s.changed = smoke.changed
      /\ s.dirty = smoke.dirty /\ s.raised = smoke.raised
  BY <1>0, <1>2 DEF SmokeFields
<1> QED BY <1>0, <1>1, <1>2, <1>3, RaisedKeeps

\* The last identity check.
LEMMA FinishStep ==
    ASSUME SmokeInv, Smoke!FinishSession
    PROVE  SmokeInv'
<1>0. /\ smoke.pc = "closing" /\ UNCHANGED <<index, engine, images>>
      /\ DOMAIN smoke = SmokeFields /\ smoke.at = "before"
      /\ smoke.raised \in BOOLEAN /\ smoke.changed \in BOOLEAN /\ smoke.dirty \in BOOLEAN
      /\ engine \in Nat /\ Smoke!Engines \subseteq Nat
  BY SmokeAssumption
  DEF Smoke!FinishSession, Smoke!SameWorld, SmokeInv, SmokeTypes, Asking, Smoke!Engines
<1>1. PICK s : s = [smoke EXCEPT
                      !.changed = @ \/ (smoke.stream = "open" /\ engine # smoke.bound),
                      !.dirty = @ \/ smoke.stream # "open", !.stream = "closed"]
  OBVIOUS
<1>2. /\ DOMAIN s = SmokeFields /\ s.at = "before" /\ s.raised = smoke.raised
      /\ s.used = smoke.used /\ s.bound = smoke.bound /\ s.selected = smoke.selected
      /\ s.changed \in BOOLEAN /\ s.dirty \in BOOLEAN
      /\ ~s.changed => ~smoke.changed /\ (smoke.stream # "open" \/ engine = smoke.bound)
      /\ ~s.dirty => ~smoke.dirty /\ smoke.stream = "open"
  BY <1>0, <1>1 DEF SmokeFields
<1>3. smoke' = [s EXCEPT !.pc = IF s.raised THEN "refused"
                                ELSE IF s.changed THEN "identity_changed"
                                ELSE IF s.dirty THEN "cleanup_failed" ELSE "passed"]
  BY <1>1 DEF Smoke!FinishSession
<1>4. /\ DOMAIN smoke' = SmokeFields /\ smoke'.at = "before"
      /\ smoke'.raised = s.raised /\ smoke'.changed = s.changed /\ smoke'.dirty = s.dirty
      /\ smoke'.used = smoke.used /\ smoke'.bound = smoke.bound
      /\ smoke'.selected = smoke.selected
      /\ smoke'.pc \in {"refused", "identity_changed", "cleanup_failed", "passed"}
      /\ smoke'.pc = "passed" => ~s.raised /\ ~s.changed /\ ~s.dirty
  BY <1>2, <1>3 DEF SmokeFields
<1>5. SmokeTypes'
  BY <1>0, <1>2, <1>4 DEF SmokeInv, SmokeTypes
<1>6. WalkInv' /\ SessionInv' /\ CleanInv'
  BY <1>4 DEF WalkInv, SessionInv, CleanInv, Walking, InSession, Asking
<1>7. {i \in 1 .. Len(index) : index[i].ours} = {smoke.selected}
  BY <1>0 DEF SmokeInv, SelectedInv, InSession
<1>8. SelectedInv'
  BY <1>0, <1>4, <1>7 DEF SelectedInv
<1>9. PassIsEarned'
  <2> SUFFICES ASSUME smoke'.pc = "passed"
               PROVE  /\ smoke.used = {smoke.bound} /\ smoke.bound # Candidate
                      /\ \A e \in Smoke!Engines : "ours" \notin images[e]
    BY <1>0, <1>4, <1>7 DEF PassIsEarned, Smoke!PassIsEarned
  <2>1. ~smoke.raised /\ ~smoke.changed /\ ~smoke.dirty /\ engine = smoke.bound
    BY <1>2, <1>4
  <2>2. /\ smoke.used \subseteq smoke.bound .. engine /\ smoke.used # {}
        /\ \A e \in Smoke!Engines : "ours" \in images[e] => e >= smoke.bound /\ e <= engine
        /\ smoke.bound # Candidate
    BY <1>0, <2>1 DEF SmokeInv, SessionInv, InSession
  <2>3. smoke.used = {smoke.bound}
    <3>1. smoke.bound .. engine = {smoke.bound}
      BY <1>0, <2>1
    <3> QED BY <2>2, <3>1
  <2>4. "ours" \notin images[engine]
    BY <1>0, <2>1 DEF SmokeInv, CleanInv
  <2>5. \A e \in Smoke!Engines : e >= engine /\ e <= engine => e = engine
    BY <1>0
  <2> QED BY <2>1, <2>2, <2>3, <2>4, <2>5
<1> QED BY <1>5, <1>6, <1>8, <1>9 DEF SmokeInv

\* The engine is replaced, or another client uses it.
LEMMA EngineStep ==
    ASSUME SmokeInv, Smoke!EngineReplaced \/ Smoke!OtherClient
    PROVE  SmokeInv'
<1>0. /\ UNCHANGED <<index, smoke>> /\ engine \in Nat /\ engine \in Smoke!Engines
      /\ Smoke!Engines \subseteq Nat
      /\ DOMAIN images = Smoke!Engines
      /\ smoke.pc \in InSession => smoke.bound \in 1 .. engine
  BY SmokeAssumption
  DEF Smoke!EngineReplaced, Smoke!OtherClient, SmokeInv, SmokeTypes, Smoke!Engines, SessionInv
<1>1. engine' \in Smoke!Engines /\ engine' \in {engine, engine + 1}
  BY <1>0, SmokeAssumption DEF Smoke!EngineReplaced, Smoke!OtherClient, Smoke!Engines
<1>2. /\ DOMAIN images' = Smoke!Engines
      /\ \A e \in Smoke!Engines : "ours" \in images'[e] <=> "ours" \in images[e]
  BY <1>0 DEF Smoke!EngineReplaced, Smoke!OtherClient
<1>3. SmokeTypes' /\ WalkInv' /\ SelectedInv' /\ PassIsEarned'
  BY <1>0, <1>1, <1>2
  DEF SmokeInv, SmokeTypes, WalkInv, SelectedInv, PassIsEarned, Smoke!PassIsEarned
<1>4. SessionInv'
  <2> SUFFICES ASSUME smoke.pc \in InSession
               PROVE  SessionInv'
    BY <1>0 DEF SessionInv
  <2>1. /\ smoke.bound \in 1 .. engine' /\ smoke.bound .. engine \subseteq smoke.bound .. engine'
        /\ \A e \in Nat : e <= engine => e <= engine'
    BY <1>0, <1>1
  <2> QED BY <1>0, <1>2, <2>1 DEF SmokeInv, SessionInv
<1>5. CleanInv'
  <2>1. CASE engine' = engine
    BY <1>0, <1>2, <2>1 DEF SmokeInv, CleanInv
  <2>2. CASE engine' = engine + 1
    <3>1. smoke.pc \in InSession => engine' # smoke.bound
      BY <1>0, <2>2
    <3> QED BY <1>0, <3>1 DEF CleanInv, InSession, Asking
  <2> QED BY <1>1, <2>1, <2>2
<1> QED BY <1>3, <1>4, <1>5 DEF SmokeInv

\* A smoke test that passes saw one engine, not the candidate's, left nothing
\* of ours on any and found exactly one manifest with our config, for any
\* indexes and any number of mishaps (anonymous_smoke.py, _docker_smoke).
THEOREM SmokeIsEarned == OpsSpec => []PassIsEarned
<1>1. OpsInit => SmokeInv
  <2> SUFFICES ASSUME Smoke!SmokeInit
               PROVE  SmokeInv
    BY PartsStart
  <2>1. smoke = Smoke!NewSmoke /\ engine = 1 /\ index \in Indexes
        /\ images \in [Smoke!Engines -> {{}, {"other"}}]
    BY DEF Smoke!SmokeInit
  <2>2. 1 \in Smoke!Engines
    BY SmokeAssumption DEF Smoke!Engines
  <2>3. \A e \in Smoke!Engines : "ours" \notin images[e]
    BY <2>1
  <2> QED
    BY <2>1, <2>2, <2>3, SmokeAssumption
    DEF SmokeInv, SmokeTypes, SmokeFields, WalkInv, SelectedInv, SessionInv, CleanInv,
        PassIsEarned, Smoke!PassIsEarned, Smoke!NewSmoke, Walking, InSession, Asking
<1>2. SmokeInv /\ [OpsNext]_opsVars => SmokeInv'
  <2>1. ASSUME SmokeInv, UNCHANGED smokeVars
        PROVE  SmokeInv'
    BY <2>1
    DEF smokeVars, SmokeInv, SmokeTypes, WalkInv, SelectedInv, SessionInv, CleanInv,
        PassIsEarned, Smoke!PassIsEarned
  <2>2. ASSUME SmokeInv, Smoke!SmokeNext
        PROVE  SmokeInv'
    BY <2>2, WalkStep, AssertStep, RequestStep, RequestFailsStep, FinishStep, EngineStep
    DEF Smoke!SmokeNext
  <2> QED BY <2>1, <2>2, PartsStep
<1>3. SmokeInv => PassIsEarned
  BY DEF SmokeInv
<1> QED BY <1>1, <1>2, <1>3, PTL DEF OpsSpec

-----------------------------------------------------------------------------
(***************************************************************************)
(* The journal: what a load returns.  Heads only move forward: the head of *)
(* every directory a power loss may leave, and the checkpoint of every     *)
(* transaction in one, is no older than the last acknowledged one, so a    *)
(* load that finds receipts and head in agreement returns no older one     *)
(* either, also when a receipt has disappeared.                            *)
(***************************************************************************)

DirectoryFields == {"receipts", "head", "receipt", "next", "txn", "body", "soft", "torn"}
JournalWriterFields == {"pc", "todo", "latest"}
CountFields == {"appends", "stops", "losses"}

Newest == Journal!LastOf(acked)

SlotKinds == {"none", "part", "staged", "linked", "named"}
IsSlot(slot) == slot.is \in SlotKinds /\ (slot.is = "none" => slot = Journal!NoSlot)

\* A directory whose head and transaction are no older than n.
Recent(d, n) ==
    /\ DOMAIN d = DirectoryFields /\ d.receipts \in Seq(Nat)
    /\ IsSlot(d.txn) /\ IsSlot(d.receipt) /\ d.receipt.is # "named" /\ IsSlot(d.next)
    /\ d.head.is \in Nat /\ d.head.is >= n
    /\ d.txn.is \in {"staged", "linked", "named"} =>
          d.body.seq \in Nat \ {0} /\ d.body.next \in Nat \ {0} /\ d.body.next >= n

\* Two directories that differ in what is known of their files' data at most.
SameNames(d, e) ==
    /\ DOMAIN d = DirectoryFields
    /\ d.receipts = e.receipts /\ d.head = e.head /\ d.receipt = e.receipt
    /\ d.next = e.next /\ d.txn = e.txn /\ d.body = e.body

\* The transaction's receipt is the next one, or is there already.
JustBehind(d) == d.body.seq = Len(d.receipts) + 1
Behind(d) == JustBehind(d) \/ d.body.seq = Len(d.receipts)

\* The stages of an append or a recovery that carry a transaction out.
Installing == {"receipt", "receipt_data", "head", "head_data", "clear"}

WriterInv ==
    /\ DOMAIN writer = JournalWriterFields
    /\ writer.todo = 0 \/ writer.todo = counts.appends
    /\ writer.pc \in {"txn", "return"} => writer.todo # 0
    /\ writer.pc = "recover" => disk.txn.is \in {"none", "named"}
    /\ writer.pc = "load" => disk.txn.is = "none"
    /\ writer.pc = "txn" /\ disk.txn.is \in {"staged", "linked", "named"} => JustBehind(disk)
    /\ writer.pc \in Installing => disk.txn.is = "named" /\ Behind(disk)
    /\ writer.pc = "clear" => disk.head.is = disk.body.next
    /\ writer.pc = "return" =>
          /\ left = {disk} /\ disk.txn.is = "none" /\ disk.head.is >= writer.todo

ResumeInv ==
    /\ DOMAIN counts = CountFields /\ counts.appends \in Nat
    /\ acked \in Seq(Nat) /\ Newest \in 0 .. counts.appends
    /\ \A d \in left \cup {disk} : Recent(d, Newest)
    /\ WriterInv
    /\ ResumesFromNewest

\* What is said of the data of a file says nothing of the names.
LEMMA DataKeepNames ==
    ASSUME NEW d, DOMAIN d = DirectoryFields, NEW s, NEW t
    PROVE  SameNames([d EXCEPT !.soft = s, !.torn = t], d)
<1>1. PICK e : e = [d EXCEPT !.soft = s, !.torn = t]
  OBVIOUS
<1>2. DOMAIN e = DOMAIN d
  BY <1>1
<1>3. \A x \in DirectoryFields : x \notin {"soft", "torn"} => e[x] = d[x]
  BY <1>1 DEF DirectoryFields
<1> QED BY <1>1, <1>2, <1>3 DEF SameNames, DirectoryFields

\* Removing a fl, and leaving its data unsynced.
LEMMA WithoutKeepsNames ==
    ASSUME NEW d, DOMAIN d = DirectoryFields, NEW fl
    PROVE  /\ SameNames(Journal!Without(d, fl), d)
           /\ SameNames([d EXCEPT !.soft = @ \cup {fl}], d)
<1>1. SameNames(Journal!Without(d, fl), d)
  BY DataKeepNames DEF Journal!Without
<1>2. [d EXCEPT !.soft = @ \cup {fl}] = [d EXCEPT !.soft = d.soft \cup {fl}, !.torn = d.torn]
  BY DEF DirectoryFields
<1>3. SameNames([d EXCEPT !.soft = d.soft \cup {fl}, !.torn = d.torn], d)
  BY DataKeepNames
<1> QED BY <1>1, <1>2, <1>3

\* The directory without its last receipt.
LEMMA OneReceiptLess ==
    ASSUME NEW rs \in Seq(Nat), rs # << >>
    PROVE  LET q == SubSeq(rs, 1, Len(rs) - 1)
           IN  q \in Seq(Nat) /\ Len(q) = Len(rs) - 1 /\ \A i \in 1 .. Len(q) : q[i] = rs[i]
<1>1. Len(rs) \in Nat /\ Len(rs) >= 1 /\ \A i \in 1 .. Len(rs) : rs[i] \in Nat
  OBVIOUS
<1>2. PICK q : q = SubSeq(rs, 1, Len(rs) - 1)
  OBVIOUS
<1>3. 1 \in Int /\ Len(rs) - 1 \in Int /\ \A i \in 1 .. Len(rs) - 1 : rs[i] \in Nat
  BY <1>1
<1>4. /\ q \in Seq(Nat)
      /\ Len(q) = IF 1 <= Len(rs) - 1 THEN Len(rs) - 1 - 1 + 1 ELSE 0
      /\ \A i \in 1 .. Len(rs) - 1 - 1 + 1 : q[i] = rs[1 + i - 1]
  BY <1>2, <1>3, SubSeqProperties
<1>5. Len(q) = Len(rs) - 1
  <2>1. Len(q) = IF 1 <= Len(rs) - 1 THEN Len(rs) - 1 - 1 + 1 ELSE 0
    BY <1>4
  <2>2. PICK n \in Nat : n = Len(rs) /\ n >= 1
    BY <1>1
  <2>3. (IF 1 <= n - 1 THEN n - 1 - 1 + 1 ELSE 0) = n - 1
    BY <2>2
  <2> QED BY <2>1, <2>2, <2>3
<1>6. ASSUME NEW i \in 1 .. Len(q)
      PROVE  q[i] = rs[i]
  <2>1. i \in 1 .. Len(rs) - 1 - 1 + 1 /\ 1 + i - 1 = i
    BY <1>1, <1>5
  <2> QED BY <1>4, <2>1
<1> QED BY <1>2, <1>4, <1>5, <1>6

\* A step that ends in a recent directory, acknowledges nothing and leaves the
\* writer where it may be.
LEMMA ResumeKept ==
    ASSUME ResumeInv, UNCHANGED acked, DOMAIN counts' = CountFields,
           counts'.appends = counts.appends,
           Recent(disk', Newest), left' \subseteq left \cup {disk, disk'},
           WriterInv', writer'.pc = "ready" => ResumesFromNewest'
    PROVE  ResumeInv'
<1>1. Newest' = Newest
  BY DEF Newest
<1>2. writer'.pc # "ready" => ResumesFromNewest'
  BY DEF ResumesFromNewest, Journal!ResumesFromNewest
<1> QED BY <1>1, <1>2 DEF ResumeInv

\* A step that changes no file.
LEMMA GoesKeeps ==
    ASSUME ResumeInv, NEW w, Journal!Goes(w),
           DOMAIN w = JournalWriterFields, w.pc # "return",
           w.todo = 0 \/ w.todo = counts.appends,
           w.pc = "txn" => w.todo # 0,
           w.pc = "recover" => disk.txn.is \in {"none", "named"},
           w.pc \in {"load", "txn"} => disk.txn.is = "none",
           w.pc \in Installing => disk.txn.is = "named" /\ Behind(disk),
           w.pc = "clear" => disk.head.is = disk.body.next,
           w.pc = "ready" /\ acked # << >> => w.latest >= Newest
    PROVE  ResumeInv'
<1>1. writer' = w /\ UNCHANGED <<disk, left, acked, counts>>
  BY DEF Journal!Goes, Journal!NoChange
<1>2. WriterInv'
  BY <1>1 DEF WriterInv, JustBehind, Behind
<1>3. ResumesFromNewest'
  BY <1>1 DEF ResumesFromNewest, Journal!ResumesFromNewest, Newest
<1> QED BY <1>1, <1>2, <1>3, ResumeKept DEF ResumeInv

\* A change of the directory and its sync, which may fail.
LEMMA DoesKeeps ==
    ASSUME ResumeInv, NEW d, NEW w, Journal!Does(d, w), UNCHANGED acked, Recent(d, Newest),
           DOMAIN w = JournalWriterFields, w.pc # "ready",
           w.todo = 0 \/ w.todo = counts.appends,
           w.pc \in {"txn", "return"} => w.todo # 0,
           w.pc = "recover" => d.txn.is \in {"none", "named"},
           w.pc = "load" => d.txn.is = "none",
           w.pc = "txn" /\ d.txn.is \in {"staged", "linked", "named"} => JustBehind(d),
           w.pc \in Installing => d.txn.is = "named" /\ Behind(d),
           w.pc = "clear" => d.head.is = d.body.next,
           w.pc = "return" => d.txn.is = "none" /\ d.head.is >= w.todo
    PROVE  ResumeInv'
<1>1. CASE Journal!NowDurable(d) /\ writer' = w /\ UNCHANGED counts
  <2>1. disk' = d /\ left' = {d}
    BY <1>1 DEF Journal!NowDurable
  <2>2. WriterInv'
    BY <1>1, <2>1 DEF WriterInv, JustBehind, Behind
  <2> QED BY <1>1, <2>1, <2>2, ResumeKept DEF ResumeInv
<1>2. CASE Journal!NotYetDurable(d) /\ writer' = Journal!NoWriter /\ Journal!Stopping
  <2>1. /\ disk' = d /\ left' = left \cup {d} /\ DOMAIN counts' = CountFields
        /\ counts'.appends = counts.appends
    BY <1>2 DEF Journal!NotYetDurable, Journal!Stopping, ResumeInv, CountFields
  <2>2. WriterInv' /\ writer'.pc # "ready"
    BY <1>2, <2>1 DEF WriterInv, Journal!NoWriter, JournalWriterFields, Installing
  <2> QED BY <1>2, <2>1, <2>2, ResumeKept
<1> QED BY <1>1, <1>2 DEF Journal!Does

\* The staged file of a slot is created; only the directory changes.
LEMMA BeginsKeeps ==
    ASSUME ResumeInv, NEW slot \in {"txn", "receipt", "next"}, NEW c, NEW w,
           Journal!Begins(slot, c, w), UNCHANGED acked,
           DOMAIN w = JournalWriterFields,
           w.todo = 0 \/ w.todo = counts.appends,
           \/ slot = "txn" /\ w.pc = "txn" /\ w.todo # 0
           \/ /\ slot # "txn" /\ w.pc \in {"receipt_data", "head_data"}
              /\ disk.txn.is = "named" /\ Behind(disk)
    PROVE  ResumeInv'
<1>1. PICK d : d = [disk EXCEPT ![slot] = Journal!Part(c)]
  OBVIOUS
<1>2. disk' = d /\ left' = left \cup {d} /\ writer' = w /\ UNCHANGED counts
  BY <1>1 DEF Journal!Begins, Journal!NotYetDurable
<1>3. Recent(disk, Newest)
  BY DEF ResumeInv
<1>4. /\ Recent(d, Newest) /\ d.body = disk.body /\ d.receipts = disk.receipts
      /\ slot # "txn" => d.txn = disk.txn
      /\ slot = "txn" => d.txn.is = "part"
  BY <1>1, <1>3 DEF Recent, DirectoryFields, Journal!Part, Journal!NoSlot, IsSlot, SlotKinds
<1>5. WriterInv' /\ writer'.pc # "ready"
  BY <1>2, <1>4 DEF WriterInv, Installing, JustBehind, Behind
<1> QED BY <1>2, <1>4, <1>5, ResumeKept DEF ResumeInv

\* A directory whose receipt's or next head's slot changed.
LEMMA SlotKeepsRecent ==
    ASSUME NEW n, Recent(disk, n), NEW slot \in {"receipt", "next"}, NEW d, NEW v,
           SameNames(d, [disk EXCEPT ![slot] = v]), IsSlot(v),
           slot = "receipt" => v.is # "named"
    PROVE  /\ Recent(d, n) /\ d.txn = disk.txn /\ d.head = disk.head /\ d.body = disk.body
           /\ d.receipts = disk.receipts
<1>1. PICK e : e = [disk EXCEPT ![slot] = v]
  OBVIOUS
<1>2. DOMAIN disk = DirectoryFields
  BY DEF Recent
<1>3. /\ e[slot] = v /\ e.txn = disk.txn /\ e.head = disk.head /\ e.body = disk.body
      /\ e.receipts = disk.receipts
      /\ slot = "receipt" => e.next = disk.next
      /\ slot = "next" => e.receipt = disk.receipt
  BY <1>1, <1>2 DEF DirectoryFields
<1> QED BY <1>1, <1>3 DEF Recent, SameNames

\* What the steps on a slot make of it.
LEMMA SlotValues ==
    ASSUME NEW h
    PROVE  /\ IsSlot(Journal!NoSlot) /\ Journal!NoSlot.is = "none"
           /\ IsSlot(Journal!Staged(h)) /\ Journal!Staged(h).is = "staged"
           /\ IsSlot(Journal!Linked(h)) /\ Journal!Linked(h).is = "linked"
           /\ IsSlot(Journal!Named(h)) /\ Journal!Named(h).is = "named"
BY DEF Journal!NoSlot, Journal!Staged, Journal!Linked, Journal!Named, IsSlot, SlotKinds

\* A staged file is written; its data may stay unsynced.
LEMMA WritesDoes ==
    ASSUME DOMAIN disk = DirectoryFields, NEW slot \in {"receipt", "next"}, NEW fl, NEW w,
           Journal!Writes(slot, fl, w)
    PROVE  \E d, v : /\ Journal!Does(d, w) /\ SameNames(d, [disk EXCEPT ![slot] = v])
                     /\ IsSlot(v) /\ v.is = "staged"
<1>1. PICK e, v : /\ e = [disk EXCEPT ![slot] = v] /\ e = Journal!WriteStagedFile(slot)
                  /\ IsSlot(v) /\ v.is = "staged"
  BY SlotValues DEF Journal!WriteStagedFile
<1>2. DOMAIN e = DirectoryFields /\ SameNames(e, e)
  BY <1>1 DEF SameNames
<1>3. SameNames([e EXCEPT !.soft = @ \cup {fl}], e)
  BY <1>2, WithoutKeepsNames
<1>4. Journal!Does(e, w) \/ Journal!Does([e EXCEPT !.soft = @ \cup {fl}], w)
  BY <1>1 DEF Journal!Writes, Journal!Does
<1> QED BY <1>1, <1>2, <1>3, <1>4

\* A step on a transaction-bound file changes its slot alone.
LEMMA BoundFileDoes ==
    ASSUME DOMAIN disk = DirectoryFields, NEW slot \in {"receipt", "next"},
           Journal!BoundFileStep(slot)
    PROVE  \E d, v : /\ Journal!Does(d, writer) /\ SameNames(d, [disk EXCEPT ![slot] = v])
                     /\ IsSlot(v) /\ (disk[slot].is \in {"part", "staged"} => v.is # "named")
<1>1. CASE Journal!Short(slot)
  <2>1. PICK e : e = [disk EXCEPT ![slot] = Journal!NoSlot]
    OBVIOUS
  <2>2. DOMAIN e = DirectoryFields
    BY <2>1
  <2>3. PICK fl : Journal!Does(Journal!Without(e, fl), writer)
    BY <1>1, <2>1 DEF Journal!BoundFileStep
  <2>4. SameNames(Journal!Without(e, fl), e)
    BY <2>2, WithoutKeepsNames
  <2>5. IsSlot(Journal!NoSlot) /\ Journal!NoSlot.is = "none"
    BY SlotValues
  <2> QED BY <2>1, <2>3, <2>4, <2>5
<1>2. CASE ~Journal!Short(slot)
  <2>1. PICK e : e = Journal!PublishStagedNoReplace(slot)
    OBVIOUS
  <2>2. Journal!Does(e, writer)
    BY <1>2, <2>1 DEF Journal!BoundFileStep
  <2>3. PICK v : /\ e = [disk EXCEPT ![slot] = v] /\ IsSlot(v)
                 /\ disk[slot].is \in {"part", "staged"} => v.is # "named"
    <3>1. disk[slot].is # "part"
      BY <1>2 DEF Journal!Short
    <3>2. CASE disk[slot].is = "staged"
      BY <2>1, <3>2, SlotValues DEF Journal!PublishStagedNoReplace
    <3>3. CASE disk[slot].is # "staged"
      BY <2>1, <3>1, <3>3, SlotValues DEF Journal!PublishStagedNoReplace
    <3> QED BY <3>2, <3>3
  <2>4. SameNames(e, e)
    BY <2>3 DEF SameNames
  <2> QED BY <2>2, <2>3, <2>4
<1> QED BY <1>1, <1>2

\* Every step of the journal keeps it.
LEMMA ResumeStep ==
    ASSUME ResumeInv, Journal!JournalNext
    PROVE  ResumeInv'
<1>0. /\ Recent(disk, Newest) /\ DOMAIN writer = JournalWriterFields
      /\ writer.todo = 0 \/ writer.todo = counts.appends
      /\ counts.appends \in Nat /\ Newest \in 0 .. counts.appends
      /\ DOMAIN disk = DirectoryFields /\ disk.receipts \in Seq(Nat)
      /\ IsSlot(disk.txn) /\ IsSlot(disk.receipt) /\ disk.receipt.is # "named"
      /\ IsSlot(disk.next)
  BY DEF ResumeInv, WriterInv, Recent
<1>1. CASE Journal!TakeLock
  <2>1. PICK w : w = [Journal!NoWriter EXCEPT !.pc = "staging"]
    OBVIOUS
  <2>2. DOMAIN w = JournalWriterFields /\ w.pc = "staging" /\ w.todo = 0
    BY <2>1 DEF Journal!NoWriter, JournalWriterFields
  <2> QED BY <1>1, <2>1, <2>2, GoesKeeps DEF Journal!TakeLock, Installing
<1>2. CASE Journal!RecoverTransactionStaging
  <2>1. PICK w : w = [writer EXCEPT !.pc = "recover"]
    OBVIOUS
  <2>2. DOMAIN w = JournalWriterFields /\ w.pc = "recover" /\ w.todo = writer.todo
    BY <1>0, <2>1 DEF JournalWriterFields
  <2>3. CASE disk.txn.is = "linked"
    <3>1. PICK d : d = Journal!PublishStagedNoReplace("txn")
      OBVIOUS
    <3>2. Recent(d, Newest) /\ d.txn.is = "named"
      BY <1>0, <2>3, <3>1
      DEF Journal!PublishStagedNoReplace, Journal!Named, Recent, DirectoryFields, IsSlot,
          SlotKinds
    <3>3. Journal!Does(d, w)
      BY <1>2, <2>1, <2>3, <3>1 DEF Journal!RecoverTransactionStaging
    <3> QED BY <1>0, <1>2, <2>2, <3>2, <3>3, DoesKeeps
            DEF Journal!RecoverTransactionStaging, Installing
  <2>4. CASE disk.txn.is \in {"part", "staged"}
    <3>1. PICK d : d = [disk EXCEPT !.txn = Journal!NoSlot, !.body = Journal!NoTransaction]
      OBVIOUS
    <3>2. Recent(d, Newest) /\ d.txn.is = "none"
      BY <1>0, <3>1 DEF Journal!NoSlot, Recent, DirectoryFields, IsSlot, SlotKinds
    <3>3. Journal!Does(d, w)
      BY <1>2, <2>1, <2>4, <3>1 DEF Journal!RecoverTransactionStaging
    <3> QED BY <1>0, <1>2, <2>2, <3>2, <3>3, DoesKeeps
            DEF Journal!RecoverTransactionStaging, Installing
  <2>5. CASE disk.txn.is \in {"none", "named"}
    <3>1. Journal!Goes(w)
      BY <1>2, <2>1, <2>5 DEF Journal!RecoverTransactionStaging
    <3> QED BY <1>0, <2>2, <2>5, <3>1, GoesKeeps DEF Installing
  <2> QED BY <1>0, <2>3, <2>4, <2>5 DEF IsSlot, SlotKinds
<1>3. CASE Journal!RecoverTransaction
  <2>1. PICK w : /\ Journal!Goes(w)
                 /\ \/ w = Journal!JournalBlocked
                    \/ w = [writer EXCEPT !.pc = "load"] /\ disk.txn = Journal!NoSlot
                    \/ /\ w = [writer EXCEPT !.pc = "receipt"]
                       /\ disk.txn # Journal!NoSlot /\ Journal!TransactionFits
    BY <1>3 DEF Journal!RecoverTransaction
  <2>2. /\ DOMAIN w = JournalWriterFields /\ w.todo \in {0, writer.todo}
        /\ w.pc \in {"blocked", "load", "receipt"}
        /\ w.pc = "load" => disk.txn = Journal!NoSlot
        /\ w.pc = "receipt" => disk.txn # Journal!NoSlot /\ Journal!TransactionFits
    BY <1>0, <2>1 DEF Journal!JournalBlocked, Journal!NoWriter, JournalWriterFields
  <2>3. writer.pc = "recover"
    BY <1>3 DEF Journal!RecoverTransaction
  <2>4. /\ disk.txn # Journal!NoSlot => disk.txn.is = "named"
        /\ Journal!NoSlot.is = "none"
    BY <1>0, <2>3 DEF ResumeInv, WriterInv, IsSlot, Journal!NoSlot
  <2>5. disk.txn.is = "named" /\ Journal!TransactionFits => Behind(disk)
    <3>1. Journal!TransactionFits => Len(disk.receipts) \in {disk.body.seq - 1, disk.body.seq}
      BY DEF Journal!TransactionFits
    <3>2. Len(disk.receipts) \in Nat /\ (disk.txn.is = "named" => disk.body.seq \in Nat)
      BY <1>0 DEF Recent
    <3> QED BY <3>1, <3>2 DEF Behind, JustBehind
  <2> QED BY <1>0, <2>1, <2>2, <2>4, <2>5, GoesKeeps DEF Installing
<1>4. CASE Journal!LoadAll
  <2>1. writer.pc = "load" /\ disk.txn.is = "none"
    BY <1>4 DEF Journal!LoadAll, ResumeInv, WriterInv
  <2>2. CASE ~(Journal!ChainReads(disk)
               /\ Journal!ValidateRecordsHead(disk.receipts, disk.head))
    <3>1. Journal!Goes(Journal!JournalBlocked)
      BY <1>4, <2>2 DEF Journal!LoadAll
    <3>2. /\ DOMAIN Journal!JournalBlocked = JournalWriterFields
          /\ Journal!JournalBlocked.pc = "blocked" /\ Journal!JournalBlocked.todo = 0
      BY DEF Journal!JournalBlocked, Journal!NoWriter, JournalWriterFields
    <3> QED BY <3>1, <3>2, GoesKeeps DEF Installing
  <2>3. CASE Journal!ChainReads(disk) /\ Journal!ValidateRecordsHead(disk.receipts, disk.head)
    <3>1. PICK w : w = [writer EXCEPT !.pc = IF writer.todo = 0 THEN "ready" ELSE "txn",
                                      !.latest = Journal!LastOf(disk.receipts)]
      OBVIOUS
    <3>2. Journal!Goes(w)
      BY <1>4, <2>3, <3>1 DEF Journal!LoadAll
    <3>3. /\ DOMAIN w = JournalWriterFields /\ w.todo = writer.todo
          /\ w.pc = IF writer.todo = 0 THEN "ready" ELSE "txn"
          /\ w.latest = Journal!LastOf(disk.receipts)
      BY <1>0, <3>1 DEF JournalWriterFields
    <3>4. w.latest = disk.head.is
      BY <2>3, <3>3 DEF Journal!ValidateRecordsHead, Journal!HeadOf
    <3>5. w.latest >= Newest
      BY <1>0, <3>4 DEF Recent
    <3> QED BY <1>0, <2>1, <3>2, <3>3, <3>5, GoesKeeps DEF Installing
  <2> QED BY <2>2, <2>3
<1>5. CASE Journal!CallAppend
  <2>1. /\ UNCHANGED <<disk, left, acked>> /\ counts' = [counts EXCEPT !.appends = @ + 1]
        /\ writer' = [writer EXCEPT !.pc = "staging", !.todo = counts.appends + 1]
    BY <1>5 DEF Journal!CallAppend, Journal!NoChange
  <2>2. /\ DOMAIN counts' = CountFields /\ counts'.appends = counts.appends + 1
        /\ DOMAIN writer' = JournalWriterFields /\ writer'.pc = "staging"
        /\ writer'.todo = counts'.appends
    BY <1>0, <2>1 DEF ResumeInv, CountFields, JournalWriterFields
  <2>3. WriterInv' /\ ResumesFromNewest'
    BY <2>1, <2>2
    DEF WriterInv, Installing, ResumesFromNewest, Journal!ResumesFromNewest
  <2>4. counts'.appends \in Nat /\ Newest' \in 0 .. counts'.appends /\ Newest' = Newest
    BY <1>0, <2>1, <2>2 DEF Newest
  <2> QED BY <2>1, <2>2, <2>3, <2>4 DEF ResumeInv
<1>6. CASE Journal!PublishTransaction
  <2>1. /\ writer.pc = "txn" /\ UNCHANGED acked
        /\ writer.todo = counts.appends /\ writer.todo # 0
    BY <1>6 DEF Journal!PublishTransaction, ResumeInv, WriterInv
  <2>2. CASE disk.txn.is = "none"
    <3>1. Journal!Begins("txn", writer.todo, writer)
      BY <1>6, <2>2 DEF Journal!PublishTransaction
    <3> QED BY <1>0, <2>1, <3>1, BeginsKeeps
  <2>3. CASE disk.txn.is = "part"
    <3>1. PICK body : /\ body.seq = Len(disk.receipts) + 1 /\ body.next = writer.todo
                      /\ Journal!Does([Journal!WriteStagedFile("txn") EXCEPT !.body = body],
                                      writer)
      BY <1>6, <2>3 DEF Journal!PublishTransaction
    <3>2. PICK d : d = [Journal!WriteStagedFile("txn") EXCEPT !.body = body]
      OBVIOUS
    <3>3. /\ DOMAIN d = DirectoryFields /\ d.body = body /\ d.txn.is = "staged"
          /\ d.receipts = disk.receipts /\ d.receipt = disk.receipt /\ d.next = disk.next
          /\ d.head = disk.head
      <4>1. PICK t : t = Journal!WriteStagedFile("txn")
        OBVIOUS
      <4>2. /\ DOMAIN t = DirectoryFields /\ t.txn.is = "staged"
            /\ t.receipts = disk.receipts /\ t.receipt = disk.receipt /\ t.next = disk.next
            /\ t.head = disk.head
        BY <1>0, <4>1 DEF Journal!WriteStagedFile, Journal!Staged, DirectoryFields
      <4> QED BY <3>2, <4>1, <4>2 DEF DirectoryFields
    <3>4. Recent(d, Newest)
      BY <1>0, <2>1, <3>1, <3>3 DEF Recent, IsSlot, SlotKinds
    <3>5. JustBehind(d)
      BY <3>1, <3>3 DEF JustBehind
    <3> QED BY <1>0, <2>1, <3>1, <3>2, <3>4, <3>5, DoesKeeps DEF Installing
  <2>4. CASE disk.txn.is \in {"staged", "linked"}
    <3>1. PICK d : d = Journal!PublishStagedNoReplace("txn")
      OBVIOUS
    <3>2. Recent(d, Newest) /\ d.body = disk.body /\ d.receipts = disk.receipts
      BY <1>0, <2>4, <3>1
      DEF Journal!PublishStagedNoReplace, Journal!Named, Journal!Linked, Recent,
          DirectoryFields, IsSlot, SlotKinds
    <3>3. Journal!Does(d, writer)
      BY <1>6, <2>4, <3>1 DEF Journal!PublishTransaction
    <3>4. JustBehind(d)
      BY <2>1, <2>4, <3>2 DEF JustBehind, ResumeInv, WriterInv
    <3> QED BY <1>0, <2>1, <3>2, <3>3, <3>4, DoesKeeps DEF Installing
  <2>5. CASE disk.txn.is = "named"
    <3>1. PICK w : w = [writer EXCEPT !.pc = "receipt"]
      OBVIOUS
    <3>2. Journal!Goes(w)
      BY <1>6, <2>5, <3>1 DEF Journal!PublishTransaction
    <3>3. DOMAIN w = JournalWriterFields /\ w.pc = "receipt" /\ w.todo = writer.todo
      BY <1>0, <3>1 DEF JournalWriterFields
    <3>4. Behind(disk)
      BY <2>1, <2>5 DEF Behind, ResumeInv, WriterInv
    <3> QED BY <1>0, <2>5, <3>2, <3>3, <3>4, GoesKeeps
  <2> QED BY <1>0, <2>2, <2>3, <2>4, <2>5 DEF IsSlot, SlotKinds
<1>7. ASSUME NEW slot \in {"receipt", "next"}, NEW w, DOMAIN w = JournalWriterFields,
             w.todo = writer.todo, w.pc \in {"receipt", "head"}, UNCHANGED acked,
             disk.txn.is = "named", Behind(disk), NEW d, NEW v, Journal!Does(d, w),
             SameNames(d, [disk EXCEPT ![slot] = v]), IsSlot(v),
             slot = "receipt" => v.is # "named"
      PROVE  ResumeInv'
  <2>1. /\ Recent(d, Newest) /\ d.txn = disk.txn /\ d.body = disk.body
        /\ d.receipts = disk.receipts
    BY <1>0, <1>7, SlotKeepsRecent
  <2>2. Behind(d)
    BY <1>7, <2>1 DEF Behind, JustBehind
  <2> QED BY <1>0, <1>7, <2>1, <2>2, DoesKeeps
<1>8. ASSUME NEW slot \in {"receipt", "next"}, Journal!BoundFileStep(slot),
             writer.pc \in {"receipt", "head"}, UNCHANGED acked,
             slot = "receipt" => disk.receipt.is \in {"part", "staged"}
      PROVE  ResumeInv'
  <2>1. disk.txn.is = "named" /\ Behind(disk)
    BY <1>8 DEF ResumeInv, WriterInv, Installing
  <2>2. PICK d, v : /\ Journal!Does(d, writer) /\ SameNames(d, [disk EXCEPT ![slot] = v])
                    /\ IsSlot(v) /\ (disk[slot].is \in {"part", "staged"} => v.is # "named")
    BY <1>0, <1>8, BoundFileDoes
  <2> QED BY <1>0, <1>7, <1>8, <2>1, <2>2
<1>9. CASE Journal!InstallReceipt
  <2>1. /\ writer.pc = "receipt" /\ UNCHANGED acked
        /\ disk.txn.is = "named" /\ Behind(disk) /\ disk.body.seq \in Nat
        /\ disk.body.seq # 0 /\ disk.body.next \in Nat
    BY <1>0, <1>9 DEF Journal!InstallReceipt, ResumeInv, WriterInv, Installing, Recent
  <2>2. CASE Len(disk.receipts) = disk.body.seq /\ Journal!Goes([writer EXCEPT !.pc = "head"])
    <3>1. PICK w : w = [writer EXCEPT !.pc = "head"]
      OBVIOUS
    <3>2. DOMAIN w = JournalWriterFields /\ w.pc = "head" /\ w.todo = writer.todo
      BY <1>0, <3>1 DEF JournalWriterFields
    <3> QED BY <1>0, <2>1, <2>2, <3>1, <3>2, GoesKeeps
  <2>3. CASE Journal!Begins("receipt", disk.body.next, [writer EXCEPT !.pc = "receipt_data"])
    <3>1. PICK w : w = [writer EXCEPT !.pc = "receipt_data"]
      OBVIOUS
    <3>2. DOMAIN w = JournalWriterFields /\ w.pc = "receipt_data" /\ w.todo = writer.todo
      BY <1>0, <3>1 DEF JournalWriterFields
    <3> QED BY <1>0, <2>1, <2>3, <3>1, <3>2, BeginsKeeps
  <2>4. CASE /\ disk.receipt.is = "linked" /\ Len(disk.receipts) # disk.body.seq
             /\ Journal!Does([disk EXCEPT !.receipts = Append(@, disk.body.next),
                                          !.receipt = Journal!NoSlot], writer)
    <3>1. PICK d : d = [disk EXCEPT !.receipts = Append(@, disk.body.next),
                                    !.receipt = Journal!NoSlot]
      OBVIOUS
    <3>2. /\ DOMAIN d = DirectoryFields /\ d.receipts = Append(disk.receipts, disk.body.next)
          /\ d.receipt = Journal!NoSlot /\ d.txn = disk.txn /\ d.next = disk.next
          /\ d.body = disk.body /\ d.head = disk.head
      BY <1>0, <3>1 DEF DirectoryFields
    <3>3. d.receipts \in Seq(Nat) /\ Len(d.receipts) = Len(disk.receipts) + 1
      BY <1>0, <2>1, <3>2
    <3>4. Recent(d, Newest)
      BY <1>0, <3>2, <3>3 DEF Recent, IsSlot, SlotKinds, Journal!NoSlot
    <3>5. Behind(d)
      BY <1>0, <2>1, <2>4, <3>2, <3>3 DEF Behind, JustBehind
    <3> QED BY <1>0, <2>1, <2>4, <3>1, <3>2, <3>4, <3>5, DoesKeeps
  <2>5. CASE disk.receipt.is \in {"part", "staged"} /\ Journal!BoundFileStep("receipt")
    BY <1>8, <2>1, <2>5
  <2>6. disk.receipt = Journal!NoSlot \/ disk.receipt.is \in {"part", "staged", "linked"}
    BY <1>0 DEF IsSlot, SlotKinds
  <2>9. ASSUME NEW fl, Len(disk.receipts) = disk.body.seq,
               Journal!Does(Journal!Without([disk EXCEPT !.receipts = SubSeq(@, 1, Len(@) - 1)],
                                            fl), writer)
        PROVE  ResumeInv'
    <3>1. PICK rs \in Seq(Nat) : rs = disk.receipts
      BY <1>0
    <3>2. rs # << >>
      BY <2>1, <2>9, <3>1
    <3>3. PICK q : q = SubSeq(rs, 1, Len(rs) - 1) /\ q \in Seq(Nat) /\ Len(q) = Len(rs) - 1
      BY <3>2, OneReceiptLess
    <3>4. PICK e : e = [disk EXCEPT !.receipts = q]
      OBVIOUS
    <3>5. /\ DOMAIN e = DirectoryFields /\ e.receipts = q /\ e.receipt = disk.receipt
          /\ e.txn = disk.txn /\ e.next = disk.next /\ e.body = disk.body
          /\ e.head = disk.head
      BY <1>0, <3>4 DEF DirectoryFields
    <3>6. PICK d : d = Journal!Without(e, fl) /\ SameNames(d, e) /\ Journal!Does(d, writer)
      BY <2>9, <3>1, <3>3, <3>4, <3>5, WithoutKeepsNames
    <3>7. Recent(d, Newest)
      BY <1>0, <3>3, <3>5, <3>6 DEF Recent, SameNames
    <3>8. Behind(d) /\ d.txn.is = "named"
      BY <2>1, <2>9, <3>1, <3>3, <3>5, <3>6 DEF Behind, JustBehind, SameNames
    <3> QED BY <1>0, <2>1, <3>6, <3>7, <3>8, DoesKeeps
  <2>7. CASE Len(disk.receipts) = disk.body.seq
    BY <1>9, <2>2, <2>7, <2>9 DEF Journal!InstallReceipt
  <2>8. CASE Len(disk.receipts) # disk.body.seq
    BY <1>9, <2>3, <2>4, <2>5, <2>6, <2>8 DEF Journal!InstallReceipt, Journal!NoSlot
  <2> QED BY <2>7, <2>8
<1>10. CASE Journal!WriteReceipt
  <2>1. /\ writer.pc = "receipt_data" /\ UNCHANGED acked
        /\ disk.txn.is = "named" /\ Behind(disk)
    BY <1>10 DEF Journal!WriteReceipt, ResumeInv, WriterInv, Installing
  <2>2. PICK w : w = [writer EXCEPT !.pc = "receipt"]
    OBVIOUS
  <2>3. DOMAIN w = JournalWriterFields /\ w.pc = "receipt" /\ w.todo = writer.todo
    BY <1>0, <2>2 DEF JournalWriterFields
  <2>4. PICK d, v : /\ Journal!Does(d, w) /\ SameNames(d, [disk EXCEPT !["receipt"] = v])
                    /\ IsSlot(v) /\ v.is = "staged"
    BY <1>0, <1>10, <2>2, WritesDoes DEF Journal!WriteReceipt
  <2> QED BY <1>7, <2>1, <2>3, <2>4
<1>11. CASE Journal!InstallHead
  <2>1. /\ writer.pc = "head" /\ UNCHANGED acked
        /\ disk.txn.is = "named" /\ Behind(disk) /\ disk.body.next \in Nat
        /\ disk.body.next >= Newest
    BY <1>0, <1>11 DEF Journal!InstallHead, ResumeInv, WriterInv, Installing, Recent
  <2>2. PICK nextHead : nextHead = [seq |-> disk.body.seq, is |-> disk.body.next]
    OBVIOUS
  <2>3. PICK clear : clear = [writer EXCEPT !.pc = "clear"]
    OBVIOUS
  <2>4. /\ DOMAIN clear = JournalWriterFields /\ clear.pc = "clear"
        /\ clear.todo = writer.todo /\ nextHead.is = disk.body.next
    BY <1>0, <2>2, <2>3 DEF JournalWriterFields
  <2>5. CASE disk.head = nextHead /\ Journal!Goes(clear)
    BY <1>0, <2>1, <2>4, <2>5, GoesKeeps
  <2>6. CASE Journal!Goes(Journal!JournalBlocked)
    <3>1. /\ DOMAIN Journal!JournalBlocked = JournalWriterFields
          /\ Journal!JournalBlocked.pc = "blocked" /\ Journal!JournalBlocked.todo = 0
      BY DEF Journal!JournalBlocked, Journal!NoWriter, JournalWriterFields
    <3> QED BY <2>6, <3>1, GoesKeeps DEF Installing
  <2>7. CASE Journal!Begins("next", disk.body.next, [writer EXCEPT !.pc = "head_data"])
    <3>1. PICK w : w = [writer EXCEPT !.pc = "head_data"]
      OBVIOUS
    <3>2. DOMAIN w = JournalWriterFields /\ w.pc = "head_data" /\ w.todo = writer.todo
      BY <1>0, <3>1 DEF JournalWriterFields
    <3> QED BY <1>0, <2>1, <2>7, <3>1, <3>2, BeginsKeeps
  <2>8. ASSUME NEW s, Journal!Does([disk EXCEPT !.head = nextHead, !.next = Journal!NoSlot,
                                                !.soft = s], clear)
        PROVE  ResumeInv'
    <3>1. PICK d : d = [disk EXCEPT !.head = nextHead, !.next = Journal!NoSlot, !.soft = s]
      OBVIOUS
    <3>2. /\ DOMAIN d = DirectoryFields /\ d.head = nextHead /\ d.next = Journal!NoSlot
          /\ d.txn = disk.txn /\ d.body = disk.body /\ d.receipts = disk.receipts
          /\ d.receipt = disk.receipt
      BY <1>0, <3>1 DEF DirectoryFields
    <3>3. Recent(d, Newest)
      BY <1>0, <2>1, <2>4, <3>2 DEF Recent, IsSlot, SlotKinds, Journal!NoSlot
    <3>4. Behind(d)
      BY <2>1, <3>2 DEF Behind, JustBehind
    <3> QED BY <1>0, <2>1, <2>4, <2>8, <3>1, <3>2, <3>3, <3>4, DoesKeeps
  <2>9. CASE Journal!BoundFileStep("next")
    BY <1>8, <2>1, <2>9
  <2>11. CASE disk.head = nextHead
    BY <1>11, <2>2, <2>3, <2>5, <2>6, <2>11 DEF Journal!InstallHead
  <2>12. CASE disk.head # nextHead
    BY <1>11, <2>2, <2>3, <2>7, <2>8, <2>9, <2>12 DEF Journal!InstallHead, Journal!NoSlot
  <2> QED BY <2>11, <2>12
<1>12. CASE Journal!WriteHead
  <2>1. /\ writer.pc = "head_data" /\ UNCHANGED acked
        /\ disk.txn.is = "named" /\ Behind(disk)
    BY <1>12 DEF Journal!WriteHead, ResumeInv, WriterInv, Installing
  <2>2. PICK w : w = [writer EXCEPT !.pc = "head"]
    OBVIOUS
  <2>3. DOMAIN w = JournalWriterFields /\ w.pc = "head" /\ w.todo = writer.todo
    BY <1>0, <2>2 DEF JournalWriterFields
  <2>4. PICK d, v : /\ Journal!Does(d, w) /\ SameNames(d, [disk EXCEPT !["next"] = v])
                    /\ IsSlot(v) /\ v.is = "staged"
    BY <1>0, <1>12, <2>2, WritesDoes DEF Journal!WriteHead
  <2> QED BY <1>7, <2>1, <2>3, <2>4
<1>13. CASE Journal!ClearTransaction
  <2>1. /\ writer.pc = "clear" /\ UNCHANGED acked /\ disk.head.is = disk.body.next
    BY <1>13 DEF Journal!ClearTransaction, ResumeInv, WriterInv
  <2>2. PICK w : w = [writer EXCEPT !.pc = IF writer.todo = disk.body.next THEN "return"
                                           ELSE "load"]
    OBVIOUS
  <2>3. /\ DOMAIN w = JournalWriterFields /\ w.todo = writer.todo
        /\ w.pc = IF writer.todo = disk.body.next THEN "return" ELSE "load"
    BY <1>0, <2>2 DEF JournalWriterFields
  <2>4. PICK d : d = [disk EXCEPT !.txn = Journal!NoSlot, !.body = Journal!NoTransaction]
    OBVIOUS
  <2>5. Recent(d, Newest) /\ d.txn.is = "none" /\ d.head = disk.head
    BY <1>0, <2>4 DEF Journal!NoSlot, Recent, DirectoryFields, IsSlot, SlotKinds
  <2>6. Journal!Does(d, w)
    BY <1>13, <2>2, <2>4 DEF Journal!ClearTransaction
  <2>7. disk.body.next \in Nat \ {0} /\ disk.body.next >= disk.body.next
    BY <1>0, <2>1 DEF Recent, ResumeInv, WriterInv, Installing
  <2> QED BY <1>0, <2>1, <2>3, <2>5, <2>6, <2>7, DoesKeeps DEF Installing
<1>14. CASE Journal!AppendReturns
  <2>1. /\ writer.pc = "return" /\ acked' = Append(acked, writer.todo)
        /\ writer' = [writer EXCEPT !.pc = "ready", !.todo = 0, !.latest = writer.todo]
        /\ UNCHANGED <<disk, left, counts>>
    BY <1>14 DEF Journal!AppendReturns, Journal!NoChange
  <2>2. /\ writer.todo = counts.appends /\ left = {disk} /\ disk.txn.is = "none"
        /\ disk.head.is >= writer.todo
    BY <2>1 DEF ResumeInv, WriterInv
  <2>3. acked' \in Seq(Nat) /\ acked' # << >> /\ Journal!LastOf(acked') = writer.todo
    BY <1>0, <2>1, <2>2 DEF ResumeInv, Journal!LastOf
  <2>4. Newest' = writer.todo
    BY <2>3 DEF Newest
  <2>5. Recent(disk, writer.todo)
    BY <1>0, <2>2 DEF Recent
  <2>6. /\ DOMAIN writer' = JournalWriterFields /\ writer'.pc = "ready" /\ writer'.todo = 0
        /\ writer'.latest = writer.todo
    BY <1>0, <2>1 DEF JournalWriterFields
  <2>7. WriterInv'
    BY <2>1, <2>6 DEF WriterInv, Installing
  <2>8. ResumesFromNewest'
    BY <1>0, <2>2, <2>3, <2>6 DEF ResumesFromNewest, Journal!ResumesFromNewest
  <2> QED BY <1>0, <2>1, <2>2, <2>3, <2>4, <2>5, <2>7, <2>8 DEF ResumeInv
<1>15. CASE Journal!WriterStops \/ Journal!PowerFails \/ Journal!ReceiptLost
  <2>1. /\ UNCHANGED acked /\ DOMAIN counts' = CountFields
        /\ counts'.appends = counts.appends
    BY <1>15 DEF Journal!WriterStops, Journal!PowerFails, Journal!ReceiptLost,
       Journal!Stopping, ResumeInv, CountFields
  <2>2. DOMAIN writer' = JournalWriterFields /\ writer'.pc = "down"
        /\ (writer'.todo = 0 \/ writer'.todo = counts'.appends)
    <3>1. \/ writer' = Journal!NoWriter
          \/ UNCHANGED writer /\ writer.pc = "down"
      BY <1>15 DEF Journal!WriterStops, Journal!PowerFails, Journal!ReceiptLost
    <3> QED BY <1>0, <2>1, <3>1 DEF Journal!NoWriter, JournalWriterFields
  <2>3. WriterInv'
    BY <2>2 DEF WriterInv, Installing
  <2>4. CASE Journal!WriterStops
    BY <1>0, <2>1, <2>2, <2>3, <2>4, ResumeKept DEF Journal!WriterStops, Journal!NoChange
  <2>5. CASE Journal!PowerFails
    <3>1. PICK d \in left : \E t : /\ disk' = [d EXCEPT !.soft = {}, !.torn = t]
                                   /\ left' = {disk'}
      BY <2>5 DEF Journal!PowerFails, Journal!NowDurable
    <3>2. Recent(d, Newest) /\ DOMAIN d = DirectoryFields
      BY DEF ResumeInv, Recent
    <3>5. PICK t : disk' = [d EXCEPT !.soft = {}, !.torn = t]
      BY <3>1
    <3>3. SameNames(disk', d)
      BY <3>2, <3>5, DataKeepNames
    <3>4. Recent(disk', Newest)
      BY <3>2, <3>3 DEF Recent, SameNames
    <3> QED BY <2>1, <2>2, <2>3, <3>1, <3>4, ResumeKept
  <2>6. CASE Journal!ReceiptLost
    <3>1. PICK rs \in Seq(Nat) : rs = disk.receipts /\ rs # << >>
      BY <1>0, <2>6 DEF Journal!ReceiptLost
    <3>2. PICK q \in Seq(Nat) : q = SubSeq(rs, 1, Len(rs) - 1)
      BY <3>1, OneReceiptLess
    <3>3. PICK e : e = [disk EXCEPT !.receipts = q]
      OBVIOUS
    <3>4. /\ DOMAIN e = DirectoryFields /\ e.receipts = q /\ e.receipt = disk.receipt
          /\ e.txn = disk.txn /\ e.next = disk.next /\ e.body = disk.body
          /\ e.head = disk.head
      BY <1>0, <3>3 DEF DirectoryFields
    <3>5. PICK fl : disk' = Journal!Without(e, fl) /\ left' = {disk'}
      BY <2>6, <3>1, <3>2, <3>3 DEF Journal!ReceiptLost, Journal!NowDurable
    <3>6. SameNames(disk', e)
      BY <3>4, <3>5, WithoutKeepsNames
    <3>7. Recent(disk', Newest)
      BY <1>0, <3>2, <3>4, <3>6 DEF Recent, SameNames
    <3> QED BY <2>1, <2>2, <2>3, <3>5, <3>7, ResumeKept
  <2> QED BY <1>15, <2>4, <2>5, <2>6
<1> QED
  BY <1>1, <1>2, <1>3, <1>4, <1>5, <1>6, <1>9, <1>10, <1>11, <1>12, <1>13, <1>14, <1>15
  DEF Journal!JournalNext

\* It holds from the start.
LEMMA ResumeAlways == OpsSpec => []ResumeInv
<1>1. OpsInit => ResumeInv
  <2> SUFFICES ASSUME Journal!JournalInit
               PROVE  ResumeInv
    BY PartsStart
  <2>1. /\ disk = Journal!NewDirectory /\ left = {disk} /\ acked = << >>
        /\ writer = Journal!NoWriter /\ counts = [appends |-> 0, stops |-> 0, losses |-> 0]
    BY DEF Journal!JournalInit
  <2>2. Newest = 0
    BY <2>1 DEF Newest, Journal!LastOf
  <2>3. Recent(disk, 0)
    BY <2>1 DEF Recent, Journal!NewDirectory, DirectoryFields, IsSlot, SlotKinds, Journal!NoSlot
  <2>4. WriterInv /\ ResumesFromNewest
    BY <2>1 DEF WriterInv, Journal!NoWriter, JournalWriterFields, Installing,
       ResumesFromNewest, Journal!ResumesFromNewest
  <2>5. DOMAIN counts = CountFields /\ counts.appends = 0 /\ acked \in Seq(Nat)
    BY <2>1 DEF CountFields
  <2> QED BY <2>1, <2>2, <2>3, <2>4, <2>5 DEF ResumeInv
<1>2. ResumeInv /\ [OpsNext]_opsVars => ResumeInv'
  <2>1. ASSUME ResumeInv, UNCHANGED journalVars
        PROVE  ResumeInv'
    BY <2>1
    DEF journalVars, ResumeInv, WriterInv, JustBehind, Behind, Newest, ResumesFromNewest,
        Journal!ResumesFromNewest
  <2> QED BY <2>1, ResumeStep, PartsStep
<1> QED BY <1>1, <1>2, PTL DEF OpsSpec

\* A publisher that resumes continues from a checkpoint no older than the last
\* one it was told is durable, for any number of appends, crashes, power losses
\* and receipts that disappear (journal.py, _validate_records_head).
THEOREM JournalResumes == OpsSpec => []ResumesFromNewest
<1>1. ResumeInv => ResumesFromNewest
  BY DEF ResumeInv
<1> QED BY <1>1, ResumeAlways, PTL

-----------------------------------------------------------------------------
(***************************************************************************)
(* The journal: what a load accepts.  While no receipt has disappeared,    *)
(* every directory that a crash or a power loss may leave is at one point  *)
(* of one append: settled, with its transaction written before the next    *)
(* receipt, or with the receipt installed and the head behind or in place. *)
(***************************************************************************)

\* The transaction is the one that extends the receipts.
Extends(d) == JustBehind(d) /\ d.body.before = Journal!LastOf(d.receipts)

\* No transaction counts yet.
Settled(d) ==
    /\ d.txn.is \in {"none", "part", "staged"} /\ (d.txn.is = "staged" => Extends(d))
    /\ d.receipt = Journal!NoSlot /\ d.next = Journal!NoSlot
    /\ d.head = Journal!HeadOf(d.receipts)

\* The head that the transaction was written for, and the one it makes.
HeadBefore(d) == [seq |-> d.body.seq - 1, is |-> d.body.before]
HeadAfter(d) == [seq |-> d.body.seq, is |-> d.body.next]

\* The transaction counts and its receipt is not yet there, or was cut short and
\* removed again after the head had gone on.
Prepared(d) ==
    /\ d.txn.is \in {"linked", "named"} /\ Extends(d)
    /\ \/ d.head = Journal!HeadOf(d.receipts)
       \/ d.head = HeadAfter(d) /\ d.next = Journal!NoSlot

\* The receipt is there; the head is still the one before it, or names it.
Installed(d) ==
    /\ d.txn.is \in {"linked", "named"} /\ d.receipt = Journal!NoSlot
    /\ d.receipts # << >> /\ d.body.seq = Len(d.receipts)
    /\ d.receipts[Len(d.receipts)] = d.body.next
    /\ d.body.before = IF Len(d.receipts) = 1 THEN 0 ELSE d.receipts[Len(d.receipts) - 1]
    /\ \/ d.head = HeadBefore(d)
       \/ d.head = Journal!HeadOf(d.receipts) /\ d.next = Journal!NoSlot

Consistent(d) == Settled(d) \/ Prepared(d) \/ Installed(d)

\* Where the writer is in the append.
PlaceInv ==
    /\ writer.pc = "blocked" => ~Journal!ChainReads(disk)
    /\ writer.pc = "receipt_data" => Prepared(disk)
    /\ writer.pc \in {"head", "head_data", "clear"} => Installed(disk)
    /\ writer.pc = "head_data" => disk.head = HeadBefore(disk)
    /\ writer.pc = "clear" => disk.head = Journal!HeadOf(disk.receipts)
                              /\ disk.next = Journal!NoSlot

BlockInv ==
    /\ counts.losses \in Nat
    /\ counts.losses = 0 => PlaceInv /\ \A d \in left \cup {disk} : Consistent(d)

\* The heads before and after an append are told apart by their numbers.
LEMMA HeadsDiffer ==
    ASSUME NEW d, d.receipts \in Seq(Nat), Installed(d)
    PROVE  /\ HeadBefore(d) # Journal!HeadOf(d.receipts)
           /\ Journal!HeadOf(d.receipts) = [seq |-> d.body.seq, is |-> d.body.next]
<1>1. d.body.seq = Len(d.receipts) /\ Len(d.receipts) \in Nat
      /\ d.receipts[Len(d.receipts)] = d.body.next /\ d.receipts # << >>
  BY DEF Installed
<1>2. Journal!LastOf(d.receipts) = d.body.next
  BY <1>1 DEF Journal!LastOf
<1>3. HeadBefore(d).seq # Journal!HeadOf(d.receipts).seq
  BY <1>1 DEF HeadBefore, Journal!HeadOf
<1> QED BY <1>1, <1>2, <1>3 DEF Journal!HeadOf

\* Whether a directory is consistent is a matter of its names.
LEMMA NamesDecide ==
    ASSUME NEW d, NEW e, SameNames(d, e)
    PROVE  /\ Settled(e) => Settled(d)
           /\ Prepared(e) => Prepared(d)
           /\ Installed(e) => Installed(d)
           /\ HeadBefore(d) = HeadBefore(e)
           /\ Consistent(e) => Consistent(d)
<1>1. Settled(e) => Settled(d)
  BY DEF SameNames, Settled, Extends, JustBehind
<1>2. Prepared(e) => Prepared(d)
  BY DEF SameNames, Prepared, Extends, JustBehind, HeadAfter
<1>3. Installed(e) => Installed(d)
  BY DEF SameNames, Installed, HeadBefore
<1> QED BY <1>1, <1>2, <1>3 DEF Consistent, SameNames, HeadBefore

\* A step that ends in a consistent directory.
LEMMA BlockKept ==
    ASSUME BlockInv, counts'.losses = counts.losses,
           left' \subseteq left \cup {disk, disk'},
           counts.losses = 0 => PlaceInv' /\ Consistent(disk')
    PROVE  BlockInv'
BY DEF BlockInv

\* A step that changes no file.
LEMMA GoesOn ==
    ASSUME BlockInv, NEW w, Journal!Goes(w),
           counts.losses = 0 =>
              /\ w.pc = "blocked" => ~Journal!ChainReads(disk)
              /\ w.pc \notin {"receipt_data", "head_data"}
              /\ w.pc \in {"head", "clear"} => Installed(disk)
              /\ w.pc = "clear" => disk.head = Journal!HeadOf(disk.receipts)
                                   /\ disk.next = Journal!NoSlot
    PROVE  BlockInv'
<1>1. writer' = w /\ UNCHANGED <<disk, left, counts>>
  BY DEF Journal!Goes, Journal!NoChange
<1>2. counts.losses = 0 => PlaceInv'
  BY <1>1 DEF PlaceInv, Installed, HeadBefore, Journal!ChainReads, Journal!ChainLength
<1> QED BY <1>1, <1>2, BlockKept DEF BlockInv

\* A change of the directory and its sync, which may fail.
LEMMA DoesOn ==
    ASSUME ResumeInv, BlockInv, NEW d, NEW w, Journal!Does(d, w),
           counts.losses = 0 =>
              /\ Consistent(d) /\ w.pc # "blocked" /\ w.pc \notin {"receipt_data", "head_data"}
              /\ w.pc \in {"head", "clear"} => Installed(d)
              /\ w.pc = "clear" => d.head = Journal!HeadOf(d.receipts)
                                   /\ d.next = Journal!NoSlot
    PROVE  BlockInv'
<1>1. CASE Journal!NowDurable(d) /\ writer' = w /\ UNCHANGED counts
  <2>1. disk' = d /\ left' = {d}
    BY <1>1 DEF Journal!NowDurable
  <2>2. counts.losses = 0 => PlaceInv'
    BY <1>1, <2>1 DEF PlaceInv, Installed, HeadBefore
  <2> QED BY <1>1, <2>1, <2>2, BlockKept
<1>2. CASE Journal!NotYetDurable(d) /\ writer' = Journal!NoWriter /\ Journal!Stopping
  <2>1. disk' = d /\ left' = left \cup {d} /\ counts'.losses = counts.losses
    BY <1>2 DEF Journal!NotYetDurable, Journal!Stopping, ResumeInv, CountFields
  <2>2. PlaceInv'
    BY <1>2 DEF PlaceInv, Journal!NoWriter
  <2> QED BY <2>1, <2>2, BlockKept
<1> QED BY <1>1, <1>2 DEF Journal!Does

\* The staged file of a slot is created.
LEMMA BeginsOn ==
    ASSUME ResumeInv, BlockInv, NEW slot \in {"txn", "receipt", "next"}, NEW c, NEW w,
           Journal!Begins(slot, c, w),
           counts.losses = 0 =>
              \/ slot = "txn" /\ w.pc = "txn" /\ Settled(disk)
              \/ slot = "receipt" /\ w.pc = "receipt_data" /\ Prepared(disk)
              \/ /\ slot = "next" /\ w.pc = "head_data" /\ Installed(disk)
                 /\ disk.head = HeadBefore(disk)
    PROVE  BlockInv'
<1>1. PICK d : d = [disk EXCEPT ![slot] = Journal!Part(c)]
  OBVIOUS
<1>2. disk' = d /\ left' = left \cup {d} /\ writer' = w /\ UNCHANGED counts
  BY <1>1 DEF Journal!Begins, Journal!NotYetDurable
<1>3. DOMAIN disk = DirectoryFields
  BY DEF ResumeInv, Recent
<1>4. CASE counts.losses = 0 /\ slot = "txn" /\ w.pc = "txn" /\ Settled(disk)
  <2>1. /\ d.txn.is = "part" /\ d.receipts = disk.receipts /\ d.receipt = disk.receipt
        /\ d.next = disk.next /\ d.head = disk.head
    BY <1>1, <1>3, <1>4 DEF DirectoryFields, Journal!Part
  <2>2. Settled(d)
    BY <1>4, <2>1 DEF Settled
  <2>3. PlaceInv'
    BY <1>2, <1>4 DEF PlaceInv
  <2> QED BY <1>2, <2>2, <2>3, BlockKept DEF Consistent
<1>5. CASE counts.losses = 0 /\ slot = "receipt" /\ w.pc = "receipt_data" /\ Prepared(disk)
  <2>1. /\ d.txn = disk.txn /\ d.receipts = disk.receipts /\ d.body = disk.body
        /\ d.next = disk.next /\ d.head = disk.head
    BY <1>1, <1>3, <1>5 DEF DirectoryFields
  <2>2. Prepared(d)
    BY <1>5, <2>1 DEF Prepared, Extends, JustBehind, HeadAfter
  <2>3. PlaceInv'
    BY <1>2, <1>5, <2>2 DEF PlaceInv, Prepared, Extends, JustBehind, HeadAfter
  <2> QED BY <1>2, <2>2, <2>3, BlockKept DEF Consistent
<1>6. CASE /\ counts.losses = 0 /\ slot = "next" /\ w.pc = "head_data" /\ Installed(disk)
           /\ disk.head = HeadBefore(disk)
  <2>1. /\ d.txn = disk.txn /\ d.receipts = disk.receipts /\ d.body = disk.body
        /\ d.receipt = disk.receipt /\ d.head = disk.head
    BY <1>1, <1>3, <1>6 DEF DirectoryFields
  <2>2. Installed(d) /\ d.head = HeadBefore(d)
    BY <1>6, <2>1 DEF Installed, HeadBefore
  <2>3. PlaceInv'
    BY <1>2, <1>6, <2>2 DEF PlaceInv, Installed, HeadBefore
  <2> QED BY <1>2, <2>2, <2>3, BlockKept DEF Consistent
<1>7. CASE counts.losses # 0
  BY <1>2, <1>7, BlockKept
<1> QED BY <1>4, <1>5, <1>6, <1>7

\* A recovery accepts the transaction of every consistent directory.
LEMMA ConsistentFits ==
    ASSUME disk.receipts \in Seq(Nat), disk.body.seq \in Nat,
           Prepared(disk) \/ Installed(disk)
    PROVE  Journal!TransactionFits
<1>1. PICK rs \in Seq(Nat) : rs = disk.receipts
  OBVIOUS
<1>2. PICK n \in Nat : n = disk.body.seq
  OBVIOUS
<1>3. Len(rs) \in Nat /\ \A i \in 1 .. Len(rs) : rs[i] \in Nat
  OBVIOUS
<1>4. CASE Prepared(disk)
  <2>1. n - 1 = Len(rs) /\ disk.body.before = Journal!LastOf(rs)
        /\ disk.head \in {Journal!HeadOf(rs), HeadAfter(disk)}
    BY <1>1, <1>2, <1>3, <1>4 DEF Prepared, Extends, JustBehind
  <2>2. SubSeq(rs, 1, n - 1) = rs
    BY <2>1
  <2> QED BY <1>1, <1>2, <2>1, <2>2
          DEF Journal!TransactionFits, Journal!HeadOf, Journal!ValidateRecordsHead, HeadAfter
<1>5. CASE Installed(disk)
  <2>1. /\ n = Len(rs) /\ rs # << >> /\ rs[n] = disk.body.next
        /\ disk.body.before = IF n = 1 THEN 0 ELSE rs[n - 1]
        /\ disk.head \in {HeadBefore(disk), Journal!HeadOf(rs)}
    BY <1>1, <1>2, <1>5 DEF Installed
  <2>2. n >= 1
    BY <1>3, <2>1
  <2>3. PICK q : q = SubSeq(rs, 1, n - 1)
    OBVIOUS
  <2>4. /\ q \in Seq(Nat) /\ Len(q) = n - 1
        /\ \A i \in 1 .. n - 1 : q[i] = rs[i]
    <3>1. 1 \in Int /\ n - 1 \in Int /\ \A i \in 1 .. n - 1 : rs[i] \in Nat
      BY <1>3, <2>1
    <3>2. /\ q \in Seq(Nat)
          /\ Len(q) = IF 1 <= n - 1 THEN n - 1 - 1 + 1 ELSE 0
          /\ \A i \in 1 .. n - 1 - 1 + 1 : q[i] = rs[1 + i - 1]
      BY <2>3, <3>1, SubSeqProperties
    <3>3. Len(q) = n - 1
      BY <2>2, <3>2
    <3>4. ASSUME NEW i \in 1 .. n - 1
          PROVE  q[i] = rs[i]
      <4>1. i \in 1 .. n - 1 - 1 + 1 /\ 1 + i - 1 = i
        OBVIOUS
      <4> QED BY <3>2, <4>1
    <3> QED BY <3>2, <3>3, <3>4
  <2>5. Journal!LastOf(q) = disk.body.before
    <3>1. CASE n = 1
      BY <2>1, <2>4, <3>1 DEF Journal!LastOf
    <3>2. CASE n # 1
      <4>1. n - 1 \in 1 .. n - 1 /\ q # << >>
        BY <2>2, <2>4, <3>2
      <4>2. q[Len(q)] = rs[n - 1]
        BY <2>4, <4>1
      <4> QED BY <2>1, <3>2, <4>1, <4>2 DEF Journal!LastOf
    <3> QED BY <3>1, <3>2
  <2>6. HeadBefore(disk) = Journal!HeadOf(q)
    BY <1>2, <2>4, <2>5 DEF HeadBefore, Journal!HeadOf
  <2>7. Journal!HeadOf(rs) = [seq |-> disk.body.seq, is |-> disk.body.next]
    BY <1>1, <1>5, HeadsDiffer
  <2> QED BY <1>1, <1>2, <2>1, <2>3, <2>6, <2>7
          DEF Journal!TransactionFits, Journal!ValidateRecordsHead, HeadBefore
<1> QED BY <1>4, <1>5

\* A change of the receipt's or the next head's slot alone.
LEMMA SlotOn ==
    ASSUME ResumeInv, BlockInv, NEW slot \in {"receipt", "next"}, NEW d, NEW w, NEW v,
           SameNames(d, [disk EXCEPT ![slot] = v]), Journal!Does(d, w),
           counts.losses = 0 =>
              \/ slot = "receipt" /\ w.pc = "receipt" /\ Prepared(disk)
              \/ /\ slot = "next" /\ w.pc = "head" /\ Installed(disk)
                 /\ disk.head = HeadBefore(disk)
    PROVE  BlockInv'
<1>1. DOMAIN disk = DirectoryFields
  BY DEF ResumeInv, Recent
<1>5. PICK e : e = [disk EXCEPT ![slot] = v]
  OBVIOUS
<1>2. CASE counts.losses = 0 /\ slot = "receipt" /\ w.pc = "receipt" /\ Prepared(disk)
  <2>1. /\ e.txn = disk.txn /\ e.receipts = disk.receipts /\ e.body = disk.body
        /\ e.next = disk.next /\ e.head = disk.head
    BY <1>1, <1>2, <1>5 DEF DirectoryFields
  <2>2. Prepared(e)
    BY <1>2, <2>1 DEF Prepared, Extends, JustBehind, HeadAfter
  <2>3. Prepared(d)
    BY <1>5, <2>2, NamesDecide
  <2> QED BY <1>2, <2>3, DoesOn DEF Consistent
<1>3. CASE /\ counts.losses = 0 /\ slot = "next" /\ w.pc = "head" /\ Installed(disk)
           /\ disk.head = HeadBefore(disk)
  <2>1. /\ e.txn = disk.txn /\ e.receipts = disk.receipts /\ e.body = disk.body
        /\ e.receipt = disk.receipt /\ e.head = disk.head
    BY <1>1, <1>3, <1>5 DEF DirectoryFields
  <2>2. Installed(e)
    BY <1>3, <2>1 DEF Installed, HeadBefore
  <2>3. Installed(d)
    BY <1>5, <2>2, NamesDecide
  <2> QED BY <1>3, <2>3, DoesOn DEF Consistent
<1>4. CASE counts.losses # 0
  BY <1>4, DoesOn
<1> QED BY <1>2, <1>3, <1>4

\* The same for a step on a transaction-bound file.
LEMMA BoundFileOn ==
    ASSUME ResumeInv, BlockInv, NEW slot \in {"receipt", "next"}, Journal!BoundFileStep(slot),
           counts.losses = 0 =>
              \/ slot = "receipt" /\ writer.pc = "receipt" /\ Prepared(disk)
              \/ /\ slot = "next" /\ writer.pc = "head" /\ Installed(disk)
                 /\ disk.head = HeadBefore(disk)
    PROVE  BlockInv'
<1>1. DOMAIN disk = DirectoryFields
  BY DEF ResumeInv, Recent
<1>2. PICK d, v : SameNames(d, [disk EXCEPT ![slot] = v]) /\ Journal!Does(d, writer)
  BY <1>1, BoundFileDoes
<1> QED BY <1>2, SlotOn

\* Every step of the journal keeps every directory consistent.
LEMMA BlockStep ==
    ASSUME ResumeInv, BlockInv, Journal!JournalNext
    PROVE  BlockInv'
<1>0. /\ DOMAIN writer = JournalWriterFields /\ DOMAIN counts = CountFields
      /\ DOMAIN disk = DirectoryFields /\ disk.receipts \in Seq(Nat)
      /\ IsSlot(disk.txn) /\ IsSlot(disk.receipt) /\ disk.receipt.is # "named"
      /\ IsSlot(disk.next) /\ Len(disk.receipts) \in Nat
      /\ counts.losses = 0 => Consistent(disk) /\ PlaceInv
  BY DEF ResumeInv, WriterInv, Recent, BlockInv
<1>1. CASE Journal!TakeLock
  <2>1. PICK w : w = [Journal!NoWriter EXCEPT !.pc = "staging"]
    OBVIOUS
  <2>2. w.pc = "staging"
    BY <2>1 DEF Journal!NoWriter
  <2> QED BY <1>1, <2>1, <2>2, GoesOn DEF Journal!TakeLock
<1>2. CASE Journal!RecoverTransactionStaging
  <2>1. PICK w : w = [writer EXCEPT !.pc = "recover"]
    OBVIOUS
  <2>2. w.pc = "recover"
    BY <1>0, <2>1 DEF JournalWriterFields
  <2>3. CASE disk.txn.is = "linked"
    <3>1. PICK d : d = Journal!PublishStagedNoReplace("txn")
      OBVIOUS
    <3>2. /\ d.txn.is = "named" /\ d.receipts = disk.receipts /\ d.receipt = disk.receipt
          /\ d.next = disk.next /\ d.head = disk.head /\ d.body = disk.body
      BY <1>0, <2>3, <3>1 DEF Journal!PublishStagedNoReplace, Journal!Named, DirectoryFields
    <3>3. Journal!Does(d, w)
      BY <1>2, <2>1, <2>3, <3>1 DEF Journal!RecoverTransactionStaging
    <3>4. Prepared(disk) => Prepared(d)
      BY <3>2 DEF Prepared, Extends, JustBehind, HeadAfter
    <3>5. Installed(disk) => Installed(d)
      BY <3>2 DEF Installed, HeadBefore
    <3>6. ~Settled(disk)
      BY <2>3 DEF Settled
    <3> QED BY <1>0, <2>2, <3>3, <3>4, <3>5, <3>6, DoesOn DEF Consistent
  <2>4. CASE disk.txn.is \in {"part", "staged"}
    <3>1. PICK d : d = [disk EXCEPT !.txn = Journal!NoSlot, !.body = Journal!NoTransaction]
      OBVIOUS
    <3>2. /\ d.txn.is = "none" /\ d.receipts = disk.receipts /\ d.receipt = disk.receipt
          /\ d.next = disk.next /\ d.head = disk.head
      BY <1>0, <3>1 DEF Journal!NoSlot, DirectoryFields
    <3>3. Journal!Does(d, w)
      BY <1>2, <2>1, <2>4, <3>1 DEF Journal!RecoverTransactionStaging
    <3>4. Consistent(disk) => Settled(d)
      BY <2>4, <3>2 DEF Consistent, Settled, Prepared, Installed
    <3> QED BY <1>0, <2>2, <3>3, <3>4, DoesOn DEF Consistent
  <2>5. CASE disk.txn.is \in {"none", "named"}
    <3>1. Journal!Goes(w)
      BY <1>2, <2>1, <2>5 DEF Journal!RecoverTransactionStaging
    <3> QED BY <2>2, <3>1, GoesOn
  <2> QED BY <1>0, <2>3, <2>4, <2>5 DEF IsSlot, SlotKinds
<1>3. CASE Journal!RecoverTransaction
  <2>1. writer.pc = "recover" /\ disk.txn.is \in {"none", "named"}
    BY <1>3 DEF Journal!RecoverTransaction, ResumeInv, WriterInv
  <2>2. PICK load, install : /\ load = [writer EXCEPT !.pc = "load"]
                             /\ install = [writer EXCEPT !.pc = "receipt"]
    OBVIOUS
  <2>3. load.pc = "load" /\ install.pc = "receipt"
    BY <1>0, <2>2 DEF JournalWriterFields
  <2>4. CASE counts.losses = 0 /\ disk.txn = Journal!NoSlot
    <3>1. disk.next = Journal!NoSlot /\ disk.receipt = Journal!NoSlot
      BY <1>0, <2>4 DEF Consistent, Settled, Prepared, Installed, Journal!NoSlot
    <3>2. Journal!Goes(load)
      BY <1>3, <2>2, <2>4, <3>1 DEF Journal!RecoverTransaction
    <3> QED BY <2>3, <3>2, GoesOn
  <2>5. CASE counts.losses = 0 /\ disk.txn # Journal!NoSlot
    <3>1. disk.txn.is = "named"
      BY <1>0, <2>1, <2>5 DEF IsSlot
    <3>2. disk.body.seq \in Nat
      BY <3>1 DEF ResumeInv, Recent
    <3>3. Prepared(disk) \/ Installed(disk)
      BY <1>0, <2>5, <3>1 DEF Consistent, Settled
    <3>4. Journal!TransactionFits
      BY <1>0, <3>2, <3>3, ConsistentFits
    <3>5. CASE Journal!ChainReads(disk)
      <4>1. Journal!Goes(install)
        BY <1>3, <2>2, <2>5, <3>4, <3>5 DEF Journal!RecoverTransaction
      <4> QED BY <2>3, <4>1, GoesOn
    <3>6. CASE ~Journal!ChainReads(disk)
      <4>1. Journal!Goes(Journal!JournalBlocked) /\ Journal!JournalBlocked.pc = "blocked"
        BY <1>3, <2>5, <3>6
        DEF Journal!RecoverTransaction, Journal!JournalBlocked, Journal!NoWriter
      <4> QED BY <3>6, <4>1, GoesOn
    <3> QED BY <3>5, <3>6
  <2>6. CASE counts.losses # 0
    <3>1. PICK w : Journal!Goes(w)
      BY <1>3 DEF Journal!RecoverTransaction
    <3> QED BY <2>6, <3>1, GoesOn
  <2> QED BY <2>4, <2>5, <2>6
<1>4. CASE Journal!LoadAll
  <2>1. writer.pc = "load" /\ disk.txn.is = "none"
    BY <1>4 DEF Journal!LoadAll, ResumeInv, WriterInv
  <2>4. CASE counts.losses = 0 /\ ~Journal!ChainReads(disk)
    <3>1. Journal!Goes(Journal!JournalBlocked) /\ Journal!JournalBlocked.pc = "blocked"
      BY <1>4, <2>4 DEF Journal!LoadAll, Journal!JournalBlocked, Journal!NoWriter
    <3> QED BY <2>4, <3>1, GoesOn
  <2>2. CASE counts.losses = 0 /\ Journal!ChainReads(disk)
    <3>1. Journal!ValidateRecordsHead(disk.receipts, disk.head)
      BY <1>0, <2>1, <2>2
      DEF Consistent, Settled, Prepared, Installed, Journal!ValidateRecordsHead
    <3>2. PICK w : w = [writer EXCEPT !.pc = IF writer.todo = 0 THEN "ready" ELSE "txn",
                                      !.latest = Journal!LastOf(disk.receipts)]
      OBVIOUS
    <3>3. Journal!Goes(w)
      BY <1>4, <2>2, <3>1, <3>2 DEF Journal!LoadAll
    <3>4. w.pc \in {"ready", "txn"}
      BY <1>0, <3>2 DEF JournalWriterFields
    <3> QED BY <3>3, <3>4, GoesOn
  <2>3. CASE counts.losses # 0
    <3>1. PICK w : Journal!Goes(w)
      BY <1>4 DEF Journal!LoadAll
    <3> QED BY <2>3, <3>1, GoesOn
  <2> QED BY <2>2, <2>3, <2>4
<1>5. CASE Journal!CallAppend
  <2>1. UNCHANGED <<disk, left>> /\ counts' = [counts EXCEPT !.appends = @ + 1]
        /\ writer' = [writer EXCEPT !.pc = "staging", !.todo = counts.appends + 1]
    BY <1>5 DEF Journal!CallAppend, Journal!NoChange
  <2>2. counts'.losses = counts.losses /\ writer'.pc = "staging"
    BY <1>0, <2>1 DEF CountFields, JournalWriterFields
  <2>3. PlaceInv'
    BY <2>2 DEF PlaceInv
  <2> QED BY <1>0, <2>1, <2>2, <2>3, BlockKept
<1>6. CASE Journal!PublishTransaction
  <2>1. writer.pc = "txn"
    BY <1>6 DEF Journal!PublishTransaction
  <2>2. /\ disk.txn.is \in {"none", "part", "staged"} /\ Consistent(disk) => Settled(disk)
        /\ disk.txn.is \in {"linked", "named"} /\ Consistent(disk) => Prepared(disk)
    <3>1. disk.txn.is \in {"staged", "linked", "named"} => JustBehind(disk)
      BY <2>1 DEF ResumeInv, WriterInv
    <3>2. ~(JustBehind(disk) /\ Installed(disk))
      BY <1>0 DEF JustBehind, Installed
    <3> QED BY <3>1, <3>2 DEF Consistent, Settled, Prepared, Installed
  <2>3. CASE disk.txn.is = "none"
    <3>1. Journal!Begins("txn", writer.todo, writer)
      BY <1>6, <2>3 DEF Journal!PublishTransaction
    <3> QED BY <1>0, <2>1, <2>2, <2>3, <3>1, BeginsOn
  <2>4. CASE disk.txn.is = "part"
    <3>1. PICK body : /\ body.seq = Len(disk.receipts) + 1
                      /\ body.before = Journal!LastOf(disk.receipts)
                      /\ Journal!Does([Journal!WriteStagedFile("txn") EXCEPT !.body = body],
                                      writer)
      BY <1>6, <2>4 DEF Journal!PublishTransaction
    <3>2. PICK t : t = Journal!WriteStagedFile("txn")
      OBVIOUS
    <3>3. /\ DOMAIN t = DirectoryFields /\ t.txn.is = "staged"
          /\ t.receipts = disk.receipts /\ t.receipt = disk.receipt /\ t.next = disk.next
          /\ t.head = disk.head
      BY <1>0, <3>2 DEF Journal!WriteStagedFile, Journal!Staged, DirectoryFields
    <3>4. PICK d : d = [t EXCEPT !.body = body]
      OBVIOUS
    <3>5. /\ d.body = body /\ d.txn.is = "staged" /\ d.head = disk.head
          /\ d.receipts = disk.receipts /\ d.receipt = disk.receipt /\ d.next = disk.next
      BY <3>3, <3>4 DEF DirectoryFields
    <3>6. Consistent(disk) => Settled(d)
      BY <2>2, <2>4, <3>1, <3>5 DEF Settled, Extends, JustBehind
    <3> QED BY <1>0, <2>1, <3>1, <3>2, <3>4, <3>6, DoesOn DEF Consistent
  <2>5. CASE disk.txn.is \in {"staged", "linked"}
    <3>1. PICK d : d = Journal!PublishStagedNoReplace("txn")
      OBVIOUS
    <3>2. /\ d.txn.is \in {"linked", "named"} /\ d.receipts = disk.receipts
          /\ d.next = disk.next /\ d.head = disk.head /\ d.body = disk.body
      BY <1>0, <2>5, <3>1
      DEF Journal!PublishStagedNoReplace, Journal!Named, Journal!Linked, DirectoryFields
    <3>3. Journal!Does(d, writer)
      BY <1>6, <2>5, <3>1 DEF Journal!PublishTransaction
    <3>4. Consistent(disk) => Prepared(d)
      <4>1. CASE Settled(disk)
        BY <2>2, <2>5, <3>2, <4>1 DEF Prepared, Settled, Extends, JustBehind
      <4>2. CASE Prepared(disk)
        BY <3>2, <4>2 DEF Prepared, Extends, JustBehind, HeadAfter
      <4> QED BY <2>2, <2>5, <4>1, <4>2
    <3> QED BY <1>0, <2>1, <3>3, <3>4, DoesOn DEF Consistent
  <2>6. CASE disk.txn.is = "named"
    <3>1. PICK w : w = [writer EXCEPT !.pc = "receipt"]
      OBVIOUS
    <3>2. Journal!Goes(w) /\ w.pc = "receipt"
      BY <1>0, <1>6, <2>6, <3>1 DEF Journal!PublishTransaction, JournalWriterFields
    <3> QED BY <3>2, GoesOn
  <2> QED BY <1>0, <2>3, <2>4, <2>5, <2>6 DEF IsSlot, SlotKinds
<1>7. CASE Journal!InstallReceipt
  <2>1. /\ writer.pc = "receipt" /\ disk.txn.is = "named" /\ disk.body.seq \in Nat
        /\ disk.body.next \in Nat
    BY <1>7 DEF Journal!InstallReceipt, ResumeInv, WriterInv, Installing, Recent
  <2>2. /\ Consistent(disk) /\ Len(disk.receipts) = disk.body.seq => Installed(disk)
        /\ Consistent(disk) /\ Len(disk.receipts) # disk.body.seq => Prepared(disk)
    BY <1>0, <2>1 DEF Consistent, Settled, Prepared, Extends, JustBehind, Installed
  <2>3. CASE /\ Len(disk.receipts) = disk.body.seq
             /\ Journal!FileOf("receipt") \notin disk.torn
    <3>1. PICK w : w = [writer EXCEPT !.pc = "head"]
      OBVIOUS
    <3>2. Journal!Goes(w) /\ w.pc = "head"
      BY <1>0, <1>7, <2>3, <3>1 DEF Journal!InstallReceipt, JournalWriterFields
    <3> QED BY <1>0, <2>2, <2>3, <3>2, GoesOn
  <2>7. CASE /\ Len(disk.receipts) = disk.body.seq
             /\ Journal!FileOf("receipt") \in disk.torn
    <3>1. PICK rs \in Seq(Nat) : rs = disk.receipts
      BY <1>0
    <3>2. rs # << >>
      BY <2>1, <2>7, <3>1 DEF ResumeInv, Recent
    <3>3. PICK q : /\ q = SubSeq(rs, 1, Len(rs) - 1) /\ q \in Seq(Nat)
                   /\ Len(q) = Len(rs) - 1 /\ \A i \in 1 .. Len(q) : q[i] = rs[i]
      BY <3>2, OneReceiptLess
    <3>4. PICK e : e = [disk EXCEPT !.receipts = q]
      OBVIOUS
    <3>5. /\ DOMAIN e = DirectoryFields /\ e.receipts = q /\ e.receipt = disk.receipt
          /\ e.txn = disk.txn /\ e.next = disk.next /\ e.body = disk.body
          /\ e.head = disk.head
      BY <1>0, <3>4 DEF DirectoryFields
    <3>6. PICK d : SameNames(d, e) /\ Journal!Does(d, writer)
      BY <1>7, <2>7, <3>1, <3>3, <3>4, <3>5, WithoutKeepsNames DEF Journal!InstallReceipt
    <3>7. ASSUME Installed(disk)
          PROVE  Prepared(e)
      <4>1. /\ disk.txn.is = "named" /\ disk.body.seq = Len(rs) /\ rs[Len(rs)] = disk.body.next
            /\ disk.body.before = IF Len(rs) = 1 THEN 0 ELSE rs[Len(rs) - 1]
            /\ \/ disk.head = HeadBefore(disk)
               \/ disk.head = Journal!HeadOf(rs) /\ disk.next = Journal!NoSlot
        BY <2>1, <3>1, <3>7 DEF Installed
      <4>2. PICK n \in Nat : n = Len(rs) /\ n >= 1
        BY <3>2
      <4>3. Journal!LastOf(q) = disk.body.before
        <5>1. CASE n = 1
          BY <3>3, <4>1, <4>2, <5>1 DEF Journal!LastOf
        <5>2. CASE n # 1
          <6>3. Len(q) = n - 1 /\ n - 1 >= 1
            BY <3>3, <4>2, <5>2
          <6>4. q # << >>
            <7>1. q = << >> => Len(q) = 0
              OBVIOUS
            <7> QED BY <4>2, <6>3, <7>1
          <6>1. n - 1 \in 1 .. Len(q) /\ q # << >> /\ Len(q) = n - 1
            BY <4>2, <6>3, <6>4
          <6>2. q[Len(q)] = rs[n - 1]
            BY <3>3, <6>1
          <6> QED BY <4>1, <4>2, <5>2, <6>1, <6>2 DEF Journal!LastOf
        <5> QED BY <5>1, <5>2
      <4>4. HeadBefore(disk) = Journal!HeadOf(q)
        BY <3>3, <4>1, <4>2, <4>3 DEF HeadBefore, Journal!HeadOf
      <4>5. Journal!HeadOf(rs) = HeadAfter(e)
        BY <3>1, <3>5, <3>7, <1>0, HeadsDiffer DEF HeadAfter
      <4>6. JustBehind(e)
        BY <3>3, <3>5, <4>1, <4>2 DEF JustBehind
      <4> QED BY <3>5, <4>1, <4>3, <4>4, <4>5, <4>6 DEF Prepared, Extends
    <3>8. Installed(disk) => Consistent(d)
      BY <3>6, <3>7, NamesDecide DEF Consistent
    <3> QED BY <1>0, <2>1, <2>2, <2>7, <3>6, <3>8, DoesOn
  <2>4. CASE Len(disk.receipts) # disk.body.seq /\ disk.receipt = Journal!NoSlot
    <3>1. PICK w : w = [writer EXCEPT !.pc = "receipt_data"]
      OBVIOUS
    <3>2. w.pc = "receipt_data"
      BY <1>0, <3>1 DEF JournalWriterFields
    <3>3. Journal!Begins("receipt", disk.body.next, w)
      BY <1>7, <2>4, <3>1 DEF Journal!InstallReceipt, Journal!NoSlot
    <3> QED BY <1>0, <2>2, <2>4, <3>2, <3>3, BeginsOn
  <2>5. CASE Len(disk.receipts) # disk.body.seq /\ disk.receipt.is = "linked"
    <3>1. PICK d : d = [disk EXCEPT !.receipts = Append(@, disk.body.next),
                                    !.receipt = Journal!NoSlot]
      OBVIOUS
    <3>2. /\ d.receipts = Append(disk.receipts, disk.body.next)
          /\ d.receipt = Journal!NoSlot /\ d.txn = disk.txn /\ d.next = disk.next
          /\ d.body = disk.body /\ d.head = disk.head
      BY <1>0, <3>1 DEF DirectoryFields
    <3>3. Journal!Does(d, writer)
      BY <1>7, <2>5, <3>1 DEF Journal!InstallReceipt, Journal!NoSlot
    <3>4. PICK rs \in Seq(Nat), c \in Nat : rs = disk.receipts /\ c = disk.body.next
      BY <1>0, <2>1
    <3>5. /\ Len(d.receipts) = Len(rs) + 1 /\ d.receipts # << >>
          /\ d.receipts[Len(rs) + 1] = c
          /\ \A i \in 1 .. Len(rs) : d.receipts[i] = rs[i]
      BY <3>2, <3>4, AppendProperties
    <3>6. ASSUME Prepared(disk)
          PROVE  Installed(d)
      <4>1. /\ d.body.seq = Len(rs) + 1
            /\ \/ d.head = Journal!HeadOf(rs)
               \/ d.head = HeadAfter(d) /\ d.next = Journal!NoSlot
            /\ d.body.before = Journal!LastOf(rs) /\ d.txn.is = "named"
        BY <2>1, <3>2, <3>4, <3>6 DEF Prepared, Extends, JustBehind, HeadAfter
      <4>2. \/ d.head = HeadBefore(d)
            \/ d.head = Journal!HeadOf(d.receipts) /\ d.next = Journal!NoSlot
        <5>1. d.body.seq - 1 = Len(rs)
          BY <3>4, <4>1
        <5>2. Journal!LastOf(d.receipts) = c /\ c = d.body.next
          BY <3>2, <3>4, <3>5 DEF Journal!LastOf
        <5> QED BY <3>5, <4>1, <5>1, <5>2 DEF HeadBefore, HeadAfter, Journal!HeadOf
      <4>3. d.body.before = IF Len(d.receipts) = 1 THEN 0
                            ELSE d.receipts[Len(d.receipts) - 1]
        <5>1. CASE rs = << >>
          BY <3>5, <4>1, <5>1 DEF Journal!LastOf
        <5>2. CASE rs # << >>
          <6>1. /\ Len(rs) \in 1 .. Len(rs) /\ Len(d.receipts) # 1
                /\ Len(d.receipts) - 1 = Len(rs)
            BY <3>4, <3>5, <5>2
          <6> QED BY <3>5, <4>1, <5>2, <6>1 DEF Journal!LastOf
        <5> QED BY <5>1, <5>2
      <4> QED BY <3>2, <3>4, <3>5, <4>1, <4>2, <4>3 DEF Installed
    <3> QED BY <1>0, <2>1, <2>2, <2>5, <3>3, <3>6, DoesOn DEF Consistent
  <2>6. CASE Len(disk.receipts) # disk.body.seq /\ disk.receipt.is \in {"part", "staged"}
    <3>1. disk.receipt # Journal!NoSlot /\ disk.receipt.is # "linked"
      BY <2>6 DEF Journal!NoSlot
    <3>2. Journal!BoundFileStep("receipt")
      BY <1>7, <2>6, <3>1 DEF Journal!InstallReceipt
    <3> QED BY <1>0, <2>1, <2>2, <2>6, <3>2, BoundFileOn
  <2> QED BY <1>0, <2>3, <2>4, <2>5, <2>6, <2>7 DEF IsSlot, SlotKinds
<1>8. CASE Journal!WriteReceipt
  <2>1. PICK w : w = [writer EXCEPT !.pc = "receipt"]
    OBVIOUS
  <2>2. w.pc = "receipt"
    BY <1>0, <2>1 DEF JournalWriterFields
  <2>3. PICK d, v : SameNames(d, [disk EXCEPT !["receipt"] = v]) /\ Journal!Does(d, w)
    BY <1>0, <1>8, <2>1, WritesDoes DEF Journal!WriteReceipt
  <2>4. counts.losses = 0 => Prepared(disk)
    BY <1>0, <1>8 DEF Journal!WriteReceipt, PlaceInv
  <2> QED BY <2>2, <2>3, <2>4, SlotOn
<1>9. CASE Journal!InstallHead
  <2>1. writer.pc = "head" /\ (counts.losses = 0 => Installed(disk))
    BY <1>0, <1>9 DEF Journal!InstallHead, PlaceInv
  <2>2. PICK nextHead : nextHead = [seq |-> disk.body.seq, is |-> disk.body.next]
    OBVIOUS
  <2>3. PICK clear : clear = [writer EXCEPT !.pc = "clear"]
    OBVIOUS
  <2>4. clear.pc = "clear"
    BY <1>0, <2>3 DEF JournalWriterFields
  <2>5. counts.losses = 0 =>
          /\ nextHead = Journal!HeadOf(disk.receipts)
          /\ disk.head = nextHead => disk.next = Journal!NoSlot
          /\ disk.head # nextHead => disk.head = HeadBefore(disk)
    BY <1>0, <2>1, <2>2, HeadsDiffer DEF Installed
  <2>6. CASE disk.head = nextHead
    <3>1. CASE counts.losses = 0
      <4>1. Journal!Goes(clear)
        BY <1>9, <2>2, <2>3, <2>5, <2>6, <3>1 DEF Journal!InstallHead
      <4> QED BY <2>1, <2>4, <2>5, <2>6, <3>1, <4>1, GoesOn
    <3>2. CASE counts.losses # 0
      <4>1. PICK w : Journal!Goes(w)
        BY <1>9, <2>2, <2>6 DEF Journal!InstallHead
      <4> QED BY <3>2, <4>1, GoesOn
    <3> QED BY <3>1, <3>2
  <2>7. CASE disk.head # nextHead /\ disk.next = Journal!NoSlot
    <3>1. PICK w : w = [writer EXCEPT !.pc = "head_data"]
      OBVIOUS
    <3>2. w.pc = "head_data"
      BY <1>0, <3>1 DEF JournalWriterFields
    <3>3. Journal!Begins("next", disk.body.next, w)
      BY <1>9, <2>2, <2>7, <3>1 DEF Journal!InstallHead, Journal!NoSlot
    <3> QED BY <2>1, <2>5, <2>7, <3>2, <3>3, BeginsOn
  <2>8. CASE disk.head # nextHead /\ disk.next.is = "named" /\ ~Journal!Short("next")
    <3>1. PICK d : d = [disk EXCEPT !.head = nextHead, !.next = Journal!NoSlot,
                                    !.soft = Journal!Replaced(@)]
      OBVIOUS
    <3>5. disk.next # Journal!NoSlot
      BY <2>8 DEF Journal!NoSlot
    <3>2. /\ d.head = nextHead /\ d.next = Journal!NoSlot
          /\ d.txn = disk.txn /\ d.body = disk.body /\ d.receipts = disk.receipts
          /\ d.receipt = disk.receipt
      BY <1>0, <3>1 DEF DirectoryFields
    <3>3. Journal!Does(d, clear)
      BY <1>9, <2>2, <2>3, <2>8, <3>1, <3>5 DEF Journal!InstallHead
    <3>4. counts.losses = 0 => Installed(d)
      BY <2>1, <2>5, <3>2 DEF Installed
    <3> QED BY <2>4, <2>5, <3>2, <3>3, <3>4, DoesOn DEF Consistent
  <2>9. CASE /\ disk.head # nextHead /\ disk.next # Journal!NoSlot
             /\ disk.next.is = "named" => Journal!Short("next")
    <3>2. Journal!BoundFileStep("next")
      BY <1>9, <2>2, <2>9 DEF Journal!InstallHead
    <3> QED BY <2>1, <2>5, <2>9, <3>2, BoundFileOn
  <2> QED BY <1>0, <2>6, <2>7, <2>8, <2>9 DEF IsSlot, SlotKinds
<1>10. CASE Journal!WriteHead
  <2>1. PICK w : w = [writer EXCEPT !.pc = "head"]
    OBVIOUS
  <2>2. w.pc = "head"
    BY <1>0, <2>1 DEF JournalWriterFields
  <2>3. PICK d, v : SameNames(d, [disk EXCEPT !["next"] = v]) /\ Journal!Does(d, w)
    BY <1>0, <1>10, <2>1, WritesDoes DEF Journal!WriteHead
  <2>4. counts.losses = 0 => Installed(disk) /\ disk.head = HeadBefore(disk)
    BY <1>0, <1>10 DEF Journal!WriteHead, PlaceInv
  <2> QED BY <2>2, <2>3, <2>4, SlotOn
<1>11. CASE Journal!ClearTransaction
  <2>1. counts.losses = 0 =>
          /\ Installed(disk) /\ disk.head = Journal!HeadOf(disk.receipts)
          /\ disk.next = Journal!NoSlot
    BY <1>0, <1>11 DEF Journal!ClearTransaction, PlaceInv
  <2>2. PICK w : w = [writer EXCEPT !.pc = IF writer.todo = disk.body.next THEN "return"
                                           ELSE "load"]
    OBVIOUS
  <2>3. w.pc \in {"return", "load"}
    BY <1>0, <2>2 DEF JournalWriterFields
  <2>4. PICK d : d = [disk EXCEPT !.txn = Journal!NoSlot, !.body = Journal!NoTransaction]
    OBVIOUS
  <2>5. /\ d.txn.is = "none" /\ d.receipts = disk.receipts /\ d.receipt = disk.receipt
        /\ d.next = disk.next /\ d.head = disk.head
    BY <1>0, <2>4 DEF Journal!NoSlot, DirectoryFields
  <2>6. Journal!Does(d, w)
    BY <1>11, <2>2, <2>4 DEF Journal!ClearTransaction
  <2>7. counts.losses = 0 => Settled(d)
    BY <2>1, <2>5 DEF Settled, Installed
  <2> QED BY <2>3, <2>6, <2>7, DoesOn DEF Consistent
<1>12. CASE Journal!AppendReturns
  <2>1. UNCHANGED <<disk, left, counts>>
        /\ writer' = [writer EXCEPT !.pc = "ready", !.todo = 0, !.latest = writer.todo]
    BY <1>12 DEF Journal!AppendReturns, Journal!NoChange
  <2>2. writer'.pc = "ready"
    BY <1>0, <2>1 DEF JournalWriterFields
  <2>3. PlaceInv'
    BY <2>2 DEF PlaceInv
  <2> QED BY <1>0, <2>1, <2>3, BlockKept
<1>13. CASE Journal!WriterStops \/ Journal!PowerFails
  <2>6. writer' = Journal!NoWriter /\ Journal!Stopping
    BY <1>13 DEF Journal!WriterStops, Journal!PowerFails
  <2>1. writer'.pc = "down" /\ counts'.losses = counts.losses
    BY <1>0, <2>6 DEF Journal!NoWriter, Journal!Stopping, CountFields
  <2>2. PlaceInv'
    BY <2>1 DEF PlaceInv
  <2>3. left' \subseteq left \cup {disk, disk'}
    BY <1>13
    DEF Journal!WriterStops, Journal!PowerFails, Journal!NoChange, Journal!NowDurable
  <2>4. PICK d \in left \cup {disk} : disk' = d \/ SameNames(disk', d)
    <3>1. CASE Journal!WriterStops
      BY <3>1 DEF Journal!WriterStops, Journal!NoChange
    <3>2. CASE Journal!PowerFails
      <4>1. PICK d \in left : \E t : disk' = [d EXCEPT !.soft = {}, !.torn = t]
        BY <3>2 DEF Journal!PowerFails, Journal!NowDurable
      <4>2. DOMAIN d = DirectoryFields
        BY DEF ResumeInv, Recent
      <4>3. PICK t : disk' = [d EXCEPT !.soft = {}, !.torn = t]
        BY <4>1
      <4> QED BY <4>2, <4>3, DataKeepNames
    <3> QED BY <1>13, <3>1, <3>2
  <2>5. counts.losses = 0 => Consistent(disk')
    BY <2>4, NamesDecide DEF BlockInv
  <2> QED BY <2>1, <2>2, <2>3, <2>5, BlockKept
<1>14. CASE Journal!ReceiptLost
  <2>1. counts' = [counts EXCEPT !.losses = @ + 1] /\ counts.losses \in Nat
    BY <1>14 DEF Journal!ReceiptLost, BlockInv
  <2>2. counts'.losses \in Nat /\ counts'.losses # 0
    BY <1>0, <2>1 DEF CountFields
  <2> QED BY <2>2 DEF BlockInv
<1> QED
  BY <1>1, <1>2, <1>3, <1>4, <1>5, <1>6, <1>7, <1>8, <1>9, <1>10, <1>11, <1>12, <1>13, <1>14
  DEF Journal!JournalNext

\* No crash, failed sync or power loss, however many and wherever they fall in
\* an append or in a recovery, leaves a directory that the next process
\* refuses: only a receipt that disappeared, or a receipt or head whose data
\* were published unsynced and then cut short by a power loss, blocks the
\* journal (journal.py, _recover_transaction and _validate_records_head).
THEOREM JournalRecovers == OpsSpec => []CrashesNeverBlock
<1>1. OpsInit => BlockInv
  <2> SUFFICES ASSUME Journal!JournalInit
               PROVE  BlockInv
    BY PartsStart
  <2>1. /\ disk = Journal!NewDirectory /\ left = {disk} /\ writer.pc = "down"
        /\ counts.losses = 0
    BY DEF Journal!JournalInit, Journal!NoWriter
  <2>2. Settled(disk)
    BY <2>1
    DEF Settled, Journal!NewDirectory, Journal!NoSlot, Journal!HeadOf, Journal!LastOf
  <2>3. PlaceInv
    BY <2>1 DEF PlaceInv
  <2> QED BY <2>1, <2>2, <2>3 DEF BlockInv, Consistent
<1>2. ResumeInv /\ BlockInv /\ [OpsNext]_opsVars => BlockInv'
  <2>1. ASSUME BlockInv, UNCHANGED journalVars
        PROVE  BlockInv'
    <3>1. UNCHANGED <<disk, left, writer, counts>>
      BY <2>1 DEF journalVars
    <3>2. PlaceInv => PlaceInv'
      BY <3>1 DEF PlaceInv, Prepared, Extends, JustBehind, Installed, HeadBefore
    <3> QED BY <2>1, <3>1, <3>2 DEF BlockInv
  <2> QED BY <2>1, BlockStep, PartsStep
<1>3. BlockInv => CrashesNeverBlock
  BY DEF BlockInv, PlaceInv, CrashesNeverBlock, Journal!CrashesNeverBlock
<1> QED BY <1>1, <1>2, <1>3, ResumeAlways, PTL DEF OpsSpec

-----------------------------------------------------------------------------
(***************************************************************************)
(* The MQTT publisher.  Its will speaks for a session that is lost, its    *)
(* own message for one that it ends: the broker has no session and still   *)
(* shows it online only when it was never connected in this round.         *)
(***************************************************************************)

FlagFields == {"latest", "urgent", "needs", "wake", "stop", "connected", "fresh"}
LoopFields == {"pc", "claim", "was"}
BrokerFields == {"session", "sessions", "availability", "flight", "announced"}

\* Where the thread is between two connections, in one, and at its end.
BetweenRounds == {"none", "connect", "pause", "ended"}
InRound == {"wait", "claim", "decide", "discovery", "online", "state", "finally"}
EndOfRound == {"offline", "disconnect", "abort", "join"}

\* A session of this round has been accepted.
Met ==
    \/ loop.was
    \/ loop.pc \in InRound /\ (flag.connected \/ net \in {"accepted", "setting"})

OfflineInv ==
    /\ DOMAIN flag = FlagFields /\ DOMAIN loop = LoopFields /\ DOMAIN broker = BrokerFields
    /\ flag.connected \in BOOLEAN /\ loop.was \in BOOLEAN
    /\ broker.flight \in Seq({"online", "offline"})
    /\ loop.pc \in BetweenRounds \cup InRound \cup EndOfRound
    /\ loop.pc \in BetweenRounds => net = "down"
    /\ loop.was => loop.pc \in EndOfRound
    /\ Met /\ broker.session = "none" => broker.availability = "offline"
    /\ loop.was /\ loop.pc = "disconnect" =>
          broker.availability = "offline" /\ broker.flight = << >>

\* The broker and paho's thread keep it, and so do the callers.
LEMMA OfflineOutside ==
    ASSUME OfflineInv,
           \/ Mqtt!Start \/ Mqtt!StopRequested \/ Mqtt!StopJoined \/ Mqtt!RefreshElapses
           \/ \E urgent \in BOOLEAN : Mqtt!Update(urgent)
           \/ Mqtt!Deliver \/ Mqtt!ConnectionLost \/ Mqtt!WillPublished
           \/ Mqtt!ConnackAccepted \/ Mqtt!ConnackRefused \/ Mqtt!OnConnectLocked
           \/ Mqtt!OnConnectSet \/ Mqtt!OnConnectWake \/ Mqtt!OnDisconnect \/ Mqtt!Redial
    PROVE  OfflineInv'
<1> USE DEF OfflineInv, Met, FlagFields, LoopFields, BrokerFields, BetweenRounds, InRound,
            EndOfRound
<1>1. CASE Mqtt!Start \/ Mqtt!StopJoined
  BY <1>1 DEF Mqtt!Start, Mqtt!StopJoined, Mqtt!Go
<1>2. CASE \/ Mqtt!StopRequested \/ Mqtt!RefreshElapses
           \/ \E urgent \in BOOLEAN : Mqtt!Update(urgent)
  <2>1. /\ DOMAIN flag' = FlagFields /\ flag'.connected = flag.connected
        /\ UNCHANGED <<loop, net, broker>>
    <3>1. CASE Mqtt!StopRequested \/ Mqtt!RefreshElapses
      BY <3>1 DEF Mqtt!StopRequested, Mqtt!RefreshElapses
    <3>2. CASE \E urgent \in BOOLEAN : Mqtt!Update(urgent)
      <4>1. PICK v : /\ flag' = [flag EXCEPT !.latest = TRUE, !.urgent = v, !.wake = TRUE]
                     /\ UNCHANGED <<loop, net, broker>>
        BY <3>2, Zenon DEF Mqtt!Update
      <4> QED BY <4>1
    <3> QED BY <1>2, <3>1, <3>2
  <2> QED BY <2>1
<1>3. CASE Mqtt!Deliver
  <2>1. /\ DOMAIN broker' = BrokerFields /\ broker'.session = "live"
        /\ broker'.flight = Tail(broker.flight) /\ broker.flight # << >>
    BY <1>3 DEF Mqtt!Deliver
  <2>2. Tail(broker.flight) \in Seq({"online", "offline"})
    BY <2>1
  <2> QED BY <1>3, <2>1, <2>2 DEF Mqtt!Deliver
<1>4. CASE Mqtt!ConnectionLost \/ Mqtt!WillPublished
  <2>1. /\ DOMAIN broker' = BrokerFields /\ UNCHANGED <<flag, loop, net>>
        /\ broker'.flight \in {broker.flight, << >>}
        /\ broker'.session = "none" => broker'.availability = "offline"
        /\ broker.availability = "offline" => broker'.availability = "offline"
    BY <1>4 DEF Mqtt!ConnectionLost, Mqtt!WillPublished
  <2>2. << >> \in Seq({"online", "offline"})
    OBVIOUS
  <2> QED BY <2>1, <2>2
<1>5. CASE Mqtt!ConnackAccepted
  <2>1. /\ DOMAIN broker' = BrokerFields /\ broker'.session = "live"
        /\ broker'.flight = broker.flight
        /\ broker.availability = "offline" => broker'.availability = "offline"
    BY <1>5 DEF Mqtt!ConnackAccepted
  <2> QED BY <1>5, <2>1 DEF Mqtt!ConnackAccepted
<1>6. CASE Mqtt!ConnackRefused \/ Mqtt!OnConnectLocked \/ Mqtt!OnConnectSet
  BY <1>6 DEF Mqtt!ConnackRefused, Mqtt!OnConnectLocked, Mqtt!OnConnectSet
<1>7. CASE Mqtt!OnConnectWake \/ Mqtt!OnDisconnect \/ Mqtt!Redial
  BY <1>7 DEF Mqtt!OnConnectWake, Mqtt!OnDisconnect, Mqtt!Redial
<1> QED BY <1>1, <1>2, <1>3, <1>4, <1>5, <1>6, <1>7

\* What becomes of the broker when a message is sent.
LEMMA MessagesKeep ==
    ASSUME OfflineInv, NEW messages \in Seq({"online", "offline"}),
           Mqtt!Confirmed(messages) \/ Mqtt!Unconfirmed(messages)
    PROVE  /\ DOMAIN broker' = BrokerFields /\ broker'.session = broker.session
           /\ broker'.flight \in Seq({"online", "offline"})
           /\ broker.session # "live" => broker' = broker
           /\ Mqtt!Confirmed(messages) =>
                 /\ broker'.flight = << >>
                 /\ messages = <<"offline">> => broker'.availability = "offline"
<1>0. DOMAIN broker = BrokerFields /\ broker.flight \in Seq({"online", "offline"})
  BY DEF OfflineInv
<1>1. PICK f : f = broker.flight \o messages
  OBVIOUS
<1>2. f \in Seq({"online", "offline"})
  BY <1>0, <1>1
<1>3. PICK b : b = [broker EXCEPT !.flight = f]
  OBVIOUS
<1>4. DOMAIN b = BrokerFields /\ b.session = broker.session /\ b.flight = f
  BY <1>0, <1>3 DEF BrokerFields
<1>5. CASE Mqtt!Confirmed(messages)
  <2>1. broker' = Mqtt!Delivered(b) /\ broker.session = "live"
    BY <1>1, <1>3, <1>5 DEF Mqtt!Confirmed
  <2>2. /\ DOMAIN broker' = BrokerFields /\ broker'.session = b.session
        /\ broker'.flight = << >>
        /\ f # << >> => broker'.availability = f[Len(f)]
    BY <1>4, <2>1 DEF Mqtt!Delivered, Mqtt!Last, BrokerFields
  <2>3. messages = <<"offline">> => f # << >> /\ f[Len(f)] = "offline"
    BY <1>0, <1>1
  <2> QED BY <1>4, <2>1, <2>2, <2>3
<1>6. CASE Mqtt!Unconfirmed(messages) /\ ~Mqtt!Confirmed(messages)
  BY <1>0, <1>1, <1>2, <1>3, <1>4, <1>6 DEF Mqtt!Unconfirmed
<1> QED BY <1>5, <1>6

\* The publisher's thread keeps it up to the end of a round.
LEMMA OfflineRound ==
    ASSUME OfflineInv,
           \/ Mqtt!ConnectClient \/ Mqtt!Woken \/ Mqtt!Claim \/ Mqtt!Decide
           \/ Mqtt!PublishDiscovery \/ Mqtt!PublishOnline \/ Mqtt!PublishSnapshot
           \/ Mqtt!Finally \/ Mqtt!LoopStopped \/ Mqtt!Pause
    PROVE  OfflineInv'
<1> USE DEF OfflineInv, Met, FlagFields, LoopFields, BrokerFields, BetweenRounds, InRound,
            EndOfRound
<1>1. CASE Mqtt!ConnectClient
  BY <1>1 DEF Mqtt!ConnectClient, Mqtt!Again, Mqtt!Go
<1>2. CASE Mqtt!Woken \/ Mqtt!Claim
  BY <1>2 DEF Mqtt!Woken, Mqtt!Claim, Mqtt!Go
<1>3. CASE Mqtt!Decide
  BY <1>3 DEF Mqtt!Decide, Mqtt!Again, Mqtt!Go
<1>4. CASE Mqtt!Finally
  BY <1>4 DEF Mqtt!Finally
<1>5. CASE Mqtt!LoopStopped \/ Mqtt!Pause
  BY <1>5 DEF Mqtt!LoopStopped, Mqtt!Pause, Mqtt!Go
<1>6. ASSUME NEW messages \in Seq({"online", "offline"}),
             Mqtt!Confirmed(messages) \/ Mqtt!Unconfirmed(messages),
             DOMAIN loop' = LoopFields, loop.pc \in InRound, loop'.pc \in InRound,
             DOMAIN flag' = FlagFields, flag'.connected = flag.connected, UNCHANGED net,
             loop'.was = loop.was
      PROVE  OfflineInv'
  BY <1>6, MessagesKeep
<1>7. CASE Mqtt!PublishDiscovery \/ Mqtt!PublishOnline
  <2>1. << >> \in Seq({"online", "offline"}) /\ <<"online">> \in Seq({"online", "offline"})
    OBVIOUS
  <2>2. PICK messages \in {<< >>, <<"online">>}, next \in {"online", "state"} :
          /\ loop.pc \in {"discovery", "online"} /\ UNCHANGED net
          /\ \/ Mqtt!Confirmed(messages) /\ Mqtt!Go(next) /\ UNCHANGED flag
             \/ Mqtt!Unconfirmed(messages) /\ Mqtt!PublishRaised
    BY <1>7 DEF Mqtt!PublishDiscovery, Mqtt!PublishOnline, Mqtt!Published
  <2>3. /\ DOMAIN loop' = LoopFields /\ loop'.pc \in {"online", "state", "finally"}
        /\ loop'.was = loop.was
        /\ DOMAIN flag' = FlagFields /\ flag'.connected = flag.connected
    BY <2>2 DEF Mqtt!PublishRaised, Mqtt!Go
  <2>4. messages \in Seq({"online", "offline"})
    BY <2>1
  <2> QED BY <1>6, <2>2, <2>3, <2>4
<1>8. CASE Mqtt!PublishSnapshot
  <2>1. << >> \in Seq({"online", "offline"})
    OBVIOUS
  <2>2. /\ loop.pc = "state" /\ UNCHANGED net
        /\ Mqtt!Confirmed(<< >>) \/ Mqtt!Unconfirmed(<< >>)
    BY <1>8 DEF Mqtt!PublishSnapshot
  <2>3. /\ DOMAIN loop' = LoopFields /\ loop'.pc \in {"wait", "finally"}
        /\ loop'.was = loop.was
        /\ DOMAIN flag' = FlagFields /\ flag'.connected = flag.connected
    BY <1>8 DEF Mqtt!PublishSnapshot, Mqtt!PublishRaised, Mqtt!Again, Mqtt!Go
  <2> QED BY <1>6, <2>1, <2>2, <2>3
<1> QED BY <1>1, <1>2, <1>3, <1>4, <1>5, <1>7, <1>8

\* How it ends a session.
LEMMA OfflineEnd ==
    ASSUME OfflineInv, Mqtt!PublishOffline \/ Mqtt!Disconnect \/ Mqtt!AbortConnection
    PROVE  OfflineInv'
<1> USE DEF OfflineInv, Met, FlagFields, LoopFields, BrokerFields, BetweenRounds, InRound,
            EndOfRound
<1>1. CASE Mqtt!PublishOffline
  <2>1. <<"offline">> \in Seq({"online", "offline"})
    OBVIOUS
  <2>2. \/ Mqtt!Confirmed(<<"offline">>) /\ Mqtt!Go("disconnect")
        \/ Mqtt!Unconfirmed(<<"offline">>) /\ Mqtt!Go("abort")
    BY <1>1 DEF Mqtt!PublishOffline, Mqtt!OfflineUnconfirmed
  <2>3. UNCHANGED <<flag, net>> /\ loop.pc = "offline"
    BY <1>1 DEF Mqtt!PublishOffline
  <2> QED BY <2>1, <2>2, <2>3, MessagesKeep DEF Mqtt!Go
<1>2. CASE Mqtt!Disconnect
  <2>1. CASE broker' = [Mqtt!Delivered(broker) EXCEPT !.session = "none"] /\ Mqtt!Go("join")
    <3>1. PICK b : b = Mqtt!Delivered(broker)
      OBVIOUS
    <3>2. /\ DOMAIN b = BrokerFields /\ b.flight = << >>
          /\ broker.flight = << >> => b.availability = broker.availability
      BY <3>1 DEF Mqtt!Delivered
    <3>3. /\ DOMAIN broker' = BrokerFields /\ broker'.flight = << >>
          /\ broker'.availability = b.availability
      BY <2>1, <3>1, <3>2
    <3>4. << >> \in Seq({"online", "offline"})
      OBVIOUS
    <3>5. /\ DOMAIN loop' = LoopFields /\ loop'.pc = "join" /\ loop'.was = loop.was
          /\ UNCHANGED flag /\ loop.pc = "disconnect"
      BY <1>2, <2>1 DEF Mqtt!Disconnect, Mqtt!Go
    <3> QED BY <3>2, <3>3, <3>4, <3>5
  <2>2. CASE UNCHANGED broker /\ Mqtt!Go("abort")
    BY <1>2, <2>2 DEF Mqtt!Disconnect, Mqtt!Go
  <2> QED BY <1>2, <2>1, <2>2 DEF Mqtt!Disconnect
<1>3. CASE Mqtt!AbortConnection
  BY <1>3 DEF Mqtt!AbortConnection, Mqtt!Go
<1> QED BY <1>1, <1>2, <1>3

\* A publisher that ended while connected is shown offline as soon as the
\* broker holds no session of it, for any number of sessions, losses and
\* reconnections by paho's own thread (mqtt_inventory.py, the finally block of
\* _connect_and_run).
THEOREM EndedIsOffline == OpsSpec => []GoneIsOffline
<1>1. OpsInit => OfflineInv
  <2> SUFFICES ASSUME Mqtt!PubInit
               PROVE  OfflineInv
    BY PartsStart
  <2> QED BY DEF Mqtt!PubInit, OfflineInv, Met, FlagFields, LoopFields, BrokerFields,
                 BetweenRounds, InRound, EndOfRound
<1>2. OfflineInv /\ [OpsNext]_opsVars => OfflineInv'
  <2>1. ASSUME OfflineInv, UNCHANGED pubVars
        PROVE  OfflineInv'
    BY <2>1 DEF pubVars, OfflineInv, Met
  <2>2. ASSUME OfflineInv, Mqtt!PubNext
        PROVE  OfflineInv'
    BY <2>2, OfflineOutside, OfflineRound, OfflineEnd DEF Mqtt!PubNext
  <2> QED BY <2>1, <2>2, PartsStep
<1>3. OfflineInv => GoneIsOffline
  BY DEF OfflineInv, Met, GoneIsOffline, Mqtt!GoneIsOffline
<1> QED BY <1>1, <1>2, <1>3, PTL DEF OpsSpec

-----------------------------------------------------------------------------
(***************************************************************************)
(* The repair reporter.  What a run that holds the lock carries accounts   *)
(* for everything the state file lists and for every verdict it knows:     *)
(* reported, pushed out, queued, or about to be delivered.                 *)
(***************************************************************************)

\* What a run has after the lock; before it, what it read may be stale.
Locked == {"recover", "recovered", "save_flush", "candidates", "deliver"}

\* The verdicts that must be accounted for; a deletion an older version began is
\* one the file has held from the start.
Reportable == {"eligible", "missing", "blocked", "blocked_recovery", "deleting"}
Reports == RepairCandidates \X Reportable
Results == [RepairCandidates -> [status : Reportable \cup {"none", "below_threshold"},
                                 count : Nat]]

RunRecords ==
    [pc : {"idle", "constructed"} \cup Locked, results : Results,
     pending : Seq(Reports), todo : SUBSET RepairCandidates,
     report : Reports \cup {<< >>}, next : {"candidates", "recovered"}]

RepairTypes ==
    /\ evidence \in [RepairCandidates -> [count : Nat, file : {"present", "missing", "unsafe"}]]
    /\ repairFile \in [results : Results, pending : Seq(Reports)]
    /\ runs \in [RepairRuns -> RunRecords]

\* Reports that are in the log, were pushed out, or are in a queue.
Accounted(queue) == {entry.report : entry \in log} \cup dropped \cup Repair!ToSet(queue)

\* Only a run that reports retired deletions owes any.
OwesNothing(own) ==
    own.pc \in {"idle", "constructed", "recover", "save_flush", "candidates"} =>
        own.next = "candidates"

\* A run may save its results in place of the file's.
Covers(own) ==
    /\ Repair!ToSet(repairFile.pending) \subseteq Accounted(own.pending)
    /\ own.pc = "deliver" => own.report \in Reports
    /\ \A c \in RepairCandidates : own.results[c].status \in Reportable =>
          \/ own.results[c].status = repairFile.results[c].status
          \/ <<c, own.results[c].status>> \in Accounted(own.pending)
          \/ own.pc = "deliver" /\ own.report = <<c, own.results[c].status>>

RepairInv ==
    /\ RepairTypes
    /\ \A r \in RepairRuns : OwesNothing(runs[r])
    /\ \A r \in RepairRuns : runs[r].pc \in Locked => lock = r /\ Covers(runs[r])

\* The two halves of ReportKept: what the file knows, and what a run owes.
FileKept ==
    /\ \A c \in RepairCandidates :
          repairFile'.results[c].status \notin {"none", "below_threshold"} =>
             \/ repairFile'.results[c].status = repairFile.results[c].status
             \/ <<c, repairFile'.results[c].status>> \in Accounted(repairFile.pending)'
             \/ /\ repairFile'.results[c].status = "blocked_recovery"
                /\ \E r \in RepairRuns : <<c, "blocked_recovery">> \in Repair!Owed(runs'[r])
    /\ Repair!ToSet(repairFile.pending) \subseteq Accounted(repairFile.pending)'

OwedKept ==
    \A r \in RepairRuns : runs'[r].pc # "idle" =>
       Repair!Owed(runs[r]) \subseteq Accounted(repairFile.pending)' \cup Repair!Owed(runs'[r])

\* Together they are ReportKept.
LEMMA TwoHalves ==
    ASSUME FileKept, OwedKept
    PROVE  Repair!ReportKept
BY DEF FileKept, OwedKept, Repair!ReportKept, Accounted

\* A step of one run keeps what the others owe.
LEMMA OwedStep ==
    ASSUME RepairInv, NEW r \in RepairRuns, NEW x, runs' = [runs EXCEPT ![r] = x],
           x.pc # "idle" =>
              Repair!Owed(runs[r]) \subseteq Accounted(repairFile.pending)' \cup Repair!Owed(x)
    PROVE  OwedKept
<1>1. \A q \in RepairRuns : runs'[q] = IF q = r THEN x ELSE runs[q]
  BY DEF RepairInv, RepairTypes
<1> QED BY <1>1 DEF OwedKept

\* A report that is logged is in the log.
LEMMA LoggedIsThere ==
    ASSUME NEW news, Repair!Logged(news) \in log'
    PROVE  news \in {entry.report : entry \in log'}
<1>1. Repair!Logged(news).report = news
  BY DEF Repair!Logged
<1> QED BY <1>1

\* In these stages nothing is owed.
LEMMA NothingOwed ==
    ASSUME RepairInv, NEW r \in RepairRuns,
           runs[r].pc \in {"idle", "constructed", "recover", "save_flush", "candidates"}
    PROVE  Repair!Owed(runs[r]) = {}
BY DEF RepairInv, OwesNothing, Repair!Owed

\* Cutting a queue, or adding to one, loses nothing.
LEMMA QueueCut ==
    ASSUME NEW S, NEW s \in Seq(S), NEW n \in Nat, n <= Len(s)
    PROVE  /\ SubSeq(s, n + 1, Len(s)) \in Seq(S)
           /\ Repair!ToSet(s) \subseteq
                 {s[i] : i \in 1 .. n} \cup Repair!ToSet(SubSeq(s, n + 1, Len(s)))
<1>1. PICK q : q = SubSeq(s, n + 1, Len(s))
  OBVIOUS
<1>2. n + 1 \in Int /\ Len(s) \in Nat /\ \A i \in n + 1 .. Len(s) : s[i] \in S
  OBVIOUS
<1>3. /\ q \in Seq(S)
      /\ Len(q) = IF n + 1 <= Len(s) THEN Len(s) - (n + 1) + 1 ELSE 0
      /\ \A i \in 1 .. Len(s) - (n + 1) + 1 : q[i] = s[n + 1 + i - 1]
  BY <1>1, <1>2, SubSeqProperties
<1>4. ASSUME NEW i \in DOMAIN s, i \notin 1 .. n
      PROVE  s[i] \in Repair!ToSet(q)
  <2>1. i \in Nat /\ i >= n + 1 /\ i <= Len(s)
    BY <1>4
  <2>2. PICK k \in Nat : k = i - n
    <3>1. i - n \in Nat
      BY <2>1
    <3> QED BY <3>1
  <2>3. k \in 1 .. Len(s) - (n + 1) + 1 /\ n + 1 + k - 1 = i
    BY <1>2, <2>1, <2>2
  <2>4. q[k] = s[i]
    BY <1>3, <2>3
  <2>5. Len(q) = Len(s) - n
    BY <1>2, <1>3, <2>1
  <2>6. k \in DOMAIN q
    BY <1>3, <2>1, <2>2, <2>5
  <2> QED BY <2>4, <2>6 DEF Repair!ToSet
<1> QED BY <1>1, <1>3, <1>4 DEF Repair!ToSet

LEMMA QueueAdded ==
    ASSUME NEW S, NEW s \in Seq(S), NEW e \in S
    PROVE  Append(s, e) \in Seq(S)
           /\ Repair!ToSet(s) \cup {e} \subseteq Repair!ToSet(Append(s, e))
<1>1. PICK q : q = Append(s, e)
  OBVIOUS
<1>2. /\ q \in Seq(S) /\ Len(q) = Len(s) + 1 /\ q[Len(s) + 1] = e /\ Len(s) \in Nat
      /\ \A i \in 1 .. Len(s) : q[i] = s[i]
  BY <1>1, AppendProperties
<1>3. /\ Len(s) + 1 \in DOMAIN q /\ \A i \in DOMAIN s : i \in DOMAIN q /\ q[i] = s[i]
  BY <1>2
<1> QED BY <1>1, <1>2, <1>3 DEF Repair!ToSet

LEMMA QueueShifted ==
    ASSUME NEW S, NEW s \in Seq(S), s # << >>
    PROVE  /\ Tail(s) \in Seq(S)
           /\ Repair!ToSet(s) \subseteq Repair!ToSet(Tail(s)) \cup {Head(s)}
<1>1. PICK q : q = Tail(s)
  OBVIOUS
<1>2. /\ q \in Seq(S) /\ Len(q) = Len(s) - 1 /\ Head(s) = s[1] /\ Len(s) \in Nat
      /\ \A i \in 1 .. Len(s) - 1 : q[i] = s[i + 1]
  BY <1>1
<1>3. ASSUME NEW i \in DOMAIN s, i # 1
      PROVE  s[i] \in Repair!ToSet(q)
  <2>1. i - 1 \in 1 .. Len(s) - 1 /\ i - 1 + 1 = i /\ i - 1 \in DOMAIN q
    BY <1>2, <1>3
  <2>2. q[i - 1] = s[i]
    BY <1>2, <2>1
  <2> QED BY <2>1, <2>2 DEF Repair!ToSet
<1> QED BY <1>1, <1>2, <1>3 DEF Repair!ToSet

\* A step of one run.  Another run that holds the lock sees nothing of it.
LEMMA RunStep ==
    ASSUME RepairInv, NEW r \in RepairRuns, NEW x \in RunRecords,
           runs' = [runs EXCEPT ![r] = x], UNCHANGED evidence,
           repairFile' \in [results : Results, pending : Seq(Reports)],
           OwesNothing(x), x.pc \in Locked => lock' = r /\ Covers(x)',
           \/ lock = r \/ lock = Repair!NoRun
           \/ UNCHANGED <<repairFile, log, dropped, lock>>
    PROVE  RepairInv'
<1>1. RepairTypes'
  BY DEF RepairInv, RepairTypes
<1>2. ASSUME NEW q \in RepairRuns, runs'[q].pc \in Locked
      PROVE  lock' = q /\ Covers(runs[q])'
  <2>1. CASE q = r
    <3>1. runs'[q] = x
      BY <2>1 DEF RepairInv, RepairTypes
    <3>2. lock' = q /\ Covers(x)'
      BY <1>2, <2>1, <3>1
    <3> QED BY <3>1, <3>2 DEF Covers, Accounted
  <2>2. CASE q # r
    <3>1. runs'[q] = runs[q]
      BY <2>2 DEF RepairInv, RepairTypes
    <3>2. lock = q /\ Covers(runs[q])
      BY <1>2, <3>1 DEF RepairInv
    <3>3. UNCHANGED <<repairFile, log, dropped, lock>>
      BY <2>2, <3>2, RepairAssumption DEF Repair!NoRun
    <3> QED BY <3>1, <3>2, <3>3 DEF Covers, Accounted
  <2> QED BY <2>1, <2>2
<1>3. ASSUME NEW q \in RepairRuns
      PROVE  OwesNothing(runs[q])'
  <2>1. runs'[q] = IF q = r THEN x ELSE runs[q]
    BY DEF RepairInv, RepairTypes
  <2> QED BY <2>1 DEF RepairInv, OwesNothing
<1> QED BY <1>1, <1>2, <1>3 DEF RepairInv

\* A step that leaves the state file alone keeps its reports.
LEMMA UnsavedKept ==
    ASSUME UNCHANGED repairFile
    PROVE  FileKept
BY DEF FileKept, Accounted

\* A run that holds the lock saves what it knows.
LEMMA SavedKept ==
    ASSUME RepairInv, NEW own \in RunRecords, Covers(own), NEW x \in RunRecords,
           x.results = own.results, x.pc # "deliver",
           repairFile' = [results |-> x.results, pending |-> x.pending],
           log \subseteq log', dropped \subseteq dropped',
           Repair!ToSet(own.pending) \subseteq Accounted(x.pending)',
           own.pc = "deliver" => own.report \in Accounted(x.pending)'
    PROVE  /\ FileKept /\ Covers(x)'
           /\ repairFile' \in [results : Results, pending : Seq(Reports)]
<1>1. /\ x.results \in Results /\ x.pending \in Seq(Reports)
      /\ repairFile'.results = x.results /\ repairFile'.pending = x.pending
  BY DEF RunRecords
<1>2. PICK acc : acc = Accounted(x.pending)'
  OBVIOUS
<1>3. /\ acc = {entry.report : entry \in log'} \cup dropped'
                 \cup Repair!ToSet(repairFile'.pending)
      /\ acc = Accounted(repairFile.pending)'
  BY <1>1, <1>2 DEF Accounted
<1>4. Accounted(own.pending) \subseteq acc
  BY <1>2, <1>3 DEF Accounted
<1>5. ASSUME NEW c \in RepairCandidates, own.results[c].status \in Reportable
      PROVE  \/ own.results[c].status = repairFile.results[c].status
             \/ <<c, own.results[c].status>> \in acc
  BY <1>2, <1>4, <1>5 DEF Covers
<1>6. \A c \in RepairCandidates :
        own.results[c].status \in Reportable \cup {"none", "below_threshold"}
  BY DEF RunRecords, Results
<1>7. Repair!ToSet(repairFile.pending) \subseteq acc
  BY <1>4 DEF Covers
<1>8. FileKept
  BY <1>1, <1>3, <1>5, <1>6, <1>7 DEF FileKept
<1>9. Covers(x)'
  BY <1>1 DEF Covers, Accounted
<1> QED BY <1>1, <1>8, <1>9

\* Every step of the repair timer and of the monitor it reads.
LEMMA RepairStep ==
    ASSUME RepairInv, Repair!RepairNext
    PROVE  RepairInv' /\ Repair!ReportKept
<1>0. /\ RepairTypes /\ Repair!ToSet(<< >>) = {}
      /\ repairFile.results \in Results /\ repairFile.pending \in Seq(Reports)
  BY DEF RepairInv, RepairTypes, Repair!ToSet
<1>1. ASSUME NEW c \in RepairCandidates, Repair!EvidenceChanges(c)
      PROVE  RepairInv' /\ Repair!ReportKept
  <2>1. PICK f \in {"present", "missing", "unsafe"} :
          evidence' = [evidence EXCEPT ![c] = [count |-> @.count + 1, file |-> f]]
    BY <1>1 DEF Repair!EvidenceChanges
  <2>2. UNCHANGED <<repairFile, runs, lock, log, dropped>>
    BY <1>1 DEF Repair!EvidenceChanges
  <2>3. evidence' \in [RepairCandidates -> [count : Nat, file : {"present", "missing", "unsafe"}]]
    BY <1>0, <2>1 DEF RepairTypes
  <2>4. RepairTypes'
    BY <1>0, <2>2, <2>3 DEF RepairTypes
  <2>5. ASSUME NEW q \in RepairRuns, runs'[q].pc \in Locked
        PROVE  lock' = q /\ Covers(runs[q])'
    BY <2>2, <2>5 DEF RepairInv, Covers, Accounted
  <2>6. OwedKept /\ \A q \in RepairRuns : OwesNothing(runs[q])'
    BY <2>2 DEF RepairInv, OwedKept, OwesNothing
  <2> QED BY <2>2, <2>4, <2>5, <2>6, UnsavedKept, TwoHalves DEF RepairInv
<1>2. ASSUME NEW r \in RepairRuns
      PROVE  /\ runs[r] \in RunRecords
             /\ runs[r].pc \in Locked => lock = r /\ Covers(runs[r])
             /\ OwesNothing(runs[r])
  BY <1>0 DEF RepairInv, RepairTypes
<1>3. /\ Repair!Idle \in RunRecords /\ Repair!Idle.pc = "idle" /\ OwesNothing(Repair!Idle)
  <2>1. Repair!Idle.results \in Results /\ << >> \in Seq(Reports)
    BY DEF Repair!Idle, Repair!NoResult, Results
  <2> QED BY <2>1 DEF Repair!Idle, RunRecords, OwesNothing
<1>4. ASSUME NEW r \in RepairRuns, Repair!Construct(r) \/ Repair!RunLocked(r)
      PROVE  RepairInv' /\ Repair!ReportKept
  <2>1. PICK x : /\ runs' = [runs EXCEPT ![r] = x]
                 /\ \/ /\ x = [Repair!LoadRepairState(r) EXCEPT !.pc = "constructed"]
                       /\ UNCHANGED lock
                    \/ /\ x = [Repair!LoadRepairState(r) EXCEPT !.pc = "recover"]
                       /\ lock = Repair!NoRun /\ lock' = r
    BY <1>4 DEF Repair!Construct, Repair!RunLocked
  <2>2. /\ UNCHANGED <<evidence, repairFile, log, dropped>>
        /\ runs[r].pc \in {"idle", "constructed"}
    BY <1>4 DEF Repair!Construct, Repair!RunLocked
  <2>3. PICK y : y = Repair!LoadRepairState(r)
    OBVIOUS
  <2>4. /\ y \in RunRecords /\ y.results = repairFile.results
        /\ y.pending = repairFile.pending /\ y.next = "candidates"
    BY <1>0, <1>2, <2>2, <2>3 DEF Repair!LoadRepairState, RunRecords, OwesNothing
  <2>5. /\ x \in RunRecords /\ x.results = repairFile.results /\ x.next = "candidates"
        /\ x.pending = repairFile.pending /\ x.pc \in {"constructed", "recover"}
        /\ x.pc = "recover" => lock = Repair!NoRun /\ lock' = r
        /\ x.pc = "constructed" => UNCHANGED lock
    BY <2>1, <2>3, <2>4 DEF RunRecords, Locked
  <2>6. Covers(x)'
    BY <2>2, <2>5 DEF Covers, Accounted
  <2>7. RepairInv'
    BY <1>0, <2>1, <2>2, <2>5, <2>6, RunStep DEF RepairTypes, Locked, OwesNothing
  <2>8. OwedKept
    BY <2>1, <2>2, NothingOwed, OwedStep
  <2> QED BY <2>2, <2>7, <2>8, UnsavedKept, TwoHalves
<1>12. ASSUME NEW r \in RepairRuns, Repair!RecoverDeleteIntents(r)
       PROVE  RepairInv' /\ Repair!ReportKept
  <2>1. PICK intents : intents = {c \in RepairCandidates :
                                    runs[r].results[c].status = "deleting"}
    OBVIOUS
  <2>2. PICK retired : retired = [c \in RepairCandidates |->
          IF c \in intents THEN [runs[r].results[c] EXCEPT !.status = "blocked_recovery"]
          ELSE runs[r].results[c]]
    OBVIOUS
  <2>3. PICK x : /\ runs' = [runs EXCEPT ![r] = x]
                 /\ x = [runs[r] EXCEPT !.pc = "recovered", !.results = retired,
                                        !.todo = intents, !.next = "recovered"]
                 /\ IF intents = {} THEN UNCHANGED repairFile
                    ELSE repairFile' = [results |-> x.results, pending |-> x.pending]
    BY <1>12, <2>1, <2>2 DEF Repair!RecoverDeleteIntents, Repair!SaveRepairState
  <2>4. UNCHANGED <<evidence, lock, log, dropped>> /\ runs[r].pc = "recover"
    BY <1>12 DEF Repair!RecoverDeleteIntents
  <2>5. PICK own \in RunRecords : own = runs[r] /\ lock = r /\ Covers(own)
    BY <1>2, <2>4 DEF Locked
  <2>6. own.results \in Results /\ own.pending \in Seq(Reports)
    BY DEF RunRecords
  <2>7. /\ retired \in Results
        /\ \A c \in RepairCandidates :
              /\ c \in intents => retired[c].status = "blocked_recovery"
              /\ c \notin intents => retired[c] = own.results[c]
    <3>1. \A c \in RepairCandidates :
            own.results[c] \in [status : Reportable \cup {"none", "below_threshold"},
                                count : Nat]
      BY <2>6 DEF Results
    <3>2. ASSUME NEW c \in RepairCandidates
          PROVE  /\ retired[c] \in [status : Reportable \cup {"none", "below_threshold"},
                                     count : Nat]
                 /\ c \in intents => retired[c].status = "blocked_recovery"
                 /\ c \notin intents => retired[c] = own.results[c]
      BY <2>2, <2>5, <3>1 DEF Reportable
    <3> QED BY <2>2, <3>2 DEF Results
  <2>8. /\ x \in RunRecords /\ x.pc = "recovered" /\ x.results = retired
        /\ x.pending = own.pending /\ x.todo = intents /\ x.next = "recovered"
    BY <2>1, <2>3, <2>5, <2>7 DEF RunRecords, Locked
  <2>9. intents = {} => retired = own.results
    BY <2>2, <2>5, <2>6, <2>7 DEF Results
  <2>10. /\ repairFile' \in [results : Results, pending : Seq(Reports)]
         /\ Accounted(own.pending) = Accounted(x.pending)'
    BY <1>0, <2>3, <2>4, <2>6, <2>7, <2>8 DEF RepairTypes, Accounted
  <2>11. Covers(x)'
    <3>1. CASE intents = {}
      BY <2>3, <2>4, <2>5, <2>8, <2>9, <2>10, <3>1 DEF Covers
    <3>2. CASE intents # {}
      BY <2>3, <2>8, <3>2 DEF Covers, Accounted
    <3> QED BY <3>1, <3>2
  <2>12. RepairInv'
    BY <2>3, <2>4, <2>5, <2>8, <2>10, <2>11, RunStep DEF OwesNothing
  <2>13. OwedKept
    BY <2>3, <2>4, NothingOwed, OwedStep
  <2>14. FileKept
    <3>1. CASE intents = {}
      BY <2>3, <3>1, UnsavedKept
    <3>2. CASE intents # {}
      <4>1. /\ repairFile'.results = retired /\ repairFile'.pending = own.pending
            /\ runs'[r] = x
        BY <1>0, <2>3, <2>8, <3>2 DEF RepairTypes
      <4>2. Accounted(repairFile.pending)' = Accounted(own.pending)
        BY <2>10, <2>8, <4>1 DEF Accounted
      <4>3. ASSUME NEW c \in RepairCandidates, c \in intents
            PROVE  /\ repairFile'.results[c].status = "blocked_recovery"
                   /\ <<c, "blocked_recovery">> \in Repair!Owed(runs'[r])
        BY <2>7, <2>8, <4>1, <4>3 DEF Repair!Owed
      <4>4. ASSUME NEW c \in RepairCandidates, c \notin intents,
                   retired[c].status \notin {"none", "below_threshold"}
            PROVE  \/ retired[c].status = repairFile.results[c].status
                   \/ <<c, retired[c].status>> \in Accounted(own.pending)
        <5>1. own.results[c].status \in Reportable
          BY <2>6, <2>7, <4>4 DEF Results
        <5>2. own.pc # "deliver"
          BY <2>4, <2>5
        <5> QED BY <2>5, <2>7, <4>4, <5>1, <5>2 DEF Covers
      <4>5. Repair!ToSet(repairFile.pending) \subseteq Accounted(own.pending)
        BY <2>5 DEF Covers
      <4> QED BY <4>1, <4>2, <4>3, <4>4, <4>5 DEF FileKept
    <3> QED BY <3>1, <3>2
  <2> QED BY <2>12, <2>13, <2>14, TwoHalves
<1>13. ASSUME NEW r \in RepairRuns, NEW c \in RepairCandidates, Repair!ReportRecovery(r, c)
       PROVE  RepairInv' /\ Repair!ReportKept
  <2>1. PICK x : /\ runs' = [runs EXCEPT ![r] = x]
                 /\ x = [runs[r] EXCEPT !.pc = "deliver", !.todo = runs[r].todo \ {c},
                                        !.report = <<c, "blocked_recovery">>]
    BY <1>13 DEF Repair!ReportRecovery
  <2>2. /\ UNCHANGED <<evidence, repairFile, lock, log, dropped>>
        /\ runs[r].pc = "recovered"
    BY <1>13 DEF Repair!ReportRecovery
  <2>3. PICK own \in RunRecords : own = runs[r] /\ lock = r /\ Covers(own)
    BY <1>2, <2>2 DEF Locked
  <2>4. <<c, "blocked_recovery">> \in Reports
    BY DEF Reports, Reportable
  <2>5. /\ x \in RunRecords /\ x.pc = "deliver" /\ x.results = own.results
        /\ x.pending = own.pending /\ x.report = <<c, "blocked_recovery">>
        /\ x.todo = own.todo \ {c} /\ x.next = own.next
    BY <2>1, <2>3, <2>4 DEF RunRecords, Locked
  <2>6. Covers(x)'
    BY <2>2, <2>3, <2>4, <2>5 DEF Covers, Accounted
  <2>7. RepairInv'
    BY <1>0, <2>1, <2>2, <2>3, <2>5, <2>6, RunStep DEF RepairTypes, OwesNothing
  <2>8. Repair!Owed(runs[r]) \subseteq Repair!Owed(x)
    BY <2>2, <2>3, <2>5 DEF Repair!Owed
  <2>9. OwedKept
    BY <2>1, <2>8, OwedStep
  <2> QED BY <2>2, <2>7, <2>9, UnsavedKept, TwoHalves
<1>5. ASSUME NEW r \in RepairRuns, NEW n \in 0 .. MaxPending, Repair!FlushPendingEvents(r, n)
      PROVE  RepairInv' /\ Repair!ReportKept
  <2>1. PICK x : /\ runs' = [runs EXCEPT ![r] = x]
                 /\ x = [runs[r] EXCEPT !.pc = "save_flush",
                                        !.pending = SubSeq(@, n + 1, Len(@)),
                                        !.todo = {c \in RepairCandidates :
                                           runs[r].results[c].status # "blocked_recovery"},
                                        !.next = "candidates"]
    BY <1>5 DEF Repair!FlushPendingEvents
  <2>2. /\ UNCHANGED <<evidence, repairFile, lock, dropped>> /\ runs[r].pc = "recovered"
        /\ n <= Len(runs[r].pending) /\ runs[r].todo = {}
        /\ log' = log \cup {Repair!Logged(runs[r].pending[i]) : i \in 1 .. n}
    BY <1>5 DEF Repair!FlushPendingEvents
  <2>3. PICK own \in RunRecords : own = runs[r] /\ lock = r /\ Covers(own)
    BY <1>2, <2>2 DEF Locked
  <2>4. PICK ps \in Seq(Reports) : ps = own.pending
    BY DEF RunRecords
  <2>5. n \in Nat
    BY RepairAssumption
  <2>6. PICK rest : rest = SubSeq(ps, n + 1, Len(ps))
    OBVIOUS
  <2>7. /\ rest \in Seq(Reports)
        /\ Repair!ToSet(ps) \subseteq {ps[i] : i \in 1 .. n} \cup Repair!ToSet(rest)
    BY <2>2, <2>3, <2>4, <2>5, <2>6, QueueCut
  <2>8. /\ x \in RunRecords /\ x.pc = "save_flush" /\ x.pending = rest
        /\ x.results = own.results /\ x.next = "candidates"
    BY <2>1, <2>3, <2>4, <2>6, <2>7 DEF RunRecords, Locked
  <2>9. Accounted(ps) \subseteq Accounted(rest)'
    <3>1. \A i \in 1 .. n : ps[i] \in {entry.report : entry \in log'}
      BY <2>2, <2>3, <2>4, LoggedIsThere
    <3> QED BY <2>2, <2>7, <3>1 DEF Accounted
  <2>10. Covers(x)'
    <3>1. PICK acc : acc = Accounted(rest)'
      OBVIOUS
    <3>2. own.pc # "deliver" /\ x.pc # "deliver"
      BY <2>2, <2>3, <2>8
    <3>3. /\ Repair!ToSet(repairFile'.pending) \subseteq acc
          /\ \A c \in RepairCandidates : x.results[c].status \in Reportable =>
                \/ x.results[c].status = repairFile'.results[c].status
                \/ <<c, x.results[c].status>> \in acc
      BY <2>2, <2>3, <2>4, <2>8, <2>9, <3>1, <3>2 DEF Covers
    <3> QED BY <2>8, <3>1, <3>2, <3>3 DEF Covers, Accounted
  <2>11. RepairInv'
    BY <1>0, <2>1, <2>2, <2>3, <2>8, <2>10, RunStep DEF RepairTypes, OwesNothing
  <2>12. Repair!Owed(runs[r]) = {}
    BY <2>2 DEF Repair!Owed
  <2>13. OwedKept
    BY <2>1, <2>12, OwedStep
  <2> QED BY <2>2, <2>11, <2>13, UnsavedKept, TwoHalves
<1>6. ASSUME NEW r \in RepairRuns, Repair!SaveFlush(r)
      PROVE  RepairInv' /\ Repair!ReportKept
  <2>1. PICK x : runs' = [runs EXCEPT ![r] = x] /\ x = [runs[r] EXCEPT !.pc = "candidates"]
    BY <1>6 DEF Repair!SaveFlush
  <2>2. /\ UNCHANGED <<evidence, lock, log, dropped>> /\ runs[r].pc = "save_flush"
        /\ repairFile' = [results |-> runs[r].results, pending |-> runs[r].pending]
    BY <1>6 DEF Repair!SaveFlush, Repair!SaveRepairState
  <2>3. PICK own \in RunRecords : own = runs[r] /\ lock = r /\ Covers(own)
    BY <1>2, <2>2 DEF Locked
  <2>4. /\ x \in RunRecords /\ x.pc = "candidates" /\ x.results = own.results
        /\ x.pending = own.pending /\ x.next = "candidates"
    BY <1>2, <2>1, <2>2, <2>3 DEF RunRecords, Locked, OwesNothing
  <2>5. Repair!ToSet(own.pending) \subseteq Accounted(x.pending)'
    BY <2>4 DEF Accounted
  <2>6. /\ FileKept /\ Covers(x)'
        /\ repairFile' \in [results : Results, pending : Seq(Reports)]
    BY <2>2, <2>3, <2>4, <2>5, SavedKept
  <2>7. RepairInv'
    BY <2>1, <2>2, <2>3, <2>4, <2>6, RunStep DEF OwesNothing
  <2>8. OwedKept
    BY <2>1, <2>2, NothingOwed, OwedStep
  <2> QED BY <2>6, <2>7, <2>8, TwoHalves
<1>7. ASSUME NEW r \in RepairRuns, NEW c \in RepairCandidates, Repair!RepairCandidate(r, c)
      PROVE  RepairInv' /\ Repair!ReportKept
  <2>1. PICK v : v = Repair!Verdict(c)
    OBVIOUS
  <2> DEFINE quiet == v = runs[r].results[c] \/ v.status = "below_threshold"
  <2>2. quiet <=> (v = runs[r].results[c] \/ v.status = "below_threshold")
    OBVIOUS
  <2>3. PICK x : /\ runs' = [runs EXCEPT ![r] = x]
                 /\ x = [runs[r] EXCEPT
                           !.todo = @ \ {c}, !.results = [@ EXCEPT ![c] = v],
                           !.report = IF quiet THEN << >> ELSE <<c, v.status>>,
                           !.pc = IF quiet THEN "candidates" ELSE "deliver"]
    BY <1>7, <2>1 DEF Repair!RepairCandidate
  <2> HIDE DEF quiet
  <2>4. UNCHANGED <<evidence, repairFile, lock, log, dropped>> /\ runs[r].pc = "candidates"
    BY <1>7 DEF Repair!RepairCandidate
  <2>5. PICK own \in RunRecords : own = runs[r] /\ lock = r /\ Covers(own)
    BY <1>2, <2>4 DEF Locked
  <2>11. own.next = "candidates" /\ OwedKept
    <3>1. own.next = "candidates"
      BY <1>2, <2>4, <2>5 DEF OwesNothing
    <3> QED BY <2>3, <2>4, <3>1, NothingOwed, OwedStep
  <2>6. /\ v.status \in Reportable \cup {"below_threshold"} /\ v.count \in Nat
        /\ v \in [status : Reportable \cup {"none", "below_threshold"}, count : Nat]
    <3>1. evidence[c].count \in Nat /\ evidence[c].file \in {"present", "missing", "unsafe"}
      BY <1>0 DEF RepairTypes
    <3> QED BY <2>1, <3>1 DEF Repair!Verdict, Reportable
  <2>7. PICK rs \in Results : rs = [own.results EXCEPT ![c] = v]
    <3>1. own.results \in Results
      BY DEF RunRecords
    <3> QED BY <2>6, <3>1 DEF Results
  <2>8. rs[c] = v /\ \A d \in RepairCandidates : d # c => rs[d] = own.results[d]
    <3>1. own.results \in Results
      BY DEF RunRecords
    <3> QED BY <2>7, <3>1 DEF Results
  <2>9. CASE quiet
    <3>1. x = [own EXCEPT !.todo = @ \ {c}, !.results = rs, !.report = << >>,
                          !.pc = "candidates"]
      BY <2>3, <2>5, <2>7, <2>9
    <3>2. /\ x \in RunRecords /\ x.pc = "candidates" /\ x.results = rs
          /\ x.pending = own.pending /\ x.next = own.next
      BY <3>1 DEF RunRecords, Locked
    <3>3. ASSUME NEW d \in RepairCandidates, rs[d].status \in Reportable
          PROVE  rs[d] = own.results[d]
      BY <2>2, <2>5, <2>6, <2>8, <2>9, <3>3 DEF Reportable
    <3>4. Covers(x)'
      <4>1. own.pc # "deliver"
        BY <2>4, <2>5
      <4> QED BY <2>4, <2>5, <3>2, <3>3, <4>1 DEF Covers, Accounted
    <3>5. RepairInv'
      BY <1>0, <2>3, <2>4, <2>5, <2>11, <3>2, <3>4, RunStep DEF RepairTypes, OwesNothing
    <3> QED BY <2>4, <2>11, <3>5, UnsavedKept, TwoHalves
  <2>10. CASE ~quiet
    <3>1. x = [own EXCEPT !.todo = @ \ {c}, !.results = rs, !.report = <<c, v.status>>,
                          !.pc = "deliver"]
      BY <2>3, <2>5, <2>7, <2>10
    <3>2. <<c, v.status>> \in Reports
      BY <2>2, <2>6, <2>10 DEF Reports
    <3>3. /\ x \in RunRecords /\ x.pc = "deliver" /\ x.results = rs
          /\ x.pending = own.pending /\ x.report = <<c, v.status>>
      BY <3>1, <3>2 DEF RunRecords, Locked
    <3>4. Covers(x)'
      <4>1. own.pc # "deliver"
        BY <2>4, <2>5
      <4>2. ASSUME NEW d \in RepairCandidates, rs[d].status \in Reportable
            PROVE  \/ rs[d].status = repairFile'.results[d].status
                   \/ <<d, rs[d].status>> \in Accounted(own.pending)
                   \/ x.report = <<d, rs[d].status>>
        BY <2>4, <2>5, <2>8, <3>3, <4>1, <4>2 DEF Covers
      <4>3. Accounted(own.pending) = Accounted(x.pending)'
        BY <2>4, <3>3 DEF Accounted
      <4>4. Repair!ToSet(repairFile'.pending) \subseteq Accounted(own.pending)
        BY <2>4, <2>5 DEF Covers
      <4> QED BY <3>2, <3>3, <4>2, <4>3, <4>4 DEF Covers
    <3>5. RepairInv'
      BY <1>0, <2>3, <2>4, <2>5, <3>3, <3>4, RunStep DEF RepairTypes, OwesNothing
    <3> QED BY <2>4, <2>11, <3>5, UnsavedKept, TwoHalves
  <2> QED BY <2>9, <2>10
<1>8. ASSUME NEW r \in RepairRuns, Repair!AppendEvent(r)
      PROVE  RepairInv' /\ Repair!ReportKept
  <2>1. PICK x : /\ runs' = [runs EXCEPT ![r] = x]
                 /\ x = [runs[r] EXCEPT !.pc = runs[r].next, !.report = << >>]
    BY <1>2, <1>8 DEF Repair!AppendEvent
  <2>2. /\ UNCHANGED <<evidence, repairFile, lock, dropped>> /\ runs[r].pc = "deliver"
        /\ log' = log \cup {Repair!Logged(runs[r].report)}
    BY <1>8 DEF Repair!AppendEvent
  <2>3. PICK own \in RunRecords : own = runs[r] /\ lock = r /\ Covers(own)
    BY <1>2, <2>2 DEF Locked
  <2>4. /\ x \in RunRecords /\ x.pc \in {"candidates", "recovered"}
        /\ x.results = own.results /\ x.pending = own.pending
        /\ x.todo = own.todo /\ x.next = own.next /\ x.pc = own.next
    BY <2>1, <2>3 DEF RunRecords, Locked
  <2>5. /\ Accounted(own.pending) \subseteq Accounted(x.pending)'
        /\ own.report \in Accounted(x.pending)'
    <3>1. own.report \in {entry.report : entry \in log'}
      BY <2>2, <2>3, LoggedIsThere
    <3> QED BY <2>2, <2>3, <2>4, <3>1 DEF Accounted
  <2>6. Covers(x)'
    <3>1. PICK acc : acc = Accounted(x.pending)'
      OBVIOUS
    <3>2. /\ Repair!ToSet(repairFile'.pending) \subseteq acc
          /\ \A c \in RepairCandidates : x.results[c].status \in Reportable =>
                \/ x.results[c].status = repairFile'.results[c].status
                \/ <<c, x.results[c].status>> \in acc
      BY <2>2, <2>3, <2>4, <2>5, <3>1 DEF Covers
    <3> QED BY <2>4, <3>1, <3>2 DEF Covers, Accounted
  <2>7. RepairInv'
    BY <1>0, <2>1, <2>2, <2>3, <2>4, <2>6, RunStep DEF RepairTypes, OwesNothing
  <2>8. own.report \in Accounted(repairFile.pending)'
    BY <2>2, <2>3, LoggedIsThere DEF Accounted
  <2>9. OwedKept
    <3>1. Repair!Owed(own) \subseteq {own.report} \cup Repair!Owed(x)
      BY <2>4 DEF Repair!Owed
    <3> QED BY <2>1, <2>3, <2>8, <3>1, OwedStep
  <2> QED BY <2>2, <2>7, <2>9, UnsavedKept, TwoHalves
<1>9. ASSUME NEW r \in RepairRuns, Repair!DeferEvent(r)
      PROVE  RepairInv' /\ Repair!ReportKept
  <2>1. PICK fifo : fifo = IF Repair!Contains(runs[r].pending, runs[r].report)
                     THEN runs[r].pending ELSE Append(runs[r].pending, runs[r].report)
    OBVIOUS
  <2>2. PICK kept : kept = IF Len(fifo) > MaxPending THEN Tail(fifo) ELSE fifo
    OBVIOUS
  <2>3. PICK x : /\ runs' = [runs EXCEPT ![r] = x]
                 /\ x = [runs[r] EXCEPT !.pc = runs[r].next, !.report = << >>,
                                        !.pending = kept]
                 /\ repairFile' = [results |-> x.results, pending |-> x.pending]
    BY <1>9, <2>1, <2>2 DEF Repair!DeferEvent, Repair!SaveRepairState
  <2>4. /\ UNCHANGED <<evidence, lock, log>> /\ runs[r].pc = "deliver"
        /\ dropped' = IF Len(fifo) > MaxPending THEN dropped \cup {Head(fifo)} ELSE dropped
    BY <1>9, <2>1 DEF Repair!DeferEvent
  <2>5. PICK own \in RunRecords : own = runs[r] /\ lock = r /\ Covers(own)
    BY <1>2, <2>4 DEF Locked
  <2>6. own.report \in Reports /\ own.pending \in Seq(Reports)
    BY <2>4, <2>5 DEF Covers, RunRecords
  <2>7. /\ fifo \in Seq(Reports)
        /\ Repair!ToSet(own.pending) \cup {own.report} \subseteq Repair!ToSet(fifo)
    <3>1. CASE Repair!Contains(own.pending, own.report)
      <4>1. PICK i \in 1 .. Len(own.pending) : own.pending[i] = own.report
        BY <3>1 DEF Repair!Contains
      <4>2. i \in DOMAIN own.pending
        BY <2>6
      <4> QED BY <2>1, <2>5, <2>6, <3>1, <4>1, <4>2 DEF Repair!ToSet
    <3>2. CASE ~Repair!Contains(own.pending, own.report)
      BY <2>1, <2>5, <2>6, <3>2, QueueAdded
    <3> QED BY <3>1, <3>2
  <2>8. /\ kept \in Seq(Reports) /\ dropped \subseteq dropped'
        /\ Repair!ToSet(fifo) \subseteq Repair!ToSet(kept) \cup dropped'
    <3>1. CASE Len(fifo) > MaxPending
      <4>1. fifo # << >>
        BY <2>7, <3>1, RepairAssumption
      <4> QED BY <2>2, <2>4, <2>7, <3>1, <4>1, QueueShifted
    <3>2. CASE ~(Len(fifo) > MaxPending)
      BY <2>2, <2>4, <2>7, <3>2
    <3> QED BY <3>1, <3>2
  <2>9. /\ x \in RunRecords /\ x.pc \in {"candidates", "recovered"}
        /\ x.results = own.results /\ x.pending = kept
        /\ x.todo = own.todo /\ x.next = own.next /\ x.pc = own.next
    BY <2>3, <2>5, <2>8 DEF RunRecords, Locked
  <2>10. Repair!ToSet(own.pending) \cup {own.report} \subseteq Accounted(x.pending)'
    BY <2>7, <2>8, <2>9 DEF Accounted
  <2>11. /\ FileKept /\ Covers(x)'
         /\ repairFile' \in [results : Results, pending : Seq(Reports)]
    BY <2>3, <2>4, <2>5, <2>8, <2>9, <2>10, SavedKept
  <2>12. RepairInv'
    BY <2>3, <2>4, <2>5, <2>9, <2>11, RunStep DEF OwesNothing
  <2>13. OwedKept
    <3>1. Repair!Owed(own) \subseteq {own.report} \cup Repair!Owed(x)
      BY <2>9 DEF Repair!Owed
    <3>2. Accounted(repairFile.pending)' = Accounted(x.pending)'
      BY <2>3, <2>9 DEF Accounted
    <3> QED BY <2>3, <2>5, <2>10, <3>1, <3>2, OwedStep
  <2> QED BY <2>11, <2>12, <2>13, TwoHalves
<1>10. ASSUME NEW r \in RepairRuns, Repair!FinishRun(r)
       PROVE  RepairInv' /\ Repair!ReportKept
  <2>1. /\ runs' = [runs EXCEPT ![r] = Repair!Idle] /\ runs[r].pc = "candidates"
        /\ UNCHANGED <<evidence, log, dropped>>
        /\ repairFile' = [results |-> runs[r].results, pending |-> runs[r].pending]
    BY <1>10 DEF Repair!FinishRun, Repair!SaveRepairState
  <2>2. PICK own \in RunRecords : own = runs[r] /\ lock = r /\ Covers(own)
    BY <1>2, <2>1 DEF Locked
  <2>3. Repair!ToSet(own.pending) \subseteq Accounted(own.pending)'
    BY DEF Accounted
  <2>4. FileKept /\ repairFile' \in [results : Results, pending : Seq(Reports)]
    BY <2>1, <2>2, <2>3, SavedKept
  <2>5. RepairInv'
    BY <1>3, <2>1, <2>2, <2>4, RunStep DEF Locked
  <2>6. OwedKept
    BY <1>3, <2>1, OwedStep
  <2> QED BY <2>4, <2>5, <2>6, TwoHalves
<1>11. ASSUME NEW r \in RepairRuns, Repair!Die(r)
       PROVE  RepairInv' /\ Repair!ReportKept
  <2>1. /\ runs' = [runs EXCEPT ![r] = Repair!Idle]
        /\ UNCHANGED <<evidence, repairFile, log, dropped>>
        /\ lock = r \/ UNCHANGED lock
    BY <1>11 DEF Repair!Die
  <2>2. RepairInv'
    BY <1>0, <1>3, <2>1, RunStep DEF Locked, RepairTypes
  <2>3. OwedKept
    BY <1>3, <2>1, OwedStep
  <2> QED BY <2>1, <2>2, <2>3, UnsavedKept, TwoHalves
<1> QED
  BY <1>1, <1>4, <1>5, <1>6, <1>7, <1>8, <1>9, <1>10, <1>11, <1>12, <1>13
     DEF Repair!RepairNext

\* No report is lost, whatever run dies at whatever moment and however the
\* runs overlap, for any number of them, of candidates and of queued reports
\* (repair_subgen_failures.py, run_locked and defer_event), but for the report of
\* a retired deletion whose run dies before it delivers it (752-754).
THEOREM NoReportIsLost == OpsSpec => ReportsAreKept
<1>1. OpsInit => RepairInv
  <2> SUFFICES ASSUME Repair!RepairInit
               PROVE  RepairInv
    BY PartsStart
  <2>1. /\ runs = [r \in RepairRuns |-> Repair!Idle]
        /\ repairFile \in [results : [RepairCandidates -> {Repair!NoResult, Repair!Begun}],
                           pending : {<< >>}]
        /\ evidence \in [RepairCandidates -> [count : {1}, file : {"present", "missing"}]]
    BY DEF Repair!RepairInit
  <2>2. Repair!Idle.results \in Results /\ << >> \in Seq(Reports)
    BY DEF Repair!Idle, Repair!NoResult, Results
  <2>3. Repair!Idle \in RunRecords /\ Repair!Idle.pc = "idle" /\ OwesNothing(Repair!Idle)
    BY <2>2 DEF Repair!Idle, RunRecords, OwesNothing
  <2>5. repairFile \in [results : Results, pending : Seq(Reports)]
    <3>1. [RepairCandidates -> {Repair!NoResult, Repair!Begun}] \subseteq Results
      BY DEF Results, Reportable, Repair!NoResult, Repair!Begun
    <3> QED BY <2>1, <2>2, <3>1
  <2>4. evidence \in [RepairCandidates -> [count : Nat, file : {"present", "missing", "unsafe"}]]
    BY <2>1
  <2> QED BY <2>1, <2>3, <2>4, <2>5 DEF RepairInv, RepairTypes, Locked
<1>2. RepairInv /\ [OpsNext]_opsVars => RepairInv' /\ [Repair!ReportKept]_(Repair!repairVars)
  <2>1. ASSUME RepairInv, UNCHANGED repairVars
        PROVE  RepairInv'
    BY <2>1 DEF repairVars, RepairInv, RepairTypes, Covers, Accounted, OwesNothing
  <2>2. UNCHANGED repairVars => UNCHANGED Repair!repairVars
    BY DEF Repair!repairVars, repairVars
  <2> QED BY <2>1, <2>2, RepairStep, PartsStep
<1> QED BY <1>1, <1>2, PTL DEF OpsSpec, ReportsAreKept, Repair!ReportsAreKept

-----------------------------------------------------------------------------
(***************************************************************************)
(* The priority signal.  Whatever file the reader meets, kept copies       *)
(* included, was published as `clear' only by a quiet poll: a decision is  *)
(* clear only when its own round was in order, and a cached one only when  *)
(* the sample it was made from was calm.  The reader's epochs and its      *)
(* sequence number bound the publications it has handed out.               *)
(***************************************************************************)

ProducerFields == {"phase", "epoch", "sequence", "identity", "ev", "decision", "quiet"}
EvaluatorFields == {"source", "observed", "cached", "high", "low", "skip"}
ReaderFields == {"epoch", "epochs", "saturated", "sequence", "generation",
                 "sourceObserved", "payload", "accepted", "latched"}

IsClear(d) == d.reasons = {} /\ d.clear

\* A sample of which a clear decision may be made.
Calm(load) ==
    load.fps = "low" /\ load.ratio = "full" /\ ~load.stalled /\ load.skips # "many"

\* What the evaluator keeps: a clear decision only of a calm sample.
Kept(ev) ==
    /\ DOMAIN ev = EvaluatorFields
    /\ ev.observed \in Nat
    /\ IsClear(ev.cached) => Calm(ev.source.load)

\* What a signal file may say.
Sound(p) ==
    p.kind = "publication" =>
        /\ p.epoch \in Nat /\ p.sequence \in Nat
        /\ p.observed \in Nat /\ p.sourceObserved \in Nat
        /\ p.boot = Prio!ThisBoot /\ p.state = "clear" => p.quiet

ProducerInv ==
    /\ DOMAIN producer = ProducerFields
    /\ producer.epoch \in Nat /\ producer.sequence \in Nat
    /\ Kept(producer.ev)
    /\ producer.phase = "publishing" /\ IsClear(producer.decision) => producer.quiet

ReaderInv ==
    /\ DOMAIN reader = ReaderFields
    /\ reader.sequence \in Nat
    /\ reader.accepted # Prio!Missing =>
          reader.accepted.kind = "publication" /\ reader.accepted.boot = Prio!ThisBoot
    /\ ~reader.latched /\ reader.accepted # Prio!Missing =>
          handed.of = reader.accepted /\ reader.payload = reader.accepted
    /\ \A e \in Nat, s \in Nat :
          <<e, s>> \in taken => /\ e \in reader.epochs
                                /\ e = reader.epoch => s <= reader.sequence

PrioInv ==
    /\ now \in Nat
    /\ Sound(signal) /\ Sound(spare) /\ Sound(reader.accepted)
    /\ ProducerInv /\ ReaderInv

\* What is claimed of a step: evidence is new, and `clear' is earned.
ReadsFairly == Prio!NewsOnly /\ Prio!EarnedOnly

-----------------------------------------------------------------------------
(* The evaluator. *)

\* A reason makes a decision asserted: only without one does it stay clear.
LEMMA UnionIsClear ==
    ASSUME NEW d, NEW reasons, IsClear(Prio!Union(d, reasons))
    PROVE  reasons = {} /\ IsClear(d)
<1>1. d.reasons \cup reasons = {}
  <2> SUFFICES ASSUME d.reasons \cup reasons # {}
               PROVE  FALSE
    OBVIOUS
  <2>1. Prio!Union(d, reasons) = [reasons |-> d.reasons \cup reasons, clear |-> FALSE]
    BY DEF Prio!Union, Prio!Asserted
  <2> QED BY <2>1 DEF IsClear
<1>2. Prio!Union(d, reasons) = d
  BY <1>1 DEF Prio!Union
<1> QED BY <1>1, <1>2

\* A failed round is never clear, and keeps what the evaluator knew
\* (FrigatePriorityEvaluator.failure).
LEMMA FailureIsNotClear ==
    ASSUME NEW ev, Kept(ev), NEW reasons, reasons # {}
    PROVE  /\ Kept(Prio!Failure(ev, reasons).ev)
           /\ ~IsClear(Prio!Failure(ev, reasons).decision)
<1>1. Prio!Failure(ev, reasons).decision = Prio!Union(ev.cached, reasons)
  BY DEF Prio!Failure
<1>2. ~IsClear(Prio!Union(ev.cached, reasons))
  BY UnionIsClear
<1>3. Prio!Failure(ev, reasons).ev = [ev EXCEPT !.high = 0, !.low = 0, !.skip = 0]
  BY DEF Prio!Failure, Prio!ResetStreaks
<1> QED BY <1>1, <1>2, <1>3 DEF Kept, EvaluatorFields

\* The loads the stats endpoint reports.
Loads == [fps : {"low", "middle", "high"}, ratio : {"full", "fair", "poor"},
          skips : {"none", "some", "many"}, stalled : BOOLEAN]

\* A decision made of a sample is clear only when the sample is calm.
LEMMA SampleIsCalm ==
    ASSUME NEW ev, NEW source, source.load \in Loads
    PROVE  /\ IsClear(Prio!BaseDecision(ev, source)) => Calm(source.load)
           /\ ~IsClear(Prio!ImmediateDecision(source))
<1>1. ~IsClear(Prio!ImmediateDecision(source))
  BY DEF Prio!ImmediateDecision, Prio!Asserted, Prio!Neutral, IsClear
<1>2. ASSUME IsClear(Prio!BaseDecision(ev, source))
      PROVE  Calm(source.load)
  <2> DEFINE c == Prio!Counted(ev, source)
             reasons == Prio!ImmediateDecision(source).reasons
                          \cup (IF c.high >= 2 THEN {"busy"} ELSE {})
                          \cup (IF c.low >= 2 \/ c.skip >= 3 THEN {"degraded"} ELSE {})
  <2>1. Prio!BaseDecision(ev, source) =
           IF reasons # {} THEN Prio!Asserted(reasons)
           ELSE IF source.load.fps = "low" /\ source.load.ratio = "full" THEN Prio!Clear
           ELSE Prio!Neutral
    BY DEF Prio!BaseDecision
  <2>2. Prio!ImmediateDecision(source).reasons \subseteq reasons
    OBVIOUS
  <2> HIDE DEF reasons
  <2>3. reasons = {} /\ source.load.fps = "low" /\ source.load.ratio = "full"
    BY <1>2, <2>1 DEF IsClear, Prio!Asserted, Prio!Neutral
  <2>4. Prio!ImmediateDecision(source).reasons = {}
    BY <2>2, <2>3
  <2>5. ~(source.load.skips = "many" \/ source.load.stalled)
    BY <2>4 DEF Prio!ImmediateDecision, Prio!Asserted
  <2> QED BY <2>3, <2>5 DEF Calm
<1> QED BY <1>1, <1>2

\* A sample is taken into account: the decision is clear only when the sample
\* is calm and Ollama is idle (FrigatePriorityEvaluator.observe).
LEMMA ObservedIsCalm ==
    ASSUME NEW ev, Kept(ev), NEW source, source.load \in Loads, NEW at \in Nat, NEW reasons
    PROVE  /\ Kept(Prio!Observe(ev, source, at, reasons).ev)
           /\ IsClear(Prio!Observe(ev, source, at, reasons).decision) =>
                 Calm(source.load) /\ reasons = {}
<1> DEFINE away == "unavailable" \in reasons
           base == IF away THEN Prio!ImmediateDecision(source) ELSE Prio!BaseDecision(ev, source)
           kept == IF away THEN Prio!ResetStreaks(ev) ELSE Prio!Counted(ev, source)
           r == Prio!Observe(ev, source, at, reasons)
<1>1. \/ r = Prio!Failure(ev, reasons \cup {"unavailable"})
      \/ away /\ r = Prio!Failure(ev, reasons)
      \/ source = ev.source /\ r = [ev |-> ev, decision |-> Prio!Union(ev.cached, reasons),
                                    silent |-> FALSE]
      \/ r = [ev |-> [kept EXCEPT !.source = source, !.observed = at, !.cached = base],
              decision |-> Prio!Union(base, reasons), silent |-> FALSE]
  BY DEF Prio!Observe
<1>2. IsClear(base) => Calm(source.load)
  BY SampleIsCalm
<1>3. DOMAIN kept = EvaluatorFields
  BY DEF Kept, Prio!ResetStreaks, Prio!Counted
<1>4. Kept([kept EXCEPT !.source = source, !.observed = at, !.cached = base])
  <2> HIDE DEF kept, base
  <2> QED BY <1>2, <1>3 DEF Kept, EvaluatorFields
<1>5. away => reasons # {}
  OBVIOUS
<1> HIDE DEF kept, base, r, away
<1>6. CASE r = Prio!Failure(ev, reasons \cup {"unavailable"})
  <2>1. reasons \cup {"unavailable"} # {}
    OBVIOUS
  <2> QED BY <1>6, <2>1, FailureIsNotClear DEF r
<1>7. CASE away /\ r = Prio!Failure(ev, reasons)
  BY <1>5, <1>7, FailureIsNotClear DEF r
<1>8. CASE source = ev.source /\ r = [ev |-> ev, decision |-> Prio!Union(ev.cached, reasons),
                                      silent |-> FALSE]
  <2>1. r.ev = ev /\ r.decision = Prio!Union(ev.cached, reasons)
    BY <1>8
  <2>2. IsClear(r.decision) => reasons = {} /\ IsClear(ev.cached)
    BY <2>1, UnionIsClear
  <2> QED BY <1>8, <2>1, <2>2 DEF Kept, r
<1>9. CASE r = [ev |-> [kept EXCEPT !.source = source, !.observed = at, !.cached = base],
                decision |-> Prio!Union(base, reasons), silent |-> FALSE]
  <2>1. /\ r.ev = [kept EXCEPT !.source = source, !.observed = at, !.cached = base]
        /\ r.decision = Prio!Union(base, reasons)
    BY <1>9
  <2>2. IsClear(r.decision) => reasons = {} /\ IsClear(base)
    BY <2>1, UnionIsClear
  <2> QED BY <1>2, <1>4, <2>1, <2>2 DEF r
<1> QED BY <1>1, <1>6, <1>7, <1>8, <1>9

\* One round: a clear decision comes only from a round in which every probe
\* answered and everything was quiet (FrigatePriorityMonitor.poll_once).
LEMMA RoundIsQuiet ==
    ASSUME NEW ev, Kept(ev), NEW reply \in ProbeReplies, NEW at \in Nat
    PROVE  /\ Kept(Prio!Evaluated(ev, reply, at).ev)
           /\ IsClear(Prio!Evaluated(ev, reply, at).decision) => Prio!QuietReply(reply)
<1> DEFINE stats == Prio!GetJson(reply.stats)
           version == Prio!GetVersion(reply.version)
           nvidia == Prio!ProbeNvidia(reply.nvidia)
           ollama == Prio!ClassifyOllama(reply.ollama)
           ollamaReasons == IF ollama = Prio!Unavailable THEN {"unavailable"}
                            ELSE IF ollama.busy THEN {"busy"} ELSE {}
           failed == {p \in {stats, version, nvidia} : p \in {Prio!Unavailable, Prio!Drift}}
           source == IF failed = {} THEN Prio!NormalizeFrigateSource(stats, version, nvidia)
                     ELSE Prio!Unavailable
           refused == IF failed = {} THEN {source} \cap {Prio!Unavailable, Prio!Drift} ELSE failed
           reasons == {IF p = Prio!Drift THEN "drift" ELSE "unavailable" : p \in refused}
           r == Prio!Evaluated(ev, reply, at)
<1>1. r = IF refused # {} THEN Prio!Failure(ev, reasons \cup ollamaReasons)
          ELSE Prio!Observe(ev, source, at, ollamaReasons)
  BY DEF Prio!Evaluated
<1>2. ASSUME refused # {}
      PROVE  Kept(r.ev) /\ ~IsClear(r.decision)
  <2>1. reasons \cup ollamaReasons # {}
    <3>1. PICK p : p \in refused
      BY <1>2
    <3>2. (IF p = Prio!Drift THEN "drift" ELSE "unavailable") \in reasons
      BY <3>1
    <3> HIDE DEF reasons, ollamaReasons
    <3> QED BY <3>2
  <2>2. r = Prio!Failure(ev, reasons \cup ollamaReasons)
    BY <1>1, <1>2
  <2> HIDE DEF r, reasons, ollamaReasons
  <2> QED BY <2>1, <2>2, FailureIsNotClear
<1>3. ASSUME refused = {}
      PROVE  Kept(r.ev) /\ (IsClear(r.decision) => Prio!QuietReply(reply))
  <2>1. /\ failed = {} /\ r = Prio!Observe(ev, source, at, ollamaReasons)
        /\ source \notin {Prio!Unavailable, Prio!Drift}
        /\ source = Prio!NormalizeFrigateSource(stats, version, nvidia)
    BY <1>1, <1>3
  <2>2. /\ stats # Prio!Unavailable /\ version # Prio!Unavailable
        /\ nvidia # Prio!Unavailable /\ nvidia # Prio!Drift
    BY <2>1
  <2>3. Prio!Unavailable.kind = "unavailable" /\ Prio!Drift.kind = "drift"
    BY DEF Prio!Unavailable, Prio!Drift
  <2>4. reply.stats.server = "answers" /\ reply.stats.body.kind = "json"
        /\ stats = reply.stats.body
    BY <2>2, <2>3 DEF Prio!GetJson, Prio!Get
  <2>5. reply.version.server = "answers"
    BY <2>2, <2>3 DEF Prio!GetVersion, Prio!Get
  <2>6. reply.nvidia.exits
    BY <2>2, <2>3 DEF Prio!ProbeNvidia, Prio!ParseNvidiaOutput, Prio!BoundedCommand
  <2>7. reply.stats.body.load \in Loads
    BY <2>4, PriorityAssumption DEF Loads
  <2>8. source.load = reply.stats.body.load
    <3> HIDE DEF stats, version, nvidia, source
    <3>1. source = [generation |-> stats.generation, load |-> stats.load, gpu |-> nvidia.mode]
      BY <2>1 DEF Prio!NormalizeFrigateSource
    <3> QED BY <2>4, <3>1
  <2>9. ASSUME ollamaReasons = {}
        PROVE  reply.ollama.server = "answers" /\ ~reply.ollama.body.models
    <3>1. ollama # Prio!Unavailable /\ ~ollama.busy
      BY <2>9
    <3>2. Prio!GetJson(reply.ollama) # Prio!Unavailable
      BY <3>1 DEF Prio!ClassifyOllama
    <3>3. reply.ollama.server = "answers" /\ Prio!GetJson(reply.ollama) = reply.ollama.body
      BY <2>3, <3>2 DEF Prio!GetJson, Prio!Get
    <3>4. ollama = [kind |-> "ollama", busy |-> reply.ollama.body.models]
      BY <3>2, <3>3 DEF Prio!ClassifyOllama
    <3> HIDE DEF ollama
    <3> QED BY <3>1, <3>3, <3>4
  <2> HIDE DEF stats, version, nvidia, ollama, ollamaReasons, failed, source, refused, reasons, r
  <2>10. source.load \in Loads
    BY <2>7, <2>8
  <2>11. Kept(r.ev) /\ (IsClear(r.decision) => Calm(source.load) /\ ollamaReasons = {})
    BY <2>1, <2>10, ObservedIsCalm
  <2>12. ASSUME Calm(reply.stats.body.load)
         PROVE  /\ reply.stats.body.load =
                      [fps |-> "low", ratio |-> "full",
                       skips |-> reply.stats.body.load.skips, stalled |-> FALSE]
                /\ reply.stats.body.load.skips # "many"
    BY <2>7, <2>12 DEF Calm, Loads
  <2> QED BY <2>4, <2>5, <2>6, <2>8, <2>9, <2>11, <2>12 DEF Prio!QuietReply
<1> HIDE DEF r, refused
<1>4. Kept(r.ev) /\ (IsClear(r.decision) => Prio!QuietReply(reply))
  BY <1>2, <1>3
<1> QED BY <1>4 DEF r

-----------------------------------------------------------------------------
(* The steps of the producer, of the file and of the reader. *)

\* A poll keeps what is known of the producer.
LEMMA PollKept ==
    ASSUME ProducerInv, now \in Nat, NEW folder, NEW reply \in ProbeReplies,
           Prio!PollOnce(folder, reply)
    PROVE  ProducerInv'
<1> DEFINE policy == Prio!LoadPolicy(folder, producer.identity)
           result == IF policy = Prio!Drift THEN Prio!Failure(producer.ev, {"drift"})
                     ELSE Prio!Evaluated(producer.ev, reply, now)
           kept == Prio!Capped(result.ev)
           inode == IF policy = Prio!Drift THEN producer.identity ELSE policy.inode
           quiet == policy # Prio!Drift /\ Prio!QuietReply(reply)
           phase == IF result.silent THEN "idle" ELSE "publishing"
<1>1. producer' = [producer EXCEPT !.ev = kept, !.identity = inode,
                                   !.decision = result.decision, !.quiet = quiet,
                                   !.phase = phase]
  BY DEF Prio!PollOnce
<1>2. Kept(result.ev) /\ (IsClear(result.decision) => quiet)
  <2>1. CASE policy = Prio!Drift
    <3>1. result = Prio!Failure(producer.ev, {"drift"})
      BY <2>1
    <3> HIDE DEF result, policy
    <3> QED BY <3>1, FailureIsNotClear DEF ProducerInv
  <2>2. CASE policy # Prio!Drift
    <3>1. result = Prio!Evaluated(producer.ev, reply, now)
      BY <2>2
    <3>2. Prio!QuietReply(reply) => quiet
      BY <2>2
    <3> HIDE DEF result, policy, quiet
    <3> QED BY <3>1, <3>2, RoundIsQuiet DEF ProducerInv
  <2> QED BY <2>1, <2>2
<1> HIDE DEF result, policy, inode, quiet, phase
<1>3. Kept(kept)
  <2>1. /\ DOMAIN kept = DOMAIN result.ev
        /\ kept.source = result.ev.source /\ kept.observed = result.ev.observed
        /\ kept.cached = result.ev.cached
    BY <1>2 DEF Prio!Capped, Kept, EvaluatorFields
  <2> QED BY <1>2, <2>1 DEF Kept
<1> HIDE DEF kept
<1>4. /\ DOMAIN producer' = ProducerFields /\ producer'.epoch = producer.epoch
      /\ producer'.sequence = producer.sequence /\ producer'.ev = kept
      /\ producer'.decision = result.decision /\ producer'.quiet = quiet
  BY <1>1 DEF ProducerInv, ProducerFields
<1>5. Kept(producer'.ev)
  BY <1>3, <1>4
<1> QED BY <1>2, <1>4, <1>5 DEF ProducerInv, Kept, IsClear, Calm

\* A stopped or restarted monitor knows nothing.
LEMMA DownKept ==
    ASSUME NEW e \in Nat, NEW phase, phase # "publishing",
           \/ producer' = [Prio!Down EXCEPT !.epoch = e]
           \/ producer' = [Prio!Down EXCEPT !.epoch = e, !.phase = phase]
    PROVE  ProducerInv'
<1>1. /\ DOMAIN producer' = ProducerFields /\ producer'.epoch = e /\ producer'.sequence = 0
      /\ producer'.ev = Prio!FreshEvaluator /\ producer'.phase # "publishing"
  BY DEF Prio!Down, ProducerFields
<1>2. Kept(Prio!FreshEvaluator)
  BY DEF Kept, EvaluatorFields, Prio!FreshEvaluator, Prio!Neutral, IsClear
<1>3. Kept(producer'.ev)
  BY <1>1, <1>2
<1> QED BY <1>1, <1>3 DEF ProducerInv, Kept, IsClear, Calm

\* A step that leaves the reader and the clock alone.
LEMMA ReaderKept ==
    ASSUME PrioInv, UNCHANGED <<reader, handed, taken, now>>,
           ProducerInv', Sound(signal)', Sound(spare)'
    PROVE  PrioInv'
BY DEF PrioInv, ReaderInv, Sound

\* A publication says `clear' only of a quiet poll (_publish).
LEMMA PublishKept ==
    ASSUME PrioInv, NEW settled \in BOOLEAN, Prio!Publish(settled)
    PROVE  PrioInv'
<1>1. /\ producer.phase = "publishing" /\ signal' = Prio!EncodePriorityPublication
      /\ UNCHANGED <<spare, reader, handed, taken, now>>
  BY DEF Prio!Publish
<1>2. Sound(signal')
  <2>1. /\ signal'.epoch = producer.epoch /\ signal'.sequence = producer.sequence + 1
        /\ signal'.observed = now /\ signal'.sourceObserved = producer.ev.observed
        /\ signal'.state = Prio!StateOf(producer.decision) /\ signal'.quiet = producer.quiet
    BY <1>1 DEF Prio!EncodePriorityPublication
  <2>2. Prio!StateOf(producer.decision) = "clear" => IsClear(producer.decision)
    BY DEF Prio!StateOf, IsClear
  <2> QED BY <1>1, <2>1, <2>2 DEF Sound, PrioInv, ProducerInv, Kept
<1>3. ProducerInv'
  <2>1. CASE settled
    <3>1. producer' = [producer EXCEPT !.sequence = producer.sequence + 1, !.phase = "idle",
                                       !.decision = Prio!Neutral, !.quiet = FALSE]
      BY <2>1 DEF Prio!Publish
    <3>2. /\ DOMAIN producer' = ProducerFields /\ producer'.epoch = producer.epoch
          /\ producer'.sequence = producer.sequence + 1 /\ producer'.phase = "idle"
          /\ producer'.ev = producer.ev
      BY <3>1 DEF PrioInv, ProducerInv, ProducerFields
    <3>3. Kept(producer'.ev)
      BY <3>2 DEF PrioInv, ProducerInv
    <3> QED BY <3>2, <3>3 DEF PrioInv, ProducerInv, Kept, IsClear, Calm
  <2>2. CASE ~settled
    <3>1. producer' = [Prio!Down EXCEPT !.epoch = producer.epoch]
      BY <2>2 DEF Prio!Publish
    <3>2. "down" # "publishing"
      OBVIOUS
    <3> QED BY <3>1, <3>2, DownKept DEF PrioInv, ProducerInv
  <2> QED BY <2>1, <2>2
<1>4. Sound(signal)' /\ Sound(spare)'
  BY <1>1, <1>2 DEF PrioInv, Sound
<1> QED BY <1>1, <1>3, <1>4, ReaderKept

\* What the reader may make of what it read: it refuses, keeping everything
\* it accepted, or takes a publication that is fresh and new.
LEMMA RefuseKept ==
    ASSUME PrioInv, NEW r, Prio!Refuse(r), UNCHANGED <<producer, signal, spare, now>>,
           DOMAIN r = ReaderFields, r.sequence \in Nat, r.accepted = reader.accepted,
           reader.epochs \subseteq r.epochs,
           \/ r.epoch = reader.epoch /\ reader.sequence <= r.sequence
           \/ r.epoch \notin reader.epochs
    PROVE  PrioInv' /\ ReadsFairly
<1>1. /\ reader' = [r EXCEPT !.latched = TRUE] /\ taken' = taken
      /\ handed' = [state |-> "unavailable", new |-> FALSE, of |-> Prio!Missing]
  BY DEF Prio!Refuse
<1>2. /\ DOMAIN reader' = ReaderFields /\ reader'.sequence = r.sequence /\ reader'.latched
      /\ reader'.accepted = reader.accepted /\ reader'.epoch = r.epoch
      /\ reader'.epochs = r.epochs /\ handed'.state = "unavailable"
  BY <1>1 DEF ReaderFields
<1>3. ReaderInv'
  <2>1. ASSUME NEW e \in Nat, NEW s \in Nat, <<e, s>> \in taken'
        PROVE  e \in reader'.epochs /\ (e = reader'.epoch => s <= reader'.sequence)
    <3>1. e \in reader.epochs /\ (e = reader.epoch => s <= reader.sequence)
      BY <1>1, <2>1 DEF PrioInv, ReaderInv
    <3> QED BY <1>2, <3>1 DEF PrioInv, ReaderInv
  <2> QED BY <1>2, <2>1 DEF PrioInv, ReaderInv
<1>4. Sound(reader.accepted)' /\ Sound(signal)' /\ Sound(spare)' /\ ProducerInv'
  BY <1>2 DEF PrioInv, Sound, ProducerInv, Kept, IsClear, Calm
<1>5. ReadsFairly
  BY <1>2 DEF ReadsFairly, Prio!EarnedOnly, Prio!NewsOnly
<1> QED BY <1>3, <1>4, <1>5 DEF PrioInv

\* Taking over a sound publication keeps the reader's invariant.
LEMMA AcceptKept ==
    ASSUME PrioInv, NEW p, Sound(p), p.kind = "publication", Prio!Readable(p),
           Prio!AcceptPublication(p), UNCHANGED <<producer, signal, spare, now>>,
           \/ p.epoch \notin reader.epochs
           \/ p.epoch = reader.epoch /\ p.sequence = reader.sequence + 1
    PROVE  PrioInv' /\ ReadsFairly
<1>1. /\ reader' = [Prio!Checkpoint(p) EXCEPT !.accepted = p, !.latched = FALSE]
      /\ handed' = [state |-> p.state, new |-> TRUE, of |-> p]
      /\ taken' = taken \cup {<<p.epoch, p.sequence>>}
  BY DEF Prio!AcceptPublication
<1>2. /\ DOMAIN reader' = ReaderFields /\ reader'.sequence = p.sequence
      /\ reader'.accepted = p /\ reader'.epoch = p.epoch
      /\ reader'.epochs = reader.epochs \cup {p.epoch} /\ reader'.payload = p
  BY <1>1 DEF ReaderFields, Prio!Checkpoint, PrioInv, ReaderInv
<1>3. handed'.state = p.state /\ handed'.new = TRUE /\ handed'.of = p
  BY <1>1
<1>4. p.epoch \in Nat /\ p.sequence \in Nat /\ p.observed \in Nat /\ p.sourceObserved \in Nat
  BY DEF Sound
<1>5. /\ p.boot = Prio!ThisBoot /\ p.sourceObserved <= p.observed /\ p.observed <= now
      /\ now - p.observed <= HeartbeatMaxAge /\ now - p.sourceObserved <= SourceMaxAge
  BY DEF Prio!Readable
<1>6. ReaderInv'
  <2>1. ASSUME NEW e \in Nat, NEW s \in Nat, <<e, s>> \in taken'
        PROVE  e \in reader'.epochs /\ (e = reader'.epoch => s <= reader'.sequence)
    <3>1. CASE <<e, s>> \in taken
      <4>1. e \in reader.epochs /\ (e = reader.epoch => s <= reader.sequence)
        BY <3>1 DEF PrioInv, ReaderInv
      <4> QED BY <1>2, <1>4, <4>1 DEF PrioInv, ReaderInv
    <3>2. CASE <<e, s>> = <<p.epoch, p.sequence>>
      <4>1. e = p.epoch /\ s = p.sequence
        BY <3>2
      <4> QED BY <1>2, <1>4, <4>1
    <3> QED BY <1>1, <2>1, <3>1, <3>2
  <2> QED BY <1>2, <1>3, <1>4, <1>5, <2>1 DEF ReaderInv
<1>7. Sound(reader.accepted)' /\ Sound(signal)' /\ Sound(spare)' /\ ProducerInv'
  BY <1>2 DEF PrioInv, Sound, ProducerInv, Kept, IsClear, Calm
<1>8. Prio!EarnedOnly
  <2>1. p.state = "clear" => p.quiet
    BY <1>5 DEF Sound
  <2> QED BY <1>3, <1>5, <2>1 DEF Prio!EarnedOnly
<1>9. <<p.epoch, p.sequence>> \notin taken
  <2> SUFFICES ASSUME <<p.epoch, p.sequence>> \in taken
               PROVE  FALSE
    OBVIOUS
  <2>1. p.epoch \in reader.epochs /\ (p.epoch = reader.epoch => p.sequence <= reader.sequence)
    BY <1>4 DEF PrioInv, ReaderInv
  <2> QED BY <1>4, <2>1 DEF PrioInv, ReaderInv
<1>10. Prio!NewsOnly
  BY <1>3, <1>9 DEF Prio!NewsOnly
<1>11. now' \in Nat
  BY DEF PrioInv
<1> QED BY <1>6, <1>7, <1>8, <1>10, <1>11 DEF PrioInv, ReadsFairly

\* The last observation is repeated only as long as nothing was refused.
LEMMA RepeatKept ==
    ASSUME PrioInv, Prio!RepeatAccepted, UNCHANGED <<producer, signal, spare, now>>,
           reader.accepted # Prio!Missing, ~reader.latched, Prio!Readable(reader.accepted)
    PROVE  PrioInv' /\ ReadsFairly
<1>1. /\ handed' = [state |-> reader.accepted.state, new |-> FALSE, of |-> reader.accepted]
      /\ UNCHANGED <<reader, taken>>
  BY DEF Prio!RepeatAccepted
<1>2. handed'.state = reader.accepted.state /\ handed'.new = FALSE /\ handed'.of = reader.accepted
  BY <1>1
<1>3. handed.of = reader.accepted
  BY DEF PrioInv, ReaderInv
<1>4. reader.accepted.state = "clear" => reader.accepted.quiet
  BY DEF PrioInv, ReaderInv, Sound
<1>5. ReaderInv'
  BY <1>1, <1>2 DEF PrioInv, ReaderInv
<1>6. ReadsFairly
  <2>1. Prio!NewsOnly
    BY <1>2, <1>3 DEF Prio!NewsOnly
  <2>2. /\ reader.accepted.sourceObserved <= reader.accepted.observed
        /\ reader.accepted.observed <= now
        /\ now - reader.accepted.observed <= HeartbeatMaxAge
        /\ now - reader.accepted.sourceObserved <= SourceMaxAge
    BY DEF Prio!Readable
  <2>3. Prio!EarnedOnly
    BY <1>2, <1>4, <2>2 DEF Prio!EarnedOnly
  <2> QED BY <2>1, <2>3 DEF ReadsFairly
<1>7. Sound(reader.accepted)' /\ Sound(signal)' /\ Sound(spare)' /\ ProducerInv' /\ now' \in Nat
  BY <1>1 DEF PrioInv, Sound, ProducerInv, Kept, IsClear, Calm
<1> QED BY <1>5, <1>6, <1>7 DEF PrioInv

\* A reading of the file (PriorityPressureReader._read_locked).
LEMMA ReadKept ==
    ASSUME PrioInv, Prio!Read
    PROVE  PrioInv' /\ ReadsFairly
<1> DEFINE p == Prio!Snapshot
<1>0. /\ UNCHANGED <<producer, signal, spare, now>>
      /\ DOMAIN reader = ReaderFields /\ reader.sequence \in Nat
  BY DEF Prio!Read, PrioInv, ReaderInv
<1>1. ASSUME Prio!Refuse(reader)
      PROVE  PrioInv' /\ ReadsFairly
  BY <1>0, <1>1, RefuseKept
<1>2. CASE reader.saturated \/ ~Prio!Readable(p)
  BY <1>1, <1>2 DEF Prio!Read
<1>3. CASE ~(reader.saturated \/ ~Prio!Readable(p))
  <2>1. p = signal /\ p.kind = "publication" /\ Prio!Readable(p)
    BY <1>3 DEF Prio!Snapshot, Prio!Readable
  <2>2. Sound(p) /\ p.epoch \in Nat /\ p.sequence \in Nat
    BY <2>1 DEF PrioInv, Sound
  <2>3. IF p.epoch # reader.epoch THEN Prio!ReadNewEpoch(p)
        ELSE IF p.sequence = reader.sequence THEN Prio!ReadSameSequence(p)
        ELSE Prio!ReadNextSequence(p)
    BY <1>3 DEF Prio!Read
  <2> HIDE DEF p
  <2>4. LET r == Prio!Checkpoint(p)
        IN  /\ DOMAIN r = ReaderFields /\ r.sequence = p.sequence
            /\ r.accepted = reader.accepted /\ r.epochs = reader.epochs \cup {p.epoch}
            /\ r.epoch = p.epoch
    BY <1>0 DEF Prio!Checkpoint, ReaderFields
  <2>5. ASSUME Prio!Refuse(Prio!Checkpoint(p)),
               \/ p.epoch = reader.epoch /\ reader.sequence <= p.sequence
               \/ p.epoch \notin reader.epochs
        PROVE  PrioInv' /\ ReadsFairly
    <3> DEFINE r == Prio!Checkpoint(p)
    <3>1. /\ DOMAIN r = ReaderFields /\ r.sequence \in Nat /\ r.accepted = reader.accepted
          /\ reader.epochs \subseteq r.epochs
          /\ \/ r.epoch = reader.epoch /\ reader.sequence <= r.sequence
             \/ r.epoch \notin reader.epochs
          /\ Prio!Refuse(r)
      BY <2>2, <2>4, <2>5
    <3> HIDE DEF r
    <3> QED BY <1>0, <3>1, RefuseKept
  <2>6. ASSUME p.epoch # reader.epoch, Prio!ReadNewEpoch(p)
        PROVE  PrioInv' /\ ReadsFairly
    <3>1. CASE Prio!NewEpochRefused(p)
      BY <1>1, <2>6, <3>1 DEF Prio!ReadNewEpoch
    <3>2. CASE ~Prio!NewEpochRefused(p)
      <4>1. p.epoch \notin reader.epochs
        BY <3>2 DEF Prio!NewEpochRefused
      <4>2. \/ Prio!Refuse([reader EXCEPT !.saturated = TRUE])
            \/ Prio!AcceptPublication(p)
            \/ Prio!Refuse(Prio!Checkpoint(p))
        BY <2>6, <3>2 DEF Prio!ReadNewEpoch
      <4>3. ASSUME Prio!Refuse([reader EXCEPT !.saturated = TRUE])
            PROVE  PrioInv' /\ ReadsFairly
        <5> DEFINE r == [reader EXCEPT !.saturated = TRUE]
        <5>1. /\ DOMAIN r = ReaderFields /\ r.sequence = reader.sequence
              /\ r.accepted = reader.accepted /\ r.epochs = reader.epochs
              /\ r.epoch = reader.epoch /\ Prio!Refuse(r)
          BY <1>0, <4>3 DEF ReaderFields
        <5> HIDE DEF r
        <5> QED BY <1>0, <5>1, RefuseKept
      <4> QED BY <1>0, <2>1, <2>2, <2>5, <4>1, <4>2, <4>3, AcceptKept
    <3> QED BY <3>1, <3>2
  <2>7. ASSUME p.epoch = reader.epoch, Prio!ReadSameSequence(p)
        PROVE  PrioInv' /\ ReadsFairly
    <3>1. \/ Prio!Refuse(reader)
          \/ /\ Prio!RepeatAccepted /\ reader.accepted # Prio!Missing /\ ~reader.latched
             /\ p = reader.payload
      BY <2>7 DEF Prio!ReadSameSequence
    <3>2. reader.accepted # Prio!Missing /\ ~reader.latched => reader.payload = reader.accepted
      BY DEF PrioInv, ReaderInv
    <3> QED BY <1>0, <1>1, <2>1, <3>1, <3>2, RepeatKept
  <2>8. ASSUME p.epoch = reader.epoch, p.sequence # reader.sequence, Prio!ReadNextSequence(p)
        PROVE  PrioInv' /\ ReadsFairly
    <3>1. \/ Prio!Refuse(reader)
          \/ Prio!AcceptPublication(p) /\ p.sequence = reader.sequence + 1
          \/ Prio!Refuse(Prio!Checkpoint(p)) /\ reader.sequence <= p.sequence
      BY <1>0, <2>2, <2>8 DEF Prio!ReadNextSequence
    <3> QED BY <1>0, <1>1, <2>1, <2>2, <2>5, <2>8, <3>1, AcceptKept
  <2> QED BY <2>3, <2>6, <2>7, <2>8
<1> QED BY <1>2, <1>3

\* Every step of the producer, of the file, of time and of the reader.
LEMMA PrioStep ==
    ASSUME PrioInv, Prio!PrioNext
    PROVE  PrioInv' /\ ReadsFairly
<1>1. CASE Prio!Read
  BY <1>1, ReadKept
<1>2. CASE ~Prio!Read
  <2>0. ReadsFairly
    BY <1>2 DEF ReadsFairly, Prio!NewsOnly, Prio!EarnedOnly
  <2>1. ASSUME Prio!StartProducer
        PROVE  PrioInv'
    <3>1. /\ UNCHANGED <<spare, reader, handed, taken, now>>
          /\ signal' = signal \/ signal' = Prio!Missing
          /\ \E phase : phase # "publishing"
                        /\ producer' = [Prio!Down EXCEPT !.epoch = producer.epoch + 1, !.phase = phase]
      BY <2>1 DEF Prio!StartProducer
    <3>2. producer.epoch + 1 \in Nat
      BY DEF PrioInv, ProducerInv
    <3>3. ProducerInv'
      BY <3>1, <3>2, DownKept
    <3>4. Sound(signal)' /\ Sound(spare)'
      BY <3>1 DEF PrioInv, Sound, Prio!Missing
    <3> QED BY <3>1, <3>3, <3>4, ReaderKept
  <2>2. ASSUME NEW folder \in PolicyFolders, NEW reply \in ProbeReplies, Prio!PollOnce(folder, reply)
        PROVE  PrioInv'
    <3>1. UNCHANGED <<signal, spare, reader, handed, taken, now>>
      BY <2>2 DEF Prio!PollOnce
    <3>2. ProducerInv'
      BY <2>2, PollKept DEF PrioInv
    <3>3. Sound(signal)' /\ Sound(spare)'
      BY <3>1 DEF PrioInv, Sound
    <3> QED BY <3>1, <3>2, <3>3, ReaderKept
  <2>3. ASSUME Prio!StopProducer
        PROVE  PrioInv'
    <3>1. /\ UNCHANGED <<signal, spare, reader, handed, taken, now>>
          /\ producer' = [Prio!Down EXCEPT !.epoch = producer.epoch]
      BY <2>3 DEF Prio!StopProducer
    <3>2. ProducerInv'
      <4>1. "down" # "publishing"
        OBVIOUS
      <4> QED BY <3>1, <4>1, DownKept DEF PrioInv, ProducerInv
    <3>3. Sound(signal)' /\ Sound(spare)'
      BY <3>1 DEF PrioInv, Sound
    <3> QED BY <3>1, <3>2, <3>3, ReaderKept
  <2>4. ASSUME Prio!Keep \/ Prio!Disturb
        PROVE  PrioInv'
    <3>1. /\ UNCHANGED <<producer, reader, handed, taken, now>>
          /\ signal' \in {signal, Prio!Missing, Prio!Damaged, Prio!Unsafe, spare}
          /\ spare' \in {signal, spare}
      BY <2>4 DEF Prio!Keep, Prio!Disturb
    <3>2. ProducerInv'
      BY <3>1 DEF PrioInv, ProducerInv, Kept, IsClear, Calm
    <3>3. Sound(signal)' /\ Sound(spare)'
      BY <3>1 DEF PrioInv, Sound, Prio!Missing, Prio!Damaged, Prio!Unsafe
    <3> QED BY <3>1, <3>2, <3>3, ReaderKept
  <2>5. ASSUME Prio!Tick
        PROVE  PrioInv'
    <3>1. now' = now + 1 /\ UNCHANGED <<producer, signal, spare, reader, handed, taken>>
      BY <2>5 DEF Prio!Tick
    <3> QED BY <3>1 DEF PrioInv, Sound, ProducerInv, Kept, IsClear, Calm, ReaderInv
  <2> QED BY <1>2, <2>0, <2>1, <2>2, <2>3, <2>4, <2>5, PublishKept DEF Prio!PrioNext
<1> QED BY <1>1, <1>2

\* What the composition is for the priority signal.
LEMMA PrioPart ==
    /\ OpsInit => Prio!PrioInit
    /\ [OpsNext]_opsVars => Prio!PrioNext \/ UNCHANGED prioVars
BY Zenon DEF OpsInit, OpsNext, opsVars

\* Nothing is known before the first poll.
LEMMA PrioStart ==
    ASSUME Prio!PrioInit
    PROVE  PrioInv
<1>1. Prio!Missing.kind = "missing"
  BY DEF Prio!Missing
<1>2. Sound(Prio!Missing)
  BY <1>1 DEF Sound
<1>3. Sound(Prio!OldBoot)
  BY DEF Sound, Prio!OldBoot, Prio!ThisBoot
<1>4. Kept(Prio!FreshEvaluator)
  BY DEF Kept, EvaluatorFields, Prio!FreshEvaluator, Prio!Neutral, IsClear
<1>5. ProducerInv
  BY <1>4 DEF ProducerInv, Prio!PrioInit, Prio!Down, ProducerFields
<1>6. ReaderInv /\ reader.accepted = Prio!Missing
  <2>1. /\ DOMAIN reader = ReaderFields /\ reader.sequence = 0
        /\ reader.accepted = Prio!Missing /\ taken = {} /\ handed.state = "none"
    BY DEF Prio!PrioInit, Prio!FreshReader, ReaderFields
  <2> QED BY <2>1 DEF ReaderInv
<1>7. /\ now \in Nat /\ spare = Prio!Missing
      /\ signal \in {Prio!Missing, Prio!OldBoot}
  BY DEF Prio!PrioInit
<1> QED BY <1>2, <1>3, <1>5, <1>6, <1>7 DEF PrioInv

\* PrioInv holds at first, and every step of the composition keeps it.
LEMMA PrioAlways ==
    /\ OpsInit => PrioInv
    /\ PrioInv /\ [OpsNext]_opsVars => PrioInv' /\ [ReadsFairly]_(Prio!prioVars)
<1>1. OpsInit => PrioInv
  BY PrioPart, PrioStart
<1>2. ASSUME PrioInv, [OpsNext]_opsVars
      PROVE  PrioInv' /\ [ReadsFairly]_(Prio!prioVars)
  <2>1. ASSUME UNCHANGED prioVars
        PROVE  PrioInv' /\ UNCHANGED Prio!prioVars
    BY <1>2, <2>1 DEF prioVars, Prio!prioVars, PrioInv, Sound, ProducerInv, ReaderInv, Kept,
                      IsClear, Calm
  <2> QED BY <1>2, <2>1, PrioStep, PrioPart
<1> QED BY <1>1, <1>2

\* Subgen is told the host is quiet only by a poll in which the policy held,
\* every probe answered and the sample was quiet, and only while the
\* heartbeat and that sample are both fresh: for any answers of the probes,
\* any policy folders, any ages and number of epochs, and whatever copies of
\* the file are put back (monitor_frigate_priority.py, priority_pressure.py).
THEOREM ClearMustBeEarned == OpsSpec => ClearIsEarned
<1>1. [ReadsFairly]_(Prio!prioVars) => [Prio!EarnedOnly]_(Prio!prioVars)
  BY DEF ReadsFairly
<1> QED BY <1>1, PrioAlways, PTL DEF OpsSpec, ClearIsEarned, Prio!ClearIsEarned

\* An observation is new at most once: what the reader hands out was never
\* handed out before, or repeats the very last one without a refusal in
\* between, whatever becomes of the file and of the producer
\* (PriorityPressureReader._read_locked).
THEOREM EvidenceIsNeverStale == OpsSpec => EvidenceIsNews
<1>1. [ReadsFairly]_(Prio!prioVars) => [Prio!NewsOnly]_(Prio!prioVars)
  BY DEF ReadsFairly
<1> QED BY <1>1, PrioAlways, PTL DEF OpsSpec, EvidenceIsNews, Prio!EvidenceIsNews

-----------------------------------------------------------------------------
(***************************************************************************)
(* The release gate.  Each final drain proves one thing of a candidate     *)
(* that is stopped already, so that it stays proved (DrainInv).  The       *)
(* candidate's counters tell its receipts apart: as long as they stand     *)
(* still the priority and the residency do (Follows), so that the few      *)
(* receipts the seals look at speak for all those between them (CycleInv). *)
(***************************************************************************)

GateFields == {"pc", "read", "events", "base", "bad", "t0", "after", "reset", "began",
               "samples", "ended", "stage"}

\* What is behind the observer.
AfterWatch == {"watcher_snapshot", "passed"}
AfterReceipts == AfterWatch \cup {"final_receipt_drain", "cgroup_cleanup"}
AfterCgroup == AfterReceipts \cup {"final_cgroup_drain", "final_kernel_drain"}
AfterLog == AfterCgroup \cup {"log_eof"}
AfterHalt == AfterLog \cup {"stop"}
AfterB == AfterHalt \cup {"seal", "live_drain"}
AfterA == AfterB \cup {"idle", "reset", "admit_b", "samples", "sentinel"}

\* What the final drains have proved so far.
DrainInv ==
    /\ DOMAIN gate = GateFields /\ DOMAIN harm = Gate!Sources
    /\ gate.pc \in AfterHalt => container = "stopped"
    /\ gate.pc \in AfterLog => harm["restart"] = gate.base["restart"] /\ harm["log"] = gate.base["log"]
    /\ gate.pc \in AfterCgroup => harm["cgroup"] = gate.base["cgroup"]
    /\ gate.pc \in AfterReceipts => Gate!Last.bad = gate.bad
    /\ gate.pc \in AfterWatch => Gate!NothingOfB

Receipts == [work : {"a", "b", "none"}, active : BOOLEAN, chunk : BOOLEAN,
             resident : BOOLEAN, prio : {"clear", "asserted"},
             phase : {"normal", "yielding", "recovering"}, clears : Nat,
             turns : Nat, loads : Nat, unloads : Nat, done : Nat, bad : Nat]

\* What two receipts of one journal say of each other.
Follows(q, r) ==
    /\ q.turns <= r.turns /\ q.loads <= r.loads /\ q.unloads <= r.unloads
    /\ q.turns = r.turns => q.prio = r.prio
    /\ q.loads = r.loads /\ q.unloads = r.unloads => q.resident = r.resident

JournalKept ==
    /\ receipts \in Seq(Receipts)
    /\ \A i, j \in 1 .. Len(receipts) : i <= j => Follows(receipts[i], receipts[j])

\* What the n-th event was held against.
Fits(n) ==
    LET r == receipts[gate.events[n].at]
        first == receipts[gate.events[1].at]
    IN  /\ gate.events[n].is = gate.events[n].at
        /\ r.prio = (IF n \in 2..5 THEN "asserted" ELSE "clear")
        /\ r.resident <=> n \in {1, 2, 3, 9, 10}
        /\ n = 10 => r.done = first.done + 1
        /\ r.bad = first.bad

EventsKept ==
    /\ gate.events \in Seq([at : Nat, is : Nat]) /\ Len(gate.events) <= 10
    /\ \A n \in 1 .. Len(gate.events) :
          /\ gate.events[n].at \in 1 .. Len(receipts)
          /\ n # 5 => Fits(n)
          /\ n > 1 => \/ gate.events[n - 1].at < gate.events[n].at
                      \/ n = 5 /\ gate.events[n - 1].at <= gate.events[n].at

\* Between two events nothing but the earlier one's receipt.
Staged ==
    \A n \in 1..10 \ {5} : \A i \in gate.events[n].at .. Gate!StageEnd(n) :
        receipts[i] = Gate!EventReceipt(n)

CycleInv ==
    /\ DOMAIN gate = GateFields
    /\ gate.read \in Nat /\ gate.ended \in Nat /\ gate.ended <= Len(receipts)
    /\ JournalKept /\ EventsKept
    /\ gate.pc \in AfterA \cup {"seal_a"} => Len(gate.events) = 10
    /\ gate.pc \in AfterA => Staged
    /\ gate.pc \in AfterB => Gate!ContinuesPhaseA

-----------------------------------------------------------------------------
(* The candidate and the world around it. *)

\* The observer does not move in a step of the candidate or of the world, and
\* a stopped candidate counts nothing, appends nothing and creates nothing.
LEMMA AroundTheGate ==
    ASSUME Gate!CandidateStep \/ Gate!Strike \/ Gate!Signal, DOMAIN harm = Gate!Sources
    PROVE  /\ UNCHANGED <<gate, container>> /\ DOMAIN harm' = Gate!Sources
           /\ container = "stopped" =>
                 /\ UNCHANGED <<receipts, made>>
                 /\ \A s \in Gate!OfCandidate : harm'[s] = harm[s]
<1>1. ASSUME NEW r, Gate!Append1(r)
      PROVE  container = "running" /\ UNCHANGED <<gate, container, harm>>
  BY <1>1 DEF Gate!Append1
<1>2. CASE Gate!CandidateStep
  <2>1. CASE Gate!PublishSubtitle
    BY <2>1 DEF Gate!PublishSubtitle
  <2>2. CASE Gate!Slip
    BY <1>1, <2>2 DEF Gate!Slip
  <2>3. CASE ~Gate!PublishSubtitle /\ ~Gate!Slip
    <3>1. \E r : Gate!Append1(r)
      BY <1>2, <2>3 DEF Gate!CandidateStep, Gate!Boot, Gate!LoadModel, Gate!BindWorkload,
           Gate!BeginChunk, Gate!ConsumeAssertion, Gate!UnwindChunk, Gate!UnloadModel,
           Gate!CountClear, Gate!CompleteWorkload, Gate!Heartbeat, Gate!Publish
    <3> QED BY <1>1, <3>1
  <2> QED BY <2>1, <2>2, <2>3
<1>3. CASE Gate!Strike
  <2>1. UNCHANGED <<gate, container, receipts>>
    BY <1>3 DEF Gate!Strike
  <2>2. ASSUME NEW s \in Gate!Sources, s \in Gate!OfCandidate => container = "running",
               harm' = [harm EXCEPT ![s] = harm[s] + 1]
        PROVE  /\ DOMAIN harm' = Gate!Sources
               /\ container = "stopped" => \A t \in Gate!OfCandidate : harm'[t] = harm[t]
    BY <2>2
  <2>3. \/ /\ UNCHANGED made
           /\ \E s \in Gate!Sources : /\ s \in Gate!OfCandidate => container = "running"
                                      /\ harm' = [harm EXCEPT ![s] = harm[s] + 1]
        \/ container = "running" /\ UNCHANGED harm
        \/ UNCHANGED <<harm, made>>
    BY <1>3 DEF Gate!Strike
  <2> QED BY <2>1, <2>2, <2>3
<1>4. CASE Gate!Signal
  BY <1>4 DEF Gate!Signal
<1> QED BY <1>2, <1>3, <1>4

\* What the drains proved stays so, whatever the candidate or the world does.
LEMMA DrainAround ==
    ASSUME DrainInv, Gate!CandidateStep \/ Gate!Strike \/ Gate!Signal
    PROVE  DrainInv'
<1>1. /\ UNCHANGED <<gate, container>> /\ DOMAIN harm' = Gate!Sources
      /\ container = "stopped" =>
            /\ UNCHANGED <<receipts, made>>
            /\ \A s \in Gate!OfCandidate : harm'[s] = harm[s]
  BY AroundTheGate DEF DrainInv
<1>2. CASE container = "stopped"
  <2>1. /\ UNCHANGED <<receipts, made>> /\ harm'["restart"] = harm["restart"]
        /\ harm'["log"] = harm["log"] /\ harm'["cgroup"] = harm["cgroup"]
    BY <1>1, <1>2 DEF Gate!OfCandidate
  <2> QED BY <1>1, <2>1 DEF DrainInv, Gate!Last, Gate!NothingOfB
<1>3. CASE container # "stopped"
  <2>1. gate.pc \notin AfterHalt
    BY <1>3 DEF DrainInv
  <2> QED BY <1>1, <2>1 DEF DrainInv, AfterHalt, AfterLog, AfterCgroup, AfterReceipts, AfterWatch
<1> QED BY <1>2, <1>3

\* A step of the observer before the candidate is stopped.
LEMMA DrainBefore ==
    ASSUME DOMAIN harm = Gate!Sources, UNCHANGED harm, DOMAIN gate' = GateFields,
           gate'.pc \notin AfterHalt
    PROVE  DrainInv'
BY DEF DrainInv, AfterHalt, AfterLog, AfterCgroup, AfterReceipts, AfterWatch

\* The observer moves on and keeps what the drains compare with.
LEMMA DrainReach ==
    ASSUME DrainInv, NEW stage, NEW read, Gate!Reach(stage, read)
    PROVE  /\ DOMAIN gate' = GateFields /\ gate'.pc = stage
           /\ gate'.base = gate.base /\ gate'.bad = gate.bad
BY DEF Gate!Reach, DrainInv, GateFields

\* Every step of the gate: each drain adds what it compared.
LEMMA DrainStep ==
    ASSUME DrainInv, Gate!GateNext
    PROVE  DrainInv'
<1>0. DOMAIN gate = GateFields /\ DOMAIN harm = Gate!Sources
  BY DEF DrainInv
<1>1. CASE Gate!CandidateStep \/ Gate!Strike \/ Gate!Signal
  BY <1>1, DrainAround
<1>2. CASE Gate!PhaseA \/ Gate!IdleAgain \/ Gate!ResetBoundary \/ Gate!AdmitB
           \/ Gate!CaptureSample \/ Gate!SealB
  <2>1. UNCHANGED harm /\ DOMAIN gate' = GateFields /\ gate'.pc \notin AfterHalt
    <3>1. CASE Gate!PhaseA
      BY <1>0, <3>1
      DEF Gate!PhaseA, Gate!StartCandidate, Gate!OpenJournal, Gate!BaselineA, Gate!RecordEvent,
          Gate!OpenAssertion, Gate!DefineT0, Gate!LookAgain, Gate!RecordUnloadedGpu,
          Gate!FailureDeltasA, Gate!SealA, Gate!ByGate, Gate!At, GateFields,
          AfterHalt, AfterLog, AfterCgroup, AfterReceipts, AfterWatch
    <3>2. CASE Gate!IdleAgain \/ Gate!ResetBoundary \/ Gate!AdmitB \/ Gate!CaptureSample \/ Gate!SealB
      BY <1>0, <3>2
      DEF Gate!IdleAgain, Gate!ResetBoundary, Gate!AdmitB, Gate!CaptureSample, Gate!SealB,
          Gate!ByGate, Gate!At, GateFields,
          AfterHalt, AfterLog, AfterCgroup, AfterReceipts, AfterWatch
    <3> QED BY <1>2, <3>1, <3>2
  <2> QED BY <1>0, <2>1, DrainBefore
<1>3. CASE Gate!LiveDrain
  <2>1. UNCHANGED harm /\ Gate!Reach("live_drain", Len(receipts))
    BY <1>3 DEF Gate!LiveDrain, Gate!ByGate
  <2>2. DOMAIN gate' = GateFields /\ gate'.pc = "live_drain"
    BY <2>1, DrainReach
  <2> QED BY <1>0, <2>1, <2>2, DrainBefore DEF AfterHalt, AfterLog, AfterCgroup, AfterReceipts, AfterWatch
<1>4. ASSUME NEW stage, UNCHANGED <<harm, receipts, made>>, gate'.pc = stage,
             DOMAIN gate' = GateFields, gate'.base = gate.base, gate'.bad = gate.bad,
             container' = "stopped",
             stage \in AfterLog => harm["restart"] = gate.base["restart"] /\ harm["log"] = gate.base["log"],
             stage \in AfterCgroup => harm["cgroup"] = gate.base["cgroup"],
             stage \in AfterReceipts => Gate!Last.bad = gate.bad,
             stage \in AfterWatch => Gate!NothingOfB
      PROVE  DrainInv'
  BY <1>0, <1>4 DEF DrainInv, Gate!Last, Gate!NothingOfB
<1>5. CASE Gate!StopCandidate
  <2>1. /\ UNCHANGED <<harm, receipts, made>> /\ container' = "stopped"
        /\ Gate!Reach("stop", gate.read)
    BY <1>5 DEF Gate!StopCandidate, Gate!ByGate, Gate!Passed
  <2>2. /\ DOMAIN gate' = GateFields /\ gate'.pc = "stop"
        /\ gate'.base = gate.base /\ gate'.bad = gate.bad
    BY <2>1, DrainReach
  <2> QED BY <1>4, <2>1, <2>2 DEF AfterHalt, AfterLog, AfterCgroup, AfterReceipts, AfterWatch
<1>6. CASE Gate!LogEof
  <2>1. /\ UNCHANGED <<harm, receipts, made, container>> /\ container = "stopped"
        /\ Gate!Reach("log_eof", gate.read) /\ Gate!RestartsUnchanged /\ Gate!LogUnchanged
    BY <1>6 DEF Gate!LogEof, Gate!ByGate, Gate!Passed
  <2>2. /\ DOMAIN gate' = GateFields /\ gate'.pc = "log_eof"
        /\ gate'.base = gate.base /\ gate'.bad = gate.bad
    BY <2>1, DrainReach
  <2>3. harm["restart"] = gate.base["restart"] /\ harm["log"] = gate.base["log"]
    BY <2>1 DEF Gate!RestartsUnchanged, Gate!LogUnchanged
  <2> QED BY <1>4, <2>1, <2>2, <2>3 DEF AfterLog, AfterCgroup, AfterReceipts, AfterWatch
<1>7. CASE Gate!FinalCgroupDrain \/ Gate!FinalKernelDrain
  <2>1. PICK stage \in {"final_cgroup_drain", "final_kernel_drain"} :
           /\ UNCHANGED <<harm, receipts, made, container>>
           /\ gate.pc \in {"log_eof", "final_cgroup_drain"}
           /\ gate.pc = "log_eof" => Gate!CgroupUnchanged
           /\ Gate!Reach(stage, gate.read)
    BY <1>7 DEF Gate!FinalCgroupDrain, Gate!FinalKernelDrain, Gate!ByGate, Gate!Passed, Gate!At
  <2>2. /\ DOMAIN gate' = GateFields /\ gate'.pc = stage
        /\ gate'.base = gate.base /\ gate'.bad = gate.bad
    BY <2>1, DrainReach
  <2>3. /\ container = "stopped"
        /\ harm["restart"] = gate.base["restart"] /\ harm["log"] = gate.base["log"]
        /\ harm["cgroup"] = gate.base["cgroup"]
    BY <2>1 DEF DrainInv, AfterHalt, AfterLog, AfterCgroup, Gate!CgroupUnchanged
  <2> QED BY <1>4, <2>1, <2>2, <2>3 DEF AfterReceipts, AfterWatch
<1>8. CASE Gate!FinalReceiptDrain
  <2>1. /\ UNCHANGED <<harm, receipts, made, container>> /\ gate.pc = "final_kernel_drain"
        /\ Gate!Last.bad = gate.bad /\ Gate!Reach("final_receipt_drain", Len(receipts))
    BY <1>8 DEF Gate!FinalReceiptDrain, Gate!ByGate, Gate!At
  <2>2. /\ DOMAIN gate' = GateFields /\ gate'.pc = "final_receipt_drain"
        /\ gate'.base = gate.base /\ gate'.bad = gate.bad
    BY <2>1, DrainReach
  <2>3. /\ container = "stopped"
        /\ harm["restart"] = gate.base["restart"] /\ harm["log"] = gate.base["log"]
        /\ harm["cgroup"] = gate.base["cgroup"]
    BY <2>1 DEF DrainInv, AfterHalt, AfterLog, AfterCgroup
  <2> QED BY <1>4, <2>1, <2>2, <2>3 DEF AfterWatch
<1>9. CASE Gate!CgroupCleanup \/ Gate!WatcherSnapshot \/ Gate!FinalGateWrite
  <2>1. PICK stage \in {"cgroup_cleanup", "watcher_snapshot", "passed"} :
           /\ UNCHANGED <<harm, receipts, made, container>>
           /\ gate.pc \in {"final_receipt_drain", "cgroup_cleanup", "watcher_snapshot"}
           /\ stage = "watcher_snapshot" => Gate!NothingOfB
           /\ stage = "passed" => gate.pc = "watcher_snapshot"
           /\ DOMAIN gate' = GateFields /\ gate'.pc = stage
           /\ gate'.base = gate.base /\ gate'.bad = gate.bad
    <3>1. CASE Gate!CgroupCleanup
      <4>1. /\ UNCHANGED <<harm, receipts, made, container>> /\ gate.pc = "final_receipt_drain"
            /\ Gate!Reach("cgroup_cleanup", gate.read)
        BY <3>1 DEF Gate!CgroupCleanup, Gate!ByGate, Gate!Passed, Gate!At
      <4> QED BY <4>1, DrainReach
    <3>2. CASE Gate!WatcherSnapshot
      <4>1. /\ UNCHANGED <<harm, receipts, made, container>> /\ gate.pc = "cgroup_cleanup"
            /\ Gate!Reach("watcher_snapshot", gate.read) /\ Gate!NothingOfB
        BY <3>2 DEF Gate!WatcherSnapshot, Gate!ByGate, Gate!Passed, Gate!At
      <4> QED BY <4>1, DrainReach
    <3>3. CASE Gate!FinalGateWrite
      BY <1>0, <3>3 DEF Gate!FinalGateWrite, Gate!ByGate, Gate!At, GateFields
    <3> QED BY <1>9, <3>1, <3>2, <3>3
  <2>2. /\ container = "stopped"
        /\ harm["restart"] = gate.base["restart"] /\ harm["log"] = gate.base["log"]
        /\ harm["cgroup"] = gate.base["cgroup"] /\ Gate!Last.bad = gate.bad
    BY <2>1 DEF DrainInv, AfterHalt, AfterLog, AfterCgroup, AfterReceipts, AfterWatch
  <2>3. stage \in AfterWatch => Gate!NothingOfB
    BY <2>1 DEF DrainInv, AfterWatch
  <2> QED BY <1>4, <2>1, <2>2, <2>3
<1>10. CASE Gate!Abort \/ Gate!CleanupOnly
  <2>1. UNCHANGED harm /\ DOMAIN gate' = GateFields /\ gate'.pc \in {"killed", "failed"}
    BY <1>0, <1>10 DEF Gate!Abort, Gate!CleanupOnly, Gate!ByGate, GateFields
  <2> QED BY <1>0, <2>1, DrainBefore DEF AfterHalt, AfterLog, AfterCgroup, AfterReceipts, AfterWatch
<1> QED BY <1>1, <1>2, <1>3, <1>5, <1>6, <1>7, <1>8, <1>9, <1>10 DEF Gate!GateNext, Gate!PhaseB

\* What the composition is for the release gate.
LEMMA GatePart ==
    /\ OpsInit => Gate!GateInit
    /\ [OpsNext]_opsVars => Gate!GateNext \/ UNCHANGED gateVars
BY Zenon DEF OpsInit, OpsNext, opsVars

\* A gate that passed missed no failure of its candidate, up to its last
\* breath, for any candidate, any number of receipts, samples and mishaps
\* (run_observer and the drains after the stop, runtime_gate_observer.py).
THEOREM GateMissesNothing == OpsSpec => []PassMissedNothing
<1>1. OpsInit => DrainInv
  <2>1. Gate!GateInit => DrainInv
    BY DEF Gate!GateInit, DrainInv, GateFields, Gate!NoFailures, AfterHalt, AfterLog, AfterCgroup,
           AfterReceipts, AfterWatch
  <2> QED BY <2>1, GatePart
<1>2. DrainInv /\ [OpsNext]_opsVars => DrainInv'
  <2>1. ASSUME DrainInv, UNCHANGED gateVars
        PROVE  DrainInv'
    BY <2>1 DEF gateVars, DrainInv, Gate!Last, Gate!NothingOfB
  <2> QED BY <2>1, DrainStep, GatePart
<1>3. DrainInv => PassMissedNothing
  BY DEF DrainInv, PassMissedNothing, Gate!PassMissedNothing, Gate!OfCandidate,
         AfterHalt, AfterLog, AfterCgroup, AfterReceipts, AfterWatch
<1> QED BY <1>1, <1>2, <1>3, PTL DEF OpsSpec

-----------------------------------------------------------------------------
(* The candidate's receipts. *)

\* Receipts of one journal follow one another across any distance.
LEMMA FollowsTrans ==
    ASSUME NEW q \in Receipts, NEW r \in Receipts, NEW s \in Receipts,
           Follows(q, r), Follows(r, s)
    PROVE  Follows(q, s)
BY DEF Receipts, Follows

\* A receipt that follows the last one follows them all.
LEMMA AppendKept ==
    ASSUME JournalKept, NEW r \in Receipts, receipts' = Append(receipts, r),
           receipts # << >> => Follows(Gate!Last, r)
    PROVE  /\ JournalKept' /\ Len(receipts') = Len(receipts) + 1
           /\ \A i \in 1 .. Len(receipts) : receipts'[i] = receipts[i]
<1>1. /\ receipts' \in Seq(Receipts) /\ Len(receipts') = Len(receipts) + 1
      /\ Len(receipts) \in Nat
      /\ receipts'[Len(receipts) + 1] = r
      /\ \A i \in 1 .. Len(receipts) : receipts'[i] = receipts[i]
  BY DEF JournalKept
<1>2. ASSUME NEW i \in 1 .. Len(receipts'), NEW j \in 1 .. Len(receipts'), i <= j
      PROVE  Follows(receipts'[i], receipts'[j])
  <2>1. CASE j <= Len(receipts)
    BY <1>1, <1>2, <2>1 DEF JournalKept
  <2>2. CASE i = Len(receipts) + 1
    <3>1. receipts'[i] = r /\ receipts'[j] = r
      BY <1>1, <1>2, <2>2
    <3> QED BY <3>1 DEF Follows, Receipts
  <2>3. CASE i <= Len(receipts) /\ j = Len(receipts) + 1
    <3>1. receipts # << >> /\ Gate!Last = receipts[Len(receipts)]
      BY <1>1, <1>2, <2>3 DEF Gate!Last
    <3>2. Follows(receipts[i], receipts[Len(receipts)])
      BY <1>1, <1>2, <2>3 DEF JournalKept
    <3>3. receipts[i] \in Receipts /\ receipts[Len(receipts)] \in Receipts
      BY <1>1, <1>2, <2>3 DEF JournalKept
    <3>4. Follows(receipts[i], r)
      BY <3>1, <3>2, <3>3, FollowsTrans
    <3>5. receipts'[i] = receipts[i] /\ receipts'[j] = r
      BY <1>1, <1>2, <2>3
    <3> QED BY <3>4, <3>5
  <2> QED BY <1>1, <1>2, <2>1, <2>2, <2>3
<1> QED BY <1>1, <1>2 DEF JournalKept

\* A receipt with one field changed.
LEMMA ReceiptField ==
    ASSUME NEW q \in Receipts
    PROVE  /\ \A v \in {"a", "b", "none"} : [q EXCEPT !.work = v] \in Receipts
           /\ \A v \in BOOLEAN : /\ [q EXCEPT !.active = v] \in Receipts
                                 /\ [q EXCEPT !.chunk = v] \in Receipts
                                 /\ [q EXCEPT !.resident = v] \in Receipts
           /\ \A v \in {"clear", "asserted"} : [q EXCEPT !.prio = v] \in Receipts
           /\ \A v \in {"normal", "yielding", "recovering"} : [q EXCEPT !.phase = v] \in Receipts
           /\ \A v \in Nat : /\ [q EXCEPT !.clears = v] \in Receipts
                             /\ [q EXCEPT !.turns = v] \in Receipts
                             /\ [q EXCEPT !.loads = v] \in Receipts
                             /\ [q EXCEPT !.unloads = v] \in Receipts
                             /\ [q EXCEPT !.done = v] \in Receipts
                             /\ [q EXCEPT !.bad = v] \in Receipts
BY DEF Receipts

\* The fields of a receipt.
LEMMA ReceiptShape ==
    ASSUME NEW q \in Receipts
    PROVE  /\ DOMAIN q = {"work", "active", "chunk", "resident", "prio", "phase", "clears",
                          "turns", "loads", "unloads", "done", "bad"}
           /\ q.turns \in Nat /\ q.loads \in Nat /\ q.unloads \in Nat
           /\ q.clears \in Nat /\ q.done \in Nat /\ q.bad \in Nat
           /\ q.turns + 1 \in Nat /\ q.loads + 1 \in Nat /\ q.unloads + 1 \in Nat
           /\ q.clears + 1 \in Nat /\ q.done + 1 \in Nat /\ q.bad + 1 \in Nat
           /\ q.prio \in {"clear", "asserted"} /\ q.resident \in BOOLEAN
           /\ q.phase \in {"normal", "yielding", "recovering"}
BY DEF Receipts

\* Every step of the candidate counts what it changes (runtime_receipts.py).
LEMMA CandidateFollows ==
    ASSUME JournalKept, Gate!CandidateStep
    PROVE  \/ UNCHANGED receipts
           \/ \E r \in Receipts : /\ receipts' = Append(receipts, r)
                                  /\ receipts # << >> => Follows(Gate!Last, r)
<1> DEFINE q == Gate!Last
<1>0. q \in Receipts
  <2>1. CASE receipts = << >>
    BY <2>1 DEF Gate!Last, Gate!Idle, Receipts
  <2>2. CASE receipts # << >>
    BY <2>2 DEF Gate!Last, JournalKept
  <2> QED BY <2>1, <2>2
<1>1. ASSUME NEW r, r \in Receipts, Follows(q, r), Gate!Append1(r)
      PROVE  \E s \in Receipts : receipts' = Append(receipts, s) /\ (receipts # << >> => Follows(q, s))
  BY <1>1 DEF Gate!Append1
<1>2. CASE Gate!PublishSubtitle
  BY <1>2 DEF Gate!PublishSubtitle
<1>3. CASE Gate!Boot
  <2>1. receipts = << >> /\ receipts' = Append(receipts, Gate!Idle)
    BY <1>3 DEF Gate!Boot, Gate!Append1
  <2>2. Gate!Idle \in Receipts
    BY DEF Gate!Idle, Receipts
  <2> QED BY <2>1, <2>2
<1>4. ASSUME NEW r, Gate!Publish(r)
      PROVE  Gate!Append1(r)
  BY <1>4 DEF Gate!Publish
<1>5. /\ DOMAIN q = {"work", "active", "chunk", "resident", "prio", "phase", "clears",
                     "turns", "loads", "unloads", "done", "bad"}
      /\ q.turns \in Nat /\ q.loads \in Nat /\ q.unloads \in Nat
      /\ q.clears \in Nat /\ q.done \in Nat /\ q.bad \in Nat
      /\ q.turns + 1 \in Nat /\ q.loads + 1 \in Nat /\ q.unloads + 1 \in Nat
      /\ q.clears + 1 \in Nat /\ q.done + 1 \in Nat /\ q.bad + 1 \in Nat
      /\ q.prio \in {"clear", "asserted"} /\ q.resident \in BOOLEAN
      /\ q.phase \in {"normal", "yielding", "recovering"}
  <2> HIDE DEF q
  <2> QED BY <1>0, ReceiptShape
<1>6. CASE Gate!LoadModel
  <2> DEFINE r1 == [q EXCEPT !.resident = TRUE]
             r == [r1 EXCEPT !.loads = q.loads + 1]
  <2>1. Gate!Append1(r) /\ ~q.resident
    BY <1>4, <1>6 DEF Gate!LoadModel
  <2> HIDE DEF q
  <2>3. r \in Receipts
    <3>1. r1 \in Receipts
      BY <1>5, <1>0, ReceiptField
    <3> HIDE DEF r1
    <3> QED BY <1>5, <3>1, ReceiptField
  <2>4. /\ r.turns = q.turns /\ r.loads = q.loads + 1 /\ r.unloads = q.unloads
        /\ r.prio = q.prio /\ r.resident = TRUE
    BY <1>5
  <2> HIDE DEF r
  <2>5. Follows(q, r)
    BY <1>5, <2>1, <2>4 DEF Follows
  <2> QED BY <1>1, <2>1, <2>3, <2>5 DEF q
<1>7. CASE Gate!BindWorkload
  <2> DEFINE work == Gate!Expected(q)
             chunk == candidate = "documented"
             r1 == [q EXCEPT !.work = work]
             r2 == [r1 EXCEPT !.active = TRUE]
             r == [r2 EXCEPT !.chunk = chunk]
  <2>1. Gate!Append1(r)
    BY <1>4, <1>7 DEF Gate!BindWorkload
  <2>2. /\ work \in {"a", "b", "none"}
        /\ chunk \in BOOLEAN
    BY <1>5 DEF Gate!Expected
  <2> HIDE DEF q, work, chunk
  <2>3. r \in Receipts
    <3>1. r1 \in Receipts
      BY <1>5, <2>2, <1>0, ReceiptField
    <3> HIDE DEF r1
    <3>2. r2 \in Receipts
      BY <1>5, <2>2, <3>1, ReceiptField
    <3> HIDE DEF r2
    <3> QED BY <1>5, <2>2, <3>2, ReceiptField
  <2>4. /\ r.turns = q.turns /\ r.loads = q.loads /\ r.unloads = q.unloads
        /\ r.prio = q.prio /\ r.resident = q.resident
    BY <1>5
  <2> HIDE DEF r
  <2>5. Follows(q, r)
    BY <1>5, <2>1, <2>2, <2>4 DEF Follows
  <2> QED BY <1>1, <2>1, <2>3, <2>5 DEF q
<1>8. CASE Gate!BeginChunk
  <2> DEFINE r == [q EXCEPT !.chunk = TRUE]
  <2>1. Gate!Append1(r)
    BY <1>4, <1>8 DEF Gate!BeginChunk
  <2> HIDE DEF q
  <2>3. r \in Receipts
    <3> QED BY <1>5, <1>0, ReceiptField
  <2>4. /\ r.turns = q.turns /\ r.loads = q.loads /\ r.unloads = q.unloads
        /\ r.prio = q.prio /\ r.resident = q.resident
    BY <1>5
  <2> HIDE DEF r
  <2>5. Follows(q, r)
    BY <1>5, <2>1, <2>4 DEF Follows
  <2> QED BY <1>1, <2>1, <2>3, <2>5 DEF q
<1>9. CASE Gate!ConsumeAssertion
  <2> DEFINE r1 == [q EXCEPT !.prio = "asserted"]
             r2 == [r1 EXCEPT !.phase = "yielding"]
             r3 == [r2 EXCEPT !.clears = 0]
             r == [r3 EXCEPT !.turns = q.turns + 1]
  <2>1. Gate!Append1(r)
    BY <1>4, <1>9 DEF Gate!ConsumeAssertion
  <2> HIDE DEF q
  <2>3. r \in Receipts
    <3>1. r1 \in Receipts
      BY <1>5, <1>0, ReceiptField
    <3> HIDE DEF r1
    <3>2. r2 \in Receipts
      BY <1>5, <3>1, ReceiptField
    <3> HIDE DEF r2
    <3>3. r3 \in Receipts
      BY <1>5, <3>2, ReceiptField
    <3> HIDE DEF r3
    <3> QED BY <1>5, <3>3, ReceiptField
  <2>4. /\ r.turns = q.turns + 1 /\ r.loads = q.loads /\ r.unloads = q.unloads
        /\ r.prio = "asserted" /\ r.resident = q.resident
    BY <1>5
  <2> HIDE DEF r
  <2>5. Follows(q, r)
    BY <1>5, <2>1, <2>4 DEF Follows
  <2> QED BY <1>1, <2>1, <2>3, <2>5 DEF q
<1>10. CASE Gate!UnwindChunk
  <2> DEFINE r1 == [q EXCEPT !.chunk = FALSE]
             r == [r1 EXCEPT !.phase = "recovering"]
  <2>1. Gate!Append1(r)
    BY <1>4, <1>10 DEF Gate!UnwindChunk
  <2> HIDE DEF q
  <2>3. r \in Receipts
    <3>1. r1 \in Receipts
      BY <1>5, <1>0, ReceiptField
    <3> HIDE DEF r1
    <3> QED BY <1>5, <3>1, ReceiptField
  <2>4. /\ r.turns = q.turns /\ r.loads = q.loads /\ r.unloads = q.unloads
        /\ r.prio = q.prio /\ r.resident = q.resident
    BY <1>5
  <2> HIDE DEF r
  <2>5. Follows(q, r)
    BY <1>5, <2>1, <2>4 DEF Follows
  <2> QED BY <1>1, <2>1, <2>3, <2>5 DEF q
<1>11. CASE Gate!UnloadModel
  <2> DEFINE r1 == [q EXCEPT !.resident = FALSE]
             r == [r1 EXCEPT !.unloads = q.unloads + 1]
  <2>1. Gate!Append1(r)
    BY <1>4, <1>11 DEF Gate!UnloadModel
  <2> HIDE DEF q
  <2>3. r \in Receipts
    <3>1. r1 \in Receipts
      BY <1>5, <1>0, ReceiptField
    <3> HIDE DEF r1
    <3> QED BY <1>5, <3>1, ReceiptField
  <2>4. /\ r.turns = q.turns /\ r.loads = q.loads /\ r.unloads = q.unloads + 1
        /\ r.prio = q.prio /\ r.resident = FALSE
    BY <1>5
  <2> HIDE DEF r
  <2>5. Follows(q, r)
    BY <1>5, <2>1, <2>4 DEF Follows
  <2> QED BY <1>1, <2>1, <2>3, <2>5 DEF q
<1>12. CASE Gate!CountClear
  <2> DEFINE turns == IF q.prio = "asserted" THEN q.turns + 1 ELSE q.turns
             phase == IF q.clears = 2 THEN "normal" ELSE q.phase
             r1 == [q EXCEPT !.prio = "clear"]
             r2 == [r1 EXCEPT !.clears = q.clears + 1]
             r3 == [r2 EXCEPT !.turns = turns]
             r == [r3 EXCEPT !.phase = phase]
  <2>1. Gate!Append1(r)
    BY <1>4, <1>12 DEF Gate!CountClear
  <2>2. /\ turns \in Nat
        /\ turns >= q.turns
        /\ (turns = q.turns => q.prio = "clear")
        /\ phase \in {"normal", "yielding", "recovering"}
    BY <1>5
  <2> HIDE DEF q, turns, phase
  <2>3. r \in Receipts
    <3>1. r1 \in Receipts
      BY <1>5, <2>2, <1>0, ReceiptField
    <3> HIDE DEF r1
    <3>2. r2 \in Receipts
      BY <1>5, <2>2, <3>1, ReceiptField
    <3> HIDE DEF r2
    <3>3. r3 \in Receipts
      BY <1>5, <2>2, <3>2, ReceiptField
    <3> HIDE DEF r3
    <3> QED BY <1>5, <2>2, <3>3, ReceiptField
  <2>4. /\ r.turns = turns /\ r.loads = q.loads /\ r.unloads = q.unloads
        /\ r.prio = "clear" /\ r.resident = q.resident
    BY <1>5
  <2> HIDE DEF r
  <2>5. Follows(q, r)
    BY <1>5, <2>1, <2>2, <2>4 DEF Follows
  <2> QED BY <1>1, <2>1, <2>3, <2>5 DEF q
<1>13. CASE Gate!CompleteWorkload
  <2> DEFINE r1 == [q EXCEPT !.active = FALSE]
             r2 == [r1 EXCEPT !.chunk = FALSE]
             r == [r2 EXCEPT !.done = q.done + 1]
  <2>1. Gate!Append1(r)
    BY <1>4, <1>13 DEF Gate!CompleteWorkload
  <2> HIDE DEF q
  <2>3. r \in Receipts
    <3>1. r1 \in Receipts
      BY <1>5, <1>0, ReceiptField
    <3> HIDE DEF r1
    <3>2. r2 \in Receipts
      BY <1>5, <3>1, ReceiptField
    <3> HIDE DEF r2
    <3> QED BY <1>5, <3>2, ReceiptField
  <2>4. /\ r.turns = q.turns /\ r.loads = q.loads /\ r.unloads = q.unloads
        /\ r.prio = q.prio /\ r.resident = q.resident
    BY <1>5
  <2> HIDE DEF r
  <2>5. Follows(q, r)
    BY <1>5, <2>1, <2>4 DEF Follows
  <2> QED BY <1>1, <2>1, <2>3, <2>5 DEF q
<1>14. CASE Gate!Heartbeat
  <2>1. Gate!Append1(q)
    BY <1>4, <1>14 DEF Gate!Heartbeat
  <2>2. Follows(q, q)
    <3> HIDE DEF q
    <3> QED BY <1>5 DEF Follows
  <2> QED BY <1>0, <1>1, <2>1, <2>2
<1>15. ASSUME Gate!Append1([q EXCEPT !.resident = ~q.resident,
                              !.loads = IF q.resident THEN q.loads ELSE q.loads + 1,
                              !.unloads = IF q.resident THEN q.unloads + 1 ELSE q.unloads])
      PROVE  \E s \in Receipts : receipts' = Append(receipts, s) /\ (receipts # << >> => Follows(q, s))
  <2> DEFINE flipped == ~q.resident
             loads == IF q.resident THEN q.loads ELSE q.loads + 1
             unloads == IF q.resident THEN q.unloads + 1 ELSE q.unloads
             r1 == [q EXCEPT !.resident = flipped]
             r2 == [r1 EXCEPT !.loads = loads]
             r == [r2 EXCEPT !.unloads = unloads]
  <2>1. Gate!Append1(r)
    BY <1>15
  <2>2. /\ flipped \in BOOLEAN
        /\ loads \in Nat
        /\ loads >= q.loads
        /\ unloads \in Nat
        /\ unloads >= q.unloads
        /\ (loads # q.loads \/ unloads # q.unloads)
    BY <1>5
  <2> HIDE DEF q, flipped, loads, unloads
  <2>3. r \in Receipts
    <3>1. r1 \in Receipts
      BY <1>5, <2>2, <1>0, ReceiptField
    <3> HIDE DEF r1
    <3>2. r2 \in Receipts
      BY <1>5, <2>2, <3>1, ReceiptField
    <3> HIDE DEF r2
    <3> QED BY <1>5, <2>2, <3>2, ReceiptField
  <2>4. /\ r.turns = q.turns /\ r.loads = loads /\ r.unloads = unloads
        /\ r.prio = q.prio /\ r.resident = flipped
    BY <1>5
  <2> HIDE DEF r
  <2>5. Follows(q, r)
    BY <1>5, <2>1, <2>2, <2>4 DEF Follows
  <2> QED BY <1>1, <2>1, <2>3, <2>5 DEF q
<1>16. ASSUME Gate!Append1([q EXCEPT !.bad = q.bad + 1])
      PROVE  \E s \in Receipts : receipts' = Append(receipts, s) /\ (receipts # << >> => Follows(q, s))
  <2> DEFINE r == [q EXCEPT !.bad = q.bad + 1]
  <2>1. Gate!Append1(r)
    BY <1>16
  <2> HIDE DEF q
  <2>3. r \in Receipts
    <3> QED BY <1>5, <1>0, ReceiptField
  <2>4. /\ r.turns = q.turns /\ r.loads = q.loads /\ r.unloads = q.unloads
        /\ r.prio = q.prio /\ r.resident = q.resident
    BY <1>5
  <2> HIDE DEF r
  <2>5. Follows(q, r)
    BY <1>5, <2>1, <2>4 DEF Follows
  <2> QED BY <1>1, <2>1, <2>3, <2>5 DEF q
<1>17. CASE Gate!Slip
  BY <1>15, <1>16, <1>17 DEF Gate!Slip
<1> QED BY <1>2, <1>3, <1>6, <1>7, <1>8, <1>9, <1>10, <1>11, <1>12, <1>13, <1>14, <1>17
        DEF Gate!CandidateStep

-----------------------------------------------------------------------------
(* The events and the seals. *)

\* What the observer sealed of a journal it holds of a longer one.
LEMMA CycleExtended ==
    ASSUME CycleInv, UNCHANGED gate, JournalKept', Len(receipts') \in Nat,
           Len(receipts) <= Len(receipts'),
           \A i \in 1 .. Len(receipts) : receipts'[i] = receipts[i]
    PROVE  CycleInv'
<1>0. Len(receipts) \in Nat
  BY DEF CycleInv, JournalKept
<1>1. ASSUME NEW n \in 1 .. Len(gate.events)
      PROVE  /\ gate.events[n].at \in 1 .. Len(receipts')
             /\ receipts'[gate.events[n].at] = receipts[gate.events[n].at]
             /\ 1 \in 1 .. Len(gate.events)
             /\ receipts'[gate.events[1].at] = receipts[gate.events[1].at]
  <2>1. 1 \in 1 .. Len(gate.events)
    BY <1>1 DEF CycleInv, EventsKept
  <2>2. gate.events[n].at \in 1 .. Len(receipts) /\ gate.events[1].at \in 1 .. Len(receipts)
    BY <1>1, <2>1 DEF CycleInv, EventsKept
  <2> QED BY <1>0, <2>1, <2>2
<1>2. EventsKept'
  <2>1. ASSUME NEW n \in 1 .. Len(gate.events), n # 5
        PROVE  Fits(n)'
    <3>1. Fits(n)
      BY <2>1 DEF CycleInv, EventsKept
    <3> QED BY <1>1, <2>1, <3>1 DEF Fits
  <2> QED BY <1>1, <2>1 DEF CycleInv, EventsKept
<1>3. ASSUME Len(gate.events) = 10
      PROVE  /\ \A n \in 1..10 : gate.events[n].at \in 1 .. Len(receipts)
             /\ \A n \in 1..10 \ {5} : Gate!EventReceipt(n)' = Gate!EventReceipt(n)
             /\ \A n \in 1..10 : Gate!StageEnd(n)' = Gate!StageEnd(n)
  <2>1. \A n \in 1..10 : gate.events[n].at \in 1 .. Len(receipts)
    BY <1>3 DEF CycleInv, EventsKept
  <2>2. \A n \in 1..10 \ {5} : gate.events[n].is = gate.events[n].at
    BY <1>3 DEF CycleInv, EventsKept, Fits
  <2>3. \A n \in 1..10 \ {5} : Gate!EventReceipt(n)' = Gate!EventReceipt(n)
    BY <1>1, <1>3, <2>1, <2>2 DEF Gate!EventReceipt
  <2> QED BY <2>1, <2>3 DEF Gate!StageEnd
<1>4. ASSUME Len(gate.events) = 10, Staged
      PROVE  Staged'
  <2> SUFFICES ASSUME NEW n \in 1..10 \ {5}, NEW i \in gate.events[n].at .. Gate!StageEnd(n)
               PROVE  receipts'[i] = Gate!EventReceipt(n)'
    BY <1>3, <1>4 DEF Staged
  <2>1. /\ gate.events[n].at \in 1 .. Len(receipts)
        /\ gate.events[10].at \in 1 .. Len(receipts)
        /\ n # 10 => gate.events[IF n = 4 THEN 6 ELSE n + 1].at \in 1 .. Len(receipts)
    <3>1. 10 \in 1..10 /\ (n # 10 => (IF n = 4 THEN 6 ELSE n + 1) \in 1..10)
      OBVIOUS
    <3> QED BY <1>3, <1>4, <3>1
  <2>2. i \in 1 .. Len(receipts)
    BY <1>0, <2>1 DEF Gate!StageEnd
  <2> QED BY <1>3, <1>4, <2>2 DEF Staged
<1>5. ASSUME Len(gate.events) = 10, Gate!ContinuesPhaseA
      PROVE  Gate!ContinuesPhaseA'
  <2>1. \A i \in gate.events[10].at + 1 .. gate.ended : receipts'[i] = receipts[i]
    <3>1. gate.events[10].at \in 1 .. Len(receipts)
      BY <1>3, <1>5
    <3>2. \A i \in gate.events[10].at + 1 .. gate.ended : i \in 1 .. Len(receipts)
      BY <1>0, <3>1 DEF CycleInv
    <3> QED BY <3>2
  <2>2. Gate!EventReceipt(10)' = Gate!EventReceipt(10)
    BY <1>3, <1>5
  <2> DEFINE trace == gate.events[10].at + 1 .. gate.ended
  <2>3. PICK admission \in trace :
           /\ receipts[admission].work = "b" /\ receipts[admission].active
           /\ gate.reset < admission /\ admission <= gate.began
           /\ \A i \in trace : i < admission =>
                /\ receipts[i].work = "a" /\ ~receipts[i].active /\ ~receipts[i].chunk
                /\ receipts[i].done = 1
           /\ Gate!Stable(receipts[admission], Gate!EventReceipt(10))
           /\ \A i \in trace : i >= admission =>
                Gate!Quiet(receipts[i]) /\ Gate!Stable(receipts[i], receipts[admission])
    BY <1>5 DEF Gate!ContinuesPhaseA
  <2> DEFINE later == receipts'
             event == Gate!EventReceipt(10)'
  <2>4. /\ later[admission].work = "b" /\ later[admission].active
        /\ gate.reset < admission /\ admission <= gate.began
        /\ \A i \in trace : i < admission =>
             /\ later[i].work = "a" /\ ~later[i].active /\ ~later[i].chunk
             /\ later[i].done = 1
        /\ Gate!Stable(later[admission], event)
        /\ \A i \in trace : i >= admission =>
             Gate!Quiet(later[i]) /\ Gate!Stable(later[i], later[admission])
    <3> HIDE DEF later, event, trace
    <3>1. \A i \in trace : later[i] = receipts[i]
      BY <2>1 DEF later, trace
    <3>2. event = Gate!EventReceipt(10)
      BY <2>2 DEF event
    <3>3. later[admission] = receipts[admission]
      BY <3>1
    <3> QED BY <2>3, <3>1, <3>2, <3>3
  <2> QED BY <2>4 DEF Gate!ContinuesPhaseA, Gate!Stable, Gate!Quiet, Gate!Admitted
<1>6. gate.ended <= Len(receipts')
  BY <1>0 DEF CycleInv
<1>7. gate.pc \in AfterA => Staged'
  BY <1>4 DEF CycleInv
<1>8. gate.pc \in AfterB => Gate!ContinuesPhaseA'
  BY <1>5 DEF CycleInv, AfterA
<1> QED BY <1>2, <1>6, <1>7, <1>8 DEF CycleInv

\* A step of the observer that records no event.
LEMMA CycleMoved ==
    ASSUME CycleInv, UNCHANGED receipts, DOMAIN gate' = GateFields,
           gate'.events = gate.events, gate'.read \in Nat,
           gate'.ended \in Nat, gate'.ended <= Len(receipts),
           gate'.pc \in AfterA \cup {"seal_a"} => Len(gate.events) = 10,
           gate'.pc \in AfterA => Staged,
           gate'.pc \in AfterB => /\ Gate!ContinuesPhaseA /\ gate'.ended = gate.ended
                                  /\ gate'.reset = gate.reset /\ gate'.began = gate.began
    PROVE  CycleInv'
<1>1. JournalKept'
  BY DEF CycleInv, JournalKept
<1>2. EventsKept'
  <2>1. \A n : Fits(n) => Fits(n)'
    BY DEF Fits
  <2> QED BY <2>1 DEF CycleInv, EventsKept
<1>3. /\ \A n : Gate!EventReceipt(n)' = Gate!EventReceipt(n)
      /\ \A n : Gate!StageEnd(n)' = Gate!StageEnd(n)
  BY DEF Gate!EventReceipt, Gate!StageEnd
<1>4. Staged => Staged'
  BY <1>3 DEF Staged
<1>5. gate'.pc \in AfterB => Gate!ContinuesPhaseA'
  BY <1>3 DEF Gate!ContinuesPhaseA, Gate!Stable, Gate!Quiet, Gate!Admitted
<1> QED BY <1>1, <1>2, <1>4, <1>5 DEF CycleInv

\* What is known of a new event, the n-th from zero.
Held(n, at, is) ==
    /\ n # 4 => is = at
    /\ n = 0 => receipts[at].prio = "clear" /\ receipts[at].resident = TRUE
    /\ n > 0 /\ n # 4 => Gate!EventFits(n, at, receipts[at])
    /\ n > 0 => \/ at > gate.events[n].at
                \/ n = 4 /\ at = gate.events[n].at

\* A new event, held against its equations.
LEMMA EventAdded ==
    ASSUME CycleInv, UNCHANGED receipts, NEW at \in 1 .. Len(receipts), NEW is \in Nat,
           gate.pc = "events",
           DOMAIN gate' = GateFields, gate'.pc = "events",
           gate'.read \in Nat, gate'.ended = gate.ended,
           gate'.events = Append(gate.events, [at |-> at, is |-> is]),
           NEW n \in 0..9, Len(gate.events) = n, Held(n, at, is)
    PROVE  CycleInv'
<1> DEFINE r == receipts[at]
<1>0. gate.events \in Seq([at : Nat, is : Nat]) /\ receipts \in Seq(Receipts)
  BY DEF CycleInv, EventsKept, JournalKept
<1>1. /\ n \in 0..9 /\ gate.events \in Seq([at : Nat, is : Nat])
      /\ receipts \in Seq(Receipts) /\ Len(receipts) \in Nat
  BY <1>0
<1>2. /\ gate'.events \in Seq([at : Nat, is : Nat]) /\ Len(gate'.events) = n + 1
      /\ \A m \in 1 .. n : gate'.events[m] = gate.events[m]
      /\ gate'.events[n + 1] = [at |-> at, is |-> is]
  BY <1>1
<1>3. /\ gate'.events[n + 1].at = at /\ gate'.events[n + 1].is = is
  BY <1>2
<1>4. r \in Receipts
  BY <1>1
<1>5. ASSUME NEW m, m = n + 1, n # 4
      PROVE  Fits(m)'
  <2>1. CASE n = 0
    <3>1. gate'.events[1].at = at /\ gate'.events[1].is = at
      BY <1>3, <2>1 DEF Held
    <3>2. r.prio = "clear" /\ r.resident = TRUE
      BY <2>1 DEF Held
    <3>3. receipts'[gate'.events[1].at] = r
      BY <3>1
    <3>4. Fits(1)'
      <4>1. r.prio = (IF 1 \in 2..5 THEN "asserted" ELSE "clear") /\ (r.resident <=> 1 \in {1, 2, 3, 9, 10})
        BY <3>2
      <4> HIDE DEF r
      <4> QED BY <3>1, <3>3, <4>1 DEF Fits
    <3> QED BY <1>5, <2>1, <3>4
  <2>2. CASE n > 0
    <3>1. 1 \in 1 .. n /\ gate'.events[1] = gate.events[1]
      BY <1>1, <1>2, <2>2
    <3>2. Gate!EventReceipt(1) = receipts[gate.events[1].at]
      BY <3>1 DEF Gate!EventReceipt, CycleInv, EventsKept, Fits
    <3>3. Gate!EventFits(n, at, r)
      BY <1>5, <2>2 DEF Held
    <3>4. /\ r.prio = (IF n \in 1..4 THEN "asserted" ELSE "clear")
          /\ r.resident = (n \in {0, 1, 2, 8, 9})
      BY <3>3 DEF Gate!EventFits
    <3>5. /\ r.done = Gate!EventReceipt(1).done + (IF n = 9 THEN 1 ELSE 0)
          /\ r.bad = Gate!EventReceipt(1).bad
      BY <2>2, <3>3 DEF Gate!EventFits
    <3>5b. r.resident <=> m \in {1, 2, 3, 9, 10}
      <4>1. n \in {0, 1, 2, 8, 9} <=> m \in {1, 2, 3, 9, 10}
        BY <1>5
      <4> QED BY <3>4, <4>1
    <3>6. /\ r.prio = (IF m \in 2..5 THEN "asserted" ELSE "clear")
          /\ r.resident <=> m \in {1, 2, 3, 9, 10}
          /\ m = 10 => r.done = receipts[gate.events[1].at].done + 1
          /\ r.bad = receipts[gate.events[1].at].bad
      BY <1>1, <1>5, <3>2, <3>4, <3>5, <3>5b
    <3>7. gate'.events[m].is = gate'.events[m].at /\ receipts'[gate'.events[m].at] = r
      BY <1>3, <1>5 DEF Held
    <3> QED BY <3>1, <3>6, <3>7 DEF Fits
  <2> QED BY <1>1, <2>1, <2>2
<1>6. ASSUME NEW m \in 1 .. n, m # 5
      PROVE  Fits(m)'
  <2>1. gate'.events[m] = gate.events[m] /\ gate'.events[1] = gate.events[1] /\ Fits(m)
    <3>1. m \in 1 .. Len(gate.events) /\ 1 \in 1 .. n
      BY <1>1, <1>6
    <3> QED BY <1>2, <1>6, <3>1 DEF CycleInv, EventsKept
  <2> QED BY <2>1 DEF Fits
<1>7. EventsKept'
  <2>1. ASSUME NEW m \in 1 .. n + 1
        PROVE  /\ gate'.events[m].at \in 1 .. Len(receipts)
               /\ m > 1 => \/ gate'.events[m - 1].at < gate'.events[m].at
                           \/ m = 5 /\ gate'.events[m - 1].at <= gate'.events[m].at
    <3>1. CASE m \in 1 .. n
      <4>1. gate'.events[m] = gate.events[m] /\ (m > 1 => gate'.events[m - 1] = gate.events[m - 1])
        BY <1>1, <1>2, <3>1
      <4>2. /\ gate.events[m].at \in 1 .. Len(receipts)
            /\ m > 1 => \/ gate.events[m - 1].at < gate.events[m].at
                        \/ m = 5 /\ gate.events[m - 1].at <= gate.events[m].at
        BY <3>1 DEF CycleInv, EventsKept
      <4> QED BY <4>1, <4>2
    <3>2. CASE m = n + 1
      <4>1. m > 1 => gate'.events[m - 1] = gate.events[n] /\ n > 0 /\ gate.events[n].at \in Nat
        <5>1. m > 1 => n > 0 /\ m - 1 = n /\ n \in 1 .. n
          BY <1>1, <3>2
        <5>2. n > 0 => gate.events[n].at \in Nat
          <6>1. n > 0 => n \in 1 .. Len(gate.events)
            BY <1>1
          <6>2. n > 0 => gate.events[n].at \in 1 .. Len(receipts)
            BY <6>1 DEF CycleInv, EventsKept
          <6> QED BY <1>1, <6>2
        <5> QED BY <1>2, <5>1, <5>2
      <4>2. gate'.events[m].at = at
        BY <1>3, <3>2
      <4>3. n > 0 => \/ at > gate.events[n].at
                     \/ n = 4 /\ at = gate.events[n].at
        BY DEF Held
      <4>4. gate'.events[m].at \in 1 .. Len(receipts)
        BY <4>2
      <4>5. m > 1 => gate'.events[m - 1].at = gate.events[n].at /\ (n = 4 => m = 5)
        BY <3>2, <4>1
      <4>6. m > 1 => \/ gate'.events[m - 1].at < gate'.events[m].at
                     \/ m = 5 /\ gate'.events[m - 1].at <= gate'.events[m].at
        <5>1. at \in Nat
          BY <1>1
        <5> QED BY <4>1, <4>2, <4>3, <4>5, <5>1
      <4> QED BY <4>4, <4>6
    <3> QED BY <1>1, <2>1, <3>1, <3>2
  <2>2. ASSUME NEW m \in 1 .. n + 1, m # 5
        PROVE  Fits(m)'
    BY <1>1, <1>5, <1>6, <2>2
  <2>3. Len(gate'.events) <= 10
    BY <1>1, <1>2
  <2> QED BY <1>1, <1>2, <2>1, <2>2, <2>3 DEF EventsKept
<1>8. "events" \notin AfterA \cup {"seal_a"} /\ AfterB \subseteq AfterA
  BY DEF AfterA, AfterB, AfterHalt, AfterLog, AfterCgroup, AfterReceipts, AfterWatch
<1>9. JournalKept' /\ gate'.ended \in Nat /\ gate'.ended <= Len(receipts')
  BY DEF CycleInv, JournalKept
<1> QED BY <1>7, <1>8, <1>9 DEF CycleInv

\* The first event is known by what its wait looked for.
LEMMA FirstEvent ==
    ASSUME NEW r \in Receipts, Gate!Matches(Gate!Kinds[1], r)
    PROVE  r.prio = "clear" /\ r.resident = TRUE
<1>1. Gate!Kinds[1] = "pre_assertion"
  BY DEF Gate!Kinds
<1>2. r.resident \in BOOLEAN
  BY ReceiptShape
<1> QED BY <1>1, <1>2 DEF Gate!Matches

\* RecordEvent and RecordUnloadedGpu, the steps that add an event.
LEMMA CycleRecorded ==
    ASSUME CycleInv, Gate!RecordEvent \/ Gate!RecordUnloadedGpu
    PROVE  CycleInv'
<1>0. /\ DOMAIN gate = GateFields /\ receipts \in Seq(Receipts) /\ Len(receipts) \in Nat
      /\ gate.events \in Seq([at : Nat, is : Nat]) /\ Len(gate.events) \in 0..10
      /\ gate.read \in Nat
  <2>1. /\ DOMAIN gate = GateFields /\ receipts \in Seq(Receipts)
        /\ gate.events \in Seq([at : Nat, is : Nat]) /\ Len(gate.events) <= 10
        /\ gate.read \in Nat
    BY DEF CycleInv, JournalKept, EventsKept
  <2>2. Len(receipts) \in Nat /\ Len(gate.events) \in Nat
    BY <2>1
  <2>3. Len(gate.events) \in 0..10
    <3>1. \A k \in Nat : k <= 10 => k \in 0..10
      OBVIOUS
    <3>2. Len(gate.events) <= 10
      BY <2>1
    <3> QED BY <2>2, <3>1, <3>2
  <2> QED BY <2>1, <2>2, <2>3
<1>1. CASE Gate!RecordEvent
  <2>1. PICK i \in DOMAIN receipts :
           /\ gate.pc = "events" /\ Len(gate.events) \notin {4, 10}
           /\ Gate!Matches(Gate!Kinds[Len(gate.events) + 1], receipts[i])
           /\ Len(gate.events) > 0 => Gate!EventFits(Len(gate.events), i, receipts[i])
           /\ gate' = [gate EXCEPT !.read = Len(receipts), !.after = i,
                                   !.events = Append(gate.events, [at |-> i, is |-> i])]
           /\ UNCHANGED receipts
    BY <1>1 DEF Gate!RecordEvent, Gate!FirstAfter, Gate!At, Gate!ByGate
  <2>2. i \in 1 .. Len(receipts) /\ i \in Nat /\ receipts[i] \in Receipts
    BY <1>0, <2>1
  <2>3. PICK n \in 0..9 : Len(gate.events) = n /\ n # 4
    BY <1>0, <2>1
  <2>4. /\ DOMAIN gate' = GateFields /\ gate'.pc = "events" /\ gate'.read = Len(receipts)
        /\ gate'.ended = gate.ended
        /\ gate'.events = Append(gate.events, [at |-> i, is |-> i])
    BY <1>0, <2>1 DEF GateFields
  <2>5. n > 0 => Gate!EventFits(n, i, receipts[i])
    BY <2>1, <2>3
  <2>6. n > 0 => i > gate.events[n].at \/ (n = 4 /\ i = gate.events[n].at)
    BY <2>5 DEF Gate!EventFits
  <2>7. n = 0 => receipts[i].prio = "clear" /\ receipts[i].resident = TRUE
    <3>1. n = 0 => Gate!Matches(Gate!Kinds[1], receipts[i])
      BY <2>1, <2>3
    <3> QED BY <2>2, <3>1, FirstEvent
  <2>8. Held(n, i, i)
    BY <2>3, <2>5, <2>6, <2>7 DEF Held
  <2> QED BY <1>0, <2>1, <2>2, <2>3, <2>4, <2>8, EventAdded
<1>2. CASE Gate!RecordUnloadedGpu
  <2>1. /\ gate.pc = "events" /\ Len(gate.events) = 4
        /\ Gate!EventFits(4, Len(receipts), receipts[gate.read])
        /\ gate' = [gate EXCEPT !.events = Append(gate.events, [at |-> Len(receipts),
                                                                is |-> gate.read])]
        /\ UNCHANGED receipts
    BY <1>2 DEF Gate!RecordUnloadedGpu, Gate!At, Gate!ByGate
  <2>2. gate.events[4].at \in 1 .. Len(receipts)
    BY <2>1 DEF CycleInv, EventsKept
  <2>3. Len(receipts) \in 1 .. Len(receipts)
    <3>1. Len(receipts) \in Nat
      BY <1>0
    <3> QED BY <2>2, <3>1
  <2>4. /\ DOMAIN gate' = GateFields /\ gate'.pc = "events" /\ gate'.read = gate.read
        /\ gate'.ended = gate.ended
        /\ gate'.events = Append(gate.events, [at |-> Len(receipts), is |-> gate.read])
    BY <1>0, <2>1 DEF GateFields
  <2>5. Len(receipts) > gate.events[4].at \/ Len(receipts) = gate.events[4].at
    BY <1>0, <2>2
  <2>6. Held(4, Len(receipts), gate.read)
    BY <2>5 DEF Held
  <2>7. 4 \in 0..9
    OBVIOUS
  <2> HIDE <2>5
  <2> QED BY <1>0, <2>1, <2>3, <2>4, <2>6, <2>7, EventAdded
<1> QED BY <1>1, <1>2

\* Every step of the gate: the seals add what they checked.
LEMMA CycleStep ==
    ASSUME CycleInv, DOMAIN harm = Gate!Sources, Gate!GateNext
    PROVE  CycleInv'
<1>0. /\ DOMAIN gate = GateFields /\ gate.read \in Nat /\ Len(receipts) \in Nat
      /\ gate.ended \in Nat /\ gate.ended <= Len(receipts)
  <2>1. receipts \in Seq(Receipts)
    BY DEF CycleInv, JournalKept
  <2> QED BY <2>1 DEF CycleInv
<1>a. AfterB \subseteq AfterA
  BY DEF AfterA
<1>1. CASE Gate!CandidateStep \/ Gate!Strike \/ Gate!Signal
  <2>1. UNCHANGED gate
    BY <1>1, AroundTheGate
  <2>2. CASE UNCHANGED receipts
    <3>1. /\ JournalKept' /\ Len(receipts') \in Nat /\ Len(receipts) <= Len(receipts')
          /\ \A i \in 1 .. Len(receipts) : receipts'[i] = receipts[i]
      BY <1>0, <2>2 DEF CycleInv, JournalKept
    <3> QED BY <2>1, <3>1, CycleExtended
  <2>3. CASE ~UNCHANGED receipts
    <3>1. PICK r \in Receipts : /\ receipts' = Append(receipts, r)
                                /\ receipts # << >> => Follows(Gate!Last, r)
      <4>1. Gate!CandidateStep
        BY <1>1, <2>3 DEF Gate!Strike, Gate!Signal
      <4> QED BY <2>3, <4>1, CandidateFollows DEF CycleInv
    <3>2. /\ JournalKept' /\ Len(receipts') = Len(receipts) + 1
          /\ \A i \in 1 .. Len(receipts) : receipts'[i] = receipts[i]
      BY <3>1, AppendKept DEF CycleInv
    <3>3. Len(receipts') \in Nat /\ Len(receipts) <= Len(receipts')
      BY <1>0, <3>2
    <3> QED BY <2>1, <3>2, <3>3, CycleExtended
  <2> QED BY <2>2, <2>3
<1>2. CASE Gate!RecordEvent \/ Gate!RecordUnloadedGpu
  BY <1>2, CycleRecorded
<1>3. CASE \/ Gate!StartCandidate \/ Gate!OpenJournal \/ Gate!BaselineA \/ Gate!OpenAssertion
           \/ Gate!DefineT0 \/ Gate!LookAgain \/ Gate!Abort \/ Gate!CleanupOnly
  <2>1. /\ UNCHANGED receipts /\ DOMAIN gate' = GateFields /\ gate'.events = gate.events
        /\ gate'.read \in {gate.read, Len(receipts)} /\ gate'.ended = gate.ended
        /\ gate'.pc \in {"open", "baseline_a", "events", "assertion", "killed", "failed"}
    BY <1>0, <1>3
    DEF Gate!StartCandidate, Gate!OpenJournal, Gate!BaselineA, Gate!OpenAssertion, Gate!DefineT0,
        Gate!LookAgain, Gate!Abort, Gate!CleanupOnly, Gate!ByGate, GateFields
  <2>2. gate'.pc \notin AfterA \cup {"seal_a"} /\ gate'.read \in Nat
    BY <1>0, <2>1 DEF AfterA, AfterB, AfterHalt, AfterLog, AfterCgroup, AfterReceipts, AfterWatch
  <2> QED BY <1>0, <1>a, <2>1, <2>2, CycleMoved
<1>4. CASE Gate!FailureDeltasA
  <2>1. /\ UNCHANGED receipts /\ DOMAIN gate' = GateFields /\ gate'.events = gate.events
        /\ gate'.read = gate.read /\ gate'.ended = gate.ended
        /\ gate'.pc = "seal_a" /\ Len(gate.events) = 10
    BY <1>0, <1>4 DEF Gate!FailureDeltasA, Gate!ByGate, GateFields
  <2>2. gate'.pc \notin AfterA
    BY <2>1 DEF AfterA, AfterB, AfterHalt, AfterLog, AfterCgroup, AfterReceipts, AfterWatch
  <2> QED BY <1>0, <1>a, <2>1, <2>2, CycleMoved
<1>5. CASE Gate!SealA
  <2>1. /\ UNCHANGED receipts /\ DOMAIN gate' = GateFields /\ gate'.events = gate.events
        /\ gate'.read = gate.read /\ gate'.ended = gate.ended
        /\ gate'.pc = "idle" /\ gate.pc = "seal_a" /\ Gate!NothingHidden
    BY <1>0, <1>5 DEF Gate!SealA, Gate!ByGate, Gate!At, GateFields
  <2>2. Staged /\ Len(gate.events) = 10
    BY <2>1 DEF Gate!NothingHidden, Staged, CycleInv
  <2>3. gate'.pc \notin AfterB
    BY <2>1 DEF AfterB, AfterHalt, AfterLog, AfterCgroup, AfterReceipts, AfterWatch
  <2> QED BY <1>0, <2>1, <2>2, <2>3, CycleMoved
<1>6. CASE Gate!IdleAgain \/ Gate!ResetBoundary \/ Gate!AdmitB \/ Gate!CaptureSample
  <2>1. /\ UNCHANGED receipts /\ DOMAIN gate' = GateFields /\ gate'.events = gate.events
        /\ gate'.read = Len(receipts) /\ gate'.ended \in {gate.ended, Len(receipts), 0}
        /\ gate'.pc \in {"reset", "admit_b", "samples", "sentinel"}
        /\ gate.pc \in {"idle", "reset", "admit_b", "samples"}
    BY <1>0, <1>6
    DEF Gate!IdleAgain, Gate!ResetBoundary, Gate!AdmitB, Gate!CaptureSample, Gate!ByGate, Gate!At,
        GateFields
  <2>2. gate.pc \in AfterA /\ gate'.pc \notin AfterB
    BY <2>1 DEF AfterA, AfterB, AfterHalt, AfterLog, AfterCgroup, AfterReceipts, AfterWatch
  <2>3. Staged /\ Len(gate.events) = 10
    BY <2>2 DEF CycleInv
  <2>4. gate'.ended \in Nat /\ gate'.ended <= Len(receipts) /\ gate'.read \in Nat
    BY <1>0, <2>1
  <2> QED BY <2>1, <2>2, <2>3, <2>4, CycleMoved
<1>7. CASE Gate!SealB
  <2>1. /\ UNCHANGED receipts /\ DOMAIN gate' = GateFields /\ gate'.events = gate.events
        /\ gate'.read = Len(receipts) /\ gate'.ended = gate.ended
        /\ gate'.reset = gate.reset /\ gate'.began = gate.began
        /\ gate'.pc = "seal" /\ gate.pc = "sentinel" /\ Gate!ContinuesPhaseA
    BY <1>0, <1>7 DEF Gate!SealB, Gate!ByGate, Gate!At, GateFields
  <2>2. Staged /\ Len(gate.events) = 10
    BY <2>1 DEF CycleInv, AfterA
  <2> QED BY <1>0, <2>1, <2>2, CycleMoved
<1>8. CASE \/ Gate!LiveDrain \/ Gate!StopCandidate \/ Gate!LogEof \/ Gate!FinalCgroupDrain
           \/ Gate!FinalKernelDrain \/ Gate!FinalReceiptDrain \/ Gate!CgroupCleanup
           \/ Gate!WatcherSnapshot \/ Gate!FinalGateWrite
  <2>1. ASSUME NEW stage, NEW read, Gate!Reach(stage, read)
        PROVE  /\ DOMAIN gate' = GateFields /\ gate'.events = gate.events
               /\ gate'.read = read /\ gate'.ended = gate.ended
               /\ gate'.reset = gate.reset /\ gate'.began = gate.began
    BY <1>0, <2>1 DEF Gate!Reach, GateFields
  <2>2. /\ UNCHANGED receipts
        /\ gate.pc \in {"seal", "live_drain", "stop", "log_eof", "final_cgroup_drain",
                        "final_kernel_drain", "final_receipt_drain", "cgroup_cleanup",
                        "watcher_snapshot"}
        /\ \/ \E stage : \E read \in {gate.read, Len(receipts)} : Gate!Reach(stage, read)
           \/ gate' = [gate EXCEPT !.stage = Len(Gate!Lifecycle), !.pc = "passed"]
    BY <1>8
    DEF Gate!LiveDrain, Gate!StopCandidate, Gate!LogEof, Gate!FinalCgroupDrain,
        Gate!FinalKernelDrain, Gate!FinalReceiptDrain, Gate!CgroupCleanup,
        Gate!WatcherSnapshot, Gate!FinalGateWrite, Gate!Passed, Gate!At, Gate!ByGate
  <2>3. /\ DOMAIN gate' = GateFields /\ gate'.events = gate.events
        /\ gate'.read \in {gate.read, Len(receipts)} /\ gate'.ended = gate.ended
        /\ gate'.reset = gate.reset /\ gate'.began = gate.began
    <3>1. CASE gate' = [gate EXCEPT !.stage = Len(Gate!Lifecycle), !.pc = "passed"]
      BY <1>0, <3>1 DEF GateFields
    <3> QED BY <2>1, <2>2, <3>1
  <2>4. gate.pc \in AfterB
    BY <2>2 DEF AfterB, AfterHalt, AfterLog, AfterCgroup, AfterReceipts, AfterWatch
  <2>5. Staged /\ Len(gate.events) = 10 /\ Gate!ContinuesPhaseA
    BY <1>a, <2>4 DEF CycleInv
  <2>6. gate'.read \in Nat
    BY <1>0, <2>3
  <2> QED BY <1>0, <2>2, <2>3, <2>5, <2>6, CycleMoved
<1> QED BY <1>1, <1>2, <1>3, <1>4, <1>5, <1>6, <1>7, <1>8 DEF Gate!GateNext, Gate!PhaseA, Gate!PhaseB

-----------------------------------------------------------------------------
(* One yield. *)

\* A field that is x from a, y from b and x again from c up to d.
TurnsTwice(trace, field, x, y, a, b, c, d) ==
    /\ x # y
    /\ a \in Nat /\ b \in Nat /\ c \in Nat /\ d \in Nat /\ a < b /\ b < c /\ c <= d
    /\ \A i \in a .. b - 1 : trace[i][field] = x
    /\ \A i \in b .. c - 1 : trace[i][field] = y
    /\ \A i \in c .. d : trace[i][field] = x

\* Where a field changes between two places of a journal.
TurnsOf(trace, field, a, d) ==
    {i \in a .. d : i + 1 \in a .. d /\ trace[i][field] # trace[i + 1][field]}

\* A field that is x, then y, then x again changes twice.
LEMMA TwoChanges ==
    ASSUME NEW trace, NEW field, NEW x, NEW y, NEW a, NEW b, NEW c, NEW d,
           TurnsTwice(trace, field, x, y, a, b, c, d)
    PROVE  Cardinality(TurnsOf(trace, field, a, d)) = 2
<1> DEFINE S == TurnsOf(trace, field, a, d)
<1>0. /\ x # y
      /\ a \in Nat /\ b \in Nat /\ c \in Nat /\ d \in Nat /\ a < b /\ b < c /\ c <= d
      /\ \A i \in a .. b - 1 : trace[i][field] = x
      /\ \A i \in b .. c - 1 : trace[i][field] = y
      /\ \A i \in c .. d : trace[i][field] = x
  BY DEF TurnsTwice
<1>1. ASSUME NEW i \in S
      PROVE  i \in {b - 1, c - 1}
  <2>0. i \in a .. d /\ i + 1 \in a .. d /\ trace[i][field] # trace[i + 1][field]
    BY DEF TurnsOf
  <2>1. CASE i + 1 < b
    <3>1. i \in a .. b - 1 /\ i + 1 \in a .. b - 1
      BY <1>0, <2>0, <2>1
    <3> QED BY <1>0, <2>0, <3>1
  <2>2. CASE i >= b /\ i + 1 < c
    <3>1. i \in b .. c - 1 /\ i + 1 \in b .. c - 1
      BY <1>0, <2>0, <2>2
    <3> QED BY <1>0, <2>0, <3>1
  <2>3. CASE i >= c
    <3>1. i \in c .. d /\ i + 1 \in c .. d
      BY <1>0, <2>0, <2>3
    <3> QED BY <1>0, <2>0, <3>1
  <2>4. CASE i + 1 = b \/ i + 1 = c
    BY <1>0, <2>0, <2>4
  <2>5. i + 1 < b \/ (i >= b /\ i + 1 < c) \/ i >= c \/ i + 1 = b \/ i + 1 = c
    BY <1>0, <2>0
  <2> QED BY <2>1, <2>2, <2>3, <2>4, <2>5
<1>2. b - 1 \in S
  <2>1. b - 1 \in a .. b - 1 /\ b \in b .. c - 1 /\ b - 1 \in a .. d /\ b \in a .. d /\ b - 1 + 1 = b
    BY <1>0
  <2> QED BY <1>0, <2>1 DEF TurnsOf
<1>3. c - 1 \in S
  <2>1. c - 1 \in b .. c - 1 /\ c \in c .. d /\ c - 1 \in a .. d /\ c \in a .. d /\ c - 1 + 1 = c
    BY <1>0
  <2> QED BY <1>0, <2>1 DEF TurnsOf
<1>4. S = {b - 1} \cup {c - 1} /\ c - 1 \notin {b - 1}
  <2> HIDE DEF S
  <2> QED BY <1>0, <1>1, <1>2, <1>3
<1>5. IsFiniteSet({b - 1}) /\ Cardinality({b - 1}) = 1
  BY FS_Singleton
<1>6. Cardinality({b - 1} \cup {c - 1}) = Cardinality({b - 1}) + 1
  BY <1>4, <1>5, FS_AddElement
<1> QED BY <1>4, <1>5, <1>6

\* The stages of phase A, one after the other.
LEMMA Stages ==
    ASSUME EventsKept, JournalKept, Staged, Len(gate.events) = 10
    PROVE  /\ \A n \in 1..10 : gate.events[n].at \in 1 .. Len(receipts) /\ gate.events[n].at \in Nat
           /\ gate.events[1].at < gate.events[2].at /\ gate.events[2].at < gate.events[4].at
           /\ gate.events[4].at < gate.events[6].at /\ gate.events[6].at < gate.events[9].at
           /\ gate.events[9].at < gate.events[10].at
           /\ \A i \in gate.events[1].at .. gate.events[2].at - 1 : receipts[i].prio = "clear"
           /\ \A i \in gate.events[2].at .. gate.events[6].at - 1 : receipts[i].prio = "asserted"
           /\ \A i \in gate.events[6].at .. gate.events[10].at : receipts[i].prio = "clear"
           /\ \A i \in gate.events[1].at .. gate.events[4].at - 1 : receipts[i].resident = TRUE
           /\ \A i \in gate.events[4].at .. gate.events[9].at - 1 : receipts[i].resident = FALSE
           /\ \A i \in gate.events[9].at .. gate.events[10].at : receipts[i].resident = TRUE
<1> DEFINE E(n) == gate.events[n].at
           PrioAt(i) == receipts[i].prio
           ResAt(i) == receipts[i].resident
<1>0. Len(receipts) \in Nat /\ receipts \in Seq(Receipts)
  <2>1. receipts \in Seq(Receipts)
    BY DEF JournalKept
  <2> QED BY <2>1
<1>1. \A n \in 1..10 : E(n) \in 1 .. Len(receipts) /\ E(n) \in Nat
  <2>1. \A n \in 1..10 : E(n) \in 1 .. Len(receipts)
    BY DEF EventsKept
  <2>2. \A k \in 1 .. Len(receipts) : k \in Nat
    BY <1>0
  <2> HIDE DEF E
  <2> QED BY <2>1, <2>2
<1>2. \A n \in 1..10 : n > 1 => E(n - 1) < E(n) \/ (n = 5 /\ E(n - 1) <= E(n))
  BY DEF EventsKept
<1>3. /\ E(1) < E(2) /\ E(2) < E(3) /\ E(3) < E(4) /\ E(4) <= E(5) /\ E(5) < E(6)
      /\ E(6) < E(7) /\ E(7) < E(8) /\ E(8) < E(9) /\ E(9) < E(10)
  <2>1. /\ 2 \in 1..10 /\ 3 \in 1..10 /\ 4 \in 1..10 /\ 5 \in 1..10 /\ 6 \in 1..10
        /\ 7 \in 1..10 /\ 8 \in 1..10 /\ 9 \in 1..10 /\ 10 \in 1..10 /\ 1 \in 1..10
    OBVIOUS
  <2>2. E(4) \in Nat /\ E(5) \in Nat
    BY <1>1, <2>1
  <2>3. E(4) <= E(5)
    BY <1>2, <2>1, <2>2
  <2> HIDE DEF E
  <2> QED BY <1>2, <2>1, <2>3
<1>4. \A n \in 1..10 \ {5} : \A i \in E(n) .. Gate!StageEnd(n) :
          /\ PrioAt(i) = (IF n \in 2..5 THEN "asserted" ELSE "clear")
          /\ ResAt(i) = (n \in {1, 2, 3, 9, 10})
  <2> SUFFICES ASSUME NEW n \in 1..10 \ {5}, NEW i \in E(n) .. Gate!StageEnd(n)
               PROVE  /\ PrioAt(i) = (IF n \in 2..5 THEN "asserted" ELSE "clear")
                      /\ ResAt(i) = (n \in {1, 2, 3, 9, 10})
    OBVIOUS
  <2>1. Fits(n)
    BY DEF EventsKept
  <2>2. receipts[i] = receipts[E(n)]
    BY <2>1 DEF Staged, Gate!EventReceipt, Fits
  <2>3. receipts[E(n)] \in Receipts
    <3>1. E(n) \in 1 .. Len(receipts)
      BY <1>1
    <3>2. \A k \in 1 .. Len(receipts) : receipts[k] \in Receipts
      BY <1>0
    <3> HIDE DEF E
    <3> QED BY <3>1, <3>2
  <2>4. receipts[E(n)].resident \in BOOLEAN
    BY <2>3, ReceiptShape
  <2> QED BY <2>1, <2>2, <2>4 DEF Fits
<1>5. /\ Gate!StageEnd(1) = E(2) - 1 /\ Gate!StageEnd(2) = E(3) - 1 /\ Gate!StageEnd(3) = E(4) - 1
      /\ Gate!StageEnd(4) = E(6) - 1 /\ Gate!StageEnd(6) = E(7) - 1 /\ Gate!StageEnd(7) = E(8) - 1
      /\ Gate!StageEnd(8) = E(9) - 1 /\ Gate!StageEnd(9) = E(10) - 1 /\ Gate!StageEnd(10) = E(10)
  BY DEF Gate!StageEnd
<1>6. /\ \A i \in E(1) .. E(2) - 1 : PrioAt(i) = "clear" /\ ResAt(i) = TRUE
      /\ \A i \in E(2) .. E(3) - 1 : PrioAt(i) = "asserted" /\ ResAt(i) = TRUE
      /\ \A i \in E(3) .. E(4) - 1 : PrioAt(i) = "asserted" /\ ResAt(i) = TRUE
      /\ \A i \in E(4) .. E(6) - 1 : PrioAt(i) = "asserted" /\ ResAt(i) = FALSE
      /\ \A i \in E(6) .. E(7) - 1 : PrioAt(i) = "clear" /\ ResAt(i) = FALSE
      /\ \A i \in E(7) .. E(8) - 1 : PrioAt(i) = "clear" /\ ResAt(i) = FALSE
      /\ \A i \in E(8) .. E(9) - 1 : PrioAt(i) = "clear" /\ ResAt(i) = FALSE
      /\ \A i \in E(9) .. E(10) - 1 : PrioAt(i) = "clear" /\ ResAt(i) = TRUE
      /\ \A i \in E(10) .. E(10) : PrioAt(i) = "clear" /\ ResAt(i) = TRUE
  <2> HIDE DEF E, PrioAt, ResAt
  <2>1. \A i \in E(1) .. E(2) - 1 : PrioAt(i) = "clear" /\ ResAt(i) = TRUE
    <3>1. 1 \in 1..10 \ {5} /\ (IF 1 \in 2..5 THEN "asserted" ELSE "clear") = "clear"
          /\ (1 \in {1, 2, 3, 9, 10}) = TRUE
      OBVIOUS
    <3>2. \A i \in E(1) .. Gate!StageEnd(1) :
              /\ PrioAt(i) = (IF 1 \in 2..5 THEN "asserted" ELSE "clear")
              /\ ResAt(i) = (1 \in {1, 2, 3, 9, 10})
      BY <1>4, <3>1
    <3> QED BY <1>5, <3>1, <3>2
  <2>2. \A i \in E(2) .. E(3) - 1 : PrioAt(i) = "asserted" /\ ResAt(i) = TRUE
    <3>1. 2 \in 1..10 \ {5} /\ (IF 2 \in 2..5 THEN "asserted" ELSE "clear") = "asserted"
          /\ (2 \in {1, 2, 3, 9, 10}) = TRUE
      OBVIOUS
    <3>2. \A i \in E(2) .. Gate!StageEnd(2) :
              /\ PrioAt(i) = (IF 2 \in 2..5 THEN "asserted" ELSE "clear")
              /\ ResAt(i) = (2 \in {1, 2, 3, 9, 10})
      BY <1>4, <3>1
    <3> QED BY <1>5, <3>1, <3>2
  <2>3. \A i \in E(3) .. E(4) - 1 : PrioAt(i) = "asserted" /\ ResAt(i) = TRUE
    <3>1. 3 \in 1..10 \ {5} /\ (IF 3 \in 2..5 THEN "asserted" ELSE "clear") = "asserted"
          /\ (3 \in {1, 2, 3, 9, 10}) = TRUE
      OBVIOUS
    <3>2. \A i \in E(3) .. Gate!StageEnd(3) :
              /\ PrioAt(i) = (IF 3 \in 2..5 THEN "asserted" ELSE "clear")
              /\ ResAt(i) = (3 \in {1, 2, 3, 9, 10})
      BY <1>4, <3>1
    <3> QED BY <1>5, <3>1, <3>2
  <2>4. \A i \in E(4) .. E(6) - 1 : PrioAt(i) = "asserted" /\ ResAt(i) = FALSE
    <3>1. 4 \in 1..10 \ {5} /\ (IF 4 \in 2..5 THEN "asserted" ELSE "clear") = "asserted"
          /\ (4 \in {1, 2, 3, 9, 10}) = FALSE
      OBVIOUS
    <3>2. \A i \in E(4) .. Gate!StageEnd(4) :
              /\ PrioAt(i) = (IF 4 \in 2..5 THEN "asserted" ELSE "clear")
              /\ ResAt(i) = (4 \in {1, 2, 3, 9, 10})
      BY <1>4, <3>1
    <3> QED BY <1>5, <3>1, <3>2
  <2>6. \A i \in E(6) .. E(7) - 1 : PrioAt(i) = "clear" /\ ResAt(i) = FALSE
    <3>1. 6 \in 1..10 \ {5} /\ (IF 6 \in 2..5 THEN "asserted" ELSE "clear") = "clear"
          /\ (6 \in {1, 2, 3, 9, 10}) = FALSE
      OBVIOUS
    <3>2. \A i \in E(6) .. Gate!StageEnd(6) :
              /\ PrioAt(i) = (IF 6 \in 2..5 THEN "asserted" ELSE "clear")
              /\ ResAt(i) = (6 \in {1, 2, 3, 9, 10})
      BY <1>4, <3>1
    <3> QED BY <1>5, <3>1, <3>2
  <2>7. \A i \in E(7) .. E(8) - 1 : PrioAt(i) = "clear" /\ ResAt(i) = FALSE
    <3>1. 7 \in 1..10 \ {5} /\ (IF 7 \in 2..5 THEN "asserted" ELSE "clear") = "clear"
          /\ (7 \in {1, 2, 3, 9, 10}) = FALSE
      OBVIOUS
    <3>2. \A i \in E(7) .. Gate!StageEnd(7) :
              /\ PrioAt(i) = (IF 7 \in 2..5 THEN "asserted" ELSE "clear")
              /\ ResAt(i) = (7 \in {1, 2, 3, 9, 10})
      BY <1>4, <3>1
    <3> QED BY <1>5, <3>1, <3>2
  <2>8. \A i \in E(8) .. E(9) - 1 : PrioAt(i) = "clear" /\ ResAt(i) = FALSE
    <3>1. 8 \in 1..10 \ {5} /\ (IF 8 \in 2..5 THEN "asserted" ELSE "clear") = "clear"
          /\ (8 \in {1, 2, 3, 9, 10}) = FALSE
      OBVIOUS
    <3>2. \A i \in E(8) .. Gate!StageEnd(8) :
              /\ PrioAt(i) = (IF 8 \in 2..5 THEN "asserted" ELSE "clear")
              /\ ResAt(i) = (8 \in {1, 2, 3, 9, 10})
      BY <1>4, <3>1
    <3> QED BY <1>5, <3>1, <3>2
  <2>9. \A i \in E(9) .. E(10) - 1 : PrioAt(i) = "clear" /\ ResAt(i) = TRUE
    <3>1. 9 \in 1..10 \ {5} /\ (IF 9 \in 2..5 THEN "asserted" ELSE "clear") = "clear"
          /\ (9 \in {1, 2, 3, 9, 10}) = TRUE
      OBVIOUS
    <3>2. \A i \in E(9) .. Gate!StageEnd(9) :
              /\ PrioAt(i) = (IF 9 \in 2..5 THEN "asserted" ELSE "clear")
              /\ ResAt(i) = (9 \in {1, 2, 3, 9, 10})
      BY <1>4, <3>1
    <3> QED BY <1>5, <3>1, <3>2
  <2>10. \A i \in E(10) .. E(10) : PrioAt(i) = "clear" /\ ResAt(i) = TRUE
    <3>1. 10 \in 1..10 \ {5} /\ (IF 10 \in 2..5 THEN "asserted" ELSE "clear") = "clear"
          /\ (10 \in {1, 2, 3, 9, 10}) = TRUE
      OBVIOUS
    <3>2. \A i \in E(10) .. Gate!StageEnd(10) :
              /\ PrioAt(i) = (IF 10 \in 2..5 THEN "asserted" ELSE "clear")
              /\ ResAt(i) = (10 \in {1, 2, 3, 9, 10})
      BY <1>4, <3>1
    <3> QED BY <1>5, <3>1, <3>2
  <2> QED BY <2>1, <2>2, <2>3, <2>4, <2>6, <2>7, <2>8, <2>9, <2>10
<1>7. /\ E(1) \in Nat /\ E(2) \in Nat /\ E(3) \in Nat /\ E(4) \in Nat /\ E(6) \in Nat
      /\ E(5) \in Nat /\ E(7) \in Nat /\ E(8) \in Nat /\ E(9) \in Nat /\ E(10) \in Nat
  BY <1>1
<1>8. /\ \A i \in E(1) .. E(2) - 1 : PrioAt(i) = "clear"
      /\ \A i \in E(2) .. E(6) - 1 : PrioAt(i) = "asserted"
      /\ \A i \in E(6) .. E(10) : PrioAt(i) = "clear"
  <2> HIDE DEF E, PrioAt, ResAt
  <2>1. ASSUME NEW i \in E(2) .. E(6) - 1
        PROVE  i \in E(2) .. E(3) - 1 \/ i \in E(3) .. E(4) - 1 \/ i \in E(4) .. E(6) - 1
    BY <1>3, <1>7
  <2>2. ASSUME NEW i \in E(6) .. E(10)
        PROVE  \/ i \in E(6) .. E(7) - 1 \/ i \in E(7) .. E(8) - 1 \/ i \in E(8) .. E(9) - 1
               \/ i \in E(9) .. E(10) - 1 \/ i \in E(10) .. E(10)
    BY <1>3, <1>7
  <2> QED BY <1>6, <2>1, <2>2
<1>9. /\ \A i \in E(1) .. E(4) - 1 : ResAt(i) = TRUE
      /\ \A i \in E(4) .. E(9) - 1 : ResAt(i) = FALSE
      /\ \A i \in E(9) .. E(10) : ResAt(i) = TRUE
  <2> HIDE DEF E, PrioAt, ResAt
  <2>1. ASSUME NEW i \in E(1) .. E(4) - 1
        PROVE  i \in E(1) .. E(2) - 1 \/ i \in E(2) .. E(3) - 1 \/ i \in E(3) .. E(4) - 1
    BY <1>3, <1>7
  <2>2. ASSUME NEW i \in E(4) .. E(9) - 1
        PROVE  \/ i \in E(4) .. E(6) - 1 \/ i \in E(6) .. E(7) - 1 \/ i \in E(7) .. E(8) - 1
               \/ i \in E(8) .. E(9) - 1
    BY <1>3, <1>7
  <2>3. ASSUME NEW i \in E(9) .. E(10)
        PROVE  i \in E(9) .. E(10) - 1 \/ i \in E(10) .. E(10)
    BY <1>3, <1>7
  <2> QED BY <1>6, <2>1, <2>2, <2>3
<1>10. E(2) < E(4) /\ E(4) < E(6) /\ E(6) < E(9)
  <2> HIDE DEF E
  <2> QED BY <1>3, <1>7
<1> QED BY <1>1, <1>3, <1>8, <1>9, <1>10

\* From the completion of phase A to the end of phase B nothing changes.
LEMMA Aftermath ==
    ASSUME JournalKept, Gate!ContinuesPhaseA, NEW e \in 1 .. Len(receipts),
           gate.events[10].at = e, gate.events[10].is = e,
           gate.ended \in Nat, gate.ended <= Len(receipts),
           receipts[e].prio = "clear", receipts[e].resident = TRUE
    PROVE  /\ e < gate.ended
           /\ \A i \in e + 1 .. gate.ended : receipts[i].prio = "clear" /\ receipts[i].resident = TRUE
           /\ receipts[gate.ended].done = receipts[e].done
           /\ receipts[gate.ended].bad = receipts[e].bad
<1> DEFINE trace == e + 1 .. gate.ended
<1>0. Len(receipts) \in Nat /\ receipts \in Seq(Receipts)
  <2>1. receipts \in Seq(Receipts)
    BY DEF JournalKept
  <2> QED BY <2>1
<1>1. PICK admission \in trace :
         /\ Gate!Stable(receipts[admission], receipts[e])
         /\ \A i \in trace : i >= admission =>
              Gate!Quiet(receipts[i]) /\ Gate!Stable(receipts[i], receipts[admission])
  BY DEF Gate!ContinuesPhaseA, Gate!EventReceipt
<1>2. e < gate.ended /\ gate.ended \in trace /\ gate.ended >= admission
  BY <1>0, <1>1
<1>3. ASSUME NEW i \in trace
      PROVE  receipts[i].prio = "clear" /\ receipts[i].resident = TRUE
  <2>1. /\ i \in 1 .. Len(receipts) /\ admission \in 1 .. Len(receipts) /\ e <= i
        /\ i < admission => i <= admission
    BY <1>0, <1>1, <1>3
  <2>2. receipts[i] \in Receipts /\ receipts[admission] \in Receipts /\ receipts[e] \in Receipts
    BY <1>0, <2>1
  <2>3. CASE i < admission
    <3>1. Follows(receipts[e], receipts[i]) /\ Follows(receipts[i], receipts[admission])
      BY <2>1, <2>3 DEF JournalKept
    <3> DEFINE q == receipts[e]
               r == receipts[i]
               s == receipts[admission]
    <3>2. s.turns = q.turns /\ s.loads = q.loads /\ s.unloads = q.unloads
      BY <1>1 DEF Gate!Stable
    <3>3. Follows(q, r) /\ Follows(r, s) /\ q \in Receipts /\ r \in Receipts /\ s \in Receipts
      BY <2>2, <3>1
    <3>4. q.prio = "clear" /\ q.resident = TRUE
      OBVIOUS
    <3> HIDE DEF q, r, s
    <3>5. /\ q.turns \in Nat /\ q.loads \in Nat /\ q.unloads \in Nat
          /\ r.turns \in Nat /\ r.loads \in Nat /\ r.unloads \in Nat
      BY <3>3, ReceiptShape
    <3>6. r.turns = q.turns /\ r.loads = q.loads /\ r.unloads = q.unloads
      BY <3>2, <3>3, <3>5 DEF Follows
    <3>7. q.prio = r.prio /\ q.resident = r.resident
      BY <3>3, <3>6 DEF Follows
    <3> QED BY <3>4, <3>7 DEF r
  <2>4. CASE i >= admission
    <3>1. Gate!Quiet(receipts[i])
      BY <1>1, <1>3, <2>4
    <3>2. receipts[i].resident \in BOOLEAN
      BY <2>2, ReceiptShape
    <3> QED BY <3>1, <3>2 DEF Gate!Quiet, Gate!Admitted
  <2>5. i < admission \/ i >= admission
    <3>1. i \in Nat /\ admission \in Nat
      BY <1>0, <2>1
    <3> QED BY <3>1
  <2> QED BY <2>3, <2>4, <2>5
<1>4. Gate!Stable(receipts[gate.ended], receipts[admission])
  BY <1>1, <1>2
<1> QED BY <1>1, <1>2, <1>3, <1>4 DEF Gate!Stable

\* What the two seals say together.
LEMMA OneCycle ==
    ASSUME CycleInv, gate.pc = "passed"
    PROVE  /\ Gate!Changes("prio") = 2 /\ Gate!Changes("resident") = 2
           /\ receipts[gate.ended].done = Gate!EventReceipt(1).done + 1
           /\ receipts[gate.ended].bad = Gate!EventReceipt(1).bad
<1>1. /\ EventsKept /\ JournalKept /\ Staged /\ Len(gate.events) = 10
      /\ Gate!ContinuesPhaseA /\ gate.ended \in Nat /\ gate.ended <= Len(receipts)
  BY DEF CycleInv, AfterA, AfterB, AfterHalt, AfterLog, AfterCgroup, AfterReceipts, AfterWatch
<1> DEFINE e1 == gate.events[1].at
           e2 == gate.events[2].at
           e4 == gate.events[4].at
           e6 == gate.events[6].at
           e9 == gate.events[9].at
           e10 == gate.events[10].at
           end == gate.ended
<1>2. /\ e1 \in Nat /\ e2 \in Nat /\ e4 \in Nat /\ e6 \in Nat /\ e9 \in Nat /\ e10 \in Nat
      /\ e10 \in 1 .. Len(receipts)
      /\ e1 < e2 /\ e2 < e4 /\ e4 < e6 /\ e6 < e9 /\ e9 < e10
      /\ \A i \in e1 .. e2 - 1 : receipts[i].prio = "clear"
      /\ \A i \in e2 .. e6 - 1 : receipts[i].prio = "asserted"
      /\ \A i \in e6 .. e10 : receipts[i].prio = "clear"
      /\ \A i \in e1 .. e4 - 1 : receipts[i].resident = TRUE
      /\ \A i \in e4 .. e9 - 1 : receipts[i].resident = FALSE
      /\ \A i \in e9 .. e10 : receipts[i].resident = TRUE
  <2>1. 1 \in 1..10 /\ 2 \in 1..10 /\ 4 \in 1..10 /\ 6 \in 1..10 /\ 9 \in 1..10 /\ 10 \in 1..10
    OBVIOUS
  <2> QED BY <1>1, <2>1, Stages
<1>3. Fits(1) /\ Fits(10)
  BY <1>1 DEF EventsKept
<1>4. /\ gate.events[1].is = e1 /\ gate.events[10].is = e10
      /\ receipts[e10].done = receipts[e1].done + 1 /\ receipts[e10].bad = receipts[e1].bad
  BY <1>3 DEF Fits
<1>5. receipts[e10].prio = "clear" /\ receipts[e10].resident = TRUE
  <2>1. e10 \in e6 .. e10 /\ e10 \in e9 .. e10
    <3> HIDE DEF e1, e2, e4, e6, e9, e10
    <3> QED BY <1>2
  <2> QED BY <1>2, <2>1
<1>6. /\ e10 < end /\ end \in Nat
      /\ \A i \in e10 + 1 .. end : receipts[i].prio = "clear" /\ receipts[i].resident = TRUE
      /\ receipts[end].done = receipts[e10].done /\ receipts[end].bad = receipts[e10].bad
  BY <1>1, <1>2, <1>4, <1>5, Aftermath
<1>7. Gate!EventReceipt(1) = receipts[e1]
  BY <1>4 DEF Gate!EventReceipt
<1>8. /\ \A i \in e6 .. end : receipts[i].prio = "clear"
      /\ \A i \in e9 .. end : receipts[i].resident = TRUE
  <2> HIDE DEF e1, e2, e4, e6, e9, e10, end
  <2>1. \A i \in e6 .. end : i \in e6 .. e10 \/ i \in e10 + 1 .. end
    BY <1>2, <1>6
  <2>2. \A i \in e9 .. end : i \in e9 .. e10 \/ i \in e10 + 1 .. end
    BY <1>2, <1>6
  <2> QED BY <1>2, <1>6, <2>1, <2>2
<1>9. \A S : Gate!Cardinality(S) = Cardinality(S)
  BY Zenon DEF Gate!Cardinality, Cardinality
<1>10. \A field : Gate!Changes(field) = Cardinality(TurnsOf(receipts, field, e1, end))
  BY <1>9 DEF Gate!Changes, TurnsOf
<1>11. Gate!Changes("prio") = 2
  <2> HIDE DEF e1, e2, e4, e6, e9, e10, end
  <2>1. e2 < e6 /\ e6 <= end
    BY <1>2, <1>6
  <2>2. TurnsTwice(receipts, "prio", "clear", "asserted", e1, e2, e6, end)
    BY <1>2, <1>6, <1>8, <2>1 DEF TurnsTwice
  <2> QED BY <1>10, <2>2, TwoChanges
<1>12. Gate!Changes("resident") = 2
  <2> HIDE DEF e1, e2, e4, e6, e9, e10, end
  <2>1. e1 < e4 /\ e4 < e9 /\ e9 <= end
    BY <1>2, <1>6
  <2>2. TurnsTwice(receipts, "resident", TRUE, FALSE, e1, e4, e9, end)
    BY <1>2, <1>6, <1>8, <2>1 DEF TurnsTwice
  <2> QED BY <1>10, <2>2, TwoChanges
<1> QED BY <1>4, <1>6, <1>7, <1>11, <1>12

\* A gate that passed watched exactly one yield, for any candidate and any
\* number of receipts, samples and mishaps: one assertion, one clear, one
\* unload, one reload and one completed workload, whatever the candidate
\* appended while the observer was not looking
\* (verify_phase_a_receipt_bindings and verify_phase_b_receipt_bindings).
THEOREM GateWatchesOneCycle == OpsSpec => []PassWatchedOneCycle
<1>1. OpsInit => DrainInv /\ CycleInv
  <2>1. Gate!GateInit => DrainInv
    BY DEF Gate!GateInit, DrainInv, GateFields, Gate!NoFailures, AfterHalt, AfterLog, AfterCgroup,
           AfterReceipts, AfterWatch
  <2>2. Gate!GateInit => CycleInv
    <3> SUFFICES ASSUME Gate!GateInit PROVE CycleInv
      OBVIOUS
    <3>1. /\ receipts = << >> /\ gate.events = << >> /\ gate.pc = "start" /\ gate.read = 0
          /\ gate.ended = 0 /\ DOMAIN gate = GateFields
      BY DEF Gate!GateInit, GateFields
    <3>2. JournalKept /\ EventsKept
      BY <3>1 DEF JournalKept, EventsKept
    <3>3. gate.pc \notin AfterA \cup {"seal_a"} /\ gate.pc \notin AfterB
      BY <3>1 DEF AfterA, AfterB, AfterHalt, AfterLog, AfterCgroup, AfterReceipts, AfterWatch
    <3>4. Len(receipts) = 0
      BY <3>1
    <3> QED BY <3>1, <3>2, <3>3, <3>4 DEF CycleInv
  <2> QED BY <2>1, <2>2, GatePart
<1>2. DrainInv /\ CycleInv /\ [OpsNext]_opsVars => (DrainInv /\ CycleInv)'
  <2>1. ASSUME DrainInv, UNCHANGED gateVars
        PROVE  DrainInv'
    BY <2>1 DEF gateVars, DrainInv, Gate!Last, Gate!NothingOfB
  <2>2. ASSUME CycleInv, UNCHANGED gateVars
        PROVE  CycleInv'
    <3>1. UNCHANGED <<gate, receipts>>
      BY <2>2 DEF gateVars
    <3>2. receipts \in Seq(Receipts)
      BY <2>2 DEF CycleInv, JournalKept
    <3>3. /\ JournalKept' /\ Len(receipts') \in Nat /\ Len(receipts) <= Len(receipts')
          /\ \A i \in 1 .. Len(receipts) : receipts'[i] = receipts[i]
      BY <2>2, <3>1, <3>2 DEF CycleInv, JournalKept
    <3> QED BY <2>2, <3>1, <3>3, CycleExtended
  <2>3. ASSUME DrainInv, CycleInv, Gate!GateNext
        PROVE  CycleInv'
    BY <2>3, CycleStep DEF DrainInv
  <2> QED BY <2>1, <2>2, <2>3, DrainStep, GatePart
<1>3. CycleInv => PassWatchedOneCycle
  BY OneCycle DEF PassWatchedOneCycle, Gate!PassWatchedOneCycle
<1> QED BY <1>1, <1>2, <1>3, PTL DEF OpsSpec
=============================================================================

---- MODULE GateProfiler ----
(***************************************************************************)
(* The profiler branch of the release gate: run_profiler_observer arms on  *)
(* a fresh priority signal, starts the held profiler container, samples    *)
(* the host until the observation time is over, attests that the profiler  *)
(* has released its GPU memory, stops the container, drains the logs once  *)
(* more and seals the evidence (gate_health_sampler.observe_gate,          *)
(* IncrementalLogScanner, EvidenceWriter).  The container, the other       *)
(* processes of the host and the clock move meanwhile; the host may lose   *)
(* power between any two steps, after which directory entries that were    *)
(* not synced may be there or not.                                         *)
(***************************************************************************)
EXTENDS Naturals, FiniteSets, Sequences

CONSTANTS
    Runs,           \* runs of the observer with the same output path, one after another
    Duration,       \* samples that make up the observation time
    Overlap,        \* LOG_OVERLAP_SECONDS, in ticks
    MaxClock,       \* ticks of the wall clock
    MaxFailures     \* failure lines in the three logs

LogSources == <<"candidate", "frigate", "kernel">>

VARIABLES
    clock,          \* the wall clock
    lines,          \* the failure lines in the logs: source and time stamp
    box,            \* the profiler's container: its state and what it holds
    producer,       \* the priority producer: sequence it published last
    run,            \* the observer
    now, disk,      \* the output directory as processes see it, and as synced
    wrote           \* records of each run's evidence file, each synced as it is written

profVars == <<clock, lines, box, producer, run, now, disk, wrote>>

NoSeal == [of |-> 0, records |-> 0, whole |-> FALSE]

EmptyDirectory == [partial |-> {}, seal |-> NoSeal, final |-> 0]

Fresh(n) == [n |-> n, pc |-> "arm", seen |-> 0, cursor |-> clock, until |-> 0,
             source |-> 1, samples |-> 0, then |-> "none"]

ProfInit ==
    /\ clock = 1
    /\ lines = {}
    /\ box = [status |-> "created", working |-> FALSE, result |-> FALSE]
    /\ producer = 1
    /\ run = Fresh(1)
    /\ now = EmptyDirectory /\ disk = EmptyDirectory
    /\ wrote = [r \in Runs |-> 0]

Step(pc, next) == run.pc = pc /\ run' = [run EXCEPT !.pc = next]
Kept == UNCHANGED <<clock, lines, producer>>
SameFiles == UNCHANGED <<now, disk, wrote>>

------------------------------------------------------------------------------
(* The host. *)

Tick ==
    /\ clock < MaxClock /\ run.pc \notin {"passed", "over"}
    /\ clock' = clock + 1
    /\ UNCHANGED <<lines, box, producer, run, now, disk, wrote>>

(* A failure shows in a log, with the time at which it happened. *)
FailureLine ==
    /\ Cardinality(lines) < MaxFailures /\ box.status # "created"
    /\ \E s \in {"candidate", "frigate", "kernel"} :
           /\ s = "candidate" => box.status = "running"
           /\ lines' = lines \cup {<<s, clock>>}
    /\ UNCHANGED <<clock, box, producer, run, now, disk, wrote>>

(* The profiler's child ends: its result is on disk and its memory released. *)
ProfilerEnds ==
    /\ box.status = "running" /\ box.working
    /\ box' = [box EXCEPT !.working = FALSE, !.result = TRUE]
    /\ UNCHANGED run /\ Kept /\ SameFiles

Publish ==
    /\ producer < 3
    /\ producer' = producer + 1
    /\ UNCHANGED <<clock, lines, box, run, now, disk, wrote>>

------------------------------------------------------------------------------
(* The observer. *)

(* Any failed check, deadline or signal: close the file and stop the         *)
(* container, which may stay behind when the stop fails too.                 *)
Abort ==
    /\ run.pc \notin {"passed", "over"}
    /\ box' \in {box, [box EXCEPT !.status = IF @ = "running" THEN "exited" ELSE @]}
    /\ run' = [run EXCEPT !.pc = "over"]
    /\ Kept /\ SameFiles

(* ProfilerPriorityGuard.arm: a checkpoint, then exactly its successor. *)
Arm ==
    /\ run.pc = "arm" /\ UNCHANGED box /\ Kept /\ SameFiles
    /\ \/ run.seen = 0 /\ run' = [run EXCEPT !.seen = producer]
       \/ /\ run.seen # 0 /\ producer = run.seen + 1
          /\ run' = [run EXCEPT !.seen = producer, !.pc = "open"]

(* EvidenceWriter.open: the final name must be free; the partial one is this *)
(* run's own, and its entry is synced.                                       *)
OpenEvidence ==
    /\ Step("open", "start") /\ UNCHANGED box /\ Kept
    /\ now.final = 0
    /\ now' = [now EXCEPT !.partial = @ \cup {run.n}]
    /\ disk' = now'
    /\ wrote' = [wrote EXCEPT ![run.n] = 1]

WriteRecord == wrote' = [wrote EXCEPT ![run.n] = @ + 1] /\ UNCHANGED <<now, disk>>

StartCandidate ==
    /\ run.pc = "start" /\ box.status = "created"
    /\ run' = [run EXCEPT !.pc = "sample", !.cursor = clock]
    /\ box' = [status |-> "running", working |-> TRUE, result |-> FALSE]
    /\ WriteRecord /\ Kept

(* The state checks of a sample; the end of its log window is taken after   *)
(* them, so that a failure racing them falls into the window.               *)
Sample ==
    /\ run.pc = "sample" /\ run.samples < Duration
    /\ box.status = "running" /\ producer >= run.seen
    /\ run' = [run EXCEPT !.pc = "scan", !.until = clock, !.source = 1,
                          !.seen = producer, !.then = "sample"]
    /\ UNCHANGED box /\ Kept /\ SameFiles

(* IncrementalLogScanner.scan: the three sources one after another, each     *)
(* over the window that begins before the last one ended.                   *)
Shown == {l \in lines : /\ l[1] = LogSources[run.source]
                        /\ l[2] + Overlap >= run.cursor /\ l[2] <= run.until}

ScanSource ==
    /\ run.pc = "scan" /\ run.source <= 3 /\ Shown = {}
    /\ run' = [run EXCEPT !.source = @ + 1]
    /\ UNCHANGED box /\ Kept /\ SameFiles

EndScanAtClock ==
    /\ run.pc = "scan" /\ run.source = 4
    /\ run' = [run EXCEPT !.pc = run.then, !.cursor = clock,
                          !.samples = IF run.then = "sample" THEN @ + 1 ELSE @]
    /\ UNCHANGED box /\ Kept /\ WriteRecord

EndScan ==
    /\ run.pc = "scan" /\ run.source = 4
    /\ run' = [run EXCEPT !.pc = run.then, !.cursor = run.until,
                          !.samples = IF run.then = "sample" THEN @ + 1 ELSE @]
    /\ UNCHANGED box /\ Kept /\ WriteRecord

(* After the last sample: the profiler's result, and that only its holding   *)
(* process is left, with no GPU memory; then the logs again.                 *)
FinalObservation ==
    /\ run.pc = "sample" /\ run.samples = Duration
    /\ box.status = "running" /\ box.result /\ ~box.working
    /\ run' = [run EXCEPT !.pc = "scan", !.until = clock, !.source = 1, !.then = "stop"]
    /\ UNCHANGED box /\ Kept /\ SameFiles

StopCandidate ==
    /\ Step("stop", "completion")
    /\ box' = [box EXCEPT !.status = "exited"]
    /\ Kept /\ SameFiles

(* validate_stop_completion: the logs are drained past the stop. *)
StopCompletion ==
    /\ run.pc = "completion" /\ box.status = "exited"
    /\ run' = [run EXCEPT !.pc = "scan", !.until = clock, !.source = 1, !.then = "seal"]
    /\ UNCHANGED box /\ Kept /\ SameFiles

------------------------------------------------------------------------------
(* EvidenceWriter.seal. *)

SealRecord ==
    /\ Step("seal", "create") /\ UNCHANGED box /\ Kept
    /\ WriteRecord

(* O_EXCL: another run's seal is never written over. *)
CreateSeal ==
    /\ Step("create", "fill") /\ UNCHANGED box /\ Kept
    /\ now.seal.of = 0
    /\ now' = [now EXCEPT !.seal = [of |-> run.n, records |-> wrote[run.n], whole |-> FALSE]]
    /\ UNCHANGED <<disk, wrote>>

WriteSeal ==
    /\ Step("fill", "sync") /\ UNCHANGED box /\ Kept
    /\ now' = [now EXCEPT !.seal.whole = TRUE]
    /\ UNCHANGED <<disk, wrote>>

SyncSealSkipped == Step("sync", "link") /\ UNCHANGED <<box, now, disk, wrote>> /\ Kept

SyncSeal ==
    /\ Step("sync", "link") /\ UNCHANGED box /\ Kept
    /\ disk' = now
    /\ UNCHANGED <<now, wrote>>

(* A hard link: the final name is created or the call fails. *)
LinkFinal ==
    /\ Step("link", "published") /\ UNCHANGED box /\ Kept
    /\ now.final = 0
    /\ now' = [now EXCEPT !.final = run.n]
    /\ UNCHANGED <<disk, wrote>>

SyncFinal ==
    /\ Step("published", "verify") /\ UNCHANGED box /\ Kept
    /\ disk' = now
    /\ UNCHANGED <<now, wrote>>

VerifyFinal ==
    /\ Step("verify", "passed") /\ UNCHANGED box /\ Kept
    /\ now.final = run.n
    /\ now' = [now EXCEPT !.partial = @ \ {run.n}]
    /\ disk' = now'
    /\ UNCHANGED wrote

------------------------------------------------------------------------------

(* Power is lost: each directory entry made or removed since the last sync   *)
(* survives or not, and an unsynced file may come back torn.                 *)
PowerLost ==
    /\ run.pc \notin {"passed", "over"}
    /\ \E s \in {now.seal, disk.seal}, f \in {now.final, disk.final},
          p \in {now.partial, disk.partial} :
           disk' = [partial |-> p, seal |-> s, final |-> f]
    /\ now' = disk'
    /\ box' = [box EXCEPT !.status = IF @ = "running" THEN "exited" ELSE @]
    /\ run' = [run EXCEPT !.pc = "over"]
    /\ UNCHANGED wrote /\ Kept

(* A new attempt at the same output path, with a token and a container of its own. *)
RunAgain ==
    /\ run.pc = "over" /\ run.n + 1 \in Runs
    /\ run' = Fresh(run.n + 1)
    /\ box' = [status |-> "created", working |-> FALSE, result |-> FALSE]
    /\ lines' = {} /\ producer' = 1
    /\ UNCHANGED <<clock, now, disk, wrote>>

ProfNext ==
    \/ Tick \/ FailureLine \/ ProfilerEnds \/ Publish
    \/ Abort \/ Arm \/ OpenEvidence \/ StartCandidate \/ Sample \/ ScanSource \/ EndScan
    \/ FinalObservation \/ StopCandidate \/ StopCompletion
    \/ SealRecord \/ CreateSeal \/ WriteSeal \/ SyncSeal \/ LinkFinal \/ SyncFinal
    \/ VerifyFinal \/ PowerLost \/ RunAgain

ProfSpec == ProfInit /\ [][ProfNext]_profVars

------------------------------------------------------------------------------

(* "A consumer can never observe a final-named pass JSONL without its        *)
(* already-durable hash/size binding" (gate_health_sampler.py:6376): whatever *)
(* the power loss keeps, evidence under its final name has a whole seal that *)
(* binds that run's records, also when an earlier run left a seal behind.    *)
FinalEvidenceIsSealed ==
    \A d \in {now, disk} :
        d.final # 0 =>
            /\ d.seal.of = d.final /\ d.seal.whole
            /\ d.seal.records = wrote[d.final]

(* Evidence that passes covers every failure logged from the container's     *)
(* start to the end of the last window, whichever of the scans' windows and  *)
(* however long a scan of another source took.                               *)
PassSawEveryFailure ==
    run.pc = "passed" => \A l \in lines : l[2] >= run.until
=============================================================================

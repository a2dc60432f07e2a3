---------------------------- MODULE MCOperations ----------------------------
(***************************************************************************)
(* The parts of the system that meet only through files, processes and the *)
(* network, for TLC.  They share no state with one another, so a behaviour *)
(* is a behaviour of one part: `focus' names it, and the other parts stay  *)
(* in an initial state.  Every parameter of a part is a constant, so that  *)
(* OperationsProofs and MonitorProofs speak of all its values.             *)
(***************************************************************************)
EXTENDS MCTaskQueue, Sequences

CONSTANTS ProbeReplies, PolicyFolders,                          \* priority signal
          HeartbeatMaxAge, SourceMaxAge, MaxTrackedEpochs,
          MaxTime, MaxEpochs, MaxPublications, MaxFaults,
          MaxAppends, MaxStops, JournalLosses,                  \* journal
          Publishers, Checkouts, MaxTroubles,                   \* release publishers
          Indexes, Candidate, SmokeMishaps,                     \* smoke
          Repositories, Evidence, CandidateRecord, Boundary,    \* source proof
          SealPath, SoakOnly, SoakReads, Image, Intended, MaxEdits,
          GateCandidates, MaxReceipts, MaxLead, Samples,        \* observer
          GateUpsets,
          MaxCgroups, MaxOoms, MaxUpsets,                       \* cgroup
          ProfilerRuns, Duration, Overlap, MaxClock, MaxFailures, \* profiler
          Backends, MaxRequests, MaxRepeats,                    \* resident worker
          MinMark, MinDelete, MaxGenerations, MaxTokens,        \* failure monitor
          MaxJobs, MonitorLosses,
          RepairCandidates, RepairRuns, MinCrashes, MaxPending, \* repair
          Oversized, MaxEvidence, MaxStarts,
          MaxSessions                                           \* MQTT publisher

VARIABLE focus

-----------------------------------------------------------------------------
(* The Frigate priority signal.  Probes succeed for either of two Frigate   *)
(* processes, or one of them stalls.                                        *)

Quiet == [fps |-> "low", ratio |-> "full", skips |-> "none", stalled |-> FALSE]
Busy == [Quiet EXCEPT !.fps = "high"]
Stalls == [server |-> "stalls", body |-> [kind |-> "missing"]]
Answered(body) == [server |-> "answers", body |-> body]
Probes(frigate, load) ==
    [stats |-> Answered([kind |-> "json", generation |-> frigate, load |-> load,
                         topology |-> TRUE]),
     version |-> Answered([kind |-> "text", pinned |-> TRUE]),
     nvidia |-> [exits |-> TRUE,
                 row |-> [kind |-> "row", sameGpu |-> TRUE, mode |-> "Default"]],
     ollama |-> Answered([kind |-> "json", models |-> FALSE])]

SomeReplies ==
    {Probes(1, Quiet), Probes(2, Quiet),
     [Probes(1, Quiet) EXCEPT !.stats = Stalls],
     [Probes(2, Busy) EXCEPT !.ollama = Stalls]}
OneFolder == {[private |-> TRUE, inode |-> 1, raw |-> "expected", config |-> "pinned"]}

VARIABLES producer, signal, spare, reader, handed, taken, spent, now
prioVars == <<producer, signal, spare, reader, handed, taken, spent, now>>

\* A JSON answer to the stats request holds the load of the cameras.
ASSUME PriorityAssumption ==
    /\ HeartbeatMaxAge \in Nat /\ SourceMaxAge \in Nat
    /\ \A reply \in ProbeReplies :
          reply.stats.server = "answers" /\ reply.stats.body.kind = "json" =>
             reply.stats.body.load \in [fps : {"low", "middle", "high"},
                                       ratio : {"full", "fair", "poor"},
                                       skips : {"none", "some", "many"},
                                       stalled : BOOLEAN]

Prio == INSTANCE PrioritySignal
    WITH Replies <- ProbeReplies

-----------------------------------------------------------------------------
(* Failure markers, the failure monitor and the repair timer. *)

VARIABLES fs, after, mounted, registry, saved, mon, job, line, proven, used
failVars == <<fs, after, mounted, registry, saved, mon, job, line, proven, used>>

\* The library holds a file to begin with, its first generation.
ASSUME MonitorAssumption ==
    MinDelete \in Nat /\ MaxTokens \in Nat /\ MaxGenerations \in Nat \ {0}

Fail == INSTANCE FailureDeletion
    WITH MaxLosses <- MonitorLosses

VARIABLES evidence, repairFile, runs, lock, log, dropped, starts
repairVars == <<evidence, repairFile, runs, lock, log, dropped, starts>>

\* A run is not named like the owner of a free lock.
ASSUME RepairAssumption ==
    "nobody" \notin RepairRuns /\ MaxPending \in Nat

Repair == INSTANCE FailureRepair
    WITH Candidates <- RepairCandidates, Runs <- RepairRuns

-----------------------------------------------------------------------------
(* The release: its journal, its publishers, the anonymous smoke and the    *)
(* source proof.                                                            *)

VARIABLES disk, left, writer, acked, counts
journalVars == <<disk, left, writer, acked, counts>>

Journal == INSTANCE ReleaseJournal
    WITH MaxLosses <- JournalLosses

Exact == [clean |-> TRUE, manualOnly |-> TRUE, ancestry |-> TRUE,
          tagExact |-> TRUE, notesExact |-> TRUE, verifierAccepts |-> TRUE,
          imageExact |-> TRUE]
CleanAndNot == {Exact, [Exact EXCEPT !.clean = FALSE]}

VARIABLES hub, honours, journal, proc, late, residue, seen, bill
releaseVars == <<hub, honours, journal, proc, late, residue, seen, bill>>

Release == INSTANCE ReleasePublisher

\* The lock ref names a publisher or nobody.
ASSUME ReleaseAssumption == Release!NoOne \notin Publishers

Manifest(d) == [digest |-> d, exact |-> TRUE, ours |-> TRUE, amd64 |-> TRUE,
                layers |-> TRUE]
Arm == [Manifest("b") EXCEPT !.ours = FALSE, !.amd64 = FALSE]
SomeIndexes ==
    {<<Manifest("a"), Arm>>, <<>>, <<Manifest("a"), Manifest("a")>>,
     <<Manifest("a"), Manifest("b")>>, <<[Manifest("a") EXCEPT !.layers = FALSE]>>,
     <<Arm, [Manifest("a") EXCEPT !.exact = FALSE]>>}

VARIABLES index, engine, images, smoke, mishaps
smokeVars == <<index, engine, images, smoke, mishaps>>

\* An index is a finite sequence of manifests.
ASSUME SmokeAssumption ==
    SmokeMishaps \in Nat /\ \A i \in Indexes : Len(i) \in Nat

Smoke == INSTANCE AnonymousSmoke
    WITH MaxMishaps <- SmokeMishaps

\* A workflow is a sequence of `on' blocks; a comment between the triggers hides
\* the ones below it.
Line(indent, holds) == [indent |-> indent, holds |-> holds]
Manual == <<Line(2, "workflow_dispatch"), Line(4, "inputs")>>
Pushed == <<Line(2, "workflow_dispatch"), Line(2, "comment"), Line(2, "push")>>
Hidden == <<Line(2, "workflow_dispatch"), Line(0, "comment"), Line(2, "push")>>
Repository ==
    [grafts |-> FALSE, replaced |-> FALSE, shallow |-> FALSE,
     chain |-> <<"p", "r", "s", "v">>,
     ancestry |-> {<<"p", "r">>, <<"r", "s">>, <<"s", "v">>},
     head |-> "v", remoteExact |-> TRUE, proofBlob |-> 1, running |-> 1,
     changed |-> {"notes"}, allowed |-> {"notes"}, tag |-> "v",
     notesExact |-> TRUE, workflows |-> << <<Manual>> >>, bound |-> [gate |-> 1, soak |-> 1],
     samplerBlobs |-> 1, releaseBlobs |-> 1, producer |-> 1, runtimeProducer |-> 1]
SomeRepositories ==
    {Repository, [Repository EXCEPT !.replaced = TRUE],
     [Repository EXCEPT !.workflows = Append(@, <<Pushed>>)],
     [Repository EXCEPT !.workflows = Append(@, <<Hidden>>)],
     [Repository EXCEPT !.bound.soak = 2],
     [Repository EXCEPT !.bound = [gate |-> 2, soak |-> 2]],
     [Repository EXCEPT !.ancestry = {}]}

\* The first gate runs test the intended image, the third another one.
EvidenceFiles == <<"seal", "candidate", "boundary", "soak">>
SoakRecords == {"soak"}
SoakFiles == {"soak", "seal", "candidate"}
Images == [r \in 1 .. 5 |-> IF r < 3 THEN "intended" ELSE "other"]

VARIABLES repo, clean, file, proof, edits
sourceVars == <<repo, clean, file, proof, edits>>

\* The evidence holds the files both verifiers and the proof read.
ASSUME SourceAssumption ==
    /\ \A need \in {CandidateRecord, Boundary, SealPath} :
          need \notin SoakOnly /\ \E f \in 1 .. Len(Evidence) : Evidence[f] = need
    /\ SealPath \in SoakReads
    /\ \A r \in Repositories : \A i \in 1 .. Len(r.workflows) :
          \A j \in 1 .. Len(r.workflows[i]) :
             /\ r.workflows[i][j] \in Seq([indent : Nat, holds : STRING])
             /\ \A k \in DOMAIN r.workflows[i][j] :
                   r.workflows[i][j][k].indent = 0 => r.workflows[i][j][k].holds = "comment"

Source == INSTANCE SourceProof

-----------------------------------------------------------------------------
(* The release gate: the observer, its cgroups and the capacity profiler. *)

VARIABLES candidate, receipts, hurt, harm, made, container, gateSignal, posted,
          gate, gateMishaps
gateVars == <<candidate, receipts, hurt, harm, made, container, gateSignal, posted,
              gate, gateMishaps>>

Gate == INSTANCE GateObserver
    WITH Candidates <- GateCandidates, MaxMishaps <- GateUpsets, signal <- gateSignal, mishaps <- gateMishaps

VARIABLES driver, cgroups, cgroupPath, cgroupBox, parent, ooms, upsets
cgroupVars == <<driver, cgroups, cgroupPath, cgroupBox, parent, ooms, upsets>>

Cgroup == INSTANCE GateCgroup
    WITH path <- cgroupPath, box <- cgroupBox

VARIABLES clock, lines, profBox, profProducer, run, profNow, profDisk, wrote
profVars == <<clock, lines, profBox, profProducer, run, profNow, profDisk, wrote>>

\* Runs are numbered from one; the scanner's windows overlap by whole ticks.
ASSUME ProfilerAssumption ==
    /\ 1 \in ProfilerRuns /\ ProfilerRuns \subseteq Nat \ {0}
    /\ Overlap \in Nat

Prof == INSTANCE GateProfiler
    WITH Runs <- ProfilerRuns,
         box <- profBox, producer <- profProducer, now <- profNow, disk <- profDisk

-----------------------------------------------------------------------------
(* The inventory publisher and the out-of-process workers of the service.  *)

VARIABLES flag, loop, net, broker
pubVars == <<flag, loop, net, broker>>

Mqtt == INSTANCE InventoryPublisher

VARIABLES backend, resident, child, commands, answers
workerVars == <<backend, resident, child, commands, answers>>

Resident == INSTANCE ResidentWorker
    WITH w <- resident

-----------------------------------------------------------------------------
Parts == {"queue", "priority", "failures", "repair", "journal", "release", "smoke",
          "source", "gate", "cgroup", "profiler", "mqtt", "worker"}

opsVars == <<focus, vars, prioVars, failVars, repairVars,
             journalVars, releaseVars, smokeVars,
             sourceVars, gateVars, cgroupVars, profVars,
             pubVars, workerVars>>

OpsInit ==
    /\ focus \in Parts
    /\ Init /\ Fail!FailInit /\ Journal!JournalInit /\ Prof!ProfInit /\ Mqtt!PubInit
    /\ Prio!PrioInit /\ (focus # "priority" => signal = Prio!Missing)
    /\ Repair!RepairInit
    /\ (focus # "repair" => \A c \in DOMAIN evidence : evidence[c].file = "present")
    /\ (focus # "repair" => repairFile.results = Repair!Idle.results)
    /\ Release!ReleaseInit /\ (focus # "release" => honours.create /\ honours.match)
    /\ Smoke!SmokeInit
    /\ (focus # "smoke" => index = <<>> /\ \A e \in DOMAIN images : images[e] = {})
    /\ Source!SourceInit /\ (focus # "source" => repo = Repository /\ clean)
    /\ Gate!GateInit /\ (focus # "gate" => candidate = "runtime")
    /\ Cgroup!CgroupInit /\ (focus # "cgroup" => driver = "systemd")
    /\ Resident!WorkerInit /\ (focus # "worker" => backend = "cuda")

OpsNext ==
    /\ UNCHANGED focus
    /\ IF focus = "queue" THEN Next ELSE UNCHANGED vars
    /\ IF focus = "priority" THEN Prio!PrioNext ELSE UNCHANGED prioVars
    /\ IF focus = "failures" THEN Fail!FailNext ELSE UNCHANGED failVars
    /\ IF focus = "repair" THEN Repair!RepairNext ELSE UNCHANGED repairVars
    /\ IF focus = "journal" THEN Journal!JournalNext ELSE UNCHANGED journalVars
    /\ IF focus = "release" THEN Release!ReleaseNext ELSE UNCHANGED releaseVars
    /\ IF focus = "smoke" THEN Smoke!SmokeNext ELSE UNCHANGED smokeVars
    /\ IF focus = "source" THEN Source!SourceNext ELSE UNCHANGED sourceVars
    /\ IF focus = "gate" THEN Gate!GateNext ELSE UNCHANGED gateVars
    /\ IF focus = "cgroup" THEN Cgroup!CgroupNext ELSE UNCHANGED cgroupVars
    /\ IF focus = "profiler" THEN Prof!ProfNext ELSE UNCHANGED profVars
    /\ IF focus = "mqtt" THEN Mqtt!PubNext ELSE UNCHANGED pubVars
    /\ IF focus = "worker" THEN Resident!WorkerNext ELSE UNCHANGED workerVars

OpsSpec == OpsInit /\ [][OpsNext]_opsVars

-----------------------------------------------------------------------------
(* The properties, each stated and explained in the module of its part.    *)

\* The reader hands a publication to the controller as new at most once.
EvidenceIsNews == Prio!EvidenceIsNews

\* A clear signal the controller is handed comes from a full, healthy round
\* whose heartbeat and sample are fresh.
ClearIsEarned == Prio!ClearIsEarned

\* The monitor deletes only the file whose failures were recorded.
OnlyProvenMediaDestroyed == Fail!OnlyProvenMediaDestroyed

\* What a deletion that was seen through removed, no power loss brings back.
DeletedIsGone == Fail!DeletedIsGone

\* A report leaves the pending queue only for the log or for a newer one; the
\* reports of retired deletions can be lost with the run that owes them.
ReportsAreKept == Repair!ReportsAreKept

\* A resumed publisher continues from the newest acknowledged checkpoint.
ResumesFromNewest == Journal!ResumesFromNewest

\* Crashes alone leave no journal that refuses to open, but for data that were
\* published unsynced and cut short by a power loss.
CrashesNeverBlock == Journal!CrashesNeverBlock

\* No publisher overwrites a tag or release that was there.
NothingOverwritten == Release!NothingOverwritten

\* The `latest' tag is moved at most once.
LatestSentOnce == Release!LatestSentOnce

\* Crashes alone never strand a release half-published, but for one inside the
\* smoke and an update of latest nobody can resolve.
CrashesAreResumable == Release!CrashesAreResumable

\* A publisher records only checkpoints its journal accepts.
ReceiptsAreAccepted == Release!ReceiptsAreAccepted

\* A smoke that passes pulled and removed the candidate on one engine.
PassIsEarned == Smoke!PassIsEarned

\* A source proof binds one version of every evidence file.
ProofBindsOneCapture == Source!ProofBindsOneCapture

\* A gate that passes has counted every failure from the reset boundary of its
\* second phase to its end.
PassMissedNothing == Gate!PassMissedNothing

\* A gate that passes saw one yield and one recovery, in order.
PassWatchedOneCycle == Gate!PassWatchedOneCycle

\* The final drain counts every OOM of the candidate's life.
DrainCountsWholeLife == Cgroup!DrainCountsWholeLife

\* Evidence under its final name is complete and synced.
FinalEvidenceIsSealed == Prof!FinalEvidenceIsSealed

\* A profile that passes has seen every failure line of its time.
PassSawEveryFailure == Prof!PassSawEveryFailure

\* A publisher that ended does not stay online at the broker.
GoneIsOffline == Mqtt!GoneIsOffline

\* A worker that says it is released has no process and no pipe.
ReleasedIsGone == Resident!ReleasedIsGone
=============================================================================

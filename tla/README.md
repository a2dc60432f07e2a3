# A verification project for Subgen

Subgen watches media folders and listens for webhooks, queues the files that need
subtitles, and transcribes them with one shared Whisper model, under a memory budget
that other programs on the host may claim back at any time. Beside the service the
repository holds the programs that operate it: a priority signal, a failure monitor, a
repair timer, and the tools that verify and publish a release. This directory holds TLA+
models of the parts in which threads, processes or machines meet, the TLC runs that check
them on small instances, and TLAPS proofs of what matters most for every instance.

All paths below are relative to the repository (`src/`). `PROJECT.json` maps every
definition that models code to the lines it models.

## 1. The system

### Components, their state and operations

| Component | Source | State it keeps | Operations |
|---|---|---|---|
| Pressure controller | `subgen_core/resource_management.py` (`PressureController`) | normal / yielding / recovering, `admission_open`, healthy-sample count, priority state, epoch and recovery counters | observe a sample, observe the priority signal, poll, mark released, close and open admission, immediate admission of a load, latch a failed release |
| Model coordinator | `subgen_core/model_runtime.py` | admission barrier, release generation, release transitions, inference permits, load lock, resident model, quarantine, cleanup timer | admit, take a slot, load, infer, yield in a callback, release (owner or joiner), wait for recovery, observe while idle, clean up, shut down |
| Commit gate and retry loops | `subgen_core/transcription.py` | none of their own | recheck pressure before a chunk is committed; release, wait and retry |
| Task queue | `subgen_core/queueing.py` | heap, `_queued`, `_processing` | put (deduplicated), get, mark done, is_active, is_idle |
| Blocking endpoints | `subgen_override.py` (`/asr`, OpenAI routes) | `task_results`: one container per audio identity | attach, queue, wait with a timeout, answer, drop |
| Worker loop | `subgen_override.py` (`transcription_worker`) | the task in hand | take, wait for the scan, work, mark done, queue the follow-up, drop the result |
| Startup inventory | `subgen_core/mqtt_inventory.py` (`InventoryCoordinator`) | per-library total / scanned / left, sets of counted, pending, seen, unvisited and late identities, the scan barrier | 16 methods under one lock |
| Scanner and watcher | `subgen_core/scanner.py` | the walk's position; Watchdog's event queue | count, inspect, reconcile; created / modified / moved / deleted |
| MQTT publisher | `subgen_core/mqtt_inventory.py` (`InventoryPublisher`) | latest snapshot, flags shared with paho's thread, the retained messages at the broker | start, update, publish, reconnect, stop |
| Library file processing | `subgen_core/media.py`, `transcription.py` | none | skip rules, validation, track choice, writing |
| Segmented transcription | `transcription.py`, `segmentation.py`, `segmented_result.py`, `AdaptiveChunkState` | chunk length, journal of committed chunks, workload receipts | admit, plan, extract, transcribe, commit, shrink and grow, join |
| Subtitle publication | `transcription.py` (`_atomic_publish`, `_publish_gate_staging`) | staging file, the subtitle path | stage, sync, rename or link, sync the directory, clean up |
| Priority signal | `priority_pressure.py`, `monitor_frigate_priority.py` | a file with sequence number, epoch and time; the reader's memory of it | poll, decide, publish, read |
| Parallel and cohort transcription | `parallel_transcription.py`, `cohort_runtime.py`, `cohort_policy.py`, `segmentation.py` | chunk coordinator, worker handles, memory lease | load, claim, stage, yield, commit, release, shut down |
| Out-of-process workers | `resident_worker.py`, `cuda_worker.py`, `cuda_worker_entry.py`, `whisper_cpp_worker.py`, `native/` | a child process and its pipes | load, transcribe, unload, kill, reap, release |
| Model selection | `resource_management.py`, `model_envelope_catalog.py` | none | `select_model`, `evaluate_admission` |
| Failure markers, monitor, repair | `subgen_failure_markers.py`, `monitor_subgen_failures.py`, `repair_subgen_failures.py`, `subgen_ops_safety.py` | failure counts per file generation, marker registry, quarantine folders, repair state and log | count, mark, quarantine, delete, recover; report |
| Release tooling | `release_tools/` | receipt journal, GitHub and registry | append, resume, publish, smoke-test, prove |
| Release gate | `docs/aegis/work/...-v0.5.0/runtime_gate_observer.py`, `gate_health_sampler.py` | baselines, receipts read, pinned cgroup, evidence files | run the candidate, watch, drain, seal |
| Receipts | `runtime_receipts.py` | append-only receipts, the bound workload | bind, record, abort, complete |
| Progress, integrations, configuration, soak observer | see `PROJECT.json` | display and I/O only | |

### How they interact

Webhooks, the watcher and the scanner call `gen_subtitles_queue`, which reserves the
item in the inventory and puts a task into the deduplicated queue. A worker takes a task,
waits until the startup scan is over, and runs it; the blocking endpoints put their
upload there too and wait on a container that the worker sets. To run an inference the
worker passes the admission barrier, takes a permit, loads the model under the load
lock if it is not resident, and calls it; the model calls back between segments, which
is where the controller is polled and the worker may be told to yield. A yield, the
idle observer, the cleanup timer and a failed allocation all ask for a release:
`_release_model_once` elects one owner, which drains every permit, unloads and completes
the transition that the others joined. The controller samples host and GPU memory and
the priority signal of a neighbouring program; it decides when admission may reopen.

A file is transcribed whole or in chunks; chunks are committed to a journal, joined and
published atomically at the subtitle path. With several GPUs the chunks go to resident
worker processes that share one memory lease. Outside the service, the priority monitor
writes a file that the controller's reader polls; the failure monitor follows the
service's event lines and marks, or deletes, media that fails again and again; the repair
timer reports what became of crash candidates. A release is checked by a gate that runs
one candidate container and reads its receipts, proved from the captured evidence, and
published by a program that records every public write in its journal.

### What is hard here

* Flags are read under one lock (or none) and acted on under another: the health checks
  before a slot, the barrier and generation before the semaphore, `admission_open`
  before the close, the activity of a path before its reservation is kept.
* A release waits for permits of workers that may themselves be waiting for the release.
* Late tickets: a release asked for by an inference of an earlier generation.
* Timeouts and retries of uploads that are still queued or running.
* File events that overtake the walk, before and after its cutoff; an expired scan whose
  thread goes on.
* Counters that are kept beside the sets they count, and clamped at zero.
* Power loss between writing, renaming and syncing a file: subtitles, quarantined media,
  the release journal, the gate's evidence.
* Files, engines and cgroups known by a name that somebody else may reuse.
* Remote writes that fail, are applied without an answer, or are applied late.
* Processes that may not be dead when their owner gives up on them.

`PROJECT.json` lists the hazards line by line, with the properties that would catch each.

## 2. The modules

| Module | Models | Extends |
|---|---|---|
| `PressureController` | the controller as functions of one record | |
| `ModelRuntime` | coordinator, worker retry loop, observer, cleanup timer, shutdown | `PressureController` |
| `MCModelRuntime` | bounds, symmetry, history variable `born` | `ModelRuntime` |
| `ModelRuntimeProofs` | theorems; first what the controller's methods preserve | `MCModelRuntime` |
| `TaskQueue` | queue, result containers, endpoints, library feeder, worker loop | |
| `MCTaskQueue`, `TaskQueueProofs` | instance; theorems | `TaskQueue` |
| `Inventory` | inventory coordinator, scanner, watcher, webhooks, worker barrier | |
| `MCInventory`, `InventoryProofs` | instance in three settings, history variables `removed` and `letGo`; theorems | `Inventory` |
| `SubtitleFile` | *abstract*: what a reader of a subtitle path is promised | |
| `SubtitlePublication` | atomic publication; refines `SubtitleFile` | |
| `AdaptiveChunk`, `AdaptiveChunkProofs` | chunk length and chunk plan, as functions; lemmas about them | |
| `FileTranscription` | one file at a time: attempts, chunks, journal, receipts, publication | `SubtitlePublication`, `AdaptiveChunk` |
| `FileTranscriptionProofs` | the refinement by the publication; theorems about a file | the above and `AdaptiveChunkProofs` |
| `CohortTranscription`, `CohortTranscriptionProofs` | one file on several GPUs; theorems | `AdaptiveChunk` |
| `MCTranscription` | instance: a process takes one of the two ways | both |
| `PrioritySignal` | priority monitor and reader | |
| `FailureDeletion`, `FailureRepair` | failure monitor with quarantined deletion; repair timer | |
| `ReleaseJournal`, `ReleasePublisher`, `AnonymousSmoke`, `SourceProof` | the release | |
| `GateObserver`, `GateCgroup`, `GateProfiler` | the release gate | |
| `InventoryPublisher` | the MQTT publisher, paho's thread and the broker | |
| `ResidentWorker` | parent and child of one out-of-process worker | |
| `MCOperations` | instance of the task queue and of the twelve parts above it shares no state with | `MCTaskQueue`; named instances of the others |
| `OperationsProofs` | theorems about ten of those parts | `MCOperations` |
| `MonitorProofs` | theorems about the failure monitor's deletion and the publishers | `MCOperations` |

### PressureController and ModelRuntime

A step of `ModelRuntime` is one critical section of the code: a block under
`model_runtime_condition`, one semaphore or lock operation, or one controller method.
`pc[t]` names the block a thread executes next. `ctl` is the controller, `closed`,
`relGen` and `transitions` are the admission barrier, the release generation and every
`_ReleaseTransition`; the semaphore is a set of permits with an owner each, which is what
lets a property say that none is leaked.

What is abstracted:

* A memory sample is the verdict the code takes from it: pressure, critical, fresh,
  admissible. The byte arithmetic of `_classify` and `evaluate_admission` is not in this
  module; every combination of verdicts the code can reach is an input.
* `latch_receipt_failure`, `enter_no_safe_model` and `_explicit_capacity_refusal` have no
  operator: the first belongs to the receipts, the other two to model selection.
* A priority observation is its state, whether it is new, and its producer's epoch and
  generation. Reading and validating the file is `PrioritySignal`.
* `Init` is the end of `initialize_model_runtime` with an admitted model and one
  bootstrap sample; the reselection after no model fits is not modelled.
* A direct `/detect-language` upload behaves as a worker that skips the queue.
* The observer goes on after a shutdown, which allows more than the code does.
* The legacy path without a coordinator is left out; receipts are in `FileTranscription`,
  the cohort backend in `CohortTranscription`.

The health and cancel checks are separate steps from the block under the condition
(`AdmitCheck` and `Admit`), because the code makes them before it takes the condition.
This is why `QuarantineIsFinal` rests on the cancel event, which a slot rechecks, and not
on the barrier, which a late thread may reopen.

### TaskQueue

`heap`, `queued` and `processing` are the fields of `DeduplicatedQueue`; `get` pops the
heap in one step and registers the task in the next, as the code does. A container is
named by the request that created it; `results` is `task_results`. Requests run the
handlers of `/asr` and the OpenAI routes, the feeder is `gen_subtitles_queue`, and a
worker runs to the end of its `finally` block, the follow-up of a language detection and
the dropping of the container included.

### Inventory

The coordinator is guarded by one lock, so each of its methods is a function of the record
`inv` and each call is one step. The scanner is the loop of `_scan_existing` and
`_reconcile_inventory_cutoff`; the watcher runs one callback at a time, bound to the scan
if it was dispatched before the cutoff; scanner, watcher and webhooks share the steps of
`gen_subtitles_queue` and `_put_task_with_inventory`; a worker takes a task, waits for the
barrier and completes, fails or detects.

What is abstracted: the scan is armed once, before the threads run, so a generation is
current or absent; libraries do not overlap and none is a single file; a library is listed
in one step and visited file by file; the number of errors is a flag; MQTT is enabled and
`monitor` is on (no temporary observer); skip markers and directory events are left out,
and so is the re-layout of `begin_scan`. The skip rules of `gen_subtitles_queue` are a
nondeterministic early return. The watcher may find that a file does not settle and drop
its event. The exception path around `put` (`media.py:1279-1286`) is left out: a put on the
unbounded in-memory queue does not raise.

`MCInventory` explores three settings, because their product is too large: the *folders* of
two libraries change under a scan that nothing else disturbs, every file settling; in the
*arrival* of one file, it comes, goes or changes once and may fail to settle while a webhook
and a worker are about, under a scan without errors; in *troubles* one file that stays meets
a webhook, a worker, errors, a hanging scan and shutdown. Not explored together: two changes
with a webhook or a worker, and any change with errors, expiry or shutdown (after which a
scan is not clean, so `CleanScanIsExact` and `NothingMissed` say nothing). `letGo` is the set
of present files that the watcher dropped or a roll-back uncounted: the two exceptions of
`NothingMissed`, both reached in the arrival setting.

### SubtitlePublication and SubtitleFile

A path has what a reader sees (`now`), what survives a power loss (`kept`) and whether the
bytes are on disk (`synced`). A rename or link moves the name at once, a directory sync
makes it durable, a power loss leaves any survivor of each path, and a torn file where
bytes were not synced. Every step may raise. Outside the gate an unsyncable directory is
tolerated, as in the code. Two externals: another program writes the subtitle path, or
moves its file over the staging name. The refinement mapping sends `now` to `shown`,
`kept` to `past` and `gate` to `strict`.

### FileTranscription and CohortTranscription

`FileTranscription` is `gen_subtitles`: admission, load, a whole attempt or the chunk loop,
release and recovery after pressure or a failed allocation, commit, join, publication,
receipts, and the error handler. A transcript is the intervals it covers and the
generations of the media file they were read from, so that "made from one recording, once"
can be said. `ModelRuntime` has the coordinator these steps call; here an inference ends in
one of its results. The validation of the media was made when the file was queued, so it may
be of any earlier recording when a worker starts. The first check of it stands before the
`try` block (`transcription.py:1835`): a stale file ends there, without the handler and
without its waiter being told (place `stale`, an exception of `WaiterIsTold`).

`CohortTranscription` has five kinds of thread: the runner, the load, one inference per
worker, and shutdown. A range of media is a pair of units; the retry ranges are a set of
units. `CohortModelRuntime`, its lease and its worker processes, `ParallelChunkCoordinator`
and the runner's loop are modelled with every cancellation reason and failure; what a
pressure controller computes is a verdict.

### PrioritySignal

The producer polls, decides and publishes; the file may be missing, damaged, unsafe (another
owner, mode or type: only that stops the producer) or put back as it was; the producer
restarts; the reader reads file and clock in one step. The four probes answer,
stall or err within the poll's budget. `taken` is a history variable: the publications the reader has handed out as new.

### FailureDeletion and FailureRepair

A media file is its generation and ctime. The monitor's steps are those of the quarantine
protocol, with a failing sync or rename at each, restart, power loss (`after` is the set of
folders a power loss may leave) and an owner who replaces or removes the file. The monitor
overwrites a state file it cannot read, as the code does. One sync makes the folder durable up to that
moment, although the code syncs the quarantine's descriptor only: the file system is assumed
to keep the order of metadata changes (a journal, as ext4, xfs and btrfs have for a rename
across two directories). The status `deleted_recovered` has two meanings, told apart in the
model by why it was given: the deletion was seen through after a restart, or the path was
missing, which an unmounted library is too.

In `FailureRepair` two timer runs construct their object before the lock and reload after
it; each may die anywhere. A state file of an older version may hold deletions that were
begun; they are retired, saved and then reported. A report longer than the log may be is
replaced by an omission line when the queue is flushed. Reading the marker registry is one
step. Left out: a malformed state file, which ends the run at once, and the report of a run
without candidates.

### The release

`ReleaseJournal` has staged writes, links, unlinks and directory syncs one by one. Names and
data are durable apart: data that a process wrote and did not sync stay `soft` until it is
removed or replaced, and a power loss may cut them short (`torn`) under whatever name they
have then. With it checked, `ReleasePublisher` takes an append as atomic and models what is around it: two
publishers with their own journals, other people's pushes, requests that fail, are applied
unanswered or late, a registry that may ignore conditional writes, and `publish()` called
again from the newest checkpoint. A late removal of the lock ref may leave a publisher
blocked, which fails closed. The smoke's pull and DELETE are steps of their own there, and an
image left by a publisher that died between them (`residue`) makes every later call refuse.
`AnonymousSmoke` has an engine that may be replaced and used by
others (it never goes back to an earlier identity); `SourceProof` a work tree and evidence
files that change while they are captured. A workflow is its trigger blocks, line by line
with their indentation, of two kinds: comments, and keys or list items. The inline form, of
which the code accepts two texts, is a block of one line. Other YAML (an explicit `? push`
key, an anchor, a block in flow style) is not represented.

### The release gate

`GateObserver` follows `run_observer`: a candidate appends receipts, failures strike, and the
observer's waits, samples, drains and document are its steps. Two candidates are explored:
the receipts as the plan documents them, and as this commit publishes them. The latter binds
its workload before the chunk, so its gate never passes; that fails closed. Deadlines are
nondeterministic aborts; a host sample and the re-read beside it are one step. Failures of
kernel, cgroup and Frigate between the deltas of phase A and the baseline of phase B are not
observed by the code, and no property claims them: `PassMissedNothing` counts from the reset
boundary of phase B. The signal may be asserted a second time at the cost of the instance's
mishap. `GateCgroup` has the parent directory, its
pins and a name others may reuse; a clean-up before the candidate is bound does not wait for
a lingering child. `GateProfiler` has log windows on a wall clock, and the seal, link and
sync of the evidence with power loss; the sync of the seal and that of its directory are one
step, as both precede the link. A profiler that aborts stops its container or fails to.

### InventoryPublisher and ResidentWorker

The publisher's loop, paho's callbacks (`_on_connect` in three steps, as its lock ends before
`_connected` is set) and the broker with session, last will and retained availability. A
message reaches the broker in order or not at all; redelivery in a later session is left
out. `ResidentWorker` has one parent object with its deadlines, the two backends and a child
that may answer, err, repeat a packet, hang or die; a second load on a CUDA worker
terminates the child, as in the code.

## 3. The runs

| Run | Instance | What it shows |
|---|---|---|
| `runtime_workers` | 2 segmented workers, observer, 1 permit, 2 generations | No unload under an inference, no ticket releases a newer model |
| `runtime_quarantine` | 2 workers whose loads run out of memory | A quarantined profile gives no more slots, even when the barrier was reopened meanwhile |
| `runtime_priority` | a priority signal with 2 producer generations | Admission is open only when normal and the signal has recovered |
| `runtime_liveness` | 1 CUDA worker, cleaner, observer, 2 permits, failures, lost telemetry, shutdown | Every release completes, every joiner returns |
| `inventory` | 2 libraries that change 2 times under the scan; or 1 file that comes or goes, webhook, worker; or 1 file, webhook, worker, failures, hanging scan, stop | Counters match their sets, a clean scan is exact, nothing that stayed is missed unless it was let go, every worker is let go |
| `transcription` | 2 files (3 and 2 units) by the model, gate on or off; or a file of 5 units, or of 2 with pressure and shutdown, on 2 GPUs | Publication refines `SubtitleFile`; completed is durable; one recording per subtitle; waiters are told, with two exceptions; chunks partition the media; the lease covers live processes; every cohort file ends |
| `operations` | one part at a time, see `MCOperations` | 23 properties of 13 parts, below |
| `runtime_stuck_yield` | 1 segmented worker, observer | *violation*, finding 1 |
| `runtime_closed_normal` | 1 worker, observer | *violation*, finding 2 |
| `queue_lost_result` | 3 uploads of one audio, 1 worker | *violation*, finding 3 |
| `inventory_items_left` | 1 file, 2 changes | *violation*, finding 4 |
| `mqtt_rediscovery` | 2 broker sessions | *violation*, finding 5 |

The parts of `operations` share no state, so checking them together would only multiply
their states. A behaviour picks a part (`focus`) and the others stay in an initial state;
the reachable states are the disjoint union of the parts'. The parameters of the parts are
constants that `operations.cfg` gives values to. What each part shows:

| Part | Instance | Properties |
|---|---|---|
| queue | 2 uploads of one audio, a feeder, 2 workers | `OneOwnerPerTask`, `AcceptedIsServed`, `NoResultLeftBehind` |
| priority | 2 Frigate processes, 2 producer epochs, 1 fault | `EvidenceIsNews`, `ClearIsEarned` |
| failures | 1 path, 2 generations, 2 jobs, 1 power loss or lost line | `OnlyProvenMediaDestroyed`, `DeletedIsGone` |
| repair | 2 candidates, deletions an older version began, 2 overlapping runs | `ReportsAreKept` |
| journal | 3 appends, 3 stops, 1 lost receipt | `ResumesFromNewest`, `CrashesNeverBlock` |
| release | 2 publishers, 1 trouble besides crashes | `NothingOverwritten`, `LatestSentOnce`, `CrashesAreResumable`, `ReceiptsAreAccepted` |
| smoke | 6 image indexes, 3 mishaps | `PassIsEarned` |
| source | 4 repositories, 4 edits | `ProofBindsOneCapture` |
| gate | 16 receipts, 1 mishap | `PassMissedNothing`, `PassWatchedOneCycle` |
| cgroup | 3 directories, 2 OOMs, 3 upsets | `DrainCountsWholeLife` |
| profiler | 2 runs at one path, 4 clock ticks, 1 failure line | `FinalEvidenceIsSealed`, `PassSawEveryFailure` |
| mqtt | 2 sessions | `GoneIsOffline` |
| worker | 2 backends, 2 requests, 1 repeated packet | `ReleasedIsGone` |

### Bounds

* `MaxGen` bounds the release generation and `MaxExt` the controller's external-recovery
  counter. Two generations are enough for a ticket to be one release late, and for the two
  failed loads of a quarantine; at the bound a behaviour may stop, and liveness properties
  count reaching it as success.
* `RecoverySamples` and `PriorityClears` are 3 in the code and 1 in the runs: the counters
  only delay, and the proofs hold for every value.
* One permit makes two workers compete; two permits make the drain take two steps.
* Three uploads are what finding 3 needs; the passing run has two, which is what a retry
  and a duplicate need.
* `MaxChanges` is 2 in `inventory`: a file is deleted and recreated, or moved, on either
  side of the cutoff. The arrival setting has one change, which is what the race of watcher,
  webhook and worker over a new file needs; the troubles setting has none: its races are
  between the callers, the worker and the end of the scan.
* A file of 3 units with a baseline of 2 is split, grows and shrinks; one media replacement
  and one pressure event are enough for each to fall between any two steps. Five units on
  two GPUs fill the spool of staged chunks (`2 * workers`).
* A power loss may follow every step; one loss per behaviour is enough because the state
  after it is an initial state of the same protocol with leftovers, which the next process
  starts from (`MaxStops` 3 in the journal, where recoveries are interrupted too).
* Sixteen receipts are a whole documented cycle of the gate with one slip; 181 samples of
  phase B are one.

### Fairness

`runtime_liveness`, `runtime_stuck_yield` and `runtime_closed_normal` assume that a thread
inside a call keeps running (weak fairness of each busy worker, cleaner and of the
observer's loop, which the code runs in a daemon thread), and that an inference, which may
call back any number of times, returns at last (strong fairness of `InferReturn`). Nothing
is assumed of a worker without a task, of samples, or of the priority signal.
`inventory` assumes that the watchdog timer fires (or the waiting worker's own
timeout, `scan_timeout_seconds + 5`) and that workers run; it assumes nothing of the
scanner, which may hang in the file system for ever.
`transcription` assumes that the cohort's runner and load threads keep running and that an
inference ends, which the deadline passed to the worker enforces; pressure may come as
often as the bound lets it, allocation failures for ever.

`CHECK_DEADLOCK FALSE` is set where everything may be done (inventory, transcription,
operations, MQTT).

## 4. Findings

1. `runtime_stuck_yield`: a segment commit that finds pressure after the observer's
   release has completed binds its ticket to a generation that release has covered. The
   release is skipped, nobody acknowledges the yield, and the controller stays yielding
   with no model.
2. `runtime_closed_normal`: a thread reads `admission_open` as false and closes the
   barrier later; the controller has become normal in between. With no resident model and
   no priority reader nothing polls again, and waiting workers stay.
3. `queue_lost_result`: a second upload attaches to a container that already holds a
   result and queues its own task with it; the container is dropped while that task runs,
   and a third upload waits, until its timeout, for a container no task will set.
4. `inventory_items_left`: a queued file that is replaced under its name leaves
   `items_left` with the deletion event and does not come back with the creation event,
   because `gen_subtitles_queue` returns early on an active path. The task stays queued with
   the validation of the old file; the worker that takes it drops it as stale, and no task is
   made for the new file.
5. `mqtt_rediscovery`: `_on_connect` asks for discovery under the lock and sets `_connected`
   afterwards; a loop that an update wakes in between takes the request, finds itself not
   connected and publishes nothing. That session has no discovery and no retained online.

The properties state what the code keeps. Where it keeps less than one would expect, the
property has an exception or a limit, which its comment names:

* `CleanScanIsExact`: `scanned` may stay below `total`. A counted file that is moved to
  another library after the cutoff, before it was inspected, adds to that library's total
  alone. The percentage does not show it: on a complete scan the code publishes 100
  whatever the quotient is (`mqtt_inventory.py:1114`), which is what `README.md` promises.
* `NothingMissed`: a file that did not settle while the watcher looked is dropped until its
  next event (`scanner.py:105`). And a webhook that reserved, and thereby counted, a new file
  uncounts it when its own put is refused and the task the watcher put has failed meanwhile
  (`media.py:1288-1298`): the file is there and in no count.
* `WaiterIsTold`: when the receipt coordinator has failed closed, `_abort_workload` raises
  inside the error handler of `gen_subtitles`; and media replaced before the first check
  (`transcription.py:1835`) raises before the `try`. In both cases nobody sets the result and
  the waiter runs into its timeout.
* `DeletedIsGone`: a file deleted in one go is gone from path and quarantine for good. Of a
  deletion resumed after a restart only the quarantine is known to be empty; a path that was
  missing is reported as deleted although its library may only be unmounted.
* `CrashesNeverBlock`: a process that dies between its write and the sync of a staged file
  (`journal.py:738-742`) leaves data that the next process finds whole and publishes with a
  directory sync only; a power loss then may leave a receipt or a head cut short, which every
  later load refuses. The class's docstring promises that recovery finishes any crash.
* `CrashesAreResumable`: a crash between the smoke's pull and its DELETE leaves the image on
  the engine, and every later `publish()` refuses (`anonymous_smoke.py:657-658`) until
  somebody removes it.
* `ProofBindsOneCapture`: a comment at column 0 inside the `on` block of a workflow ends the
  block for `_workflow_is_manual_only` (`source_proof.py:739-740`), so a trigger after it is
  not seen.
* `ReportsAreKept`: `recover_delete_intents` saves the retired deletions before it delivers
  their reports (`repair_subgen_failures.py:752-754`); a run that dies in between loses them.
* `PassMissedNothing`: failures before the reset boundary of phase B are in the base.
* `GoneIsOffline` is about a publisher that ends connected: one that loses its connection
  while it publishes discovery may leave an unconfirmed online behind.

Two smaller observations: a reservation refused while the other task is refreshing metadata
after its completion is kept and never released; a file deleted between listing and counting
and recreated after the final listing is not counted if it needs no subtitle (hence
`NothingMissed` is about files that stayed).

## 5. Proofs

Every theorem holds for every set of threads, permits, ids, paths, files, workers and
candidates, and for every value of the bounds.

| Theorem | States | Argument |
|---|---|---|
| `TypeCorrect` | `TypeOK` of the model runtime | `TypeInv`: the types, and that an open controller is normal with a recovered priority signal |
| `AdmissionIsRecovered` | `OpenMeansRecovered` | the same; one lemma per controller method shows that it preserves `CtlOK` |
| `InferenceKeepsModel` | `NoUnloadDuringInference` | `SlotInv` |
| `QuarantineHolds` | `QuarantineIsFinal` | `Cancels`: a quarantined profile has set the cancel event, which `Validate` rechecks |
| `TicketsReleaseTheirOwn` | `TicketReleasesItsOwnModel` | `TicketInv` |
| `NoDoubleWork` | `OneOwnerPerTask` | `OwnerInv`: `queued` is exactly the ids in the heap or just popped, `processing` exactly those of registered workers |
| `RetriesAttach`, `AcceptedAreServed` | `KeptForRetries`, `AcceptedIsServed` | `BoxInv`: both, and that a request about to put still finds its unset container in `task_results`, and that only a request past its put is accepted |
| `ResultsAreDropped` | `NoResultLeftBehind` | who will still clean up after an id |
| `BacklogIsExact` | `LeftMatchesPending` | `Matches`, kept by each coordinator method; `Places`: a path in hand is one of the paths |
| `ScanIsExact` | `CleanScanIsExact` | `ScanInv`: what the counters of a library already scanned are worth while the rest of the scan goes on |
| `PathsStayWhole` | `PubTypeOK` and `WholePaths` | `PubInv` |
| `PublicationRefines` | `SubtitlePublication` implements `SubtitleFile` | `PubInv`, and one lemma per kind of step that maps it to a step or a stutter |
| `TranscriptionRefines` | `FileTranscription` implements `SubtitleFile` | every step of a file is a publication step or leaves the publication alone |
| `WaitersAreTold` | `WaiterIsTold` | the steps between the start of a file and its end |
| `SubtitlesHaveOneRecording` | `OneRecording` | `Recording`: which generation the chunks in hand were read from |
| `CompletionsAreDurable` | `CompletedIsDurable` | `GateKeeps`: what a gate publication has on disk at each step |
| `ChunksAdvance` | committed chunks follow each other to the cursor | `Progress` |
| `LeaseCoversMemory` | `LeaseOwnsMemory` | `LeaseInv` |
| `MediaStaysPartitioned` | `MediaIsPartitioned` | `MediaInv` |
| `ReleaseIsConfirmed` | `ReleasedIsGone` | `WorkerInv`: `_finish_pipes` is not reached while the child runs |
| `ProofIsOfOneRun` | `ProofBindsOneCapture` | `SourceInv`: which capture each check read |
| `EvidenceIsSealed` | `FinalEvidenceIsSealed` | `SealInv`, of every directory a power loss may leave |
| `ProfileMissedNothing` | `PassSawEveryFailure` | `ScanInv`: nothing older than the cursor is unseen, source by source inside a scan |
| `DrainIsComplete` | `DrainCountsWholeLife` | `CgroupInv`: which directory the pin and the live name are, and what each has counted |
| `SmokeIsEarned` | `PassIsEarned` | `SmokeInv`: what the walk through the index has found, and the session's engine |
| `JournalResumes` | `ResumesFromNewest` | `ResumeInv`: heads only move forward |
| `JournalRecovers` | `CrashesNeverBlock` | `BlockInv`: every directory that may survive is settled, prepared or installed |
| `EndedIsOffline` | `GoneIsOffline` | `OfflineInv` |
| `NoReportIsLost` | `ReportsAreKept` (an action property) | `RepairInv`: what the lock's owner carries accounts for the whole state file |
| `OnlyProvenAreDestroyed` | `OnlyProvenMediaDestroyed` | `MediaInv`, of every folder a power loss may leave |
| `DeletedStaysGone` | `DeletedIsGone` | `GoneInv`: what the live deletion has done to its own quarantine |
| `ClearMustBeEarned` | `ClearIsEarned` | `PrioInv`: every publication on disk, read or put back was a poll of its epoch |
| `EvidenceIsNeverStale` | `EvidenceIsNews` (an action property) | the same: what was handed out is older than what the reader remembers |
| `GateMissesNothing` | `PassMissedNothing` | `DrainInv`: what each final drain has proved of a stopped candidate |
| `GateWatchesOneCycle` | `PassWatchedOneCycle` | `CycleInv` |
| `LatestIsSentOnce` | `LatestSentOnce` | `RelInv` |
| `NothingIsOverwritten` | `NothingOverwritten` | the same |
| `ReceiptsAlwaysAccepted` | `ReceiptsAreAccepted` (an action property) | the same: what a checkpoint holds in which stage |
| `ReleaseIsResumable` | `CrashesAreResumable` | `RelInv` and `CalmInv`: until trouble comes, checkpoint and place say what the servers hold |

Why the properties are not inductive, for the arguments that are not a list of labels:

* *Slots.* An unload would have to be excluded by what the unloading thread holds. `SlotInv`
  adds that a worker inside its slot holds a permit, that a release owner past its drain
  holds *every* permit, and that the model is resident once a worker has passed the load;
  two of these sets of labels cannot be occupied at once because a permit has one owner
  (`DrainedExcludes`).
* *Refinement.* `SubtitleFile` knows no torn file: a power loss maps to `PowerLoss` only if
  no path has unsynced bytes (`WholePaths`), and that survives an installation only because
  the staging file then holds the whole payload, synced (`WholeStaging`).
* *Lease.* A live process has a handle in the present cohort and a cohort with handles has
  the token. The one thread that may add a process is the load thread; a load that outlives
  its file's drain leaves a cleanup error, which keeps the next file out.
* *Partition.* The ranges staged, inferred and put back for retry are apart from each other
  and fill what is between the journal and the fresh media. The moves of a range are proved
  for any schedule first; then each step of the runner is shown to be one of them.
* *Journal.* `ResumesFromNewest` needs only that no head and no transaction in any surviving
  directory is older than the last acknowledgement, and holds even when receipts disappear.
  `CrashesNeverBlock` needs the exact shapes: no transaction that counts (`Settled`), a
  transaction before its receipt (`Prepared`), or after it with the head before or in place
  (`Installed`). The shapes are about names only: a cut file changes none of them, and
  either the recovery repairs it or `ChainReads` fails, which is the exception. The head alone tells the last two apart, by its number (`HeadsDiffer`).
* *Offline.* The broker has no session and still shows the publisher online only when no
  session was accepted in this round; after that, a session ends by its will, or by a
  DISCONNECT that follows a confirmed offline.
* *Reports.* What a run read before it had the lock may be stale, so the invariant is about
  the run that holds it. Every report of the file, and every verdict the run knows, is in the
  log, pushed out, queued in the run, or about to be delivered; the reports of retired
  deletions are `Owed` by the run that saved them, as long as it lives.
* *Scan.* The primary pass leaves the counters wrong on purpose; the final pass replaces them
  for one library after another. From then on the library is `Settled`: its counters are
  exact, and what the scan has not visited of it is a counted arrival, so the end of the scan
  drops nothing. Every coordinator method the watcher and the webhooks call keeps that.
  Before the scan is over no task is done and no reservation is taken back (`HeldBack`);
  after a clean scan an item that was queued before it was counted is still pending and
  counted (`EarlyKnown`), so cancelling it uncounts it once. The proof needs that the walk of
  a library fails between two files, never while a file is handed to the coordinator.
* *Tickets.* A ticket of generation g is safe for one of three reasons: the model it used is
  still the one resident; a later release was started, which the ticket joins (`Spent`); or a
  quarantine has cancelled everybody who could load another one (`Over`). Which of them
  holds changes with the steps of other threads, so the invariant rests on `SlotInv`, on the
  owner of the load lock and on a release having one owner.
* *Deletion.* A power loss may bring back any folder of `after`, so `MediaInv` says of each
  of them that no generation is missing unless it was proven invalid or its owner removed it.
  A deletion is gone for good only when its unlink, in its own quarantine, is in every one of
  these folders; what the monitor knows of that quarantine lasts as long as it runs, and a
  resumed deletion reads it again. `DeletedIsGone` speaks of the quarantine of its own
  deletion: if the state file becomes unreadable between a restoring link and the unlink of
  the quarantined name, that quarantine is orphaned with a hard link to the media, which a
  second deletion of the same media does not look for. TLC shows it with two deletions.
* *Gate.* A passing gate looks at a few receipts of a long journal. Two receipts of one
  journal with equal counters agree on priority and residency, and so does every receipt
  between them (`Follows`); the seals compare counters.
* *Publishers.* A running publisher works on the checkpoint its journal holds, so what is
  known of a checkpoint survives a crash. While latest is not the release's nobody has sent
  the removal of a lock, so whoever acquired the lock still holds it (`Backed`), which keeps
  all others away from the update. Its sender is in a journal before it sends
  (`SenderKnown`), so no publisher called again takes the update for unsent. A verified probe saw
  the registry refuse what it must refuse, so whoever is about to write a version or latest
  writes to a registry that honours the condition, also when the request arrives late.
* *Resumption.* `CrashesAreResumable` records an ending, so the invariant must say why no
  check of the code can fail after crashes only. While nothing disturbed the release
  (`Undisturbed`: no failed request, no foreign write, one publisher with a checkpoint, a
  registry that honours conditions), `AtPeace` ties the servers to the checkpoint in the
  journal (`CalmCheckpoint`: the two throw-away references show what the stage of their
  probe promises, the lock is free only before it was taken or after all five references are
  public) and to the publisher's place (`CalmPlace`: what it read is still there, what it
  wrote is there). A crash forgets the place and keeps the checkpoint; a publisher called
  again starts at a place whose facts hold of any checkpoint, or meets the image its own dead
  smoke left (`residue`), which is one of the two endings that are not counted as stranded. A write that may or may
  not have been sent is covered by both of its outcomes being allowed in the armed stages.
  Once disturbed, always disturbed (`Steady`: the counts of trouble never fall;
  `ReceiptsKept`: who has a checkpoint keeps one), so nothing needs to be said afterwards.

`MCOperations` composes parts that share no state; `PartsStart` and `PartsStep` reduce a step
of it to a step of the part or a stutter.

The assumptions are those of the modules: distinct threads, at least one permit, positive
sample counts, every request with an audio id, at least one path, file contents that are
told apart, files of positive length, a positive chunk baseline and growth count, finitely
many paths with a library each, a non-empty list of distinct cohort workers; an image index is a finite
sequence (`SmokeAssumption`), profiler runs are numbered from one and windows overlap by whole
ticks (`ProfilerAssumption`), no repair run is named like the free lock and the queue limit
is a number (`RepairAssumption`), no publisher is named like the free lock
(`ReleaseAssumption`), the oldest sample Frigate may give
and the loads it answers are of the kind the code parses (`PriorityAssumption`), and the
failure monitor's thresholds and bounds are numbers (`MonitorAssumption`).

Only model-checked:

* liveness (`ReleaseCompletes`, `JoinersReturn`, `BarrierOpens`, `CohortFileEnds`), outside
  the reach of these provers;
* `NothingMissed`, which relates the history of the folders to the whole of a scan and was
  checked in the three settings of `MCInventory` only.

## 6. Plan

What is left, in this order:

1. A proof of `NothingMissed`, with the histories it holds of stated as a specification.
2. Termination of a single-GPU file (`FileTranscription` with fairness) as a run of its own.
3. `select_model` and `evaluate_admission` as operators checked over small envelopes.
4. The soak observer.

## 7. Not modelled

The progress display, media-server calls whose results are only logged, configuration and
language tables, the C++ worker's inference, the byte arithmetic of model selection, the
soak observer, and code of the gate that nothing calls (`_retired_pre_amendment_observer`,
`HealthMonitor`, the composite workload). HTTP, Docker, git, ffmpeg and nvidia-smi are
represented by what their callers take from an answer. The reasons are with the components
in `PROJECT.json`.

-------------------------- MODULE FileTranscription --------------------------
(***************************************************************************)
(* One library file at a time from admission to its published subtitle:    *)
(* gen_subtitles and _segmented_transcription (transcription.py), the      *)
(* chunk loop run_segmented_transcription (segmentation.py), the           *)
(* transcript journal (segmented_result.py), the adaptive chunk size       *)
(* (AdaptiveChunkState, resource_management.py) and the workload state and *)
(* receipts of RuntimeReceiptCoordinator (runtime_receipts.py), with the   *)
(* publication of SubtitlePublication as its last phase.                   *)
(*                                                                         *)
(* Time on the media is counted in units of the minimum chunk (five        *)
(* minutes).  A transcript is represented by what the properties tell      *)
(* apart: the intervals of the media it was made from, and the generation  *)
(* of the media file each of them was extracted from.  A transcript that   *)
(* covers the media exactly once is published as the set of generations it *)
(* came from, any other one as Torn.                                       *)
(***************************************************************************)
EXTENDS SubtitlePublication, AdaptiveChunk, Sequences

CONSTANTS
    DurationOf,   \* length of each file's media, in units
    Baseline,     \* model_chunk_baseline_seconds, in units
    GateOrder,    \* the gate's phase A and phase B workloads
    MaxPressure,  \* bound: pressure yields and pressure recoveries
    MaxChanges,   \* bound: times the media file is replaced
    MaxJobs,      \* bound: completed files of a gate process
    MaxOrdinary   \* bound: completed files of an ordinary process

ASSUME TranscriptionAssumption ==
    /\ DurationOf \in [Paths -> Nat \ {0}]
    /\ Baseline \in Nat \ {0}
    /\ GateOrder \in Seq(Paths)
    /\ MaxPressure \in Nat
    /\ MaxChanges \in Nat
    /\ MaxJobs \in Nat
    /\ MaxOrdinary \in Nat
    \* A transcript is the set of the recordings it was made from.
    /\ \A s \in SUBSET (0 .. MaxChanges) : s # {} => s \in Transcripts

VARIABLES
    segmented,  \* segmentation_enabled
    validated,  \* the job carries a media_validation
    pc,         \* next step of gen_subtitles
    job,        \* the file in hand
    media,      \* generation of its media file
    admitted,   \* generation the media validation was made for
    chunk,      \* AdaptiveChunkState: current, failures, successes
    cursor,     \* AssemblyState.cursor
    window,     \* end of the planned chunk's core
    audio,      \* generation the extracted audio was read from
    verdict,    \* of the attempt: healthy, unhealthy, pressure or memory
    journal,    \* SegmentJournal: committed records, poisoned, open
    result,     \* the finished transcript: its intervals, in order
    receipts,   \* RuntimeReceiptCoordinator
    waiter,     \* the task_results entry of the job
    loaded,     \* the job holds the model (start_model .. delete_model)
    cancelled,  \* the model runtime was cancelled
    pressure    \* pressure events left

jobVars == <<segmented, validated, pc, job, media, admitted, chunk, cursor,
             window, audio, verdict, journal, result, receipts, waiter, loaded,
             cancelled, pressure>>
ftVars == <<jobVars, pubVars>>
setting == <<segmented, validated, media, cancelled>>

NoJournal == [records |-> <<>>, poisoned |-> FALSE, open |-> FALSE]

FtInit ==
    /\ PubInit
    /\ segmented \in BOOLEAN
    /\ validated \in BOOLEAN
    /\ pc = "idle"
    /\ job = AnyPath
    /\ media = 0 /\ admitted = 0
    /\ chunk = Freshly(Baseline)
    /\ cursor = 0 /\ window = 0 /\ audio = 0
    /\ verdict = "healthy"
    /\ journal = NoJournal
    /\ result = <<>>
    /\ receipts = [bound |-> FALSE, uncommitted |-> FALSE, cursor |-> 0,
                   completed |-> <<>>, aborted |-> FALSE, failed |-> FALSE]
    /\ waiter = "none"
    /\ loaded = FALSE
    /\ cancelled = FALSE
    /\ pressure = MaxPressure

-----------------------------------------------------------------------------
(* RuntimeReceiptCoordinator.  Each operation is the set of its outcomes:   *)
(* the state it leaves and whether it returned.  In the gate every change   *)
(* is a durable receipt, and a failed append fails the coordinator closed.  *)

Returns(r) == [state |-> r, ok |-> TRUE]
Raises(r) == [state |-> r, ok |-> FALSE]

\* _publish_locked.
Published(before, after) ==
    {Returns(after)}
        \cup (IF gate THEN {Raises([before EXCEPT !.failed = TRUE])} ELSE {})

\* bind_workload_locked: the gate takes phase A, then phase B, once each.
BindWorkload(r, p) ==
    LET phase == Len(r.completed) + 1
    IN  IF \/ r.failed
           \/ /\ gate
              /\ \/ r.bound
                 \/ r.aborted
                 \/ phase > Len(GateOrder)
                 \/ p # GateOrder[phase]
        THEN {Raises(r)}
        ELSE Published(r, [r EXCEPT !.bound = TRUE, !.uncommitted = FALSE,
                                    !.cursor = 0])

\* record_chunk_locked: a cursor never goes back, no change is no receipt.
RecordChunk(r, c, u) ==
    IF r.failed \/ ~r.bound \/ c < r.cursor THEN {Raises(r)}
    ELSE IF c = r.cursor /\ u = r.uncommitted THEN {Returns(r)}
    ELSE Published(r, [r EXCEPT !.cursor = c, !.uncommitted = u])

\* abort_workload_locked.
AbortWorkload(r) ==
    IF r.failed \/ ~r.bound THEN {Raises(r)}
    ELSE Published(r, [r EXCEPT !.bound = FALSE, !.uncommitted = FALSE,
                                !.aborted = gate])

\* complete_workload_locked.
CompleteWorkload(r, terminal, p) ==
    IF r.failed \/ ~r.bound \/ terminal < r.cursor THEN {Raises(r)}
    ELSE Published(r, [r EXCEPT !.bound = FALSE, !.uncommitted = FALSE,
                                !.completed = Append(@, p)])

Duration == DurationOf[job]

-----------------------------------------------------------------------------
(* gen_subtitles. *)

\* Mutant: the validation a job carries is not looked at again.
MediaIsAssumedCurrent == TRUE

\* _ensure_media_validation_current.
MediaIsCurrent == validated => media = admitted

\* An exception unwinds to the handler of gen_subtitles.
Unwind(r) ==
    /\ pc' = "fail"
    /\ receipts' = r
    /\ UNCHANGED <<setting, job, admitted, chunk, cursor, window, audio,
                   verdict, journal, result, waiter, loaded, pressure, pubVars>>

\* A worker takes the next file, whose validation was made when it was
\* queued; somebody may be waiting for its result.  The first check of the
\* validation stands before the try of gen_subtitles: a stale file leaves it
\* without the handler and its set_error.
StartFile(p) ==
    /\ pc = "idle"
    /\ Len(receipts.completed) < IF gate THEN MaxJobs ELSE MaxOrdinary
    /\ job' = p
    /\ admitted' \in IF validated THEN 0 .. media ELSE {media}
    /\ waiter' \in {"none", "waiting"}
    /\ UNCHANGED <<setting, chunk, cursor, window, audio, verdict, journal,
                   result, receipts, loaded, pressure, pubVars>>
    /\ pc' = IF MediaIsCurrent' THEN "admit" ELSE "stale"

\* Media validation, probe of the duration, _begin_workload.
Admit ==
    /\ pc = "admit"
    /\ \/ Unwind(receipts)
       \/ /\ MediaIsCurrent
          /\ \E o \in BindWorkload(receipts, job) :
                \/ ~o.ok /\ Unwind(o.state)
                \/ /\ o.ok
                   /\ receipts' = o.state
                   /\ pc' = "load"
                   /\ UNCHANGED <<setting, job, admitted, chunk, cursor, window,
                                  audio, verdict, journal, result, waiter,
                                  loaded, pressure, pubVars>>

\* start_model and a fresh AdaptiveChunkState.  A file longer than the chunk
\* opens a journal; a shorter one is first tried whole.
LoadModel ==
    /\ pc = "load"
    /\ \/ Unwind(receipts)
       \/ /\ loaded' = TRUE
          /\ chunk' = Freshly(Baseline)
          /\ IF segmented /\ Duration > Baseline
             THEN pc' = "plan" /\ journal' = [NoJournal EXCEPT !.open = TRUE]
             ELSE pc' = "whole" /\ UNCHANGED journal
          /\ cursor' = 0
          /\ UNCHANGED <<setting, job, admitted, window, audio, verdict, result,
                         receipts, waiter, pressure, pubVars>>

\* The whole-file attempt: chunk_uncommitted, validation and extraction.
BeginWhole ==
    /\ pc = "whole"
    /\ \E o \in RecordChunk(receipts, 0, TRUE) :
          \/ ~o.ok /\ Unwind(o.state)
          \/ /\ o.ok
             /\ receipts' = o.state
             /\ audio' = media
             /\ pc' = "whole_infer"
             /\ UNCHANGED <<setting, job, admitted, chunk, cursor, window,
                            verdict, journal, result, waiter, loaded, pressure,
                            pubVars>>

\* A pressure yield uses up one of the bounded pressure events.
Spend(kind) ==
    IF kind = "pressure" THEN pressure > 0 /\ pressure' = pressure - 1
                         ELSE UNCHANGED pressure

\* _whole_transcription_attempt returns a result or a control error; any
\* other exception records the chunk as unwound and goes on.
EndWhole ==
    /\ pc = "whole_infer"
    /\ \/ \E o \in RecordChunk(receipts, 0, FALSE) : Unwind(o.state)
       \/ /\ MediaIsCurrent
          /\ \E o \in RecordChunk(receipts, IF segmented THEN Duration ELSE 0,
                                  FALSE) :
                \/ ~o.ok /\ Unwind(o.state)
                \/ /\ o.ok
                   /\ receipts' = o.state
                   /\ result' = <<[from |-> 0, to |-> Duration, gen |-> audio]>>
                   /\ pc' = "join"
                   /\ UNCHANGED <<setting, job, admitted, chunk, cursor, window,
                                  audio, verdict, journal, waiter, loaded,
                                  pressure, pubVars>>
       \/ \E o \in RecordChunk(receipts, 0, FALSE), k \in {"pressure", "memory"} :
             \/ ~o.ok /\ Unwind(o.state)
             \/ /\ o.ok
                /\ Spend(k)
                /\ receipts' = o.state
                /\ verdict' = k
                /\ pc' = "release"
                /\ UNCHANGED <<setting, job, admitted, chunk, cursor, window,
                               audio, journal, result, waiter, loaded, pubVars>>

\* release_after_inference_failure, then the cancellation check and the
\* smaller chunk of the segmented path.
ReleaseAttempt ==
    /\ pc = "release"
    /\ \/ Unwind(receipts)
       \/ /\ segmented => ~cancelled
          /\ chunk' = CASE ~segmented -> chunk
                        [] segmented /\ verdict = "pressure" -> RecordPressureYield(chunk)
                        [] segmented /\ verdict = "memory" -> RecordAllocationFailure(chunk, chunk.current)
          /\ pc' = "recover"
          /\ UNCHANGED <<setting, job, admitted, cursor, window, audio, verdict,
                         journal, result, receipts, waiter, loaded, pressure,
                         pubVars>>

\* _wait_for_inference_recovery: outside means that the controller counted a
\* recovery from external pressure meanwhile.  Two memory failures in a row
\* at the minimum end the file unless the pressure came from outside.
Recovered(outside) ==
    LET c == IF verdict = "memory" /\ outside THEN RecordExternalRecovery(chunk)
                                              ELSE chunk
        over == verdict = "memory" /\ (~segmented \/ (~outside /\ Exhausted(chunk)))
    IN  /\ ~cancelled
        /\ outside => pressure > 0
        /\ pressure' = IF outside THEN pressure - 1 ELSE pressure
        /\ chunk' = c
        /\ pc' = IF over THEN "fail" ELSE IF segmented THEN "plan" ELSE "whole"
        /\ journal' = IF segmented /\ ~over THEN [journal EXCEPT !.open = TRUE]
                                            ELSE journal
        /\ UNCHANGED <<setting, job, admitted, cursor, window, audio, verdict,
                       result, receipts, waiter, loaded, pubVars>>

WaitForRecovery ==
    /\ pc = "recover"
    /\ \/ Unwind(receipts)
       \/ \E outside \in BOOLEAN : Recovered(outside)

-----------------------------------------------------------------------------
(* run_segmented_transcription. *)

\* check_cancelled, plan_next_window and the validation of extract_chunk.
PlanChunk ==
    /\ pc = "plan"
    /\ IF cancelled \/ ~MediaIsCurrent
       THEN Unwind(receipts)
       ELSE /\ window' = PlanNextWindow(cursor, chunk.current, Duration)
            /\ pc' = "extract"
            /\ UNCHANGED <<setting, job, admitted, chunk, cursor, audio, verdict,
                           journal, result, receipts, waiter, loaded, pressure,
                           pubVars>>

\* extract_audio_segment_to_memory reads the file that is there now.
ExtractChunk ==
    /\ pc = "extract"
    /\ \/ Unwind(receipts)
       \/ /\ audio' = media
          /\ pc' = "started"
          /\ UNCHANGED <<setting, job, admitted, chunk, cursor, window, verdict,
                         journal, result, receipts, waiter, loaded, pressure,
                         pubVars>>

\* Validation after the extraction, check_cancelled, chunk_started.
ChunkStarted ==
    /\ pc = "started"
    /\ IF cancelled \/ ~MediaIsCurrent
       THEN Unwind(receipts)
       ELSE \E o \in RecordChunk(receipts, cursor, TRUE) :
               \/ ~o.ok /\ Unwind(o.state)
               \/ /\ o.ok
                  /\ receipts' = o.state
                  /\ pc' = "infer"
                  /\ UNCHANGED <<setting, job, admitted, chunk, cursor, window,
                                 audio, verdict, journal, result, waiter, loaded,
                                 pressure, pubVars>>

\* transcribe_chunk, stage_chunk_result and check_before_commit.  A control
\* error, of the inference or of the commit check, unwinds the chunk and
\* releases the model; any other exception unwinds the chunk and the file.
TranscribeChunk ==
    /\ pc = "infer"
    /\ \/ \E o \in RecordChunk(receipts, cursor, FALSE) : Unwind(o.state)
       \/ /\ MediaIsCurrent
          /\ ~cancelled
          /\ verdict' \in {"healthy", "unhealthy"}
          /\ pc' = "commit"
          /\ UNCHANGED <<setting, job, admitted, chunk, cursor, window, audio,
                         journal, result, receipts, waiter, loaded, pressure,
                         pubVars>>
       \/ \E o \in RecordChunk(receipts, cursor, FALSE), k \in {"pressure", "memory"} :
             \/ ~o.ok /\ Unwind(o.state)
             \/ /\ o.ok
                /\ Spend(k)
                /\ receipts' = o.state
                /\ verdict' = k
                /\ pc' = "release"
                /\ UNCHANGED <<setting, job, admitted, chunk, cursor, window,
                               audio, journal, result, waiter, loaded, pubVars>>

\* SegmentJournal._commit_record: the record is appended and synced, or
\* rolled back, or, when the rollback fails too, the journal is poisoned.
Commits(j, rec) ==
    {Raises(j), Raises([j EXCEPT !.poisoned = TRUE])}
        \cup (IF j.open /\ ~j.poisoned
              THEN {Returns([j EXCEPT !.records = Append(@, rec)])} ELSE {})

\* commit_chunk persists the record before anything advances.
CommitChunk ==
    /\ pc = "commit"
    /\ \E c \in Commits(journal, [from |-> cursor, to |-> window, gen |-> audio]) :
          /\ journal' = c.state
          /\ IF c.ok
             THEN pc' = "committed" /\ UNCHANGED receipts
             ELSE /\ pc' = "fail"
                  /\ \E o \in RecordChunk(receipts, cursor, FALSE) :
                        receipts' = o.state
    /\ UNCHANGED <<setting, job, admitted, chunk, cursor, window, audio, verdict,
                   result, waiter, loaded, pressure, pubVars>>

\* chunk_committed publishes the new cursor; then check_cancelled, the new
\* AssemblyState and record_success.
ChunkCommitted ==
    /\ pc = "committed"
    /\ \E o \in RecordChunk(receipts, window, FALSE) :
          \/ (~o.ok \/ cancelled) /\ Unwind(o.state)
          \/ /\ o.ok
             /\ ~cancelled
             /\ receipts' = o.state
             /\ cursor' = window
             /\ chunk' = RecordSuccess(chunk, verdict = "healthy", Baseline)
             /\ pc' = IF window = Duration THEN "finish" ELSE "plan"
             /\ UNCHANGED <<setting, job, admitted, window, audio, verdict,
                            journal, result, waiter, loaded, pressure, pubVars>>

\* SegmentJournal.finalize and the last validation.
Finalize ==
    /\ pc = "finish"
    /\ IF cancelled \/ ~MediaIsCurrent \/ journal.poisoned
       THEN Unwind(receipts)
       ELSE /\ result' = journal.records
            /\ pc' = "join"
            /\ UNCHANGED <<setting, job, admitted, chunk, cursor, window, audio,
                           verdict, journal, receipts, waiter, loaded, pressure,
                           pubVars>>

-----------------------------------------------------------------------------
(* Publication and the end of the file. *)

\* The intervals follow each other from the start of the media to its end.
Contiguous(r) ==
    /\ r # <<>>
    /\ r[1].from = 0
    /\ r[Len(r)].to = Duration
    /\ \A i \in 1 .. Len(r) - 1 : r[i].to = r[i + 1].from

\* to_srt_vtt of the result.
Rendered(r) == IF Contiguous(r) THEN {r[i].gen : i \in 1 .. Len(r)} ELSE Torn

\* appendLine, which for a segmented result is one more journal commit, the
\* validations around it, and the start of _atomic_publish.
JoinChunks ==
    /\ pc = "join"
    /\ \/ Unwind(receipts)
       \/ /\ MediaIsCurrent
          /\ BeginPublish(job, Rendered(result))
          /\ pc' = "publish"
          /\ UNCHANGED <<setting, job, admitted, chunk, cursor, window, audio,
                         verdict, journal, result, receipts, waiter, loaded,
                         pressure>>

\* _publish_segmented_result after _atomic_publish: the webhook and the
\* result of the waiting task; or its exception.
PublishEnded ==
    /\ pc = "publish"
    /\ TakeResult
    /\ \/ /\ pubpc = "returned"
          /\ pc' = "complete"
          /\ waiter' = IF waiter = "waiting" THEN "result" ELSE waiter
       \/ /\ pubpc = "failed"
          /\ pc' = "fail"
          /\ UNCHANGED waiter
    /\ UNCHANGED <<setting, job, admitted, chunk, cursor, window, audio, verdict,
                   journal, result, receipts, loaded, pressure>>

Publishing ==
    /\ pc = "publish"
    /\ PubStep
    /\ UNCHANGED jobVars

\* _complete_workload, after the subtitle is in place.
Complete ==
    /\ pc = "complete"
    /\ \E o \in CompleteWorkload(receipts, IF segmented THEN Duration ELSE 0, job) :
          \/ ~o.ok /\ Unwind(o.state)
          \/ /\ o.ok
             /\ receipts' = o.state
             /\ pc' = "final"
             /\ UNCHANGED <<setting, job, admitted, chunk, cursor, window, audio,
                            verdict, journal, result, waiter, loaded, pressure,
                            pubVars>>

\* Mutant: the waiting task is told only when a workload was bound.
FileFailedQuietly ==
    /\ pc = "fail"
    /\ \E o \in IF receipts.bound THEN AbortWorkload(receipts)
                                  ELSE {Raises(receipts)} :
          /\ receipts' = o.state
          /\ waiter' = IF o.ok /\ waiter # "none" THEN "error" ELSE waiter
    /\ pc' = "final"
    /\ UNCHANGED <<setting, job, admitted, chunk, cursor, window, audio, verdict,
                   journal, result, loaded, pressure, pubVars>>

\* except Exception: _abort_workload, whose own exception skips the rest of
\* the handler, then the error of the waiting task.
FileFailed ==
    /\ pc = "fail"
    /\ \E o \in IF receipts.bound THEN AbortWorkload(receipts)
                                  ELSE {Returns(receipts)} :
          /\ receipts' = o.state
          /\ waiter' = IF o.ok /\ waiter # "none" THEN "error" ELSE waiter
    /\ pc' = "final"
    /\ UNCHANGED <<setting, job, admitted, chunk, cursor, window, audio, verdict,
                   journal, result, loaded, pressure, pubVars>>

\* The locals of gen_subtitles, its journal and its hold on the model.
LocalsGone ==
    /\ job' = AnyPath
    /\ waiter' = "none"
    /\ journal' = NoJournal
    /\ result' = <<>>
    /\ loaded' = FALSE
    /\ admitted' = 0
    /\ chunk' = Freshly(Baseline)
    /\ cursor' = 0 /\ window' = 0 /\ audio' = 0
    /\ verdict' = "healthy"

\* finally: close the journal and delete_model.  A file that was stale from
\* the start has neither.
FileEnded ==
    /\ pc \in {"final", "stale"}
    /\ LocalsGone
    /\ pc' = "idle"
    /\ UNCHANGED <<setting, receipts, pressure, pubVars>>

-----------------------------------------------------------------------------
(* Surroundings. *)

\* The media file is replaced by another recording.  External.
MediaReplaced ==
    /\ media < MaxChanges
    /\ media' = media + 1
    /\ UNCHANGED <<segmented, validated, pc, job, admitted, chunk, cursor, window,
                   audio, verdict, journal, result, receipts, waiter, loaded,
                   cancelled, pressure, pubVars>>

\* Shutdown sets the cancellation event of the model runtime.
CancelRuntime ==
    /\ ~cancelled
    /\ cancelled' = TRUE
    /\ UNCHANGED <<segmented, validated, pc, job, media, admitted, chunk, cursor,
                   window, audio, verdict, journal, result, receipts, waiter,
                   loaded, pressure, pubVars>>

ForeignWriter == PubEnv /\ UNCHANGED jobVars

\* Power loss.  The journal is an anonymous file and goes with the process;
\* in the gate the receipt file stays, and no process starts on it again.
ProcessLost ==
    /\ pc # "down"
    /\ Crash
    /\ pc' = IF gate THEN "down" ELSE "idle"
    /\ receipts' = IF gate THEN receipts
                   ELSE [receipts EXCEPT !.bound = FALSE, !.uncommitted = FALSE,
                                         !.cursor = 0, !.completed = <<>>]
    /\ LocalsGone
    /\ cancelled' = FALSE
    /\ UNCHANGED <<segmented, validated, media, pressure>>

FileStep ==
    \/ Admit \/ LoadModel \/ BeginWhole \/ EndWhole
    \/ ReleaseAttempt \/ WaitForRecovery
    \/ PlanChunk \/ ExtractChunk \/ ChunkStarted \/ TranscribeChunk
    \/ CommitChunk \/ ChunkCommitted \/ Finalize
    \/ JoinChunks \/ Publishing \/ PublishEnded \/ Complete
    \/ FileFailed \/ FileEnded

FtNext ==
    \/ \E p \in Paths : StartFile(p)
    \/ FileStep
    \/ MediaReplaced \/ CancelRuntime \/ ForeignWriter \/ ProcessLost

\* gen_subtitles runs on a worker thread of its own, which keeps running.
FtSpec == FtInit /\ [][FtNext]_ftVars /\ WF_ftVars(FileStep)

-----------------------------------------------------------------------------
\* A gate workload is reported complete only when its subtitle is on disk:
\* the completion receipt follows the synced publication, and no power loss,
\* failed append or abort afterwards takes the subtitle away.
CompletedIsDurable ==
    gate => \A i \in 1 .. Len(receipts.completed) :
                target[receipts.completed[i]].kept \in Transcripts

\* A subtitle is made from one recording: whenever the media file is replaced
\* while it is being read in chunks, a validation between extraction and
\* publication notices, and nothing made of two recordings is published.
OneRecording ==
    validated /\ pc = "publish" => payload = {admitted}

\* Whoever waits for the file's result is told how it ended when gen_subtitles
\* returns or raises, with two exceptions.  When the receipt coordinator failed
\* closed, _abort_workload raises inside the handler and set_error is never
\* reached; and when the media was replaced after it was queued, the first
\* check (transcription.py:1835) raises before the try, and the worker only
\* logs it.  A replacement found by any later check is told.
WaiterIsTold ==
    waiter = "waiting" => /\ pc = "final" => receipts.failed
                          /\ pc = "stale" => validated /\ media # admitted
=============================================================================

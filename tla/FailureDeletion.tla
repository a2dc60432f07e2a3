-------------------------- MODULE FailureDeletion --------------------------
(***************************************************************************)
(* The failure monitor (monitor_subgen_failures.py) reads Subgen's event   *)
(* lines, counts failures of a media file by its exact generation, marks   *)
(* the generation in a registry that Subgen consults, and, when switched   *)
(* on, deletes a file two validators found invalid.  Deletion follows the  *)
(* quarantine protocol of subgen_ops_safety.py, which has to survive       *)
(* crashes, power losses, failing system calls, an unmounted library and   *)
(* the owner of the library replacing the file at any moment.              *)
(*                                                                         *)
(* One media path is modelled.  A file is its generation (device, inode,   *)
(* size and mtime) and its ctime, which renaming and linking advance.      *)
(* The library is on a journaling filesystem: changes of names reach the   *)
(* disk in the order they were made, so that the fsync of the quarantine,  *)
(* which settles the last change made there, settles those before it too.  *)
(***************************************************************************)
EXTENDS Naturals, FiniteSets

CONSTANTS MinMark, MinDelete,     \* auto_mark_ and auto_delete_min_failures
          MaxGenerations, MaxTokens, MaxJobs, MaxLosses  \* bounds

VARIABLES fs,        \* the media folder
          after,     \* the folders a power loss may leave
          mounted,   \* the library is mounted
          registry,  \* the marker registry file
          saved,     \* the monitor's state file
          mon,       \* the monitor process
          job,       \* the file Subgen's worker is busy with
          line,      \* the event line on its way to the monitor
          proven,    \* invalid-media events recorded per generation
          used       \* what was spent of the bounds

failVars == <<fs, after, mounted, registry, saved, mon, job, line, proven, used>>

NoFile == [gen |-> 0, ctime |-> 0]
NoLine == [kind |-> "none", file |-> NoFile]
NoMarker == [file |-> NoFile, kind |-> "none", count |-> 0]
Empty == [dir |-> "none", candidate |-> NoFile, tombstone |-> FALSE]

\* One entry of processing_errors; proof is the file the last event proved
\* invalid, intent the delete_identity and delete_proof.
NoTarget == [status |-> "none", count |-> 0, invalid |-> 0, file |-> NoFile,
             proof |-> NoFile, intent |-> NoFile, token |-> 0, marked |-> FALSE]
NoCrash == [count |-> 0, file |-> NoFile]

RecoveryOwned == {"blocked_recovery", "delete_paused", "deleting", "failed_recovery"}

\* The delete_status deleted_recovered has two meanings, told apart by the
\* delete_message: a resumed deletion was seen through, or the path, the
\* quarantine or the whole library was missing ("missing_recovered").
Resumed == "deleted_recovered"
Terminal == {"deleted", Resumed, "missing_recovered"}

MonitorDown == [pc |-> "down", deletes |-> FALSE, safe |-> TRUE, mode |-> "live",
                target |-> NoTarget, crash |-> NoCrash, active |-> NoFile,
                outcome |-> "none"]

FailInit ==
    /\ fs = [leaf |-> [gen |-> 1, ctime |-> 0], q |-> [t \in 1 .. MaxTokens |-> Empty],
             made |-> {1}, gone |-> {}]
    /\ after = {fs}
    /\ mounted = TRUE
    /\ registry = NoMarker
    /\ saved = [target |-> NoTarget, crash |-> NoCrash]
    /\ mon = MonitorDown
    /\ job = NoFile /\ line = NoLine
    /\ proven = [g \in 1 .. MaxGenerations |-> 0]
    /\ used = [gens |-> 1, tokens |-> 0, jobs |-> 0, losses |-> 0]

----------------------------------------------------------------------------
(* The world around the monitor.                                           *)

\* A folder change is visible at once and durable with the next sync.
Change(folder) == fs' = folder /\ after' = after \cup {folder}
Sync == after' = {fs} /\ UNCHANGED fs
Still == UNCHANGED <<fs, after>>

\* The owner replaces the file, or removes it.
OwnerReplaces ==
    /\ mounted /\ used.gens < MaxGenerations
    /\ used' = [used EXCEPT !.gens = @ + 1]
    /\ Change([fs EXCEPT !.leaf = [gen |-> used.gens + 1, ctime |-> 0],
                         !.made = @ \cup {used.gens + 1}, !.gone = @ \cup {fs.leaf.gen}])
    /\ UNCHANGED <<mounted, registry, saved, mon, job, line, proven>>

OwnerRemoves ==
    /\ mounted /\ fs.leaf # NoFile
    /\ Change([fs EXCEPT !.leaf = NoFile, !.gone = @ \cup {fs.leaf.gen}])
    /\ UNCHANGED <<mounted, registry, saved, mon, job, line, proven, used>>

Mount ==
    /\ mounted' = ~mounted
    /\ mounted => used.losses < MaxLosses
    /\ used' = IF mounted THEN [used EXCEPT !.losses = @ + 1] ELSE used
    /\ Still /\ UNCHANGED <<registry, saved, mon, job, line, proven>>

\* FailureMarkerReader.check: the registry marks exactly the file found now.
\* An unreadable registry or another generation never stops the work.
Matched == registry.file = fs.leaf

\* A worker starts on the file and announces it; the line may be lost.
WorkerStarts ==
    /\ job = NoFile /\ line = NoLine /\ mounted /\ fs.leaf # NoFile /\ ~Matched
    /\ used.jobs < MaxJobs
    /\ used' = [used EXCEPT !.jobs = @ + 1]
    /\ job' = fs.leaf
    /\ line' \in {NoLine, [kind |-> "start", file |-> fs.leaf]}
    /\ Still /\ UNCHANGED <<mounted, registry, saved, mon, proven>>

\* It ends: finished, failed, validated as invalid by both parsers or not,
\* or killed by a native crash.
WorkerEnds ==
    /\ job # NoFile /\ line = NoLine
    /\ job' = NoFile
    /\ \E kind \in {"finish", "error", "invalid", "indeterminate", "sigsegv"} :
          line' = [kind |-> kind, file |-> job]
    /\ Still /\ UNCHANGED <<mounted, registry, saved, mon, proven, used>>

\* Nobody follows the log while the monitor is down.
LineLost ==
    /\ line # NoLine /\ mon.pc = "down"
    /\ line' = NoLine
    /\ Still /\ UNCHANGED <<mounted, registry, saved, mon, job, proven, used>>

Crash ==
    /\ mon.pc # "down" /\ used.losses < MaxLosses
    /\ used' = [used EXCEPT !.losses = @ + 1]
    /\ mon' = MonitorDown
    /\ Still /\ UNCHANGED <<mounted, registry, saved, job, line, proven>>

PowerLoss ==
    /\ used.losses < MaxLosses
    /\ used' = [used EXCEPT !.losses = @ + 1]
    /\ \E folder \in after : fs' = folder /\ after' = {folder}
    /\ mon' = MonitorDown
    /\ job' = NoFile /\ line' = NoLine
    /\ UNCHANGED <<mounted, registry, saved, proven>>

----------------------------------------------------------------------------
(* Evidence.                                                               *)

\* validate_regular_file_beneath, for an expected identity.
Validated(file) ==
    IF ~mounted \/ fs.leaf = NoFile THEN "unavailable"
    ELSE IF fs.leaf # file THEN "unsafe" ELSE "valid"

\* durable_marker_matches, read back from the registry.
DurableMarkerMatches(file) ==
    registry.file = file /\ registry.kind = "processing_error" /\ registry.count >= MinDelete

\* invalid_media_delete_proof: the failure and the proof are of one file.
HasProof(t) == t.proof # NoFile /\ t.proof = t.file

SaveState(m) == saved' = [target |-> m.target, crash |-> m.crash]

\* record_processing_error up to the marker: what the entry becomes.
Recorded(t, file, invalid) ==
    LET fresh == t.status \in Terminal \cup {"none"} \/ t.file # file
        counted == IF fresh THEN [NoTarget EXCEPT !.count = 1, !.file = file]
                   ELSE [t EXCEPT !.count = @ + 1]
    IN  [counted EXCEPT !.status = IF fresh THEN "counted" ELSE @,
                        !.proof = IF invalid THEN file ELSE NoFile,
                        !.invalid = IF invalid THEN @ + 1 ELSE @]

\* A failure line.  A stale generation or an owned intent changes nothing.
RecordProcessingError ==
    LET invalid == line.kind = "invalid"
        owned == mon.target.status \in RecoveryOwned
        ended == [mon EXCEPT !.active = NoFile]
    IN  /\ mon.pc = "idle" /\ line.kind \in {"error", "invalid", "indeterminate"}
        /\ mon.active \in {NoFile, line.file}
        /\ line' = NoLine
        /\ IF Validated(line.file) # "valid" \/ owned
           THEN /\ mon' = ended
                /\ IF owned THEN SaveState(mon) ELSE UNCHANGED saved
                /\ UNCHANGED proven
           ELSE /\ mon' = [ended EXCEPT !.target = Recorded(mon.target, line.file, invalid),
                                        !.pc = "marking"]
                /\ proven' = IF invalid THEN [proven EXCEPT ![line.file.gen] = @ + 1] ELSE proven
                /\ UNCHANGED saved
        /\ Still /\ UNCHANGED <<mounted, registry, job, used>>

\* Lines that change no failure record: an ordinary end, or an end that does
\* not belong to the task on record.
RecordOther ==
    /\ mon.pc = "idle"
    /\ \/ line.kind = "finish"
       \/ line.kind \in {"error", "invalid", "indeterminate"}
             /\ mon.active \notin {NoFile, line.file}
    /\ line' = NoLine
    /\ mon' = IF mon.active \in {NoFile, line.file} THEN [mon EXCEPT !.active = NoFile] ELSE mon
    /\ Still /\ UNCHANGED <<mounted, registry, saved, job, proven, used>>

\* record_crash_candidate: native crashes are marked, never deleted.
CrashRecorded(m, file) ==
    LET current == Validated(file) = "valid"
        fresh == m.crash.count = 0 \/ (current /\ m.crash.file # file)
    IN  [m EXCEPT !.crash = [count |-> IF fresh THEN 1 ELSE m.crash.count + 1,
                             file |-> IF current THEN file ELSE m.crash.file]]

CrashMarked(m, file) ==
    IF m.crash.file = file /\ m.crash.count >= MinMark /\ file # NoFile
    THEN [file |-> file, kind |-> "sigsegv", count |-> m.crash.count] ELSE registry

\* SIGSEGV is charged to the one task on record, if there is one.
RecordCrash ==
    LET crashed == CrashRecorded(mon, mon.active)
    IN  /\ mon.pc = "idle" /\ line.kind = "sigsegv"
        /\ line' = NoLine
        /\ IF mon.active = NoFile
           THEN UNCHANGED <<mon, registry, saved>>
           ELSE /\ mon' = [crashed EXCEPT !.active = NoFile]
                /\ registry' \in {registry, CrashMarked(crashed, mon.active)}
                /\ SaveState(crashed)
        /\ Still /\ UNCHANGED <<mounted, job, proven, used>>

\* worker_start; a task that starts again without an end was a crash.
RecordStart ==
    LET crashed == CrashRecorded(mon, mon.active)
    IN  /\ mon.pc = "idle" /\ line.kind = "start"
        /\ line' = NoLine
        /\ IF mon.active = NoFile
           THEN mon' = [mon EXCEPT !.active = line.file] /\ UNCHANGED <<registry, saved>>
           ELSE /\ mon' = [crashed EXCEPT !.active = line.file]
                /\ registry' \in {registry, CrashMarked(crashed, mon.active)}
                /\ SaveState(crashed)
        /\ Still /\ UNCHANGED <<mounted, job, proven, used>>

\* persist_failure_marker; the registry write may fail.
PersistFailureMarker(written) ==
    LET t == mon.target
        marks == t.count >= MinMark /\ written
    IN  /\ mon.pc = "marking"
        /\ registry' = IF marks
                       THEN [file |-> t.file, kind |-> "processing_error", count |-> t.count]
                       ELSE registry
        /\ mon' = [mon EXCEPT !.target.marked = marks,
                              !.pc = IF marks /\ HasProof(t) /\ mon.deletes THEN "deciding"
                                     ELSE "summary"]
        /\ Still /\ UNCHANGED <<mounted, saved, job, line, proven, used>>

----------------------------------------------------------------------------
(* Deletion.                                                               *)

\* marker_allows_delete.
MarkerAllowsDelete(t) ==
    /\ mon.safe /\ t.invalid >= MinDelete /\ HasProof(t) /\ t.marked
    /\ DurableMarkerMatches(t.proof)

\* try_delete_path: validate, then make the intent durable.
TryDeletePath ==
    LET t == mon.target
        found == Validated(t.proof)
        intent == [t EXCEPT !.status = "deleting", !.intent = t.proof,
                            !.token = used.tokens + 1]
    IN  /\ mon.pc = "deciding" /\ used.tokens < MaxTokens
        /\ IF MarkerAllowsDelete(t) /\ found = "valid"
           THEN /\ mon' = [mon EXCEPT !.target = intent, !.pc = "open", !.mode = "live"]
                /\ SaveState(mon')
                /\ used' = [used EXCEPT !.tokens = @ + 1]
           ELSE /\ mon' = [mon EXCEPT !.pc = "summary",
                     !.target.status = IF ~MarkerAllowsDelete(t) THEN "waiting"
                                       ELSE IF found = "unavailable" THEN "missing" ELSE "blocked"]
                /\ UNCHANGED <<saved, used>>
        /\ Still /\ UNCHANGED <<mounted, registry, job, line, proven>>

Quarantine == fs.q[mon.target.token]
WithQuarantine(q) == [fs EXCEPT !.q[mon.target.token] = q]

\* _validated_quarantined_identity: only the ctime may have moved on.
SameQuarantined(file) ==
    /\ Quarantine.candidate.gen = file.gen
    /\ Quarantine.candidate.ctime >= file.ctime

\* Renaming a file or linking it advances its ctime.
Touched(file) == [file EXCEPT !.ctime = file.ctime + 1]

Goto(pc) == mon' = [mon EXCEPT !.pc = pc]
Outcome(o) == mon' = [mon EXCEPT !.pc = "finish", !.outcome = o]
Elsewhere == UNCHANGED <<mounted, registry, saved, job, line, proven, used>>

\* secure_unlink_regular_beneath, from the top: resume what is found there.
\* An error nobody foresaw (`failed') can only come from looking around.
OpenQuarantine(fails) ==
    /\ mon.pc = "open"
    /\ CASE ~mounted -> Outcome("unavailable") /\ Still
         [] mounted /\ fails ->
              /\ \E o \in {"unsafe", "failed"} : Outcome(o)
              /\ \/ Still
                 \/ /\ Quarantine.dir = "none"
                    /\ Change(WithQuarantine([Empty EXCEPT !.dir = "active"]))
         [] mounted /\ ~fails /\ Quarantine.dir = "completed" -> Goto("confirm") /\ Still
         [] mounted /\ ~fails /\ Quarantine.dir # "completed" ->
              /\ Goto("inspect")
              /\ IF Quarantine.dir = "active" THEN Still
                 ELSE fs' = WithQuarantine([Empty EXCEPT !.dir = "active"]) /\ after' = {fs'}
    /\ Elsewhere

InspectQuarantine ==
    LET q == Quarantine
        found == Validated(mon.target.intent)
    IN  /\ mon.pc = "inspect"
        /\ CASE q.tombstone /\ q.candidate = NoFile -> Goto("sync")
             [] q.candidate # NoFile ->
                  IF SameQuarantined(mon.target.intent) THEN Goto("tombstone") ELSE Outcome("unsafe")
             [] ~q.tombstone /\ q.candidate = NoFile ->
                  IF found = "valid" THEN Goto("rename") ELSE Outcome(found)
        /\ Still /\ Elsewhere

\* The leaf may be another file by now.
MoveToQuarantine(fails) ==
    /\ mon.pc = "rename"
    /\ CASE fs.leaf = NoFile \/ ~mounted -> Outcome("unavailable") /\ Still
         [] fs.leaf # NoFile /\ mounted /\ fails -> Outcome("unsafe") /\ Still
         [] fs.leaf # NoFile /\ mounted /\ ~fails ->
              /\ Goto("moved")
              /\ Change([WithQuarantine([Quarantine EXCEPT
                            !.candidate = Touched(fs.leaf)]) EXCEPT !.leaf = NoFile])
    /\ Elsewhere

SyncMove(fails) ==
    /\ mon.pc = "moved"
    /\ IF fails THEN Goto("restore") /\ Still ELSE Goto("revalidate") /\ Sync
    /\ Elsewhere

RevalidateSkipped ==
    /\ mon.pc = "revalidate"
    /\ Goto("tombstone")
    /\ Still /\ Elsewhere

Revalidate ==
    /\ mon.pc = "revalidate"
    /\ Goto(IF SameQuarantined(mon.target.intent) THEN "tombstone" ELSE "restore")
    /\ Still /\ Elsewhere

\* _restore_quarantined_candidate never overwrites what is at the path now.
RestoreLink(fails) ==
    /\ mon.pc = "restore"
    /\ IF fails \/ fs.leaf # NoFile THEN Outcome("recovery") /\ Still
       ELSE /\ Goto("unlink_restored")
            /\ Change([WithQuarantine([Quarantine EXCEPT !.candidate = Touched(Quarantine.candidate)])
                         EXCEPT !.leaf = Touched(Quarantine.candidate)])
    /\ Elsewhere

RestoreUnlink(fails, settles) ==
    /\ mon.pc = "unlink_restored"
    /\ IF fails THEN Outcome("recovery") /\ Still
       ELSE /\ fs' = WithQuarantine([Quarantine EXCEPT !.candidate = NoFile])
            /\ after' = IF settles THEN {fs'} ELSE after \cup {fs'}
            /\ Outcome(IF settles THEN "unsafe" ELSE "recovery")
    /\ Elsewhere

EnsureTombstone(fails) ==
    /\ mon.pc = "tombstone"
    /\ \/ /\ fails /\ Outcome("recovery")
          /\ (Still \/ Change(WithQuarantine([Quarantine EXCEPT !.tombstone = TRUE])))
       \/ /\ ~fails /\ Goto("unlink")
          /\ fs' = WithQuarantine([Quarantine EXCEPT !.tombstone = TRUE]) /\ after' = {fs'}
    /\ Elsewhere

UnlinkCandidate(fails) ==
    /\ mon.pc = "unlink"
    /\ IF fails THEN Outcome("recovery") /\ Still
       ELSE Goto("sync") /\ Change(WithQuarantine([Quarantine EXCEPT !.candidate = NoFile]))
    /\ Elsewhere

SyncQuarantineLenient(fails) ==
    /\ mon.pc = "sync"
    /\ Goto("complete")
    /\ IF fails THEN Still ELSE Sync
    /\ Elsewhere

SyncQuarantine(fails) ==
    /\ mon.pc = "sync"
    /\ IF fails THEN Outcome("recovery") /\ Still ELSE Goto("complete") /\ Sync
    /\ Elsewhere

\* _complete_private_delete: as far as it gets; nothing depends on it.
CompletePrivateDelete ==
    /\ mon.pc = "complete"
    /\ \E q \in {Quarantine, [Quarantine EXCEPT !.dir = "completed"],
                 [Quarantine EXCEPT !.dir = "completed", !.tombstone = FALSE], Empty} :
          Change(WithQuarantine(q))
    /\ Outcome("deleted")
    /\ Elsewhere

\* _recover_completed_delete.
ConfirmCompleted(fails) ==
    /\ mon.pc = "confirm"
    /\ IF Quarantine.candidate # NoFile THEN Outcome("unsafe") /\ Still
       ELSE IF fails THEN Outcome("recovery") /\ Still
       ELSE /\ fs' = WithQuarantine(Empty)
            /\ after' = {fs, fs'}
            /\ Outcome("deleted")
    /\ Elsewhere

\* finish_delete_outcome after a live attempt, recover_delete_intents after a
\* resumed one; only a kept intent keeps its token.
FinalStatus ==
    CASE mon.outcome = "deleted" -> IF mon.mode = "live" THEN "deleted" ELSE Resumed
      [] mon.outcome = "unavailable" -> "missing_recovered"
      [] mon.outcome = "recovery" -> "deleting"
      [] mon.outcome = "failed" ->
           IF mon.mode = "live" THEN "failed_recovery" ELSE "blocked_recovery"
      [] mon.outcome = "unsafe" -> IF mon.mode = "live" THEN "blocked" ELSE "blocked_recovery"

FinishDeleteOutcome ==
    LET t == [mon.target EXCEPT !.status = FinalStatus]
        kept == FinalStatus \in RecoveryOwned
    IN  /\ mon.pc = "finish"
        /\ mon' = [mon EXCEPT !.pc = "summary", !.outcome = "none",
                     !.target = IF kept THEN t ELSE [t EXCEPT !.intent = NoFile, !.token = 0]]
        /\ SaveState(mon')
        /\ Still /\ UNCHANGED <<mounted, registry, job, line, proven, used>>

\* write_summary always ends with save_state.
WriteSummary ==
    /\ mon.pc = "summary"
    /\ mon' = [mon EXCEPT !.pc = "idle"]
    /\ SaveState(mon)
    /\ Still /\ UNCHANGED <<mounted, registry, job, line, proven, used>>

\* recover_delete_intents: only a complete, still proven and still marked
\* intent resumes, and only while deletion is switched on.
Resumable(t) ==
    /\ HasProof(t) /\ t.intent = t.proof /\ t.token # 0
    /\ DurableMarkerMatches(t.proof)

\* The process takes its lock, loads its state and settles open intents.
StartMonitor(deletes, readable) ==
    LET loaded == IF readable THEN saved.target ELSE NoTarget
        open == loaded.status \in {"deleting", "delete_paused"}
        status == IF ~open THEN loaded.status
                  ELSE IF ~Resumable(loaded) THEN "blocked_recovery"
                  ELSE IF deletes THEN "deleting" ELSE "delete_paused"
    IN  /\ mon.pc = "down"
        /\ mon' = [MonitorDown EXCEPT
              !.pc = IF open /\ status = "deleting" THEN "open" ELSE "summary",
              !.mode = "recover", !.deletes = deletes, !.safe = readable,
              !.target = [loaded EXCEPT !.status = status],
              !.crash = IF readable THEN saved.crash ELSE NoCrash]
        /\ Still /\ UNCHANGED <<mounted, registry, saved, job, line, proven, used>>

----------------------------------------------------------------------------
FailNext ==
    \/ OwnerReplaces \/ OwnerRemoves \/ Mount \/ Crash \/ PowerLoss
    \/ WorkerStarts \/ WorkerEnds \/ LineLost
    \/ RecordStart \/ RecordProcessingError \/ RecordOther \/ RecordCrash
    \/ TryDeletePath \/ InspectQuarantine \/ Revalidate \/ CompletePrivateDelete
    \/ FinishDeleteOutcome \/ WriteSummary
    \/ \E b \in BOOLEAN :
          \/ PersistFailureMarker(b) \/ OpenQuarantine(b) \/ MoveToQuarantine(b)
          \/ SyncMove(b) \/ RestoreLink(b) \/ EnsureTombstone(b) \/ UnlinkCandidate(b)
          \/ SyncQuarantine(b) \/ ConfirmCompleted(b)
          \/ \E c \in BOOLEAN : RestoreUnlink(b, c) \/ StartMonitor(b, c)

FailSpec == FailInit /\ [][FailNext]_failVars

----------------------------------------------------------------------------
Holds(folder, gen) ==
    \/ folder.leaf.gen = gen
    \/ \E t \in 1 .. MaxTokens : folder.q[t].candidate.gen = gen

\* Whatever the owner did to the path meanwhile, and wherever the monitor or
\* the machine stopped, a file that its owner did not remove is still in the
\* library or preserved in a quarantine, unless both validators reported that
\* very generation invalid often enough (secure_unlink_regular_beneath).
OnlyProvenMediaDestroyed ==
    \A gen \in fs.made \ fs.gone : Holds(fs, gen) \/ proven[gen] >= MinDelete

\* What the monitor reports of a deletion it saw through.  A file deleted in
\* one go is gone for good: not at the path, not in the quarantine, and no
\* power loss brings it back (fsync of the quarantine before
\* finish_delete_outcome).  Of a deletion resumed after a restart only the
\* quarantine is known to be empty for good: a file whose move could not be
\* synced may have been linked back at its path before.  And of a path that
\* was missing (CandidateUnavailableError, monitor_subgen_failures.py:1145,
\* 1298) nothing is known: the library may only be unmounted, although the
\* file is reported as deleted all the same (repair_subgen_failures.py:664).
\* A hard link may stay in the quarantine of an earlier deletion whose record
\* was lost.
DeletedIsGone ==
    \A folder \in after :
        /\ saved.target.status = "deleted" => folder.leaf.gen # saved.target.file.gen
        /\ saved.target.status \in {"deleted", Resumed} =>
              folder.q[used.tokens].candidate = NoFile
=============================================================================

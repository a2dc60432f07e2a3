--------------------------- MODULE FailureRepair ---------------------------
(***************************************************************************)
(* The repair reporter (repair_subgen_failures.py): a timer starts a short *)
(* process that reads the monitor's crash candidates, decides what became  *)
(* of each file and reports every changed verdict in an event log.  A      *)
(* report that cannot be written waits in the repair state file.  Two      *)
(* invocations may overlap up to the run lock, and each may die anywhere.  *)
(* A state file of an older version may hold deletions that were begun;    *)
(* they are retired, with a report of their own.                           *)
(***************************************************************************)
EXTENDS Naturals, Sequences, SequencesExt

CONSTANTS Candidates,   \* crash candidates, keyed by path
          Runs,         \* overlapping timer invocations
          MinCrashes,   \* min_crash_count
          MaxPending,   \* MAX_PENDING_EVENTS
          Oversized,    \* candidates whose reports exceed the log's limit
          MaxEvidence, MaxStarts  \* bounds

VARIABLES evidence,   \* the monitor's record and the file of each candidate
          repairFile, \* the repair state file: results and pending reports
          runs,       \* the processes
          lock,       \* who holds the run lock
          log,        \* the event log: reports, and lines that say one was omitted
          dropped,    \* pending reports the full queue pushed out
          starts      \* processes started so far

repairVars == <<evidence, repairFile, runs, lock, log, dropped, starts>>

NoRun == "nobody"
NoResult == [status |-> "none", count |-> 0]
Begun == [status |-> "deleting", count |-> 1]    \* by an older version
Idle == [pc |-> "idle", results |-> [c \in Candidates |-> NoResult],
         pending |-> << >>, todo |-> {}, report |-> << >>, next |-> "candidates"]

RepairInit ==
    /\ evidence \in [Candidates -> [count : {1}, file : {"present", "missing"}]]
    /\ repairFile \in [results : [Candidates -> {NoResult, Begun}], pending : {<< >>}]
    /\ runs = [r \in Runs |-> Idle]
    /\ lock = NoRun
    /\ log = {} /\ dropped = {} /\ starts = 0

----------------------------------------------------------------------------
\* The monitor counts another crash, or the file comes, goes or turns unsafe.
EvidenceChanges(c) ==
    /\ evidence[c].count < MaxEvidence
    /\ \E file \in {"present", "missing", "unsafe"} :
          evidence' = [evidence EXCEPT ![c] = [count |-> @.count + 1, file |-> file]]
    /\ UNCHANGED <<repairFile, runs, lock, log, dropped, starts>>

LoadRepairState(r) ==
    [runs[r] EXCEPT !.results = repairFile.results, !.pending = repairFile.pending]

\* Repairer.__init__ already reads the state file, before any lock.
Construct(r) ==
    /\ runs[r].pc = "idle" /\ starts < MaxStarts
    /\ starts' = starts + 1
    /\ runs' = [runs EXCEPT ![r] = [LoadRepairState(r) EXCEPT !.pc = "constructed"]]
    /\ UNCHANGED <<evidence, repairFile, lock, log, dropped>>

RunLockedStale(r) ==
    /\ runs[r].pc = "constructed" /\ lock = NoRun
    /\ lock' = r
    /\ runs' = [runs EXCEPT ![r] = [@ EXCEPT !.pc = "recover"]]
    /\ UNCHANGED <<evidence, repairFile, log, dropped, starts>>

\* run_locked reloads what an earlier run may have saved meanwhile.
RunLocked(r) ==
    /\ runs[r].pc = "constructed" /\ lock = NoRun
    /\ lock' = r
    /\ runs' = [runs EXCEPT ![r] = [LoadRepairState(r) EXCEPT !.pc = "recover"]]
    /\ UNCHANGED <<evidence, repairFile, log, dropped, starts>>

SaveRepairState(run) == repairFile' = [results |-> run.results, pending |-> run.pending]

\* recover_delete_intents: every deletion an older version began is retired and
\* saved as such; only then is it reported.
RecoverDeleteIntents(r) ==
    LET run == runs[r]
        intents == {c \in Candidates : run.results[c].status = "deleting"}
        retired == [c \in Candidates |->
                       IF c \in intents THEN [run.results[c] EXCEPT !.status = "blocked_recovery"]
                       ELSE run.results[c]]
        after == [run EXCEPT !.pc = "recovered", !.results = retired, !.todo = intents,
                             !.next = "recovered"]
    IN  /\ run.pc = "recover"
        /\ runs' = [runs EXCEPT ![r] = after]
        /\ IF intents = {} THEN UNCHANGED repairFile ELSE SaveRepairState(after)
        /\ UNCHANGED <<evidence, lock, log, dropped, starts>>

ReportRecovery(r, c) ==
    /\ runs[r].pc = "recovered" /\ c \in runs[r].todo
    /\ runs' = [runs EXCEPT ![r] =
                   [runs[r] EXCEPT !.pc = "deliver", !.todo = runs[r].todo \ {c},
                                   !.report = <<c, "blocked_recovery">>]]
    /\ UNCHANGED <<evidence, repairFile, lock, log, dropped, starts>>

\* What the log holds of a queued report: one too long for it is replaced by an
\* EVENT_OMITTED line with its signature.
Logged(report) == [report |-> report, omitted |-> report[1] \in Oversized]

\* flush_pending_events stops at the first report that cannot be written; the
\* n reports before it are in the log although the file still lists them.
FlushPendingEvents(r, n) ==
    LET run == runs[r]
        rest == [run EXCEPT !.pc = "save_flush", !.pending = SubSeq(@, n + 1, Len(@)),
                            !.todo = {c \in Candidates :
                                         run.results[c].status # "blocked_recovery"},
                            !.next = "candidates"]
    IN  /\ run.pc = "recovered" /\ run.todo = {} /\ n <= Len(run.pending)
        /\ log' = log \cup {Logged(run.pending[i]) : i \in 1 .. n}
        /\ runs' = [runs EXCEPT ![r] = rest]
        /\ UNCHANGED <<evidence, repairFile, lock, dropped, starts>>

SaveFlush(r) ==
    /\ runs[r].pc = "save_flush"
    /\ SaveRepairState(runs[r])
    /\ runs' = [runs EXCEPT ![r].pc = "candidates"]
    /\ UNCHANGED <<evidence, lock, log, dropped, starts>>

\* repair_candidate's verdict; below the threshold nothing is reported.
Verdict(c) ==
    [count |-> evidence[c].count,
     status |-> IF evidence[c].count < MinCrashes THEN "below_threshold"
                ELSE CASE evidence[c].file = "present" -> "eligible"
                       [] evidence[c].file = "missing" -> "missing"
                       [] evidence[c].file = "unsafe" -> "blocked"]

\* record_result: an unchanged verdict is not reported again.
RepairCandidate(r, c) ==
    LET run == runs[r]
        verdict == Verdict(c)
        quiet == verdict = run.results[c] \/ verdict.status = "below_threshold"
    IN  /\ run.pc = "candidates" /\ c \in run.todo
        /\ runs' = [runs EXCEPT ![r] =
                       [run EXCEPT !.todo = run.todo \ {c},
                                   !.results = [run.results EXCEPT ![c] = verdict],
                                   !.report = IF quiet THEN << >> ELSE <<c, verdict.status>>,
                                   !.pc = IF quiet THEN "candidates" ELSE "deliver"]]
        /\ UNCHANGED <<evidence, repairFile, lock, log, dropped, starts>>

\* append_event: rotate, append and sync under the log lock, or fail; it never
\* takes a report longer than the log may be.
AppendEvent(r) ==
    /\ runs[r].pc = "deliver" /\ runs[r].report[1] \notin Oversized
    /\ log' = log \cup {Logged(runs[r].report)}
    /\ runs' = [runs EXCEPT ![r] = [@ EXCEPT !.pc = runs[r].next, !.report = << >>]]
    /\ UNCHANGED <<evidence, repairFile, lock, dropped, starts>>

\* defer_event: queue it once, at most MaxPending, and save at once.
DeferEvent(r) ==
    LET run == runs[r]
        queued == IF Contains(run.pending, run.report) THEN run.pending
                  ELSE Append(run.pending, run.report)
        full == Len(queued) > MaxPending
        deferred == [run EXCEPT !.pc = run.next, !.report = << >>,
                                !.pending = IF full THEN Tail(queued) ELSE queued]
    IN  /\ run.pc = "deliver"
        /\ runs' = [runs EXCEPT ![r] = deferred]
        /\ SaveRepairState(deferred)
        /\ dropped' = IF full THEN dropped \cup {Head(queued)} ELSE dropped
        /\ UNCHANGED <<evidence, lock, log, starts>>

\* The last save, then the lock is released.
FinishRun(r) ==
    /\ runs[r].pc = "candidates" /\ runs[r].todo = {}
    /\ SaveRepairState(runs[r])
    /\ runs' = [runs EXCEPT ![r] = Idle]
    /\ lock' = NoRun
    /\ UNCHANGED <<evidence, log, dropped, starts>>

\* The process dies; the kernel releases its lock.
Die(r) ==
    /\ runs[r].pc # "idle"
    /\ runs' = [runs EXCEPT ![r] = Idle]
    /\ lock' = IF lock = r THEN NoRun ELSE lock
    /\ UNCHANGED <<evidence, repairFile, log, dropped, starts>>

RepairNext ==
    \/ \E c \in Candidates : EvidenceChanges(c)
    \/ \E r \in Runs :
          \/ Construct(r) \/ RunLocked(r) \/ RecoverDeleteIntents(r) \/ SaveFlush(r)
          \/ AppendEvent(r) \/ DeferEvent(r) \/ FinishRun(r) \/ Die(r)
          \/ \E c \in Candidates : ReportRecovery(r, c)
          \/ \E n \in 0 .. MaxPending : FlushPendingEvents(r, n)
          \/ \E c \in Candidates : RepairCandidate(r, c)

RepairSpec == RepairInit /\ [][RepairNext]_repairVars

----------------------------------------------------------------------------
\* The retired deletions a run has saved and not reported yet.
Owed(run) ==
    IF run.next # "recovered" THEN {}
    ELSE {<<c, "blocked_recovery">> : c \in run.todo}
         \cup (IF run.pc = "deliver" THEN {run.report} ELSE {})

\* What a step does with what the state file holds: a verdict that becomes
\* known is in the log or queued, or the full queue pushed its report out, or it
\* is a retired deletion and the run that saved it owes the report; a queued
\* report leaves the file, and an owed one its run, only for the log or the
\* queue, or is pushed out, unless the run that owes it dies.
ReportKept ==
    LET accounted == {entry.report : entry \in log'} \cup dropped'
                        \cup ToSet(repairFile'.pending)
    IN  /\ \A c \in Candidates :
              repairFile'.results[c].status \notin {"none", "below_threshold"} =>
                 \/ repairFile'.results[c].status = repairFile.results[c].status
                 \/ <<c, repairFile'.results[c].status>> \in accounted
                 \/ /\ repairFile'.results[c].status = "blocked_recovery"
                    /\ \E r \in Runs : <<c, "blocked_recovery">> \in Owed(runs'[r])
        /\ ToSet(repairFile.pending) \subseteq accounted
        /\ \A r \in Runs : runs'[r].pc # "idle" =>
              Owed(runs[r]) \subseteq accounted \cup Owed(runs'[r])

\* A report is never lost, with one exception: whatever process dies at whatever
\* moment, a verdict the state file holds as known was reported in the log (or a
\* line there says that its report was too long) or is still queued, unless the
\* full queue pushed it out with a warning, and a queued report only leaves the
\* file for the log (record_result, deliver_event, run_locked's reload after the
\* lock).  The exception is recover_delete_intents, which saves the retired
\* deletions (repair_subgen_failures.py:752) before it delivers their reports
\* (753-754): those reports live in the run alone, a run that dies there loses
\* them, and no later run makes them again (729-731).
ReportsAreKept == [][ReportKept]_repairVars
=============================================================================

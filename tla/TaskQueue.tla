------------------------------ MODULE TaskQueue ------------------------------
(***************************************************************************)
(* The deduplicated task queue and the result containers of the blocking   *)
(* endpoints: subgen_core/queueing.py, transcription_worker and the /asr,  *)
(* /v1/audio/transcriptions and /v1/audio/translations handlers of         *)
(* subgen_override.py, and gen_subtitles_queue for library files.          *)
(*                                                                         *)
(*   requests  one HTTP upload each: attach to the result container of the *)
(*             task id, put a task, wait for the container, clean up       *)
(*   feeders   the scanner, the file watcher and the webhooks, which queue *)
(*             library files                                               *)
(*   workers   transcription_worker                                        *)
(*                                                                         *)
(* One step is one critical section (the queue's own lock, its heap mutex, *)
(* or task_results_lock).  A result container is named by the request that *)
(* created it.  The timestamps that order tasks of equal priority come     *)
(* from the wall clock, which may step back: any of them may be popped.    *)
(***************************************************************************)
EXTENDS Naturals, FiniteSets

CONSTANTS
    Requests,   \* uploads to the blocking endpoints
    Feeders,    \* threads that queue library files
    Workers,    \* transcription worker threads
    Audio,      \* task ids of uploads (audio content and options, hashed)
    Files,      \* library paths
    IdOf,       \* IdOf[r] is the task id of request r's upload
    None        \* no container, no task

Ids == Audio \cup Files
Kinds == {"detect_language", "asr", "transcribe"}

\* A queued item; container is the result_container of an upload.
Task == [id : Ids, kind : Kinds, container : Requests \cup {None}]

ASSUME QueueAssumption ==
    /\ IdOf \in [Requests -> Audio]
    /\ Audio \cap Files = {}
    /\ None \notin Requests \cup Task
    /\ Requests \cap Feeders = {}
    /\ Workers \cap (Requests \cup Feeders) = {}

VARIABLES
    heap,        \* the items of the PriorityQueue
    queued,      \* _queued
    processing,  \* _processing
    results,     \* task_results: the container of each id, or None
    done,        \* the containers whose event is set
    box,         \* the container each request waits for
    path,        \* the library file each feeder is about to queue
    accepted,    \* requests whose put returned True
    hand,        \* the task each worker has in hand
    follow,      \* workers that have a next_task
    pc           \* next block of each request, feeder and worker

vars == <<heap, queued, processing, results, done, box, path, accepted,
          hand, follow, pc>>

-----------------------------------------------------------------------------

\* DeduplicatedQueue.put's priority.
Priority(kind) ==
    CASE kind = "detect_language" -> 0 [] kind = "asr" -> 1 [] OTHER -> 2

IsActive(id) == id \in queued \cup processing

\* DeduplicatedQueue.put returns whether it took the item.
Accepts(id) == ~IsActive(id)

\* Mutant: only waiting items are looked up, not those being processed.
PutIgnoresProcessing(t) ==
    IF t.id \notin queued
    THEN heap' = heap \cup {t} /\ queued' = queued \cup {t.id}
    ELSE UNCHANGED <<heap, queued>>

Put(t) ==
    IF Accepts(t.id)
    THEN heap' = heap \cup {t} /\ queued' = queued \cup {t.id}
    ELSE UNCHANGED <<heap, queued>>

\* cleanup_task_result's block under task_results_lock.
DropResult(id) ==
    results' = IF results[id] \in done THEN [results EXCEPT ![id] = None]
               ELSE results

Goto(p, label) == pc' = [pc EXCEPT ![p] = label]

-----------------------------------------------------------------------------
(***************************************************************************)
(* A blocking endpoint: asr, openai_transcriptions, openai_translations.   *)
(***************************************************************************)

\* Find or create the container of the upload's task id.
Attach(r) ==
    /\ pc[r] = "new"
    /\ LET c == IF results[IdOf[r]] = None THEN r ELSE results[IdOf[r]]
       IN  /\ results' = [results EXCEPT ![IdOf[r]] = c]
           /\ box' = [box EXCEPT ![r] = c]
    /\ Goto(r, "put")
    /\ UNCHANGED <<heap, queued, processing, done, path, accepted, hand, follow>>

PutUpload(r) ==
    /\ pc[r] = "put"
    /\ Put([id |-> IdOf[r], kind |-> "asr", container |-> box[r]])
    /\ accepted' = IF Accepts(IdOf[r]) THEN accepted \cup {r} ELSE accepted
    /\ Goto(r, "wait")
    /\ UNCHANGED <<processing, results, done, box, path, hand, follow>>

\* task_result.wait(asr_timeout) returned: the result, or a timeout.
Answer(r) ==
    /\ pc[r] = "wait"
    /\ box[r] \in done
    /\ Goto(r, "check")
    /\ UNCHANGED <<heap, queued, processing, results, done, box, path, accepted, hand,
                   follow>>

TimeOut(r) ==
    /\ pc[r] = "wait"
    /\ box[r] \notin done
    /\ Goto(r, "check")
    /\ UNCHANGED <<heap, queued, processing, results, done, box, path, accepted, hand,
                   follow>>

\* The finally block: cleanup_task_result(task_id, require_inactive=True)
\* looks at the queue before it takes task_results_lock.
CheckInactive(r) ==
    /\ pc[r] = "check"
    /\ Goto(r, IF IsActive(IdOf[r]) THEN "end" ELSE "drop")
    /\ UNCHANGED <<heap, queued, processing, results, done, box, path, accepted, hand,
                   follow>>

RequestDrops(r) ==
    /\ pc[r] = "drop"
    /\ DropResult(IdOf[r])
    /\ Goto(r, "end")
    /\ UNCHANGED <<heap, queued, processing, done, box, path, accepted, hand, follow>>

-----------------------------------------------------------------------------
(***************************************************************************)
(* A library file: gen_subtitles_queue.                                    *)
(***************************************************************************)

\* Nothing is done for an active path; the media checks follow.
CheckFile(f) ==
    /\ pc[f] = "rest"
    /\ \E file \in Files : ~IsActive(file) /\ path' = [path EXCEPT ![f] = file]
    /\ Goto(f, "put")
    /\ UNCHANGED <<heap, queued, processing, results, done, box, accepted, hand,
                   follow>>

\* ... and may find nothing to do; otherwise a detection or a transcription
\* is queued, unless somebody else queued the path meanwhile.
QueueFile(f) ==
    /\ pc[f] = "put"
    /\ \/ UNCHANGED <<heap, queued>>
       \/ \E kind \in {"detect_language", "transcribe"} :
            Put([id |-> path[f], kind |-> kind, container |-> None])
    /\ path' = [path EXCEPT ![f] = None]
    /\ Goto(f, "rest")
    /\ UNCHANGED <<processing, results, done, box, accepted, hand, follow>>

-----------------------------------------------------------------------------
(***************************************************************************)
(* transcription_worker.                                                   *)
(***************************************************************************)

\* DeduplicatedQueue.get: the heap is popped under its own mutex ...
Pop(w) ==
    /\ pc[w] = "idle"
    /\ \E t \in heap :
         /\ \A u \in heap : Priority(t.kind) <= Priority(u.kind)
         /\ heap' = heap \ {t}
         /\ hand' = [hand EXCEPT ![w] = t]
    /\ Goto(w, "popped")
    /\ UNCHANGED <<queued, processing, results, done, box, path, accepted, follow>>

\* ... and the id moves from _queued to _processing in a later block.
Register(w) ==
    /\ pc[w] = "popped"
    /\ queued' = queued \ {hand[w].id}
    /\ processing' = processing \cup {hand[w].id}
    /\ Goto(w, "work")
    /\ UNCHANGED <<heap, results, done, box, path, accepted, hand, follow>>

\* Mutant: an upload that failed leaves its container unset.
AsrTaskOnlyOnSuccess(w) ==
    /\ pc[w] = "work"
    /\ hand[w].kind = "asr"
    /\ \/ done' = done \cup {hand[w].container}
       \/ UNCHANGED done
    /\ Goto(w, "finish")
    /\ UNCHANGED <<heap, queued, processing, results, box, path, accepted, hand, follow>>

\* asr_task_worker: the result or the error is set, in either case.
AsrTask(w) ==
    /\ pc[w] = "work"
    /\ hand[w].kind = "asr"
    /\ done' = done \cup {hand[w].container}
    /\ Goto(w, "finish")
    /\ UNCHANGED <<heap, queued, processing, results, box, path, accepted, hand, follow>>

\* A library file is transcribed, fails, or belongs to a superseded startup
\* inventory; a detection that went well asks for a transcription.
FileTask(w) ==
    /\ pc[w] = "work"
    /\ hand[w].kind # "asr"
    /\ \E next \in {FALSE, hand[w].kind = "detect_language"} :
         follow' = IF next THEN follow \cup {w} ELSE follow
    /\ Goto(w, "finish")
    /\ UNCHANGED <<heap, queued, processing, results, done, box, path, accepted, hand>>

\* The finally block, one lock at a time: mark_done, put(next_task),
\* cleanup_task_result.
MarkDone(w) ==
    /\ pc[w] = "finish"
    /\ processing' = processing \ {hand[w].id}
    /\ Goto(w, IF w \in follow THEN "follow" ELSE "drop")
    /\ UNCHANGED <<heap, queued, results, done, box, path, accepted, hand, follow>>

PutNext(w) ==
    /\ pc[w] = "follow"
    /\ Put([id |-> hand[w].id, kind |-> "transcribe", container |-> None])
    /\ follow' = follow \ {w}
    /\ Goto(w, "drop")
    /\ UNCHANGED <<processing, results, done, box, path, accepted, hand>>

\* Mutant: the worker leaves the clean-up to the endpoints.
WorkerKeeps(w) ==
    /\ pc[w] = "drop"
    /\ hand' = [hand EXCEPT ![w] = None]
    /\ Goto(w, "idle")
    /\ UNCHANGED <<heap, queued, processing, results, done, box, path, accepted, follow>>

WorkerDrops(w) ==
    /\ pc[w] = "drop"
    /\ DropResult(hand[w].id)
    /\ hand' = [hand EXCEPT ![w] = None]
    /\ Goto(w, "idle")
    /\ UNCHANGED <<heap, queued, processing, done, box, path, accepted, follow>>

-----------------------------------------------------------------------------

Init ==
    /\ heap = {} /\ queued = {} /\ processing = {}
    /\ results = [id \in Ids |-> None]
    /\ done = {}
    /\ box = [r \in Requests |-> None]
    /\ path = [f \in Feeders |-> None]
    /\ accepted = {}
    /\ hand = [w \in Workers |-> None]
    /\ follow = {}
    /\ pc = [p \in Requests \cup Feeders \cup Workers |->
               IF p \in Requests THEN "new"
               ELSE IF p \in Feeders THEN "rest" ELSE "idle"]

Request(r) ==
    \/ Attach(r) \/ PutUpload(r) \/ Answer(r) \/ TimeOut(r)
    \/ CheckInactive(r) \/ RequestDrops(r)

Feeder(f) == CheckFile(f) \/ QueueFile(f)

Worker(w) ==
    \/ Pop(w) \/ Register(w) \/ AsrTask(w) \/ FileTask(w)
    \/ MarkDone(w) \/ PutNext(w) \/ WorkerDrops(w)

Next ==
    \/ \E r \in Requests : Request(r)
    \/ \E f \in Feeders : Feeder(f)
    \/ \E w \in Workers : Worker(w)

Spec == Init /\ [][Next]_vars

-----------------------------------------------------------------------------
(***************************************************************************)
(* Properties.                                                             *)
(***************************************************************************)

\* Every variable has its type.
TypeOK ==
    /\ heap \in SUBSET Task
    /\ queued \in SUBSET Ids /\ processing \in SUBSET Ids
    /\ results \in [Ids -> Requests \cup {None}]
    /\ done \in SUBSET Requests
    /\ box \in [Requests -> Requests \cup {None}]
    /\ path \in [Feeders -> Files \cup {None}]
    /\ accepted \in SUBSET Requests
    /\ hand \in [Workers -> Task \cup {None}]
    /\ follow \in SUBSET Workers
    /\ pc \in [Requests \cup Feeders \cup Workers ->
                 {"new", "put", "wait", "check", "drop", "end", "rest", "idle",
                  "popped", "work", "finish", "follow"}]

\* From the pop to mark_done a worker holds its task.
Holding(w) == pc[w] \in {"popped", "work", "finish"}

\* Tasks that will still set their container.
Pending == heap \cup {hand[w] : w \in {v \in Workers : pc[v] \in {"popped", "work"}}}

\* No id is worked on twice at once: whatever the endpoints, the feeders and
\* the follow-up of a detection put, an id has one item in the queue or one
\* worker, never two of either or both (DeduplicatedQueue).
OneOwnerPerTask ==
    /\ \A t, u \in heap : t.id = u.id => t = u
    /\ \A w, v \in Workers :
          Holding(w) /\ Holding(v) /\ hand[w].id = hand[v].id => w = v
    /\ \A w \in Workers, t \in heap : Holding(w) => hand[w].id # t.id

\* "Keep a timed-out active task's result container so retries attach to the
\* same worker": while a task has not set its container, a new request for
\* its id finds that container, unless the container had its result already.
KeptForRetries ==
    \A t \in Pending :
        t.kind = "asr" /\ t.container \notin done => results[t.id] = t.container

\* A request whose own task was accepted waits for a container that is set or
\* that a task still to be finished will set.
AcceptedIsServed ==
    \A r \in Requests :
        pc[r] = "wait" /\ r \in accepted =>
            box[r] \in done \/ \E t \in Pending : t.container = box[r]

\* When nothing is queued, running or being answered, no finished result is
\* left in task_results: every path through the endpoints' and the worker's
\* clean-up drops it.
NoResultLeftBehind ==
    /\ heap = {}
    /\ \A w \in Workers : pc[w] = "idle"
    /\ \A r \in Requests : pc[r] \in {"new", "end"}
    => \A id \in Ids : results[id] \notin done

\* "If identical audio + task + language is already being processed, waits
\* for that task to complete and returns the same result": a waiting request
\* has a task that will set its container, whoever queued it.
WaiterIsServed ==
    \A r \in Requests :
        pc[r] = "wait" =>
            box[r] \in done \/ \E t \in Pending : t.container = box[r]
=============================================================================

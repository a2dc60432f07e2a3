--------------------------- MODULE TaskQueueProofs ---------------------------
(***************************************************************************)
(* Theorems about TaskQueue, for any number of uploads, library files,     *)
(* feeders and workers:                                                    *)
(*                                                                         *)
(*   NoDoubleWork       Spec => []OneOwnerPerTask                          *)
(*   RetriesAttach      Spec => []KeptForRetries                           *)
(*   AcceptedAreServed  Spec => []AcceptedIsServed                         *)
(*   ResultsAreDropped  Spec => []NoResultLeftBehind                       *)
(*                                                                         *)
(* None of them is inductive alone.  OneOwnerPerTask needs the id sets to  *)
(* say exactly which ids are in the heap or in a worker's hands; the       *)
(* next two need the container of a request that has attached but not put  *)
(* yet, the last one who will still clean up after an id.                  *)
(***************************************************************************)
EXTENDS TaskQueue, TLAPS

Threads == Requests \cup Feeders \cup Workers
Labels == {"new", "put", "wait", "check", "drop", "end", "rest", "idle",
           "popped", "work", "finish", "follow"}

\* Uploads and only they have a container; a worker that is not idle has a
\* task, a feeder about to put has a file, a request past Attach has a
\* container.
Equipped ==
    /\ \A t \in heap : (t.kind = "asr") <=> (t.container # None)
    /\ \A w \in Workers : pc[w] # "idle" =>
          ((hand[w].kind = "asr") <=> (hand[w].container # None))
    /\ \A w \in Workers : pc[w] # "idle" => hand[w] \in Task
    /\ \A f \in Feeders : pc[f] = "put" => path[f] \in Files
    /\ \A r \in Requests : pc[r] # "new" => box[r] \in Requests

TypeInv == TypeOK /\ Equipped

-----------------------------------------------------------------------------
(***************************************************************************)
(* Types.                                                                  *)
(***************************************************************************)

\* Every label the actions go to is a label.
LEMMA LabelNames ==
    /\ "new" \in Labels /\ "put" \in Labels /\ "wait" \in Labels
    /\ "check" \in Labels /\ "drop" \in Labels /\ "end" \in Labels
    /\ "rest" \in Labels /\ "idle" \in Labels /\ "popped" \in Labels
    /\ "work" \in Labels /\ "finish" \in Labels /\ "follow" \in Labels
BY DEF Labels

\* Goto moves one thread and keeps the type of pc.
LEMMA GotoMoves ==
    ASSUME TypeOK, NEW p \in Threads, NEW label \in Labels, Goto(p, label)
    PROVE  /\ pc' \in [Threads -> Labels]
           /\ pc'[p] = label
           /\ \A q \in Threads : q # p => pc'[q] = pc[q]
BY DEF Goto, TypeOK, Threads, Labels

\* What put does to the heap and the waiting ids.
LEMMA PutType ==
    ASSUME TypeInv, NEW t \in Task, Put(t), (t.kind = "asr") <=> (t.container # None)
    PROVE  /\ heap' \in SUBSET Task /\ queued' \in SUBSET Ids
           /\ \A u \in heap' : (u.kind = "asr") <=> (u.container # None)
BY DEF Put, TypeInv, TypeOK, Equipped, Task

\* cleanup_task_result only removes.
LEMMA DropType ==
    ASSUME TypeOK, NEW id \in Ids, DropResult(id)
    PROVE  /\ results' \in [Ids -> Requests \cup {None}]
           /\ \A i \in Ids : results'[i] = results[i] \/ results[i] \in done
BY DEF DropResult, TypeOK

\* An upload's task id is an id, and its task is a task.
LEMMA UploadTask ==
    ASSUME NEW r \in Requests, NEW c \in Requests
    PROVE  /\ IdOf[r] \in Ids
           /\ [id |-> IdOf[r], kind |-> "asr", container |-> c] \in Task
BY QueueAssumption DEF Ids, Task, Kinds

\* A library file's task is a task.
LEMMA FileTasks ==
    ASSUME NEW id \in Ids, NEW kind \in {"detect_language", "transcribe"}
    PROVE  [id |-> id, kind |-> kind, container |-> None] \in Task
BY DEF Task, Kinds

\* A request keeps the types.
LEMMA RequestType ==
    ASSUME TypeInv, NEW r \in Requests, Request(r)
    PROVE  TypeInv'
<1>0. /\ TypeOK /\ r \in Threads /\ IdOf[r] \in Ids
      /\ \A w \in Workers : w \in Threads /\ w # r
      /\ \A f \in Feeders : f \in Threads /\ f # r
      /\ \A q \in Requests : q \in Threads
      /\ pc[r] # "new" => box[r] \in Requests
  BY QueueAssumption DEF TypeInv, Threads, Ids, Equipped
<1>1. CASE Attach(r)
  <2>1. /\ pc' \in [Threads -> Labels]
        /\ \A q \in Threads : q # r => pc'[q] = pc[q]
    BY <1>0, <1>1, GotoMoves, LabelNames DEF Attach
  <2>2. /\ results' \in [Ids -> Requests \cup {None}]
        /\ box' \in [Requests -> Requests \cup {None}]
        /\ box'[r] \in Requests
        /\ \A q \in Requests : q # r => box'[q] = box[q]
    BY <1>0, <1>1 DEF Attach, TypeOK
  <2>3. TypeOK'
    BY <1>0, <1>1, <2>1, <2>2 DEF Attach, TypeOK, Threads, Labels
  <2>4. Equipped'
    BY <1>0, <1>1, <2>1, <2>2 DEF Attach, TypeInv, Equipped
  <2> QED BY <2>3, <2>4 DEF TypeInv
<1>2. CASE PutUpload(r)
  <2>1. /\ pc' \in [Threads -> Labels]
        /\ \A q \in Threads : q # r => pc'[q] = pc[q]
    BY <1>0, <1>2, GotoMoves, LabelNames DEF PutUpload
  <2>2. /\ heap' \in SUBSET Task /\ queued' \in SUBSET Ids
        /\ \A u \in heap' : (u.kind = "asr") <=> (u.container # None)
    BY <1>0, <1>2, PutType, UploadTask, QueueAssumption DEF PutUpload
  <2>3. TypeOK'
    BY <1>0, <1>2, <2>1, <2>2 DEF PutUpload, TypeOK, Threads, Labels
  <2>4. Equipped'
    BY <1>0, <1>2, <2>1, <2>2 DEF PutUpload, TypeInv, Equipped
  <2> QED BY <2>3, <2>4 DEF TypeInv
<1>3. CASE Answer(r) \/ TimeOut(r) \/ CheckInactive(r)
  <2>1. /\ pc' \in [Threads -> Labels]
        /\ \A q \in Threads : q # r => pc'[q] = pc[q]
    BY <1>0, <1>3, GotoMoves, LabelNames DEF Answer, TimeOut, CheckInactive
  <2>2. pc[r] # "new" /\ UNCHANGED <<heap, queued, processing, results, done,
                                     box, path, accepted, hand, follow>>
    BY <1>3 DEF Answer, TimeOut, CheckInactive
  <2>3. TypeOK'
    BY <1>0, <2>1, <2>2 DEF TypeOK, Threads, Labels
  <2>4. Equipped'
    BY <1>0, <2>1, <2>2 DEF TypeInv, Equipped
  <2> QED BY <2>3, <2>4 DEF TypeInv
<1>4. CASE RequestDrops(r)
  <2>1. /\ pc' \in [Threads -> Labels]
        /\ \A q \in Threads : q # r => pc'[q] = pc[q]
    BY <1>0, <1>4, GotoMoves, LabelNames DEF RequestDrops
  <2>2. results' \in [Ids -> Requests \cup {None}]
    BY <1>0, <1>4, DropType DEF RequestDrops
  <2>3. TypeOK'
    BY <1>0, <1>4, <2>1, <2>2 DEF RequestDrops, TypeOK, Threads, Labels
  <2>4. Equipped'
    BY <1>0, <1>4, <2>1 DEF RequestDrops, TypeInv, Equipped
  <2> QED BY <2>3, <2>4 DEF TypeInv
<1> QED BY <1>1, <1>2, <1>3, <1>4 DEF Request

\* A feeder keeps the types.
LEMMA FeederType ==
    ASSUME TypeInv, NEW f \in Feeders, Feeder(f)
    PROVE  TypeInv'
<1>0. /\ TypeOK /\ f \in Threads
      /\ \A w \in Workers : w \in Threads /\ w # f
      /\ \A q \in Requests : q \in Threads /\ q # f
      /\ \A g \in Feeders : g \in Threads
      /\ pc[f] = "put" => path[f] \in Ids
  BY QueueAssumption DEF TypeInv, Threads, Ids, Equipped
<1>1. CASE CheckFile(f)
  <2>1. /\ pc' \in [Threads -> Labels]
        /\ \A q \in Threads : q # f => pc'[q] = pc[q]
    BY <1>0, <1>1, GotoMoves, LabelNames DEF CheckFile
  <2>2. /\ path' \in [Feeders -> Files \cup {None}]
        /\ path'[f] \in Files
        /\ \A g \in Feeders : g # f => path'[g] = path[g]
    BY <1>0, <1>1 DEF CheckFile, TypeOK
  <2>3. TypeOK'
    BY <1>0, <1>1, <2>1, <2>2 DEF CheckFile, TypeOK, Threads, Labels
  <2>4. Equipped'
    BY <1>0, <1>1, <2>1, <2>2 DEF CheckFile, TypeInv, Equipped
  <2> QED BY <2>3, <2>4 DEF TypeInv
<1>2. CASE QueueFile(f)
  <2>1. /\ pc' \in [Threads -> Labels]
        /\ pc'[f] = "rest"
        /\ \A q \in Threads : q # f => pc'[q] = pc[q]
    BY <1>0, <1>2, GotoMoves, LabelNames DEF QueueFile
  <2>2. /\ heap' \in SUBSET Task /\ queued' \in SUBSET Ids
        /\ \A u \in heap' : (u.kind = "asr") <=> (u.container # None)
    BY <1>0, <1>2, PutType, FileTasks DEF QueueFile, TypeOK, TypeInv, Equipped
  <2>3. /\ path' \in [Feeders -> Files \cup {None}]
        /\ \A g \in Feeders : g # f => path'[g] = path[g]
    BY <1>0, <1>2 DEF QueueFile, TypeOK
  <2>4. TypeOK'
    BY <1>0, <1>2, <2>1, <2>2, <2>3 DEF QueueFile, TypeOK, Threads, Labels
  <2>5. Equipped'
    BY <1>0, <1>2, <2>1, <2>2, <2>3 DEF QueueFile, TypeInv, Equipped
  <2> QED BY <2>4, <2>5 DEF TypeInv
<1> QED BY <1>1, <1>2 DEF Feeder

\* A worker keeps the types.
LEMMA WorkerType ==
    ASSUME TypeInv, NEW w \in Workers, Worker(w)
    PROVE  TypeInv'
<1>0. /\ TypeOK /\ w \in Threads
      /\ \A v \in Workers : v \in Threads
      /\ \A q \in Requests : q \in Threads /\ q # w
      /\ \A g \in Feeders : g \in Threads /\ g # w
      /\ pc[w] # "idle" => /\ hand[w] \in Task /\ hand[w].id \in Ids
                           /\ hand[w].container \in Requests \cup {None}
  BY QueueAssumption DEF TypeInv, Threads, Equipped, Task
<1>1. CASE Pop(w)
  <2>1. /\ pc' \in [Threads -> Labels]
        /\ \A q \in Threads : q # w => pc'[q] = pc[q]
    BY <1>0, <1>1, GotoMoves, LabelNames DEF Pop
  <2>2. PICK t \in heap : heap' = heap \ {t} /\ hand' = [hand EXCEPT ![w] = t]
    BY <1>1 DEF Pop
  <2>3. /\ hand' \in [Workers -> Task \cup {None}] /\ hand'[w] \in Task
        /\ \A v \in Workers : v # w => hand'[v] = hand[v]
        /\ heap' \in SUBSET heap /\ hand'[w] \in heap
    BY <1>0, <2>2 DEF TypeOK
  <2>4. TypeOK'
    BY <1>0, <1>1, <2>1, <2>3 DEF Pop, TypeOK, Threads, Labels
  <2>5. Equipped'
    BY <1>0, <1>1, <2>1, <2>3 DEF Pop, TypeInv, Equipped
  <2> QED BY <2>4, <2>5 DEF TypeInv
<1>2. CASE Register(w) \/ FileTask(w) \/ MarkDone(w)
  <2>1. /\ pc' \in [Threads -> Labels]
        /\ \A q \in Threads : q # w => pc'[q] = pc[q]
    BY <1>0, <1>2, GotoMoves, LabelNames DEF Register, FileTask, MarkDone
  <2>2. /\ pc[w] # "idle"
        /\ UNCHANGED <<heap, results, done, box, path, accepted, hand>>
        /\ queued' \in SUBSET Ids /\ processing' \in SUBSET Ids
        /\ follow' \in SUBSET Workers
    BY <1>0, <1>2 DEF Register, FileTask, MarkDone, TypeOK
  <2>3. TypeOK'
    BY <1>0, <2>1, <2>2 DEF TypeOK, Threads, Labels
  <2>4. Equipped'
    BY <1>0, <2>1, <2>2 DEF TypeInv, Equipped
  <2> QED BY <2>3, <2>4 DEF TypeInv
<1>3. CASE AsrTask(w)
  <2>1. /\ pc' \in [Threads -> Labels]
        /\ \A q \in Threads : q # w => pc'[q] = pc[q]
    BY <1>0, <1>3, GotoMoves, LabelNames DEF AsrTask
  <2>2. done' \in SUBSET Requests
    BY <1>0, <1>3 DEF AsrTask, TypeInv, TypeOK, Equipped
  <2>3. TypeOK'
    BY <1>0, <1>3, <2>1, <2>2 DEF AsrTask, TypeOK, Threads, Labels
  <2>4. Equipped'
    BY <1>0, <1>3, <2>1 DEF AsrTask, TypeInv, Equipped
  <2> QED BY <2>3, <2>4 DEF TypeInv
<1>4. CASE PutNext(w)
  <2>1. /\ pc' \in [Threads -> Labels]
        /\ \A q \in Threads : q # w => pc'[q] = pc[q]
    BY <1>0, <1>4, GotoMoves, LabelNames DEF PutNext
  <2>2. /\ heap' \in SUBSET Task /\ queued' \in SUBSET Ids
        /\ \A u \in heap' : (u.kind = "asr") <=> (u.container # None)
    BY <1>0, <1>4, PutType, FileTasks DEF PutNext
  <2>3. TypeOK'
    BY <1>0, <1>4, <2>1, <2>2 DEF PutNext, TypeOK, Threads, Labels
  <2>4. Equipped'
    BY <1>0, <1>4, <2>1, <2>2 DEF PutNext, TypeInv, Equipped
  <2> QED BY <2>3, <2>4 DEF TypeInv
<1>5. CASE WorkerDrops(w)
  <2>1. /\ pc' \in [Threads -> Labels] /\ pc'[w] = "idle"
        /\ \A q \in Threads : q # w => pc'[q] = pc[q]
    BY <1>0, <1>5, GotoMoves, LabelNames DEF WorkerDrops
  <2>2. results' \in [Ids -> Requests \cup {None}]
    BY <1>0, <1>5, DropType DEF WorkerDrops
  <2>3. /\ hand' \in [Workers -> Task \cup {None}]
        /\ \A v \in Workers : v # w => hand'[v] = hand[v]
    BY <1>0, <1>5 DEF WorkerDrops, TypeOK
  <2>4. TypeOK'
    BY <1>0, <1>5, <2>1, <2>2, <2>3 DEF WorkerDrops, TypeOK, Threads, Labels
  <2>5. Equipped'
    BY <1>0, <1>5, <2>1, <2>3 DEF WorkerDrops, TypeInv, Equipped
  <2> QED BY <2>4, <2>5 DEF TypeInv
<1> QED BY <1>1, <1>2, <1>3, <1>4, <1>5 DEF Worker

\* TypeInv holds throughout.
LEMMA TypeInvHolds == Spec => []TypeInv
<1>1. Init => TypeInv
  BY QueueAssumption DEF Init, TypeInv, TypeOK, Equipped
<1>2. TypeInv /\ [Next]_vars => TypeInv'
  <2> SUFFICES ASSUME TypeInv, [Next]_vars PROVE TypeInv'
    OBVIOUS
  <2>1. CASE Next
    BY <2>1, RequestType, FeederType, WorkerType DEF Next
  <2>2. CASE UNCHANGED vars
    BY <2>2 DEF vars, TypeInv, TypeOK, Equipped
  <2> QED BY <2>1, <2>2
<1> QED BY <1>1, <1>2, PTL DEF Spec

-----------------------------------------------------------------------------
(***************************************************************************)
(* One owner per task.  _queued is exactly the ids in the heap and of the  *)
(* workers between the pop and the move to _processing; _processing is the *)
(* ids of the workers from there to mark_done.                             *)
(***************************************************************************)

QueuedExact ==
    \A id \in Ids :
        id \in queued <=> \/ \E t \in heap : t.id = id
                          \/ \E w \in Workers : pc[w] = "popped" /\ hand[w].id = id

ProcessingExact ==
    \A id \in Ids :
        id \in processing <=>
            \E w \in Workers : pc[w] \in {"work", "finish"} /\ hand[w].id = id

OwnerInv == QueuedExact /\ ProcessingExact /\ OneOwnerPerTask

\* A step that puts at most one item, and moves no worker to or from the
\* labels at which it holds a task, keeps OwnerInv.
LEMMA PutKeepsOwner ==
    ASSUME TypeInv, OwnerInv, NEW t \in Task,
           Put(t) \/ UNCHANGED <<heap, queued>>,
           processing' = processing,
           \A w \in Workers :
              \/ pc'[w] = pc[w] /\ hand'[w] = hand[w]
              \/ /\ pc[w] \notin {"popped", "work", "finish"}
                 /\ pc'[w] \notin {"popped", "work", "finish"}
    PROVE  OwnerInv'
<1>1. CASE UNCHANGED <<heap, queued>>
  BY <1>1 DEF OwnerInv, QueuedExact, ProcessingExact, OneOwnerPerTask, Holding
<1>2. CASE Put(t) /\ Accepts(t.id)
  <2>1. heap' = heap \cup {t} /\ queued' = queued \cup {t.id} /\ t.id \in Ids
    BY <1>2 DEF Put, Task
  <2>2. t.id \notin queued /\ t.id \notin processing
    BY <1>2 DEF Accepts, IsActive
  <2>3. /\ \A u \in heap : u.id # t.id
        /\ \A w \in Workers : Holding(w) => hand[w].id # t.id
    BY <2>1, <2>2 DEF OwnerInv, QueuedExact, ProcessingExact, Holding
  <2>4. QueuedExact' /\ ProcessingExact'
    BY <2>1 DEF OwnerInv, QueuedExact, ProcessingExact
  <2>5. OneOwnerPerTask'
    BY <2>1, <2>3 DEF OwnerInv, OneOwnerPerTask, Holding
  <2> QED BY <2>4, <2>5 DEF OwnerInv
<1>3. CASE Put(t) /\ ~Accepts(t.id)
  <2>1. UNCHANGED <<heap, queued>>
    BY <1>3 DEF Put
  <2> QED BY <2>1 DEF OwnerInv, QueuedExact, ProcessingExact, OneOwnerPerTask,
                      Holding
<1> QED BY <1>1, <1>2, <1>3

\* Requests and feeders keep OwnerInv.
LEMMA RequestOwner ==
    ASSUME TypeInv, OwnerInv, NEW r \in Requests, Request(r)
    PROVE  OwnerInv'
<1>0. /\ TypeOK /\ r \in Threads
      /\ \A w \in Workers : w \in Threads /\ w # r
      /\ pc[r] # "new" => box[r] \in Requests
  BY QueueAssumption DEF TypeInv, Threads, Equipped
<1>1. \A w \in Workers : pc'[w] = pc[w] /\ hand'[w] = hand[w]
  BY <1>0, GotoMoves, LabelNames
     DEF Request, Attach, PutUpload, Answer, TimeOut, CheckInactive, RequestDrops
<1>2. PICK t \in Task : Put(t) \/ UNCHANGED <<heap, queued>>
  <2>1. CASE PutUpload(r)
    BY <1>0, <2>1, UploadTask DEF PutUpload
  <2>2. CASE ~PutUpload(r)
    BY <2>2, UploadTask
       DEF Request, Attach, Answer, TimeOut, CheckInactive, RequestDrops
  <2> QED BY <2>1, <2>2
<1>3. processing' = processing
  BY DEF Request, Attach, PutUpload, Answer, TimeOut, CheckInactive, RequestDrops
<1> QED BY <1>1, <1>2, <1>3, PutKeepsOwner

\* A feeder's put keeps OwnerInv.
LEMMA FeederOwner ==
    ASSUME TypeInv, OwnerInv, NEW f \in Feeders, Feeder(f)
    PROVE  OwnerInv'
<1>0. /\ TypeOK /\ f \in Threads
      /\ \A w \in Workers : w \in Threads /\ w # f
      /\ pc[f] = "put" => path[f] \in Ids
  BY QueueAssumption DEF TypeInv, Threads, Equipped, Ids
<1>1. \A w \in Workers : pc'[w] = pc[w] /\ hand'[w] = hand[w]
  BY <1>0, GotoMoves, LabelNames DEF Feeder, CheckFile, QueueFile
<1>2. processing' = processing
  BY DEF Feeder, CheckFile, QueueFile
<1>3. CASE UNCHANGED <<heap, queued>>
  BY <1>1, <1>2, <1>3
     DEF OwnerInv, QueuedExact, ProcessingExact, OneOwnerPerTask, Holding
<1>4. CASE ~UNCHANGED <<heap, queued>>
  <2>1. PICK t \in Task : Put(t)
    BY <1>0, <1>4, FileTasks DEF Feeder, CheckFile, QueueFile
  <2> QED BY <1>1, <1>2, <2>1, PutKeepsOwner
<1> QED BY <1>3, <1>4

\* Workers keep OwnerInv: a pop and a move to _processing hand an id on, and
\* mark_done gives it up.
LEMMA WorkerOwner ==
    ASSUME TypeInv, OwnerInv, NEW w \in Workers, Worker(w)
    PROVE  OwnerInv'
<1>0. /\ TypeOK /\ w \in Threads
      /\ \A v \in Workers : v \in Threads
      /\ pc[w] # "idle" => hand[w] \in Task /\ hand[w].id \in Ids
      /\ \A t \in heap : t.id \in Ids
      /\ \A v \in Workers : Holding(v) => hand[v].id \in Ids
  BY DEF TypeInv, TypeOK, Threads, Equipped, Task, Holding
<1>1. CASE Pop(w)
  <2>1. pc[w] = "idle" /\ pc'[w] = "popped"
        /\ \A v \in Workers : v # w => pc'[v] = pc[v]
    BY <1>0, <1>1, GotoMoves, LabelNames DEF Pop
  <2>2. PICK t \in heap : heap' = heap \ {t} /\ hand' = [hand EXCEPT ![w] = t]
    BY <1>1 DEF Pop
  <2>3. hand'[w] = t /\ \A v \in Workers : v # w => hand'[v] = hand[v]
    BY <1>0, <2>2 DEF TypeOK
  <2>4. queued' = queued /\ processing' = processing
    BY <1>1 DEF Pop
  <2>5. QueuedExact'
    BY <1>0, <2>1, <2>2, <2>3, <2>4 DEF OwnerInv, QueuedExact
  <2>6. ProcessingExact'
    BY <2>1, <2>3, <2>4 DEF OwnerInv, ProcessingExact
  <2>7. OneOwnerPerTask'
    BY <2>1, <2>2, <2>3 DEF OwnerInv, OneOwnerPerTask, Holding
  <2> QED BY <2>5, <2>6, <2>7 DEF OwnerInv
<1>2. CASE Register(w)
  <2>1. pc[w] = "popped" /\ pc'[w] = "work"
        /\ \A v \in Workers : v # w => pc'[v] = pc[v]
    BY <1>0, <1>2, GotoMoves, LabelNames DEF Register
  <2>2. /\ heap' = heap /\ hand' = hand
        /\ queued' = queued \ {hand[w].id}
        /\ processing' = processing \cup {hand[w].id}
    BY <1>2 DEF Register
  <2>3. /\ \A v \in Workers : Holding(v) /\ v # w => hand[v].id # hand[w].id
        /\ \A t \in heap : t.id # hand[w].id
    BY <2>1 DEF OwnerInv, OneOwnerPerTask, Holding
  <2>4. QueuedExact'
    BY <1>0, <2>1, <2>2, <2>3 DEF OwnerInv, QueuedExact, Holding
  <2>5. ProcessingExact'
    BY <1>0, <2>1, <2>2 DEF OwnerInv, ProcessingExact
  <2>6. OneOwnerPerTask'
    BY <2>1, <2>2 DEF OwnerInv, OneOwnerPerTask, Holding
  <2> QED BY <2>4, <2>5, <2>6 DEF OwnerInv
<1>3. CASE AsrTask(w) \/ FileTask(w)
  <2>1. pc[w] = "work" /\ pc'[w] = "finish"
        /\ \A v \in Workers : v # w => pc'[v] = pc[v]
    BY <1>0, <1>3, GotoMoves, LabelNames DEF AsrTask, FileTask
  <2>2. UNCHANGED <<heap, hand, queued, processing>>
    BY <1>3 DEF AsrTask, FileTask
  <2> QED BY <2>1, <2>2
          DEF OwnerInv, QueuedExact, ProcessingExact, OneOwnerPerTask, Holding
<1>4. CASE MarkDone(w)
  <2>1. pc[w] = "finish" /\ pc'[w] \in {"follow", "drop"}
        /\ \A v \in Workers : v # w => pc'[v] = pc[v]
    BY <1>0, <1>4, GotoMoves, LabelNames DEF MarkDone
  <2>2. /\ UNCHANGED <<heap, hand, queued>>
        /\ processing' = processing \ {hand[w].id}
    BY <1>4 DEF MarkDone
  <2>3. \A v \in Workers : Holding(v) /\ v # w => hand[v].id # hand[w].id
    BY <2>1 DEF OwnerInv, OneOwnerPerTask, Holding
  <2>4. QueuedExact' /\ OneOwnerPerTask'
    BY <2>1, <2>2 DEF OwnerInv, QueuedExact, OneOwnerPerTask, Holding
  <2>5. ProcessingExact'
    BY <1>0, <2>1, <2>2, <2>3 DEF OwnerInv, ProcessingExact, Holding
  <2> QED BY <2>4, <2>5 DEF OwnerInv
<1>5. CASE PutNext(w)
  <2>1. pc[w] = "follow" /\ pc'[w] = "drop"
        /\ \A v \in Workers : v # w => pc'[v] = pc[v]
    BY <1>0, <1>5, GotoMoves, LabelNames DEF PutNext
  <2>2. PICK t \in Task : Put(t)
    BY <1>0, <1>5, FileTasks DEF PutNext
  <2>3. hand' = hand /\ processing' = processing
    BY <1>5 DEF PutNext
  <2> QED BY <2>1, <2>2, <2>3, PutKeepsOwner
<1>6. CASE WorkerDrops(w)
  <2>1. pc[w] = "drop" /\ pc'[w] = "idle"
        /\ \A v \in Workers : v # w => pc'[v] = pc[v]
    BY <1>0, <1>6, GotoMoves, LabelNames DEF WorkerDrops
  <2>2. UNCHANGED <<heap, queued, processing>>
        /\ \A v \in Workers : v # w => hand'[v] = hand[v]
    BY <1>0, <1>6 DEF WorkerDrops, TypeOK
  <2> QED BY <2>1, <2>2
          DEF OwnerInv, QueuedExact, ProcessingExact, OneOwnerPerTask, Holding
<1> QED BY <1>1, <1>2, <1>3, <1>4, <1>5, <1>6 DEF Worker

\* OwnerInv holds throughout.
LEMMA OwnerInvHolds == Spec => []OwnerInv
<1>1. Init => OwnerInv
  <2> SUFFICES ASSUME Init PROVE OwnerInv
    OBVIOUS
  <2>1. heap = {} /\ queued = {} /\ processing = {}
        /\ \A w \in Workers : pc[w] = "idle"
    BY QueueAssumption DEF Init
  <2> QED BY <2>1
          DEF OwnerInv, QueuedExact, ProcessingExact, OneOwnerPerTask, Holding
<1>2. TypeInv /\ OwnerInv /\ [Next]_vars => OwnerInv'
  <2> SUFFICES ASSUME TypeInv, OwnerInv, [Next]_vars PROVE OwnerInv'
    OBVIOUS
  <2>1. CASE Next
    BY <2>1, RequestOwner, FeederOwner, WorkerOwner DEF Next
  <2>2. CASE UNCHANGED vars
    BY <2>2 DEF vars, OwnerInv, QueuedExact, ProcessingExact, OneOwnerPerTask,
                Holding
  <2> QED BY <2>1, <2>2
<1> QED BY <1>1, <1>2, TypeInvHolds, PTL DEF Spec

\* An id is never worked on twice at once, with any number of workers,
\* uploads and feeders (DeduplicatedQueue, transcription_worker).
THEOREM NoDoubleWork == Spec => []OneOwnerPerTask
BY OwnerInvHolds, PTL DEF OwnerInv

-----------------------------------------------------------------------------
(***************************************************************************)
(* Result containers.  What a task will set, a new request finds: that is  *)
(* inductive together with the same fact for a request that has attached   *)
(* to a container and not put its task yet.                                *)
(***************************************************************************)

AttachedIsKept ==
    \A r \in Requests :
        pc[r] = "put" /\ box[r] \notin done => results[IdOf[r]] = box[r]

AcceptedAfterPut == \A r \in Requests : pc[r] \in {"new", "put"} => r \notin accepted

BoxInv == AttachedIsKept /\ AcceptedAfterPut /\ KeptForRetries /\ AcceptedIsServed

\* The tasks that will still set their container.
LEMMA PendingTasks ==
    ASSUME TypeInv, NEW t
    PROVE  /\ t \in Pending <=>
                 t \in heap \/ \E w \in Workers : pc[w] \in {"popped", "work"}
                                                  /\ hand[w] = t
           /\ t \in Pending =>
                 t \in Task /\ t.id \in Ids /\ (t.kind = "asr" => t.container # None)
<1>1. t \in Pending <=> t \in heap \/ \E w \in Workers :
                          pc[w] \in {"popped", "work"} /\ hand[w] = t
  BY DEF Pending
<1>2. t \in heap => t \in Task /\ (t.kind = "asr" => t.container # None)
  BY DEF TypeInv, TypeOK, Equipped
<1>3. ASSUME NEW w \in Workers, pc[w] \in {"popped", "work"}
      PROVE  hand[w] \in Task /\ (hand[w].kind = "asr" => hand[w].container # None)
  BY <1>3 DEF TypeInv, Equipped
<1>4. t \in Task => t.id \in Ids
  BY DEF Task
<1> QED BY <1>1, <1>2, <1>3, <1>4

\* What a step has to respect to keep BoxInv: results are only replaced when
\* they are empty or done, tasks only leave when they set their container,
\* and what arrives is in order.
LEMMA BoxStep ==
    ASSUME TypeInv, BoxInv, TypeInv', done \subseteq done',
           \A id \in Ids : \/ results'[id] = results[id]
                           \/ results[id] = None
                           \/ results[id] \in done,
           \A t \in Pending' : \/ t \in Pending
                               \/ t.kind # "asr"
                               \/ t.container \in done'
                               \/ results'[t.id] = t.container,
           \A t \in Pending : \/ t \in Pending'
                              \/ t.container \in done'
                              \/ t.container = None,
           \A r \in Requests :
              /\ pc'[r] = "put" => \/ pc[r] = "put" /\ box'[r] = box[r]
                                   \/ results'[IdOf[r]] = box'[r]
              /\ pc'[r] = "wait" /\ r \in accepted' =>
                    \/ pc[r] = "wait" /\ r \in accepted /\ box'[r] = box[r]
                    \/ \E t \in Pending' : t.container = box'[r]
              /\ pc'[r] \in {"new", "put"} => r \notin accepted'
    PROVE  BoxInv'
<1>0. \A r \in Requests : /\ IdOf[r] \in Ids
                          /\ pc[r] \in {"put", "wait"} => box[r] \in Requests
  BY QueueAssumption DEF Ids, TypeInv, Equipped
<1>1. AttachedIsKept'
  <2> SUFFICES ASSUME NEW r \in Requests, pc'[r] = "put", box'[r] \notin done'
               PROVE  results'[IdOf[r]] = box'[r]
    BY DEF AttachedIsKept
  <2>1. CASE pc[r] = "put" /\ box'[r] = box[r]
    <3>1. results[IdOf[r]] = box[r] /\ box[r] \notin done
      BY <2>1 DEF BoxInv, AttachedIsKept
    <3>2. box[r] # None
      BY <1>0, <2>1, QueueAssumption
    <3> QED BY <1>0, <2>1, <3>1, <3>2
  <2> QED BY <2>1
<1>2. KeptForRetries'
  <2> SUFFICES ASSUME NEW t \in Pending', t.kind = "asr", t.container \notin done'
               PROVE  results'[t.id] = t.container
    BY DEF KeptForRetries
  <2>1. CASE t \in Pending
    <3>1. results[t.id] = t.container /\ t.container \notin done
      BY <2>1 DEF BoxInv, KeptForRetries
    <3>2. t.id \in Ids /\ t.container # None
      BY <2>1, PendingTasks
    <3> QED BY <3>1, <3>2
  <2> QED BY <2>1
<1>3. AcceptedIsServed'
  <2> SUFFICES ASSUME NEW r \in Requests, pc'[r] = "wait", r \in accepted',
                      box'[r] \notin done'
               PROVE  \E t \in Pending' : t.container = box'[r]
    BY DEF AcceptedIsServed
  <2>1. CASE pc[r] = "wait" /\ r \in accepted /\ box'[r] = box[r]
    <3>1. PICK t \in Pending : t.container = box[r]
      BY <2>1 DEF BoxInv, AcceptedIsServed
    <3>2. box[r] # None
      BY <1>0, <2>1, QueueAssumption
    <3> QED BY <2>1, <3>1, <3>2
  <2> QED BY <2>1
<1>4. AcceptedAfterPut'
  BY DEF AcceptedAfterPut
<1> QED BY <1>1, <1>2, <1>3, <1>4 DEF BoxInv

\* A put adds its task to the pending ones, or nothing.
LEMMA PutPending ==
    ASSUME TypeInv, TypeInv', NEW t \in Task, Put(t), hand' = hand,
           \A w \in Workers : \/ pc'[w] = pc[w]
                              \/ /\ pc[w] \notin {"popped", "work"}
                                 /\ pc'[w] \notin {"popped", "work"}
    PROVE  Pending' = IF Accepts(t.id) THEN Pending \cup {t} ELSE Pending
<1>1. heap' = IF Accepts(t.id) THEN heap \cup {t} ELSE heap
  BY DEF Put
<1>2. {w \in Workers : pc'[w] \in {"popped", "work"}}
        = {w \in Workers : pc[w] \in {"popped", "work"}}
  OBVIOUS
<1> QED BY <1>1, <1>2 DEF Pending

\* Requests keep BoxInv.
LEMMA RequestBox ==
    ASSUME TypeInv, BoxInv, TypeInv', NEW r \in Requests, Request(r)
    PROVE  BoxInv'
<1>0. /\ TypeOK /\ r \in Threads /\ IdOf[r] \in Ids
      /\ \A w \in Workers : w \in Threads /\ w # r
      /\ \A q \in Requests : q \in Threads /\ IdOf[q] \in Ids
      /\ pc[r] # "new" => box[r] \in Requests
      /\ None \notin Requests
      /\ pc[r] \in {"new", "put"} => r \notin accepted
  BY QueueAssumption
     DEF TypeInv, Threads, Ids, Equipped, BoxInv, AcceptedAfterPut
<1>1. CASE Attach(r)
  <2>1. /\ pc[r] = "new" /\ pc'[r] = "put"
        /\ \A q \in Threads : q # r => pc'[q] = pc[q]
    BY <1>0, <1>1, GotoMoves, LabelNames DEF Attach
  <2>2. /\ results'[IdOf[r]] = box'[r]
        /\ \A id \in Ids : results'[id] = results[id] \/ results[id] = None
        /\ \A q \in Requests : q # r => box'[q] = box[q]
    BY <1>0, <1>1 DEF Attach, TypeOK
  <2>3. UNCHANGED <<heap, hand, done, accepted>>
    BY <1>1 DEF Attach
  <2>4. Pending' = Pending
    BY <1>0, <2>1, <2>3 DEF Pending
  <2> QED BY <1>0, <2>1, <2>2, <2>3, <2>4, BoxStep
          DEF BoxInv, AcceptedAfterPut
<1>2. CASE PutUpload(r)
  <2> DEFINE t == [id |-> IdOf[r], kind |-> "asr", container |-> box[r]]
  <2>1. /\ pc[r] = "put" /\ pc'[r] = "wait"
        /\ \A q \in Threads : q # r => pc'[q] = pc[q]
    BY <1>0, <1>2, GotoMoves, LabelNames DEF PutUpload
  <2>2. /\ UNCHANGED <<hand, results, done, box>> /\ Put(t)
        /\ accepted' = IF Accepts(IdOf[r]) THEN accepted \cup {r} ELSE accepted
    BY <1>2 DEF PutUpload
  <2>3. t \in Task /\ t.id = IdOf[r] /\ t.container = box[r]
    BY <1>0, <2>1, UploadTask
  <2>4. Pending' = IF Accepts(IdOf[r]) THEN Pending \cup {t} ELSE Pending
    <3> HIDE DEF t
    <3> QED BY <1>0, <2>1, <2>2, <2>3, PutPending
  <2>5. t.container \in done' \/ results'[t.id] = t.container
    BY <2>1, <2>2, <2>3 DEF BoxInv, AttachedIsKept
  <2>6. \A q \in Requests : q # r => pc'[q] = pc[q] /\ (q \in accepted' <=> q \in accepted)
    BY <1>0, <2>1, <2>2
  <2>7. \A u \in Pending' : \/ u \in Pending
                            \/ u.container \in done'
                            \/ results'[u.id] = u.container
    BY <2>4, <2>5
  <2>8. r \in accepted' => \E u \in Pending' : u.container = box'[r]
    BY <1>0, <2>1, <2>2, <2>3, <2>4
  <2>9. \A u \in Pending : u \in Pending'
    BY <2>4
  <2> HIDE DEF t
  <2> QED BY <1>0, <2>1, <2>2, <2>6, <2>7, <2>8, <2>9, BoxStep
          DEF BoxInv, AcceptedAfterPut
<1>3. CASE Answer(r) \/ TimeOut(r) \/ CheckInactive(r)
  <2>1. /\ pc'[r] \in {"check", "end", "drop"}
        /\ \A q \in Threads : q # r => pc'[q] = pc[q]
    BY <1>0, <1>3, GotoMoves, LabelNames DEF Answer, TimeOut, CheckInactive
  <2>2. UNCHANGED <<heap, hand, results, done, box, accepted>>
    BY <1>3 DEF Answer, TimeOut, CheckInactive
  <2>3. Pending' = Pending
    BY <1>0, <2>1, <2>2 DEF Pending
  <2> QED BY <1>0, <2>1, <2>2, <2>3, BoxStep DEF BoxInv, AcceptedAfterPut
<1>4. CASE RequestDrops(r)
  <2>1. /\ pc'[r] = "end"
        /\ \A q \in Threads : q # r => pc'[q] = pc[q]
    BY <1>0, <1>4, GotoMoves, LabelNames DEF RequestDrops
  <2>2. UNCHANGED <<heap, hand, done, box, accepted>>
    BY <1>4 DEF RequestDrops
  <2>3. \A id \in Ids : results'[id] = results[id] \/ results[id] \in done
    BY <1>0, <1>4, DropType DEF RequestDrops
  <2>4. Pending' = Pending
    BY <1>0, <2>1, <2>2 DEF Pending
  <2> QED BY <1>0, <2>1, <2>2, <2>3, <2>4, BoxStep DEF BoxInv, AcceptedAfterPut
<1> QED BY <1>1, <1>2, <1>3, <1>4 DEF Request

\* A feeder's task has no container.
LEMMA FeederBox ==
    ASSUME TypeInv, BoxInv, TypeInv', NEW f \in Feeders, Feeder(f)
    PROVE  BoxInv'
<1>0. /\ TypeOK /\ f \in Threads
      /\ \A w \in Workers : w \in Threads /\ w # f
      /\ \A q \in Requests : q \in Threads /\ q # f
      /\ pc[f] = "put" => path[f] \in Ids
  BY QueueAssumption DEF TypeInv, Threads, Equipped, Ids
<1>1. \A q \in Threads : q # f => pc'[q] = pc[q]
  BY <1>0, GotoMoves, LabelNames DEF Feeder, CheckFile, QueueFile
<1>2. UNCHANGED <<hand, results, done, box, accepted>>
  BY DEF Feeder, CheckFile, QueueFile
<1>3. /\ Pending \subseteq Pending'
      /\ \A t \in Pending' : t \in Pending \/ t.kind # "asr"
  <2>1. CASE UNCHANGED <<heap, queued>>
    BY <1>0, <1>1, <1>2, <2>1 DEF Pending
  <2>2. CASE ~UNCHANGED <<heap, queued>>
    <3>1. PICK t \in Task : Put(t) /\ t.kind # "asr"
      BY <1>0, <2>2, FileTasks DEF Feeder, CheckFile, QueueFile
    <3> QED BY <1>0, <1>1, <1>2, <3>1, PutPending
  <2> QED BY <2>1, <2>2
<1> QED BY <1>0, <1>1, <1>2, <1>3, BoxStep DEF BoxInv, AcceptedAfterPut

\* Workers keep BoxInv: a task leaves Pending in the step that sets its
\* container, and only a container that is set is dropped.
LEMMA WorkerBox ==
    ASSUME TypeInv, BoxInv, TypeInv', NEW w \in Workers, Worker(w)
    PROVE  BoxInv'
<1>0. /\ TypeOK /\ w \in Threads
      /\ \A v \in Workers : v \in Threads
      /\ \A q \in Requests : q \in Threads /\ q # w
      /\ pc[w] # "idle" =>
            /\ hand[w] \in Task /\ hand[w].id \in Ids
            /\ (hand[w].kind = "asr") <=> (hand[w].container # None)
  BY QueueAssumption DEF TypeInv, Threads, Equipped, Task
<1>1. \A q \in Threads : q # w => pc'[q] = pc[q]
  BY <1>0, GotoMoves, LabelNames
     DEF Worker, Pop, Register, AsrTask, FileTask, MarkDone, PutNext, WorkerDrops
<1>2. UNCHANGED <<box, accepted>>
  BY DEF Worker, Pop, Register, AsrTask, FileTask, MarkDone, PutNext, WorkerDrops
<1>3. /\ done \subseteq done'
      /\ \A id \in Ids : results'[id] = results[id] \/ results[id] \in done
  <2>1. CASE WorkerDrops(w)
    BY <1>0, <2>1, DropType DEF WorkerDrops
  <2>2. CASE ~WorkerDrops(w)
    BY <2>2 DEF Worker, Pop, Register, AsrTask, FileTask, MarkDone, PutNext
  <2> QED BY <2>1, <2>2
<1>4. /\ \A t \in Pending' : t \in Pending \/ t.kind # "asr"
      /\ \A t \in Pending : \/ t \in Pending'
                            \/ t.container \in done'
                            \/ t.container = None
  <2>1. CASE Pop(w)
    <3>1. pc[w] = "idle" /\ pc'[w] = "popped"
      BY <1>0, <2>1, GotoMoves, LabelNames DEF Pop
    <3>2. PICK t \in heap : heap' = heap \ {t} /\ hand' = [hand EXCEPT ![w] = t]
      BY <2>1 DEF Pop
    <3>3. hand'[w] = t /\ \A v \in Workers : v # w => hand'[v] = hand[v]
      BY <1>0, <3>2 DEF TypeOK
    <3>4. \A u : u \in Pending' <=> u \in Pending
      BY <1>0, <1>1, <3>1, <3>2, <3>3, PendingTasks DEF Pending
    <3> QED BY <3>4
  <2>2. CASE Register(w)
    <3>1. pc[w] = "popped" /\ pc'[w] = "work" /\ hand' = hand /\ heap' = heap
      BY <1>0, <2>2, GotoMoves, LabelNames DEF Register
    <3>2. Pending' = Pending
      BY <1>0, <1>1, <3>1 DEF Pending
    <3> QED BY <3>2
  <2>3. CASE AsrTask(w) \/ FileTask(w)
    <3>1. /\ pc[w] = "work" /\ pc'[w] = "finish" /\ hand' = hand /\ heap' = heap
          /\ hand[w].container \in done' \/ hand[w].kind # "asr"
      BY <1>0, <2>3, GotoMoves, LabelNames DEF AsrTask, FileTask
    <3>2. Pending' \subseteq Pending
      BY <1>0, <1>1, <3>1 DEF Pending
    <3>3. \A u \in Pending : u \in Pending' \/ u = hand[w]
      BY <1>0, <1>1, <3>1 DEF Pending
    <3> QED BY <1>0, <3>1, <3>2, <3>3
  <2>4. CASE MarkDone(w)
    <3>1. /\ pc[w] = "finish" /\ pc'[w] \in {"follow", "drop"}
          /\ hand' = hand /\ heap' = heap
      BY <1>0, <2>4, GotoMoves, LabelNames DEF MarkDone
    <3>2. Pending' = Pending
      BY <1>0, <1>1, <3>1 DEF Pending
    <3> QED BY <3>2
  <2>5. CASE PutNext(w)
    <3>1. pc[w] = "follow" /\ pc'[w] = "drop" /\ hand' = hand
      BY <1>0, <2>5, GotoMoves, LabelNames DEF PutNext
    <3>2. PICK t \in Task : Put(t) /\ t.kind # "asr"
      BY <1>0, <2>5, FileTasks DEF PutNext
    <3> QED BY <1>0, <1>1, <3>1, <3>2, PutPending
  <2>6. CASE WorkerDrops(w)
    <3>1. pc[w] = "drop" /\ pc'[w] = "idle" /\ heap' = heap
      BY <1>0, <2>6, GotoMoves, LabelNames DEF WorkerDrops
    <3>2. \A v \in Workers : v # w => hand'[v] = hand[v]
      BY <1>0, <2>6 DEF WorkerDrops, TypeOK
    <3>3. \A u : u \in Pending' <=> u \in Pending
      BY <1>0, <1>1, <3>1, <3>2 DEF Pending
    <3> QED BY <3>3
  <2> QED BY <2>1, <2>2, <2>3, <2>4, <2>5, <2>6 DEF Worker
<1> QED BY <1>0, <1>1, <1>2, <1>3, <1>4, BoxStep DEF BoxInv, AcceptedAfterPut

\* BoxInv holds throughout.
LEMMA BoxInvHolds == Spec => []BoxInv
<1>1. Init => BoxInv
  <2> SUFFICES ASSUME Init PROVE BoxInv
    OBVIOUS
  <2>1. /\ heap = {} /\ accepted = {}
        /\ \A w \in Workers : pc[w] = "idle"
        /\ \A r \in Requests : pc[r] = "new"
    BY QueueAssumption DEF Init
  <2>2. Pending = {}
    BY <2>1 DEF Pending
  <2> QED BY <2>1, <2>2 DEF BoxInv, AttachedIsKept, AcceptedAfterPut,
                            KeptForRetries, AcceptedIsServed
<1>2. TypeInv /\ BoxInv /\ TypeInv' /\ [Next]_vars => BoxInv'
  <2> SUFFICES ASSUME TypeInv, BoxInv, TypeInv', [Next]_vars PROVE BoxInv'
    OBVIOUS
  <2>1. CASE Next
    BY <2>1, RequestBox, FeederBox, WorkerBox DEF Next
  <2>2. CASE UNCHANGED vars
    BY <2>2 DEF vars, BoxInv, AttachedIsKept, AcceptedAfterPut, KeptForRetries,
                AcceptedIsServed, Pending
  <2> QED BY <2>1, <2>2
<1> QED BY <1>1, <1>2, TypeInvHolds, PTL DEF Spec

\* A request that arrives while an unfinished upload task is queued or being
\* processed finds that task's container in task_results, whatever requests
\* timed out or cleaned up before (cleanup_task_result).
THEOREM RetriesAttach == Spec => []KeptForRetries
BY BoxInvHolds, PTL DEF BoxInv

\* A request whose own put was accepted never waits for a container nobody
\* will set (asr and the OpenAI-compatible endpoints).
THEOREM AcceptedAreServed == Spec => []AcceptedIsServed
BY BoxInvHolds, PTL DEF BoxInv

-----------------------------------------------------------------------------
(***************************************************************************)
(* Clean-up.  A result in task_results is dropped by whoever is last: a    *)
(* request that is not through its finally block, or a worker that has a   *)
(* task of the id, or will have one from the heap.  A container belongs to *)
(* the id of the request it is named by, so that the worker which sets it  *)
(* is the one that looks it up again.                                      *)
(***************************************************************************)

OwnContainers ==
    /\ \A id \in Ids : results[id] # None => IdOf[results[id]] = id
    /\ \A r \in Requests : box[r] # None => IdOf[box[r]] = IdOf[r]
    /\ \A t \in heap : t.container # None => IdOf[t.container] = t.id
    /\ \A w \in Workers : pc[w] # "idle" /\ hand[w].container # None =>
          IdOf[hand[w].container] = hand[w].id

HasTask(w, id) == pc[w] # "idle" /\ hand[w].id = id
IsIn(r) == pc[r] \notin {"new", "end"}

WillDrop(id) ==
    \/ \E t \in heap : t.id = id
    \/ \E w \in Workers : HasTask(w, id)
    \/ \E r \in Requests : IdOf[r] = id /\ IsIn(r)

DropInv == OwnContainers /\ \A id \in Ids : results[id] \in done => WillDrop(id)

\* cleanup_task_result leaves no finished result of its id.
LEMMA DropClears ==
    ASSUME TypeOK, NEW id \in Ids, DropResult(id), done' = done
    PROVE  /\ results'[id] \notin done'
           /\ \A i \in Ids : results'[i] \in {results[i], None}
           /\ \A i \in Ids : results'[i] \in done' => results[i] \in done
BY QueueAssumption DEF DropResult, TypeOK

\* Requests keep DropInv.
LEMMA RequestDrop ==
    ASSUME TypeInv, OwnerInv, DropInv, TypeInv', NEW r \in Requests, Request(r)
    PROVE  DropInv'
<1>0. /\ TypeOK /\ r \in Threads /\ IdOf[r] \in Ids
      /\ \A w \in Workers : w \in Threads /\ w # r
      /\ \A q \in Requests : q \in Threads
      /\ pc[r] # "new" => box[r] \in Requests
      /\ None \notin Requests
  BY QueueAssumption DEF TypeInv, Threads, Ids, Equipped
<1>1. \A q \in Threads : q # r => pc'[q] = pc[q]
  BY <1>0, GotoMoves, LabelNames
     DEF Request, Attach, PutUpload, Answer, TimeOut, CheckInactive, RequestDrops
<1>2. /\ UNCHANGED <<hand, done>> /\ heap \subseteq heap'
      /\ \A w \in Workers : pc'[w] = pc[w]
  BY <1>0, <1>1
     DEF Request, Attach, PutUpload, Put, Answer, TimeOut, CheckInactive,
         RequestDrops
<1>3. CASE Attach(r)
  <2>1. pc'[r] = "put"
    BY <1>0, <1>3, GotoMoves, LabelNames DEF Attach
  <2>2. /\ \A id \in Ids : id # IdOf[r] => results'[id] = results[id]
        /\ results'[IdOf[r]] = IF results[IdOf[r]] = None THEN r ELSE results[IdOf[r]]
        /\ box'[r] = results'[IdOf[r]]
        /\ \A q \in Requests : q # r => box'[q] = box[q]
        /\ heap' = heap
    BY <1>0, <1>3 DEF Attach, TypeOK
  <2>3. OwnContainers'
    BY <1>0, <1>2, <2>2 DEF DropInv, OwnContainers
  <2>4. ASSUME NEW id \in Ids, results'[id] \in done'
        PROVE  WillDrop(id)'
    BY <1>0, <1>1, <1>2, <2>1, <2>2, <2>4 DEF DropInv, WillDrop, HasTask, IsIn
  <2> QED BY <2>3, <2>4 DEF DropInv
<1>4. CASE PutUpload(r)
  <2>1. pc'[r] = "wait" /\ pc[r] = "put"
    BY <1>0, <1>4, GotoMoves, LabelNames DEF PutUpload
  <2>2. /\ UNCHANGED <<results, box>>
        /\ \A t \in heap' :
              t \in heap \/ t = [id |-> IdOf[r], kind |-> "asr", container |-> box[r]]
    BY <1>4 DEF PutUpload, Put
  <2>3. OwnContainers'
    BY <1>0, <1>2, <2>1, <2>2 DEF DropInv, OwnContainers
  <2>4. ASSUME NEW id \in Ids, results'[id] \in done'
        PROVE  WillDrop(id)'
    BY <1>0, <1>1, <1>2, <2>1, <2>2, <2>4 DEF DropInv, WillDrop, HasTask, IsIn
  <2> QED BY <2>3, <2>4 DEF DropInv
<1>5. CASE Answer(r) \/ TimeOut(r) \/ CheckInactive(r)
  <2>1. pc'[r] = "end" => IsActive(IdOf[r])
    BY <1>0, <1>5, GotoMoves, LabelNames DEF Answer, TimeOut, CheckInactive
  <2>2. UNCHANGED <<heap, results, box>> /\ pc'[r] # "new"
    BY <1>0, <1>5, GotoMoves, LabelNames DEF Answer, TimeOut, CheckInactive
  <2>3. OwnContainers'
    BY <1>2, <2>2 DEF DropInv, OwnContainers
  <2>4. ASSUME IsActive(IdOf[r])
        PROVE  \/ \E t \in heap : t.id = IdOf[r]
               \/ \E w \in Workers : HasTask(w, IdOf[r])
    BY <1>0, <2>4 DEF IsActive, OwnerInv, QueuedExact, ProcessingExact, HasTask
  <2>5. ASSUME NEW id \in Ids, results'[id] \in done'
        PROVE  WillDrop(id)'
    BY <1>0, <1>1, <1>2, <2>1, <2>2, <2>4, <2>5 DEF DropInv, WillDrop, HasTask, IsIn
  <2> QED BY <2>3, <2>5 DEF DropInv
<1>6. CASE RequestDrops(r)
  <2>1. UNCHANGED <<heap, box>>
    BY <1>6 DEF RequestDrops
  <2>2. /\ results'[IdOf[r]] \notin done'
        /\ \A i \in Ids : results'[i] \in {results[i], None}
        /\ \A i \in Ids : results'[i] \in done' => results[i] \in done
    BY <1>0, <1>2, <1>6, DropClears DEF RequestDrops
  <2>3. OwnContainers'
    BY <1>2, <2>1, <2>2 DEF DropInv, OwnContainers
  <2>4. ASSUME NEW id \in Ids, results'[id] \in done'
        PROVE  WillDrop(id)'
    BY <1>0, <1>1, <1>2, <2>1, <2>2, <2>4 DEF DropInv, WillDrop, HasTask, IsIn
  <2> QED BY <2>3, <2>4 DEF DropInv
<1> QED BY <1>3, <1>4, <1>5, <1>6 DEF Request

\* Feeders keep DropInv.
LEMMA FeederDrop ==
    ASSUME TypeInv, DropInv, NEW f \in Feeders, Feeder(f)
    PROVE  DropInv'
<1>0. /\ TypeOK /\ f \in Threads
      /\ \A w \in Workers : w \in Threads /\ w # f
      /\ \A q \in Requests : q \in Threads /\ q # f
  BY QueueAssumption DEF TypeInv, Threads
<1>1. \A q \in Threads : q # f => pc'[q] = pc[q]
  BY <1>0, GotoMoves, LabelNames DEF Feeder, CheckFile, QueueFile
<1>2. UNCHANGED <<hand, results, done, box>> /\ heap \subseteq heap'
  BY DEF Feeder, CheckFile, QueueFile, Put
<1>3. \A t \in heap' : t \in heap \/ t.container = None
  BY DEF Feeder, CheckFile, QueueFile, Put
<1>4. OwnContainers'
  BY <1>0, <1>1, <1>2, <1>3 DEF DropInv, OwnContainers
<1>5. ASSUME NEW id \in Ids, results'[id] \in done'
      PROVE  WillDrop(id)'
  BY <1>0, <1>1, <1>2, <1>5 DEF DropInv, WillDrop, HasTask, IsIn
<1> QED BY <1>4, <1>5 DEF DropInv

\* Workers keep DropInv: whoever sets a container holds its id until the
\* clean-up at the end of its loop.
LEMMA WorkerDrop ==
    ASSUME TypeInv, DropInv, TypeInv', NEW w \in Workers, Worker(w)
    PROVE  DropInv'
<1>0. /\ TypeOK /\ w \in Threads
      /\ \A v \in Workers : v \in Threads
      /\ \A q \in Requests : q \in Threads /\ q # w
      /\ pc[w] # "idle" =>
            /\ hand[w] \in Task /\ hand[w].id \in Ids
            /\ (hand[w].kind = "asr") <=> (hand[w].container # None)
      /\ None \notin Requests
  BY QueueAssumption DEF TypeInv, Threads, Equipped, Task
<1>1. /\ \A q \in Threads : q # w => pc'[q] = pc[q]
      /\ box' = box
  BY <1>0, GotoMoves, LabelNames
     DEF Worker, Pop, Register, AsrTask, FileTask, MarkDone, PutNext, WorkerDrops
<1>2. CASE Pop(w)
  <2>1. pc[w] = "idle" /\ pc'[w] = "popped"
    BY <1>0, <1>2, GotoMoves, LabelNames DEF Pop
  <2>2. PICK t \in heap : heap' = heap \ {t} /\ hand' = [hand EXCEPT ![w] = t]
    BY <1>2 DEF Pop
  <2>3. /\ hand'[w] = t /\ \A v \in Workers : v # w => hand'[v] = hand[v]
        /\ UNCHANGED <<results, done>>
    BY <1>0, <1>2, <2>2 DEF Pop, TypeOK
  <2>4. OwnContainers'
    BY <1>0, <1>1, <2>1, <2>2, <2>3 DEF DropInv, OwnContainers
  <2>5. ASSUME NEW id \in Ids, results'[id] \in done'
        PROVE  WillDrop(id)'
    BY <1>0, <1>1, <2>1, <2>2, <2>3, <2>5 DEF DropInv, WillDrop, HasTask, IsIn
  <2> QED BY <2>4, <2>5 DEF DropInv
<1>3. CASE Register(w) \/ FileTask(w) \/ MarkDone(w)
  <2>1. pc[w] # "idle" /\ pc'[w] # "idle"
    BY <1>0, <1>3, GotoMoves, LabelNames DEF Register, FileTask, MarkDone
  <2>2. UNCHANGED <<heap, hand, results, done>>
    BY <1>3 DEF Register, FileTask, MarkDone
  <2>3. OwnContainers'
    BY <1>0, <1>1, <2>1, <2>2 DEF DropInv, OwnContainers
  <2>4. ASSUME NEW id \in Ids, results'[id] \in done'
        PROVE  WillDrop(id)'
    BY <1>0, <1>1, <2>1, <2>2, <2>4 DEF DropInv, WillDrop, HasTask, IsIn
  <2> QED BY <2>3, <2>4 DEF DropInv
<1>4. CASE AsrTask(w)
  <2>1. pc[w] # "idle" /\ pc'[w] # "idle" /\ hand[w].container # None
    BY <1>0, <1>4, GotoMoves, LabelNames DEF AsrTask
  <2>2. UNCHANGED <<heap, hand, results>> /\ done' = done \cup {hand[w].container}
    BY <1>4 DEF AsrTask
  <2>3. OwnContainers'
    BY <1>0, <1>1, <2>1, <2>2 DEF DropInv, OwnContainers
  <2>4. ASSUME NEW id \in Ids, results[id] = hand[w].container
        PROVE  hand[w].id = id
    BY <1>0, <2>1, <2>4 DEF DropInv, OwnContainers
  <2>5. ASSUME NEW id \in Ids, results'[id] \in done'
        PROVE  WillDrop(id)'
    BY <1>0, <1>1, <2>1, <2>2, <2>4, <2>5 DEF DropInv, WillDrop, HasTask, IsIn
  <2> QED BY <2>3, <2>5 DEF DropInv
<1>5. CASE PutNext(w)
  <2>1. pc[w] # "idle" /\ pc'[w] # "idle"
    BY <1>0, <1>5, GotoMoves, LabelNames DEF PutNext
  <2>2. /\ UNCHANGED <<hand, results, done>> /\ heap \subseteq heap'
        /\ \A t \in heap' : t \in heap \/ t.container = None
    BY <1>5 DEF PutNext, Put
  <2>3. OwnContainers'
    BY <1>0, <1>1, <2>1, <2>2 DEF DropInv, OwnContainers
  <2>4. ASSUME NEW id \in Ids, results'[id] \in done'
        PROVE  WillDrop(id)'
    BY <1>0, <1>1, <2>1, <2>2, <2>4 DEF DropInv, WillDrop, HasTask, IsIn
  <2> QED BY <2>3, <2>4 DEF DropInv
<1>6. CASE WorkerDrops(w)
  <2>1. pc[w] = "drop" /\ pc'[w] = "idle"
    BY <1>0, <1>6, GotoMoves, LabelNames DEF WorkerDrops
  <2>2. /\ UNCHANGED <<heap, done>>
        /\ \A v \in Workers : v # w => hand'[v] = hand[v]
    BY <1>0, <1>6 DEF WorkerDrops, TypeOK
  <2>3. /\ results'[hand[w].id] \notin done'
        /\ \A i \in Ids : results'[i] \in {results[i], None}
        /\ \A i \in Ids : results'[i] \in done' => results[i] \in done
    BY <1>0, <1>6, <2>1, <2>2, DropClears DEF WorkerDrops
  <2>4. OwnContainers'
    BY <1>0, <1>1, <2>1, <2>2, <2>3 DEF DropInv, OwnContainers
  <2>5. ASSUME NEW id \in Ids, results'[id] \in done'
        PROVE  WillDrop(id)'
    BY <1>0, <1>1, <2>1, <2>2, <2>3, <2>5 DEF DropInv, WillDrop, HasTask, IsIn
  <2> QED BY <2>4, <2>5 DEF DropInv
<1> QED BY <1>2, <1>3, <1>4, <1>5, <1>6 DEF Worker

\* Once nothing is queued, running or being answered, task_results holds no
\* finished result: the last of the endpoints' and workers' clean-ups of an
\* id finds it, however they interleave (cleanup_task_result).
THEOREM ResultsAreDropped == Spec => []NoResultLeftBehind
<1>1. Init => DropInv
  <2> SUFFICES ASSUME Init PROVE DropInv
    OBVIOUS
  <2>1. /\ heap = {} /\ done = {} /\ results = [id \in Ids |-> None]
        /\ box = [r \in Requests |-> None]
        /\ \A w \in Workers : pc[w] = "idle"
    BY QueueAssumption DEF Init
  <2> QED BY <2>1 DEF DropInv, OwnContainers
<1>2. TypeInv /\ OwnerInv /\ DropInv /\ TypeInv' /\ [Next]_vars => DropInv'
  <2> SUFFICES ASSUME TypeInv, OwnerInv, DropInv, TypeInv', [Next]_vars PROVE DropInv'
    OBVIOUS
  <2>1. CASE Next
    BY <2>1, RequestDrop, FeederDrop, WorkerDrop DEF Next
  <2>2. CASE UNCHANGED vars
    BY <2>2 DEF vars, DropInv, OwnContainers, WillDrop, HasTask, IsIn
  <2> QED BY <2>1, <2>2
<1>3. DropInv => NoResultLeftBehind
  BY DEF DropInv, NoResultLeftBehind, WillDrop, HasTask, IsIn
<1> QED BY <1>1, <1>2, <1>3, TypeInvHolds, OwnerInvHolds, PTL DEF Spec
=============================================================================

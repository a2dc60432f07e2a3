--------------------------- MODULE ResidentWorker ---------------------------
(***************************************************************************)
(* One resident inference worker: the parent side of resident_worker.py    *)
(* with its two backends (cuda_worker.py, whisper_cpp_worker.py), and the  *)
(* child process of cuda_worker_entry.py behind three pipes.               *)
(*                                                                         *)
(* A worker object stands for one residency generation.  Its owner counts  *)
(* the memory of the child against the device until release_confirmed, so  *)
(* the question is whether it may believe it.                              *)
(*                                                                         *)
(* Operations are single-flight (_busy); the deadline and the cancel event *)
(* of an operation may end it at any wait.  The child may answer, report   *)
(* an error, repeat a packet, hang or die.  `commands' holds what was put  *)
(* on _outgoing and its pipe, `answers' what the child wrote and the       *)
(* parent has not yet taken from _incoming.                                *)
(***************************************************************************)
EXTENDS Naturals, Sequences, SequencesExt

CONSTANTS Backends,       \* subset of {"cuda", "native"}
          MaxRequests,    \* bound: chunks asked of one worker
          MaxRepeats      \* bound: packets the child sends twice

VARIABLES backend, w, child, commands, answers

workerVars == <<backend, w, child, commands, answers>>

WorkerInit ==
    /\ backend \in Backends
    /\ w = [op |-> "idle", pc |-> "idle", attempted |-> FALSE, loaded |-> FALSE,
            released |-> FALSE, request |-> 0, stop |-> FALSE,
            threads |-> FALSE]
    /\ child = [state |-> "none", code |-> 0, repeats |-> 0, last |-> 0,
                step |-> "load"]
    /\ commands = <<>>
    /\ answers = <<>>

Spawned == child.state /= "none"
Running == child.state \in {"alive", "killed"}       \* poll() is None
ModelIsLoaded == w.loaded /\ Running

Packet(event, request) == [event |-> event, request |-> request]

(* _busy: no operation starts before the one in progress has ended.        *)
NotBusy == w.pc = "idle"
Idle(v) == [v EXCEPT !.op = "idle", !.pc = "idle"]

---------------------------------------------------------------------------
(* _terminate and _finish_pipes: the steps every failed operation ends in. *)

(* The except block: with no process there is nothing to release.          *)
TerminateFrom(v) ==
    IF Spawned THEN [v EXCEPT !.pc = "kill"]
    ELSE Idle([v EXCEPT !.loaded = FALSE, !.released = TRUE])

Fail == w' = TerminateFrom(w)

Kill ==
    /\ w.pc = "kill"
    /\ child' = [child EXCEPT !.state = IF @ = "alive" THEN "killed" ELSE @]
    /\ w' = [w EXCEPT !.pc = "reap"]
    /\ UNCHANGED <<backend, commands, answers>>

ReapTimedOutAnyway == w' = [w EXCEPT !.pc = "finish", !.stop = TRUE]

(* process.wait(timeout=5): a child that is still there keeps its           *)
(* reservation, and the operation ends with that error.                    *)
ReapTimedOut == w' = Idle(w)

Reap ==
    /\ w.pc = "reap"
    /\ IF Running THEN ReapTimedOut
                  ELSE w' = [w EXCEPT !.pc = "finish", !.stop = TRUE]
    /\ UNCHANGED <<backend, child, commands, answers>>

(* Pipe threads still alive after their second keep the reservation too.   *)
FinishPipes ==
    /\ w.pc = "finish"
    /\ IF w.threads
         THEN /\ w' = Idle(w)
              /\ UNCHANGED <<commands, answers>>
         ELSE /\ w' = Idle([w EXCEPT !.loaded = FALSE, !.released = TRUE])
              /\ commands' = <<>>
              /\ answers' = <<>>
    /\ UNCHANGED <<backend, child>>

(* A pipe thread ends when it next looks at the stop flag, which is not     *)
(* before the read or write it is blocked in returns.                      *)
ThreadsEnd ==
    /\ w.threads
    /\ w.stop
    /\ w' = [w EXCEPT !.threads = FALSE]
    /\ UNCHANGED <<backend, child, commands, answers>>

---------------------------------------------------------------------------
(* The operations, up to the point where they wait for the child. *)

(* _send: one command may wait on _outgoing for the writer thread.         *)
SendOrFail(v, command) ==
    IF Len(commands) < 2
    THEN /\ commands' = Append(commands, command)
         /\ w' = [v EXCEPT !.pc = "receive"]
    ELSE /\ w' = TerminateFrom(v)
         /\ UNCHANGED commands

(* load: a second load of a CUDA worker ends the generation; the native    *)
(* worker refuses it outside the terminating try block, as it does an      *)
(* artifact that fails its verification before the child is created.       *)
LoadRefused ==
    /\ NotBusy
    /\ w.attempted \/ w.released
    /\ backend = "cuda"
    /\ w' = TerminateFrom([w EXCEPT !.op = "load"])
    /\ UNCHANGED <<backend, child, commands, answers>>

LoadUnverified ==
    /\ NotBusy
    /\ ~w.attempted /\ ~w.released
    /\ w' = IF backend = "cuda" THEN TerminateFrom([w EXCEPT !.attempted = TRUE])
                                ELSE [w EXCEPT !.attempted = TRUE]
    /\ UNCHANGED <<backend, child, commands, answers>>

Load ==
    /\ NotBusy
    /\ ~w.attempted /\ ~w.released
    /\ child' = [child EXCEPT !.state = "alive"]
    /\ \/ /\ commands' = <<Packet("load", 0)>>
          /\ w' = [w EXCEPT !.attempted = TRUE, !.op = "load", !.pc = "receive",
                            !.threads = TRUE]
       \/ /\ w' = [w EXCEPT !.attempted = TRUE, !.op = "load",   \* no limits
                            !.pc = "kill"]
          /\ UNCHANGED commands
    /\ UNCHANGED <<backend, answers>>

ObserveMemory ==
    /\ NotBusy
    /\ IF ModelIsLoaded
         THEN SendOrFail([w EXCEPT !.op = "observe"], Packet("observe", 0))
         ELSE Fail /\ UNCHANGED commands
    /\ UNCHANGED <<backend, child, answers>>

Transcribe ==
    /\ NotBusy
    /\ w.request < MaxRequests
    /\ IF ModelIsLoaded
         THEN SendOrFail([w EXCEPT !.op = "transcribe", !.request = @ + 1],
                         Packet("transcribe", w.request + 1))
         ELSE Fail /\ UNCHANGED commands
    /\ UNCHANGED <<backend, child, answers>>

(* The chunk's audio could not be written to the scratch directory.        *)
ChunkUnwritten ==
    /\ NotBusy
    /\ ModelIsLoaded
    /\ Fail
    /\ UNCHANGED <<backend, child, commands, answers>>

Unload ==
    /\ NotBusy
    /\ ~w.released
    /\ IF Spawned THEN SendOrFail([w EXCEPT !.op = "unload"], Packet("unload", 0))
                  ELSE Fail /\ UNCHANGED commands
    /\ UNCHANGED <<backend, child, answers>>

---------------------------------------------------------------------------
(* _check and _receive, and what each operation makes of the packet. *)

(* Cancelled, out of time, a pipe fault, or the end of the child's output. *)
WaitFails ==
    /\ w.pc \in {"receive", "exiting"}
    /\ Fail
    /\ UNCHANGED <<backend, child, commands, answers>>

Expected == [load |-> "ready", observe |-> "memory", unload |-> "released",
             transcribe |-> "result"]

(* A packet of a chunk must carry the number of the request in progress.   *)
Answers(packet) == w.op = "transcribe" => packet.request = w.request

(* The child exits after "released"; its exit code is checked first.       *)
Accept ==
    CASE w.op = "unload" -> w' = [w EXCEPT !.pc = "exiting"]
      [] w.op = "load" -> w' = Idle([w EXCEPT !.loaded = TRUE])
      [] OTHER -> w' = Idle(w)

Receive ==
    /\ w.pc = "receive"
    /\ answers /= <<>>
    /\ answers' = Tail(answers)
    /\ LET packet == Head(answers) IN
       IF Answers(packet) /\ packet.event = Expected[w.op]
       THEN Accept
       ELSE
            /\ IF w.op = "transcribe" /\ Answers(packet) /\ packet.event = "progress"
               THEN UNCHANGED w
               ELSE Fail
    /\ UNCHANGED <<backend, child, commands>>

ExitSeen ==
    /\ w.pc = "exiting"
    /\ ~Running
    /\ w' = [w EXCEPT !.pc = IF child.code = 0 THEN "finish" ELSE "kill",
                      !.stop = @ \/ child.code = 0]
    /\ UNCHANGED <<backend, child, commands, answers>>

---------------------------------------------------------------------------
(* The child: serve of cuda_worker_entry.py. *)

Emit(event, request) == answers' = Append(answers, Packet(event, request))

(* The command this child acts on: load first, requests in order.          *)
ServeCommand ==
    /\ child.state = "alive"
    /\ child.step \in {"load", "ready"}
    /\ commands /= <<>>
    /\ LET command == Head(commands) IN
       \/ /\ child.step = "load"
          /\ command.event = "load"
          /\ Emit("ready", 0)
          /\ child' = [child EXCEPT !.step = "ready"]
       \/ /\ child.step = "ready"
          /\ command.event = "observe"
          /\ Emit("memory", 0)
          /\ UNCHANGED child
       \/ /\ child.step = "ready"
          /\ command.event = "unload"
          /\ Emit("released", 0)
          /\ child' = [child EXCEPT !.step = "leaving"]
       \/ /\ child.step = "ready"
          /\ command.event = "transcribe"
          /\ command.request = child.last + 1
          /\ child' = [child EXCEPT !.step = "inference", !.last = command.request]
          /\ UNCHANGED answers
    /\ commands' = Tail(commands)
    /\ UNCHANGED <<backend, w>>

ChildProgress ==
    /\ child.state = "alive"
    /\ child.step = "inference"
    /\ answers = <<>>
    /\ Emit("progress", child.last)
    /\ UNCHANGED <<backend, w, child, commands>>

ChildResult ==
    /\ child.state = "alive"
    /\ child.step = "inference"
    /\ Emit("result", child.last)
    /\ child' = [child EXCEPT !.step = "ready"]
    /\ UNCHANGED <<backend, w, commands>>

(* The except block of serve: an error packet, release, exit code 1.       *)
ChildError ==
    /\ child.state = "alive"
    /\ child.step /= "leaving"
    /\ Emit("error", child.last)
    /\ child' = [child EXCEPT !.step = "leaving", !.code = 1]
    /\ UNCHANGED <<backend, w, commands>>

(* A child that breaks the contract: it repeats its last packet.           *)
ChildRepeats ==
    /\ child.state = "alive"
    /\ child.repeats < MaxRepeats
    /\ answers /= <<>>
    /\ answers' = Append(answers, Last(answers))
    /\ child' = [child EXCEPT !.repeats = @ + 1]
    /\ UNCHANGED <<backend, w, commands>>

ChildExits ==
    /\ child.state = "alive" /\ child.step = "leaving"
    /\ child' = [child EXCEPT !.state = "gone"]
    /\ UNCHANGED <<backend, w, commands, answers>>

(* Killed by the parent, or dead of itself at any time. *)
ChildDies ==
    /\ Running
    /\ child' = [child EXCEPT !.state = "gone", !.code = 1]
    /\ UNCHANGED <<backend, w, commands, answers>>

WorkerNext ==
    \/ Kill \/ Reap \/ FinishPipes \/ ThreadsEnd
    \/ LoadRefused \/ LoadUnverified \/ Load \/ ObserveMemory \/ Transcribe
    \/ ChunkUnwritten \/ Unload
    \/ WaitFails \/ Receive \/ ExitSeen
    \/ ServeCommand \/ ChildProgress \/ ChildResult \/ ChildError \/ ChildRepeats
    \/ ChildExits \/ ChildDies

WorkerSpec == WorkerInit /\ [][WorkerNext]_workerVars

---------------------------------------------------------------------------
(* release_confirmed can be believed: once a worker says it is released,    *)
(* its child process is gone and no thread of the parent still holds one   *)
(* of its pipes, whatever order the deadlines, the kill and the child's    *)
(* own exit came in.  The owner returns the device memory on this alone    *)
(* (cohort_runtime.py), so a worker that could not be verified dead must   *)
(* keep its reservation.                                                   *)
ReleasedIsGone == w.released => ~Running /\ ~w.threads
=============================================================================

---- MODULE GateObserver ----
(***************************************************************************)
(* The shared-GPU release gate (runtime_gate_observer.run_observer): the   *)
(* observer starts one candidate container, follows it through a forced    *)
(* yield, unload and reload (phase A) and a quiet observation (phase B),   *)
(* stops it, drains every failure source once more and writes the gate     *)
(* document.  The observer knows the candidate only through the journal of *)
(* receipts the candidate appends, through the counters of its host, and   *)
(* through the two artifacts it must or must not create, all of which move *)
(* while the observer reads them.                                          *)
(*                                                                         *)
(* A receipt's time is its place in the journal: "after time n" is "after  *)
(* the n-th receipt was appended".                                         *)
(***************************************************************************)
EXTENDS Naturals, Sequences, FiniteSets

CONSTANTS
    Candidates,     \* whose receipts: "documented" (the plan's) or "runtime" (this commit's)
    MaxReceipts,    \* receipts the candidate may append
    MaxLead,        \* receipts it may append before the observer's wait reads them
    Samples,        \* phase B samples (181 in the code)
    MaxMishaps      \* failures, slips of the candidate, hurts of the journal, and
                    \*   assertions of the priority signal after the first

VARIABLES
    candidate,      \* one of Candidates
    receipts,       \* the journal on disk, in order
    hurt,           \* the journal was replaced, truncated or rewritten
    harm,           \* failures each source has counted since the gate began
    made,           \* creations of each phase's subtitle, and of any marker
    container,      \* the candidate's container
    signal,         \* the priority signal file, and when it was last asserted
    posted,         \* the workloads the observer has posted
    gate,           \* the observer
    mishaps

gateVars == <<candidate, receipts, hurt, harm, made, container, signal, posted, gate, mishaps>>

Works == {"a", "b"}

(* What only the candidate can make grow, and what the host can as well. *)
OfCandidate == {"restart", "cgroup", "log"}
OfHost == {"kernel", "frigate"}
Sources == OfCandidate \cup OfHost

Receipt == [work : Works \cup {"none"}, active : BOOLEAN, chunk : BOOLEAN,
            resident : BOOLEAN, prio : {"clear", "asserted"},
            phase : {"normal", "yielding", "recovering"}, clears : 0..3,
            turns : Nat, loads : Nat, unloads : Nat, done : Nat, bad : Nat]

(* An idle candidate: what the first receipt says. *)
Idle == [work |-> "none", active |-> FALSE, chunk |-> FALSE, resident |-> FALSE,
         prio |-> "clear", phase |-> "normal", clears |-> 3, turns |-> 0, loads |-> 0,
         unloads |-> 0, done |-> 0, bad |-> 0]

(* The runtime's state: the receipt it appended last. *)
Last == IF receipts = <<>> THEN Idle ELSE receipts[Len(receipts)]

NoFailures == [s \in Sources |-> 0]

(* The stages PhaseBLifecycleOrder lets pass once each, in this order. *)
Lifecycle == <<"baseline", "reset_timestamp", "phase_b", "seal", "live_drain", "stop",
               "log_eof", "final_cgroup_drain", "final_kernel_drain",
               "final_receipt_drain", "cgroup_cleanup", "watcher_snapshot",
               "watcher_close", "final_gate_write">>

GateInit ==
    /\ candidate \in Candidates
    /\ receipts = <<>>
    /\ hurt = FALSE
    /\ harm = NoFailures
    /\ made = [a |-> 0, b |-> 0, marker |-> 0]
    /\ container = "created"
    /\ signal = [now |-> "clear", since |-> 0]
    /\ posted = {}
    /\ gate = [pc |-> "start", read |-> 0, events |-> <<>>, base |-> NoFailures,
               bad |-> 0, t0 |-> 0, after |-> 0, reset |-> 0, began |-> 0,
               samples |-> 0, ended |-> 0, stage |-> 0]
    /\ mishaps = 0

------------------------------------------------------------------------------
(* The candidate: every change of its state is a receipt it appends and    *)
(* syncs before the change may go on (external to the observer; the steps  *)
(* are those of runtime_receipts and of the plan's protocol).              *)

Append1(r) ==
    /\ container = "running"
    /\ Len(receipts) < MaxReceipts /\ Len(receipts) < gate.read + MaxLead
    /\ receipts' = Append(receipts, r)
    /\ UNCHANGED <<candidate, hurt, harm, made, container, signal, posted, gate>>

Publish(r) == receipts # <<>> /\ Append1(r) /\ UNCHANGED mishaps

Boot ==
    /\ receipts = <<>>
    /\ Append1(Idle)
    /\ UNCHANGED mishaps

Expected(r) == IF r.done = 0 THEN "a" ELSE "b"

LoadModel ==
    /\ ~Last.resident /\ Last.phase = "normal"
    /\ candidate = "runtime" => Last.active
    /\ Publish([Last EXCEPT !.resident = TRUE, !.loads = @ + 1])

(* The plan's candidate publishes one admission receipt, already inside its *)
(* chunk; the runtime of this commit binds the workload first.             *)
BindWorkload ==
    /\ ~Last.active /\ Last.done < 2 /\ Expected(Last) \in posted
    /\ candidate = "documented" => Last.resident /\ Last.phase = "normal"
    /\ Publish([Last EXCEPT !.work = Expected(Last), !.active = TRUE,
                            !.chunk = candidate = "documented"])

BeginChunk ==
    /\ candidate = "runtime"
    /\ Last.active /\ ~Last.chunk /\ Last.phase = "normal"
    /\ Publish([Last EXCEPT !.chunk = TRUE])

ConsumeAssertion ==
    /\ signal.now = "asserted" /\ Last.prio = "clear"
    /\ Publish([Last EXCEPT !.prio = "asserted", !.phase = "yielding",
                            !.clears = 0, !.turns = @ + 1])

UnwindChunk ==
    /\ Last.phase = "yielding"
    /\ Publish([Last EXCEPT !.chunk = FALSE, !.phase = "recovering"])

UnloadModel ==
    /\ Last.phase = "recovering" /\ Last.resident
    /\ Publish([Last EXCEPT !.resident = FALSE, !.unloads = @ + 1])

CountClear ==
    /\ signal.now = "clear" /\ Last.phase = "recovering"
    /\ Publish([Last EXCEPT !.prio = "clear", !.clears = @ + 1,
                            !.turns = IF Last.prio = "asserted" THEN @ + 1 ELSE @,
                            !.phase = IF Last.clears = 2 THEN "normal" ELSE @])

CompleteWorkload ==
    /\ Last.active /\ Last.resident /\ Last.phase = "normal"
    /\ made[Last.work] = 1
    /\ Publish([Last EXCEPT !.active = FALSE, !.chunk = FALSE, !.done = @ + 1])

(* A new observation of the same state.  Before completion no check tells   *)
(* such a receipt from the one before it, so the model leaves those out.   *)
Heartbeat == Last.done > 0 /\ Publish(Last)

(* The subtitle of the running workload, created before its completion. *)
PublishSubtitle ==
    /\ container = "running" /\ receipts # <<>>
    /\ Last.active /\ Last.phase = "normal" /\ Last.resident /\ made[Last.work] = 0
    /\ Last.work = "a" => Last.unloads = 1
    /\ made' = [made EXCEPT ![Last.work] = 1]
    /\ UNCHANGED <<candidate, receipts, hurt, harm, container, signal, posted, gate, mishaps>>

Over == gate.pc \in {"passed", "failed"}

Mishap == ~Over /\ mishaps < MaxMishaps /\ mishaps' = mishaps + 1

(* What a good candidate never does, at any time: reload and unload behind  *)
(* the observer's back, or count a failure of its own.                     *)
Slip ==
    /\ Mishap /\ receipts # <<>>
    /\ \/ Append1([Last EXCEPT !.resident = ~@,
                               !.loads = IF Last.resident THEN @ ELSE @ + 1,
                               !.unloads = IF Last.resident THEN @ + 1 ELSE @])
       \/ Append1([Last EXCEPT !.bad = @ + 1])

Strike ==
    /\ Mishap
    /\ \/ \E s \in Sources :
            /\ s \in OfCandidate => container = "running"
            /\ harm' = [harm EXCEPT ![s] = @ + 1]
            /\ UNCHANGED <<made, hurt>>
       \/ \E w \in DOMAIN made :
            /\ container = "running"
            /\ made' = [made EXCEPT ![w] = @ + 1]
            /\ UNCHANGED <<harm, hurt>>
       \/ /\ receipts # <<>> /\ ~hurt
          /\ hurt' = TRUE
          /\ UNCHANGED <<harm, made>>
    /\ UNCHANGED <<candidate, receipts, container, signal, posted, gate>>

(* The priority producer.  The gate waits for one assertion; any other is a *)
(* mishap of the run.                                                      *)
Signal ==
    /\ ~Over /\ container = "running"
    /\ \/ /\ signal.now = "clear"
          /\ signal' = [now |-> "asserted", since |-> Len(receipts)]
          /\ IF signal.since = 0 THEN UNCHANGED mishaps ELSE Mishap
       \/ /\ signal.now = "asserted"
          /\ signal' = [signal EXCEPT !.now = "clear"]
          /\ UNCHANGED mishaps
    /\ UNCHANGED <<candidate, receipts, hurt, harm, made, container, posted, gate>>

------------------------------------------------------------------------------
(* What the observer reads. *)

At(pc) == gate.pc = pc

ByGate == UNCHANGED <<candidate, receipts, hurt, harm, made, signal, mishaps>>

(* read_available: the journal must still be the file it was, append-only. *)
ReadAvailable == ~hurt

(* _wait_for_receipt: i is the first of the wanted receipts later than n. *)
FirstAfter(i, n, wanted) == i \in wanted /\ i > n /\ \A j \in wanted : j > n => i <= j

(* One source each: what it counted is what the baseline says. *)
RestartsUnchanged == \A s \in {"restart", "frigate"} : harm[s] = gate.base[s]
LogUnchanged == harm["log"] = gate.base["log"]
KernelUnchanged == harm["kernel"] = gate.base["kernel"]
CgroupUnchanged == harm["cgroup"] = gate.base["cgroup"]

(* capture_gate_failure_deltas: no source may have counted since the base. *)
NoDelta(r) ==
    /\ RestartsUnchanged /\ LogUnchanged /\ KernelUnchanged /\ CgroupUnchanged
    /\ r.bad = gate.bad

(* The status endpoint, the runtime's state now, agrees with the receipt. *)
StatusAgrees(r) == Last = r

Running == container = "running"

(* A host sample: the deltas, and the status must fit the receipt in hand. *)
HostSample(r) == Running /\ NoDelta(r) /\ StatusAgrees(r)

NothingOfB == made.b = 0 /\ made.marker = 0

Reach(stage, read) ==
    /\ Lifecycle[gate.stage + 1] = stage
    /\ gate' = [gate EXCEPT !.stage = @ + 1, !.pc = stage, !.read = read]

Passed(stage) == Reach(stage, gate.read)

------------------------------------------------------------------------------
(* Start. *)

StartCandidate ==
    /\ At("start") /\ container = "created"
    /\ made = [a |-> 0, b |-> 0, marker |-> 0] /\ harm["kernel"] = 0
    /\ container' = "running"
    /\ gate' = [gate EXCEPT !.pc = "open"]
    /\ UNCHANGED posted /\ ByGate

OpenJournal ==
    /\ At("open") /\ Running /\ receipts # <<>> /\ ReadAvailable
    /\ Last.phase = "normal" /\ Last.prio = "clear"
    /\ gate' = [gate EXCEPT !.pc = "baseline_a", !.read = Len(receipts)]
    /\ UNCHANGED <<container, posted>> /\ ByGate

BaselineA ==
    /\ At("baseline_a") /\ Running /\ harm["log"] = 0
    /\ posted' = posted \cup {"a"}
    /\ gate' = [gate EXCEPT !.pc = "events", !.base = harm,
                            !.bad = receipts[gate.read].bad]
    /\ UNCHANGED container /\ ByGate

------------------------------------------------------------------------------
(* Phase A: ten events in a fixed order. *)

Kinds == <<"pre_assertion", "assertion_consumed", "yielded", "unloaded", "unloaded_gpu",
           "clear_1", "clear_2", "clear_3", "reloaded", "completed">>

(* What a wait looks for. *)
Matches(k, r) ==
    CASE k = "pre_assertion" ->
           r.work = "a" /\ r.active /\ r.chunk /\ r.resident /\ r.prio = "clear"
           /\ r.phase = "normal"
      [] k = "assertion_consumed" ->
           r.prio = "asserted" /\ r.active /\ r.chunk /\ r.resident
           /\ r.phase \in {"yielding", "recovering"}
      [] k = "yielded" ->
           r.prio = "asserted" /\ r.active /\ ~r.chunk /\ r.resident
           /\ r.phase = "recovering"
      [] k = "unloaded" ->
           r.prio = "asserted" /\ r.active /\ ~r.chunk /\ ~r.resident
           /\ r.phase = "recovering"
      [] k \in {"clear_1", "clear_2", "clear_3"} ->
           r.work = "a" /\ r.prio = "clear" /\ ~r.resident
           /\ k = <<"clear_1", "clear_2", "clear_3">>[r.clears]
      [] k = "reloaded" ->
           r.work = "a" /\ r.prio = "clear" /\ r.clears = 3 /\ r.resident /\ r.active
      [] k = "completed" ->
           r.work = "a" /\ ~r.active /\ r.done = 1 /\ r.resident

EventReceipt(i) == receipts[gate.events[i].is]

(* _validate_event_equations for the event with index n (from 0). *)
EventFits(n, at, r) ==
    LET first == IF n = 0 THEN r ELSE EventReceipt(1)
        One(b) == IF b THEN 1 ELSE 0
    IN /\ n > 0 => at > gate.events[n].at \/ (n = 4 /\ at = gate.events[n].at)
       /\ r.work = "a"
       /\ r.prio = (IF n \in 1..4 THEN "asserted" ELSE "clear")
       /\ r.clears = CASE n = 0 -> 3 [] n \in 1..4 -> 0 [] n = 5 -> 1 [] n = 6 -> 2
                       [] OTHER -> 3
       /\ CASE n = 1 -> r.phase \in {"yielding", "recovering"}
            [] n \in 2..6 -> r.phase = "recovering"
            [] OTHER -> r.phase = "normal"
       /\ r.resident = (n \in {0, 1, 2, 8, 9})
       /\ r.active = (n # 9)
       /\ r.chunk = (n \in {0, 1})
       /\ <<made.a, made.marker>> = (IF n = 9 THEN <<1, 0>> ELSE <<0, 0>>)
       /\ r.loads = first.loads + One(n >= 8)
       /\ r.unloads = first.unloads + One(n >= 3)
       /\ r.done = first.done + One(n = 9)
       /\ r.turns = first.turns + (IF n = 0 THEN 0 ELSE IF n < 5 THEN 1 ELSE 2)
       /\ r.bad = first.bad

(* One event: wait for its receipt, sample the host while the interval is   *)
(* protected, and hold the event against its equations (those of the first *)
(* wait for T0).                                                           *)
RecordEvent ==
    LET n == Len(gate.events)
        kind == Kinds[n + 1]
        wanted == {j \in DOMAIN receipts : Matches(kind, receipts[j])}
    IN /\ At("events") /\ n \notin {4, 10}
       /\ n = 1 => gate.t0 > 0
       /\ ReadAvailable
       /\ \E i \in DOMAIN receipts :
            /\ FirstAfter(i, gate.after, wanted)
            /\ n \in 0..3 => HostSample(receipts[i])
            /\ n > 0 => EventFits(n, i, receipts[i])
            /\ gate' = [gate EXCEPT !.read = Len(receipts), !.after = i,
                                    !.events = Append(@, [at |-> i, is |-> i])]
       /\ UNCHANGED <<container, posted>> /\ ByGate

(* open_priority_assertion, once the file shows the assertion and no read   *)
(* receipt shows it consumed.                                              *)
OpenAssertion ==
    /\ At("events") /\ Len(gate.events) = 1 /\ gate.t0 = 0
    /\ ReadAvailable
    /\ \A i \in gate.after + 1 .. Len(receipts) : receipts[i].prio # "asserted"
    /\ gate' = [gate EXCEPT !.read = Len(receipts), !.pc = "assertion"]
    /\ UNCHANGED <<container, posted>> /\ ByGate

(* T0 is now, whatever the candidate appended since that read; only then is *)
(* the pre-assertion event held against its equations.                     *)
DefineT0 ==
    /\ At("assertion") /\ signal.now = "asserted"
    /\ signal.since >= gate.events[1].at
    /\ EventFits(0, gate.events[1].at, EventReceipt(1))
    /\ gate' = [gate EXCEPT !.t0 = Len(receipts), !.pc = "events"]
    /\ UNCHANGED <<container, posted>> /\ ByGate

(* Nothing qualifying yet: sample the host with the receipt read last, and  *)
(* look again.                                                             *)
LookAgain ==
    /\ At("assertion") /\ signal.now = "clear"
    /\ HostSample(receipts[gate.read])
    /\ gate' = [gate EXCEPT !.pc = "events"]
    /\ UNCHANGED <<container, posted>> /\ ByGate

(* Event 4 is the host's: the GPU bytes of the candidate now, set against   *)
(* the newest receipt the observer has read, which it does not read again. *)
RecordUnloadedGpu ==
    /\ At("events") /\ Len(gate.events) = 4
    /\ EventFits(4, Len(receipts), receipts[gate.read])
    /\ HostSample(receipts[gate.read])
    /\ gate' = [gate EXCEPT !.events = Append(@, [at |-> Len(receipts),
                                                  is |-> gate.read])]
    /\ UNCHANGED <<container, posted>> /\ ByGate

(* The ten events done, no source may have counted and the subtitle is read. *)
FailureDeltasA ==
    /\ At("events") /\ Len(gate.events) = 10
    /\ Running /\ NoDelta(EventReceipt(10)) /\ made.a > 0
    /\ gate' = [gate EXCEPT !.pc = "seal_a"]
    /\ UNCHANGED <<container, posted>> /\ ByGate

(* verify_phase_a_receipt_bindings: the whole journal up to completion is    *)
(* what the ten events say, with nothing hidden between them.              *)
StageEnd(n) ==
    IF n = 10 THEN gate.events[10].at
    ELSE gate.events[IF n = 4 THEN 6 ELSE n + 1].at - 1

NothingHidden ==
    /\ \A i \in 1 .. gate.events[1].at - 1 :
         /\ receipts[i].work = "none"
         /\ ~receipts[i].active /\ ~receipts[i].chunk
         /\ receipts[i].done = receipts[1].done
         /\ receipts[i].bad = receipts[1].bad
    /\ \A n \in 1..10 \ {5} : \A i \in gate.events[n].at .. StageEnd(n) :
         receipts[i] = EventReceipt(n)

Causal ==
    /\ gate.events[1].at <= signal.since
    /\ gate.t0 < gate.events[2].at
    /\ gate.events[5].at = gate.events[5].is

SealA ==
    /\ At("seal_a")
    /\ NothingHidden /\ Causal
    /\ gate' = [gate EXCEPT !.pc = "idle"]
    /\ UNCHANGED <<container, posted>> /\ ByGate

------------------------------------------------------------------------------
(* Phase B. *)

ClearAndIdle(r) ==
    /\ r.work = "a" /\ ~r.active /\ r.prio = "clear" /\ r.phase = "normal"
    /\ r.clears = 3

(* The idle receipt, then the clear signal, then a receipt that consumed it. *)
IdleAgain ==
    LET AtRest(r) == r.work = "a" /\ ~r.active /\ ~r.chunk /\ r.done = 1
        wanted == {j \in DOMAIN receipts : AtRest(receipts[j])}
    IN /\ At("idle") /\ ReadAvailable
       /\ signal.now = "clear"
       /\ \E i \in DOMAIN receipts :
            /\ FirstAfter(i, gate.events[10].at, wanted)
            /\ gate' = [gate EXCEPT !.pc = "reset", !.read = Len(receipts), !.after = i]
       /\ UNCHANGED <<container, posted>> /\ ByGate

ResetBoundary ==
    /\ At("reset") /\ ReadAvailable
    /\ Running
    /\ posted' = posted \cup {"b"}
    /\ \E i \in DOMAIN receipts :
         /\ FirstAfter(i, gate.after, {j \in DOMAIN receipts : ClearAndIdle(receipts[j])})
         /\ gate' = [gate EXCEPT !.pc = "admit_b", !.read = Len(receipts), !.after = i,
                                 !.base = harm, !.bad = receipts[i].bad,
                                 !.reset = Len(receipts), !.stage = 2]
    /\ UNCHANGED container /\ ByGate

Admitted(r) ==
    /\ r.work = "b" /\ r.active /\ r.prio = "clear" /\ r.phase = "normal" /\ r.resident

AdmitB ==
    /\ At("admit_b") /\ ReadAvailable
    /\ \E i \in DOMAIN receipts :
         /\ FirstAfter(i, gate.after, {j \in DOMAIN receipts : Admitted(receipts[j])})
         /\ gate' = [gate EXCEPT !.pc = "samples", !.read = Len(receipts), !.after = i,
                                 !.began = Len(receipts)]
    /\ UNCHANGED <<container, posted>> /\ ByGate

StableFailures(r, q) == r.done = q.done /\ r.bad = q.bad

Stable(r, q) ==
    /\ r.turns = q.turns /\ r.loads = q.loads /\ r.unloads = q.unloads
    /\ r.done = q.done /\ r.bad = q.bad

Quiet(r) == Admitted(r) /\ r.clears = 3

(* One scheduled sample; a late one aborts the gate, it is never caught up. *)
CaptureSample ==
    /\ At("samples") /\ gate.samples < Samples
    /\ ReadAvailable /\ HostSample(Last) /\ NothingOfB
    /\ Quiet(Last) /\ Stable(Last, receipts[gate.after])
    /\ gate' = [gate EXCEPT !.read = Len(receipts), !.samples = @ + 1,
                            !.pc = IF gate.samples + 1 = Samples THEN "sentinel" ELSE @,
                            !.ended = IF gate.samples + 1 = Samples THEN Len(receipts)
                                      ELSE 0]
    /\ UNCHANGED <<container, posted>> /\ ByGate

(* verify_phase_b_receipt_bindings over the receipts from the end of phase A *)
(* to the first one after the observation.                                 *)
ContinuesPhaseA ==
    LET trace == gate.events[10].at + 1 .. gate.ended
    IN \E admission \in trace :     \* the first receipt of workload b
         /\ receipts[admission].work = "b" /\ receipts[admission].active
         /\ gate.reset < admission /\ admission <= gate.began
         /\ \A i \in trace : i < admission =>
              /\ receipts[i].work = "a" /\ ~receipts[i].active /\ ~receipts[i].chunk
              /\ receipts[i].done = 1
         /\ Stable(receipts[admission], EventReceipt(10))
         /\ \A i \in trace : i >= admission =>
              Quiet(receipts[i]) /\ Stable(receipts[i], receipts[admission])

SealB ==
    /\ At("sentinel") /\ ReadAvailable
    /\ Len(receipts) > gate.ended
    /\ ContinuesPhaseA
    /\ gate' = [gate EXCEPT !.pc = "seal", !.stage = 4, !.read = Len(receipts)]
    /\ UNCHANGED <<container, posted>> /\ ByGate

------------------------------------------------------------------------------
(* Stop, and drain every source once more. *)

LiveDrain ==
    /\ At("seal") /\ ReadAvailable
    /\ Running /\ NoDelta(Last) /\ NothingOfB
    /\ Reach("live_drain", Len(receipts))
    /\ UNCHANGED <<container, posted>> /\ ByGate

(* stop_bound_candidate, then the stopped state is proved. *)
StopCandidate ==
    /\ At("live_drain")
    /\ container' = "stopped"
    /\ Passed("stop")
    /\ UNCHANGED posted /\ ByGate

LogEof ==
    /\ At("stop") /\ container = "stopped"
    /\ RestartsUnchanged /\ LogUnchanged
    /\ Passed("log_eof")
    /\ UNCHANGED <<container, posted>> /\ ByGate

FinalCgroupDrain ==
    /\ At("log_eof") /\ CgroupUnchanged
    /\ Passed("final_cgroup_drain")
    /\ UNCHANGED <<container, posted>> /\ ByGate

FinalKernelDrain ==
    /\ At("final_cgroup_drain") /\ KernelUnchanged
    /\ Passed("final_kernel_drain")
    /\ UNCHANGED <<container, posted>> /\ ByGate

FinalReceiptDrainOfRead ==
    /\ At("final_kernel_drain") /\ receipts[gate.read].bad = gate.bad
    /\ Passed("final_receipt_drain")
    /\ UNCHANGED <<container, posted>> /\ ByGate

FinalReceiptDrain ==
    /\ At("final_kernel_drain") /\ ReadAvailable /\ Last.bad = gate.bad
    /\ Reach("final_receipt_drain", Len(receipts))
    /\ UNCHANGED <<container, posted>> /\ ByGate

CgroupCleanup ==
    /\ At("final_receipt_drain")
    /\ Passed("cgroup_cleanup")
    /\ UNCHANGED <<container, posted>> /\ ByGate

WatcherSnapshot ==
    /\ At("cgroup_cleanup") /\ NothingOfB
    /\ Passed("watcher_snapshot")
    /\ UNCHANGED <<container, posted>> /\ ByGate

FinalGateWrite ==
    /\ At("watcher_snapshot")
    /\ gate' = [gate EXCEPT !.stage = Len(Lifecycle), !.pc = "passed"]
    /\ UNCHANGED <<container, posted>> /\ ByGate

------------------------------------------------------------------------------
(* Any check that fails, any deadline and any signal abort the gate: the   *)
(* candidate is stopped first, and the gate has failed either way.         *)
Abort ==
    /\ gate.pc \notin {"passed", "failed", "killed"}
    /\ container' \in {container, IF container = "running" THEN "stopped" ELSE container}
    /\ gate' = [gate EXCEPT !.pc = IF container' = "running" THEN "killed" ELSE "failed"]
    /\ UNCHANGED posted /\ ByGate

(* The observer's process is gone or could not prove the stop: the unit's   *)
(* ExecStopPost stops the candidate by its immutable identity.             *)
CleanupOnly ==
    /\ At("killed")
    /\ container' = IF container = "running" THEN "stopped" ELSE container
    /\ gate' = [gate EXCEPT !.pc = "failed"]
    /\ UNCHANGED posted /\ ByGate

CandidateStep ==
    \/ Boot \/ LoadModel \/ BindWorkload \/ BeginChunk \/ ConsumeAssertion
    \/ UnwindChunk \/ UnloadModel \/ CountClear \/ CompleteWorkload \/ Heartbeat
    \/ PublishSubtitle \/ Slip

PhaseA ==
    \/ StartCandidate \/ OpenJournal \/ BaselineA \/ RecordEvent \/ OpenAssertion
    \/ DefineT0 \/ LookAgain \/ RecordUnloadedGpu \/ FailureDeltasA \/ SealA

PhaseB ==
    \/ IdleAgain \/ ResetBoundary \/ AdmitB \/ CaptureSample \/ SealB \/ LiveDrain
    \/ StopCandidate \/ LogEof \/ FinalCgroupDrain \/ FinalKernelDrain
    \/ FinalReceiptDrain \/ CgroupCleanup \/ WatcherSnapshot \/ FinalGateWrite

GateNext ==
    CandidateStep \/ Strike \/ Signal \/ PhaseA \/ PhaseB \/ Abort \/ CleanupOnly

GateSpec == GateInit /\ [][GateNext]_gateVars

------------------------------------------------------------------------------
(* A gate that passed missed no failure: from the reset boundary to the     *)
(* candidate's last breath no source of the candidate's own counted one,   *)
(* not even between the last live look and the stop, nothing of phase B    *)
(* was ever created, and the candidate is stopped (run_observer,           *)
(* runtime_gate_observer.py:9080-9150).                                    *)
PassMissedNothing ==
    gate.pc = "passed" =>
        /\ container = "stopped"
        /\ \A s \in OfCandidate : harm[s] = gate.base[s]
        /\ Last.bad = gate.bad
        /\ NothingOfB

(* How often a field changes from the admission of phase A to the end of B. *)
Changes(field) ==
    LET window == gate.events[1].at .. gate.ended
    IN  Cardinality({i \in window : i + 1 \in window
                                   /\ receipts[i][field] # receipts[i + 1][field]})

(* A gate that passed watched exactly one yield: between the admission of   *)
(* phase A and the end of phase B the candidate was asserted once, cleared *)
(* once, unloaded once, reloaded once and completed one workload, however  *)
(* many receipts the observer skipped while it waited for one              *)
(* (verify_phase_a_receipt_bindings and verify_phase_b_receipt_bindings).  *)
PassWatchedOneCycle ==
    gate.pc = "passed" =>
        /\ Changes("prio") = 2
        /\ Changes("resident") = 2
        /\ receipts[gate.ended].done = EventReceipt(1).done + 1
        /\ receipts[gate.ended].bad = EventReceipt(1).bad
=============================================================================

--------------------------- MODULE PrioritySignal ---------------------------
(***************************************************************************)
(* The priority signal: monitor_frigate_priority.py polls Frigate, Ollama  *)
(* and the GPU and publishes a small file; PriorityPressureReader, in the  *)
(* Subgen process, reads it whenever the pressure controller samples.  The *)
(* two share nothing but that file, which may be missing, damaged or put   *)
(* back as it was a while ago, and the producer restarts on its own.       *)
(*                                                                         *)
(* Time is counted in polls of five seconds.  What a probe answers is one  *)
(* of Replies, what the policy folder holds one of PolicyFolders.          *)
(***************************************************************************)
EXTENDS Naturals, Sequences, FiniteSets

CONSTANTS Replies,        \* what one round of probes may meet
          PolicyFolders,  \* what the policy and Frigate config files may hold
          HeartbeatMaxAge, SourceMaxAge,
          MaxTrackedEpochs,
          MaxTime, MaxEpochs, MaxPublications, MaxFaults   \* bounds of the instance

VARIABLES producer,   \* FrigatePriorityMonitor, its evaluator and PolicyStore
          signal,     \* the signal file
          spare,      \* a copy of the file somebody once kept
          reader,     \* PriorityPressureReader
          handed,     \* the observation last handed to the controller
          taken,      \* publications handed out as new
          spent,      \* publications and disturbances so far
          now         \* the host's monotonic clock

prioVars == <<producer, signal, spare, reader, handed, taken, now, spent>>

Missing == [kind |-> "missing"]
Damaged == [kind |-> "damaged"]   \* truncated, altered or replaced while read
Unsafe == [kind |-> "unsafe"]     \* another owner, another mode or not a file
Unavailable == [kind |-> "unavailable"]
Drift == [kind |-> "drift"]
NoSource == [generation |-> 0]
ThisBoot == 1

\* SourceDecision: asserted when it has reasons, otherwise clear or neutral.
Neutral == [reasons |-> {}, clear |-> FALSE]
Clear == [reasons |-> {}, clear |-> TRUE]
Asserted(reasons) == [reasons |-> reasons, clear |-> FALSE]
Union(d, reasons) ==
    IF d.reasons \cup reasons = {} THEN d ELSE Asserted(d.reasons \cup reasons)

FreshEvaluator == [source |-> NoSource, observed |-> 0, cached |-> Neutral,
                   high |-> 0, low |-> 0, skip |-> 0]

\* The monitor process is not running.
Down == [phase |-> "down", epoch |-> 0, sequence |-> 0, identity |-> 0,
         ev |-> FreshEvaluator, decision |-> Neutral, quiet |-> FALSE]

FreshReader == [epoch |-> 0, epochs |-> {}, saturated |-> FALSE, sequence |-> 0,
                generation |-> 0, sourceObserved |-> 0, payload |-> Missing,
                accepted |-> Missing, latched |-> FALSE]

\* A file the previous boot left behind.
OldBoot == [kind |-> "publication", boot |-> 0, epoch |-> 0, sequence |-> 1,
            observed |-> 1, generation |-> 1, sourceObserved |-> 1,
            state |-> "clear", quiet |-> FALSE]

PrioInit ==
    /\ producer = Down
    /\ signal \in {Missing, OldBoot}
    /\ spare = Missing
    /\ reader = FreshReader
    /\ handed = [state |-> "none", new |-> FALSE, of |-> Missing]
    /\ taken = {}
    /\ now = 1 /\ spent = [published |-> 0, faults |-> 0]

----------------------------------------------------------------------------
(* The probes.                                                             *)

\* One bounded HTTP exchange: every refusal, framing error, oversized body
\* and the deadline timer end it as unavailable.
Get(answer) == IF answer.server = "answers" THEN answer.body ELSE Unavailable

\* The body must also be the strict JSON document the endpoint promises.
GetJson(answer) ==
    IF Get(answer).kind = "json" THEN Get(answer) ELSE Unavailable

GetVersion(answer) ==
    IF Get(answer).kind = "text" THEN Get(answer) ELSE Unavailable

\* nvidia-smi, bounded in time and output and killed past either bound.
BoundedCommand(run) == IF run.exits THEN run.row ELSE Unavailable

ParseNvidiaOutput(row) ==
    IF row.kind # "row" THEN Unavailable
    ELSE IF ~row.sameGpu THEN Drift ELSE row

ProbeNvidia(run) == ParseNvidiaOutput(BoundedCommand(run))

ClassifyOllama(answer) ==
    LET list == GetJson(answer)
    IN  IF list = Unavailable THEN Unavailable
        ELSE [kind |-> "ollama", busy |-> list.models]

\* normalize_frigate_source: the sample, or why there is none.
NormalizeFrigateSource(stats, version, nvidia) ==
    IF ~version.pinned THEN Drift
    ELSE IF stats.generation = 0 THEN Unavailable
    ELSE IF ~stats.topology THEN Drift
    ELSE [generation |-> stats.generation, load |-> stats.load, gpu |-> nvidia.mode]

----------------------------------------------------------------------------
(* The policy folder.                                                      *)

ReadPrivatePolicyFile(folder) ==
    IF folder.private THEN [kind |-> "policy", inode |-> folder.inode, raw |-> folder.raw]
    ELSE Drift

\* Well formed, canonical, and the one whose hash the unit was given.
ParsePriorityPolicy(file) == file.raw = "expected"

HashExactConfigFile(folder) == folder.config

\* PolicyStore.load: the first accepted inode is pinned for the process.
LoadPolicy(folder, identity) ==
    LET file == ReadPrivatePolicyFile(folder)
    IN  IF \/ file = Drift
           \/ identity # 0 /\ file.inode # identity
           \/ ~ParsePriorityPolicy(file)
           \/ HashExactConfigFile(folder) # "pinned"
        THEN Drift ELSE file

----------------------------------------------------------------------------
(* FrigatePriorityEvaluator: streaks over distinct Frigate generations.    *)

HasSource(ev) == ev.source # NoSource

ResetStreaks(ev) == [ev EXCEPT !.high = 0, !.low = 0, !.skip = 0]

FailureDropsReasons(ev, reasons) ==
    [ev |-> ResetStreaks(ev), decision |-> ev.cached, silent |-> ~HasSource(ev)]

Failure(ev, reasons) ==
    [ev |-> ResetStreaks(ev), decision |-> Union(ev.cached, reasons),
     silent |-> ~HasSource(ev)]

ImmediateDecision(source) ==
    IF source.load.skips = "many" \/ source.load.stalled \/ source.gpu # "Default"
    THEN Asserted({"degraded"}) ELSE Neutral

Counted(ev, source) ==
    [ev EXCEPT !.skip = IF source.load.skips # "none" THEN @ + 1 ELSE 0,
               !.high = IF source.load.fps = "high" THEN @ + 1 ELSE 0,
               !.low  = IF source.load.ratio = "poor" THEN @ + 1 ELSE 0]

BaseDecision(ev, source) ==
    LET c == Counted(ev, source)
        reasons == ImmediateDecision(source).reasons
                     \cup (IF c.high >= 2 THEN {"busy"} ELSE {})
                     \cup (IF c.low >= 2 \/ c.skip >= 3 THEN {"degraded"} ELSE {})
    IN  IF reasons # {} THEN Asserted(reasons)
        ELSE IF source.load.fps = "low" /\ source.load.ratio = "full" THEN Clear
        ELSE Neutral

Observe(ev, source, at, ollamaReasons) ==
    LET away == "unavailable" \in ollamaReasons
        base == IF away THEN ImmediateDecision(source) ELSE BaseDecision(ev, source)
        kept == IF away THEN ResetStreaks(ev) ELSE Counted(ev, source)
    IN  CASE HasSource(ev) /\ source.generation < ev.source.generation ->
               Failure(ev, ollamaReasons \cup {"unavailable"})
          [] source.generation = ev.source.generation /\ source # ev.source ->
               Failure(ev, ollamaReasons \cup {"unavailable"})
          [] source = ev.source /\ away -> Failure(ev, ollamaReasons)
          [] source = ev.source /\ ~away ->
               [ev |-> ev, decision |-> Union(ev.cached, ollamaReasons), silent |-> FALSE]
          [] OTHER ->
               [ev |-> [kept EXCEPT !.source = source, !.observed = at, !.cached = base],
                decision |-> Union(base, ollamaReasons), silent |-> FALSE]

\* The streaks only matter up to the thresholds they are compared with.
Capped(ev) ==
    LET Cap(n, top) == IF n > top THEN top ELSE n
    IN  [ev EXCEPT !.high = Cap(@, 2), !.low = Cap(@, 2), !.skip = Cap(@, 3)]

\* poll_once after the policy was accepted: all probes run, whichever fails.
Evaluated(ev, reply, at) ==
    LET stats == GetJson(reply.stats)
        version == GetVersion(reply.version)
        nvidia == ProbeNvidia(reply.nvidia)
        ollama == ClassifyOllama(reply.ollama)
        ollamaReasons == IF ollama = Unavailable THEN {"unavailable"}
                         ELSE IF ollama.busy THEN {"busy"} ELSE {}
        failed == {p \in {stats, version, nvidia} : p \in {Unavailable, Drift}}
        source == IF failed = {} THEN NormalizeFrigateSource(stats, version, nvidia)
                  ELSE Unavailable
        refused == IF failed = {} THEN {source} \cap {Unavailable, Drift} ELSE failed
        reasons == {IF p = Drift THEN "drift" ELSE "unavailable" : p \in refused}
    IN  IF refused # {} THEN Failure(ev, reasons \cup ollamaReasons)
        ELSE Observe(ev, source, at, ollamaReasons)

----------------------------------------------------------------------------
(* FrigatePriorityMonitor.                                                 *)

\* prepare() unlinks what an earlier process left; a new random epoch begins.
StartProducer ==
    /\ producer.phase = "down" /\ producer.epoch < MaxEpochs
    /\ signal' = IF signal = Unsafe THEN signal ELSE Missing
    /\ producer' = [Down EXCEPT !.epoch = producer.epoch + 1,
                                !.phase = IF signal = Unsafe THEN "down" ELSE "idle"]
    /\ UNCHANGED <<spare, reader, handed, taken, now, spent>>

\* History only: everything this round met was in order and quiet.
QuietReply(reply) ==
    /\ \A part \in {reply.stats, reply.version, reply.ollama} : part.server = "answers"
    /\ reply.nvidia.exits /\ ~reply.ollama.body.models
    /\ reply.stats.body.load = [fps |-> "low", ratio |-> "full",
                                skips |-> reply.stats.body.load.skips, stalled |-> FALSE]
    /\ reply.stats.body.load.skips # "many"

\* poll_once up to the decision; without any source yet nothing is published.
PollOnce(folder, reply) ==
    LET policy == LoadPolicy(folder, producer.identity)
        result == IF policy = Drift THEN Failure(producer.ev, {"drift"})
                  ELSE Evaluated(producer.ev, reply, now)
    IN  /\ producer.phase = "idle" /\ spent.published < MaxPublications
        /\ producer' = [producer EXCEPT
              !.ev = Capped(result.ev),
              !.identity = IF policy = Drift THEN @ ELSE policy.inode,
              !.decision = result.decision,
              !.quiet = policy # Drift /\ QuietReply(reply),
              !.phase = IF result.silent THEN "idle" ELSE "publishing"]
        /\ UNCHANGED <<signal, spare, reader, handed, taken, now, spent>>

StateOf(decision) ==
    IF decision.reasons # {} THEN "asserted" ELSE IF decision.clear THEN "clear" ELSE "neutral"

\* encode_priority_publication; quiet is history, not part of the file.
EncodePriorityPublication ==
    [kind |-> "publication", boot |-> ThisBoot, epoch |-> producer.epoch,
     sequence |-> producer.sequence + 1, observed |-> now,
     generation |-> producer.ev.source.generation,
     sourceObserved |-> producer.ev.observed,
     state |-> StateOf(producer.decision), quiet |-> producer.quiet]

\* SignalDirectory.publish replaced the file; the directory sync may still fail.
Publish(settled) ==
    /\ producer.phase = "publishing"
    /\ signal # Unsafe
    /\ signal' = EncodePriorityPublication
    /\ spent' = [spent EXCEPT !.published = @ + 1]
    /\ producer' = IF settled
                   THEN [producer EXCEPT !.sequence = @ + 1, !.phase = "idle",
                                         !.decision = Neutral, !.quiet = FALSE]
                   ELSE [Down EXCEPT !.epoch = producer.epoch]
    /\ UNCHANGED <<spare, reader, handed, taken, now>>

\* An unsafe target, a write error, a signal or a crash ends the process.
StopProducer ==
    /\ producer.phase # "down"
    /\ producer' = [Down EXCEPT !.epoch = producer.epoch]
    /\ UNCHANGED <<signal, spare, reader, handed, taken, now, spent>>

\* Somebody keeps a copy of the file.
Keep ==
    /\ signal.kind = "publication" /\ spare # signal
    /\ spare' = signal
    /\ UNCHANGED <<producer, signal, reader, handed, taken, now, spent>>

\* Something damages the file or its mode, removes it or puts the copy back.
Disturb ==
    /\ spent.faults < MaxFaults
    /\ spent' = [spent EXCEPT !.faults = @ + 1]
    /\ signal' \in {Missing, Damaged, Unsafe, spare} \ {signal}
    /\ UNCHANGED <<producer, spare, reader, handed, taken, now>>

Tick ==
    /\ now < MaxTime
    /\ now' = now + 1
    /\ UNCHANGED <<producer, signal, spare, reader, handed, taken, spent>>

----------------------------------------------------------------------------
(* PriorityPressureReader.                                                 *)

\* _default_snapshot: a stable regular private file, or nothing usable.
Snapshot == IF signal.kind = "publication" THEN signal ELSE Damaged

\* _validate_snapshot, _decode and _validate_value, as one verdict.
Readable(p) ==
    /\ p # Damaged
    /\ p.boot = ThisBoot
    /\ p.sourceObserved <= p.observed /\ p.observed <= now
    /\ now - p.observed <= HeartbeatMaxAge
    /\ now - p.sourceObserved <= SourceMaxAge

\* _unavailable latches until an acceptable publication clears it.
Refuse(r) ==
    /\ reader' = [r EXCEPT !.latched = TRUE]
    /\ handed' = [state |-> "unavailable", new |-> FALSE, of |-> Missing]
    /\ UNCHANGED taken

Checkpoint(p) ==
    [reader EXCEPT !.epoch = p.epoch, !.epochs = @ \cup {p.epoch}, !.sequence = p.sequence,
                   !.generation = p.generation, !.sourceObserved = p.sourceObserved,
                   !.payload = p]

AcceptPublication(p) ==
    /\ reader' = [Checkpoint(p) EXCEPT !.accepted = p, !.latched = FALSE]
    /\ handed' = [state |-> p.state, new |-> TRUE, of |-> p]
    /\ taken' = taken \cup {<<p.epoch, p.sequence>>}

RepeatAccepted ==
    /\ handed' = [state |-> reader.accepted.state, new |-> FALSE, of |-> reader.accepted]
    /\ UNCHANGED <<reader, taken>>

\* The epoch may not be taken: its history is full, it was seen, or it is late.
NewEpochRefused(p) ==
    \/ reader.epoch # 0 /\ p.sequence # 1
    \/ p.epoch \in reader.epochs

\* Inside the epoch the source may only move forward, and only with time.
SourceRefused(p) ==
    \/ p.generation < reader.generation
    \/ p.generation = reader.generation /\ p.sourceObserved # reader.sourceObserved
    \/ p.generation > reader.generation /\ p.sourceObserved <= reader.sourceObserved

ReadNewEpoch(p) ==
    CASE NewEpochRefused(p) -> Refuse(reader)
      [] ~NewEpochRefused(p) /\ Cardinality(reader.epochs) >= MaxTrackedEpochs ->
           Refuse([reader EXCEPT !.saturated = TRUE])
      [] OTHER -> IF p.sequence = 1 THEN AcceptPublication(p) ELSE Refuse(Checkpoint(p))

ReadSameSequenceUnlatched(p) ==
    IF p # reader.payload \/ reader.accepted = Missing
    THEN Refuse(reader) ELSE RepeatAccepted

ReadSameSequence(p) ==
    IF p # reader.payload \/ reader.accepted = Missing \/ reader.latched
    THEN Refuse(reader) ELSE RepeatAccepted

ReadNextSequence(p) ==
    IF p.sequence < reader.sequence \/ SourceRefused(p) THEN Refuse(reader)
    ELSE IF p.sequence = reader.sequence + 1 THEN AcceptPublication(p)
    ELSE Refuse(Checkpoint(p))

\* _read_locked: the file and the clock are read once, under the reader's lock.
Read ==
    LET p == Snapshot
    IN  /\ IF reader.saturated \/ ~Readable(p) THEN Refuse(reader)
           ELSE IF p.epoch # reader.epoch THEN ReadNewEpoch(p)
           ELSE IF p.sequence = reader.sequence THEN ReadSameSequence(p)
           ELSE ReadNextSequence(p)
        /\ UNCHANGED <<producer, signal, spare, now, spent>>

----------------------------------------------------------------------------
PrioNext ==
    \/ StartProducer
    \/ \E folder \in PolicyFolders, reply \in Replies : PollOnce(folder, reply)
    \/ \E settled \in BOOLEAN : Publish(settled)
    \/ StopProducer
    \/ Keep
    \/ Disturb
    \/ Tick
    \/ Read

PrioSpec == PrioInit /\ [][PrioNext]_prioVars

----------------------------------------------------------------------------
\* What a reading of the file may hand out.
NewsOnly ==
    Read /\ handed'.state # "unavailable" =>
        IF handed'.new THEN <<handed'.of.epoch, handed'.of.sequence>> \notin taken
        ELSE handed'.of = handed.of

\* Health evidence is never counted twice: whatever files are put back, an
\* observation the reader hands out is either a publication it never handed
\* out before, or the repetition of the very one it handed out last, with no
\* refusal in between (_read_locked, priority_pressure.py:521).
EvidenceIsNews == [][NewsOnly]_prioVars

\* What a reading that says `clear' rests on.
EarnedOnly ==
    Read /\ handed'.state = "clear" =>
        /\ handed'.of.quiet
        /\ handed'.of.sourceObserved <= handed'.of.observed /\ handed'.of.observed <= now
        /\ now - handed'.of.observed <= HeartbeatMaxAge
        /\ now - handed'.of.sourceObserved <= SourceMaxAge

\* Subgen is told that the host is quiet only by a poll in which the policy
\* held, every probe answered and the sample itself was quiet, and, whenever
\* it is told so or told so again, both the heartbeat and the Frigate sample
\* behind it are fresh at that reading, however the polls before failed and
\* whatever was cached (failure, observe, _publish; _validate_value,
\* priority_pressure.py:474-479).
ClearIsEarned == [][EarnedOnly]_prioVars
=============================================================================

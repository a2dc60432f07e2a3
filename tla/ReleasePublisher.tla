-------------------------- MODULE ReleasePublisher --------------------------
(***************************************************************************)
(* The publisher of a release (release_tools/task12.py over adapters.py):  *)
(* it takes a lock ref on GitHub, moves main, creates the version tag,     *)
(* uploads the image, creates the immutable registry version, smoke-tests  *)
(* it anonymously, creates the GitHub release, moves the registry's latest *)
(* and removes the lock.  Every public write is recorded before and after  *)
(* in the receipt journal (ReleaseJournal: an append either happened or    *)
(* did not), and whatever stops it, publish() is called again with the     *)
(* newest checkpoint.  Before it relies on a conditional write it proves   *)
(* on a throw-away reference that the registry honours the condition.      *)
(*                                                                         *)
(* Several publishers may try, each with its own journal; other people     *)
(* may push too, requests may fail, be applied without an answer or be     *)
(* applied late.  One read of the public state is one step.                *)
(***************************************************************************)
EXTENDS Naturals, Sequences

CONSTANTS Publishers,
          Checkouts,                        \* local checkouts a publisher may be started on
          MaxTroubles                       \* bound of the instance

VARIABLES hub,       \* GitHub and the registry
          honours,   \* which conditions the registry honours
          journal,   \* the newest durable checkpoint of each publisher
          proc,      \* the publisher processes
          late,      \* requests that failed but may still be applied
          residue,   \* publishers whose smoke engine holds the pulled image
          seen,      \* history: what was overwritten, updates of latest, dead ends
          bill       \* stops, failed requests and foreign writes so far

releaseVars == <<hub, honours, journal, proc, late, residue, seen, bill>>

NoOne == "nobody"
Absent == "absent"

NoProbe == [stage |-> "none", prior |-> 0, winner |-> 0]
EmptyReference == [holds |-> Absent, etag |-> 0]

\* PublicationCheckpoint; phase is the operation and how far it came.
NoCheckpoint == [phase |-> <<"none", "none">>, object |-> FALSE, acquired |-> FALSE,
                 removed |-> FALSE, smoke |-> FALSE, create |-> NoProbe, cas |-> NoProbe,
                 attempted |-> FALSE, url |-> FALSE, runs |-> 0]
Prepared(runs) == [NoCheckpoint EXCEPT !.phase = <<"prepared", "none">>, !.runs = runs]

NotRunning == [at |-> "down", io |-> "none", op |-> "none", cp |-> NoCheckpoint,
         state |-> [main |-> "none"]]

ReleaseInit ==
    /\ honours \in [create : BOOLEAN, match : BOOLEAN]
    /\ hub = [main |-> "prior", tag |-> Absent, release |-> Absent, blob |-> FALSE,
              manifest |-> FALSE, version |-> Absent, latest |-> "prior", lock |-> NoOne,
              runs |-> 0, create |-> [p \in Publishers |-> EmptyReference],
              cas |-> [p \in Publishers |-> EmptyReference]]
    /\ journal = [p \in Publishers |-> NoCheckpoint]
    /\ proc = [p \in Publishers |-> NotRunning]
    /\ late = {} /\ residue = {}
    /\ seen = [overwritten |-> FALSE, updates |-> 0, stranded |-> FALSE]
    /\ bill = [stops |-> 0, errors |-> 0, foreign |-> 0]

----------------------------------------------------------------------------
(* Reading.                                                                *)

\* build_source_proof and LocalSourceProof.verify: the checkout is the one the
\* intent names, clean, with manual workflows, the exact tag and verified image.
VerifyLocalSources(c) ==
    /\ c.clean /\ c.manualOnly /\ c.ancestry /\ c.tagExact /\ c.notesExact
    /\ c.verifierAccepts /\ c.imageExact

\* read_public_state.
ReadPublicState ==
    [main |-> hub.main, tag |-> hub.tag, release |-> hub.release,
     version |-> hub.version, latest |-> hub.latest, lock |-> hub.lock]

\* _validate_public_components.
ComponentsValid(state) ==
    /\ state.main \in {"prior", "release"}
    /\ state.tag \in {Absent, "ours"} /\ state.release \in {Absent, "ours"}
    /\ state.version \in {Absent, "ours"}
    /\ state.latest \in {"prior", "ours"}

\* _is_final_state.
IsFinalState(state) ==
    /\ state.main = "release" /\ state.tag = "ours" /\ state.release = "ours"
    /\ state.version = "ours" /\ state.latest = "ours" /\ state.lock = NoOne

Untouched(state) ==
    /\ state.main = "prior" /\ state.tag = Absent /\ state.release = Absent
    /\ state.version = Absent /\ state.latest = "prior"

\* _require_lock and the adapter's assert_lock.
HasLock(p) == proc[p].cp.acquired /\ hub.lock = p

\* _verify_retained_probe: verified, and its reference still shows the winner.
Retained(probe, reference) ==
    probe.stage = "verified" /\ reference.holds = "winner" /\ reference.etag = probe.winner

\* _verify_completion_evidence.
EvidenceComplete(p, cp) ==
    cp.smoke /\ Retained(cp.create, hub.create[p]) /\ Retained(cp.cas, hub.cas[p])

----------------------------------------------------------------------------
(* What the journal accepts as the next checkpoint.                        *)

ProbeStages(kind) ==
    IF kind = "create" THEN <<"planned", "seed_armed", "reject_armed", "verified">>
    ELSE <<"planned", "seed_armed", "cas_armed", "stale_armed", "verified">>

StageOf(kind, probe) ==
    IF probe.stage = "none" THEN 0
    ELSE CHOOSE i \in 1 .. Len(ProbeStages(kind)) : ProbeStages(kind)[i] = probe.stage

\* decode_probe: which etags a receipt holds in which stage.
ProbeDecodes(kind, probe) ==
    /\ kind = "create" => probe.prior = 0
    /\ kind = "cas" => (probe.prior # 0) = (StageOf(kind, probe) >= 3)
    /\ (probe.winner # 0) = (StageOf(kind, probe) >= IF kind = "create" THEN 3 ELSE 4)

\* _validate_probe_transition: a stage at a time, and an etag once known stays.
ValidateProbeTransition(kind, before, now) ==
    /\ StageOf(kind, now) \in {StageOf(kind, before), StageOf(kind, before) + 1}
    /\ before.prior # 0 => now.prior = before.prior
    /\ before.winner # 0 => now.winner = before.winner
    /\ before.prior = 0 /\ now.prior # 0 => now.stage = "cas_armed"
    /\ before.winner = 0 /\ now.winner # 0 => now.stage \in {"reject_armed", "stale_armed"}

ValidateInitialCheckpoint(cp) == cp = Prepared(cp.runs)

\* _validate_checkpoint_transition.
ValidateCheckpointTransition(before, now) ==
    /\ ValidateProbeTransition("create", before.create, now.create)
    /\ ValidateProbeTransition("cas", before.cas, now.cas)
    /\ before.smoke => now.smoke
    /\ before.object => now.object
    /\ before.acquired => now.acquired
    /\ before.removed => now.removed
    /\ before.attempted => now.attempted
    /\ before.url => now.url
    /\ now.removed => now.acquired
    /\ now.acquired => now.object

JournalAccepts(before, now) ==
    /\ ProbeDecodes("create", now.create) /\ ProbeDecodes("cas", now.cas)
    /\ IF before = NoCheckpoint THEN ValidateInitialCheckpoint(now)
       ELSE ValidateCheckpointTransition(before, now)

----------------------------------------------------------------------------
(* Process steps.  Ending is publish() raising: nothing runs until the     *)
(* next call.                                                              *)

Journaled(p, cp) == journal' = [journal EXCEPT ![p] = cp]
Unrecorded == UNCHANGED journal
World == UNCHANGED <<hub, honours, late, bill>>
Troubled == bill.stops + bill.errors + bill.foreign < MaxTroubles

Moves(p, at, cp) ==
    proc' = [proc EXCEPT ![p] = [@ EXCEPT !.at = at, !.io = "none", !.op = "none",
                                          !.cp = cp]]

\* Nothing but crashes happened so far, and they may end a call only so.
Undisturbed ==
    /\ bill.errors = 0 /\ bill.foreign = 0 /\ honours.create /\ honours.match
    /\ \A q, r \in Publishers :
          journal[q] # NoCheckpoint /\ journal[r] # NoCheckpoint => q = r
Expected == {"complete", "unresolved", "refused", "residue"}

Ends(p, why) ==
    /\ proc' = [proc EXCEPT ![p] = NotRunning]
    /\ seen' = [seen EXCEPT !.stranded = @ \/ (Undisturbed /\ why \notin Expected)]

\* publish() on the first call: the set of hosted runs is taken twice, and
\* nothing of the release may exist yet.
PublishFresh(p, c) ==
    LET state == ReadPublicState
        cp == Prepared(hub.runs)
    IN  /\ proc[p].at = "down" /\ journal[p] = NoCheckpoint
        /\ World
        /\ IF VerifyLocalSources(c) /\ ComponentsValid(state) /\ state.lock = NoOne /\ Untouched(state)
           THEN Journaled(p, cp) /\ Moves(p, "lock_object", cp) /\ UNCHANGED seen
           ELSE Unrecorded /\ UNCHANGED <<proc, seen>>

RemovalPhases == {<<"lock_ref_remove", s>> : s \in {"pending", "ambiguous", "written"}}
AcquirePhases == {<<"lock_ref_create", s>> : s \in {"pending", "ambiguous", "written"}}

\* A resumed publisher that takes its own lock ref for somebody else's.
PublishRecoveryForgetful(p, c) ==
    LET cp == journal[p]
    IN  /\ proc[p].at = "down" /\ cp # NoCheckpoint /\ cp.phase # <<"complete", "none">>
        /\ World /\ Unrecorded
        /\ IF cp.acquired /\ hub.lock = p THEN Moves(p, "main", cp) /\ UNCHANGED seen
           ELSE IF hub.lock = NoOne /\ ~cp.acquired
           THEN /\ UNCHANGED seen
                /\ Moves(p, IF cp.object THEN "lock_ref" ELSE "lock_object", cp)
           ELSE Ends(p, "lock_foreign")

\* publish() on a recovery.
PublishRecovery(p, c) ==
    LET state == ReadPublicState
        cp == journal[p]
        done == [cp EXCEPT !.removed = TRUE, !.phase = <<"complete", "none">>]
        reconciled == [cp EXCEPT !.acquired = TRUE, !.phase = <<"lock_ref_create", "reconciled">>]
    IN  /\ proc[p].at = "down" /\ cp # NoCheckpoint
        /\ World
        /\ CASE ~VerifyLocalSources(c) \/ ~ComponentsValid(state) \/ hub.runs # cp.runs ->
                  Unrecorded /\ Ends(p, "refused")
             [] OTHER ->
                IF state.lock = NoOne /\ IsFinalState(state)
                     /\ (cp.removed \/ cp.phase \in RemovalPhases)
                THEN IF EvidenceComplete(p, cp) THEN Journaled(p, done) /\ Ends(p, "complete")
                     ELSE Unrecorded /\ Ends(p, "evidence")
                ELSE IF cp.removed THEN Unrecorded /\ Ends(p, "lock_missing")
                ELSE IF cp.acquired
                THEN IF state.lock = p
                     THEN Unrecorded /\ Moves(p, "main", cp) /\ UNCHANGED seen
                     ELSE Unrecorded /\ Ends(p, "lock_missing")
                ELSE IF state.lock = NoOne
                THEN /\ Unrecorded /\ UNCHANGED seen
                     /\ Moves(p, IF cp.object THEN "lock_ref" ELSE "lock_object", cp)
                ELSE IF state.lock = p /\ cp.object /\ cp.phase \in AcquirePhases
                THEN Journaled(p, reconciled) /\ Moves(p, "main", reconciled) /\ UNCHANGED seen
                ELSE Unrecorded /\ Ends(p, "lock_foreign")

----------------------------------------------------------------------------
(* _public_write, in four steps.                                           *)

\* The stage publish() is in after each operation was written.
After(op) ==
    CASE op = "lock_object_create" -> "have_object"
      [] op = "lock_ref_create" -> "have_lock"
      [] op = "main_fast_forward" -> "main_moved"
      [] op = "version_tag_object_create" -> "tag_ref"
      [] op = "version_tag_ref_create" -> "tag_made"
      [] op = "blob_upload_start" -> "have_url"
      [] op = "blob_upload_finish" -> "blob_made"
      [] op = "manifest_put" -> "manifest_made"
      [] op = "create_probe_seed" -> "create_probe"
      [] op = "create_probe_reject" -> "create_rejected"
      [] op = "version_create" -> "version_made"
      [] op = "release_create" -> "release_made"
      [] op = "cas_probe_seed" -> "cas_probe"
      [] op = "cas_probe_cas" -> "cas_probe"
      [] op = "cas_probe_stale" -> "cas_rejected"
      [] op = "latest_update" -> "latest_made"
      [] op = "lock_ref_remove" -> "lock_gone"

WritePending(p, op, cp) ==
    LET pending == [cp EXCEPT !.phase = <<op, "pending">>]
    IN  /\ Journaled(p, pending)
        /\ proc' = [proc EXCEPT ![p] = [@ EXCEPT !.cp = pending, !.op = op, !.io = "pending"]]
        /\ UNCHANGED seen

LockOps == {"lock_object_create", "lock_ref_create"}

\* The hosted runs and, past its acquisition, the lock are checked again.
WriteChecked(p) ==
    LET w == proc[p]
        blocked == [w.cp EXCEPT !.phase = <<w.op, "blocked">>]
    IN  /\ w.io = "pending" /\ World
        /\ IF hub.runs = w.cp.runs /\ (w.op \in LockOps \/ HasLock(p))
           THEN proc' = [proc EXCEPT ![p].io = "checked"] /\ Unrecorded /\ UNCHANGED seen
           ELSE Journaled(p, blocked) /\ Ends(p, "blocked")

\* What the servers make of a request: the new public state, and whether the
\* adapter method returns (201, or 412 with the wanted content settled).
Overwrite(reference, content) == [holds |-> content, etag |-> reference.etag + 1]

\* A conditional write of a probe reference, honoured or not (201 or 412; what
\* the reference shows afterwards tells the two apart).
Probe(reference, content, matches, honoured) ==
    IF matches \/ ~honoured THEN Overwrite(reference, content) ELSE reference

ProbeWrite(p, op) ==
    LET c == hub.create[p]
        x == hub.cas[p]
    IN  CASE op = "create_probe_seed" -> Probe(c, "winner", c.holds = Absent, honours.create)
          [] op = "create_probe_reject" -> Probe(c, "rejected", c.holds = Absent, honours.create)
          [] op = "cas_probe_seed" -> Probe(x, "prior", x.holds = Absent, honours.create)
          [] op = "cas_probe_cas" ->
               Probe(x, "winner", x.etag = proc[p].cp.cas.prior, honours.match)
          [] op = "cas_probe_stale" ->
               Probe(x, "rejected", x.etag = proc[p].cp.cas.prior, honours.match)

ProbeOps == {"create_probe_seed", "create_probe_reject", "cas_probe_seed",
             "cas_probe_cas", "cas_probe_stale"}

Applied(p, op) ==
    CASE op = "lock_ref_create" -> IF hub.lock = NoOne THEN [hub EXCEPT !.lock = p] ELSE hub
      [] op = "lock_ref_remove" -> IF hub.lock = p THEN [hub EXCEPT !.lock = NoOne] ELSE hub
      [] op = "main_fast_forward" ->
           IF hub.main = "prior" THEN [hub EXCEPT !.main = "release"] ELSE hub
      [] op = "version_tag_ref_create" ->
           IF hub.tag = Absent THEN [hub EXCEPT !.tag = "ours"] ELSE hub
      [] op = "blob_upload_finish" -> [hub EXCEPT !.blob = TRUE]
      [] op = "manifest_put" -> [hub EXCEPT !.manifest = TRUE]
      [] op = "release_create" ->
           IF hub.release = Absent THEN [hub EXCEPT !.release = "ours"] ELSE hub
      [] op = "version_create" ->
           IF hub.version = Absent \/ ~honours.create THEN [hub EXCEPT !.version = "ours"] ELSE hub
      [] op = "latest_update" ->
           IF hub.latest = "prior" \/ ~honours.match THEN [hub EXCEPT !.latest = "ours"] ELSE hub
      [] op \in {"create_probe_seed", "create_probe_reject"} ->
           [hub EXCEPT !.create[p] = ProbeWrite(p, op)]
      [] op \in {"cas_probe_seed", "cas_probe_cas", "cas_probe_stale"} ->
           [hub EXCEPT !.cas[p] = ProbeWrite(p, op)]
      [] OTHER -> hub

Accepted(p, op) ==
    CASE op = "lock_ref_create" -> hub.lock = NoOne
      [] op = "lock_ref_remove" -> hub.lock = p
      [] op = "main_fast_forward" -> hub.main # "foreign"
      [] op = "version_tag_ref_create" -> hub.tag = Absent
      [] op = "release_create" -> hub.release = Absent
      [] op = "version_create" -> Applied(p, op).version = "ours"
      [] op = "latest_update" -> Applied(p, op).latest = "ours"
      [] OTHER -> TRUE

\* History of a write that reached the servers.
Noted(p, op) ==
    [seen EXCEPT
       !.overwritten = \/ @
                       \/ hub.version = "foreign" /\ Applied(p, op).version = "ours"
                       \/ hub.latest = "foreign" /\ Applied(p, op).latest = "ours"]

Counted(history, op) ==
    [history EXCEPT !.updates = IF op = "latest_update" THEN @ + 1 ELSE @]

\* update_latest reads the tag it will write against first.
IdentifyLatest(p) ==
    /\ proc[p].io = "checked" /\ proc[p].op = "latest_update"
    /\ proc' = [proc EXCEPT ![p].io = IF hub.latest = "prior" THEN "identified" ELSE "failed"]
    /\ World /\ Unrecorded /\ UNCHANGED seen

Sendable(p) ==
    IF proc[p].op = "latest_update" THEN proc[p].io = "identified" ELSE proc[p].io = "checked"

WriteSent(p) ==
    LET op == proc[p].op
    IN  /\ Sendable(p)
        /\ hub' = Applied(p, op)
        /\ seen' = Counted(Noted(p, op), op)
        /\ proc' = [proc EXCEPT ![p].io = IF Accepted(p, op) THEN "answered" ELSE "failed"]
        /\ Unrecorded /\ UNCHANGED <<honours, late, bill>>

\* No answer: the request was applied, is still on its way or is lost.
WriteUnanswered(p) ==
    LET op == proc[p].op
    IN  /\ Sendable(p) /\ Troubled
        /\ bill' = [bill EXCEPT !.errors = @ + 1]
        /\ proc' = [proc EXCEPT ![p].io = "failed"]
        /\ \/ hub' = Applied(p, op) /\ seen' = Counted(Noted(p, op), op) /\ UNCHANGED late
           \/ /\ op \notin ProbeOps /\ late' = late \cup {<<p, op>>}
              /\ seen' = Counted(seen, op) /\ UNCHANGED hub
           \/ seen' = Counted(seen, op) /\ UNCHANGED <<hub, late>>
        /\ Unrecorded /\ UNCHANGED honours

WriteSettled(p) ==
    LET w == proc[p]
        written == [w.cp EXCEPT !.phase = <<w.op, "written">>]
        ambiguous == [w.cp EXCEPT !.phase = <<w.op, "ambiguous">>]
    IN  /\ w.io \in {"answered", "failed"} /\ World
        /\ IF w.io = "failed" \/ hub.runs # w.cp.runs
           THEN Journaled(p, ambiguous) /\ Ends(p, "ambiguous")
           ELSE /\ Journaled(p, written) /\ UNCHANGED seen
                /\ proc' = [proc EXCEPT ![p] = [@ EXCEPT !.cp = written, !.io = "none",
                                                         !.op = "none", !.at = After(w.op)]]

----------------------------------------------------------------------------
(* The order of publish().                                                 *)

At(p, at) == proc[p].at = at /\ proc[p].io = "none"

\* A stage that needs the lock and either goes on or begins a write.
Stage(p, at, todo, op, next) ==
    /\ At(p, at) /\ World
    /\ IF ~HasLock(p) THEN Unrecorded /\ Ends(p, "lock_missing")
       ELSE IF todo THEN WritePending(p, op, proc[p].cp)
       ELSE Unrecorded /\ Moves(p, next, proc[p].cp) /\ UNCHANGED seen

\* A stage that reads the public state again, checks it and goes on.
Reread(p, at, wanted, next) ==
    LET state == ReadPublicState
    IN  /\ At(p, at) /\ World /\ Unrecorded
        /\ IF ComponentsValid(state) /\ wanted
           THEN /\ UNCHANGED seen
                /\ proc' = [proc EXCEPT ![p] = [@ EXCEPT !.at = next, !.state = state]]
           ELSE Ends(p, "not_exact")

\* A stage that looks at one thing only and goes on with the state it has.
Confirms(p, at, wanted, next) ==
    /\ At(p, at) /\ World /\ Unrecorded
    /\ IF wanted THEN Moves(p, next, proc[p].cp) /\ UNCHANGED seen ELSE Ends(p, "not_exact")

\* A stage that only records the checkpoint anew.
Notes(p, at, cp, next) ==
    At(p, at) /\ World /\ Journaled(p, cp) /\ Moves(p, next, cp) /\ UNCHANGED seen

LockObjectCreate(p) ==
    /\ At(p, "lock_object") /\ World
    /\ WritePending(p, "lock_object_create", proc[p].cp)

HaveObjectUnrecorded(p) == Notes(p, "have_object", proc[p].cp, "lock_ref")

HaveObject(p) == Notes(p, "have_object", [proc[p].cp EXCEPT !.object = TRUE], "lock_ref")

LockRefCreate(p) ==
    /\ At(p, "lock_ref") /\ World
    /\ IF ComponentsValid(ReadPublicState) /\ hub.lock = NoOne
       THEN WritePending(p, "lock_ref_create", proc[p].cp)
       ELSE Unrecorded /\ Ends(p, "lock_foreign")

HaveLock(p) ==
    LET cp == [proc[p].cp EXCEPT !.acquired = TRUE]
    IN  /\ At(p, "have_lock") /\ World
        /\ IF hub.lock = p THEN Journaled(p, cp) /\ Moves(p, "main", cp) /\ UNCHANGED seen
           ELSE Unrecorded /\ Ends(p, "lock_missing")

MainFastForward(p) ==
    \/ Reread(p, "main", TRUE, "main_read")
    \/ Stage(p, "main_read", proc[p].state.main = "prior", "main_fast_forward", "tag")
    \/ Reread(p, "main_moved", hub.main = "release", "tag")

VersionTag(p) ==
    \/ Stage(p, "tag", proc[p].state.tag = Absent, "version_tag_object_create", "blob")
    \/ At(p, "tag_ref") /\ World /\ WritePending(p, "version_tag_ref_create", proc[p].cp)
    \/ Reread(p, "tag_made", hub.tag = "ours", "blob")

RegistryBlob(p) ==
    \/ Stage(p, "blob", ~hub.blob, IF proc[p].cp.url THEN "blob_upload_finish"
                                   ELSE "blob_upload_start", "manifest")
    \/ Notes(p, "have_url", [proc[p].cp EXCEPT !.url = TRUE], "blob_send")
    \/ At(p, "blob_send") /\ World /\ WritePending(p, "blob_upload_finish", proc[p].cp)
    \/ Confirms(p, "blob_made", hub.blob, "manifest")

RegistryManifest(p) ==
    \/ Stage(p, "manifest", ~hub.manifest, "manifest_put", "version")
    \/ Confirms(p, "manifest_made", hub.manifest, "version")

\* The immutable version, behind the create probe.
RegistryVersion(p) ==
    \/ /\ At(p, "version") /\ World /\ Unrecorded
       /\ IF ~HasLock(p) THEN Ends(p, "lock_missing")
          ELSE /\ Moves(p, IF proc[p].state.version = Absent THEN "create_probe" ELSE "retained",
                        proc[p].cp)
               /\ UNCHANGED seen
    \/ Stage(p, "version_create", TRUE, "version_create", "none")
    \/ Reread(p, "version_made", hub.version = "ours", "retained")
    \/ Confirms(p, "retained", Retained(proc[p].cp.create, hub.create[p]), "smoke")

\* A probe's receipt moves to its next stage.
Armed(p, kind, probe) == [proc[p].cp EXCEPT ![kind] = probe, !.phase = <<kind, probe.stage>>]

\* _run_version_create_probe, by the stage its receipt is in.
CreateProbe(p) ==
    LET cp == proc[p].cp
        probe == cp.create
        reference == hub.create[p]
        Arm(next) == Journaled(p, Armed(p, "create", next))
                     /\ Moves(p, "create_probe", Armed(p, "create", next)) /\ UNCHANGED seen
    IN  /\ At(p, "create_probe") /\ World
        /\ CASE probe.stage = "none" -> Arm([probe EXCEPT !.stage = "planned"])
             [] probe.stage = "planned" /\ reference.holds = Absent ->
                  Arm([probe EXCEPT !.stage = "seed_armed"])
             [] probe.stage = "seed_armed" /\ reference.holds = Absent /\ HasLock(p) ->
                  WritePending(p, "create_probe_seed", cp)
             [] probe.stage = "seed_armed" /\ reference.holds = "winner" ->
                  Arm([probe EXCEPT !.stage = "reject_armed", !.winner = reference.etag])
             [] probe.stage = "reject_armed" /\ reference.holds = "winner"
                  /\ reference.etag = probe.winner /\ HasLock(p) ->
                  WritePending(p, "create_probe_reject", cp)
             [] probe.stage = "verified" /\ Retained(probe, reference) ->
                  Unrecorded /\ Moves(p, "version_create", cp) /\ UNCHANGED seen
             [] OTHER -> Unrecorded /\ Ends(p, "probe")

CreateRejectedTrusted(p) ==
    LET next == Armed(p, "create", [proc[p].cp.create EXCEPT !.stage = "verified"])
    IN  /\ At(p, "create_rejected") /\ World
        /\ Journaled(p, next) /\ Moves(p, "version_create", next) /\ UNCHANGED seen

\* The second create must have been refused and have changed nothing.
CreateRejected(p) ==
    LET probe == proc[p].cp.create
        next == Armed(p, "create", [probe EXCEPT !.stage = "verified"])
    IN  /\ At(p, "create_rejected") /\ World
        /\ IF hub.create[p] = [holds |-> "winner", etag |-> probe.winner]
           THEN Journaled(p, next) /\ Moves(p, "version_create", next) /\ UNCHANGED seen
           ELSE Unrecorded /\ Ends(p, "probe")

\* run_smoke: on an engine with no image at all, the image is pulled anonymously
\* and compared, and removed again whatever the comparison said.
SmokePull(p) ==
    /\ At(p, "smoke") /\ World /\ Unrecorded
    /\ CASE HasLock(p) /\ p \in residue -> Ends(p, "residue") /\ UNCHANGED residue
         [] HasLock(p) /\ p \notin residue /\ hub.version = "ours" ->
              /\ Moves(p, "smoke_pulled", proc[p].cp) /\ UNCHANGED seen
              /\ residue' = residue \cup {p}
         [] OTHER -> Ends(p, "smoke") /\ UNCHANGED residue

SmokeDelete(p) ==
    /\ At(p, "smoke_pulled") /\ World /\ Unrecorded
    /\ Moves(p, "smoke_done", proc[p].cp) /\ UNCHANGED seen
    /\ residue' = residue \ {p}

SmokeRecord(p) ==
    LET cp == [proc[p].cp EXCEPT !.smoke = TRUE, !.phase = <<"smoke", "verified">>]
    IN  Notes(p, "smoke_done", cp, "release") /\ UNCHANGED residue

AnonymousPullSmoke(p) == SmokePull(p) \/ SmokeDelete(p) \/ SmokeRecord(p)

GithubRelease(p) ==
    \/ Reread(p, "release", HasLock(p), "release_read")
    \/ /\ At(p, "release_read") /\ World
       /\ IF proc[p].state.release = Absent THEN WritePending(p, "release_create", proc[p].cp)
          ELSE Unrecorded /\ Moves(p, "latest", proc[p].cp) /\ UNCHANGED seen
    \/ Reread(p, "release_made", hub.release = "ours", "latest")

\* The decision about latest: an update sent once is never sent again.
RegistryLatest(p) ==
    LET cp == proc[p].cp
        unresolved == [cp EXCEPT !.phase = <<"latest", "unresolved">>]
    IN  /\ At(p, "latest") /\ World
        /\ CASE ~HasLock(p) -> Unrecorded /\ Ends(p, "lock_missing")
             [] HasLock(p) /\ cp.attempted /\ proc[p].state.latest = "prior" ->
                  IF EvidenceComplete(p, cp) THEN Journaled(p, unresolved) /\ Ends(p, "unresolved")
                  ELSE Unrecorded /\ Ends(p, "evidence")
             [] HasLock(p) /\ ~cp.attempted /\ proc[p].state.latest = "prior" ->
                  /\ Unrecorded
                  /\ IF ComponentsValid(ReadPublicState) /\ hub.latest = "prior"
                     THEN Moves(p, "cas_probe", cp) /\ UNCHANGED seen
                     ELSE Ends(p, "not_exact")
             [] HasLock(p) /\ proc[p].state.latest = "ours" ->
                  Unrecorded /\ Moves(p, "evidence", cp) /\ UNCHANGED seen

\* _run_latest_cas_probe.
CasProbe(p) ==
    LET cp == proc[p].cp
        probe == cp.cas
        reference == hub.cas[p]
        Arm(next) == Journaled(p, Armed(p, "cas", next))
                     /\ Moves(p, "cas_probe", Armed(p, "cas", next)) /\ UNCHANGED seen
    IN  /\ At(p, "cas_probe") /\ World
        /\ CASE probe.stage = "none" -> Arm([probe EXCEPT !.stage = "planned"])
             [] probe.stage = "planned" /\ reference.holds = Absent ->
                  Arm([probe EXCEPT !.stage = "seed_armed"])
             [] probe.stage = "seed_armed" /\ reference.holds = Absent /\ HasLock(p) ->
                  WritePending(p, "cas_probe_seed", cp)
             [] probe.stage = "seed_armed" /\ reference.holds = "prior" ->
                  Arm([probe EXCEPT !.stage = "cas_armed", !.prior = reference.etag])
             [] probe.stage = "cas_armed" /\ reference.holds = "prior"
                  /\ reference.etag = probe.prior /\ HasLock(p) ->
                  WritePending(p, "cas_probe_cas", cp)
             [] probe.stage = "cas_armed" /\ reference.holds = "winner"
                  /\ reference.etag # probe.prior ->
                  Arm([probe EXCEPT !.stage = "stale_armed", !.winner = reference.etag])
             [] probe.stage = "stale_armed" /\ reference.holds = "winner"
                  /\ reference.etag = probe.winner /\ HasLock(p) ->
                  WritePending(p, "cas_probe_stale", cp)
             [] probe.stage = "verified" /\ Retained(probe, reference) ->
                  Unrecorded /\ Moves(p, "latest_arm", cp) /\ UNCHANGED seen
             [] OTHER -> Unrecorded /\ Ends(p, "probe")

CasRejected(p) ==
    LET probe == proc[p].cp.cas
        next == Armed(p, "cas", [probe EXCEPT !.stage = "verified"])
    IN  /\ At(p, "cas_rejected") /\ World
        /\ IF hub.cas[p] = [holds |-> "winner", etag |-> probe.winner]
           THEN Journaled(p, next) /\ Moves(p, "latest_arm", next) /\ UNCHANGED seen
           ELSE Unrecorded /\ Ends(p, "probe")

LatestArmedUnrecorded(p) ==
    /\ At(p, "latest_arm") /\ World
    /\ IF HasLock(p) THEN Unrecorded /\ Moves(p, "latest_send", proc[p].cp) /\ UNCHANGED seen
       ELSE Unrecorded /\ Ends(p, "lock_missing")

\* That the update will be sent is durable before it is sent.
LatestArmed(p) ==
    LET cp == [proc[p].cp EXCEPT !.attempted = TRUE, !.phase = <<"latest_update", "armed">>]
    IN  /\ At(p, "latest_arm") /\ World
        /\ IF HasLock(p) THEN Journaled(p, cp) /\ Moves(p, "latest_send", cp) /\ UNCHANGED seen
           ELSE Unrecorded /\ Ends(p, "lock_missing")

LatestUpdate(p) ==
    \/ At(p, "latest_send") /\ World /\ WritePending(p, "latest_update", proc[p].cp)
    \/ Reread(p, "latest_made", hub.latest = "ours", "evidence")

LockRefRemove(p) ==
    LET cp == [proc[p].cp EXCEPT !.removed = TRUE, !.phase = <<"complete", "none">>]
    IN  \/ Confirms(p, "evidence", EvidenceComplete(p, proc[p].cp), "unlock")
        \/ Stage(p, "unlock", TRUE, "lock_ref_remove", "none")
        \/ /\ At(p, "lock_gone") /\ World
           /\ IF ComponentsValid(ReadPublicState) /\ hub.lock = NoOne
              THEN Journaled(p, cp) /\ Ends(p, "complete")
              ELSE Unrecorded /\ Ends(p, "lock_foreign")

----------------------------------------------------------------------------
(* What may go wrong around the publishers.                                *)

PublisherStops(p) ==
    /\ proc[p].at # "down" /\ Troubled
    /\ bill' = [bill EXCEPT !.stops = @ + 1]
    /\ proc' = [proc EXCEPT ![p] = NotRunning]
    /\ UNCHANGED <<hub, honours, journal, late, seen>>

ArrivesLate ==
    \E r \in late :
        /\ late' = late \ {r}
        /\ hub' = Applied(r[1], r[2])
        /\ seen' = Noted(r[1], r[2])
        /\ UNCHANGED <<honours, journal, proc, bill>>

\* Someone else pushes to one of the places, or a hosted workflow starts.
ForeignWrite ==
    /\ Troubled
    /\ bill' = [bill EXCEPT !.foreign = @ + 1]
    /\ \/ \E place \in {"main", "latest", "tag", "release", "version"} :
             /\ hub[place] \in {"prior", Absent}
             /\ hub' = [hub EXCEPT ![place] = "foreign"]
       \/ hub' = [hub EXCEPT !.runs = @ + 1]
    /\ UNCHANGED <<honours, journal, proc, late, seen>>

ReleaseNext ==
    \/ (ArrivesLate \/ ForeignWrite) /\ UNCHANGED residue
    \/ \E p \in Publishers :
          \/ AnonymousPullSmoke(p)
          \/ /\ UNCHANGED residue
             /\ \/ \E c \in Checkouts : PublishFresh(p, c) \/ PublishRecovery(p, c)
                \/ LockObjectCreate(p) \/ HaveObject(p) \/ LockRefCreate(p) \/ HaveLock(p)
                \/ MainFastForward(p) \/ VersionTag(p) \/ RegistryBlob(p)
                \/ RegistryManifest(p) \/ RegistryVersion(p) \/ CreateProbe(p)
                \/ CreateRejected(p) \/ GithubRelease(p) \/ RegistryLatest(p)
                \/ CasProbe(p) \/ CasRejected(p) \/ LatestArmed(p) \/ LatestUpdate(p)
                \/ LockRefRemove(p)
                \/ WriteChecked(p) \/ IdentifyLatest(p) \/ WriteSent(p) \/ WriteUnanswered(p)
                \/ WriteSettled(p) \/ PublisherStops(p)

ReleaseSpec == ReleaseInit /\ [][ReleaseNext]_releaseVars

----------------------------------------------------------------------------
\* Whatever other people push and whether or not the registry honours
\* conditional writes, the publisher never replaces a version or a latest that
\* is not its own (_run_version_create_probe, _run_latest_cas_probe).
NothingOverwritten == ~seen.overwritten

\* The update of latest is sent at most once, whatever process crashed around
\* it and however often publish() is called again (latest_write_attempted).
LatestSentOnce == seen.updates <= 1

\* Crashes alone never strand a release: unless a request failed, somebody
\* else wrote or the registry ignores conditions, a publisher called again
\* never refuses to go on, with two exceptions.  It stops at an update of latest
\* it cannot resolve.  And a crash between the smoke's pull and its DELETE
\* leaves the image on the engine, which every later call refuses to use
\* (_docker_smoke: "anonymous_docker_not_distinct_empty") until somebody
\* removes the image by hand.
CrashesAreResumable == ~seen.stranded

\* What a step may do to the journals.
AcceptsReceipts == \A p \in Publishers :
    journal'[p] # journal[p] => JournalAccepts(journal[p], journal'[p])

\* The journal never refuses a checkpoint the publisher appends, on whichever
\* path it was called again: a refusal would strand a half-published release
\* (_validate_checkpoint_transition, _validate_initial_checkpoint).
ReceiptsAreAccepted == [][AcceptsReceipts]_releaseVars
=============================================================================

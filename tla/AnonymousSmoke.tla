--------------------------- MODULE AnonymousSmoke ---------------------------
(***************************************************************************)
(* The anonymous smoke test of a release (release_tools/anonymous_smoke.py)*)
(* before the publisher goes public: the image is read from the registry   *)
(* without credentials, every part compared with its digest, and then      *)
(* pulled, inspected and removed on a Docker engine that must be empty,    *)
(* stay the same engine and not be the one that built the candidate.       *)
(*                                                                         *)
(* The engine may be replaced, other clients may use it, its stream may    *)
(* break or time out and a request may be refused, at any point.           *)
(***************************************************************************)
EXTENDS Naturals, Sequences, FiniteSets

CONSTANTS Indexes,        \* image indexes the registry may hold
          Candidate,      \* the engine that built the candidate
          MaxMishaps      \* bound of the instance

VARIABLES index,     \* the index: a sequence of manifests
          engine,    \* the engine behind the Docker socket
          images,    \* the images on each engine: "ours" and "other"
          smoke,     \* the smoke process
          mishaps

smokeVars == <<index, engine, images, smoke, mishaps>>

Engines == 1 .. MaxMishaps + 1

\* selected: the manifest with our config.  bound: the engine the session is
\* bound to.  stream: the session, "open", "poisoned" or "closed".  used: the
\* engines whose answers counted.  changed, dirty: identity_changed and
\* cleanup_failed.  raised: an exception waits for the end of the cleanup.
NewSmoke == [pc |-> "index", child |-> 1, selected |-> 0, bound |-> 0, stream |-> "none",
             at |-> "before", used |-> {}, pulled |-> FALSE,
             raised |-> FALSE, changed |-> FALSE, dirty |-> FALSE]

SmokeInit ==
    /\ index \in Indexes
    /\ engine = 1
    /\ images \in [Engines -> {{}, {"other"}}]
    /\ smoke = NewSmoke
    /\ mishaps = 0

SameWorld == UNCHANGED <<index, engine, images, mishaps>>
Refused(why) == smoke' = [smoke EXCEPT !.pc = why]

----------------------------------------------------------------------------
(* The walk over the registry's files (run_smoke).                         *)

\* The index itself, by its digest, into an empty private store.
FetchIndex ==
    /\ smoke.pc = "index" /\ SameWorld
    /\ IF index = << >> THEN Refused("refused") ELSE smoke' = [smoke EXCEPT !.pc = "children"]

\* One manifest after the other; exactly one may have our config, for amd64.
FetchManifest ==
    LET m == index[smoke.child]
        repeated == \E i \in 1 .. smoke.child - 1 : index[i].digest = m.digest
    IN  /\ smoke.pc = "children" /\ smoke.child <= Len(index) /\ SameWorld
        /\ IF repeated \/ ~m.exact \/ (m.ours /\ (smoke.selected # 0 \/ ~m.amd64))
           THEN Refused("refused")
           ELSE smoke' = [smoke EXCEPT !.child = @ + 1,
                                       !.selected = IF m.ours THEN smoke.child ELSE @]

\* The config and the layers of the selected manifest: their digests and what
\* the layers unpack to are those of the image.
FetchLayers ==
    /\ smoke.pc = "children" /\ smoke.child > Len(index) /\ SameWorld
    /\ IF smoke.selected # 0 /\ index[smoke.selected].layers
       THEN smoke' = [smoke EXCEPT !.pc = "store"] ELSE Refused("refused")

RemoveStore ==
    /\ smoke.pc = "store" /\ SameWorld
    /\ smoke' = [smoke EXCEPT !.pc = "open"]

----------------------------------------------------------------------------
(* _docker_smoke: a bound request is an identity check, the request and    *)
(* another identity check, on one stream.                                  *)

Exchanges == <<"list", "pull", "inspect", "remove", "list_after", "closing">>
Following(pc) == Exchanges[(CHOOSE i \in 1 .. 5 : Exchanges[i] = pc) + 1]
Cleaning == {"remove", "list_after", "closing"}

\* The daemon's identity: it must not be the candidate's engine.
OpenSession ==
    /\ smoke.pc = "open" /\ SameWorld
    /\ IF engine = Candidate
       THEN smoke' = [smoke EXCEPT !.pc = "closing", !.stream = "open", !.bound = engine,
                                   !.raised = TRUE]
       ELSE smoke' = [smoke EXCEPT !.pc = "list", !.stream = "open", !.bound = engine]

\* An exception: before the clean-up it goes there, within it it is noted.
Raised(s) ==
    IF s.pc \in {"remove", "list_after"}
    THEN [s EXCEPT !.dirty = TRUE, !.pc = Following(s.pc), !.at = "before"]
    ELSE [s EXCEPT !.raised = TRUE, !.at = "before",
                   !.pc = IF s.pulled THEN "remove" ELSE "closing"]

\* _assert_docker_daemon failed.
Changed(s) ==
    IF s.pc \in {"remove", "list_after"}
    THEN [s EXCEPT !.changed = TRUE, !.pc = Following(s.pc), !.at = "before"]
    ELSE Raised(s)

\* _bound_docker_request, its identity checks.
AssertDaemon ==
    /\ smoke.pc \in {"list", "pull", "inspect", "remove", "list_after"}
    /\ smoke.at \in {"before", "after"} /\ SameWorld
    /\ smoke' = IF smoke.stream # "open" THEN Raised(smoke)
                ELSE IF engine # smoke.bound THEN Changed(smoke)
                ELSE IF smoke.at = "before"
                THEN [smoke EXCEPT !.at = "send", !.pulled = @ \/ smoke.pc = "pull"]
                ELSE [smoke EXCEPT !.at = "before", !.pc = Following(smoke.pc)]

\* A removed reference takes the image with it unless another reference to it
\* remains.
Removed(held) == IF "other" \in held THEN held ELSE held \ {"ours"}

Sends(pc) == smoke.pc = pc /\ smoke.at = "send" /\ smoke.stream = "open"
Answered == [smoke EXCEPT !.at = "after", !.used = @ \cup {engine}]

ListImages ==
    /\ Sends("list") /\ SameWorld
    /\ smoke' = IF images[engine] = {} THEN Answered ELSE Raised(smoke)

PullImage ==
    /\ Sends("pull") /\ UNCHANGED <<index, engine, mishaps>>
    /\ images' = [images EXCEPT ![engine] = @ \cup {"ours"}]
    /\ smoke' = Answered

InspectImage ==
    /\ Sends("inspect") /\ SameWorld
    /\ smoke' = IF "ours" \in images[engine] THEN Answered ELSE Raised(smoke)

RemoveImage ==
    /\ Sends("remove") /\ UNCHANGED <<index, engine, mishaps>>
    /\ images' = [images EXCEPT ![engine] = Removed(@)]
    /\ smoke' = Answered

ListAfterTrusting ==
    /\ Sends("list_after") /\ SameWorld
    /\ smoke' = Answered

\* Whatever is left on the engine fails the smoke test.
ListAfter ==
    /\ Sends("list_after") /\ SameWorld
    /\ smoke' = [Answered EXCEPT !.dirty = @ \/ images[engine] # {}]

\* The request is refused (not 2xx), breaks or times out; after the latter the
\* session is poisoned, and the engine may have carried it out.
RequestFails ==
    /\ smoke.at = "send" /\ mishaps < MaxMishaps
    /\ mishaps' = mishaps + 1
    /\ UNCHANGED <<index, engine>>
    /\ \/ smoke' = Raised(smoke) /\ UNCHANGED images
       \/ /\ smoke' = Raised([smoke EXCEPT !.stream = "poisoned"])
          /\ \/ UNCHANGED images
             \/ /\ smoke.pc = "pull"
                /\ images' = [images EXCEPT ![engine] = @ \cup {"ours"}]
             \/ /\ smoke.pc = "remove"
                /\ images' = [images EXCEPT ![engine] = Removed(@)]

\* The last identity check closes the connection; finish() requires a session
\* that was closed so, and the results of the clean-up come before the image.
FinishSession ==
    LET s == [smoke EXCEPT !.changed = @ \/ (smoke.stream = "open" /\ engine # smoke.bound),
                           !.dirty = @ \/ smoke.stream # "open", !.stream = "closed"]
    IN  /\ smoke.pc = "closing" /\ SameWorld
        /\ smoke' = [s EXCEPT !.pc = IF s.raised THEN "refused"
                                     ELSE IF s.changed THEN "identity_changed"
                                     ELSE IF s.dirty THEN "cleanup_failed" ELSE "passed"]

----------------------------------------------------------------------------
(* Around it.                                                              *)

\* The engine behind the socket is replaced by one with another identity.
EngineReplaced ==
    /\ mishaps < MaxMishaps /\ engine < MaxMishaps + 1
    /\ mishaps' = mishaps + 1 /\ engine' = engine + 1
    /\ UNCHANGED <<index, images, smoke>>

\* Another client names an image on the engine.
OtherClient ==
    /\ mishaps < MaxMishaps
    /\ mishaps' = mishaps + 1
    /\ images' = [images EXCEPT ![engine] = @ \cup {"other"}]
    /\ UNCHANGED <<index, engine, smoke>>

SmokeNext ==
    \/ FetchIndex \/ FetchManifest \/ FetchLayers \/ RemoveStore
    \/ OpenSession \/ AssertDaemon \/ ListImages \/ PullImage \/ InspectImage
    \/ RemoveImage \/ ListAfter \/ RequestFails \/ FinishSession
    \/ EngineReplaced \/ OtherClient

SmokeSpec == SmokeInit /\ [][SmokeNext]_smokeVars

----------------------------------------------------------------------------
\* A smoke test that passes ("distinct_engine", "empty_before", "empty_after")
\* saw one engine, not the candidate's, and left nothing on it, whoever used or
\* replaced the engine and whichever request failed meanwhile; and of the
\* registry's manifests exactly one has our config.
PassIsEarned ==
    smoke.pc = "passed" =>
        /\ smoke.used = {smoke.bound} /\ smoke.bound # Candidate
        /\ \A e \in Engines : "ours" \notin images[e]
        /\ {i \in 1 .. Len(index) : index[i].ours} = {smoke.selected}
=============================================================================

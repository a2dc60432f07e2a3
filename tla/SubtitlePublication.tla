------------------------- MODULE SubtitlePublication -------------------------
(***************************************************************************)
(* Atomic subtitle publication, subgen_core/transcription.py:              *)
(* _atomic_publish, _publish_gate_staging and _fsync_parent_directory.     *)
(*                                                                         *)
(* One publisher, a foreign writer of the same directory, and power loss   *)
(* at every step.  Of the file system the model keeps what the protocol    *)
(* relies on: a name is moved or linked in one step, but the directory     *)
(* entry and the bytes behind it reach the disk only when they are synced. *)
(* Ordinary publication renames the staging file over the path; the        *)
(* release gate links it without replacing and checks at every step that   *)
(* the names still lead to the staging inode it opened.                    *)
(***************************************************************************)
EXTENDS Naturals

CONSTANTS
    Paths,        \* subtitle paths
    Transcripts,  \* whole subtitle contents
    Foreign,      \* the whole subtitle another writer makes
    Absent,       \* there is no file
    Torn          \* a file whose bytes are incomplete

ASSUME PublicationAssumption ==
    /\ Paths # {}
    /\ Foreign \in Transcripts
    /\ Absent # Torn
    /\ Absent \notin Transcripts
    /\ Torn \notin Transcripts

Contents == Transcripts \cup {Absent}

VARIABLES
    gate,      \* the Task 11B gate is enabled
    target,    \* each path: now (what a reader sees), kept (what survives a
               \*   power loss) and synced (the bytes behind now are on disk)
    staging,   \* the staging file: its bytes, whether they are synced, and
               \*   whether its name still leads to the inode that was opened
    pubpc,     \* the next step of the publication
    pubpath,   \* the path it publishes
    payload    \* the transcript it publishes

pubVars == <<gate, target, staging, pubpc, pubpath, payload>>

AnyPath == CHOOSE p \in Paths : TRUE
NoStaging == [data |-> Absent, synced |-> FALSE, own |-> FALSE]

PubSteps == {"idle", "write", "sync", "verify", "install", "verify_link",
             "unlink", "settle", "cleanup", "returned", "failed"}

PubTypeOK ==
    /\ gate \in BOOLEAN
    /\ target \in [Paths -> [now : Contents \cup {Torn},
                             kept : Contents \cup {Torn},
                             synced : BOOLEAN]]
    /\ staging \in [data : Contents \cup {Torn}, synced : BOOLEAN, own : BOOLEAN]
    /\ pubpc \in PubSteps
    /\ pubpath \in Paths
    /\ payload \in Contents \cup {Torn}

PubInit ==
    /\ gate \in BOOLEAN
    /\ \E f \in [Paths -> {Absent, Foreign}] :
          target = [p \in Paths |-> [now |-> f[p], kept |-> f[p], synced |-> TRUE]]
    /\ staging = NoStaging
    /\ pubpc = "idle"
    /\ pubpath = AnyPath
    /\ payload = Absent

-----------------------------------------------------------------------------
\* Every step may raise: the handler of _atomic_publish then cleans up.
Raise ==
    /\ pubpc' = "cleanup"
    /\ UNCHANGED <<gate, target, staging, pubpath, payload>>

\* validate_output_artifact_path: in the gate the path must be free.
PathIsFree(p) == gate => target[p].now = Absent

\* _atomic_publish up to mkstemp.  A path that is taken in the gate raises
\* before there is a staging file.
BeginPublish(p, t) ==
    /\ pubpc = "idle"
    /\ pubpath' = p
    /\ payload' = t
    /\ IF PathIsFree(p)
       THEN /\ staging' = [data |-> Torn, synced |-> FALSE, own |-> TRUE]
            /\ pubpc' = "write"
       ELSE /\ pubpc' = "failed"
            /\ UNCHANGED staging
    /\ UNCHANGED <<gate, target>>

\* write_temporary(temporary_path): a failure leaves a part of the bytes.
WriteStaging ==
    /\ pubpc = "write"
    /\ \/ /\ staging' = [staging EXCEPT !.data = payload]
          /\ pubpc' = "sync"
          /\ UNCHANGED <<gate, target, pubpath, payload>>
       \/ Raise

\* Mutant: the staging file is renamed before it is synced.
SyncStagingSkipped ==
    /\ pubpc = "sync"
    /\ \/ /\ pubpc' = IF gate THEN "verify" ELSE "install"
          /\ UNCHANGED <<gate, target, staging, pubpath, payload>>
       \/ Raise

\* chmod, fsync of the staging file and the read back of the payload.  The
\* gate first pins the inode (_gate_staging_identity).
SyncStaging ==
    /\ pubpc = "sync"
    /\ \/ /\ gate => staging.own
          /\ staging' = [staging EXCEPT !.synced = TRUE]
          /\ pubpc' = IF gate THEN "verify" ELSE "install"
          /\ UNCHANGED <<gate, target, pubpath, payload>>
       \/ Raise

\* _verify_gate_link_identity(links=1) and validate_output_artifact_path.
VerifyStaging ==
    /\ pubpc = "verify"
    /\ \/ /\ staging.own
          /\ PathIsFree(pubpath)
          /\ pubpc' = "install"
          /\ UNCHANGED <<gate, target, staging, pubpath, payload>>
       \/ Raise

\* The bytes the staging name leads to: another file's when it was replaced.
NamedBytes == IF staging.own THEN staging.data ELSE Foreign

\* os.replace: the new bytes take the name in one step.  The old entry is
\* what a power loss may bring back until the directory is synced.
ReplaceTarget ==
    /\ pubpc = "install"
    /\ ~gate
    /\ \/ /\ target' = [target EXCEPT ![pubpath] =
                           [now |-> staging.data, kept |-> @.kept,
                            synced |-> staging.synced]]
          /\ staging' = NoStaging
          /\ pubpc' = "settle"
          /\ UNCHANGED <<gate, pubpath, payload>>
       \/ Raise

\* os.link(follow_symlinks=False): refused when the path exists.  It links
\* whatever the staging name leads to.
LinkTarget ==
    /\ pubpc = "install"
    /\ gate
    /\ \/ /\ target[pubpath].now = Absent
          /\ target' = [target EXCEPT ![pubpath] =
                           [now |-> NamedBytes, kept |-> @.kept,
                            synced |-> staging.synced]]
          /\ pubpc' = "verify_link"
          /\ UNCHANGED <<gate, staging, pubpath, payload>>
       \/ Raise

\* _verify_gate_link_identity(links=2): the path leads to the pinned inode.
VerifyLink ==
    /\ pubpc = "verify_link"
    /\ \/ /\ staging.own
          /\ pubpc' = "unlink"
          /\ UNCHANGED <<gate, target, staging, pubpath, payload>>
       \/ Raise

\* os.unlink(temporary_path) and _verify_gate_link_identity(links=1).
UnlinkStaging ==
    /\ pubpc = "unlink"
    /\ \/ /\ staging' = NoStaging
          /\ pubpc' = "settle"
          /\ UNCHANGED <<gate, target, pubpath, payload>>
       \/ Raise

\* Mutant: the gate too goes on when the directory cannot be synced.
SyncDirectoryLenient ==
    /\ pubpc = "settle"
    /\ \/ target' = [target EXCEPT ![pubpath].kept = target[pubpath].now]
       \/ UNCHANGED target
    /\ pubpc' = "returned"
    /\ UNCHANGED <<gate, staging, pubpath, payload>>

\* _fsync_parent_directory.  Without O_DIRECTORY, and after an OSError, the
\* gate raises and ordinary publication goes on unsynced.
SyncDirectory ==
    /\ pubpc = "settle"
    /\ \/ /\ target' = [target EXCEPT ![pubpath].kept = target[pubpath].now]
          /\ pubpc' = "returned"
          /\ UNCHANGED <<gate, staging, pubpath, payload>>
       \/ /\ ~gate
          /\ pubpc' = "returned"
          /\ UNCHANGED <<gate, target, staging, pubpath, payload>>
       \/ /\ gate
          /\ Raise

\* except BaseException: unlink the staging file if it is still there; an
\* OSError of the unlink is logged and leaves it behind.
CleanUp ==
    /\ pubpc = "cleanup"
    /\ staging' \in {NoStaging, staging}
    /\ pubpc' = "failed"
    /\ UNCHANGED <<gate, target, pubpath, payload>>

\* The locals of the call are gone; a staging file that is left is garbage
\* nobody reads (its name starts with a dot).
CallGone ==
    /\ pubpc' = "idle"
    /\ staging' = NoStaging
    /\ pubpath' = AnyPath
    /\ payload' = Absent

\* The caller takes the result or the exception.
TakeResult ==
    /\ pubpc \in {"returned", "failed"}
    /\ CallGone
    /\ UNCHANGED <<gate, target>>

\* While a publication runs, another writer (Bazarr, a user) puts a whole
\* subtitle at its path, and syncs it.  External.
ForeignWrite ==
    /\ pubpc # "idle"
    /\ target[pubpath].now = Absent
    /\ target' = [target EXCEPT ![pubpath] =
                     [now |-> Foreign, kept |-> Foreign, synced |-> TRUE]]
    /\ UNCHANGED <<gate, staging, pubpc, pubpath, payload>>

\* Another writer moves its own synced file over the staging name; only the
\* gate claims to survive it.  External.
ForeignStaging ==
    /\ gate
    /\ staging.own
    /\ pubpc \in {"write", "sync", "verify", "install"}
    /\ staging' = [staging EXCEPT !.own = FALSE]
    /\ UNCHANGED <<gate, target, pubpc, pubpath, payload>>

\* What a path may hold after a power loss.
Survivors(e) == {e.kept, e.now} \cup (IF e.synced THEN {} ELSE {Torn})

\* Power loss: the publication is gone and each path is one of its survivors.
Crash ==
    /\ \E f \in [Paths -> Contents \cup {Torn}] :
          /\ \A p \in Paths : f[p] \in Survivors(target[p])
          /\ target' = [p \in Paths |->
                           [now |-> f[p], kept |-> f[p], synced |-> TRUE]]
    /\ CallGone
    /\ UNCHANGED gate

PubStep ==
    \/ WriteStaging \/ SyncStaging \/ VerifyStaging
    \/ ReplaceTarget \/ LinkTarget \/ VerifyLink \/ UnlinkStaging
    \/ SyncDirectory \/ CleanUp

PubEnv == ForeignWrite \/ ForeignStaging

PubNext ==
    \/ \E p \in Paths, t \in Transcripts : BeginPublish(p, t)
    \/ PubStep
    \/ TakeResult
    \/ PubEnv
    \/ Crash

PubSpec == PubInit /\ [][PubNext]_pubVars

-----------------------------------------------------------------------------
Files == INSTANCE SubtitleFile
    WITH shown <- [p \in Paths |-> target[p].now],
         past <- [p \in Paths |-> target[p].kept],
         strict <- gate

\* A reader of the library and the file system after a power loss never find
\* a part of a subtitle, and the gate never replaces one: publication
\* implements SubtitleFile (fsync before rename, link without replacement).
PublishesWholeFiles == Files!FilesSpec
=============================================================================

----------------------------- MODULE SourceProof -----------------------------
(***************************************************************************)
(* The proof that a release is what was verified (release_tools/           *)
(* source_proof.py): it looks at the checkout, at the commits, the tag and *)
(* the workflows of the release, captures the evidence files of the gate   *)
(* and of the soak test, and runs both verifiers of the release commit on  *)
(* private copies.  Commits cannot change; the work tree and the evidence  *)
(* files can, at any point, and a new gate run rewrites the files one by   *)
(* one.  The evidence the release commit holds names, by their hashes, the *)
(* files either verifier accepts: `repo.bound'.                            *)
(***************************************************************************)
EXTENDS Naturals, Sequences

CONSTANTS Repositories,   \* what the repository may hold
          Evidence,       \* the evidence files, as a sequence of paths
          CandidateRecord, Boundary, SealPath,   \* three of them, by their roles
          SoakOnly,       \* those the gate verifier is not given
          SoakReads,      \* those the soak verifier is given
          Image,          \* Image[r]: the image gate run r tested
          Intended,       \* the image the intent names
          MaxEdits        \* bound of the instance

VARIABLES repo,     \* commits, tag, notes, workflows and git settings
          clean,    \* the work tree
          file,     \* file[f]: the gate run that wrote it, or how often it changed
          proof,    \* the prover
          edits

sourceVars == <<repo, clean, file, proof, edits>>

NewProof == [pc |-> "checkout", next |-> 1, opened |-> [run |-> 0, edit |-> 0],
             captured |-> << >>, engine |-> 0, gate |-> 0, soak |-> 0]

SourceInit ==
    /\ repo \in Repositories
    /\ clean \in BOOLEAN
    /\ file = [f \in 1 .. Len(Evidence) |-> [run |-> 1, edit |-> 0]]
    /\ proof = NewProof
    /\ edits = 0

Held == UNCHANGED <<repo, clean, file, edits>>
Proceeds(pc) == proof' = [proof EXCEPT !.pc = pc]
Blocks == Proceeds("blocked")

----------------------------------------------------------------------------
(* What is read from the commits, which do not change.                     *)

\* _reject_git_indirection.
RejectGitIndirection == ~repo.grafts /\ ~repo.replaced /\ ~repo.shallow

\* A workflow is its `on' blocks, each the sequence of its lines with their
\* indentation: comments, and lines that hold a key or a list item.  Comments may
\* stand at column 0 inside a block.
Written(block) == {block[i] : i \in {j \in DOMAIN block : block[j].holds # "comment"}}

\* Of some lines of a block, the ones least indented name its triggers.
Triggers(held) ==
    {line.holds : line \in {l \in held : \A m \in held : l.indent <= m.indent}}

\* What the prover reads of a block: it stops at the first line at column 0,
\* comments included.
Read(block) ==
    {block[i] : i \in {j \in DOMAIN block :
         /\ block[j].holds # "comment"
         /\ \A k \in DOMAIN block : k <= j => block[k].indent # 0}}

\* _workflow_is_manual_only.
WorkflowIsManualOnly(blocks) ==
    Len(blocks) = 1 /\ Triggers(Read(blocks[1])) = {"workflow_dispatch"}

\* Each commit is an ancestor of the next: prior, runtime, sampler, release.
AncestryHolds == \A i \in 1 .. 3 : <<repo.chain[i], repo.chain[i + 1]>> \in repo.ancestry

\* The sampler's blobs are the release's, and the producer's the runtime's.
BlobsMatch == repo.samplerBlobs = repo.releaseBlobs /\ repo.producer = repo.runtimeProducer

\* The checkout is clean and at the release commit, and this very program is
\* the one the release holds.
CheckCheckout ==
    /\ proof.pc = "checkout" /\ Held
    /\ IF /\ RejectGitIndirection
          /\ clean
          /\ repo.head = repo.chain[4] /\ repo.remoteExact
          /\ repo.proofBlob = repo.running
       THEN Proceeds("commits") ELSE Blocks

CheckCommits ==
    /\ proof.pc = "commits" /\ Held
    /\ IF /\ AncestryHolds
          /\ repo.changed = repo.allowed
          /\ repo.tag = repo.chain[4] /\ repo.notesExact
          /\ \A i \in 1 .. Len(repo.workflows) : WorkflowIsManualOnly(repo.workflows[i])
          /\ BlobsMatch
       THEN Proceeds("open") ELSE Blocks

----------------------------------------------------------------------------
(* _capture_verifier_inputs reads each distinct file once: its identity is *)
(* taken before and after the bytes (_read_owner_only).                    *)

OpenInput ==
    /\ proof.pc = "open" /\ Held
    /\ proof' = IF proof.next > Len(Evidence) THEN [proof EXCEPT !.pc = "candidate"]
                ELSE [proof EXCEPT !.pc = "reading", !.opened = file[proof.next]]

ReadInput ==
    /\ proof.pc = "reading" /\ Held
    /\ proof' = IF file[proof.next] = proof.opened
                THEN [proof EXCEPT !.pc = "open", !.next = @ + 1,
                                   !.captured = Append(@, proof.opened.run)]
                ELSE [proof EXCEPT !.pc = "blocked"]

\* _derive_candidate_identity, from the captured bytes: the record must name the
\* intent's image, and the engine is the one of the boundary manifest.
At(path) == CHOOSE f \in 1 .. Len(Evidence) : Evidence[f] = path

DeriveCandidateIdentity ==
    /\ proof.pc = "candidate" /\ Held
    /\ IF Image[proof.captured[At(CandidateRecord)]] = Intended
       THEN proof' = [proof EXCEPT !.pc = "gate", !.engine = proof.captured[At(Boundary)]]
       ELSE Blocks

----------------------------------------------------------------------------
(* _run_release_verifier: both verifiers get copies of the captured bytes  *)
(* in a private directory.  A verifier accepts only the files the release  *)
(* commit names; it may also fail, be killed or run out of time, which     *)
(* refuses the release as well.                                            *)

GateReads == {f \in 1 .. Len(Evidence) : Evidence[f] \notin SoakOnly}

GateVerifier ==
    /\ proof.pc = "gate" /\ Held
    /\ \/ /\ \A f \in GateReads : proof.captured[f] = repo.bound.gate
          /\ proof' = [proof EXCEPT !.pc = "soak", !.gate = repo.bound.gate]
       \/ Blocks

SoakVerifierRereads ==
    /\ proof.pc = "soak" /\ Held
    /\ \/ /\ \A f \in 1 .. Len(Evidence) :
                Evidence[f] \in SoakReads => file[f].run = repo.bound.soak
          /\ proof' = [proof EXCEPT !.pc = "recheck", !.soak = repo.bound.soak]
       \/ Blocks

SoakVerifier ==
    /\ proof.pc = "soak" /\ Held
    /\ \/ /\ \A f \in 1 .. Len(Evidence) :
                Evidence[f] \in SoakReads => proof.captured[f] = repo.bound.soak
          /\ proof' = [proof EXCEPT !.pc = "recheck", !.soak = repo.bound.soak]
       \/ Blocks

\* The private directory must go, and the work tree is looked at once more
\* before the proof is written.
WriteProof ==
    /\ proof.pc = "recheck" /\ Held
    /\ (clean /\ Proceeds("proved")) \/ Blocks

----------------------------------------------------------------------------
(* Meanwhile.                                                              *)

EditWorktree ==
    /\ edits < MaxEdits
    /\ edits' = edits + 1 /\ clean' = ~clean
    /\ UNCHANGED <<repo, file, proof>>

\* A newer gate run replaces one of its files.
EditEvidence ==
    /\ edits < MaxEdits
    /\ edits' = edits + 1
    /\ \E f \in 1 .. Len(Evidence) :
          file' = [file EXCEPT ![f] = [run |-> @.run + 1, edit |-> @.edit + 1]]
    /\ UNCHANGED <<repo, clean, proof>>

SourceNext ==
    \/ CheckCheckout \/ CheckCommits \/ OpenInput \/ ReadInput
    \/ DeriveCandidateIdentity \/ GateVerifier \/ SoakVerifier \/ WriteProof
    \/ EditWorktree \/ EditEvidence

SourceSpec == SourceInit /\ [][SourceNext]_sourceVars

----------------------------------------------------------------------------
\* A source proof is about one set of evidence: what the gate verifier accepted,
\* what the soak verifier accepted, and the engine and the image the proof names
\* come from one gate run, which tested the intended image, even when the
\* evidence is rewritten file by file while the proof is made and when the release
\* commit itself binds the two verifiers to different runs ("Capture each distinct
\* external verifier file once, then bind every input", source_proof.py:406).  And
\* a workflow of the release starts on nothing but a manual dispatch, unless a
\* comment at column 0 stands in its `on' block: the prover takes such a comment
\* for the end of the block and misses the triggers after it.
ProofBindsOneCapture ==
    proof.pc = "proved" =>
        /\ proof.gate = proof.soak /\ proof.engine = proof.gate
        /\ Image[proof.gate] = Intended
        /\ \A i \in 1 .. Len(repo.workflows) : \A j \in 1 .. Len(repo.workflows[i]) :
              LET block == repo.workflows[i][j]
              IN  \/ Triggers(Written(block)) = {"workflow_dispatch"}
                  \/ \E k \in DOMAIN block : block[k] = [indent |-> 0, holds |-> "comment"]
=============================================================================

---------------------------- MODULE MCTaskQueue ----------------------------
(***************************************************************************)
(* TaskQueue for TLC: every request uploads the same audio.                *)
(***************************************************************************)
EXTENDS TaskQueue, TLC

CONSTANT Upload

SameUpload == [r \in Requests |-> Upload]

Symmetry == Permutations(Requests) \cup Permutations(Workers)
=============================================================================

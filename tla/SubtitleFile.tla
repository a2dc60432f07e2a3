---------------------------- MODULE SubtitleFile ----------------------------
(***************************************************************************)
(* What subtitle publication promises to whoever opens a subtitle path: it *)
(* holds no file or a whole subtitle, at every instant and after a power   *)
(* loss, and in the release gate a path that holds a subtitle keeps it     *)
(* until a power loss undoes a publication that had not settled.           *)
(***************************************************************************)
CONSTANTS Paths,        \* subtitle paths
          Transcripts,  \* whole subtitle contents
          Absent        \* there is no file at the path

VARIABLES shown,        \* what a reader finds at each path
          past,         \* what a power loss may bring back there
          strict        \* the release gate is on

filesVars == <<shown, past, strict>>

Contents == Transcripts \cup {Absent}

FilesInit ==
    /\ shown \in [Paths -> Contents]
    /\ past = shown
    /\ strict \in BOOLEAN

\* A whole subtitle appears at p in one step; the gate never replaces one.
\* The disk may or may not know of it yet.
Appear(p, c) ==
    /\ strict => shown[p] = Absent
    /\ shown' = [shown EXCEPT ![p] = c]
    /\ past' \in {past, [past EXCEPT ![p] = c]}
    /\ UNCHANGED strict

\* The directory reaches the disk: the path cannot go back any more.
Settle(p) ==
    /\ past' = [past EXCEPT ![p] = shown[p]]
    /\ UNCHANGED <<shown, strict>>

\* A power loss: every path that has not settled may go back.
PowerLoss ==
    /\ shown' \in [Paths -> Contents]
    /\ \A p \in Paths : shown'[p] \in {shown[p], past[p]}
    /\ past' = shown'
    /\ UNCHANGED strict

FilesNext ==
    \/ \E p \in Paths, c \in Transcripts : Appear(p, c)
    \/ \E p \in Paths : Settle(p)
    \/ PowerLoss

FilesSpec == FilesInit /\ [][FilesNext]_filesVars
=============================================================================

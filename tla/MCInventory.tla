----------------------------- MODULE MCInventory -----------------------------
(***************************************************************************)
(* Inventory for TLC, with history variables, in three settings:           *)
(*                                                                         *)
(*   folders    two libraries change under a scan nothing else disturbs;   *)
(*              every file settles                                         *)
(*   arrival    one file comes, goes or changes once, and meets a webhook  *)
(*              and a worker, under a scan without errors                  *)
(*   troubles   one file meets a webhook, a worker, errors, a hanging scan *)
(*              and shutdown                                               *)
(***************************************************************************)
EXTENDS Inventory, TLC

CONSTANTS Elsewhere  \* the paths outside the first library

VARIABLES
    removed,  \* paths that did not stay where they were
    letGo,    \* paths the watcher or a roll-back gave up although they are there
    setting

mcVars == <<vars, removed, letGo, setting>>

MCLabelOf ==
    LET first == CHOOSE l \in Libraries : TRUE
        second == IF Cardinality(Libraries) = 1 THEN Other
                  ELSE CHOOSE l \in Libraries : l # first
    IN  [p \in Paths |-> IF p \in Elsewhere THEN second ELSE first]

MCInit ==
    /\ Init
    /\ removed = {} /\ letGo = {}
    /\ setting \in {"folders", "arrival", "troubles"}
    /\ setting = "folders" \/ disk \cap Elsewhere = {}

NoTrouble ==
    /\ ~WalkError /\ ~InspectError /\ ~Expire /\ ~Stop
    /\ ~watching' => scan'.pc = "begin"

OneFile ==
    /\ disk' \cap Elsewhere = {}
    /\ \A c \in Callers : call'[c] # Rest => call'[c].path \notin Elsewhere

Setting ==
    \/ /\ setting = "folders" /\ NoTrouble
       /\ work' = work /\ \A h \in Hooks : call'[h] = call[h]
       /\ event.pc = "created" /\ event'.pc = "release" => event.to \notin disk
    \/ setting = "arrival" /\ NoTrouble /\ OneFile /\ changes' <= 1
    \/ /\ setting = "troubles" /\ OneFile /\ changes' = changes
       /\ inv.errors => ~WalkError /\ ~InspectError

\* The watcher drops an event of a file that is not there or does not settle;
\* cancelling the reservation that counted a file uncounts it.  An event of the
\* same file that is handled later makes up for either.
GivesUp ==
    (IF event.pc = "created" /\ event'.pc = "release" THEN {event.to} ELSE {})
    \cup {p \in inv.early : p \notin inv'.counted}

MCNext ==
    /\ Next
    /\ Setting
    /\ UNCHANGED setting
    /\ removed' = removed \cup (disk \ disk')
    /\ letGo' = (letGo \cup GivesUp) \ (IF event.pc = "observe" /\ event'.pc = "called"
                                       THEN {event.to} ELSE {})

MCSpec == MCInit /\ [][MCNext]_mcVars
MCFairSpec == MCSpec /\ Fairness

\* "Imports arriving during a long inventory are not lost": once the watcher
\* has handled its events, a clean scan has counted every library file that
\* came, before or after the cutoff, and stayed, with two exceptions.  A file
\* whose size did not settle while the watcher looked is dropped until its next
\* event (scanner.py:105).  And a webhook that reserved and counted a new file
\* (mark_queued) uncounts it again when its own put was refused, even if the
\* watcher's put of the same file was the one accepted and a worker has
\* failed it since (media.py:1288-1298).
NothingMissed ==
    /\ inv.complete /\ ~inv.errors
    /\ Quiet
    => \A p \in disk \ (removed \cup letGo) : LabelOf[p] # Other => p \in inv.counted
=============================================================================

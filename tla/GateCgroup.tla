---- MODULE GateCgroup ----
(***************************************************************************)
(* The cgroup the release gate owns (GateOwnedCgroupParent and             *)
(* PinnedCgroupEvidence of runtime_gate_observer): a parent directory is   *)
(* made before the candidate starts, so that its failure counters outlive  *)
(* the candidate's own cgroup, is pinned by open descriptors, is read once *)
(* more after the candidate has stopped, and is removed.  The directory is *)
(* known by its path, which other root processes share: they may put       *)
(* processes into it, remove it while it is empty, or make another one     *)
(* under the same name.                                                    *)
(***************************************************************************)
EXTENDS Naturals, Sequences

CONSTANTS
    MaxCgroups,     \* directories ever made under the gate's name
    MaxOoms,        \* out-of-memory events of the candidate
    MaxUpsets       \* disturbances by other processes, and missed deadlines

VARIABLES
    driver,         \* Docker's cgroup driver
    cgroups,        \* every directory ever made under the name, oldest first
    path,           \* the one under the name now; 0 for none
    box,            \* the candidate's container
    parent,         \* the gate's GateOwnedCgroupParent and PinnedCgroupEvidence
    ooms, upsets

cgroupVars == <<driver, cgroups, path, box, parent, ooms, upsets>>

(* A directory: its own processes, the candidate's child directory, another *)
(* child, systemd's keeper, the delegated controllers, and memory.events.   *)
Fresh(d, delegated) ==
    [direct |-> FALSE, child |-> "none", foreign |-> FALSE, keeper |-> d = "systemd",
     delegated |-> delegated, oom |-> 0]

CgroupInit ==
    /\ driver \in {"cgroupfs", "systemd"}
    /\ cgroups = <<>>
    /\ path = 0
    /\ box = "created"
    /\ parent = [pc |-> "create", id |-> 0, bound |-> FALSE, base |-> 0, pin |-> 0,
                 failed |-> FALSE]
    /\ ooms = 0 /\ upsets = 0

Now == cgroups[path]
Populated(c) == c.direct \/ c.foreign \/ c.child = "live"
HasChild(c) == c.foreign \/ c.child # "none"

Go(pc) == parent' = [parent EXCEPT !.pc = pc]

(* The observer's finally: stop the candidate, then clean the parent up. *)
Fail == parent' = [parent EXCEPT !.pc = IF @ = "create" THEN "done" ELSE "stop",
                                 !.failed = TRUE]

Gate(pc) == parent.pc = pc /\ UNCHANGED <<driver, ooms, upsets>>

------------------------------------------------------------------------------
(* Creation. *)

Create ==
    /\ Gate("create") /\ UNCHANGED box
    /\ IF path # 0 \/ Len(cgroups) = MaxCgroups
       THEN Fail /\ UNCHANGED <<cgroups, path>>
       ELSE /\ cgroups' = Append(cgroups, Fresh(driver, driver = "systemd"))
            /\ path' = Len(cgroups) + 1
            /\ Go(IF driver = "systemd" THEN "inspect" ELSE "delegate")

Delegate ==
    /\ Gate("delegate") /\ UNCHANGED <<path, box>>
    /\ IF path = 0
       THEN Go("uncreate") /\ UNCHANGED cgroups
       ELSE Go("inspect") /\ cgroups' = [cgroups EXCEPT ![path].delegated = TRUE]

(* The new directory is delegated, empty and owned; its inode is kept. *)
Inspect ==
    /\ Gate("inspect") /\ UNCHANGED <<cgroups, path, box>>
    /\ IF path # 0 /\ Now.delegated /\ ~Populated(Now)
       THEN parent' = [parent EXCEPT !.pc = "start", !.id = path]
       ELSE Go("uncreate")

(* _cleanup_failed_creation: systemctl stop ends what is in the slice; the   *)
(* cgroupfs branch removes only an empty directory.                         *)
CleanupFailedCreation ==
    /\ Gate("uncreate") /\ UNCHANGED <<cgroups, box>>
    /\ parent' = [parent EXCEPT !.pc = "done", !.failed = TRUE]
    /\ path' = IF path # 0 /\ driver = "cgroupfs" /\ (Populated(Now) \/ HasChild(Now))
               THEN path
               ELSE 0

------------------------------------------------------------------------------
(* The candidate's placement. *)

(* Docker puts the container under the named parent, making it if need be. *)
StartCandidate ==
    /\ Gate("start")
    /\ box' = "running"
    /\ Go("bind")
    /\ IF path # 0
       THEN cgroups' = [cgroups EXCEPT ![path].child = "live"] /\ path' = path
       ELSE /\ Len(cgroups) < MaxCgroups
            /\ cgroups' = Append(cgroups, [Fresh(driver, TRUE) EXCEPT !.child = "live"])
            /\ path' = Len(cgroups) + 1

(* _assert_identity. *)
SameParent == path # 0 /\ path = parent.id /\ Now.delegated

(* assert_live_placement: the running candidate is the only child but the keeper. *)
PlacedAlone ==
    /\ box = "running" /\ SameParent
    /\ Now.child = "live" /\ ~Now.direct /\ ~Now.foreign

BindLive ==
    /\ Gate("bind") /\ UNCHANGED <<cgroups, path, box>>
    /\ IF PlacedAlone
       THEN parent' = [parent EXCEPT !.pc = "baseline", !.bound = TRUE]
       ELSE Fail

(* memory_events between two assert_live_placement: one read of the counter, *)
(* and the placement checked again before it is used.                       *)
MemoryEvents ==
    /\ Gate("baseline") /\ UNCHANGED <<cgroups, path, box>>
    /\ IF PlacedAlone
       THEN parent' = [parent EXCEPT !.pc = "confirm", !.base = Now.oom]
       ELSE Fail

ConfirmPlacement ==
    /\ Gate("confirm") /\ UNCHANGED <<cgroups, path, box>>
    /\ IF PlacedAlone THEN Go("pin") ELSE Fail

(* PinnedCgroupEvidence.capture: the directory and its files stay open, and  *)
(* still say what the baseline says.                                        *)
CapturePinned ==
    /\ Gate("pin") /\ UNCHANGED <<cgroups, path, box>>
    /\ IF PlacedAlone /\ Now.oom = parent.base
       THEN parent' = [parent EXCEPT !.pc = "observe", !.pin = path]
       ELSE Fail

(* A sample of phase B, or the live drain. *)
ObserveLive ==
    /\ Gate("observe") /\ UNCHANGED <<cgroups, path, box>>
    /\ IF PlacedAlone /\ Now.oom = parent.base THEN Go("stop") ELSE Fail

------------------------------------------------------------------------------
(* After the candidate. *)

Emptied(c) == [c EXCEPT !.child = IF @ = "live" THEN "empty" ELSE @]

StopCandidate ==
    /\ Gate("stop") /\ UNCHANGED path
    /\ box' = "stopped"
    /\ cgroups' = [i \in DOMAIN cgroups |-> Emptied(cgroups[i])]
    /\ Go(IF parent.failed THEN "clean" ELSE "drain")

(* snapshot(0): the path is still the pinned directory, which holds nothing  *)
(* live, and the open files are read.                                       *)
FinalDrainOfPopulation ==
    /\ Gate("drain") /\ UNCHANGED <<cgroups, path, box>>
    /\ IF path = parent.pin /\ ~Populated(Now)
       THEN Go("clean")
       ELSE parent' = [parent EXCEPT !.pc = "clean", !.failed = TRUE]

FinalDrain ==
    /\ Gate("drain") /\ UNCHANGED <<cgroups, path, box>>
    /\ IF path = parent.pin /\ ~Populated(Now) /\ Now.oom = parent.base
       THEN Go("clean")
       ELSE parent' = [parent EXCEPT !.pc = "clean", !.failed = TRUE]

GiveUp == parent' = [parent EXCEPT !.pc = "done", !.failed = TRUE]

Cleanup ==
    /\ Gate("clean") /\ UNCHANGED <<cgroups, path, box>>
    /\ IF parent.id # 0 /\ SameParent /\ ~Populated(Now) THEN Go("await") ELSE GiveUp

Unexpected ==
    IF path = 0 THEN TRUE
    ELSE \/ Now.foreign
         \/ Now.child # "none" /\ (~parent.bound \/ ~SameParent \/ Populated(Now))

AwaitChild ==
    /\ parent.pc = "await" /\ UNCHANGED <<driver, ooms, cgroups, path, box>>
    /\ \/ path # 0 /\ ~HasChild(Now) /\ Go("release") /\ UNCHANGED upsets
       \/ Unexpected /\ GiveUp /\ UNCHANGED upsets
       \/ /\ path # 0 /\ Now.child # "none"                        \* the deadline
          /\ upsets < MaxUpsets /\ upsets' = upsets + 1 /\ GiveUp

(* systemctl stop, or the controllers undelegated ... *)
ReleaseParent ==
    /\ Gate("release") /\ UNCHANGED box
    /\ \/ /\ driver = "systemd"
          /\ path' = 0 /\ Go("done") /\ UNCHANGED cgroups
       \/ /\ driver = "cgroupfs" /\ path = 0
          /\ GiveUp /\ UNCHANGED <<cgroups, path>>
       \/ /\ driver = "cgroupfs" /\ path # 0
          /\ cgroups' = [cgroups EXCEPT ![path].delegated = FALSE]
          /\ Go("remove") /\ UNCHANGED path

(* ... and the directory removed, which the kernel refuses unless it is empty. *)
RemoveParent ==
    /\ Gate("remove") /\ UNCHANGED <<cgroups, box>>
    /\ IF path # 0 /\ ~Populated(Now) /\ ~HasChild(Now)
       THEN path' = 0 /\ Go("done")
       ELSE GiveUp /\ UNCHANGED path

------------------------------------------------------------------------------
(* Everything else on the host. *)

OutOfMemory ==
    /\ box = "running" /\ ooms < MaxOoms
    /\ ooms' = ooms + 1
    /\ \E dies \in BOOLEAN :
           /\ box' = IF dies THEN "exited" ELSE box
           /\ cgroups' = [cgroups EXCEPT ![path].oom = @ + 1,
                                         ![path].child = IF dies THEN "empty" ELSE @]
    /\ UNCHANGED <<driver, path, parent, upsets>>

(* Docker removes the directory of a container that has ended. *)
ReapChild ==
    /\ \E i \in DOMAIN cgroups :
           /\ cgroups[i].child = "empty"
           /\ cgroups' = [cgroups EXCEPT ![i].child = "none"]
    /\ UNCHANGED <<driver, path, box, parent, ooms, upsets>>

(* systemd removes the keeper's directory: RemainAfterExit keeps the unit.  *)
ReapKeeper ==
    /\ path # 0 /\ Now.keeper
    /\ cgroups' = [cgroups EXCEPT ![path].keeper = FALSE]
    /\ UNCHANGED <<driver, path, box, parent, ooms, upsets>>

Upset ==
    /\ parent.pc # "done"
    /\ upsets < MaxUpsets /\ upsets' = upsets + 1
    /\ UNCHANGED <<driver, box, parent, ooms>>

(* Another process comes or goes, or changes the delegation. *)
Intrude ==
    /\ Upset /\ path # 0 /\ UNCHANGED path
    /\ \E c \in {[Now EXCEPT !.direct = ~@], [Now EXCEPT !.foreign = ~@],
                 [Now EXCEPT !.delegated = ~@]} :
           cgroups' = [cgroups EXCEPT ![path] = c]

(* Another root process removes the empty directory, or reuses its name. *)
RemoveByOther ==
    /\ Upset /\ path # 0 /\ ~Populated(Now) /\ ~HasChild(Now)
    /\ path' = 0 /\ UNCHANGED cgroups

ReuseName ==
    /\ Upset /\ path = 0 /\ Len(cgroups) < MaxCgroups
    /\ cgroups' = Append(cgroups, Fresh(driver, TRUE))
    /\ path' = Len(cgroups) + 1

CgroupNext ==
    \/ Create \/ Delegate \/ Inspect \/ CleanupFailedCreation
    \/ StartCandidate \/ BindLive \/ MemoryEvents \/ ConfirmPlacement
    \/ CapturePinned \/ ObserveLive \/ StopCandidate \/ FinalDrain
    \/ Cleanup \/ AwaitChild \/ ReleaseParent \/ RemoveParent
    \/ OutOfMemory \/ ReapChild \/ ReapKeeper
    \/ Intrude \/ RemoveByOther \/ ReuseName

CgroupSpec == CgroupInit /\ [][CgroupNext]_cgroupVars

------------------------------------------------------------------------------

(* A gate that passes has seen every out-of-memory event the candidate ever  *)
(* had after the baseline, those between the last live sample and its stop   *)
(* included, although the parent's name may have been reused after the stop. *)
DrainCountsWholeLife ==
    (parent.pc = "done" /\ ~parent.failed) => ooms = parent.base
=============================================================================

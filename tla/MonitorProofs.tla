---------------------------- MODULE MonitorProofs ----------------------------
(***************************************************************************)
(* Theorems about the parts of MCOperations that may destroy or replace    *)
(* something, for every value of their parameters.                         *)
(*                                                                         *)
(*   failure monitor   OnlyProvenAreDestroyed   MediaInv                   *)
(*                     DeletedStaysGone         MediaInv and GoneInv       *)
(*   publishers        LatestIsSentOnce         RelInv                     *)
(*                     NothingIsOverwritten     RelInv                     *)
(*                     ReceiptsAlwaysAccepted   RelInv                     *)
(*                     ReleaseIsResumable       RelInv and CalmInv         *)
(*                                                                         *)
(* A step of the composition is a step of one part and leaves the others   *)
(* alone, so that each part has an invariant over its own variables.       *)
(***************************************************************************)
EXTENDS MCOperations, FiniteSetTheorems, TLAPS

-----------------------------------------------------------------------------
(***************************************************************************)
(* Deletion by the failure monitor.  A power loss may leave any folder of  *)
(* `after', so that what holds of the folder is said of each of them: no   *)
(* file is missing that its owner did not remove or that was not proven    *)
(* invalid, and a quarantine no deletion has used is empty.  What a        *)
(* deletion knows of its own quarantine (OwnQuarantine) lasts only as long *)
(* as the monitor runs; a deletion that is resumed reads it again.         *)
(***************************************************************************)

MonitorFields == {"pc", "deletes", "safe", "mode", "target", "crash", "active", "outcome"}

\* The stages of a deletion, and those with the quarantine at hand.
Deletion == {"open", "inspect", "rename", "moved", "revalidate", "restore",
             "unlink_restored", "tombstone", "unlink", "sync", "complete", "confirm", "finish"}
AtQuarantine == Deletion \ {"open", "confirm", "finish"}
WithCandidate == {"moved", "revalidate", "restore", "unlink_restored", "tombstone", "unlink"}
Outcomes == {"deleted", "unavailable", "recovery", "unsafe", "failed"}

Media == {Fail!NoFile} \cup [gen : 1 .. used.gens, ctime : Nat]
Boxes == [dir : {"none", "active", "completed"}, candidate : Media, tombstone : BOOLEAN]
Folders == [leaf : Media, q : [1 .. MaxTokens -> Boxes], made : SUBSET (1 .. used.gens),
            gone : SUBSET Nat]
Statuses == {"none", "counted", "waiting", "missing", "blocked", "deleting", "delete_paused",
             "blocked_recovery", "failed_recovery", "deleted", "deleted_recovered",
             "missing_recovered"}
Targets == [status : Statuses, count : Nat, invalid : Nat, file : Media, proof : Media,
            intent : Media, token : 0 .. used.tokens, marked : BOOLEAN]

FailTypes ==
    /\ DOMAIN mon = MonitorFields /\ mon.target \in Targets
    /\ saved.target \in Targets /\ mounted \in BOOLEAN
    /\ proven \in [1 .. MaxGenerations -> Nat]
    /\ DOMAIN used = {"gens", "tokens", "jobs", "losses"}
    /\ used.gens \in 1 .. MaxGenerations /\ used.tokens \in 0 .. MaxTokens

\* A folder in which nothing is missing that should be there.
Accounted(folder) ==
    \A g \in folder.made \ folder.gone : Fail!Holds(folder, g) \/ proven[g] >= MinDelete

QuarantinesClean(folder) ==
    \A t \in 1 .. MaxTokens :
        /\ folder.q[t].dir = "none" => folder.q[t].candidate = Fail!NoFile
        /\ t > used.tokens => folder.q[t] = Fail!Empty

FoldersKept ==
    /\ fs \in after
    /\ \A folder \in after : /\ folder \in Folders
                             /\ Accounted(folder) /\ QuarantinesClean(folder)

\* The evidence a target carries was recorded, and an intent had enough of it.
Evident(target) ==
    /\ target.file # Fail!NoFile => proven[target.file.gen] >= target.invalid
    /\ target.token # 0 => /\ target.intent # Fail!NoFile
                           /\ proven[target.intent.gen] >= MinDelete

\* What a deletion under way knows of its quarantine.
OwnQuarantine ==
    /\ mon.pc \in Deletion => mon.target.token # 0
    /\ mon.pc \in AtQuarantine => Fail!Quarantine.dir # "none"
    /\ mon.pc \in {"rename", "sync", "complete"} => Fail!Quarantine.candidate = Fail!NoFile
    /\ mon.pc \in WithCandidate => Fail!Quarantine.candidate # Fail!NoFile
    /\ mon.pc \in {"tombstone", "unlink"} =>
          Fail!Quarantine.candidate.gen = mon.target.intent.gen
    /\ mon.pc = "unlink_restored" =>
          Fail!Quarantine.candidate.gen \in {fs.leaf.gen} \cup fs.gone
    /\ mon.pc = "finish" => mon.outcome \in Outcomes

MediaInv ==
    /\ FailTypes /\ FoldersKept
    /\ Evident(mon.target) /\ Evident(saved.target)
    /\ OwnQuarantine

\* The file of a target is neither at the path nor in the newest quarantine.
Gone(target) ==
    \A folder \in after : /\ folder.leaf.gen # target.file.gen
                          /\ folder.q[used.tokens].candidate = Fail!NoFile

\* A live deletion has a quarantine of its own, begun empty.
Live ==
    mon.pc \in Deletion /\ mon.mode = "live" =>
        /\ mon.target.token = used.tokens
        /\ mon.target.intent = mon.target.file
        /\ mon.pc = "open" => Fail!Quarantine = Fail!Empty
        /\ mon.pc = "inspect" => Fail!Quarantine.candidate = Fail!NoFile
                                 /\ ~Fail!Quarantine.tombstone
        /\ mon.pc # "confirm"
        /\ mon.pc \in {"moved", "revalidate"} => fs.leaf.gen # Fail!Quarantine.candidate.gen
        /\ mon.pc \in {"tombstone", "unlink", "sync"} => fs.leaf.gen # mon.target.file.gen
        /\ mon.pc = "complete" => Gone(mon.target)
        /\ mon.pc = "finish" /\ mon.outcome = "deleted" => Gone(mon.target)

Reported ==
    /\ mon.target.status = "deleted" => Gone(mon.target)
    /\ saved.target.status = "deleted" => Gone(saved.target)
    /\ mon.target.status = "deleted" => mon.target.file # Fail!NoFile
    /\ saved.target.status = "deleted" => saved.target.file # Fail!NoFile
    /\ mon.pc \in {"marking", "deciding"} => mon.target.status # "deleted"
    /\ mon.pc \in Deletion =>
          mon.target.status # "deleted" /\ saved.target.status # "deleted"

GoneInv == MediaInv /\ Live /\ Reported

\* A deletion that was seen through, at once or after a restart, leaves the
\* newest quarantine empty: it is the one the targets speak of.
Settled == {"deleted", Fail!Resumed}
Emptied == \A folder \in after : folder.q[used.tokens].candidate = Fail!NoFile

EmptyInv ==
    /\ mon.target.token \in {0, used.tokens} /\ saved.target.token \in {0, used.tokens}
    /\ mon.pc = "complete" => Emptied
    /\ mon.pc = "finish" /\ mon.outcome = "deleted" => Emptied
    /\ mon.target.status \in Settled => Emptied
    /\ saved.target.status \in Settled => Emptied
    /\ mon.pc \in {"marking", "deciding"} => mon.target.status \notin Settled
    /\ mon.pc \in Deletion =>
          mon.target.status \notin Settled /\ saved.target.status \notin Settled

\* What was recorded, numbered and proven only grows.
Grows ==
    /\ used'.gens \in used.gens .. MaxGenerations
    /\ used'.tokens \in used.tokens .. MaxTokens
    /\ proven' \in [1 .. MaxGenerations -> Nat]
    /\ \A g \in 1 .. MaxGenerations : proven'[g] >= proven[g]

\* Files, folders and targets stay what they are.
LEMMA TypesGrow ==
    ASSUME FailTypes, Grows
    PROVE  Media \subseteq Media' /\ Folders \subseteq Folders' /\ Targets \subseteq Targets'
<1>1. /\ 1 .. used.gens \subseteq 1 .. used'.gens
      /\ 0 .. used.tokens \subseteq 0 .. used'.tokens
  BY DEF FailTypes, Grows
<1>2. Media \subseteq Media'
  BY <1>1 DEF Media, Fail!NoFile
<1>3. Boxes \subseteq Boxes'
  BY <1>2 DEF Boxes
<1>4. Folders \subseteq Folders'
  BY <1>1, <1>2, <1>3 DEF Folders
<1>5. Targets \subseteq Targets'
  BY <1>1, <1>2 DEF Targets
<1> QED BY <1>2, <1>4, <1>5

\* The generation of a file was recorded.
LEMMA Generation ==
    ASSUME FailTypes, NEW f \in Media
    PROVE  /\ f.gen \in 0 .. used.gens /\ f.ctime \in Nat
           /\ f # Fail!NoFile <=> f.gen # 0
           /\ f # Fail!NoFile => f.gen \in 1 .. MaxGenerations
BY MonitorAssumption DEF Media, Fail!NoFile, FailTypes

\* A folder that was accounted for is still.
LEMMA FolderGrows ==
    ASSUME FailTypes, Grows, NEW folder \in Folders, Accounted(folder), QuarantinesClean(folder)
    PROVE  folder \in Folders' /\ Accounted(folder)' /\ QuarantinesClean(folder)'
<1>1. folder \in Folders'
  BY TypesGrow
<1>2. ASSUME NEW g \in folder.made \ folder.gone
      PROVE  Fail!Holds(folder, g) \/ proven'[g] >= MinDelete
  <2>1. g \in 1 .. MaxGenerations
    BY MonitorAssumption DEF Folders, FailTypes
  <2>2. proven[g] \in Nat /\ proven'[g] \in Nat /\ proven'[g] >= proven[g]
    BY <2>1 DEF Grows, FailTypes
  <2> QED BY <2>2, MonitorAssumption DEF Accounted
<1>3. QuarantinesClean(folder)'
  BY DEF QuarantinesClean, Grows, FailTypes
<1> QED BY <1>1, <1>2, <1>3 DEF Accounted, Fail!Holds

\* So is the evidence of a target.
LEMMA EvidenceGrows ==
    ASSUME FailTypes, Grows, NEW target \in Targets, Evident(target)
    PROVE  Evident(target)'
<1>1. /\ target.file \in Media /\ target.intent \in Media /\ target.invalid \in Nat
  BY DEF Targets
<1>2. /\ target.file # Fail!NoFile => target.file.gen \in 1 .. MaxGenerations
      /\ target.intent # Fail!NoFile => target.intent.gen \in 1 .. MaxGenerations
  BY <1>1, Generation
<1>3. /\ \A g \in 1 .. MaxGenerations : proven[g] \in Nat /\ proven'[g] \in Nat
      /\ MinDelete \in Nat
  BY MonitorAssumption DEF Grows, FailTypes
<1> QED BY <1>1, <1>2, <1>3 DEF Evident, Grows

\* Folders that are added have to be accounted for.
LEMMA FoldersStep ==
    ASSUME MediaInv, Grows, fs' \in after',
           \A folder \in after' :
              \/ folder \in after
              \/ folder \in Folders' /\ Accounted(folder)' /\ QuarantinesClean(folder)'
    PROVE  FoldersKept'
<1>1. ASSUME NEW folder \in after'
      PROVE  folder \in Folders' /\ Accounted(folder)' /\ QuarantinesClean(folder)'
  BY <1>1, FolderGrows DEF MediaInv, FoldersKept
<1> QED BY <1>1 DEF FoldersKept

\* A monitor that is not deleting knows nothing of a quarantine.
LEMMA NotDeleting ==
    ASSUME mon.pc \notin Deletion
    PROVE  OwnQuarantine
BY DEF OwnQuarantine, Deletion, AtQuarantine, WithCandidate

-----------------------------------------------------------------------------
\* The folder with another quarantine and another file at the path.
Changed(contents, leaf) == [Fail!WithQuarantine(contents) EXCEPT !.leaf = leaf]

\* A folder whose newest quarantine and path were changed is accounted for
\* when what they held is still in one of them, or need not be.
LEMMA QuarantineChanges ==
    ASSUME MediaInv, mon.target.token # 0, NEW contents \in Boxes, NEW leaf \in Media,
           contents.dir = "none" => contents.candidate = Fail!NoFile,
           \A f \in {fs.leaf, Fail!Quarantine.candidate} :
              \/ f = Fail!NoFile
              \/ f.gen \in {leaf.gen, contents.candidate.gen} \cup fs.gone
              \/ proven[f.gen] >= MinDelete,
           NEW folder, folder = Changed(contents, leaf)
    PROVE  /\ folder \in Folders /\ Accounted(folder) /\ QuarantinesClean(folder)
           /\ folder.leaf = leaf /\ folder.q[mon.target.token] = contents
           /\ folder.gone = fs.gone
<1>1. /\ mon.target.token \in 1 .. used.tokens /\ used.tokens \in 0 .. MaxTokens
      /\ mon.target.token \in 1 .. MaxTokens
  BY MonitorAssumption DEF MediaInv, FailTypes, Targets
<1>2. fs \in Folders /\ Accounted(fs) /\ QuarantinesClean(fs)
  BY DEF MediaInv, FoldersKept
<1>3. /\ folder = [fs EXCEPT !.q = [fs.q EXCEPT ![mon.target.token] = contents], !.leaf = leaf]
      /\ DOMAIN fs.q = 1 .. MaxTokens
  BY <1>2 DEF Changed, Fail!WithQuarantine, Folders
<1>4. /\ folder.leaf = leaf /\ folder.q = [fs.q EXCEPT ![mon.target.token] = contents]
      /\ folder.made = fs.made /\ folder.gone = fs.gone
      /\ folder.q[mon.target.token] = contents
      /\ \A t \in 1 .. MaxTokens : t # mon.target.token => folder.q[t] = fs.q[t]
  BY <1>1, <1>2, <1>3 DEF Folders
<1>5. folder \in Folders
  <2>1. [fs.q EXCEPT ![mon.target.token] = contents] \in [1 .. MaxTokens -> Boxes]
    BY <1>2 DEF Folders
  <2> QED BY <1>2, <1>3, <2>1 DEF Folders
<1>6. QuarantinesClean(folder)
  <2> SUFFICES ASSUME NEW t \in 1 .. MaxTokens
               PROVE  /\ folder.q[t].dir = "none" => folder.q[t].candidate = Fail!NoFile
                      /\ t > used.tokens => folder.q[t] = Fail!Empty
    BY DEF QuarantinesClean
  <2>1. CASE t = mon.target.token
    BY <1>1, <1>4, <2>1
  <2>2. CASE t # mon.target.token
    BY <1>2, <1>4, <2>2 DEF QuarantinesClean
  <2> QED BY <2>1, <2>2
<1>7. ASSUME NEW g \in folder.made \ folder.gone
      PROVE  Fail!Holds(folder, g) \/ proven[g] >= MinDelete
  <2>1. g \in fs.made \ fs.gone /\ g # 0
    BY <1>2, <1>4 DEF Folders
  <2>2. Fail!Holds(fs, g) \/ proven[g] >= MinDelete
    BY <1>2, <2>1 DEF Accounted
  <2>3. ASSUME NEW f \in {fs.leaf, Fail!Quarantine.candidate}, f.gen = g
        PROVE  Fail!Holds(folder, g) \/ proven[g] >= MinDelete
    <3>1. f # Fail!NoFile
      BY <2>1, <2>3 DEF Fail!NoFile
    <3>2. g \in {leaf.gen, contents.candidate.gen} \/ proven[g] >= MinDelete
      BY <2>1, <2>3, <3>1
    <3> QED BY <1>1, <1>4, <3>2 DEF Fail!Holds
  <2>4. ASSUME NEW t \in 1 .. MaxTokens, fs.q[t].candidate.gen = g
        PROVE  Fail!Holds(folder, g) \/ proven[g] >= MinDelete
    <3>1. CASE t = mon.target.token
      BY <2>3, <2>4, <3>1 DEF Fail!Quarantine
    <3>2. CASE t # mon.target.token
      BY <1>4, <2>4, <3>2 DEF Fail!Holds
    <3> QED BY <3>1, <3>2
  <2> QED BY <2>2, <2>3, <2>4 DEF Fail!Holds
<1> QED BY <1>4, <1>5, <1>6, <1>7 DEF Accounted

\* A deletion step that moves nothing but the monitor.
LEMMA DeletionWaits ==
    ASSUME MediaInv, Fail!Elsewhere, Fail!Still, DOMAIN mon' = MonitorFields,
           mon'.target = mon.target, OwnQuarantine'
    PROVE  MediaInv'
<1>1. Grows
  BY DEF Grows, Fail!Elsewhere, MediaInv, FailTypes
<1>2. FoldersKept'
  BY <1>1, FoldersStep DEF MediaInv, FoldersKept, Fail!Still
<1>3. FailTypes' /\ Evident(mon.target)' /\ Evident(saved.target)'
  BY DEF MediaInv, FailTypes, Targets, Media, Evident, Fail!Elsewhere
<1> QED BY <1>2, <1>3 DEF MediaInv

\* One that changes its quarantine, the path or both.
LEMMA DeletionMoves ==
    ASSUME MediaInv, Fail!Elsewhere, DOMAIN mon' = MonitorFields, mon'.target = mon.target,
           fs' \in Folders, Accounted(fs'), QuarantinesClean(fs'),
           fs' \in after', after' \subseteq after \cup {fs'}, OwnQuarantine'
    PROVE  MediaInv'
<1>1. Grows
  BY DEF Grows, Fail!Elsewhere, MediaInv, FailTypes
<1>2. fs' \in Folders' /\ Accounted(fs)' /\ QuarantinesClean(fs)'
  BY DEF Fail!Elsewhere, Folders, Boxes, Media, Accounted, QuarantinesClean
<1>3. FoldersKept'
  BY <1>1, <1>2, FoldersStep
<1>4. FailTypes' /\ Evident(mon.target)' /\ Evident(saved.target)'
  BY DEF MediaInv, FailTypes, Targets, Media, Evident, Fail!Elsewhere
<1> QED BY <1>3, <1>4 DEF MediaInv

\* What a deletion finds: its token, its quarantine and its intent.
LEMMA DeletionFinds ==
    ASSUME MediaInv, mon.pc \in Deletion
    PROVE  /\ mon.target.token \in 1 .. MaxTokens /\ mon.target.token # 0
           /\ Fail!Quarantine \in Boxes /\ fs \in Folders /\ fs \in after
           /\ QuarantinesClean(fs)
           /\ Fail!Quarantine.dir = "none" => Fail!Quarantine.candidate = Fail!NoFile
           /\ fs.leaf \in Media /\ mon.target.intent \in Media
           /\ proven[mon.target.intent.gen] >= MinDelete
           /\ DOMAIN mon = MonitorFields
<1>1. mon.target.token # 0 /\ mon.target \in Targets /\ DOMAIN mon = MonitorFields
  BY DEF MediaInv, FailTypes, OwnQuarantine
<1>2. mon.target.token \in 1 .. MaxTokens
  BY <1>1, MonitorAssumption DEF MediaInv, FailTypes, Targets
<1>3. fs \in Folders /\ fs \in after /\ QuarantinesClean(fs)
  BY DEF MediaInv, FoldersKept
<1> QED
  BY <1>1, <1>2, <1>3
  DEF MediaInv, Folders, QuarantinesClean, Fail!Quarantine, Evident, Targets

\* Where a deletion step goes, with the rest of the monitor as it was.
LEMMA WentTo ==
    ASSUME DOMAIN mon = MonitorFields, NEW p,
           Fail!Goto(p) \/ Fail!Outcome(p)
    PROVE  /\ DOMAIN mon' = MonitorFields /\ mon'.target = mon.target /\ mon'.mode = mon.mode
           /\ Fail!Goto(p) => mon'.pc = p
           /\ Fail!Outcome(p) => mon'.pc = "finish" /\ mon'.outcome = p
BY DEF MonitorFields, Fail!Goto, Fail!Outcome

\* A deletion that ends without touching a folder.
LEMMA DeletionEnds ==
    ASSUME MediaInv, mon.pc \in Deletion, Fail!Elsewhere, Fail!Still,
           NEW o \in Outcomes, Fail!Outcome(o)
    PROVE  MediaInv'
<1>1. DOMAIN mon' = MonitorFields /\ mon'.target = mon.target
      /\ mon'.pc = "finish" /\ mon'.outcome = o
  BY DeletionFinds, WentTo
<1>2. OwnQuarantine'
  BY <1>1, DeletionFinds DEF OwnQuarantine, Deletion, AtQuarantine, WithCandidate
<1> QED BY <1>1, <1>2, DeletionWaits

\* A step of a deletion that changes its quarantine, the path or both, and
\* knows afterwards what it has to know.
LEMMA DeletionChanges ==
    ASSUME MediaInv, mon.pc \in Deletion, Fail!Elsewhere,
           NEW contents \in Boxes, NEW leaf \in Media,
           contents.dir = "none" => contents.candidate = Fail!NoFile,
           \A f \in {fs.leaf, Fail!Quarantine.candidate} :
              \/ f = Fail!NoFile
              \/ f.gen \in {leaf.gen, contents.candidate.gen} \cup fs.gone
              \/ proven[f.gen] >= MinDelete,
           fs' = Changed(contents, leaf), fs' \in after', after' \subseteq after \cup {fs, fs'},
           NEW p, Fail!Goto(p) \/ Fail!Outcome(p),
           Fail!Quarantine' = contents /\ fs'.leaf = leaf /\ fs'.gone = fs.gone => OwnQuarantine'
    PROVE  MediaInv'
<1>1. mon.target.token # 0 /\ DOMAIN mon = MonitorFields /\ fs \in after
  BY DeletionFinds
<1>2. /\ fs' \in Folders /\ Accounted(fs') /\ QuarantinesClean(fs')
      /\ fs'.leaf = leaf /\ fs'.q[mon.target.token] = contents /\ fs'.gone = fs.gone
  BY <1>1, QuarantineChanges
<1>3. DOMAIN mon' = MonitorFields /\ mon'.target = mon.target
  BY <1>1, WentTo
<1>4. OwnQuarantine'
  BY <1>2, <1>3 DEF Fail!Quarantine
<1> QED BY <1>1, <1>2, <1>3, <1>4, DeletionMoves

\* A quarantine with another candidate, another tombstone or both.
LEMMA BoxWith ==
    ASSUME NEW b \in Boxes, NEW f \in Media, NEW tomb \in BOOLEAN
    PROVE  /\ [b EXCEPT !.candidate = f] \in Boxes
           /\ [b EXCEPT !.candidate = f].candidate = f
           /\ [b EXCEPT !.candidate = f].dir = b.dir
           /\ [b EXCEPT !.candidate = f].tombstone = b.tombstone
           /\ [b EXCEPT !.tombstone = tomb] \in Boxes
           /\ [b EXCEPT !.tombstone = tomb].candidate = b.candidate
           /\ [b EXCEPT !.tombstone = tomb].dir = b.dir
BY DEF Boxes

\* Renaming or linking a file does not change its generation.
LEMMA TouchedFile ==
    ASSUME FailTypes, NEW f \in Media, f # Fail!NoFile
    PROVE  /\ Fail!Touched(f) \in Media /\ Fail!Touched(f).gen = f.gen
           /\ Fail!Touched(f) # Fail!NoFile
BY DEF Media, Fail!NoFile, Fail!Touched, FailTypes

\* A quarantine that is replaced while the path stays.
LEMMA SameLeaf ==
    ASSUME fs \in Folders, NEW contents
    PROVE  Fail!WithQuarantine(contents) = Changed(contents, fs.leaf)
BY DEF Changed, Fail!WithQuarantine, Folders

\* The move of the file into the quarantine, its check and its restoration.
LEMMA MoveKeeps ==
    ASSUME MediaInv, NEW fails \in BOOLEAN,
           Fail!MoveToQuarantine(fails) \/ Fail!SyncMove(fails) \/ Fail!Revalidate
    PROVE  MediaInv'
<1> USE DEF Deletion, AtQuarantine, WithCandidate, Outcomes
<1>1. ASSUME Fail!MoveToQuarantine(fails)
      PROVE  MediaInv'
  <2> DEFINE q == [Fail!Quarantine EXCEPT !.candidate = Fail!Touched(fs.leaf)]
  <2>1. /\ mon.pc = "rename" /\ Fail!Elsewhere /\ mounted \in BOOLEAN /\ mon.pc \in Deletion
        /\ Fail!Quarantine.candidate = Fail!NoFile /\ Fail!Quarantine.dir # "none"
    BY <1>1 DEF Fail!MoveToQuarantine, MediaInv, FailTypes, OwnQuarantine
  <2>2. \/ Fail!Outcome("unavailable") /\ Fail!Still
        \/ Fail!Outcome("unsafe") /\ Fail!Still
        \/ /\ Fail!Goto("moved") /\ fs.leaf # Fail!NoFile
           /\ Fail!Change([Fail!WithQuarantine(q) EXCEPT !.leaf = Fail!NoFile])
    BY <1>1, <2>1 DEF Fail!MoveToQuarantine
  <2>3. CASE (Fail!Outcome("unavailable") \/ Fail!Outcome("unsafe")) /\ Fail!Still
    BY <2>1, <2>3, DeletionEnds
  <2>4. CASE /\ Fail!Goto("moved") /\ fs.leaf # Fail!NoFile
             /\ Fail!Change([Fail!WithQuarantine(q) EXCEPT !.leaf = Fail!NoFile])
    <3>1. fs' = Changed(q, Fail!NoFile) /\ fs' \in after' /\ after' \subseteq after \cup {fs, fs'}
      BY <2>4 DEF Fail!Change, Changed
    <3>2. /\ Fail!Touched(fs.leaf) \in Media /\ Fail!Touched(fs.leaf).gen = fs.leaf.gen
          /\ Fail!Touched(fs.leaf) # Fail!NoFile
      BY <2>1, <2>4, DeletionFinds, TouchedFile DEF MediaInv
    <3>3. /\ q \in Boxes /\ q.candidate = Fail!Touched(fs.leaf) /\ q.dir # "none"
      BY <2>1, <3>2, DeletionFinds, BoxWith
    <3> HIDE DEF q
    <3>4. mon'.pc = "moved" /\ mon'.target = mon.target /\ mon.target.token # 0
      BY <2>1, <2>4, DeletionFinds, WentTo
    <3>5. Fail!Quarantine' = q => OwnQuarantine'
      BY <3>2, <3>3, <3>4 DEF OwnQuarantine
    <3>6. Fail!NoFile \in Media
      BY DEF Media
    <3>7. \A f \in {fs.leaf, Fail!Quarantine.candidate} :
              \/ f = Fail!NoFile
              \/ f.gen \in {Fail!NoFile.gen, q.candidate.gen} \cup fs.gone
              \/ proven[f.gen] >= MinDelete
      BY <2>1, <3>2, <3>3
    <3> QED BY <2>1, <2>4, <3>1, <3>3, <3>5, <3>6, <3>7, DeletionChanges
  <2> QED BY <2>2, <2>3, <2>4
<1>2. ASSUME mon.pc \in WithCandidate, Fail!Elsewhere, fs' = fs, fs' \in after',
             after' \subseteq after, NEW p \in {"restore", "revalidate", "tombstone"}, Fail!Goto(p),
             p = "tombstone" => Fail!SameQuarantined(mon.target.intent)
      PROVE  MediaInv'
  <2>1. mon.pc \in Deletion /\ mon.pc \in AtQuarantine
    BY <1>2
  <2>2. mon'.pc = p /\ mon'.target = mon.target /\ DOMAIN mon' = MonitorFields
        /\ mon.target.token # 0
    BY <1>2, <2>1, DeletionFinds, WentTo
  <2>3. Fail!Quarantine' = Fail!Quarantine /\ Fail!Quarantine.dir # "none"
        /\ Fail!Quarantine.candidate # Fail!NoFile
    BY <1>2, <2>1, <2>2 DEF Fail!Quarantine, MediaInv, OwnQuarantine
  <2>4. OwnQuarantine'
    BY <1>2, <2>2, <2>3 DEF OwnQuarantine, Fail!SameQuarantined
  <2>5. fs' \in Folders /\ Accounted(fs') /\ QuarantinesClean(fs')
    BY <1>2 DEF MediaInv, FoldersKept
  <2> QED BY <1>2, <2>2, <2>4, <2>5, DeletionMoves
<1>3. ASSUME Fail!SyncMove(fails)
      PROVE  MediaInv'
  <2>1. mon.pc = "moved" /\ Fail!Elsewhere /\ mon.pc \in Deletion
    BY <1>3 DEF Fail!SyncMove
  <2>2. fs \in after
    BY <2>1, DeletionFinds
  <2> QED BY <1>3, <2>1, <2>2, <1>2 DEF Fail!SyncMove, Fail!Still, Fail!Sync
<1>4. ASSUME Fail!Revalidate
      PROVE  MediaInv'
  <2>1. mon.pc = "revalidate" /\ Fail!Elsewhere /\ Fail!Still /\ mon.pc \in Deletion
    BY <1>4 DEF Fail!Revalidate
  <2>2. fs \in after
    BY <2>1, DeletionFinds
  <2> QED BY <1>4, <2>1, <2>2, <1>2 DEF Fail!Revalidate, Fail!Still
<1> QED BY <1>1, <1>3, <1>4

\* The restoration of a file that is not the intended one, or whose move
\* could not be made durable.
LEMMA RestoreKeeps ==
    ASSUME MediaInv, NEW fails \in BOOLEAN, NEW settles \in BOOLEAN,
           Fail!RestoreLink(fails) \/ Fail!RestoreUnlink(fails, settles)
    PROVE  MediaInv'
<1> USE DEF Deletion, AtQuarantine, WithCandidate, Outcomes
<1>0. Fail!NoFile \in Media
  BY DEF Media
<1>1. ASSUME Fail!RestoreLink(fails)
      PROVE  MediaInv'
  <2> DEFINE file0 == Fail!Touched(Fail!Quarantine.candidate)
             q == [Fail!Quarantine EXCEPT !.candidate = file0]
  <2>1. /\ mon.pc = "restore" /\ Fail!Elsewhere /\ mon.pc \in Deletion
        /\ Fail!Quarantine.candidate # Fail!NoFile /\ Fail!Quarantine.dir # "none"
    BY <1>1 DEF Fail!RestoreLink, MediaInv, OwnQuarantine
  <2>2. \/ Fail!Outcome("recovery") /\ Fail!Still
        \/ /\ Fail!Goto("unlink_restored") /\ fs.leaf = Fail!NoFile
           /\ Fail!Change([Fail!WithQuarantine(q) EXCEPT !.leaf = file0])
    BY <1>1, <2>1 DEF Fail!RestoreLink
  <2>3. CASE Fail!Outcome("recovery") /\ Fail!Still
    BY <2>1, <2>3, DeletionEnds
  <2>4. CASE /\ Fail!Goto("unlink_restored") /\ fs.leaf = Fail!NoFile
             /\ Fail!Change([Fail!WithQuarantine(q) EXCEPT !.leaf = file0])
    <3>1. fs' = Changed(q, file0) /\ fs' \in after' /\ after' \subseteq after \cup {fs, fs'}
      BY <2>4 DEF Fail!Change, Changed
    <3>2. /\ file0 \in Media /\ file0.gen = Fail!Quarantine.candidate.gen
          /\ file0 # Fail!NoFile
      BY <2>1, DeletionFinds, TouchedFile DEF MediaInv, Boxes
    <3>3. /\ q \in Boxes /\ q.candidate = file0 /\ q.dir # "none"
      BY <2>1, <3>2, DeletionFinds, BoxWith
    <3> HIDE DEF q, file0
    <3>4. mon'.pc = "unlink_restored" /\ mon'.target = mon.target /\ mon.target.token # 0
      BY <2>1, <2>4, DeletionFinds, WentTo
    <3>5. Fail!Quarantine' = q /\ fs'.leaf = file0 => OwnQuarantine'
      BY <3>2, <3>3, <3>4 DEF OwnQuarantine
    <3>7. \A f \in {fs.leaf, Fail!Quarantine.candidate} :
              \/ f = Fail!NoFile
              \/ f.gen \in {file0.gen, q.candidate.gen} \cup fs.gone
              \/ proven[f.gen] >= MinDelete
      BY <2>4, <3>2, <3>3
    <3> QED BY <2>1, <2>4, <3>1, <3>2, <3>3, <3>5, <3>7, DeletionChanges
  <2> QED BY <2>2, <2>3, <2>4
<1>2. ASSUME Fail!RestoreUnlink(fails, settles)
      PROVE  MediaInv'
  <2> DEFINE q == [Fail!Quarantine EXCEPT !.candidate = Fail!NoFile]
  <2>1. /\ mon.pc = "unlink_restored" /\ Fail!Elsewhere /\ mon.pc \in Deletion
        /\ Fail!Quarantine.candidate.gen \in {fs.leaf.gen} \cup fs.gone
        /\ Fail!Quarantine.dir # "none"
    BY <1>2 DEF Fail!RestoreUnlink, MediaInv, OwnQuarantine
  <2>2. \/ Fail!Outcome("recovery") /\ Fail!Still
        \/ /\ Fail!Outcome("recovery") \/ Fail!Outcome("unsafe")
           /\ fs' = Fail!WithQuarantine(q) /\ fs' \in after' /\ after' \subseteq after \cup {fs, fs'}
    BY <1>2, <2>1 DEF Fail!RestoreUnlink
  <2>3. CASE Fail!Outcome("recovery") /\ Fail!Still
    BY <2>1, <2>3, DeletionEnds
  <2>4. ASSUME NEW o \in {"recovery", "unsafe"}, Fail!Outcome(o), fs' = Fail!WithQuarantine(q),
               fs' \in after', after' \subseteq after \cup {fs, fs'}
        PROVE  MediaInv'
    <3>1. fs' = Changed(q, fs.leaf)
      BY <2>1, <2>4, SameLeaf, DeletionFinds
    <3>2. q \in Boxes /\ q.candidate = Fail!NoFile /\ q.dir # "none"
      BY <1>0, <2>1, DeletionFinds, BoxWith
    <3> HIDE DEF q
    <3>3. mon'.pc = "finish" /\ mon'.outcome = o /\ mon'.target = mon.target
          /\ mon.target.token # 0 /\ fs.leaf \in Media
      BY <2>1, <2>4, DeletionFinds, WentTo
    <3>4. OwnQuarantine'
      BY <2>4, <3>3 DEF OwnQuarantine
    <3>5. \A f \in {fs.leaf, Fail!Quarantine.candidate} :
              \/ f = Fail!NoFile
              \/ f.gen \in {fs.leaf.gen, q.candidate.gen} \cup fs.gone
              \/ proven[f.gen] >= MinDelete
      BY <2>1
    <3> QED BY <2>1, <2>4, <3>1, <3>2, <3>3, <3>4, <3>5, DeletionChanges
  <2> QED BY <2>2, <2>3, <2>4
<1> QED BY <1>1, <1>2

\* A deletion step that replaces the quarantine and keeps its candidate, or
\* drops one that was proven invalid.
LEMMA QuarantineReplaced ==
    ASSUME MediaInv, mon.pc \in Deletion, Fail!Elsewhere, NEW contents \in Boxes,
           contents.dir = "none" => contents.candidate = Fail!NoFile,
           \/ contents.candidate = Fail!Quarantine.candidate
           \/ Fail!Quarantine.candidate.gen = mon.target.intent.gen,
           fs' = Fail!WithQuarantine(contents), fs' \in after', after' \subseteq after \cup {fs, fs'},
           NEW p, Fail!Goto(p) \/ Fail!Outcome(p),
           Fail!Quarantine' = contents => OwnQuarantine'
    PROVE  MediaInv'
<1>1. fs' = Changed(contents, fs.leaf)
  BY SameLeaf, DeletionFinds
<1>2. \A f \in {fs.leaf, Fail!Quarantine.candidate} :
          \/ f = Fail!NoFile
          \/ f.gen \in {fs.leaf.gen, contents.candidate.gen} \cup fs.gone
          \/ proven[f.gen] >= MinDelete
  BY DeletionFinds
<1> QED BY <1>1, <1>2, DeletionFinds, DeletionChanges

\* Opening and inspecting the quarantine.
LEMMA OpenKeeps ==
    ASSUME MediaInv, NEW fails \in BOOLEAN,
           Fail!OpenQuarantine(fails) \/ Fail!InspectQuarantine
    PROVE  MediaInv'
<1> USE DEF Deletion, AtQuarantine, WithCandidate, Outcomes
<1>1. ASSUME Fail!OpenQuarantine(fails)
      PROVE  MediaInv'
  <2>1. mon.pc = "open" /\ Fail!Elsewhere /\ mounted \in BOOLEAN /\ mon.pc \in Deletion
    BY <1>1 DEF Fail!OpenQuarantine, MediaInv, FailTypes
  <2>2. \/ Fail!Outcome("unavailable") /\ Fail!Still
        \/ \E o \in {"unsafe", "failed"} : Fail!Outcome(o) /\ Fail!Still
        \/ \E o \in {"unsafe", "failed"} :
              /\ Fail!Outcome(o) /\ Fail!Quarantine.dir = "none"
              /\ Fail!Change(Fail!WithQuarantine([Fail!Empty EXCEPT !.dir = "active"]))
        \/ Fail!Goto("confirm") /\ Fail!Still
        \/ Fail!Goto("inspect") /\ Fail!Quarantine.dir = "active" /\ Fail!Still
        \/ /\ Fail!Goto("inspect") /\ Fail!Quarantine.dir \notin {"active", "completed"}
           /\ fs' = Fail!WithQuarantine([Fail!Empty EXCEPT !.dir = "active"]) /\ after' = {fs'}
    BY <1>1, <2>1 DEF Fail!OpenQuarantine
  <2>3. ASSUME NEW o \in Outcomes, Fail!Outcome(o), Fail!Still
        PROVE  MediaInv'
    BY <2>1, <2>3, DeletionEnds
  <2>7. ASSUME NEW o \in {"unsafe", "failed"}, Fail!Outcome(o), Fail!Quarantine.dir = "none",
               Fail!Change(Fail!WithQuarantine([Fail!Empty EXCEPT !.dir = "active"]))
        PROVE  MediaInv'
    <3> DEFINE made0 == [Fail!Empty EXCEPT !.dir = "active"]
    <3>1. mon'.pc = "finish" /\ mon'.outcome = o /\ mon'.target = mon.target
          /\ mon.target.token # 0
      BY <2>1, <2>7, DeletionFinds, WentTo
    <3>2. made0 \in Boxes /\ made0.dir = "active" /\ made0.candidate = Fail!NoFile
      BY DEF Boxes, Fail!Empty, Media
    <3>3. Fail!Quarantine.candidate = Fail!NoFile
      BY <2>1, <2>7, DeletionFinds
    <3>4. fs' = Fail!WithQuarantine(made0) /\ fs' \in after' /\ after' \subseteq after \cup {fs, fs'}
      BY <2>7 DEF Fail!Change
    <3> HIDE DEF made0
    <3>5. OwnQuarantine'
      BY <2>7, <3>1 DEF OwnQuarantine
    <3> QED BY <2>1, <2>7, <3>2, <3>3, <3>4, <3>5, QuarantineReplaced
  <2>4. CASE Fail!Goto("confirm") /\ Fail!Still
    <3>1. mon'.pc = "confirm" /\ DOMAIN mon' = MonitorFields /\ mon'.target = mon.target
      BY <2>1, <2>4, DeletionFinds, WentTo
    <3>2. OwnQuarantine'
      BY <2>1, <3>1, DeletionFinds DEF OwnQuarantine
    <3> QED BY <2>1, <2>4, <3>1, <3>2, DeletionWaits
  <2>5. CASE Fail!Goto("inspect") /\ Fail!Quarantine.dir = "active" /\ Fail!Still
    <3>1. mon'.pc = "inspect" /\ DOMAIN mon' = MonitorFields /\ mon'.target = mon.target
      BY <2>1, <2>5, DeletionFinds, WentTo
    <3>2. OwnQuarantine'
      BY <2>1, <2>5, <3>1, DeletionFinds DEF OwnQuarantine, Fail!Quarantine, Fail!Still
    <3> QED BY <2>1, <2>5, <3>1, <3>2, DeletionWaits
  <2>6. CASE /\ Fail!Goto("inspect") /\ Fail!Quarantine.dir \notin {"active", "completed"}
             /\ fs' = Fail!WithQuarantine([Fail!Empty EXCEPT !.dir = "active"])
             /\ after' = {fs'}
    <3> DEFINE made0 == [Fail!Empty EXCEPT !.dir = "active"]
    <3>1. mon'.pc = "inspect" /\ DOMAIN mon' = MonitorFields /\ mon'.target = mon.target
      BY <2>1, <2>6, DeletionFinds, WentTo
    <3>2. made0 \in Boxes /\ made0.dir = "active"
      BY DEF Boxes, Fail!Empty, Media
    <3>3. Fail!Quarantine.candidate = Fail!NoFile
      BY <2>1, <2>6, DeletionFinds DEF Boxes
    <3>4. fs' = Changed(made0, fs.leaf)
      BY <2>1, <2>6, DeletionFinds DEF Changed, Fail!WithQuarantine, Folders
    <3> HIDE DEF made0
    <3>5. /\ fs' \in Folders /\ Accounted(fs') /\ QuarantinesClean(fs')
          /\ fs'.q[mon.target.token] = made0
      <4>1. \A f \in {fs.leaf, Fail!Quarantine.candidate} :
              \/ f = Fail!NoFile
              \/ f.gen \in {fs.leaf.gen, made0.candidate.gen} \cup fs.gone
              \/ proven[f.gen] >= MinDelete
        BY <3>3
      <4>2. mon.target.token # 0 /\ fs.leaf \in Media
            /\ (made0.dir = "none" => made0.candidate = Fail!NoFile)
        BY <2>1, <3>2, DeletionFinds
      <4> QED BY <3>2, <3>4, <4>1, <4>2, QuarantineChanges
    <3>6. OwnQuarantine'
      BY <2>1, <3>1, <3>2, <3>5, DeletionFinds DEF OwnQuarantine, Fail!Quarantine
    <3> QED BY <2>1, <2>6, <3>1, <3>5, <3>6, DeletionMoves
  <2> QED BY <2>2, <2>3, <2>4, <2>5, <2>6, <2>7
<1>2. ASSUME Fail!InspectQuarantine
      PROVE  MediaInv'
  <2>1. /\ mon.pc = "inspect" /\ Fail!Elsewhere /\ Fail!Still
        /\ mon.pc \in Deletion /\ mon.pc \in AtQuarantine /\ Fail!Quarantine.tombstone \in BOOLEAN
    BY <1>2, DeletionFinds DEF Fail!InspectQuarantine, Boxes
  <2>2. \/ Fail!Goto("sync") /\ Fail!Quarantine.candidate = Fail!NoFile
        \/ /\ Fail!Goto("tombstone") /\ Fail!SameQuarantined(mon.target.intent)
           /\ Fail!Quarantine.candidate # Fail!NoFile
        \/ Fail!Goto("rename") /\ Fail!Quarantine.candidate = Fail!NoFile
        \/ Fail!Outcome("unsafe") \/ Fail!Outcome("unavailable")
    BY <1>2, <2>1 DEF Fail!InspectQuarantine, Fail!Validated
  <2>3. CASE Fail!Outcome("unsafe") \/ Fail!Outcome("unavailable")
    BY <2>1, <2>3, DeletionEnds
  <2>4. ASSUME NEW p \in {"sync", "rename", "tombstone"}, Fail!Goto(p),
               p = "tombstone" => /\ Fail!SameQuarantined(mon.target.intent)
                                  /\ Fail!Quarantine.candidate # Fail!NoFile,
               p # "tombstone" => Fail!Quarantine.candidate = Fail!NoFile
        PROVE  MediaInv'
    <3>1. mon'.pc = p /\ DOMAIN mon' = MonitorFields /\ mon'.target = mon.target
      BY <2>1, <2>4, DeletionFinds, WentTo
    <3>2. Fail!Quarantine' = Fail!Quarantine /\ Fail!Quarantine.dir # "none"
      BY <2>1, <3>1 DEF Fail!Quarantine, Fail!Still, MediaInv, OwnQuarantine
    <3>3. OwnQuarantine'
      BY <2>1, <2>4, <3>1, <3>2, DeletionFinds DEF OwnQuarantine, Fail!SameQuarantined
    <3> QED BY <2>1, <3>1, <3>3, DeletionWaits
  <2> QED BY <2>2, <2>3, <2>4
<1> QED BY <1>1, <1>2

\* The tombstone and the unlink.
LEMMA UnlinkKeeps ==
    ASSUME MediaInv, NEW fails \in BOOLEAN,
           Fail!EnsureTombstone(fails) \/ Fail!UnlinkCandidate(fails)
    PROVE  MediaInv'
<1> USE DEF Deletion, AtQuarantine, WithCandidate, Outcomes
<1>0. Fail!NoFile \in Media
  BY DEF Media
<1>1. ASSUME Fail!EnsureTombstone(fails)
      PROVE  MediaInv'
  <2> DEFINE q == [Fail!Quarantine EXCEPT !.tombstone = TRUE]
  <2>1. /\ mon.pc = "tombstone" /\ Fail!Elsewhere /\ mon.pc \in Deletion
        /\ Fail!Quarantine.candidate # Fail!NoFile /\ Fail!Quarantine.dir # "none"
        /\ Fail!Quarantine.candidate.gen = mon.target.intent.gen
    BY <1>1 DEF Fail!EnsureTombstone, MediaInv, OwnQuarantine
  <2>2. \/ Fail!Outcome("recovery") /\ Fail!Still
        \/ /\ Fail!Outcome("recovery") \/ Fail!Goto("unlink")
           /\ fs' = Fail!WithQuarantine(q) /\ fs' \in after' /\ after' \subseteq after \cup {fs, fs'}
    BY <1>1, <2>1 DEF Fail!EnsureTombstone, Fail!Change
  <2>3. CASE Fail!Outcome("recovery") /\ Fail!Still
    BY <2>1, <2>3, DeletionEnds
  <2>4. ASSUME Fail!Outcome("recovery") \/ Fail!Goto("unlink"), fs' = Fail!WithQuarantine(q),
               fs' \in after', after' \subseteq after \cup {fs, fs'}
        PROVE  MediaInv'
    <3>1. q \in Boxes /\ q.candidate = Fail!Quarantine.candidate /\ q.dir # "none"
      BY <1>0, <2>1, DeletionFinds, BoxWith
    <3> HIDE DEF q
    <3>2. \/ mon'.pc = "finish" /\ mon'.outcome = "recovery"
          \/ mon'.pc = "unlink"
      BY <2>1, <2>4, DeletionFinds, WentTo
    <3>3. mon'.target = mon.target /\ mon.target.token # 0
      BY <2>1, <2>4, DeletionFinds, WentTo
    <3>4. Fail!Quarantine' = q => OwnQuarantine'
      BY <2>1, <3>1, <3>2, <3>3 DEF OwnQuarantine
    <3> QED BY <2>1, <2>4, <3>1, <3>4, QuarantineReplaced
  <2> QED BY <2>2, <2>3, <2>4
<1>2. ASSUME Fail!UnlinkCandidate(fails)
      PROVE  MediaInv'
  <2> DEFINE q == [Fail!Quarantine EXCEPT !.candidate = Fail!NoFile]
  <2>1. /\ mon.pc = "unlink" /\ Fail!Elsewhere /\ mon.pc \in Deletion
        /\ Fail!Quarantine.dir # "none"
        /\ Fail!Quarantine.candidate.gen = mon.target.intent.gen
    BY <1>2 DEF Fail!UnlinkCandidate, MediaInv, OwnQuarantine
  <2>2. \/ Fail!Outcome("recovery") /\ Fail!Still
        \/ /\ Fail!Goto("sync")
           /\ fs' = Fail!WithQuarantine(q) /\ fs' \in after' /\ after' \subseteq after \cup {fs, fs'}
    BY <1>2, <2>1 DEF Fail!UnlinkCandidate, Fail!Change
  <2>3. CASE Fail!Outcome("recovery") /\ Fail!Still
    BY <2>1, <2>3, DeletionEnds
  <2>4. ASSUME Fail!Goto("sync"), fs' = Fail!WithQuarantine(q),
               fs' \in after', after' \subseteq after \cup {fs, fs'}
        PROVE  MediaInv'
    <3>1. q \in Boxes /\ q.candidate = Fail!NoFile /\ q.dir # "none"
      BY <1>0, <2>1, DeletionFinds, BoxWith
    <3> HIDE DEF q
    <3>2. mon'.pc = "sync" /\ mon'.target = mon.target /\ mon.target.token # 0
      BY <2>1, <2>4, DeletionFinds, WentTo
    <3>4. Fail!Quarantine' = q => OwnQuarantine'
      BY <2>1, <3>1, <3>2 DEF OwnQuarantine
    <3> QED BY <2>1, <2>4, <3>1, <3>4, QuarantineReplaced
  <2> QED BY <2>2, <2>3, <2>4
<1> QED BY <1>1, <1>2

\* The end of a deletion, and of one that was found completed.
LEMMA CompletionKeeps ==
    ASSUME MediaInv, NEW fails \in BOOLEAN,
           Fail!SyncQuarantine(fails) \/ Fail!CompletePrivateDelete \/ Fail!ConfirmCompleted(fails)
    PROVE  MediaInv'
<1> USE DEF Deletion, AtQuarantine, WithCandidate, Outcomes
<1>0. Fail!NoFile \in Media
  BY DEF Media
<1>1. ASSUME Fail!SyncQuarantine(fails)
      PROVE  MediaInv'
  <2>1. /\ mon.pc = "sync" /\ Fail!Elsewhere /\ mon.pc \in Deletion
        /\ Fail!Quarantine.dir # "none" /\ Fail!Quarantine.candidate = Fail!NoFile
    BY <1>1 DEF Fail!SyncQuarantine, MediaInv, OwnQuarantine
  <2>2. \/ Fail!Outcome("recovery") /\ Fail!Still
        \/ Fail!Goto("complete") /\ Fail!Sync
    BY <1>1 DEF Fail!SyncQuarantine
  <2>3. CASE Fail!Outcome("recovery") /\ Fail!Still
    BY <2>1, <2>3, DeletionEnds
  <2>4. CASE Fail!Goto("complete") /\ Fail!Sync
    <3>1. mon'.pc = "complete" /\ mon'.target = mon.target /\ DOMAIN mon' = MonitorFields
          /\ mon.target.token # 0
      BY <2>1, <2>4, DeletionFinds, WentTo
    <3>2. OwnQuarantine'
      BY <2>1, <2>4, <3>1 DEF OwnQuarantine, Fail!Quarantine, Fail!Sync
    <3>3. fs' \in Folders /\ Accounted(fs') /\ QuarantinesClean(fs') /\ fs' \in after'
      BY <2>4 DEF MediaInv, FoldersKept, Fail!Sync
    <3>4. after' \subseteq after \cup {fs'}
      BY <2>4 DEF Fail!Sync
    <3> QED BY <2>1, <3>1, <3>2, <3>3, <3>4, DeletionMoves
  <2> QED BY <2>2, <2>3, <2>4
<1>2. ASSUME NEW contents \in Boxes, contents.candidate = Fail!NoFile,
             mon.pc \in Deletion, Fail!Elsewhere, Fail!Quarantine.candidate = Fail!NoFile,
             Fail!Outcome("deleted"), fs' = Fail!WithQuarantine(contents),
             fs' \in after', after' \subseteq after \cup {fs, fs'}
      PROVE  MediaInv'
  <2>1. mon'.pc = "finish" /\ mon'.outcome = "deleted" /\ mon'.target = mon.target
        /\ mon.target.token # 0
    BY <1>2, DeletionFinds, WentTo
  <2>2. OwnQuarantine'
    BY <2>1 DEF OwnQuarantine
  <2> QED BY <1>2, <2>2, QuarantineReplaced
<1>3. Fail!Empty \in Boxes /\ Fail!Empty.candidate = Fail!NoFile
  BY <1>0 DEF Fail!Empty, Boxes
<1>4. ASSUME Fail!CompletePrivateDelete
      PROVE  MediaInv'
  <2>1. /\ mon.pc = "complete" /\ Fail!Elsewhere /\ mon.pc \in Deletion
        /\ Fail!Quarantine.candidate = Fail!NoFile /\ Fail!Outcome("deleted")
    BY <1>4 DEF Fail!CompletePrivateDelete, MediaInv, OwnQuarantine
  <2>2. PICK contents \in {Fail!Quarantine, [Fail!Quarantine EXCEPT !.dir = "completed"],
                 [Fail!Quarantine EXCEPT !.dir = "completed", !.tombstone = FALSE], Fail!Empty} :
          Fail!Change(Fail!WithQuarantine(contents))
    BY <1>4 DEF Fail!CompletePrivateDelete
  <2>3. contents \in Boxes /\ contents.candidate = Fail!NoFile
    BY <1>3, <2>1, <2>2, DeletionFinds DEF Boxes
  <2> QED BY <1>2, <2>1, <2>2, <2>3 DEF Fail!Change
<1>5. ASSUME Fail!ConfirmCompleted(fails)
      PROVE  MediaInv'
  <2>1. mon.pc = "confirm" /\ Fail!Elsewhere /\ mon.pc \in Deletion
    BY <1>5 DEF Fail!ConfirmCompleted
  <2>2. \/ Fail!Outcome("unsafe") /\ Fail!Still
        \/ Fail!Outcome("recovery") /\ Fail!Still
        \/ /\ Fail!Quarantine.candidate = Fail!NoFile /\ Fail!Outcome("deleted")
           /\ fs' = Fail!WithQuarantine(Fail!Empty) /\ after' = {fs, fs'}
    BY <1>5 DEF Fail!ConfirmCompleted
  <2> QED BY <1>2, <1>3, <2>1, <2>2, DeletionEnds
<1> QED BY <1>1, <1>4, <1>5

-----------------------------------------------------------------------------
\* A step outside the deletions that leaves the folders alone.
LEMMA MonitorKeeps ==
    ASSUME MediaInv, Grows, Fail!Still, mounted' \in BOOLEAN,
           DOMAIN used' = {"gens", "tokens", "jobs", "losses"},
           DOMAIN mon' = MonitorFields, mon'.target \in Targets', saved'.target \in Targets',
           Evident(mon.target)', Evident(saved.target)', OwnQuarantine'
    PROVE  MediaInv'
<1>1. FoldersKept'
  BY FoldersStep DEF MediaInv, FoldersKept, Fail!Still
<1>2. FailTypes'
  BY MonitorAssumption DEF MediaInv, FailTypes, Grows
<1> QED BY <1>1, <1>2 DEF MediaInv

\* One that neither numbers nor proves anything, and takes its targets from
\* the two there are.
LEMMA TargetsKeep ==
    ASSUME MediaInv, Fail!Still, UNCHANGED proven, mounted' \in BOOLEAN,
           DOMAIN used' = {"gens", "tokens", "jobs", "losses"},
           used'.gens = used.gens, used'.tokens = used.tokens,
           DOMAIN mon' = MonitorFields,
           mon'.target \in Targets, Evident(mon'.target),
           saved'.target \in Targets, Evident(saved'.target), OwnQuarantine'
    PROVE  MediaInv'
<1>1. Grows
  BY MonitorAssumption DEF Grows, MediaInv, FailTypes
<1>2. Targets' = Targets
  BY DEF Targets, Media
<1>3. Evident(mon.target)' /\ Evident(saved.target)'
  BY DEF Evident
<1> QED BY <1>1, <1>2, <1>3, MonitorKeeps

\* The owner of the library replaces the file or removes it.
LEMMA OwnerKeeps ==
    ASSUME MediaInv, Fail!OwnerReplaces \/ Fail!OwnerRemoves
    PROVE  MediaInv'
<1> USE DEF MediaInv
<1>1. fs \in Folders /\ Accounted(fs) /\ QuarantinesClean(fs) /\ fs \in after
  BY DEF FoldersKept
<1>2. PICK file0, born :
        /\ fs' = [fs EXCEPT !.leaf = file0, !.made = fs.made \cup born,
                            !.gone = fs.gone \cup {fs.leaf.gen}]
        /\ after' = after \cup {fs'}
        /\ file0 \in Media' /\ born \subseteq {file0.gen} /\ born \subseteq 1 .. used'.gens
        /\ Grows /\ DOMAIN used' = {"gens", "tokens", "jobs", "losses"}
        /\ UNCHANGED <<mounted, saved, mon, proven>> /\ used'.tokens = used.tokens
  <2>1. ASSUME Fail!OwnerReplaces
        PROVE  /\ fs' = [fs EXCEPT !.leaf = [gen |-> used.gens + 1, ctime |-> 0],
                                   !.made = fs.made \cup {used.gens + 1},
                                   !.gone = fs.gone \cup {fs.leaf.gen}]
               /\ after' = after \cup {fs'} /\ used'.gens = used.gens + 1
               /\ used.gens < MaxGenerations
               /\ used'.tokens = used.tokens /\ DOMAIN used' = DOMAIN used
               /\ UNCHANGED <<mounted, saved, mon, proven>>
    BY <2>1 DEF Fail!OwnerReplaces, Fail!Change, FailTypes
  <2>2. ASSUME Fail!OwnerReplaces
        PROVE  /\ [gen |-> used.gens + 1, ctime |-> 0] \in Media' /\ Grows
               /\ {used.gens + 1} \subseteq 1 .. used'.gens
    BY <2>1, <2>2, MonitorAssumption DEF FailTypes, Media, Grows
  <2>3. ASSUME Fail!OwnerRemoves
        PROVE  /\ fs' = [fs EXCEPT !.leaf = Fail!NoFile, !.made = fs.made \cup {},
                                   !.gone = fs.gone \cup {fs.leaf.gen}]
               /\ after' = after \cup {fs'} /\ used' = used
               /\ UNCHANGED <<mounted, saved, mon, proven>>
    BY <1>1, <2>3 DEF Fail!OwnerRemoves, Fail!Change, Folders
  <2>4. ASSUME Fail!OwnerRemoves
        PROVE  Fail!NoFile \in Media' /\ Grows
    BY <2>3, <2>4, MonitorAssumption DEF FailTypes, Media, Grows
  <2>5. ASSUME Fail!OwnerReplaces
        PROVE  [gen |-> used.gens + 1, ctime |-> 0].gen = used.gens + 1
    OBVIOUS
  <2>6. CASE Fail!OwnerReplaces
    BY <2>1, <2>2, <2>5, <2>6 DEF FailTypes
  <2>7. CASE Fail!OwnerRemoves
    <3>1. {} \subseteq {Fail!NoFile.gen} /\ {} \subseteq 1 .. used'.gens
      OBVIOUS
    <3>2. DOMAIN used' = {"gens", "tokens", "jobs", "losses"} /\ used'.tokens = used.tokens
      BY <2>3, <2>7 DEF FailTypes
    <3>3. \E file0, born :
            /\ file0 = Fail!NoFile /\ born = {}
      OBVIOUS
    <3> QED BY <2>3, <2>4, <2>7, <3>1, <3>2, <3>3
  <2> QED BY <2>6, <2>7
<1>3. /\ fs'.leaf = file0 /\ fs'.made = fs.made \cup born /\ fs'.q = fs.q
      /\ fs'.gone = fs.gone \cup {fs.leaf.gen}
  BY <1>1, <1>2 DEF Folders
<1>4. fs' \in Folders'
  <2>1. fs \in Folders'
    BY <1>1, <1>2, TypesGrow
  <2>2. fs.leaf.gen \in Nat
    BY <1>1, Generation DEF Folders, FailTypes
  <2>3. fs.made \cup born \in SUBSET (1 .. used'.gens) /\ fs.gone \cup {fs.leaf.gen} \in SUBSET Nat
    BY <1>2, <2>1, <2>2 DEF Folders
  <2> QED BY <1>2, <2>1, <2>3 DEF Folders
<1>5. Accounted(fs)'
  <2> SUFFICES ASSUME NEW g \in fs'.made \ fs'.gone
               PROVE  Fail!Holds(fs', g) \/ proven'[g] >= MinDelete
    BY DEF Accounted, Fail!Holds
  <2>1. CASE g \in born
    BY <1>2, <1>3, <2>1 DEF Fail!Holds
  <2>2. CASE g \notin born
    <3>1. g \in fs.made \ fs.gone /\ g # fs.leaf.gen
      BY <1>3, <2>2
    <3>2. Fail!Holds(fs, g) \/ proven[g] >= MinDelete
      BY <1>1, <3>1 DEF Accounted
    <3> QED BY <1>2, <1>3, <3>1, <3>2 DEF Fail!Holds
  <2> QED BY <2>1, <2>2
<1>6. QuarantinesClean(fs)'
  BY <1>1, <1>2, <1>3 DEF QuarantinesClean
<1>7. FoldersKept'
  BY <1>2, <1>4, <1>5, <1>6, FoldersStep
<1>8. FailTypes' /\ Evident(mon.target)' /\ Evident(saved.target)'
  BY <1>2, TypesGrow, EvidenceGrows, MonitorAssumption DEF FailTypes, Grows
<1>9. OwnQuarantine'
  BY <1>2, <1>3 DEF OwnQuarantine, Fail!Quarantine
<1> QED BY <1>7, <1>8, <1>9

\* The library is mounted or unmounted, a worker starts or ends, the monitor
\* dies, or the machine loses its power.
LEMMA WorldKeeps ==
    ASSUME MediaInv,
           \/ Fail!Mount \/ Fail!WorkerStarts \/ Fail!WorkerEnds \/ Fail!LineLost
           \/ Fail!Crash \/ Fail!PowerLoss
    PROVE  MediaInv'
<1> USE DEF MediaInv
<1>0. Fail!NoTarget \in Targets /\ Evident(Fail!NoTarget)
  <2>1. Fail!NoFile \in Media /\ 0 \in 0 .. used.tokens
    BY MonitorAssumption DEF Media, FailTypes
  <2>2. Fail!NoTarget \in Targets
    BY <2>1 DEF Targets, Statuses, Fail!NoTarget
  <2> QED BY <2>2 DEF Evident, Fail!NoTarget
<1>1. CASE Fail!Mount \/ Fail!WorkerStarts \/ Fail!WorkerEnds \/ Fail!LineLost
  <2>1. /\ Fail!Still /\ UNCHANGED <<proven, mon, saved>> /\ mounted' \in BOOLEAN
        /\ DOMAIN used' = {"gens", "tokens", "jobs", "losses"}
        /\ used'.gens = used.gens /\ used'.tokens = used.tokens
    BY <1>1 DEF Fail!Mount, Fail!WorkerStarts, Fail!WorkerEnds, Fail!LineLost, FailTypes
  <2>2. OwnQuarantine'
    BY <2>1 DEF OwnQuarantine, Fail!Quarantine, Fail!Still
  <2>3. mon'.target = mon.target /\ saved'.target = saved.target
    BY <2>1
  <2>4. /\ DOMAIN mon' = MonitorFields /\ mon.target \in Targets /\ saved.target \in Targets
        /\ Evident(mon.target) /\ Evident(saved.target)
    BY <2>1 DEF FailTypes
  <2> QED BY <2>1, <2>2, <2>3, <2>4, TargetsKeep
<1>2. ASSUME mon' = Fail!MonitorDown
      PROVE  /\ DOMAIN mon' = MonitorFields /\ mon'.target = Fail!NoTarget
             /\ mon'.pc \notin Deletion /\ OwnQuarantine'
  BY <1>2 DEF Fail!MonitorDown, MonitorFields, OwnQuarantine, Deletion, AtQuarantine,
              WithCandidate
<1>3. CASE Fail!Crash
  <2>1. /\ Fail!Still /\ UNCHANGED <<proven, saved>> /\ mounted' \in BOOLEAN
        /\ DOMAIN used' = {"gens", "tokens", "jobs", "losses"}
        /\ used'.gens = used.gens /\ used'.tokens = used.tokens
        /\ mon' = Fail!MonitorDown
    BY <1>3 DEF Fail!Crash, FailTypes
  <2>2. saved'.target = saved.target /\ saved.target \in Targets /\ Evident(saved.target)
    BY <2>1 DEF FailTypes
  <2> QED BY <1>0, <1>2, <2>1, <2>2, TargetsKeep
<1>4. CASE Fail!PowerLoss
  <2>1. /\ UNCHANGED <<proven, saved, mounted>>
        /\ DOMAIN used' = {"gens", "tokens", "jobs", "losses"}
        /\ used'.gens = used.gens /\ used'.tokens = used.tokens
        /\ mon' = Fail!MonitorDown /\ fs' \in after /\ after' = {fs'}
    BY <1>4 DEF Fail!PowerLoss, FailTypes
  <2>2. Grows
    BY <2>1, MonitorAssumption DEF Grows, FailTypes
  <2>3. FoldersKept'
    BY <2>1, <2>2, FoldersStep
  <2>4. Targets' = Targets
    BY <2>1 DEF Targets, Media
  <2>5. FailTypes'
    BY <1>0, <1>2, <2>1, <2>4 DEF FailTypes
  <2>6. Evident(mon.target)' /\ Evident(saved.target)'
    BY <1>0, <1>2, <2>1 DEF Evident
  <2> QED BY <1>2, <2>1, <2>3, <2>5, <2>6
<1> QED BY <1>1, <1>3, <1>4

\* A crash is recorded beside the target.
LEMMA CrashBeside ==
    ASSUME DOMAIN mon = MonitorFields, NEW f, NEW m, m = Fail!CrashRecorded(mon, f)
    PROVE  DOMAIN m = MonitorFields /\ m.target = mon.target /\ m.pc = mon.pc
BY DEF MonitorFields, Fail!CrashRecorded

\* Lines that record no failure of the file, and the summary.
LEMMA RecordsKeep ==
    ASSUME MediaInv,
           Fail!RecordStart \/ Fail!RecordOther \/ Fail!RecordCrash \/ Fail!WriteSummary
    PROVE  MediaInv'
<1> USE DEF MediaInv
<1>1. DOMAIN mon = MonitorFields
  BY DEF FailTypes
<1>2. /\ Fail!Still /\ UNCHANGED <<proven, mounted, used>>
      /\ DOMAIN mon' = MonitorFields /\ mon'.target = mon.target
      /\ mon'.pc = "idle"
      /\ saved'.target \in {saved.target, mon.target}
  <2> DEFINE m == Fail!CrashRecorded(mon, mon.active)
  <2>0. DOMAIN m = MonitorFields /\ m.target = mon.target /\ m.pc = mon.pc
    BY <1>1, CrashBeside
  <2>1. CASE Fail!RecordStart
    <3>1. /\ Fail!Still /\ UNCHANGED <<proven, mounted, used>> /\ mon.pc = "idle"
          /\ \/ mon' = [mon EXCEPT !.active = line.file] /\ saved' = saved
             \/ mon' = [m EXCEPT !.active = line.file] /\ Fail!SaveState(m)
      BY <2>1 DEF Fail!RecordStart
    <3> HIDE DEF m
    <3> QED BY <1>1, <2>0, <3>1 DEF MonitorFields, Fail!SaveState
  <2>2. CASE Fail!RecordOther
    BY <1>1, <2>2 DEF MonitorFields, Fail!RecordOther
  <2>3. CASE Fail!RecordCrash
    <3>1. /\ Fail!Still /\ UNCHANGED <<proven, mounted, used>> /\ mon.pc = "idle"
          /\ \/ mon' = mon /\ saved' = saved
             \/ mon' = [m EXCEPT !.active = Fail!NoFile] /\ Fail!SaveState(m)
      BY <2>3 DEF Fail!RecordCrash
    <3> HIDE DEF m
    <3> QED BY <1>1, <2>0, <3>1 DEF MonitorFields, Fail!SaveState
  <2>4. CASE Fail!WriteSummary
    BY <1>1, <2>4 DEF MonitorFields, Fail!WriteSummary, Fail!SaveState
  <2> QED BY <2>1, <2>2, <2>3, <2>4
<1>3. OwnQuarantine'
  BY <1>2 DEF OwnQuarantine, Deletion, AtQuarantine, WithCandidate
<1>4. /\ mon'.target \in Targets /\ Evident(mon'.target)
      /\ saved'.target \in Targets /\ Evident(saved'.target) /\ mounted \in BOOLEAN
      /\ DOMAIN used = {"gens", "tokens", "jobs", "losses"}
  BY <1>2 DEF FailTypes
<1> QED BY <1>2, <1>3, <1>4, TargetsKeep

\* The entry after one more failure of a file that is at the path: a new one,
\* or the old one with its counts advanced.
LEMMA RecordedEntry ==
    ASSUME FailTypes, NEW t \in Targets, NEW f \in Media, NEW invalid \in BOOLEAN, NEW r,
           r = Fail!Recorded(t, f, invalid)
    PROVE  /\ r \in Targets /\ r.file = f /\ r.status # "deleted" /\ r.status \notin Settled
           /\ \/ r.token = 0 /\ r.invalid = IF invalid THEN 1 ELSE 0
              \/ /\ t.file = f /\ r.intent = t.intent /\ r.token = t.token
                 /\ r.invalid = IF invalid THEN t.invalid + 1 ELSE t.invalid
<1> DEFINE fresh == t.status \in Fail!Terminal \cup {"none"} \/ t.file # f
           begun == [Fail!NoTarget EXCEPT !.count = 1, !.file = f]
           again == [t EXCEPT !.count = t.count + 1]
           proof0 == IF invalid THEN f ELSE Fail!NoFile
<1>0. Fail!NoFile \in Media /\ 0 \in 0 .. used.tokens /\ proof0 \in Media
  BY MonitorAssumption DEF Media, FailTypes
<1>1. CASE fresh
  <2> DEFINE n == IF invalid THEN 1 ELSE 0
  <2>1. begun \in Targets /\ begun.file = f /\ begun.invalid = 0 /\ begun.token = 0
    BY <1>0 DEF Fail!NoTarget, Targets, Statuses
  <2> HIDE DEF begun
  <2>2. r = [begun EXCEPT !.status = "counted", !.proof = proof0,
                          !.invalid = IF invalid THEN begun.invalid + 1 ELSE begun.invalid]
    BY <1>1 DEF Fail!Recorded, begun
  <2>3. n \in Nat /\ n = IF invalid THEN begun.invalid + 1 ELSE begun.invalid
    BY <2>1
  <2> HIDE DEF proof0, n
  <2>4. r = [begun EXCEPT !.status = "counted", !.proof = proof0, !.invalid = n]
    BY <2>2, <2>3
  <2>5. r \in Targets /\ r.file = f /\ r.token = 0 /\ r.invalid = n /\ r.status = "counted"
    BY <1>0, <2>1, <2>3, <2>4 DEF Targets, Statuses
  <2>6. "counted" \notin Settled
    BY DEF Settled, Fail!Resumed
  <2> QED BY <2>5, <2>6 DEF n
<1>2. CASE ~fresh
  <2> DEFINE n == IF invalid THEN t.invalid + 1 ELSE t.invalid
  <2>1. again \in Targets /\ again.file = t.file /\ again.invalid = t.invalid
        /\ again.token = t.token /\ again.intent = t.intent /\ again.status = t.status
    BY DEF Targets
  <2> HIDE DEF again
  <2>2. r = [again EXCEPT !.status = again.status, !.proof = proof0,
                          !.invalid = IF invalid THEN again.invalid + 1 ELSE again.invalid]
    BY <1>2 DEF Fail!Recorded, again
  <2>3. n \in Nat /\ n = IF invalid THEN again.invalid + 1 ELSE again.invalid
    BY <2>1 DEF Targets
  <2> HIDE DEF proof0, n
  <2>4. r = [again EXCEPT !.status = again.status, !.proof = proof0, !.invalid = n]
    BY <2>2, <2>3
  <2>5. r \in Targets /\ r.file = t.file /\ r.token = t.token /\ r.intent = t.intent
        /\ r.invalid = n /\ r.status = t.status
    BY <1>0, <2>1, <2>3, <2>4 DEF Targets
  <2>6. t.file = f /\ t.status # "deleted" /\ t.status \notin Settled
    BY <1>2 DEF Fail!Terminal, Settled
  <2> QED BY <2>5, <2>6 DEF n
<1> QED BY <1>1, <1>2

\* A failure line: the count of proofs and the entry grow together.
LEMMA FailureKeeps ==
    ASSUME MediaInv, Fail!RecordProcessingError
    PROVE  MediaInv'
<1> USE DEF MediaInv
<1> DEFINE invalid == line.kind = "invalid"
           entry == Fail!Recorded(mon.target, line.file, invalid)
<1>1. /\ DOMAIN mon = MonitorFields /\ mon.target \in Targets /\ mon.pc = "idle"
      /\ saved.target \in Targets /\ Fail!Still /\ UNCHANGED <<mounted, used>>
      /\ mounted \in BOOLEAN /\ DOMAIN used = {"gens", "tokens", "jobs", "losses"}
  BY DEF FailTypes, Fail!RecordProcessingError
<1>2. \/ /\ mon' = [mon EXCEPT !.active = Fail!NoFile] /\ UNCHANGED proven
         /\ saved'.target \in {saved.target, mon.target}
      \/ /\ mon' = [[mon EXCEPT !.active = Fail!NoFile] EXCEPT !.target = entry,
                                                               !.pc = "marking"]
         /\ proven' = IF invalid THEN [proven EXCEPT ![line.file.gen] = proven[line.file.gen] + 1]
                      ELSE proven
         /\ UNCHANGED saved /\ Fail!Validated(line.file) = "valid"
  BY DEF Fail!RecordProcessingError, Fail!SaveState
<1>3. CASE /\ mon' = [mon EXCEPT !.active = Fail!NoFile] /\ UNCHANGED proven
           /\ saved'.target \in {saved.target, mon.target}
  <2>1. DOMAIN mon' = MonitorFields /\ mon'.target = mon.target /\ mon'.pc = "idle"
    BY <1>1, <1>3 DEF MonitorFields
  <2>2. OwnQuarantine'
    BY <2>1 DEF OwnQuarantine, Deletion, AtQuarantine, WithCandidate
  <2>3. saved'.target \in Targets /\ Evident(saved'.target) /\ Evident(mon'.target)
    BY <1>1, <1>3, <2>1
  <2> QED BY <1>1, <1>3, <2>1, <2>2, <2>3, TargetsKeep
<1>4. CASE /\ mon' = [[mon EXCEPT !.active = Fail!NoFile] EXCEPT !.target = entry,
                                                                 !.pc = "marking"]
           /\ proven' = IF invalid THEN [proven EXCEPT ![line.file.gen] = proven[line.file.gen] + 1]
                        ELSE proven
           /\ UNCHANGED saved /\ Fail!Validated(line.file) = "valid"
  <2>1. line.file \in Media /\ line.file # Fail!NoFile
    BY <1>4 DEF Fail!Validated, FoldersKept, Folders
  <2>2. line.file.gen \in 1 .. MaxGenerations
    BY <2>1, Generation
  <2>3. DOMAIN mon' = MonitorFields /\ mon'.target = entry /\ mon'.pc = "marking"
    BY <1>1, <1>4 DEF MonitorFields
  <2>4. /\ proven' \in [1 .. MaxGenerations -> Nat]
        /\ \A g \in 1 .. MaxGenerations : proven'[g] >= proven[g]
        /\ invalid => proven'[line.file.gen] = proven[line.file.gen] + 1
    BY <1>4, <2>2 DEF FailTypes
  <2>5. Grows
    BY <1>1, <2>4, MonitorAssumption DEF Grows, FailTypes
  <2>6. /\ entry \in Targets /\ entry.file = line.file
        /\ \/ entry.token = 0 /\ entry.invalid = IF invalid THEN 1 ELSE 0
           \/ /\ mon.target.file = line.file /\ entry.intent = mon.target.intent
              /\ entry.token = mon.target.token
              /\ entry.invalid = IF invalid THEN mon.target.invalid + 1 ELSE mon.target.invalid
    <3>1. invalid \in BOOLEAN
      OBVIOUS
    <3> HIDE DEF invalid
    <3> QED BY <1>1, <2>1, <3>1, RecordedEntry
  <2>7. Evident(mon.target)'
    <3>1. /\ proven[line.file.gen] \in Nat /\ proven'[line.file.gen] \in Nat
          /\ proven'[line.file.gen] >= proven[line.file.gen] /\ mon.target.invalid \in Nat
      BY <1>1, <2>2, <2>4 DEF FailTypes, Targets
    <3> HIDE DEF entry, invalid
    <3>2. CASE entry.token = 0 /\ entry.invalid = IF invalid THEN 1 ELSE 0
      <4>1. proven'[line.file.gen] >= entry.invalid
        BY <2>4, <3>1, <3>2
      <4> QED BY <2>3, <2>6, <3>2, <4>1 DEF Evident
    <3>3. CASE /\ mon.target.file = line.file /\ entry.intent = mon.target.intent
               /\ entry.token = mon.target.token
               /\ entry.invalid = IF invalid THEN mon.target.invalid + 1 ELSE mon.target.invalid
      <4>1. Evident(mon.target)
        OBVIOUS
      <4>2. proven[line.file.gen] >= mon.target.invalid
        BY <2>1, <3>3, <4>1 DEF Evident
      <4>3. proven'[line.file.gen] >= entry.invalid
        BY <2>4, <3>1, <3>3, <4>2
      <4>4. entry.token # 0 => /\ entry.intent # Fail!NoFile
                               /\ proven'[entry.intent.gen] >= MinDelete
        <5>2. mon.target.token # 0 =>
                (mon.target.intent # Fail!NoFile /\ proven[mon.target.intent.gen] >= MinDelete
                 /\ mon.target.intent.gen \in 1 .. MaxGenerations)
          BY <1>1, <4>1, Generation DEF Evident, Targets
        <5>3. \A g \in 1 .. MaxGenerations :
                 proven[g] \in Nat /\ proven'[g] \in Nat /\ proven'[g] >= proven[g]
          BY <2>4 DEF FailTypes
        <5> QED BY <3>3, <5>2, <5>3, MonitorAssumption
      <4> QED BY <2>3, <2>6, <4>3, <4>4 DEF Evident
    <3> QED BY <2>6, <3>2, <3>3
  <2>8. saved'.target \in Targets' /\ mon'.target \in Targets' /\ Evident(saved.target)'
    <3>1. Evident(saved.target) /\ saved' = saved
      BY <1>4
    <3> QED BY <1>1, <2>3, <2>5, <2>6, <3>1, TypesGrow, EvidenceGrows
  <2>9. OwnQuarantine'
    BY <2>3 DEF OwnQuarantine, Deletion, AtQuarantine, WithCandidate
  <2> QED BY <1>1, <2>3, <2>5, <2>7, <2>8, <2>9, MonitorKeeps
<1> QED BY <1>2, <1>3, <1>4

\* The marker, and the decision to delete.
LEMMA DecisionKeeps ==
    ASSUME MediaInv, NEW written \in BOOLEAN,
           Fail!PersistFailureMarker(written) \/ Fail!TryDeletePath
    PROVE  MediaInv'
<1> USE DEF MediaInv
<1>1. /\ DOMAIN mon = MonitorFields /\ mon.target \in Targets /\ saved.target \in Targets
      /\ mounted \in BOOLEAN /\ DOMAIN used = {"gens", "tokens", "jobs", "losses"}
      /\ Evident(mon.target) /\ Evident(saved.target)
  BY DEF FailTypes
<1>2. ASSUME Fail!Still, UNCHANGED <<mounted, used, proven, saved>>, DOMAIN mon' = MonitorFields,
             mon'.pc \in {"deciding", "summary"}, NEW s \in Statuses, NEW b \in BOOLEAN,
             mon'.target = [mon.target EXCEPT !.status = s, !.marked = b]
      PROVE  MediaInv'
  <2>1. OwnQuarantine'
    BY <1>2 DEF OwnQuarantine, Deletion, AtQuarantine, WithCandidate
  <2>2. mon'.target \in Targets
    BY <1>1, <1>2 DEF Targets
  <2>3. Evident(mon'.target)
    BY <1>1, <1>2 DEF Targets, Evident
  <2> QED BY <1>1, <1>2, <2>1, <2>2, <2>3, TargetsKeep
<1>3. CASE Fail!PersistFailureMarker(written)
  <2>1. PICK b \in BOOLEAN, p \in {"deciding", "summary"} :
          mon' = [mon EXCEPT !.target.marked = b, !.pc = p]
    BY <1>3 DEF Fail!PersistFailureMarker
  <2>2. /\ DOMAIN mon' = MonitorFields /\ mon'.pc = p
        /\ mon'.target = [mon.target EXCEPT !.status = mon.target.status, !.marked = b]
        /\ mon.target.status \in Statuses
    BY <1>1, <2>1 DEF MonitorFields, Targets
  <2>3. Fail!Still /\ UNCHANGED <<mounted, used, proven, saved>>
    BY <1>3 DEF Fail!PersistFailureMarker
  <2> QED BY <1>2, <2>1, <2>2, <2>3
<1>4. CASE Fail!TryDeletePath
  <2> DEFINE intent == [mon.target EXCEPT !.status = "deleting", !.intent = mon.target.proof,
                                          !.token = used.tokens + 1]
  <2>1. /\ Fail!Still /\ UNCHANGED <<mounted, proven>> /\ used.tokens < MaxTokens
        /\ \/ /\ Fail!MarkerAllowsDelete(mon.target)
              /\ mon' = [mon EXCEPT !.target = intent, !.pc = "open", !.mode = "live"]
              /\ Fail!SaveState(mon') /\ used' = [used EXCEPT !.tokens = used.tokens + 1]
           \/ /\ \E s \in {"waiting", "missing", "blocked"} :
                    mon' = [mon EXCEPT !.pc = "summary", !.target.status = s]
              /\ UNCHANGED <<saved, used>>
    BY <1>4 DEF Fail!TryDeletePath
  <2>2. ASSUME NEW s \in {"waiting", "missing", "blocked"},
               mon' = [mon EXCEPT !.pc = "summary", !.target.status = s], UNCHANGED <<saved, used>>
        PROVE  MediaInv'
    <3>1. /\ DOMAIN mon' = MonitorFields /\ mon'.pc = "summary" /\ s \in Statuses
          /\ mon'.target = [mon.target EXCEPT !.status = s, !.marked = mon.target.marked]
          /\ mon.target.marked \in BOOLEAN
      BY <1>1, <2>2 DEF MonitorFields, Targets, Statuses
    <3> QED BY <1>2, <2>1, <2>2, <3>1
  <2>3. ASSUME Fail!MarkerAllowsDelete(mon.target),
               mon' = [mon EXCEPT !.target = intent, !.pc = "open", !.mode = "live"],
               Fail!SaveState(mon'), used' = [used EXCEPT !.tokens = used.tokens + 1]
        PROVE  MediaInv'
    <3>1. /\ DOMAIN mon' = MonitorFields /\ mon'.pc = "open" /\ mon'.target = intent
          /\ saved'.target = intent
      BY <1>1, <2>3 DEF MonitorFields, Fail!SaveState
    <3>2. /\ used'.tokens = used.tokens + 1 /\ used'.gens = used.gens
          /\ DOMAIN used' = {"gens", "tokens", "jobs", "losses"}
      BY <1>1, <2>3
    <3>3. Grows
      BY <2>1, <3>2, MonitorAssumption DEF Grows, FailTypes
    <3>4. /\ intent.intent = mon.target.proof /\ intent.token = used.tokens + 1
          /\ intent.file = mon.target.file /\ intent.invalid = mon.target.invalid
      BY <1>1 DEF Targets
    <3>5. intent \in Targets'
      <4>1. mon.target \in Targets'
        BY <1>1, <3>3, TypesGrow
      <4>2. used.tokens + 1 \in 0 .. used'.tokens
        BY <3>2, MonitorAssumption DEF FailTypes
      <4> QED BY <4>1, <4>2 DEF Targets, Statuses
    <3>6. mon.target.proof # Fail!NoFile /\ mon.target.proof = mon.target.file
          /\ mon.target.invalid >= MinDelete
      BY <2>3 DEF Fail!MarkerAllowsDelete, Fail!HasProof
    <3>7. proven[mon.target.file.gen] >= MinDelete
      <4>1. mon.target.file.gen \in 1 .. MaxGenerations /\ mon.target.invalid \in Nat
        BY <1>1, <3>6, Generation DEF Targets
      <4>2. proven[mon.target.file.gen] >= mon.target.invalid
        BY <1>1, <3>6 DEF Evident
      <4>3. proven[mon.target.file.gen] \in Nat /\ MinDelete \in Nat
        BY <1>1, <4>1, MonitorAssumption DEF FailTypes
      <4> QED BY <3>6, <4>1, <4>2, <4>3
    <3> HIDE DEF intent
    <3>8. Evident(mon.target)' /\ Evident(saved.target)'
      BY <1>1, <2>1, <3>1, <3>4, <3>6, <3>7 DEF Evident
    <3>9. OwnQuarantine'
      <4>1. mon'.target.token # 0
        BY <3>1, <3>4, MonitorAssumption DEF FailTypes
      <4> QED BY <3>1, <4>1 DEF OwnQuarantine, Deletion, AtQuarantine, WithCandidate
    <3> QED BY <1>1, <2>1, <3>1, <3>2, <3>3, <3>5, <3>8, <3>9, MonitorKeeps
  <2> QED BY <2>1, <2>2, <2>3
<1> QED BY <1>3, <1>4

\* A target whose status changes, and that may drop its intent.
LEMMA TargetSettled ==
    ASSUME FailTypes, NEW t \in Targets, Evident(t), NEW s \in Statuses
    PROVE  /\ [t EXCEPT !.status = s] \in Targets /\ Evident([t EXCEPT !.status = s])
           /\ [t EXCEPT !.status = s].token = t.token
           /\ [[t EXCEPT !.status = s] EXCEPT !.intent = Fail!NoFile, !.token = 0] \in Targets
           /\ Evident([[t EXCEPT !.status = s] EXCEPT !.intent = Fail!NoFile, !.token = 0])
<1>1. Fail!NoFile \in Media /\ 0 \in 0 .. used.tokens
  BY MonitorAssumption DEF Media, FailTypes
<1>2. /\ [t EXCEPT !.status = s] \in Targets
      /\ [[t EXCEPT !.status = s] EXCEPT !.intent = Fail!NoFile, !.token = 0] \in Targets
  BY <1>1 DEF Targets
<1>3. /\ Evident([t EXCEPT !.status = s])
      /\ Evident([[t EXCEPT !.status = s] EXCEPT !.intent = Fail!NoFile, !.token = 0])
  BY DEF Evident, Targets
<1> QED BY <1>2, <1>3 DEF Targets

\* What a deletion comes to.
LEMMA FinalStatuses ==
    ASSUME mon.outcome \in Outcomes
    PROVE  /\ Fail!FinalStatus \in Statuses
           /\ Fail!FinalStatus = "deleted" => mon.outcome = "deleted" /\ mon.mode = "live"
           /\ Fail!FinalStatus \in Settled => mon.outcome = "deleted"
BY DEF Fail!FinalStatus, Statuses, Settled, Outcomes, Fail!Resumed

\* The end of a deletion, and the start of a monitor that may resume one.
LEMMA MonitorSettles ==
    ASSUME MediaInv, NEW deletes \in BOOLEAN, NEW readable \in BOOLEAN,
           Fail!FinishDeleteOutcome \/ Fail!StartMonitor(deletes, readable)
    PROVE  MediaInv'
<1> USE DEF MediaInv
<1>1. /\ DOMAIN mon = MonitorFields /\ mon.target \in Targets /\ saved.target \in Targets
      /\ mounted \in BOOLEAN /\ DOMAIN used = {"gens", "tokens", "jobs", "losses"}
      /\ Evident(mon.target) /\ Evident(saved.target)
  BY DEF FailTypes
<1>2. CASE Fail!FinishDeleteOutcome
  <2> DEFINE t == [mon.target EXCEPT !.status = Fail!FinalStatus]
             dropped0 == [t EXCEPT !.intent = Fail!NoFile, !.token = 0]
  <2>1. /\ mon.pc = "finish" /\ Fail!Still /\ UNCHANGED <<mounted, proven, used>>
        /\ Fail!SaveState(mon')
        /\ \/ mon' = [mon EXCEPT !.pc = "summary", !.outcome = "none", !.target = t]
           \/ mon' = [mon EXCEPT !.pc = "summary", !.outcome = "none", !.target = dropped0]
    BY <1>2 DEF Fail!FinishDeleteOutcome
  <2>2. Fail!FinalStatus \in Statuses
    BY <2>1, FinalStatuses DEF OwnQuarantine
  <2>3. t \in Targets /\ Evident(t) /\ dropped0 \in Targets /\ Evident(dropped0)
    BY <1>1, <2>2, TargetSettled
  <2> HIDE DEF t, dropped0
  <2>4. /\ DOMAIN mon' = MonitorFields /\ mon'.pc = "summary" /\ mon'.target \in {t, dropped0}
        /\ saved'.target = mon'.target
    BY <1>1, <2>1 DEF MonitorFields, Fail!SaveState
  <2>5. OwnQuarantine'
    BY <2>4 DEF OwnQuarantine, Deletion, AtQuarantine, WithCandidate
  <2> QED BY <1>1, <2>1, <2>3, <2>4, <2>5, TargetsKeep
<1>3. CASE Fail!StartMonitor(deletes, readable)
  <2> DEFINE loaded == IF readable THEN saved.target ELSE Fail!NoTarget
  <2>1. Fail!NoTarget \in Targets /\ Evident(Fail!NoTarget)
    <3>1. Fail!NoFile \in Media /\ 0 \in 0 .. used.tokens
      BY MonitorAssumption DEF Media, FailTypes
    <3>2. Fail!NoTarget \in Targets
      BY <3>1 DEF Targets, Statuses, Fail!NoTarget
    <3> QED BY <3>2 DEF Evident, Fail!NoTarget
  <2>2. loaded \in Targets /\ Evident(loaded)
    BY <1>1, <2>1
  <2> HIDE DEF loaded
  <2>3. PICK s \in Statuses, p \in {"open", "summary"} :
          /\ DOMAIN mon' = MonitorFields /\ mon'.pc = p
          /\ mon'.target = [loaded EXCEPT !.status = s]
          /\ p = "open" => loaded.token # 0
    <3> DEFINE open == loaded.status \in {"deleting", "delete_paused"}
               s0 == IF ~open THEN loaded.status
                     ELSE IF ~Fail!Resumable(loaded) THEN "blocked_recovery"
                     ELSE IF deletes THEN "deleting" ELSE "delete_paused"
               p0 == IF open /\ s0 = "deleting" THEN "open" ELSE "summary"
    <3>1. mon' = [Fail!MonitorDown EXCEPT !.pc = p0, !.mode = "recover", !.deletes = deletes,
                      !.safe = readable, !.target = [loaded EXCEPT !.status = s0],
                      !.crash = IF readable THEN saved.crash ELSE Fail!NoCrash]
      BY <1>3 DEF Fail!StartMonitor, loaded
    <3>2. s0 \in Statuses /\ p0 \in {"open", "summary"}
      BY <2>2 DEF Statuses, Targets
    <3>3. p0 = "open" => loaded.token # 0
      BY DEF Fail!Resumable
    <3> HIDE DEF s0, p0
    <3>4. DOMAIN mon' = MonitorFields /\ mon'.pc = p0 /\ mon'.target = [loaded EXCEPT !.status = s0]
      BY <3>1 DEF Fail!MonitorDown, MonitorFields
    <3> QED BY <3>2, <3>3, <3>4
  <2>4. /\ mon'.target \in Targets /\ Evident(mon'.target) /\ mon'.target.token = loaded.token
    BY <2>2, <2>3, TargetSettled
  <2>5. OwnQuarantine'
    BY <2>3, <2>4 DEF OwnQuarantine, Deletion, AtQuarantine, WithCandidate
  <2>6. Fail!Still /\ UNCHANGED <<mounted, proven, used, saved>>
    BY <1>3 DEF Fail!StartMonitor
  <2> QED BY <1>1, <2>3, <2>4, <2>5, <2>6, TargetsKeep
<1> QED BY <1>2, <1>3

\* Every step keeps what is known of the library.
LEMMA MediaStep ==
    ASSUME MediaInv, Fail!FailNext
    PROVE  MediaInv'
<1> USE OpenKeeps, MoveKeeps, RestoreKeeps, UnlinkKeeps, CompletionKeeps, OwnerKeeps, WorldKeeps,
        RecordsKeep, FailureKeeps, DecisionKeeps, MonitorSettles
<1>1. CASE \/ Fail!OwnerReplaces \/ Fail!OwnerRemoves \/ Fail!Mount \/ Fail!Crash
           \/ Fail!PowerLoss \/ Fail!WorkerStarts \/ Fail!WorkerEnds \/ Fail!LineLost
  BY <1>1
<1>2. CASE \/ Fail!RecordStart \/ Fail!RecordProcessingError \/ Fail!RecordOther
           \/ Fail!RecordCrash \/ Fail!TryDeletePath \/ Fail!InspectQuarantine
           \/ Fail!Revalidate \/ Fail!CompletePrivateDelete \/ Fail!FinishDeleteOutcome
           \/ Fail!WriteSummary
  BY <1>2
<1>3. ASSUME NEW b \in BOOLEAN,
             \/ Fail!PersistFailureMarker(b) \/ Fail!OpenQuarantine(b) \/ Fail!MoveToQuarantine(b)
             \/ Fail!SyncMove(b) \/ Fail!RestoreLink(b) \/ Fail!EnsureTombstone(b)
             \/ Fail!UnlinkCandidate(b) \/ Fail!SyncQuarantine(b) \/ Fail!ConfirmCompleted(b)
             \/ \E c \in BOOLEAN : Fail!RestoreUnlink(b, c) \/ Fail!StartMonitor(b, c)
      PROVE  MediaInv'
  BY <1>3
<1> QED BY <1>1, <1>2, <1>3 DEF Fail!FailNext

\* A monitor at its start.
LEMMA MediaStart ==
    Fail!FailInit => MediaInv
<1> SUFFICES ASSUME Fail!FailInit
             PROVE  MediaInv
  OBVIOUS
<1>1. /\ used.gens = 1 /\ used.tokens = 0 /\ DOMAIN used = {"gens", "tokens", "jobs", "losses"}
  BY DEF Fail!FailInit
<1>2. Fail!NoFile \in Media /\ [gen |-> 1, ctime |-> 0] \in Media /\ 0 \in 0 .. used.tokens
  BY <1>1 DEF Media
<1>3. Fail!NoTarget \in Targets /\ Evident(Fail!NoTarget)
  BY <1>2 DEF Targets, Statuses, Fail!NoTarget, Evident
<1>4. /\ DOMAIN mon = MonitorFields /\ mon.target = Fail!NoTarget /\ mon.pc = "down"
      /\ saved.target = Fail!NoTarget
  BY DEF Fail!FailInit, Fail!MonitorDown, MonitorFields
<1>5. FailTypes
  BY <1>1, <1>3, <1>4, MonitorAssumption DEF FailTypes, Fail!FailInit
<1>6. Fail!Empty \in Boxes
  BY <1>2 DEF Fail!Empty, Boxes
<1>7. /\ fs.leaf = [gen |-> 1, ctime |-> 0] /\ fs.q = [t \in 1 .. MaxTokens |-> Fail!Empty]
      /\ fs.made = {1} /\ fs.gone = {} /\ after = {fs}
      /\ fs = [leaf |-> fs.leaf, q |-> fs.q, made |-> fs.made, gone |-> fs.gone]
  BY DEF Fail!FailInit
<1>8. fs \in Folders
  <2>1. fs.q \in [1 .. MaxTokens -> Boxes] /\ {1} \in SUBSET (1 .. used.gens)
    BY <1>1, <1>6, <1>7
  <2> QED BY <1>2, <1>7, <2>1 DEF Folders
<1>9. Accounted(fs) /\ QuarantinesClean(fs)
  BY <1>7 DEF Accounted, QuarantinesClean, Fail!Holds, Fail!Empty
<1>10. OwnQuarantine
  BY <1>4 DEF OwnQuarantine, Deletion, AtQuarantine, WithCandidate
<1> QED BY <1>3, <1>4, <1>5, <1>7, <1>8, <1>9, <1>10 DEF MediaInv, FoldersKept

\* What a step of the composition is for the failure monitor.
LEMMA MonitorPart ==
    /\ OpsInit => Fail!FailInit
    /\ [OpsNext]_opsVars => Fail!FailNext \/ UNCHANGED failVars
BY Zenon DEF OpsInit, OpsNext, opsVars

\* Whatever the owner did to the path meanwhile, and wherever the monitor or
\* the machine stopped: a file its owner did not remove is in the library or
\* in a quarantine, unless both validators reported that very generation
\* invalid often enough; for any number of deletions, generations, crashes
\* and thresholds (subgen_ops_safety.py, secure_unlink_regular_beneath).
THEOREM OnlyProvenAreDestroyed == OpsSpec => []OnlyProvenMediaDestroyed
<1>1. OpsInit => MediaInv
  BY MonitorPart, MediaStart
<1>2. MediaInv /\ [OpsNext]_opsVars => MediaInv'
  <2>1. ASSUME MediaInv, UNCHANGED failVars
        PROVE  MediaInv'
    BY <2>1
    DEF failVars, MediaInv, FailTypes, FoldersKept, Folders, Boxes, Media, Targets, Accounted,
        QuarantinesClean, Evident, OwnQuarantine, Fail!Quarantine
  <2> QED BY <2>1, MediaStep, MonitorPart
<1>3. MediaInv => OnlyProvenMediaDestroyed
  BY DEF MediaInv, FoldersKept, Accounted, OnlyProvenMediaDestroyed, Fail!OnlyProvenMediaDestroyed
<1> QED BY <1>1, <1>2, <1>3, PTL DEF OpsSpec

-----------------------------------------------------------------------------
(***************************************************************************)
(* A file reported as removed.  GoneInv adds what a live deletion knows of *)
(* its own, new quarantine and of the path; a resumed one ends in another  *)
(* status.                                                                 *)
(***************************************************************************)

\* What is gone stays gone, unless a folder is added that holds the file.
LEMMA GoneStays ==
    ASSUME NEW t, NEW r, r.file = t.file, Gone(t), used'.tokens = used.tokens,
           \A folder \in after' :
              \/ folder \in after
              \/ folder.leaf.gen # t.file.gen /\ folder.q[used.tokens].candidate = Fail!NoFile
    PROVE  Gone(r)'
BY DEF Gone

\* The steps of a monitor that is not deleting, and that takes its targets
\* from the two there are or has not settled them.
LEMMA ReportKept ==
    ASSUME GoneInv, used'.tokens = used.tokens, after' \subseteq after, mon'.pc \notin Deletion,
           \/ mon'.target.status # "deleted"
           \/ mon'.target.file = mon.target.file /\ mon.target.status = "deleted"
           \/ mon'.target.file = saved.target.file /\ saved.target.status = "deleted",
           \/ saved'.target.status # "deleted"
           \/ saved'.target.file = mon.target.file /\ mon.target.status = "deleted"
           \/ saved'.target.file = saved.target.file /\ saved.target.status = "deleted",
           mon'.pc \in {"marking", "deciding"} => mon'.target.status # "deleted"
    PROVE  Live' /\ Reported'
<1>1. ASSUME NEW r, \/ r.file = mon.target.file /\ mon.target.status = "deleted"
                    \/ r.file = saved.target.file /\ saved.target.status = "deleted"
      PROVE  Gone(r)' /\ r.file # Fail!NoFile
  BY <1>1 DEF GoneInv, Reported, Gone
<1>2. mon'.target.status = "deleted" => Gone(mon.target)' /\ mon'.target.file # Fail!NoFile
  BY <1>1
<1>3. saved'.target.status = "deleted" => Gone(saved.target)' /\ saved'.target.file # Fail!NoFile
  BY <1>1
<1>4. Live'
  BY DEF Live
<1> QED BY <1>2, <1>3, <1>4 DEF Reported

\* The owner's new files are none of the old ones.
LEMMA OwnerReports ==
    ASSUME GoneInv, Fail!OwnerReplaces \/ Fail!OwnerRemoves
    PROVE  Live' /\ Reported'
<1> USE DEF GoneInv
<1>1. fs \in Folders /\ fs \in after /\ FailTypes
  BY DEF MediaInv, FoldersKept
<1>2. /\ after' = after \cup {fs'} /\ UNCHANGED <<saved, mon>> /\ used'.tokens = used.tokens
      /\ fs'.q = fs.q /\ fs'.leaf.gen \notin 1 .. used.gens
  <2>1. CASE Fail!OwnerReplaces
    BY <1>1, <2>1, MonitorAssumption DEF Fail!OwnerReplaces, Fail!Change, Folders, FailTypes
  <2>2. CASE Fail!OwnerRemoves
    BY <1>1, <2>2, MonitorAssumption
    DEF Fail!OwnerRemoves, Fail!Change, Folders, FailTypes, Fail!NoFile
  <2> QED BY <2>1, <2>2
<1>3. ASSUME NEW t \in Targets, t.file # Fail!NoFile, Gone(t)
      PROVE  Gone(t)'
  <2>1. t.file.gen \in 1 .. used.gens
    BY <1>1, <1>3, Generation, MonitorAssumption DEF Targets, FailTypes
  <2>2. /\ fs'.leaf.gen # t.file.gen
        /\ fs'.q[used.tokens].candidate = Fail!NoFile
    BY <1>1, <1>2, <1>3, <2>1 DEF Gone
  <2> QED BY <1>2, <1>3, <2>2, GoneStays
<1>4. mon.target \in Targets /\ saved.target \in Targets
  BY <1>1 DEF FailTypes
<1>5. Reported'
  BY <1>2, <1>3, <1>4 DEF Reported
<1>6. ASSUME mon.pc \in Deletion, mon.mode = "live"
      PROVE  /\ mon.target.file # Fail!NoFile /\ mon.target.file.gen \in 1 .. used.gens
             /\ Fail!Quarantine' = Fail!Quarantine
             /\ Fail!Quarantine.candidate # Fail!NoFile =>
                    Fail!Quarantine.candidate.gen \in 1 .. used.gens
  <2>1. mon.target.file # Fail!NoFile
    BY <1>6 DEF Live, MediaInv, OwnQuarantine, Evident
  <2>2. Fail!Quarantine \in Boxes
    BY <1>6, DeletionFinds
  <2>3. mon.target.file \in Media /\ Fail!Quarantine.candidate \in Media
    BY <1>4, <2>2 DEF Targets, Boxes
  <2>4. used.gens \in Nat /\ \A f \in Media : f # Fail!NoFile => f.gen \in 1 .. used.gens
    <3>1. used.gens \in Nat
      BY <1>1, MonitorAssumption DEF FailTypes
    <3>2. ASSUME NEW f \in Media, f # Fail!NoFile
          PROVE  f.gen \in 1 .. used.gens
      <4>1. f.gen \in 0 .. used.gens /\ f.gen # 0
        BY <1>1, <3>2, Generation
      <4> QED BY <3>1, <4>1
    <3> QED BY <3>1, <3>2
  <2>5. Fail!Quarantine' = Fail!Quarantine
    BY <1>2 DEF Fail!Quarantine
  <2> QED BY <2>1, <2>3, <2>4, <2>5
<1>7. Live'
  <2> SUFFICES ASSUME mon.pc \in Deletion, mon.mode = "live"
               PROVE  Live'
    BY <1>2 DEF Live
  <2>1. mon.pc \in {"moved", "revalidate"} => Fail!Quarantine.candidate # Fail!NoFile
    BY DEF MediaInv, OwnQuarantine, WithCandidate
  <2>2. mon.target.file.gen # fs'.leaf.gen
        /\ (mon.pc \in {"moved", "revalidate"} => fs'.leaf.gen # Fail!Quarantine'.candidate.gen)
    BY <1>2, <1>6, <2>1
  <2>3. Gone(mon.target) => Gone(mon.target)'
    BY <1>2, <1>3, <1>4, <1>6
  <2> QED BY <1>2, <1>6, <2>2, <2>3 DEF Live
<1> QED BY <1>5, <1>7

\* The world around the monitor changes nothing of what it reported.
LEMMA WorldReports ==
    ASSUME GoneInv,
           \/ Fail!Mount \/ Fail!WorkerStarts \/ Fail!WorkerEnds \/ Fail!LineLost
           \/ Fail!Crash \/ Fail!PowerLoss
    PROVE  Live' /\ Reported'
<1> USE DEF GoneInv
<1>1. DOMAIN used = {"gens", "tokens", "jobs", "losses"}
  BY DEF MediaInv, FailTypes
<1>2. CASE Fail!Mount \/ Fail!WorkerStarts \/ Fail!WorkerEnds \/ Fail!LineLost
  <2>1. Fail!Still /\ UNCHANGED <<mon, saved>> /\ used'.tokens = used.tokens
    BY <1>1, <1>2 DEF Fail!Mount, Fail!WorkerStarts, Fail!WorkerEnds, Fail!LineLost
  <2> QED BY <2>1 DEF Live, Reported, Gone, Fail!Quarantine, Fail!Still
<1>3. CASE Fail!Crash \/ Fail!PowerLoss
  <2>1. /\ mon' = Fail!MonitorDown /\ saved' = saved /\ used'.tokens = used.tokens
        /\ after' \subseteq after
    BY <1>1, <1>3 DEF Fail!Crash, Fail!PowerLoss, Fail!Still
  <2>2. mon'.pc = "down" /\ mon'.target.status = "none"
    BY <2>1 DEF Fail!MonitorDown, Fail!NoTarget
  <2> QED BY <2>1, <2>2, ReportKept DEF Deletion
<1> QED BY <1>2, <1>3

\* Neither does what it records.
LEMMA RecordReports ==
    ASSUME GoneInv, NEW written \in BOOLEAN,
           \/ Fail!RecordStart \/ Fail!RecordOther \/ Fail!RecordCrash \/ Fail!WriteSummary
           \/ Fail!RecordProcessingError \/ Fail!PersistFailureMarker(written)
    PROVE  Live' /\ Reported'
<1> USE DEF GoneInv, MediaInv
<1>1. DOMAIN mon = MonitorFields /\ mon.target \in Targets /\ FailTypes
  BY DEF FailTypes
<1>2. CASE Fail!RecordStart \/ Fail!RecordOther \/ Fail!RecordCrash \/ Fail!WriteSummary
  <2> DEFINE m == Fail!CrashRecorded(mon, mon.active)
  <2>1. DOMAIN m = MonitorFields /\ m.target = mon.target /\ m.pc = mon.pc
    BY <1>1, CrashBeside
  <2> HIDE DEF m
  <2>2. /\ Fail!Still /\ UNCHANGED used /\ mon'.pc = "idle" /\ mon'.target = mon.target
        /\ saved'.target \in {saved.target, mon.target}
    <3>1. CASE Fail!RecordStart
      <4>1. /\ Fail!Still /\ UNCHANGED used /\ mon.pc = "idle"
            /\ \/ mon' = [mon EXCEPT !.active = line.file] /\ saved' = saved
               \/ mon' = [m EXCEPT !.active = line.file] /\ Fail!SaveState(m)
        BY <3>1 DEF Fail!RecordStart, m
      <4> QED BY <1>1, <2>1, <4>1 DEF MonitorFields, Fail!SaveState
    <3>2. CASE Fail!RecordOther
      BY <1>1, <3>2 DEF MonitorFields, Fail!RecordOther
    <3>3. CASE Fail!RecordCrash
      <4>1. /\ Fail!Still /\ UNCHANGED used /\ mon.pc = "idle"
            /\ \/ mon' = mon /\ saved' = saved
               \/ mon' = [m EXCEPT !.active = Fail!NoFile] /\ Fail!SaveState(m)
        BY <3>3 DEF Fail!RecordCrash, m
      <4> QED BY <1>1, <2>1, <4>1 DEF MonitorFields, Fail!SaveState
    <3>4. CASE Fail!WriteSummary
      BY <1>1, <3>4 DEF MonitorFields, Fail!WriteSummary, Fail!SaveState
    <3> QED BY <1>2, <3>1, <3>2, <3>3, <3>4
  <2> QED BY <2>2, ReportKept DEF Deletion, Fail!Still
<1>3. CASE Fail!RecordProcessingError
  <2> DEFINE invalid == line.kind = "invalid"
             entry == Fail!Recorded(mon.target, line.file, invalid)
  <2>1. Fail!Still /\ UNCHANGED used /\ mon.pc = "idle"
    BY <1>3 DEF Fail!RecordProcessingError
  <2>2. \/ /\ mon' = [mon EXCEPT !.active = Fail!NoFile]
           /\ saved'.target \in {saved.target, mon.target}
        \/ /\ mon' = [[mon EXCEPT !.active = Fail!NoFile] EXCEPT !.target = entry,
                                                                 !.pc = "marking"]
           /\ UNCHANGED saved /\ Fail!Validated(line.file) = "valid"
    BY <1>3 DEF Fail!RecordProcessingError, Fail!SaveState
  <2>3. CASE /\ mon' = [mon EXCEPT !.active = Fail!NoFile]
             /\ saved'.target \in {saved.target, mon.target}
    <3>1. mon'.pc = "idle" /\ mon'.target = mon.target
      BY <1>1, <2>1, <2>3 DEF MonitorFields
    <3> QED BY <2>1, <2>3, <3>1, ReportKept DEF Deletion, Fail!Still
  <2>4. CASE /\ mon' = [[mon EXCEPT !.active = Fail!NoFile] EXCEPT !.target = entry,
                                                                   !.pc = "marking"]
             /\ UNCHANGED saved /\ Fail!Validated(line.file) = "valid"
    <3>1. line.file \in Media
      BY <2>4 DEF Fail!Validated, FoldersKept, Folders
    <3>2. invalid \in BOOLEAN
      OBVIOUS
    <3> HIDE DEF invalid
    <3>3. entry.status # "deleted"
      BY <1>1, <3>1, <3>2, RecordedEntry
    <3>4. mon'.pc = "marking" /\ mon'.target = entry
      BY <1>1, <2>4 DEF MonitorFields
    <3> QED BY <2>1, <2>4, <3>3, <3>4, ReportKept DEF Deletion, Fail!Still
  <2> QED BY <2>2, <2>3, <2>4
<1>4. CASE Fail!PersistFailureMarker(written)
  <2>1. PICK b \in BOOLEAN, p \in {"deciding", "summary"} :
          mon' = [mon EXCEPT !.target.marked = b, !.pc = p]
    BY <1>4 DEF Fail!PersistFailureMarker
  <2>2. Fail!Still /\ UNCHANGED <<used, saved>> /\ mon.pc = "marking"
    BY <1>4 DEF Fail!PersistFailureMarker
  <2>3. mon'.pc = p /\ mon'.target.status = mon.target.status /\ mon.target.status # "deleted"
    BY <1>1, <2>1, <2>2 DEF MonitorFields, Targets, Reported
  <2> QED BY <2>1, <2>2, <2>3, ReportKept DEF Deletion, Fail!Still
<1> QED BY <1>2, <1>3, <1>4

\* A live deletion starts with a quarantine nobody used before, a resumed one
\* reports nothing of its own.
LEMMA StartReports ==
    ASSUME GoneInv, NEW deletes \in BOOLEAN, NEW readable \in BOOLEAN,
           Fail!TryDeletePath \/ Fail!StartMonitor(deletes, readable)
    PROVE  Live' /\ Reported'
<1> USE DEF GoneInv, MediaInv
<1>1. DOMAIN mon = MonitorFields /\ mon.target \in Targets /\ saved.target \in Targets /\ FailTypes
  BY DEF FailTypes
<1>2. CASE Fail!TryDeletePath
  <2> DEFINE intent == [mon.target EXCEPT !.status = "deleting", !.intent = mon.target.proof,
                                          !.token = used.tokens + 1]
  <2>1. /\ Fail!Still /\ used.tokens < MaxTokens /\ mon.pc = "deciding"
        /\ \/ /\ Fail!MarkerAllowsDelete(mon.target)
              /\ mon' = [mon EXCEPT !.target = intent, !.pc = "open", !.mode = "live"]
              /\ Fail!SaveState(mon') /\ used' = [used EXCEPT !.tokens = used.tokens + 1]
           \/ /\ \E s \in {"waiting", "missing", "blocked"} :
                    mon' = [mon EXCEPT !.pc = "summary", !.target.status = s]
              /\ UNCHANGED <<saved, used>>
    BY <1>2 DEF Fail!TryDeletePath
  <2>2. ASSUME NEW s \in {"waiting", "missing", "blocked"},
               mon' = [mon EXCEPT !.pc = "summary", !.target.status = s], UNCHANGED <<saved, used>>
        PROVE  Live' /\ Reported'
    <3>1. mon'.pc = "summary" /\ mon'.target.status # "deleted"
      BY <1>1, <2>2 DEF MonitorFields, Targets
    <3> QED BY <2>1, <2>2, <3>1, ReportKept DEF Deletion, Fail!Still
  <2>3. ASSUME Fail!MarkerAllowsDelete(mon.target),
               mon' = [mon EXCEPT !.target = intent, !.pc = "open", !.mode = "live"],
               Fail!SaveState(mon'), used' = [used EXCEPT !.tokens = used.tokens + 1]
        PROVE  Live' /\ Reported'
    <3>1. /\ mon'.pc = "open" /\ mon'.target = intent /\ saved'.target = intent
      BY <1>1, <2>3 DEF MonitorFields, Fail!SaveState
    <3>2. used'.tokens = used.tokens + 1
      BY <2>3 DEF FailTypes
    <3>3. /\ intent.intent = mon.target.file /\ intent.token = used.tokens + 1
          /\ intent.file = mon.target.file /\ intent.status = "deleting"
      BY <1>1, <2>3 DEF Targets, Fail!MarkerAllowsDelete, Fail!HasProof
    <3> HIDE DEF intent
    <3>4. fs.q[used.tokens + 1] = Fail!Empty
      <4>1. QuarantinesClean(fs)
        BY DEF FoldersKept
      <4>2. used.tokens + 1 \in 1 .. MaxTokens /\ used.tokens + 1 > used.tokens
        BY <1>1, <2>1, MonitorAssumption DEF FailTypes
      <4> QED BY <4>1, <4>2 DEF QuarantinesClean
    <3>5. Fail!Quarantine' = Fail!Empty
      BY <2>1, <3>1, <3>3, <3>4 DEF Fail!Quarantine, Fail!Still
    <3> QED BY <3>1, <3>2, <3>3, <3>5 DEF Live, Reported
  <2> QED BY <2>1, <2>2, <2>3
<1>3. CASE Fail!StartMonitor(deletes, readable)
  <2> DEFINE loaded == IF readable THEN saved.target ELSE Fail!NoTarget
             open == loaded.status \in {"deleting", "delete_paused"}
             s0 == IF ~open THEN loaded.status
                   ELSE IF ~Fail!Resumable(loaded) THEN "blocked_recovery"
                   ELSE IF deletes THEN "deleting" ELSE "delete_paused"
             p0 == IF open /\ s0 = "deleting" THEN "open" ELSE "summary"
  <2>1. mon' = [Fail!MonitorDown EXCEPT !.pc = p0, !.mode = "recover", !.deletes = deletes,
                    !.safe = readable, !.target = [loaded EXCEPT !.status = s0],
                    !.crash = IF readable THEN saved.crash ELSE Fail!NoCrash]
    BY <1>3 DEF Fail!StartMonitor
  <2>2. Fail!Still /\ UNCHANGED <<used, saved>>
    BY <1>3 DEF Fail!StartMonitor
  <2>3. /\ s0 = "deleted" => loaded = saved.target /\ saved.target.status = "deleted"
        /\ p0 \in {"open", "summary"}
        /\ p0 = "open" => s0 = "deleting" /\ loaded = saved.target
                          /\ saved.target.status \in {"deleting", "delete_paused"}
    BY DEF Fail!NoTarget
  <2>4. DOMAIN loaded = DOMAIN Fail!NoTarget
    BY <1>1 DEF Targets, Fail!NoTarget
  <2> HIDE DEF loaded, s0, p0
  <2>5. /\ mon'.pc = p0 /\ mon'.mode = "recover" /\ mon'.target.status = s0
        /\ mon'.target.file = loaded.file
    BY <2>1, <2>4 DEF Fail!MonitorDown, Fail!NoTarget
  <2>6. CASE p0 = "summary"
    BY <2>2, <2>3, <2>5, <2>6, ReportKept DEF Deletion, Fail!Still
  <2>7. CASE p0 = "open"
    BY <2>2, <2>3, <2>5, <2>7 DEF Live, Reported
  <2> QED BY <2>3, <2>6, <2>7
<1> QED BY <1>2, <1>3

\* A deletion step reports nothing; what it has to keep is what a live one
\* knows.
LEMMA DeletionReports ==
    ASSUME GoneInv, mon.pc \in Deletion, Fail!Elsewhere, NEW p,
           \/ Fail!Goto(p) /\ p # "finish"
           \/ Fail!Outcome(p) /\ (p = "deleted" /\ mon.mode = "live" => Gone(mon.target)'),
           mon.mode = "live" =>
               /\ p # "open" /\ p # "confirm"
               /\ Fail!Goto(p) =>
                    /\ p = "inspect" => Fail!Quarantine'.candidate = Fail!NoFile
                                        /\ ~Fail!Quarantine'.tombstone
                    /\ p \in {"moved", "revalidate"} =>
                          fs'.leaf.gen # Fail!Quarantine'.candidate.gen
                    /\ p \in {"tombstone", "unlink", "sync"} => fs'.leaf.gen # mon.target.file.gen
                    /\ p = "complete" => Gone(mon.target)'
    PROVE  Live' /\ Reported'
<1>1. DOMAIN mon = MonitorFields
  BY DEF GoneInv, MediaInv, FailTypes
<1>2. /\ mon'.target = mon.target /\ mon'.mode = mon.mode
      /\ Fail!Goto(p) => mon'.pc = p
      /\ Fail!Outcome(p) => mon'.pc = "finish" /\ mon'.outcome = p
  BY <1>1, WentTo
<1>3. /\ mon.target.status # "deleted" /\ saved'.target.status # "deleted"
      /\ used' = used
  BY DEF GoneInv, Reported, Fail!Elsewhere
<1>4. Reported'
  BY <1>2, <1>3, WentTo DEF Reported, Deletion
<1>5. ASSUME mon.mode = "live"
      PROVE  mon.target.token = used.tokens /\ mon.target.intent = mon.target.file
  BY <1>5 DEF GoneInv, Live
<1>6. Live'
  BY <1>2, <1>3, <1>5 DEF Live, Deletion
<1> QED BY <1>4, <1>6

\* What a live deletion knows.
LEMMA LiveKnows ==
    ASSUME GoneInv, mon.pc \in Deletion, mon.mode = "live"
    PROVE  /\ mon.target.token = used.tokens /\ mon.target.intent = mon.target.file
           /\ mon.target.file # Fail!NoFile
           /\ mon.pc = "open" => Fail!Quarantine = Fail!Empty
           /\ mon.pc = "inspect" => Fail!Quarantine.candidate = Fail!NoFile
                                    /\ ~Fail!Quarantine.tombstone
           /\ mon.pc # "confirm"
           /\ mon.pc \in {"moved", "revalidate"} => fs.leaf.gen # Fail!Quarantine.candidate.gen
           /\ mon.pc \in {"tombstone", "unlink", "sync"} => fs.leaf.gen # mon.target.file.gen
           /\ mon.pc = "complete" => Gone(mon.target)
           /\ mon.pc = "finish" /\ mon.outcome = "deleted" => Gone(mon.target)
BY DEF GoneInv, Live, MediaInv, OwnQuarantine, Evident

\* The quarantine after it was replaced, and the path beside it.
LEMMA ReplacedFinds ==
    ASSUME MediaInv, mon.pc \in Deletion, mon'.target = mon.target, NEW contents,
           fs' = Fail!WithQuarantine(contents)
    PROVE  Fail!Quarantine' = contents /\ fs'.leaf = fs.leaf
BY DeletionFinds DEF Fail!Quarantine, Fail!WithQuarantine, Folders

\* Up to the tombstone.
LEMMA MoveReports ==
    ASSUME GoneInv, NEW fails \in BOOLEAN,
           \/ Fail!OpenQuarantine(fails) \/ Fail!InspectQuarantine \/ Fail!MoveToQuarantine(fails)
           \/ Fail!SyncMove(fails) \/ Fail!Revalidate
    PROVE  Live' /\ Reported'
<1> USE DEF GoneInv, Deletion
<1>0. DOMAIN mon = MonitorFields /\ mounted \in BOOLEAN
  BY DEF MediaInv, FailTypes
<1>1. CASE Fail!OpenQuarantine(fails)
  <2>1. mon.pc = "open" /\ mon.pc \in Deletion /\ Fail!Elsewhere
    BY <1>1 DEF Fail!OpenQuarantine
  <2>2. CASE mon.mode # "live"
    <3>1. \E p \in {"inspect", "confirm"} :
              \/ Fail!Goto(p) \/ Fail!Outcome("unavailable")
              \/ Fail!Outcome("unsafe") \/ Fail!Outcome("failed")
      BY <1>0, <1>1 DEF Fail!OpenQuarantine
    <3> QED BY <2>1, <2>2, <3>1, DeletionReports
  <2>3. CASE mon.mode = "live"
    <3>1. Fail!Quarantine = Fail!Empty
      BY <2>1, <2>3, LiveKnows
    <3>2. Fail!Quarantine.dir = "none"
      BY <3>1 DEF Fail!Empty
    <3>3. \/ Fail!Outcome("unavailable") \/ Fail!Outcome("unsafe") \/ Fail!Outcome("failed")
          \/ /\ Fail!Goto("inspect")
             /\ fs' = Fail!WithQuarantine([Fail!Empty EXCEPT !.dir = "active"])
      BY <1>0, <1>1, <3>2 DEF Fail!OpenQuarantine
    <3>4. ASSUME Fail!Goto("inspect"),
                 fs' = Fail!WithQuarantine([Fail!Empty EXCEPT !.dir = "active"])
          PROVE  Fail!Quarantine'.candidate = Fail!NoFile /\ ~Fail!Quarantine'.tombstone
      <4>1. mon'.target = mon.target
        BY <1>0, <3>4, WentTo
      <4>2. Fail!Quarantine' = [Fail!Empty EXCEPT !.dir = "active"]
        BY <2>1, <3>4, <4>1, ReplacedFinds
      <4> QED BY <4>2 DEF Fail!Empty
    <3> QED BY <2>1, <3>3, <3>4, DeletionReports
  <2> QED BY <2>2, <2>3
<1>2. CASE Fail!InspectQuarantine
  <2>1. mon.pc = "inspect" /\ mon.pc \in Deletion /\ Fail!Elsewhere
        /\ Fail!Quarantine.tombstone \in BOOLEAN
    BY <1>2, DeletionFinds DEF Fail!InspectQuarantine, Boxes
  <2>2. CASE mon.mode # "live"
    <3>1. \E p \in {"sync", "tombstone", "rename"} : Fail!Goto(p) \/ Fail!Outcome("unavailable")
                                            \/ Fail!Outcome("unsafe")
      BY <1>2, <2>1 DEF Fail!InspectQuarantine, Fail!Validated
    <3> QED BY <2>1, <2>2, <3>1, DeletionReports
  <2>3. CASE mon.mode = "live"
    <3>1. Fail!Quarantine.candidate = Fail!NoFile /\ ~Fail!Quarantine.tombstone
      BY <2>1, <2>3, LiveKnows
    <3>2. Fail!Goto("rename") \/ Fail!Outcome("unavailable") \/ Fail!Outcome("unsafe")
      BY <1>2, <3>1 DEF Fail!InspectQuarantine, Fail!Validated
    <3> QED BY <2>1, <3>2, DeletionReports
  <2> QED BY <2>2, <2>3
<1>3. CASE Fail!MoveToQuarantine(fails)
  <2> DEFINE q == [Fail!Quarantine EXCEPT !.candidate = Fail!Touched(fs.leaf)]
  <2>1. mon.pc = "rename" /\ mon.pc \in Deletion /\ Fail!Elsewhere
    BY <1>3 DEF Fail!MoveToQuarantine
  <2>2. \/ Fail!Outcome("unavailable") \/ Fail!Outcome("unsafe")
        \/ /\ Fail!Goto("moved") /\ fs.leaf # Fail!NoFile
           /\ fs' = [Fail!WithQuarantine(q) EXCEPT !.leaf = Fail!NoFile]
    BY <1>0, <1>3 DEF Fail!MoveToQuarantine, Fail!Change
  <2>3. ASSUME Fail!Goto("moved"), fs.leaf # Fail!NoFile,
               fs' = [Fail!WithQuarantine(q) EXCEPT !.leaf = Fail!NoFile]
        PROVE  fs'.leaf.gen # Fail!Quarantine'.candidate.gen
    <3>1. fs.leaf \in Media /\ fs \in Folders /\ mon.target.token \in 1 .. MaxTokens
          /\ Fail!Quarantine \in Boxes
      BY <2>1, DeletionFinds
    <3>2. Fail!Touched(fs.leaf).gen = fs.leaf.gen /\ fs.leaf.gen # 0
      BY <2>3, <3>1, TouchedFile, Generation DEF MediaInv
    <3>3. q.candidate = Fail!Touched(fs.leaf)
      BY <3>1 DEF Boxes
    <3>4. mon'.target = mon.target
      BY <1>0, <2>3, WentTo
    <3> HIDE DEF q
    <3>5. fs'.leaf = Fail!NoFile /\ Fail!Quarantine' = q
      BY <2>3, <3>1, <3>4 DEF Fail!Quarantine, Fail!WithQuarantine, Folders
    <3> QED BY <3>2, <3>3, <3>5 DEF Fail!NoFile
  <2> HIDE DEF q
  <2> QED BY <2>1, <2>2, <2>3, DeletionReports
<1>4. CASE Fail!SyncMove(fails)
  <2>1. mon.pc = "moved" /\ mon.pc \in Deletion /\ Fail!Elsewhere /\ fs' = fs
        /\ (Fail!Goto("restore") \/ Fail!Goto("revalidate"))
    BY <1>4 DEF Fail!SyncMove, Fail!Still, Fail!Sync
  <2>2. mon'.target = mon.target
    BY <1>0, <2>1, WentTo
  <2>3. mon.mode = "live" => fs'.leaf.gen # Fail!Quarantine'.candidate.gen
    BY <2>1, <2>2, LiveKnows DEF Fail!Quarantine
  <2> QED BY <2>1, <2>3, DeletionReports
<1>5. CASE Fail!Revalidate
  <2>1. mon.pc = "revalidate" /\ mon.pc \in Deletion /\ Fail!Elsewhere /\ fs' = fs
        /\ \/ Fail!Goto("restore")
           \/ Fail!Goto("tombstone") /\ Fail!SameQuarantined(mon.target.intent)
    BY <1>5 DEF Fail!Revalidate, Fail!Still
  <2>2. mon.mode = "live" /\ Fail!SameQuarantined(mon.target.intent) =>
            fs'.leaf.gen # mon.target.file.gen
    BY <2>1, LiveKnows DEF Fail!SameQuarantined
  <2> QED BY <2>1, <2>2, DeletionReports
<1> QED BY <1>1, <1>2, <1>3, <1>4, <1>5

\* From the tombstone or the restoration to the end.
LEMMA UnlinkReports ==
    ASSUME GoneInv, NEW fails \in BOOLEAN, NEW settles \in BOOLEAN,
           \/ Fail!RestoreLink(fails) \/ Fail!RestoreUnlink(fails, settles)
           \/ Fail!EnsureTombstone(fails) \/ Fail!UnlinkCandidate(fails)
           \/ Fail!SyncQuarantine(fails) \/ Fail!CompletePrivateDelete
           \/ Fail!ConfirmCompleted(fails)
    PROVE  Live' /\ Reported'
<1> USE DEF GoneInv, Deletion
<1>0. DOMAIN mon = MonitorFields
  BY DEF MediaInv, FailTypes
<1>1. CASE Fail!RestoreLink(fails)
  <2>1. mon.pc \in Deletion /\ Fail!Elsewhere
        /\ (Fail!Outcome("recovery") \/ Fail!Goto("unlink_restored"))
    BY <1>1 DEF Fail!RestoreLink
  <2> QED BY <2>1, DeletionReports
<1>2. CASE Fail!RestoreUnlink(fails, settles)
  <2>1. mon.pc \in Deletion /\ Fail!Elsewhere
        /\ (Fail!Outcome("recovery") \/ Fail!Outcome("unsafe"))
    BY <1>2 DEF Fail!RestoreUnlink
  <2> QED BY <2>1, DeletionReports
<1>3. ASSUME mon.pc \in {"tombstone", "unlink"}, Fail!Elsewhere, NEW p \in {"unlink", "sync"},
             NEW contents, Fail!Goto(p), fs' = Fail!WithQuarantine(contents)
      PROVE  Live' /\ Reported'
  <2>1. mon'.target = mon.target /\ mon.pc \in Deletion
    BY <1>0, <1>3, WentTo
  <2>2. fs'.leaf = fs.leaf
    BY <1>3, <2>1, ReplacedFinds
  <2>3. mon.mode = "live" => fs'.leaf.gen # mon.target.file.gen
    BY <1>3, <2>1, <2>2, LiveKnows
  <2> QED BY <1>3, <2>1, <2>3, DeletionReports
<1>4. CASE Fail!EnsureTombstone(fails)
  <2>1. mon.pc = "tombstone" /\ mon.pc \in Deletion /\ Fail!Elsewhere
        /\ \/ Fail!Outcome("recovery")
           \/ Fail!Goto("unlink") /\ \E contents : fs' = Fail!WithQuarantine(contents)
    BY <1>4 DEF Fail!EnsureTombstone
  <2> QED BY <2>1, <1>3, DeletionReports
<1>5. CASE Fail!UnlinkCandidate(fails)
  <2>1. mon.pc = "unlink" /\ mon.pc \in Deletion /\ Fail!Elsewhere
        /\ \/ Fail!Outcome("recovery")
           \/ Fail!Goto("sync") /\ \E contents : fs' = Fail!WithQuarantine(contents)
    BY <1>5 DEF Fail!UnlinkCandidate, Fail!Change
  <2> QED BY <2>1, <1>3, DeletionReports
<1>6. CASE Fail!SyncQuarantine(fails)
  <2>1. mon.pc = "sync" /\ mon.pc \in Deletion /\ Fail!Elsewhere
        /\ \/ Fail!Outcome("recovery")
           \/ Fail!Goto("complete") /\ fs' = fs /\ after' = {fs}
    BY <1>6 DEF Fail!SyncQuarantine, Fail!Sync
  <2>2. ASSUME mon.mode = "live", Fail!Goto("complete"), after' = {fs}
        PROVE  Gone(mon.target)'
    <3>1. fs.leaf.gen # mon.target.file.gen /\ mon.target.token = used.tokens
      BY <2>1, <2>2, LiveKnows
    <3>2. fs.q[mon.target.token].candidate = Fail!NoFile
      BY <2>1 DEF MediaInv, OwnQuarantine, Fail!Quarantine
    <3>3. mon'.target = mon.target /\ used' = used
      BY <1>0, <2>1, <2>2, WentTo DEF Fail!Elsewhere
    <3> QED BY <2>2, <3>1, <3>2, <3>3 DEF Gone
  <2> QED BY <2>1, <2>2, DeletionReports
<1>7. CASE Fail!CompletePrivateDelete
  <2>1. /\ mon.pc = "complete" /\ mon.pc \in Deletion /\ Fail!Elsewhere
        /\ Fail!Outcome("deleted") /\ Fail!Quarantine.candidate = Fail!NoFile
    BY <1>7 DEF Fail!CompletePrivateDelete, MediaInv, OwnQuarantine
  <2>2. PICK contents \in {Fail!Quarantine, [Fail!Quarantine EXCEPT !.dir = "completed"],
                 [Fail!Quarantine EXCEPT !.dir = "completed", !.tombstone = FALSE], Fail!Empty} :
          Fail!Change(Fail!WithQuarantine(contents))
    BY <1>7 DEF Fail!CompletePrivateDelete
  <2>3. contents.candidate = Fail!NoFile
    <3>1. Fail!Empty.candidate = Fail!NoFile
      BY DEF Fail!Empty
    <3> QED BY <2>1, <2>2, <3>1, DeletionFinds DEF Boxes
  <2>4. mon'.target = mon.target /\ used' = used
    BY <1>0, <2>1, WentTo DEF Fail!Elsewhere
  <2>5. fs'.leaf = fs.leaf /\ fs'.q[mon.target.token] = contents
    BY <2>1, <2>2, <2>4, ReplacedFinds DEF Fail!Change, Fail!Quarantine
  <2>6. ASSUME mon.mode = "live"
        PROVE  Gone(mon.target)'
    <3>1. Gone(mon.target) /\ mon.target.token = used.tokens /\ fs \in after
      BY <2>1, <2>6, LiveKnows, DeletionFinds
    <3>2. fs'.leaf.gen # mon.target.file.gen /\ fs'.q[used.tokens].candidate = Fail!NoFile
      BY <2>3, <2>5, <3>1 DEF Gone
    <3>3. \A folder \in after' :
              \/ folder \in after
              \/ /\ folder.leaf.gen # mon.target.file.gen
                 /\ folder.q[used.tokens].candidate = Fail!NoFile
      BY <2>2, <3>2 DEF Fail!Change
    <3> QED BY <2>4, <3>1, <3>3 DEF Gone
  <2> QED BY <2>1, <2>6, DeletionReports
<1>8. CASE Fail!ConfirmCompleted(fails)
  <2>1. mon.pc = "confirm" /\ mon.pc \in Deletion /\ Fail!Elsewhere
        /\ \E o \in {"unsafe", "recovery", "deleted"} : Fail!Outcome(o)
    BY <1>8 DEF Fail!ConfirmCompleted
  <2>2. mon.mode # "live"
    BY <2>1, LiveKnows
  <2> QED BY <2>1, <2>2, DeletionReports
<1> QED BY <1>1, <1>2, <1>4, <1>5, <1>6, <1>7, <1>8

\* Only a live deletion that removed its file reports it so.
LEMMA FinishReports ==
    ASSUME GoneInv, Fail!FinishDeleteOutcome
    PROVE  Live' /\ Reported'
<1> USE DEF GoneInv, MediaInv
<1> DEFINE t == [mon.target EXCEPT !.status = Fail!FinalStatus]
<1>1. DOMAIN mon = MonitorFields /\ mon.target \in Targets
  BY DEF FailTypes
<1>2. /\ mon.pc = "finish" /\ Fail!Still /\ UNCHANGED used /\ Fail!SaveState(mon')
      /\ \/ mon' = [mon EXCEPT !.pc = "summary", !.outcome = "none", !.target = t]
         \/ mon' = [mon EXCEPT !.pc = "summary", !.outcome = "none",
                       !.target = [t EXCEPT !.intent = Fail!NoFile, !.token = 0]]
  BY DEF Fail!FinishDeleteOutcome
<1>3. /\ mon'.pc = "summary" /\ mon'.target.status = Fail!FinalStatus
      /\ mon'.target.file = mon.target.file /\ saved'.target = mon'.target
  <2> DEFINE u == [t EXCEPT !.intent = Fail!NoFile, !.token = 0]
  <2>1. t.status = Fail!FinalStatus /\ t.file = mon.target.file
        /\ u.status = Fail!FinalStatus /\ u.file = mon.target.file
    BY <1>1 DEF Targets
  <2> HIDE DEF t, u
  <2>2. mon'.pc = "summary" /\ mon'.target \in {t, u}
    BY <1>1, <1>2 DEF MonitorFields, u
  <2> QED BY <1>2, <2>1, <2>2 DEF Fail!SaveState
<1>4. Fail!FinalStatus = "deleted" => mon.outcome = "deleted" /\ mon.mode = "live"
  BY <1>2, FinalStatuses DEF OwnQuarantine
<1>5. ASSUME Fail!FinalStatus = "deleted"
      PROVE  Gone(mon.target) /\ mon.target.file # Fail!NoFile
  BY <1>2, <1>4, <1>5, LiveKnows DEF Deletion
<1>6. Fail!FinalStatus = "deleted" => Gone(mon.target)' /\ Gone(saved.target)'
  BY <1>2, <1>3, <1>5 DEF Gone, Fail!Still
<1> QED BY <1>3, <1>5, <1>6 DEF Live, Reported, Deletion

\* Every step keeps it.
LEMMA GoneStep ==
    ASSUME GoneInv, Fail!FailNext
    PROVE  GoneInv'
<1>1. MediaInv'
  BY MediaStep DEF GoneInv
<1>2. Live' /\ Reported'
  <2> USE OwnerReports, WorldReports, RecordReports, StartReports, MoveReports, UnlinkReports,
          FinishReports
  <2>1. CASE \/ Fail!OwnerReplaces \/ Fail!OwnerRemoves \/ Fail!Mount \/ Fail!Crash
             \/ Fail!PowerLoss \/ Fail!WorkerStarts \/ Fail!WorkerEnds \/ Fail!LineLost
    BY <2>1
  <2>2. CASE \/ Fail!RecordStart \/ Fail!RecordProcessingError \/ Fail!RecordOther
             \/ Fail!RecordCrash \/ Fail!TryDeletePath \/ Fail!InspectQuarantine
             \/ Fail!Revalidate \/ Fail!CompletePrivateDelete \/ Fail!FinishDeleteOutcome
             \/ Fail!WriteSummary
    BY <2>2
  <2>3. ASSUME NEW b \in BOOLEAN,
               \/ Fail!PersistFailureMarker(b) \/ Fail!OpenQuarantine(b)
               \/ Fail!MoveToQuarantine(b) \/ Fail!SyncMove(b) \/ Fail!RestoreLink(b)
               \/ Fail!EnsureTombstone(b) \/ Fail!UnlinkCandidate(b) \/ Fail!SyncQuarantine(b)
               \/ Fail!ConfirmCompleted(b)
               \/ \E c \in BOOLEAN : Fail!RestoreUnlink(b, c) \/ Fail!StartMonitor(b, c)
        PROVE  Live' /\ Reported'
    BY <2>3
  <2> QED BY <2>1, <2>2, <2>3 DEF Fail!FailNext
<1> QED BY <1>1, <1>2 DEF GoneInv

-----------------------------------------------------------------------------
(***************************************************************************)
(* Resumed deletions as well: nothing is in the quarantine any more.       *)
(***************************************************************************)

\* Steps that add no folder with a candidate in the newest quarantine, and no
\* target that was settled.
LEMMA EmptyKept ==
    ASSUME EmptyInv, used'.tokens = used.tokens,
           \A folder \in after' :
              folder \in after \/ folder.q[used.tokens].candidate = Fail!NoFile,
           \/ mon'.pc \notin {"complete", "finish"}
           \/ mon'.pc = mon.pc /\ mon'.outcome = mon.outcome,
           \/ mon'.target.token = 0 /\ mon'.target.status \notin Settled
           \/ \E t \in {mon.target, saved.target} :
                 /\ mon'.target.token \in {0, t.token}
                 /\ mon'.target.status \in Settled => t.status \in Settled,
           \E t \in {mon.target, saved.target} :
              /\ saved'.target.token \in {0, t.token}
              /\ saved'.target.status \in Settled => t.status \in Settled,
           mon'.pc \in {"marking", "deciding"} => mon'.target.status \notin Settled,
           mon'.pc \in Deletion =>
               mon'.target.status \notin Settled /\ saved'.target.status \notin Settled
    PROVE  EmptyInv'
<1>1. Emptied => Emptied'
  BY DEF Emptied
<1>2. /\ mon'.target.status \in Settled => Emptied'
      /\ saved'.target.status \in Settled => Emptied'
  BY <1>1 DEF EmptyInv
<1>3. mon'.target.token \in {0, used.tokens} /\ saved'.target.token \in {0, used.tokens}
  BY DEF EmptyInv
<1>4. /\ mon'.pc = "complete" => Emptied'
      /\ mon'.pc = "finish" /\ mon'.outcome = "deleted" => Emptied'
  BY <1>1 DEF EmptyInv
<1>5. Settled' = Settled
  BY DEF Settled, Fail!Resumed
<1> QED BY <1>2, <1>3, <1>4, <1>5 DEF EmptyInv

\* A deletion step: only its last ones have to know that nothing is left.
LEMMA DeletionEmpties ==
    ASSUME MediaInv, EmptyInv, mon.pc \in Deletion, Fail!Elsewhere, NEW p,
           \/ Fail!Goto(p) /\ p # "finish" /\ (p = "complete" => Emptied')
           \/ Fail!Outcome(p) /\ (p = "deleted" => Emptied')
    PROVE  EmptyInv'
<1>1. DOMAIN mon = MonitorFields
  BY DEF MediaInv, FailTypes
<1>2. /\ mon'.target = mon.target
      /\ Fail!Goto(p) => mon'.pc = p
      /\ Fail!Outcome(p) => mon'.pc = "finish" /\ mon'.outcome = p
  BY <1>1, WentTo
<1>3. saved' = saved /\ used' = used
  BY DEF Fail!Elsewhere
<1>4. mon.target.status \notin Settled /\ saved.target.status \notin Settled
  BY DEF EmptyInv
<1>5. Settled' = Settled
  BY DEF Settled, Fail!Resumed
<1> QED BY <1>2, <1>3, <1>4, <1>5 DEF EmptyInv

\* The steps of a deletion.
LEMMA DeletionStepEmpties ==
    ASSUME MediaInv, EmptyInv, NEW fails \in BOOLEAN, NEW settles \in BOOLEAN,
           \/ Fail!OpenQuarantine(fails) \/ Fail!InspectQuarantine \/ Fail!MoveToQuarantine(fails)
           \/ Fail!SyncMove(fails) \/ Fail!Revalidate
           \/ Fail!RestoreLink(fails) \/ Fail!RestoreUnlink(fails, settles)
           \/ Fail!EnsureTombstone(fails) \/ Fail!UnlinkCandidate(fails)
           \/ Fail!SyncQuarantine(fails) \/ Fail!CompletePrivateDelete
           \/ Fail!ConfirmCompleted(fails)
    PROVE  EmptyInv'
<1> USE DEF Deletion
<1>0. DOMAIN mon = MonitorFields /\ mounted \in BOOLEAN
  BY DEF MediaInv, FailTypes
<1>1. ASSUME mon.pc \in Deletion, Fail!Elsewhere,
             \E p : \/ Fail!Goto(p) /\ p \notin {"finish", "complete"}
                    \/ Fail!Outcome(p) /\ p # "deleted"
      PROVE  EmptyInv'
  BY <1>1, DeletionEmpties
<1>2. ASSUME mon.pc \in Deletion, mon'.target = mon.target, Fail!Elsewhere
      PROVE  mon.target.token = used.tokens /\ used' = used /\ fs \in after
  BY <1>2, DeletionFinds DEF EmptyInv, Fail!Elsewhere
<1>3. CASE Fail!OpenQuarantine(fails)
  <2>1. /\ mon.pc \in Deletion /\ Fail!Elsewhere
        /\ \E p : \/ Fail!Goto(p) /\ p \in {"inspect", "confirm"}
                  \/ Fail!Outcome(p) /\ p \in {"unavailable", "unsafe", "failed"}
    BY <1>0, <1>3 DEF Fail!OpenQuarantine
  <2> QED BY <1>1, <2>1
<1>4. CASE Fail!InspectQuarantine
  <2>1. /\ mon.pc = "inspect" /\ mon.pc \in Deletion /\ Fail!Elsewhere
        /\ Fail!Quarantine.tombstone \in BOOLEAN
    BY <1>4, DeletionFinds DEF Fail!InspectQuarantine, Boxes
  <2>2. \E p : \/ Fail!Goto(p) /\ p \in {"sync", "tombstone", "rename"}
               \/ Fail!Outcome(p) /\ p \in {"unavailable", "unsafe"}
    BY <1>4, <2>1 DEF Fail!InspectQuarantine, Fail!Validated
  <2> QED BY <1>1, <2>1, <2>2
<1>5. CASE Fail!MoveToQuarantine(fails)
  <2>1. /\ mon.pc \in Deletion /\ Fail!Elsewhere
        /\ \E p : \/ Fail!Goto(p) /\ p = "moved"
                  \/ Fail!Outcome(p) /\ p \in {"unavailable", "unsafe"}
    BY <1>0, <1>5 DEF Fail!MoveToQuarantine
  <2> QED BY <1>1, <2>1
<1>6. CASE Fail!SyncMove(fails) \/ Fail!Revalidate
  <2>1. /\ mon.pc \in Deletion /\ Fail!Elsewhere
        /\ \E p : Fail!Goto(p) /\ p \in {"restore", "revalidate", "tombstone"}
    BY <1>6 DEF Fail!SyncMove, Fail!Revalidate
  <2> QED BY <1>1, <2>1
<1>7. CASE \/ Fail!RestoreLink(fails) \/ Fail!RestoreUnlink(fails, settles)
           \/ Fail!EnsureTombstone(fails) \/ Fail!UnlinkCandidate(fails)
  <2>1. /\ mon.pc \in Deletion /\ Fail!Elsewhere
        /\ \E p : \/ Fail!Goto(p) /\ p \in {"unlink_restored", "unlink", "sync"}
                  \/ Fail!Outcome(p) /\ p \in {"recovery", "unsafe"}
    BY <1>7 DEF Fail!RestoreLink, Fail!RestoreUnlink, Fail!EnsureTombstone, Fail!UnlinkCandidate
  <2> QED BY <1>1, <2>1
<1>8. CASE Fail!SyncQuarantine(fails)
  <2>1. /\ mon.pc = "sync" /\ mon.pc \in Deletion /\ Fail!Elsewhere
        /\ \/ Fail!Outcome("recovery")
           \/ Fail!Goto("complete") /\ fs' = fs /\ after' = {fs}
    BY <1>8 DEF Fail!SyncQuarantine, Fail!Sync
  <2>2. ASSUME Fail!Goto("complete"), after' = {fs}
        PROVE  Emptied'
    <3>1. mon'.target = mon.target
      BY <1>0, <2>2, WentTo
    <3>2. fs.q[mon.target.token].candidate = Fail!NoFile
      BY <2>1 DEF MediaInv, OwnQuarantine, Fail!Quarantine
    <3> QED BY <1>2, <2>1, <2>2, <3>1, <3>2 DEF Emptied
  <2> QED BY <2>1, <2>2, DeletionEmpties
<1>9. ASSUME mon.pc \in Deletion, Fail!Elsewhere, Fail!Outcome("deleted"), NEW contents,
             contents.candidate = Fail!NoFile, Fail!Quarantine.candidate = Fail!NoFile,
             fs' = Fail!WithQuarantine(contents),
             after' = {fs, fs'} \/ (mon.pc = "complete" /\ after' = after \cup {fs'})
      PROVE  EmptyInv'
  <2>1. mon'.target = mon.target
    BY <1>0, <1>9, WentTo
  <2>2. fs'.q[mon.target.token] = contents
    BY <1>9, <2>1, ReplacedFinds DEF Fail!Quarantine
  <2>3. mon.pc = "complete" => Emptied
    BY DEF EmptyInv
  <2>4. Emptied'
    BY <1>2, <1>9, <2>1, <2>2, <2>3 DEF Emptied, Fail!Quarantine
  <2> QED BY <1>9, <2>4, DeletionEmpties
<1>10. Fail!Empty.candidate = Fail!NoFile
  BY DEF Fail!Empty
<1>11. CASE Fail!CompletePrivateDelete
  <2>1. /\ mon.pc = "complete" /\ mon.pc \in Deletion /\ Fail!Elsewhere
        /\ Fail!Outcome("deleted") /\ Fail!Quarantine.candidate = Fail!NoFile
    BY <1>11 DEF Fail!CompletePrivateDelete, MediaInv, OwnQuarantine
  <2>2. PICK contents \in {Fail!Quarantine, [Fail!Quarantine EXCEPT !.dir = "completed"],
                 [Fail!Quarantine EXCEPT !.dir = "completed", !.tombstone = FALSE], Fail!Empty} :
          Fail!Change(Fail!WithQuarantine(contents))
    BY <1>11 DEF Fail!CompletePrivateDelete
  <2>3. contents.candidate = Fail!NoFile
    BY <1>10, <2>1, <2>2, DeletionFinds DEF Boxes
  <2> QED BY <1>9, <2>1, <2>2, <2>3 DEF Fail!Change
<1>12. CASE Fail!ConfirmCompleted(fails)
  <2>1. mon.pc \in Deletion /\ Fail!Elsewhere
    BY <1>12 DEF Fail!ConfirmCompleted
  <2>2. \/ Fail!Outcome("unsafe") \/ Fail!Outcome("recovery")
        \/ /\ Fail!Quarantine.candidate = Fail!NoFile /\ Fail!Outcome("deleted")
           /\ fs' = Fail!WithQuarantine(Fail!Empty) /\ after' = {fs, fs'}
    BY <1>12 DEF Fail!ConfirmCompleted
  <2> QED BY <1>1, <1>9, <1>10, <2>1, <2>2
<1> QED BY <1>3, <1>4, <1>5, <1>6, <1>7, <1>8, <1>11, <1>12

\* The world around the monitor, and what it records.
LEMMA WorldEmpties ==
    ASSUME MediaInv, EmptyInv, NEW written \in BOOLEAN,
           \/ Fail!OwnerReplaces \/ Fail!OwnerRemoves \/ Fail!Mount \/ Fail!Crash
           \/ Fail!PowerLoss \/ Fail!WorkerStarts \/ Fail!WorkerEnds \/ Fail!LineLost
           \/ Fail!RecordStart \/ Fail!RecordOther \/ Fail!RecordCrash \/ Fail!WriteSummary
           \/ Fail!RecordProcessingError \/ Fail!PersistFailureMarker(written)
    PROVE  EmptyInv'
<1> USE DEF MediaInv
<1>1. /\ DOMAIN mon = MonitorFields /\ mon.target \in Targets /\ FailTypes
      /\ DOMAIN used = {"gens", "tokens", "jobs", "losses"} /\ fs \in Folders /\ fs \in after
  BY DEF FailTypes, FoldersKept
<1>2. CASE Fail!OwnerReplaces \/ Fail!OwnerRemoves
  <2>1. /\ after' = after \cup {fs'} /\ UNCHANGED <<saved, mon>> /\ used'.tokens = used.tokens
        /\ fs'.q = fs.q
    BY <1>1, <1>2 DEF Fail!OwnerReplaces, Fail!OwnerRemoves, Fail!Change, Folders
  <2>2. Emptied => Emptied'
    BY <1>1, <2>1 DEF Emptied
  <2> QED BY <2>1, <2>2 DEF EmptyInv
<1>3. CASE Fail!Mount \/ Fail!WorkerStarts \/ Fail!WorkerEnds \/ Fail!LineLost
  <2>1. Fail!Still /\ UNCHANGED <<mon, saved>> /\ used'.tokens = used.tokens
    BY <1>1, <1>3 DEF Fail!Mount, Fail!WorkerStarts, Fail!WorkerEnds, Fail!LineLost
  <2> QED BY <2>1 DEF EmptyInv, Emptied, Fail!Still
<1>4. CASE Fail!Crash \/ Fail!PowerLoss
  <2>1. /\ mon' = Fail!MonitorDown /\ saved' = saved /\ used'.tokens = used.tokens
        /\ after' \subseteq after
    BY <1>1, <1>4 DEF Fail!Crash, Fail!PowerLoss, Fail!Still
  <2>2. mon'.pc = "down" /\ mon'.target.status = "none" /\ mon'.target.token = 0
    BY <2>1 DEF Fail!MonitorDown, Fail!NoTarget
  <2>3. "none" \notin Settled
    BY DEF Settled, Fail!Resumed
  <2>4. \A folder \in after' : folder \in after
    BY <2>1
  <2> HIDE <1>4
  <2> QED BY <2>1, <2>2, <2>3, <2>4, EmptyKept DEF Deletion
<1>5. ASSUME Fail!Still, used' = used, mon'.pc \in {"idle", "summary", "deciding"},
             mon'.target.token = mon.target.token, mon'.target.status = mon.target.status,
             mon'.pc = "deciding" => mon.target.status \notin Settled,
             saved'.target \in {saved.target, mon.target}
      PROVE  EmptyInv'
  BY <1>5, EmptyKept DEF Deletion, Fail!Still
<1>6. CASE Fail!RecordStart \/ Fail!RecordOther \/ Fail!RecordCrash \/ Fail!WriteSummary
  <2> DEFINE m == Fail!CrashRecorded(mon, mon.active)
  <2>1. DOMAIN m = MonitorFields /\ m.target = mon.target /\ m.pc = mon.pc
    BY <1>1, CrashBeside
  <2> HIDE DEF m
  <2>2. CASE Fail!RecordStart
    <3>1. /\ Fail!Still /\ UNCHANGED used /\ mon.pc = "idle"
          /\ \/ mon' = [mon EXCEPT !.active = line.file] /\ saved' = saved
             \/ mon' = [m EXCEPT !.active = line.file] /\ Fail!SaveState(m)
      BY <2>2 DEF Fail!RecordStart, m
    <3> QED BY <1>1, <1>5, <2>1, <3>1 DEF MonitorFields, Fail!SaveState
  <2>3. CASE Fail!RecordOther
    BY <1>1, <1>5, <2>3 DEF MonitorFields, Fail!RecordOther
  <2>4. CASE Fail!RecordCrash
    <3>1. /\ Fail!Still /\ UNCHANGED used /\ mon.pc = "idle"
          /\ \/ mon' = mon /\ saved' = saved
             \/ mon' = [m EXCEPT !.active = Fail!NoFile] /\ Fail!SaveState(m)
      BY <2>4 DEF Fail!RecordCrash, m
    <3> QED BY <1>1, <1>5, <2>1, <3>1 DEF MonitorFields, Fail!SaveState
  <2>5. CASE Fail!WriteSummary
    BY <1>1, <1>5, <2>5 DEF MonitorFields, Fail!WriteSummary, Fail!SaveState
  <2> QED BY <1>6, <2>2, <2>3, <2>4, <2>5
<1>7. CASE Fail!RecordProcessingError
  <2> DEFINE invalid == line.kind = "invalid"
             entry == Fail!Recorded(mon.target, line.file, invalid)
  <2>1. Fail!Still /\ UNCHANGED used /\ mon.pc = "idle"
    BY <1>7 DEF Fail!RecordProcessingError
  <2>2. \/ /\ mon' = [mon EXCEPT !.active = Fail!NoFile]
           /\ saved'.target \in {saved.target, mon.target}
        \/ /\ mon' = [[mon EXCEPT !.active = Fail!NoFile] EXCEPT !.target = entry,
                                                                 !.pc = "marking"]
           /\ UNCHANGED saved /\ Fail!Validated(line.file) = "valid"
    BY <1>7 DEF Fail!RecordProcessingError, Fail!SaveState
  <2>3. CASE /\ mon' = [mon EXCEPT !.active = Fail!NoFile]
             /\ saved'.target \in {saved.target, mon.target}
    <3>1. mon'.pc = "idle" /\ mon'.target = mon.target
      BY <1>1, <2>1, <2>3 DEF MonitorFields
    <3> QED BY <1>5, <2>1, <2>3, <3>1
  <2>4. CASE /\ mon' = [[mon EXCEPT !.active = Fail!NoFile] EXCEPT !.target = entry,
                                                                   !.pc = "marking"]
             /\ UNCHANGED saved /\ Fail!Validated(line.file) = "valid"
    <3>1. line.file \in Media
      BY <2>4 DEF Fail!Validated, FoldersKept, Folders
    <3>2. invalid \in BOOLEAN
      OBVIOUS
    <3> HIDE DEF invalid
    <3>3. entry.status \notin Settled /\ entry.token \in {0, mon.target.token}
      BY <1>1, <3>1, <3>2, RecordedEntry
    <3>4. mon'.pc = "marking" /\ mon'.target = entry
      BY <1>1, <2>4 DEF MonitorFields
    <3> QED BY <2>1, <2>4, <3>3, <3>4, EmptyKept DEF Deletion, Fail!Still
  <2> QED BY <2>2, <2>3, <2>4
<1>8. CASE Fail!PersistFailureMarker(written)
  <2>1. PICK b \in BOOLEAN, p \in {"deciding", "summary"} :
          mon' = [mon EXCEPT !.target.marked = b, !.pc = p]
    BY <1>8 DEF Fail!PersistFailureMarker
  <2>2. Fail!Still /\ UNCHANGED <<used, saved>> /\ mon.pc = "marking"
    BY <1>8 DEF Fail!PersistFailureMarker
  <2>3. /\ mon'.pc = p /\ mon'.target.status = mon.target.status
        /\ mon'.target.token = mon.target.token /\ mon.target.status \notin Settled
    BY <1>1, <2>1, <2>2 DEF MonitorFields, Targets, EmptyInv
  <2> QED BY <1>5, <2>2, <2>3
<1> QED BY <1>2, <1>3, <1>4, <1>6, <1>7, <1>8

\* The beginning and the end of a deletion, and the start of a monitor.
LEMMA SettlingEmpties ==
    ASSUME MediaInv, EmptyInv, NEW deletes \in BOOLEAN, NEW readable \in BOOLEAN,
           \/ Fail!TryDeletePath \/ Fail!StartMonitor(deletes, readable)
           \/ Fail!FinishDeleteOutcome
    PROVE  EmptyInv'
<1> USE DEF MediaInv
<1>1. DOMAIN mon = MonitorFields /\ mon.target \in Targets /\ saved.target \in Targets /\ FailTypes
  BY DEF FailTypes
<1>2. CASE Fail!TryDeletePath
  <2> DEFINE intent == [mon.target EXCEPT !.status = "deleting", !.intent = mon.target.proof,
                                          !.token = used.tokens + 1]
  <2>1. /\ Fail!Still
        /\ \/ /\ mon' = [mon EXCEPT !.target = intent, !.pc = "open", !.mode = "live"]
              /\ Fail!SaveState(mon') /\ used' = [used EXCEPT !.tokens = used.tokens + 1]
           \/ /\ \E s \in {"waiting", "missing", "blocked"} :
                    mon' = [mon EXCEPT !.pc = "summary", !.target.status = s]
              /\ UNCHANGED <<saved, used>>
    BY <1>2 DEF Fail!TryDeletePath
  <2>2. ASSUME NEW s \in {"waiting", "missing", "blocked"},
               mon' = [mon EXCEPT !.pc = "summary", !.target.status = s], UNCHANGED <<saved, used>>
        PROVE  EmptyInv'
    <3>1. /\ mon'.pc = "summary" /\ mon'.target.status = s
          /\ mon'.target.token = mon.target.token /\ s \notin Settled
      BY <1>1, <2>2 DEF MonitorFields, Targets, Settled, Fail!Resumed
    <3> QED BY <2>1, <2>2, <3>1, EmptyKept DEF Deletion, Fail!Still
  <2>3. ASSUME mon' = [mon EXCEPT !.target = intent, !.pc = "open", !.mode = "live"],
               Fail!SaveState(mon'), used' = [used EXCEPT !.tokens = used.tokens + 1]
        PROVE  EmptyInv'
    <3>1. mon'.pc = "open" /\ mon'.target = intent /\ saved'.target = intent
      BY <1>1, <2>3 DEF MonitorFields, Fail!SaveState
    <3>2. used'.tokens = used.tokens + 1
      BY <2>3 DEF FailTypes
    <3>3. intent.token = used.tokens + 1 /\ intent.status = "deleting"
      BY <1>1 DEF Targets
    <3> HIDE DEF intent
    <3>4. "deleting" \notin Settled'
      BY DEF Settled, Fail!Resumed
    <3> QED BY <3>1, <3>2, <3>3, <3>4 DEF EmptyInv
  <2> QED BY <2>1, <2>2, <2>3
<1>3. CASE Fail!StartMonitor(deletes, readable)
  <2> DEFINE loaded == IF readable THEN saved.target ELSE Fail!NoTarget
             open == loaded.status \in {"deleting", "delete_paused"}
             s0 == IF ~open THEN loaded.status
                   ELSE IF ~Fail!Resumable(loaded) THEN "blocked_recovery"
                   ELSE IF deletes THEN "deleting" ELSE "delete_paused"
             p0 == IF open /\ s0 = "deleting" THEN "open" ELSE "summary"
  <2>1. mon' = [Fail!MonitorDown EXCEPT !.pc = p0, !.mode = "recover", !.deletes = deletes,
                    !.safe = readable, !.target = [loaded EXCEPT !.status = s0],
                    !.crash = IF readable THEN saved.crash ELSE Fail!NoCrash]
    BY <1>3 DEF Fail!StartMonitor
  <2>2. Fail!Still /\ UNCHANGED <<used, saved>>
    BY <1>3 DEF Fail!StartMonitor
  <2>3. /\ s0 \in Settled => loaded = saved.target /\ saved.target.status \in Settled
        /\ p0 \in {"open", "summary"}
        /\ p0 = "open" => s0 \notin Settled /\ saved.target.status \notin Settled
        /\ loaded.token \in {0, saved.target.token}
    BY DEF Fail!NoTarget, Settled, Fail!Resumed
  <2>4. DOMAIN loaded = DOMAIN Fail!NoTarget
    BY <1>1 DEF Targets, Fail!NoTarget
  <2> HIDE DEF loaded, s0, p0
  <2>5. /\ mon'.pc = p0 /\ mon'.target.status = s0 /\ mon'.target.token = loaded.token
    BY <2>1, <2>4 DEF Fail!MonitorDown, Fail!NoTarget
  <2> QED BY <2>2, <2>3, <2>5, EmptyKept DEF Deletion, Fail!Still
<1>4. CASE Fail!FinishDeleteOutcome
  <2> DEFINE t == [mon.target EXCEPT !.status = Fail!FinalStatus]
             u == [t EXCEPT !.intent = Fail!NoFile, !.token = 0]
  <2>1. /\ mon.pc = "finish" /\ Fail!Still /\ UNCHANGED used /\ Fail!SaveState(mon')
        /\ \/ mon' = [mon EXCEPT !.pc = "summary", !.outcome = "none", !.target = t]
           \/ mon' = [mon EXCEPT !.pc = "summary", !.outcome = "none", !.target = u]
    BY <1>4 DEF Fail!FinishDeleteOutcome
  <2>2. /\ t.status = Fail!FinalStatus /\ u.status = Fail!FinalStatus
        /\ t.token = mon.target.token /\ u.token = 0
    BY <1>1 DEF Targets
  <2> HIDE DEF t, u
  <2>3. /\ mon'.pc = "summary" /\ mon'.target \in {t, u} /\ saved'.target = mon'.target
    BY <1>1, <2>1 DEF MonitorFields, Fail!SaveState
  <2>4. Fail!FinalStatus \in Settled => mon.outcome = "deleted"
    BY <2>1, FinalStatuses DEF OwnQuarantine
  <2>5. Fail!FinalStatus \in Settled => Emptied'
    BY <2>1, <2>4 DEF EmptyInv, Emptied, Fail!Still
  <2>6. Settled' = Settled
    BY DEF Settled, Fail!Resumed
  <2> QED BY <2>1, <2>2, <2>3, <2>5, <2>6 DEF EmptyInv, Deletion
<1> QED BY <1>2, <1>3, <1>4

\* Every step keeps the newest quarantine empty once it is settled.
LEMMA EmptyStep ==
    ASSUME MediaInv, EmptyInv, Fail!FailNext
    PROVE  EmptyInv'
<1> USE WorldEmpties, SettlingEmpties, DeletionStepEmpties
<1>1. CASE \/ Fail!OwnerReplaces \/ Fail!OwnerRemoves \/ Fail!Mount \/ Fail!Crash
           \/ Fail!PowerLoss \/ Fail!WorkerStarts \/ Fail!WorkerEnds \/ Fail!LineLost
           \/ Fail!RecordStart \/ Fail!RecordProcessingError \/ Fail!RecordOther
           \/ Fail!RecordCrash \/ Fail!TryDeletePath \/ Fail!InspectQuarantine
           \/ Fail!Revalidate \/ Fail!CompletePrivateDelete \/ Fail!FinishDeleteOutcome
           \/ Fail!WriteSummary
  BY <1>1
<1>2. ASSUME NEW b \in BOOLEAN,
             \/ Fail!PersistFailureMarker(b) \/ Fail!OpenQuarantine(b)
             \/ Fail!MoveToQuarantine(b) \/ Fail!SyncMove(b) \/ Fail!RestoreLink(b)
             \/ Fail!EnsureTombstone(b) \/ Fail!UnlinkCandidate(b) \/ Fail!SyncQuarantine(b)
             \/ Fail!ConfirmCompleted(b)
             \/ \E c \in BOOLEAN : Fail!RestoreUnlink(b, c) \/ Fail!StartMonitor(b, c)
      PROVE  EmptyInv'
  BY <1>2
<1> QED BY <1>1, <1>2 DEF Fail!FailNext

\* A file deleted in one go is not at the path, not in the quarantine of its
\* deletion, and no power loss brings it back; a deletion resumed after a
\* restart has left its quarantine empty for good.  However many deletions,
\* generations and crashes there were (monitor_subgen_failures.py,
\* finish_delete_outcome, recover_delete_intents); a path that was missing is
\* outside the claim.
THEOREM DeletedStaysGone == OpsSpec => []DeletedIsGone
<1>1. OpsInit => GoneInv /\ EmptyInv
  <2> SUFFICES ASSUME OpsInit
               PROVE  GoneInv /\ EmptyInv
    OBVIOUS
  <2>1. MediaInv
    BY MonitorPart, MediaStart
  <2>2. /\ mon.pc = "down" /\ mon.target.status = "none" /\ saved.target.status = "none"
        /\ mon.target.token = 0 /\ saved.target.token = 0
    BY MonitorPart DEF Fail!FailInit, Fail!MonitorDown, Fail!NoTarget
  <2>3. "none" \notin Settled
    BY DEF Settled, Fail!Resumed
  <2> QED BY <2>1, <2>2, <2>3 DEF GoneInv, Live, Reported, Deletion, EmptyInv
<1>2. GoneInv /\ EmptyInv /\ [OpsNext]_opsVars => GoneInv' /\ EmptyInv'
  <2>1. ASSUME GoneInv, EmptyInv, UNCHANGED failVars
        PROVE  GoneInv' /\ EmptyInv'
    <3>1. MediaInv'
      BY <2>1
      DEF failVars, GoneInv, MediaInv, FailTypes, FoldersKept, Folders, Boxes, Media, Targets,
          Accounted, QuarantinesClean, Evident, OwnQuarantine, Fail!Quarantine
    <3>2. Live' /\ Reported'
      BY <2>1 DEF failVars, GoneInv, Live, Reported, Gone, Fail!Quarantine
    <3>3. EmptyInv'
      BY <2>1 DEF failVars, EmptyInv, Emptied, Settled, Fail!Resumed
    <3> QED BY <3>1, <3>2, <3>3 DEF GoneInv
  <2>2. ASSUME GoneInv, EmptyInv, Fail!FailNext
        PROVE  GoneInv' /\ EmptyInv'
    BY <2>2, GoneStep, EmptyStep DEF GoneInv
  <2> QED BY <2>1, <2>2, MonitorPart
<1>3. GoneInv /\ EmptyInv => DeletedIsGone
  BY DEF GoneInv, Reported, Gone, EmptyInv, Emptied, Settled, DeletedIsGone, Fail!DeletedIsGone
<1> QED BY <1>1, <1>2, <1>3, PTL DEF OpsSpec

-----------------------------------------------------------------------------
(***************************************************************************)
(* The release publishers.  A running publisher works on what its journal  *)
(* holds, so that what is known of a checkpoint survives a crash.  As long *)
(* as latest is not the release's, nobody has sent the removal of a lock,  *)
(* and whoever acquired it holds it (Backed); that keeps all others away   *)
(* from the update of latest, which its sender records before it sends.    *)
(* A probe that is verified saw the registry refuse what it must refuse.   *)
(***************************************************************************)

CheckpointFields == {"phase", "object", "acquired", "removed", "smoke", "create", "cas",
                     "attempted", "url", "runs"}
ProbeFields == {"stage", "prior", "winner"}
HubFields == {"main", "tag", "release", "blob", "manifest", "version", "latest", "lock",
              "runs", "create", "cas"}
ProcFields == {"at", "io", "op", "cp", "state"}
NoPhase == <<"none", "none">>

\* Which etags a probe's receipt holds in which stage.
CreateKept(probe) ==
    /\ DOMAIN probe = ProbeFields
    /\ probe.stage \in {"none", "planned", "seed_armed", "reject_armed", "verified"}
    /\ probe.prior = 0
    /\ probe.winner # 0 <=> probe.stage \in {"reject_armed", "verified"}

CasKept(probe) ==
    /\ DOMAIN probe = ProbeFields
    /\ probe.stage \in {"none", "planned", "seed_armed", "cas_armed", "stale_armed", "verified"}
    /\ probe.prior # 0 <=> probe.stage \in {"cas_armed", "stale_armed", "verified"}
    /\ probe.winner # 0 <=> probe.stage \in {"stale_armed", "verified"}

Checkpoint(c) ==
    /\ DOMAIN c = CheckpointFields
    /\ CreateKept(c.create) /\ CasKept(c.cas)
    /\ c.object \in BOOLEAN /\ c.acquired \in BOOLEAN /\ c.removed \in BOOLEAN
    /\ c.smoke \in BOOLEAN /\ c.attempted \in BOOLEAN /\ c.url \in BOOLEAN
    /\ c.acquired => c.object
    /\ c.removed => c.acquired
    /\ c.phase \in Release!RemovalPhases => c.acquired
    /\ c.attempted => c.cas.stage = "verified"

\* What the servers guarantee of a durable checkpoint of p.
Backed(p, c) ==
    /\ c.acquired /\ hub.latest # "ours" => hub.lock = p
    /\ c.create.stage = "verified" => honours.create
    /\ c.cas.stage = "verified" => honours.match

\* Where a publisher may be writing what.
Sends == {<<"lock_object", "lock_object_create">>, <<"lock_ref", "lock_ref_create">>,
          <<"main_read", "main_fast_forward">>, <<"tag", "version_tag_object_create">>,
          <<"tag_ref", "version_tag_ref_create">>, <<"blob", "blob_upload_start">>,
          <<"blob", "blob_upload_finish">>, <<"blob_send", "blob_upload_finish">>,
          <<"manifest", "manifest_put">>, <<"create_probe", "create_probe_seed">>,
          <<"create_probe", "create_probe_reject">>, <<"version_create", "version_create">>,
          <<"release_read", "release_create">>, <<"cas_probe", "cas_probe_seed">>,
          <<"cas_probe", "cas_probe_cas">>, <<"cas_probe", "cas_probe_stale">>,
          <<"latest_send", "latest_update">>, <<"unlock", "lock_ref_remove">>}

BeforeObject == {"down", "lock_object", "have_object"}
BeforeLock == BeforeObject \cup {"lock_ref", "have_lock"}
Closing == {"evidence", "unlock", "lock_gone"}
Unsent == {"none", "pending", "checked", "identified"}

\* What a publisher knows where it is.
Process(w) ==
    /\ DOMAIN w = ProcFields
    /\ w.io \in Unsent \cup {"answered", "failed"}
    /\ w.io = "none" <=> w.op = "none"
    /\ w.io # "none" => <<w.at, w.op>> \in Sends
    /\ w.at # "down" => w.cp.phase # NoPhase
    /\ w.at \notin BeforeObject => w.cp.object
    /\ w.at \notin BeforeLock => w.cp.acquired
    /\ w.at = "version_create" => w.cp.create.stage = "verified"
    /\ w.at \in {"latest_arm", "latest_send"} => w.cp.cas.stage = "verified"
    /\ w.at \in {"cas_probe", "cas_rejected", "latest_arm"} => ~w.cp.attempted
    /\ w.at = "latest_send" => w.cp.attempted
    /\ w.at = "create_rejected" \/ w.op = "create_probe_reject" =>
          w.cp.create.stage = "reject_armed"
    /\ w.at = "cas_rejected" \/ w.op = "cas_probe_stale" => w.cp.cas.stage = "stale_armed"

\* What holds around a publisher where it is.
Around(p, w) ==
    /\ w.at \in Closing => hub.latest = "ours"
    /\ w.at \in {"release_read", "latest"} =>
          /\ w.state.latest \in {"prior", "ours"}
          /\ w.state.latest = "ours" => hub.latest = "ours"
    /\ w.at \in {"cas_probe", "cas_rejected", "latest_arm"} => seen.updates = 0
    /\ w.at = "latest_send" /\ w.io \in Unsent => seen.updates = 0
    /\ (w.at = "create_rejected" \/ (w.op = "create_probe_reject" /\ w.io = "answered"))
          /\ ~honours.create => hub.create[p].holds = "rejected"
    /\ (w.at = "cas_rejected" \/ (w.op = "cas_probe_stale" /\ w.io = "answered"))
          /\ ~honours.match => hub.cas[p].holds = "rejected"

Known(p, w, c) ==
    /\ Checkpoint(c) /\ Backed(p, c) /\ Process(w) /\ Around(p, w)
    /\ w.at # "down" => w.cp = c

Reference(r) ==
    /\ DOMAIN r = {"holds", "etag"} /\ r.etag \in Nat
    /\ r.holds # Release!Absent => r.etag # 0

\* What may still be on its way.
Delayed(r) ==
    /\ r[1] \in Publishers /\ r[2] \notin Release!ProbeOps
    /\ r[2] = "latest_update" => honours.match /\ seen.updates # 0
    /\ r[2] = "version_create" => honours.create
    /\ r[2] = "lock_ref_remove" => hub.latest = "ours"

Servers ==
    /\ DOMAIN hub = HubFields
    /\ DOMAIN hub.create = Publishers /\ DOMAIN hub.cas = Publishers
    /\ \A p \in Publishers : Reference(hub.create[p]) /\ Reference(hub.cas[p])
    /\ honours.create \in BOOLEAN /\ honours.match \in BOOLEAN
    /\ \A r \in late : Delayed(r)
    /\ DOMAIN seen = {"overwritten", "updates", "stranded"}
    /\ seen.overwritten = FALSE /\ seen.updates \in {0, 1}
    /\ seen.updates = 0 => hub.latest # "ours"

\* Whoever sent the update of latest has it in its journal.
SenderKnown ==
    seen.updates # 0 /\ hub.latest # "ours" =>
        \E p \in Publishers : journal[p].attempted /\ journal[p].acquired

RelInv ==
    /\ Servers /\ SenderKnown
    /\ DOMAIN proc = Publishers /\ DOMAIN journal = Publishers
    /\ \A p \in Publishers : Known(p, proc[p], journal[p])
    /\ \A p \in Publishers : journal[p] # Release!NoCheckpoint => journal[p].phase # NoPhase

-----------------------------------------------------------------------------
(* What the journal accepts. *)

\* The stages of a probe, numbered.
LEMMA StageNumbers ==
    ASSUME NEW probe
    PROVE  /\ CreateKept(probe) =>
                Release!StageOf("create", probe) =
                  CASE probe.stage = "none" -> 0 [] probe.stage = "planned" -> 1
                    [] probe.stage = "seed_armed" -> 2 [] probe.stage = "reject_armed" -> 3
                    [] probe.stage = "verified" -> 4
           /\ CasKept(probe) =>
                Release!StageOf("cas", probe) =
                  CASE probe.stage = "none" -> 0 [] probe.stage = "planned" -> 1
                    [] probe.stage = "seed_armed" -> 2 [] probe.stage = "cas_armed" -> 3
                    [] probe.stage = "stale_armed" -> 4 [] probe.stage = "verified" -> 5
<1>1. ASSUME CreateKept(probe)
      PROVE  Release!StageOf("create", probe) =
                  CASE probe.stage = "none" -> 0 [] probe.stage = "planned" -> 1
                    [] probe.stage = "seed_armed" -> 2 [] probe.stage = "reject_armed" -> 3
                    [] probe.stage = "verified" -> 4
  <2> DEFINE s == <<"planned", "seed_armed", "reject_armed", "verified">>
  <2>1. /\ Len(s) = 4 /\ s[1] = "planned" /\ s[2] = "seed_armed" /\ s[3] = "reject_armed"
        /\ s[4] = "verified"
    OBVIOUS
  <2>2. Release!StageOf("create", probe) =
           IF probe.stage = "none" THEN 0 ELSE CHOOSE i \in 1 .. Len(s) : s[i] = probe.stage
    BY DEF Release!StageOf, Release!ProbeStages
  <2> HIDE DEF s
  <2>3. ASSUME NEW k \in 1..4
        PROVE  (CHOOSE i \in 1 .. Len(s) : s[i] = s[k]) = k
    <3>1. \A i, j \in 1..4 : s[i] = s[j] => i = j
      BY <2>1
    <3>2. \E i \in 1 .. Len(s) : s[i] = s[k]
      BY <2>1
    <3>3. \A i \in 1 .. Len(s) : s[i] = s[k] => i = k
      BY <2>1, <3>1
    <3> QED BY <3>2, <3>3
  <2>4. /\ (CHOOSE i \in 1 .. Len(s) : s[i] = "planned") = 1
        /\ (CHOOSE i \in 1 .. Len(s) : s[i] = "seed_armed") = 2
        /\ (CHOOSE i \in 1 .. Len(s) : s[i] = "reject_armed") = 3
        /\ (CHOOSE i \in 1 .. Len(s) : s[i] = "verified") = 4
    BY <2>1, <2>3
  <2> QED BY <1>1, <2>2, <2>4 DEF CreateKept
<1>2. ASSUME CasKept(probe)
      PROVE  Release!StageOf("cas", probe) =
                  CASE probe.stage = "none" -> 0 [] probe.stage = "planned" -> 1
                    [] probe.stage = "seed_armed" -> 2 [] probe.stage = "cas_armed" -> 3
                    [] probe.stage = "stale_armed" -> 4 [] probe.stage = "verified" -> 5
  <2> DEFINE s == <<"planned", "seed_armed", "cas_armed", "stale_armed", "verified">>
  <2>1. /\ Len(s) = 5 /\ s[1] = "planned" /\ s[2] = "seed_armed" /\ s[3] = "cas_armed"
        /\ s[4] = "stale_armed" /\ s[5] = "verified"
    OBVIOUS
  <2>2. Release!StageOf("cas", probe) =
           IF probe.stage = "none" THEN 0 ELSE CHOOSE i \in 1 .. Len(s) : s[i] = probe.stage
    BY DEF Release!StageOf, Release!ProbeStages
  <2> HIDE DEF s
  <2>3. ASSUME NEW k \in 1..5
        PROVE  (CHOOSE i \in 1 .. Len(s) : s[i] = s[k]) = k
    <3>1. \A i, j \in 1..5 : s[i] = s[j] => i = j
      BY <2>1
    <3>2. \E i \in 1 .. Len(s) : s[i] = s[k]
      BY <2>1
    <3>3. \A i \in 1 .. Len(s) : s[i] = s[k] => i = k
      BY <2>1, <3>1
    <3> QED BY <3>2, <3>3
  <2>4. /\ (CHOOSE i \in 1 .. Len(s) : s[i] = "planned") = 1
        /\ (CHOOSE i \in 1 .. Len(s) : s[i] = "seed_armed") = 2
        /\ (CHOOSE i \in 1 .. Len(s) : s[i] = "cas_armed") = 3
        /\ (CHOOSE i \in 1 .. Len(s) : s[i] = "stale_armed") = 4
        /\ (CHOOSE i \in 1 .. Len(s) : s[i] = "verified") = 5
    BY <2>1, <2>3
  <2> QED BY <1>2, <2>2, <2>4 DEF CasKept
<1> QED BY <1>1, <1>2

\* The receipt of a probe in a stage holds the etags of that stage.
LEMMA ProbesDecode ==
    ASSUME NEW probe
    PROVE  /\ CreateKept(probe) => Release!ProbeDecodes("create", probe)
           /\ CasKept(probe) => Release!ProbeDecodes("cas", probe)
<1>1. CreateKept(probe) => Release!ProbeDecodes("create", probe)
  BY StageNumbers DEF Release!ProbeDecodes, CreateKept
<1>2. CasKept(probe) => Release!ProbeDecodes("cas", probe)
  BY StageNumbers DEF Release!ProbeDecodes, CasKept
<1> QED BY <1>1, <1>2

\* A probe that stands still is accepted.
LEMMA ProbeStands ==
    ASSUME NEW probe
    PROVE  /\ Release!ValidateProbeTransition("create", probe, probe)
           /\ Release!ValidateProbeTransition("cas", probe, probe)
BY DEF Release!ValidateProbeTransition

\* A checkpoint that only grows is accepted.
LEMMA GrownAccepted ==
    ASSUME NEW c, NEW d, Checkpoint(c), Checkpoint(d), c # Release!NoCheckpoint,
           Release!ValidateProbeTransition("create", c.create, d.create),
           Release!ValidateProbeTransition("cas", c.cas, d.cas),
           c.smoke => d.smoke, c.object => d.object, c.acquired => d.acquired,
           c.removed => d.removed, c.attempted => d.attempted, c.url => d.url
    PROVE  Release!JournalAccepts(c, d)
<1>1. Release!ProbeDecodes("create", d.create) /\ Release!ProbeDecodes("cas", d.cas)
  BY ProbesDecode DEF Checkpoint
<1>2. Release!ValidateCheckpointTransition(c, d)
  BY DEF Release!ValidateCheckpointTransition, Checkpoint
<1> QED BY <1>1, <1>2 DEF Release!JournalAccepts

\* What an accepted checkpoint keeps.
LEMMA AcceptedGrows ==
    ASSUME NEW c, NEW d, Checkpoint(c), Release!JournalAccepts(c, d)
    PROVE  (c.attempted => d.attempted) /\ (c.acquired => d.acquired)
<1>1. CASE c = Release!NoCheckpoint
  BY <1>1 DEF Release!NoCheckpoint
<1>2. CASE c # Release!NoCheckpoint
  BY <1>2 DEF Release!JournalAccepts, Release!ValidateCheckpointTransition
<1> QED BY <1>1, <1>2

\* A checkpoint with a new phase.
LEMMA NewPhase ==
    ASSUME NEW p, NEW c, Checkpoint(c), Backed(p, c), NEW phase,
           phase \in Release!RemovalPhases => c.acquired, phase # NoPhase
    PROVE  LET d == [c EXCEPT !.phase = phase]
           IN  /\ Checkpoint(d) /\ Backed(p, d) /\ d.phase = phase
               /\ d.object = c.object /\ d.acquired = c.acquired /\ d.create = c.create
               /\ d.cas = c.cas /\ d.attempted = c.attempted /\ d.removed = c.removed
               /\ d.smoke = c.smoke /\ d.url = c.url /\ d.runs = c.runs
               /\ c # Release!NoCheckpoint => Release!JournalAccepts(c, d)
<1> DEFINE d == [c EXCEPT !.phase = phase]
<1>1. /\ DOMAIN d = CheckpointFields /\ d.phase = phase
      /\ d.object = c.object /\ d.acquired = c.acquired /\ d.create = c.create
      /\ d.cas = c.cas /\ d.attempted = c.attempted /\ d.removed = c.removed
      /\ d.smoke = c.smoke /\ d.url = c.url /\ d.runs = c.runs
  BY DEF Checkpoint, CheckpointFields
<1> HIDE DEF d
<1>2. Checkpoint(d) /\ Backed(p, d)
  BY <1>1 DEF Checkpoint, Backed
<1>3. c # Release!NoCheckpoint => Release!JournalAccepts(c, d)
  BY <1>1, <1>2, GrownAccepted, ProbeStands
<1> QED BY <1>1, <1>2, <1>3 DEF d

\* What a step leaves of the journals: what it records is accepted, and who
\* has a checkpoint keeps one.
ReceiptsKept ==
    /\ Release!AcceptsReceipts
    /\ \A q \in Publishers :
          journal[q] # Release!NoCheckpoint => journal'[q] # Release!NoCheckpoint

\* A step of one publisher that reaches no server.
LEMMA LocalStep ==
    ASSUME RelInv, NEW p \in Publishers, NEW w, NEW c,
           UNCHANGED <<hub, honours, late>>,
           proc' = [proc EXCEPT ![p] = w],
           \/ journal' = [journal EXCEPT ![p] = c]
           \/ UNCHANGED journal /\ c = journal[p],
           DOMAIN seen' = DOMAIN seen, seen'.updates = seen.updates,
           seen'.overwritten = seen.overwritten,
           Known(p, w, c), c = journal[p] \/ Release!JournalAccepts(journal[p], c),
           c = journal[p] \/ c.phase # NoPhase
    PROVE  RelInv' /\ ReceiptsKept
<1>1. /\ DOMAIN proc' = Publishers /\ DOMAIN journal' = Publishers
      /\ proc'[p] = w /\ journal'[p] = c
      /\ \A q \in Publishers : q # p => proc'[q] = proc[q] /\ journal'[q] = journal[q]
  BY DEF RelInv
<1>2. ReceiptsKept
  <2>1. Release!AcceptsReceipts
    BY <1>1 DEF Release!AcceptsReceipts
  <2>2. Release!NoCheckpoint.phase = NoPhase
    BY DEF Release!NoCheckpoint, NoPhase
  <2> QED BY <1>1, <2>1, <2>2 DEF ReceiptsKept
<1>3. \A q, v, d : Known(q, v, d) => Known(q, v, d)'
  BY DEF Known, Backed, Around
<1>4. \A q \in Publishers : Known(q, proc[q], journal[q])'
  BY <1>1, <1>3 DEF RelInv
<1>5. Servers'
  <2>1. \A r : Delayed(r) => Delayed(r)'
    BY DEF Delayed
  <2> QED BY <2>1 DEF RelInv, Servers
<1>6. SenderKnown'
  <2>1. (journal[p].attempted => c.attempted) /\ (journal[p].acquired => c.acquired)
    <3>1. Checkpoint(journal[p])
      BY DEF RelInv, Known
    <3> QED BY <3>1, AcceptedGrows
  <2>2. \A q \in Publishers : journal[q].attempted /\ journal[q].acquired
                              => journal'[q].attempted /\ journal'[q].acquired
    BY <1>1, <2>1
  <2> QED BY <2>2 DEF RelInv, SenderKnown
<1> QED BY <1>1, <1>2, <1>4, <1>5, <1>6 DEF RelInv

\* What the invariant says of one publisher.
LEMMA OfOne ==
    ASSUME RelInv, NEW p \in Publishers
    PROVE  /\ Checkpoint(journal[p]) /\ Backed(p, journal[p])
           /\ Process(proc[p]) /\ Around(p, proc[p])
           /\ proc[p].at # "down" => /\ proc[p].cp = journal[p]
                                     /\ journal[p].phase # NoPhase
                                     /\ journal[p] # Release!NoCheckpoint
           /\ journal[p] # Release!NoCheckpoint => journal[p].phase # NoPhase
           /\ DOMAIN proc = Publishers /\ DOMAIN journal = Publishers
           /\ DOMAIN proc[p] = ProcFields
<1>1. Known(p, proc[p], journal[p]) /\ DOMAIN proc = Publishers /\ DOMAIN journal = Publishers
  BY DEF RelInv
<1>2. /\ Checkpoint(journal[p]) /\ Backed(p, journal[p])
      /\ Process(proc[p]) /\ Around(p, proc[p])
      /\ proc[p].at # "down" => proc[p].cp = journal[p]
  BY <1>1 DEF Known
<1>3. proc[p].at # "down" => journal[p].phase # NoPhase
  BY <1>2 DEF Process
<1>4. Release!NoCheckpoint.phase = NoPhase
  BY DEF Release!NoCheckpoint, NoPhase
<1>5. journal[p] # Release!NoCheckpoint => journal[p].phase # NoPhase
  BY DEF RelInv
<1>6. DOMAIN proc[p] = ProcFields
  BY <1>2 DEF Process
<1> QED BY <1>1, <1>2, <1>3, <1>4, <1>5, <1>6

\* A publisher between two writes.
Resting(w, at, c, state) ==
    /\ DOMAIN w = ProcFields /\ w.at = at /\ w.io = "none" /\ w.op = "none"
    /\ w.cp = c /\ w.state = state

\* A publisher that goes on, with the checkpoint it had or a new one.
LEMMA RestStep ==
    ASSUME RelInv, NEW p \in Publishers, NEW at, NEW c, NEW state, NEW w,
           UNCHANGED <<hub, honours, late, seen>>,
           Resting(w, at, c, state), proc' = [proc EXCEPT ![p] = w],
           \/ journal' = [journal EXCEPT ![p] = c]
           \/ UNCHANGED journal /\ c = journal[p],
           Checkpoint(c), Backed(p, c), c.phase # NoPhase,
           c = journal[p] \/ Release!JournalAccepts(journal[p], c),
           Process(w), Around(p, w)
    PROVE  RelInv' /\ ReceiptsKept
<1>1. Known(p, w, c)
  BY DEF Known, Resting
<1> QED BY <1>1, LocalStep

\* Moves, as the publisher it leaves.
LEMMA MovesRests ==
    ASSUME RelInv, NEW p \in Publishers, NEW at, NEW c, Release!Moves(p, at, c)
    PROVE  \E w : Resting(w, at, c, proc[p].state) /\ proc' = [proc EXCEPT ![p] = w]
<1> DEFINE w == [proc[p] EXCEPT !.at = at, !.io = "none", !.op = "none", !.cp = c]
<1>1. DOMAIN proc[p] = ProcFields
  BY OfOne
<1>2. Resting(w, at, c, proc[p].state)
  BY <1>1 DEF Resting, ProcFields
<1>3. proc' = [proc EXCEPT ![p] = w]
  BY DEF Release!Moves
<1> HIDE DEF w
<1> QED BY <1>2, <1>3

\* A publisher that stops, with the checkpoint it had or a new one.
LEMMA EndsStep ==
    ASSUME RelInv, NEW p \in Publishers, NEW c,
           UNCHANGED <<hub, honours, late>>,
           proc' = [proc EXCEPT ![p] = Release!NotRunning],
           UNCHANGED seen \/ \E why : Release!Ends(p, why),
           \/ journal' = [journal EXCEPT ![p] = c]
           \/ UNCHANGED journal /\ c = journal[p],
           Checkpoint(c), Backed(p, c),
           \/ c = journal[p]
           \/ c.phase # NoPhase /\ Release!JournalAccepts(journal[p], c)
    PROVE  RelInv' /\ ReceiptsKept
<1>1. /\ DOMAIN seen' = DOMAIN seen /\ seen'.updates = seen.updates
      /\ seen'.overwritten = seen.overwritten
  <2>1. DOMAIN seen = {"overwritten", "updates", "stranded"}
    BY DEF RelInv, Servers
  <2> QED BY <2>1 DEF Release!Ends
<1>2. Process(Release!NotRunning) /\ Around(p, Release!NotRunning)
  BY DEF Process, Around, Release!NotRunning, ProcFields, Unsent, BeforeObject, BeforeLock, Closing
<1>3. Known(p, Release!NotRunning, c)
  BY <1>2 DEF Known, Release!NotRunning
<1> QED BY <1>1, <1>3, LocalStep

\* Ending without a new checkpoint.
LEMMA EndsAsItWas ==
    ASSUME RelInv, NEW p \in Publishers, NEW why, Release!World, Release!Unrecorded,
           Release!Ends(p, why)
    PROVE  RelInv' /\ ReceiptsKept
<1>1. UNCHANGED <<hub, honours, late>> /\ UNCHANGED journal
  BY DEF Release!World, Release!Unrecorded
<1>2. Checkpoint(journal[p]) /\ Backed(p, journal[p])
  BY OfOne
<1>3. proc' = [proc EXCEPT ![p] = Release!NotRunning]
  BY DEF Release!Ends
<1> QED BY <1>1, <1>2, <1>3, EndsStep

\* Ending with a new phase in the journal.
LEMMA EndsInPhase ==
    ASSUME RelInv, NEW p \in Publishers, NEW why, NEW phase, Release!World,
           proc[p].at # "down",
           Release!Journaled(p, [journal[p] EXCEPT !.phase = phase]), Release!Ends(p, why),
           phase \in Release!RemovalPhases => journal[p].acquired, phase # NoPhase
    PROVE  RelInv' /\ ReceiptsKept
<1> DEFINE c == journal[p]
           d == [c EXCEPT !.phase = phase]
<1>1. Checkpoint(c) /\ Backed(p, c) /\ c # Release!NoCheckpoint
  BY OfOne
<1>2. /\ UNCHANGED <<hub, honours, late>> /\ journal' = [journal EXCEPT ![p] = d]
      /\ proc' = [proc EXCEPT ![p] = Release!NotRunning]
  BY DEF Release!World, Release!Journaled, Release!Ends
<1> HIDE DEF c
<1>3. Checkpoint(d) /\ Backed(p, d) /\ d.phase # NoPhase /\ Release!JournalAccepts(c, d)
  BY <1>1, NewPhase DEF c
<1> HIDE DEF d
<1> QED BY <1>2, <1>3, EndsStep DEF c

\* A write begins: it is pending in the journal before it is sent.
LEMMA PendingStep ==
    ASSUME RelInv, NEW p \in Publishers, NEW op, Release!World,
           proc[p].at # "down", proc[p].io = "none",
           Release!WritePending(p, op, proc[p].cp),
           <<proc[p].at, op>> \in Sends,
           op = "create_probe_reject" => proc[p].cp.create.stage = "reject_armed",
           op = "cas_probe_stale" => proc[p].cp.cas.stage = "stale_armed"
    PROVE  RelInv' /\ ReceiptsKept
<1> DEFINE w == proc[p]
           c == journal[p]
           d == [c EXCEPT !.phase = <<op, "pending">>]
           v == [w EXCEPT !.cp = d, !.op = op, !.io = "pending"]
<1>1. /\ Checkpoint(c) /\ Backed(p, c) /\ c # Release!NoCheckpoint /\ w.cp = c
      /\ Process(w) /\ Around(p, w) /\ DOMAIN w = ProcFields
  BY OfOne
<1>2. UNCHANGED <<hub, honours, late, seen>> /\ journal' = [journal EXCEPT ![p] = d]
      /\ proc' = [proc EXCEPT ![p] = v]
  BY <1>1 DEF Release!World, Release!WritePending, Release!Journaled
<1> HIDE DEF c, w
<1>3. op # "none" /\ (op = "lock_ref_remove" => w.at = "unlock")
  BY DEF Sends, w
<1>4. <<op, "pending">> \in Release!RemovalPhases => c.acquired
  <2>1. <<op, "pending">> \in Release!RemovalPhases => op = "lock_ref_remove"
    BY DEF Release!RemovalPhases
  <2>2. w.at = "unlock" => w.cp.acquired
    BY <1>1 DEF Process, BeforeLock, BeforeObject
  <2> QED BY <1>1, <1>3, <2>1, <2>2
<1>5. <<op, "pending">> # NoPhase
  BY DEF NoPhase
<1>6. /\ Checkpoint(d) /\ Backed(p, d) /\ d.phase # NoPhase /\ Release!JournalAccepts(c, d)
      /\ d.object = c.object /\ d.acquired = c.acquired /\ d.create = c.create
      /\ d.cas = c.cas /\ d.attempted = c.attempted
  BY <1>1, <1>4, <1>5, NewPhase
<1> HIDE DEF d
<1>7. /\ DOMAIN v = ProcFields /\ v.at = w.at /\ v.io = "pending" /\ v.op = op /\ v.cp = d
      /\ v.state = w.state
  BY <1>1 DEF ProcFields
<1> HIDE DEF v
<1>8. Process(v)
  BY <1>1, <1>3, <1>6, <1>7 DEF Process, Unsent, w
<1>9. Around(p, v)
  BY <1>1, <1>7 DEF Around, Unsent, w
<1>10. Known(p, v, d)
  BY <1>6, <1>7, <1>8, <1>9 DEF Known
<1> QED BY <1>2, <1>6, <1>10, LocalStep DEF c

-----------------------------------------------------------------------------
(* The steps of publish() between its writes. *)

\* A publisher may be at a place with a checkpoint and what it read.
Fit(p, at, c, state) == \A w : Resting(w, at, c, state) => Process(w) /\ Around(p, w)

\* The places where holding the lock is all there is to know.
Middle == {"main", "main_read", "main_moved", "tag", "tag_ref", "tag_made", "blob", "have_url",
           "blob_send", "blob_made", "manifest", "manifest_made", "version", "create_probe",
           "version_made", "retained", "smoke", "smoke_pulled", "smoke_done", "release", "release_made",
           "latest_made"}

\* Anyone with the lock may be there.
LEMMA FitMiddle ==
    ASSUME NEW p, NEW at \in Middle, NEW c, NEW state, Checkpoint(c), c.acquired,
           c.phase # NoPhase
    PROVE  Fit(p, at, c, state)
BY DEF Fit, Resting, Middle, Process, Around, Checkpoint, Unsent, BeforeObject, BeforeLock, Closing

\* The publisher goes on with the checkpoint it has.
LEMMA GoesOn ==
    ASSUME RelInv, NEW p \in Publishers, NEW next, proc[p].at # "down",
           Release!World, Release!Unrecorded, UNCHANGED seen,
           Release!Moves(p, next, proc[p].cp), Fit(p, next, proc[p].cp, proc[p].state)
    PROVE  RelInv' /\ ReceiptsKept
<1>1. /\ proc[p].cp = journal[p] /\ Checkpoint(journal[p]) /\ Backed(p, journal[p])
      /\ journal[p].phase # NoPhase
  BY OfOne
<1>2. PICK w : /\ Resting(w, next, proc[p].cp, proc[p].state)
               /\ proc' = [proc EXCEPT ![p] = w]
  BY MovesRests
<1>3. UNCHANGED <<hub, honours, late, seen, journal>>
  BY DEF Release!World, Release!Unrecorded
<1>4. Process(w) /\ Around(p, w)
  BY <1>2 DEF Fit
<1> QED BY <1>1, <1>2, <1>3, <1>4, RestStep

\* The publisher records a new checkpoint and goes on.
LEMMA GoesOnWith ==
    ASSUME RelInv, NEW p \in Publishers, NEW next, NEW c,
           Release!World, Release!Journaled(p, c), UNCHANGED seen,
           Release!Moves(p, next, c), Fit(p, next, c, proc[p].state),
           Checkpoint(c), Backed(p, c), c.phase # NoPhase,
           Release!JournalAccepts(journal[p], c)
    PROVE  RelInv' /\ ReceiptsKept
<1>1. PICK w : /\ Resting(w, next, c, proc[p].state)
               /\ proc' = [proc EXCEPT ![p] = w]
  BY MovesRests
<1>2. UNCHANGED <<hub, honours, late, seen>> /\ journal' = [journal EXCEPT ![p] = c]
  BY DEF Release!World, Release!Journaled
<1>3. Process(w) /\ Around(p, w)
  BY <1>1 DEF Fit
<1> QED BY <1>1, <1>2, <1>3, RestStep

\* A stage that goes on or begins a write.
LEMMA StageStep ==
    ASSUME RelInv, NEW p \in Publishers, NEW at, NEW todo, NEW op, NEW next,
           Release!Stage(p, at, todo, op, next), at # "down", <<at, op>> \in Sends,
           op \notin {"create_probe_reject", "cas_probe_stale"},
           ~todo => Fit(p, next, proc[p].cp, proc[p].state)
    PROVE  RelInv' /\ ReceiptsKept
<1>1. proc[p].at = at /\ proc[p].io = "none" /\ Release!World
  BY DEF Release!Stage, Release!At
<1>2. CASE ~Release!HasLock(p)
  BY <1>2, EndsAsItWas DEF Release!Stage
<1>3. CASE Release!HasLock(p) /\ todo
  <2>1. Release!WritePending(p, op, proc[p].cp)
    BY <1>3 DEF Release!Stage
  <2> QED BY <1>1, <2>1, PendingStep
<1>4. CASE Release!HasLock(p) /\ ~todo
  <2>1. /\ Release!Unrecorded /\ UNCHANGED seen
        /\ Release!Moves(p, next, proc[p].cp)
    BY <1>4 DEF Release!Stage
  <2> QED BY <1>1, <1>4, <2>1, GoesOn
<1> QED BY <1>2, <1>3, <1>4

\* A stage that looks at one thing and goes on.
LEMMA ConfirmsStep ==
    ASSUME RelInv, NEW p \in Publishers, NEW at, NEW wanted, NEW next,
           Release!Confirms(p, at, wanted, next), at # "down",
           wanted => Fit(p, next, proc[p].cp, proc[p].state)
    PROVE  RelInv' /\ ReceiptsKept
<1>1. proc[p].at = at /\ proc[p].io = "none" /\ Release!World /\ Release!Unrecorded
  BY DEF Release!Confirms, Release!At
<1>2. CASE ~wanted
  BY <1>1, <1>2, EndsAsItWas DEF Release!Confirms
<1>3. CASE wanted
  <2>1. UNCHANGED seen /\ Release!Moves(p, next, proc[p].cp)
    BY <1>3 DEF Release!Confirms
  <2> QED BY <1>1, <1>3, <2>1, GoesOn
<1> QED BY <1>2, <1>3

\* A stage that reads the public state again.
LEMMA RereadStep ==
    ASSUME RelInv, NEW p \in Publishers, NEW at, NEW wanted, NEW next,
           Release!Reread(p, at, wanted, next), at # "down",
           wanted /\ Release!ComponentsValid(Release!ReadPublicState)
             => Fit(p, next, proc[p].cp, Release!ReadPublicState)
    PROVE  RelInv' /\ ReceiptsKept
<1> DEFINE state == Release!ReadPublicState
<1>1. proc[p].at = at /\ proc[p].io = "none" /\ Release!World /\ Release!Unrecorded
  BY DEF Release!Reread, Release!At
<1>2. CASE ~(Release!ComponentsValid(state) /\ wanted)
  BY <1>1, <1>2, EndsAsItWas DEF Release!Reread
<1>3. CASE Release!ComponentsValid(state) /\ wanted
  <2> DEFINE w == [proc[p] EXCEPT !.at = next, !.state = state]
  <2>1. UNCHANGED seen /\ proc' = [proc EXCEPT ![p] = w]
    BY <1>3 DEF Release!Reread
  <2>2. /\ proc[p].cp = journal[p] /\ Checkpoint(journal[p]) /\ Backed(p, journal[p])
        /\ journal[p].phase # NoPhase /\ DOMAIN proc[p] = ProcFields /\ Process(proc[p])
    BY <1>1, OfOne
  <2> HIDE DEF state
  <2>3. Resting(w, next, proc[p].cp, state)
    <3>1. proc[p].op = "none"
      BY <1>1, <2>2 DEF Process
    <3> QED BY <1>1, <2>2, <3>1 DEF Resting, ProcFields
  <2> HIDE DEF w
  <2>4. Process(w) /\ Around(p, w)
    BY <1>3, <2>3 DEF Fit, state
  <2>5. UNCHANGED <<hub, honours, late, seen, journal>>
    BY <1>1, <2>1 DEF Release!World, Release!Unrecorded
  <2> QED BY <2>1, <2>2, <2>3, <2>4, <2>5, RestStep
<1> QED BY <1>2, <1>3

\* The lock is acquired wherever a stage is past it.
LEMMA PastTheLock ==
    ASSUME RelInv, NEW p \in Publishers, proc[p].at \notin BeforeLock
    PROVE  /\ proc[p].cp.acquired /\ proc[p].cp.phase # NoPhase /\ Checkpoint(proc[p].cp)
           /\ proc[p].cp = journal[p] /\ Backed(p, proc[p].cp)
           /\ \A at \in Middle : \A state : Fit(p, at, proc[p].cp, state)
<1>1. proc[p].at # "down"
  BY DEF BeforeLock, BeforeObject
<1>2. /\ proc[p].cp.acquired /\ proc[p].cp.phase # NoPhase /\ Checkpoint(proc[p].cp)
      /\ proc[p].cp = journal[p] /\ Backed(p, proc[p].cp)
  BY <1>1, OfOne DEF Process
<1>3. ASSUME NEW at \in Middle, NEW state
      PROVE  Fit(p, at, proc[p].cp, state)
  <2> DEFINE c == proc[p].cp
  <2> HIDE DEF c
  <2>1. Checkpoint(c) /\ c.acquired /\ c.phase # NoPhase
    BY <1>2 DEF c
  <2> QED BY <1>3, <2>1, FitMiddle DEF c
<1> QED BY <1>2, <1>3

\* MainFastForward, VersionTag, RegistryBlob and RegistryManifest.
LEMMA EarlyStages ==
    ASSUME RelInv, NEW p \in Publishers,
           \/ Release!MainFastForward(p) \/ Release!VersionTag(p)
           \/ Release!RegistryBlob(p) \/ Release!RegistryManifest(p)
    PROVE  RelInv' /\ ReceiptsKept
<1>0. proc[p].at \in {"main", "main_read", "main_moved", "tag", "tag_ref", "tag_made", "blob",
                      "have_url", "blob_send", "blob_made", "manifest", "manifest_made"}
      /\ proc[p].io = "none"
  BY DEF Release!MainFastForward, Release!VersionTag, Release!RegistryBlob,
         Release!RegistryManifest, Release!Reread, Release!Stage, Release!Notes,
         Release!Confirms, Release!At
<1>1. /\ proc[p].cp.acquired /\ proc[p].cp.phase # NoPhase /\ Checkpoint(proc[p].cp)
      /\ proc[p].cp = journal[p] /\ Backed(p, proc[p].cp)
      /\ \A at \in Middle : \A state : Fit(p, at, proc[p].cp, state)
      /\ proc[p].at # "down"
  BY <1>0, PastTheLock DEF BeforeLock, BeforeObject
<1>2. CASE Release!MainFastForward(p)
  <2>1. CASE Release!Reread(p, "main", TRUE, "main_read")
    BY <1>1, <2>1, RereadStep DEF Middle
  <2>2. CASE Release!Stage(p, "main_read", proc[p].state.main = "prior", "main_fast_forward", "tag")
    BY <1>1, <2>2, StageStep DEF Middle, Sends
  <2>3. CASE Release!Reread(p, "main_moved", hub.main = "release", "tag")
    BY <1>1, <2>3, RereadStep DEF Middle
  <2> QED BY <1>2, <2>1, <2>2, <2>3 DEF Release!MainFastForward
<1>3. CASE Release!VersionTag(p)
  <2>1. CASE Release!Stage(p, "tag", proc[p].state.tag = Release!Absent, "version_tag_object_create", "blob")
    BY <1>1, <2>1, StageStep DEF Middle, Sends
  <2>2. CASE Release!At(p, "tag_ref") /\ Release!World
             /\ Release!WritePending(p, "version_tag_ref_create", proc[p].cp)
    BY <1>1, <2>2, PendingStep DEF Sends, Release!At
  <2>3. CASE Release!Reread(p, "tag_made", hub.tag = "ours", "blob")
    BY <1>1, <2>3, RereadStep DEF Middle
  <2> QED BY <1>3, <2>1, <2>2, <2>3 DEF Release!VersionTag
<1>4. CASE Release!RegistryBlob(p)
  <2>1. CASE Release!Stage(p, "blob", ~hub.blob, IF proc[p].cp.url THEN "blob_upload_finish"
                                                 ELSE "blob_upload_start", "manifest")
    <3>1. PICK op \in {"blob_upload_finish", "blob_upload_start"} :
             Release!Stage(p, "blob", ~hub.blob, op, "manifest")
      BY <2>1
    <3> QED BY <1>1, <3>1, StageStep DEF Middle, Sends
  <2>2. CASE Release!Notes(p, "have_url", [proc[p].cp EXCEPT !.url = TRUE], "blob_send")
    <3> DEFINE c == proc[p].cp
               d == [c EXCEPT !.url = TRUE]
    <3> HIDE DEF c
    <3>1. /\ Release!World /\ Release!Journaled(p, d) /\ UNCHANGED seen
          /\ Release!Moves(p, "blob_send", d)
      BY <2>2 DEF Release!Notes, c
    <3>2. Checkpoint(d) /\ Backed(p, d) /\ d.phase # NoPhase /\ d.acquired
          /\ d.create = c.create /\ d.cas = c.cas /\ d.smoke = c.smoke /\ d.object = c.object
          /\ d.acquired = c.acquired /\ d.removed = c.removed /\ d.attempted = c.attempted
          /\ d.url
      BY <1>1 DEF Checkpoint, CheckpointFields, Backed, c
    <3>3. Release!JournalAccepts(c, d)
      <4>1. c # Release!NoCheckpoint
        BY <1>1, OfOne DEF c
      <4>2. Checkpoint(c)
        BY <1>1 DEF c
      <4> HIDE DEF d
      <4> QED BY <3>2, <4>1, <4>2, GrownAccepted, ProbeStands
    <3> HIDE DEF d
    <3>4. Fit(p, "blob_send", d, proc[p].state)
      BY <3>2, FitMiddle DEF Middle
    <3> QED BY <1>1, <3>1, <3>2, <3>3, <3>4, GoesOnWith DEF c
  <2>3. CASE Release!At(p, "blob_send") /\ Release!World
             /\ Release!WritePending(p, "blob_upload_finish", proc[p].cp)
    BY <1>1, <2>3, PendingStep DEF Sends, Release!At
  <2>4. CASE Release!Confirms(p, "blob_made", hub.blob, "manifest")
    BY <1>1, <2>4, ConfirmsStep DEF Middle
  <2> QED BY <1>4, <2>1, <2>2, <2>3, <2>4 DEF Release!RegistryBlob
<1>5. CASE Release!RegistryManifest(p)
  <2>1. CASE Release!Stage(p, "manifest", ~hub.manifest, "manifest_put", "version")
    BY <1>1, <2>1, StageStep DEF Middle, Sends
  <2>2. CASE Release!Confirms(p, "manifest_made", hub.manifest, "version")
    BY <1>1, <2>2, ConfirmsStep DEF Middle
  <2> QED BY <1>5, <2>1, <2>2 DEF Release!RegistryManifest
<1> QED BY <1>2, <1>3, <1>4, <1>5

-----------------------------------------------------------------------------
(* The probes. *)

\* A probe's receipt in its next stage.
Advances(b, n, from, to) ==
    /\ b.stage = from /\ n.stage = to
    /\ b.prior # 0 => n.prior = b.prior
    /\ b.winner # 0 => n.winner = b.winner

\* The create probe advances as its receipt may.
LEMMA CreateAdvances ==
    ASSUME NEW b, NEW n, CreateKept(b), CreateKept(n),
           \/ Advances(b, n, "none", "planned") \/ Advances(b, n, "planned", "seed_armed")
           \/ Advances(b, n, "seed_armed", "reject_armed") \/ Advances(b, n, "reject_armed", "verified")
    PROVE  Release!ValidateProbeTransition("create", b, n)
<1>1. Release!StageOf("create", n) = Release!StageOf("create", b) + 1
  BY StageNumbers DEF Advances
<1> QED BY <1>1 DEF Release!ValidateProbeTransition, Advances, CreateKept

\* So does the probe of latest.
LEMMA CasAdvances ==
    ASSUME NEW b, NEW n, CasKept(b), CasKept(n),
           \/ Advances(b, n, "none", "planned") \/ Advances(b, n, "planned", "seed_armed")
           \/ Advances(b, n, "seed_armed", "cas_armed") \/ Advances(b, n, "cas_armed", "stale_armed")
           \/ Advances(b, n, "stale_armed", "verified")
    PROVE  Release!ValidateProbeTransition("cas", b, n)
<1>1. Release!StageOf("cas", n) = Release!StageOf("cas", b) + 1
  BY StageNumbers DEF Advances
<1> QED BY <1>1 DEF Release!ValidateProbeTransition, Advances, CasKept

\* The checkpoint with a create probe in its next stage.
LEMMA ArmedCreate ==
    ASSUME RelInv, NEW p \in Publishers, proc[p].at \notin BeforeLock, NEW probe,
           CreateKept(probe), probe.stage = "verified" => honours.create,
           Release!ValidateProbeTransition("create", proc[p].cp.create, probe)
    PROVE  LET d == Release!Armed(p, "create", probe)
           IN  /\ Checkpoint(d) /\ Backed(p, d) /\ d.phase # NoPhase /\ d.acquired
               /\ d.create = probe /\ Release!JournalAccepts(journal[p], d)
<1> DEFINE c == proc[p].cp
           d1 == [c EXCEPT !.create = probe]
           d == [d1 EXCEPT !.phase = <<"create", probe.stage>>]
<1>1. /\ c.acquired /\ c.phase # NoPhase /\ Checkpoint(c) /\ c = journal[p] /\ Backed(p, c)
      /\ c # Release!NoCheckpoint
  <2>1. proc[p].at # "down"
    BY DEF BeforeLock, BeforeObject
  <2> QED BY <2>1, OfOne, PastTheLock
<1>2. Release!Armed(p, "create", probe) = d
  BY DEF Release!Armed
<1> HIDE DEF c
<1>3. /\ DOMAIN d = CheckpointFields /\ d.phase = <<"create", probe.stage>> /\ d.create = probe
      /\ d.cas = c.cas /\ d.object = c.object /\ d.acquired = c.acquired
      /\ d.removed = c.removed /\ d.smoke = c.smoke /\ d.attempted = c.attempted
      /\ d.url = c.url
  BY <1>1 DEF Checkpoint, CheckpointFields
<1> HIDE DEF d
<1>4. d.phase # NoPhase /\ d.phase \notin Release!RemovalPhases
  BY <1>3 DEF NoPhase, Release!RemovalPhases
<1>5. Checkpoint(d) /\ Backed(p, d)
  BY <1>1, <1>3, <1>4 DEF Checkpoint, Backed
<1>6. Release!JournalAccepts(c, d)
  BY <1>1, <1>3, <1>5, GrownAccepted, ProbeStands DEF c
<1> QED BY <1>1, <1>2, <1>3, <1>4, <1>5, <1>6

\* The checkpoint with a probe of latest in its next stage.
LEMMA ArmedCas ==
    ASSUME RelInv, NEW p \in Publishers, proc[p].at \notin BeforeLock, ~proc[p].cp.attempted,
           NEW probe, CasKept(probe), probe.stage = "verified" => honours.match,
           Release!ValidateProbeTransition("cas", proc[p].cp.cas, probe)
    PROVE  LET d == Release!Armed(p, "cas", probe)
           IN  /\ Checkpoint(d) /\ Backed(p, d) /\ d.phase # NoPhase /\ d.acquired
               /\ ~d.attempted
               /\ d.cas = probe /\ Release!JournalAccepts(journal[p], d)
<1> DEFINE c == proc[p].cp
           d1 == [c EXCEPT !.cas = probe]
           d == [d1 EXCEPT !.phase = <<"cas", probe.stage>>]
<1>1. /\ c.acquired /\ c.phase # NoPhase /\ Checkpoint(c) /\ c = journal[p] /\ Backed(p, c)
      /\ c # Release!NoCheckpoint /\ ~c.attempted
  <2>1. proc[p].at # "down"
    BY DEF BeforeLock, BeforeObject
  <2> QED BY <2>1, OfOne, PastTheLock
<1>2. Release!Armed(p, "cas", probe) = d
  BY DEF Release!Armed
<1> HIDE DEF c
<1>3. /\ DOMAIN d = CheckpointFields /\ d.phase = <<"cas", probe.stage>> /\ d.cas = probe
      /\ d.create = c.create /\ d.object = c.object /\ d.acquired = c.acquired
      /\ d.removed = c.removed /\ d.smoke = c.smoke /\ d.attempted = c.attempted
      /\ d.url = c.url
  BY <1>1 DEF Checkpoint, CheckpointFields
<1> HIDE DEF d
<1>4. d.phase # NoPhase /\ d.phase \notin Release!RemovalPhases
  BY <1>3 DEF NoPhase, Release!RemovalPhases
<1>5. Checkpoint(d) /\ Backed(p, d)
  BY <1>1, <1>3, <1>4 DEF Checkpoint, Backed
<1>6. Release!JournalAccepts(c, d)
  BY <1>1, <1>3, <1>5, GrownAccepted, ProbeStands DEF c
<1> QED BY <1>1, <1>2, <1>3, <1>4, <1>5, <1>6

\* _run_version_create_probe.
LEMMA CreateProbeStep ==
    ASSUME RelInv, NEW p \in Publishers, Release!CreateProbe(p)
    PROVE  RelInv' /\ ReceiptsKept
<1> DEFINE c == proc[p].cp
           probe == c.create
           reference == hub.create[p]
<1>0. proc[p].at = "create_probe" /\ proc[p].io = "none" /\ Release!World
  BY DEF Release!CreateProbe, Release!At
<1>1. /\ c.acquired /\ c.phase # NoPhase /\ Checkpoint(c) /\ c = journal[p]
      /\ proc[p].at # "down" /\ proc[p].at \notin BeforeLock
  <2>1. proc[p].at \notin BeforeLock /\ proc[p].at # "down"
    BY <1>0 DEF BeforeLock, BeforeObject
  <2> QED BY <2>1, PastTheLock
<1>2. CreateKept(probe) /\ Reference(reference)
  BY <1>1 DEF Checkpoint, RelInv, Servers
<1>3. ASSUME NEW n, CreateKept(n), n.stage # "verified",
             Release!ValidateProbeTransition("create", probe, n),
             Release!Journaled(p, Release!Armed(p, "create", n)), UNCHANGED seen,
             Release!Moves(p, "create_probe", Release!Armed(p, "create", n))
      PROVE  RelInv' /\ ReceiptsKept
  <2> DEFINE d == Release!Armed(p, "create", n)
  <2>1. /\ Checkpoint(d) /\ Backed(p, d) /\ d.phase # NoPhase /\ d.acquired
        /\ Release!JournalAccepts(journal[p], d)
    BY <1>1, <1>3, ArmedCreate
  <2>2. Release!Journaled(p, d) /\ Release!Moves(p, "create_probe", d)
    BY <1>3
  <2> HIDE DEF d
  <2>3. Fit(p, "create_probe", d, proc[p].state)
    BY <2>1, FitMiddle DEF Middle
  <2> QED BY <1>0, <1>3, <2>1, <2>2, <2>3, GoesOnWith
<1>4. CASE probe.stage = "none"
  <2> DEFINE n == [probe EXCEPT !.stage = "planned"]
  <2>1. /\ Release!Journaled(p, Release!Armed(p, "create", n)) /\ UNCHANGED seen
        /\ Release!Moves(p, "create_probe", Release!Armed(p, "create", n))
    BY <1>4 DEF Release!CreateProbe
  <2>2. CreateKept(n) /\ Advances(probe, n, "none", "planned") /\ n.stage = "planned"
    BY <1>2, <1>4 DEF CreateKept, Advances, ProbeFields
  <2> HIDE DEF n, probe
  <2> QED BY <1>2, <1>3, <2>1, <2>2, CreateAdvances
<1>5. CASE probe.stage = "planned" /\ reference.holds = Release!Absent
  <2> DEFINE n == [probe EXCEPT !.stage = "seed_armed"]
  <2>1. /\ Release!Journaled(p, Release!Armed(p, "create", n)) /\ UNCHANGED seen
        /\ Release!Moves(p, "create_probe", Release!Armed(p, "create", n))
    BY <1>5 DEF Release!CreateProbe
  <2>2. CreateKept(n) /\ Advances(probe, n, "planned", "seed_armed") /\ n.stage = "seed_armed"
    BY <1>2, <1>5 DEF CreateKept, Advances, ProbeFields
  <2> HIDE DEF n, probe
  <2> QED BY <1>2, <1>3, <2>1, <2>2, CreateAdvances
<1>6. CASE probe.stage = "seed_armed" /\ reference.holds = Release!Absent /\ Release!HasLock(p)
  <2>1. Release!WritePending(p, "create_probe_seed", proc[p].cp)
    BY <1>6 DEF Release!CreateProbe, Release!Absent
  <2> QED BY <1>0, <1>1, <2>1, PendingStep DEF Sends
<1>7. CASE probe.stage = "seed_armed" /\ reference.holds = "winner"
  <2> DEFINE n == [probe EXCEPT !.stage = "reject_armed", !.winner = reference.etag]
  <2>1. /\ Release!Journaled(p, Release!Armed(p, "create", n)) /\ UNCHANGED seen
        /\ Release!Moves(p, "create_probe", Release!Armed(p, "create", n))
    BY <1>7 DEF Release!CreateProbe, Release!Absent
  <2>2. reference.etag # 0
    BY <1>2, <1>7 DEF Reference, Release!Absent
  <2>3. CreateKept(n) /\ Advances(probe, n, "seed_armed", "reject_armed") /\ n.stage = "reject_armed"
    BY <1>2, <1>7, <2>2 DEF CreateKept, Advances, ProbeFields
  <2> HIDE DEF n, probe
  <2> QED BY <1>2, <1>3, <2>1, <2>3, CreateAdvances
<1>8. CASE /\ probe.stage = "reject_armed" /\ reference.holds = "winner"
           /\ reference.etag = probe.winner /\ Release!HasLock(p)
  <2>1. Release!WritePending(p, "create_probe_reject", proc[p].cp)
    BY <1>8 DEF Release!CreateProbe
  <2> QED BY <1>0, <1>1, <1>8, <2>1, PendingStep DEF Sends
<1>9. CASE probe.stage = "verified" /\ Release!Retained(probe, reference)
  <2>1. Release!Unrecorded /\ Release!Moves(p, "version_create", c) /\ UNCHANGED seen
    BY <1>9 DEF Release!CreateProbe
  <2>2. Fit(p, "version_create", c, proc[p].state)
    BY <1>1, <1>9 DEF Fit, Resting, Process, Around, Checkpoint, Unsent, BeforeObject,
                      BeforeLock, Closing
  <2> QED BY <1>0, <1>1, <2>1, <2>2, GoesOn
<1>10. CASE Release!Unrecorded /\ Release!Ends(p, "probe")
  BY <1>0, <1>10, EndsAsItWas
<1> QED BY <1>4, <1>5, <1>6, <1>7, <1>8, <1>9, <1>10 DEF Release!CreateProbe

\* The second create was refused: the registry honours If-None-Match.
LEMMA CreateRejectedStep ==
    ASSUME RelInv, NEW p \in Publishers, Release!CreateRejected(p)
    PROVE  RelInv' /\ ReceiptsKept
<1> DEFINE c == proc[p].cp
           probe == c.create
           n == [probe EXCEPT !.stage = "verified"]
           d == Release!Armed(p, "create", n)
<1>0. proc[p].at = "create_rejected" /\ proc[p].io = "none" /\ Release!World
  BY DEF Release!CreateRejected, Release!At
<1>1. CASE hub.create[p] # [holds |-> "winner", etag |-> probe.winner]
  BY <1>0, <1>1, EndsAsItWas DEF Release!CreateRejected
<1>2. CASE hub.create[p] = [holds |-> "winner", etag |-> probe.winner]
  <2>1. Release!Journaled(p, d) /\ Release!Moves(p, "version_create", d) /\ UNCHANGED seen
    BY <1>2 DEF Release!CreateRejected
  <2>2. /\ Around(p, proc[p]) /\ probe.stage = "reject_armed" /\ CreateKept(probe)
        /\ proc[p].at \notin BeforeLock
    <3>1. proc[p].at \notin BeforeLock
      BY <1>0 DEF BeforeLock, BeforeObject
    <3> QED BY <1>0, <3>1, OfOne, PastTheLock DEF Process, Checkpoint
  <2>3. honours.create
    BY <1>0, <1>2, <2>2 DEF Around
  <2>4. CreateKept(n) /\ Advances(probe, n, "reject_armed", "verified") /\ n.stage = "verified"
    BY <2>2 DEF CreateKept, Advances, ProbeFields
  <2> HIDE DEF n, probe, d
  <2>5. Release!ValidateProbeTransition("create", probe, n)
    BY <2>2, <2>4, CreateAdvances
  <2>6. /\ Checkpoint(d) /\ Backed(p, d) /\ d.phase # NoPhase /\ d.acquired
        /\ d.create = n /\ Release!JournalAccepts(journal[p], d)
    BY <2>2, <2>3, <2>4, <2>5, ArmedCreate DEF d, probe
  <2>7. Fit(p, "version_create", d, proc[p].state)
    BY <2>4, <2>6 DEF Fit, Resting, Process, Around, Checkpoint, Unsent, BeforeObject,
                      BeforeLock, Closing
  <2> QED BY <1>0, <2>1, <2>6, <2>7, GoesOnWith
<1> QED BY <1>1, <1>2

\* Where the update of latest is prepared.
LEMMA FitCas ==
    ASSUME NEW p, NEW at \in {"cas_probe", "latest_arm"}, NEW c, NEW state, Checkpoint(c),
           c.acquired, c.phase # NoPhase, ~c.attempted, seen.updates = 0,
           at = "latest_arm" => c.cas.stage = "verified"
    PROVE  Fit(p, at, c, state)
BY DEF Fit, Resting, Process, Around, Checkpoint, Unsent, BeforeObject, BeforeLock, Closing

\* _run_latest_cas_probe.
LEMMA CasProbeStep ==
    ASSUME RelInv, NEW p \in Publishers, Release!CasProbe(p)
    PROVE  RelInv' /\ ReceiptsKept
<1> DEFINE c == proc[p].cp
           probe == c.cas
           reference == hub.cas[p]
<1>0. proc[p].at = "cas_probe" /\ proc[p].io = "none" /\ Release!World
  BY DEF Release!CasProbe, Release!At
<1>1. /\ c.acquired /\ c.phase # NoPhase /\ Checkpoint(c) /\ c = journal[p]
      /\ proc[p].at # "down" /\ proc[p].at \notin BeforeLock /\ ~c.attempted
      /\ seen.updates = 0
  <2>1. proc[p].at \notin BeforeLock /\ proc[p].at # "down"
    BY <1>0 DEF BeforeLock, BeforeObject
  <2> QED BY <1>0, <2>1, PastTheLock, OfOne DEF Process, Around
<1>2. CasKept(probe) /\ Reference(reference)
  BY <1>1 DEF Checkpoint, RelInv, Servers
<1>3. ASSUME NEW n, CasKept(n), n.stage # "verified",
             Release!ValidateProbeTransition("cas", probe, n),
             Release!Journaled(p, Release!Armed(p, "cas", n)), UNCHANGED seen,
             Release!Moves(p, "cas_probe", Release!Armed(p, "cas", n))
      PROVE  RelInv' /\ ReceiptsKept
  <2> DEFINE d == Release!Armed(p, "cas", n)
  <2>1. /\ Checkpoint(d) /\ Backed(p, d) /\ d.phase # NoPhase /\ d.acquired /\ ~d.attempted
        /\ Release!JournalAccepts(journal[p], d)
    BY <1>1, <1>3, ArmedCas
  <2>2. Release!Journaled(p, d) /\ Release!Moves(p, "cas_probe", d)
    BY <1>3
  <2> HIDE DEF d
  <2>3. Fit(p, "cas_probe", d, proc[p].state)
    BY <1>1, <2>1, FitCas
  <2> QED BY <1>0, <1>3, <2>1, <2>2, <2>3, GoesOnWith
<1>4. CASE probe.stage = "none"
  <2> DEFINE n == [probe EXCEPT !.stage = "planned"]
  <2>1. /\ Release!Journaled(p, Release!Armed(p, "cas", n)) /\ UNCHANGED seen
        /\ Release!Moves(p, "cas_probe", Release!Armed(p, "cas", n))
    BY <1>4 DEF Release!CasProbe
  <2>2. CasKept(n) /\ Advances(probe, n, "none", "planned") /\ n.stage = "planned"
    BY <1>2, <1>4 DEF CasKept, Advances, ProbeFields
  <2> HIDE DEF n, probe
  <2> QED BY <1>2, <1>3, <2>1, <2>2, CasAdvances
<1>5. CASE probe.stage = "planned" /\ reference.holds = Release!Absent
  <2> DEFINE n == [probe EXCEPT !.stage = "seed_armed"]
  <2>1. /\ Release!Journaled(p, Release!Armed(p, "cas", n)) /\ UNCHANGED seen
        /\ Release!Moves(p, "cas_probe", Release!Armed(p, "cas", n))
    BY <1>5 DEF Release!CasProbe
  <2>2. CasKept(n) /\ Advances(probe, n, "planned", "seed_armed") /\ n.stage = "seed_armed"
    BY <1>2, <1>5 DEF CasKept, Advances, ProbeFields
  <2> HIDE DEF n, probe
  <2> QED BY <1>2, <1>3, <2>1, <2>2, CasAdvances
<1>6. CASE probe.stage = "seed_armed" /\ reference.holds = Release!Absent /\ Release!HasLock(p)
  <2>1. Release!WritePending(p, "cas_probe_seed", proc[p].cp)
    BY <1>6 DEF Release!CasProbe, Release!Absent
  <2> QED BY <1>0, <1>1, <2>1, PendingStep DEF Sends
<1>7. CASE probe.stage = "seed_armed" /\ reference.holds = "prior"
  <2> DEFINE n == [probe EXCEPT !.stage = "cas_armed", !.prior = reference.etag]
  <2>1. /\ Release!Journaled(p, Release!Armed(p, "cas", n)) /\ UNCHANGED seen
        /\ Release!Moves(p, "cas_probe", Release!Armed(p, "cas", n))
    BY <1>7 DEF Release!CasProbe, Release!Absent
  <2>2. reference.etag # 0
    BY <1>2, <1>7 DEF Reference, Release!Absent
  <2>3. CasKept(n) /\ Advances(probe, n, "seed_armed", "cas_armed") /\ n.stage = "cas_armed"
    BY <1>2, <1>7, <2>2 DEF CasKept, Advances, ProbeFields
  <2> HIDE DEF n, probe
  <2> QED BY <1>2, <1>3, <2>1, <2>3, CasAdvances
<1>8. CASE /\ probe.stage = "cas_armed" /\ reference.holds = "prior"
           /\ reference.etag = probe.prior /\ Release!HasLock(p)
  <2>1. Release!WritePending(p, "cas_probe_cas", proc[p].cp)
    BY <1>8 DEF Release!CasProbe
  <2> QED BY <1>0, <1>1, <1>8, <2>1, PendingStep DEF Sends
<1>9. CASE /\ probe.stage = "cas_armed" /\ reference.holds = "winner"
           /\ reference.etag # probe.prior
  <2> DEFINE n == [probe EXCEPT !.stage = "stale_armed", !.winner = reference.etag]
  <2>1. /\ Release!Journaled(p, Release!Armed(p, "cas", n)) /\ UNCHANGED seen
        /\ Release!Moves(p, "cas_probe", Release!Armed(p, "cas", n))
    BY <1>9 DEF Release!CasProbe
  <2>2. reference.etag # 0
    BY <1>2, <1>9 DEF Reference, Release!Absent
  <2>3. CasKept(n) /\ Advances(probe, n, "cas_armed", "stale_armed") /\ n.stage = "stale_armed"
    BY <1>2, <1>9, <2>2 DEF CasKept, Advances, ProbeFields
  <2> HIDE DEF n, probe
  <2> QED BY <1>2, <1>3, <2>1, <2>3, CasAdvances
<1>10. CASE /\ probe.stage = "stale_armed" /\ reference.holds = "winner"
            /\ reference.etag = probe.winner /\ Release!HasLock(p)
  <2>1. Release!WritePending(p, "cas_probe_stale", proc[p].cp)
    BY <1>10 DEF Release!CasProbe
  <2> QED BY <1>0, <1>1, <1>10, <2>1, PendingStep DEF Sends
<1>11. CASE probe.stage = "verified" /\ Release!Retained(probe, reference)
  <2>1. Release!Unrecorded /\ Release!Moves(p, "latest_arm", c) /\ UNCHANGED seen
    BY <1>11 DEF Release!CasProbe
  <2>2. Fit(p, "latest_arm", c, proc[p].state)
    BY <1>1, <1>11, FitCas
  <2> QED BY <1>0, <1>1, <2>1, <2>2, GoesOn
<1>12. CASE Release!Unrecorded /\ Release!Ends(p, "probe")
  BY <1>0, <1>12, EndsAsItWas
<1> QED BY <1>4, <1>5, <1>6, <1>7, <1>8, <1>9, <1>10, <1>11, <1>12 DEF Release!CasProbe

\* The stale update was refused: the registry honours If-Match.
LEMMA CasRejectedStep ==
    ASSUME RelInv, NEW p \in Publishers, Release!CasRejected(p)
    PROVE  RelInv' /\ ReceiptsKept
<1> DEFINE c == proc[p].cp
           probe == c.cas
           n == [probe EXCEPT !.stage = "verified"]
           d == Release!Armed(p, "cas", n)
<1>0. proc[p].at = "cas_rejected" /\ proc[p].io = "none" /\ Release!World
  BY DEF Release!CasRejected, Release!At
<1>1. CASE hub.cas[p] # [holds |-> "winner", etag |-> probe.winner]
  BY <1>0, <1>1, EndsAsItWas DEF Release!CasRejected
<1>2. CASE hub.cas[p] = [holds |-> "winner", etag |-> probe.winner]
  <2>1. Release!Journaled(p, d) /\ Release!Moves(p, "latest_arm", d) /\ UNCHANGED seen
    BY <1>2 DEF Release!CasRejected
  <2>2. /\ Around(p, proc[p]) /\ probe.stage = "stale_armed" /\ CasKept(probe)
        /\ proc[p].at \notin BeforeLock /\ ~c.attempted /\ seen.updates = 0
    <3>1. proc[p].at \notin BeforeLock
      BY <1>0 DEF BeforeLock, BeforeObject
    <3>2. Process(proc[p]) /\ Around(p, proc[p]) /\ Checkpoint(c)
      BY <3>1, OfOne, PastTheLock
    <3> QED BY <1>0, <3>1, <3>2 DEF Process, Checkpoint, Around
  <2>3. honours.match
    BY <1>0, <1>2, <2>2 DEF Around
  <2>4. CasKept(n) /\ Advances(probe, n, "stale_armed", "verified") /\ n.stage = "verified"
    BY <2>2 DEF CasKept, Advances, ProbeFields
  <2> HIDE DEF n, probe, d
  <2>5. Release!ValidateProbeTransition("cas", probe, n)
    BY <2>2, <2>4, CasAdvances
  <2>6. /\ Checkpoint(d) /\ Backed(p, d) /\ d.phase # NoPhase /\ d.acquired /\ ~d.attempted
        /\ d.cas = n /\ Release!JournalAccepts(journal[p], d)
    BY <2>2, <2>3, <2>4, <2>5, ArmedCas DEF d, probe
  <2>7. Fit(p, "latest_arm", d, proc[p].state)
    BY <2>2, <2>4, <2>6, FitCas
  <2> QED BY <1>0, <2>1, <2>6, <2>7, GoesOnWith
<1> QED BY <1>1, <1>2

-----------------------------------------------------------------------------
(* The lock, the version, the release and latest. *)

\* publish() on the first call.
LEMMA FreshStep ==
    ASSUME RelInv, NEW p \in Publishers, NEW c, Release!PublishFresh(p, c)
    PROVE  RelInv' /\ ReceiptsKept
<1> DEFINE d == Release!Prepared(hub.runs)
<1>0. proc[p].at = "down" /\ journal[p] = Release!NoCheckpoint /\ Release!World
  BY DEF Release!PublishFresh
<1>1. CASE UNCHANGED <<proc, journal, seen>>
  <2>1. UNCHANGED <<hub, honours, late, proc, journal, seen>>
    BY <1>0, <1>1 DEF Release!World
  <2>2. ReceiptsKept
    BY <2>1 DEF ReceiptsKept, Release!AcceptsReceipts
  <2>3. \A q, w, e : Known(q, w, e) => Known(q, w, e)'
    BY <2>1 DEF Known, Backed, Around
  <2>4. Servers' /\ SenderKnown'
    <3>1. \A r : Delayed(r) => Delayed(r)'
      BY <2>1 DEF Delayed
    <3> QED BY <2>1, <3>1 DEF RelInv, Servers, SenderKnown
  <2> QED BY <2>1, <2>2, <2>3, <2>4 DEF RelInv
<1>2. CASE Release!Journaled(p, d) /\ Release!Moves(p, "lock_object", d) /\ UNCHANGED seen
  <2>1. /\ DOMAIN d = CheckpointFields /\ d.phase = <<"prepared", "none">>
        /\ d.object = FALSE /\ d.acquired = FALSE /\ d.removed = FALSE /\ d.smoke = FALSE
        /\ d.attempted = FALSE /\ d.url = FALSE /\ d.create = Release!NoProbe
        /\ d.cas = Release!NoProbe /\ d.runs = hub.runs
    BY DEF Release!Prepared, Release!NoCheckpoint, CheckpointFields
  <2>2. CreateKept(Release!NoProbe) /\ CasKept(Release!NoProbe) /\ Release!NoProbe.stage = "none"
    BY DEF CreateKept, CasKept, Release!NoProbe, ProbeFields
  <2>3. d = Release!Prepared(d.runs)
    BY <2>1
  <2> HIDE DEF d
  <2>4. d.phase # NoPhase /\ d.phase \notin Release!RemovalPhases
    BY <2>1 DEF NoPhase, Release!RemovalPhases
  <2>5. Checkpoint(d) /\ Backed(p, d)
    BY <2>1, <2>2, <2>4 DEF Checkpoint, Backed
  <2>6. Release!JournalAccepts(journal[p], d)
    BY <1>0, <2>1, <2>2, <2>3, ProbesDecode DEF Release!JournalAccepts, Release!ValidateInitialCheckpoint
  <2>7. Fit(p, "lock_object", d, proc[p].state)
    BY <2>4 DEF Fit, Resting, Process, Around, Unsent, BeforeObject, BeforeLock, Closing
  <2> QED BY <1>0, <1>2, <2>4, <2>5, <2>6, <2>7, GoesOnWith
<1> QED BY <1>1, <1>2 DEF Release!PublishFresh, Release!Unrecorded

\* Where a publisher starts again.
LEMMA FitStart ==
    ASSUME NEW p, NEW at \in {"lock_object", "have_object", "lock_ref", "have_lock"}, NEW c,
           NEW state, c.phase # NoPhase, at \in {"lock_ref", "have_lock"} => c.object
    PROVE  Fit(p, at, c, state)
BY DEF Fit, Resting, Process, Around, Unsent, BeforeObject, BeforeLock, Closing

\* The checkpoint with the lock acquired, under a phase.
LEMMA WithLock ==
    ASSUME NEW p, NEW c, Checkpoint(c), Backed(p, c), c.object, hub.lock = p,
           c # Release!NoCheckpoint, NEW d, DOMAIN d = CheckpointFields,
           d.acquired = TRUE, d.object = c.object, d.removed = c.removed, d.smoke = c.smoke,
           d.create = c.create, d.cas = c.cas, d.attempted = c.attempted, d.url = c.url
    PROVE  Checkpoint(d) /\ Backed(p, d) /\ Release!JournalAccepts(c, d)
<1>1. Checkpoint(d) /\ Backed(p, d)
  BY DEF Checkpoint, Backed
<1> QED BY <1>1, GrownAccepted, ProbeStands

\* publish() on a recovery.
LEMMA RecoveryStep ==
    ASSUME RelInv, NEW p \in Publishers, NEW k, Release!PublishRecovery(p, k)
    PROVE  RelInv' /\ ReceiptsKept
<1> DEFINE c == journal[p]
           done1 == [c EXCEPT !.removed = TRUE]
           done2 == [done1 EXCEPT !.phase = <<"complete", "none">>]
           reconciled1 == [c EXCEPT !.acquired = TRUE]
           reconciled2 == [reconciled1 EXCEPT !.phase = <<"lock_ref_create", "reconciled">>]
<1>0. /\ proc[p].at = "down" /\ c # Release!NoCheckpoint /\ Release!World
  BY DEF Release!PublishRecovery
<1>1. Checkpoint(c) /\ Backed(p, c) /\ c.phase # NoPhase
  BY <1>0, OfOne
<1>2. ASSUME NEW why, Release!Unrecorded, Release!Ends(p, why)
      PROVE  RelInv' /\ ReceiptsKept
  BY <1>0, <1>2, EndsAsItWas
<1>3. ASSUME NEW at, Release!Unrecorded, Release!Moves(p, at, c), UNCHANGED seen,
             Fit(p, at, c, proc[p].state)
      PROVE  RelInv' /\ ReceiptsKept
  <2> HIDE DEF c
  <2>1. PICK w : Resting(w, at, c, proc[p].state) /\ proc' = [proc EXCEPT ![p] = w]
    BY <1>3, MovesRests
  <2>2. UNCHANGED <<hub, honours, late, seen, journal>>
    BY <1>0, <1>3 DEF Release!World, Release!Unrecorded
  <2>3. Process(w) /\ Around(p, w)
    BY <1>3, <2>1 DEF Fit
  <2> QED BY <1>1, <2>1, <2>2, <2>3, RestStep DEF c
<1>4. ASSUME Release!Journaled(p, done2), Release!Ends(p, "complete"),
             c.removed \/ c.phase \in Release!RemovalPhases
      PROVE  RelInv' /\ ReceiptsKept
  <2> HIDE DEF c
  <2>1. /\ DOMAIN done2 = CheckpointFields /\ done2.removed = TRUE
        /\ done2.phase = <<"complete", "none">> /\ done2.acquired = c.acquired
        /\ done2.object = c.object /\ done2.smoke = c.smoke /\ done2.create = c.create
        /\ done2.cas = c.cas /\ done2.attempted = c.attempted /\ done2.url = c.url
    BY <1>1 DEF Checkpoint, CheckpointFields
  <2>2. journal' = [journal EXCEPT ![p] = done2] /\ proc' = [proc EXCEPT ![p] = Release!NotRunning]
    BY <1>4 DEF Release!Journaled, Release!Ends
  <2> HIDE DEF done2
  <2>3. done2.phase # NoPhase /\ done2.phase \notin Release!RemovalPhases
    BY <2>1 DEF NoPhase, Release!RemovalPhases
  <2>4. c.acquired
    BY <1>1, <1>4 DEF Checkpoint
  <2>5. Checkpoint(done2) /\ Backed(p, done2)
    BY <1>1, <2>1, <2>3, <2>4 DEF Checkpoint, Backed
  <2>6. Release!JournalAccepts(c, done2)
    BY <1>0, <1>1, <2>1, <2>5, GrownAccepted, ProbeStands
  <2>7. UNCHANGED <<hub, honours, late>>
    BY <1>0 DEF Release!World
  <2> QED BY <1>4, <2>2, <2>3, <2>5, <2>6, <2>7, EndsStep DEF c
<1>5. ASSUME Release!Journaled(p, reconciled2), Release!Moves(p, "main", reconciled2),
             UNCHANGED seen, hub.lock = p, c.object
      PROVE  RelInv' /\ ReceiptsKept
  <2> HIDE DEF c
  <2>1. /\ DOMAIN reconciled2 = CheckpointFields /\ reconciled2.acquired = TRUE
        /\ reconciled2.phase = <<"lock_ref_create", "reconciled">>
        /\ reconciled2.removed = c.removed
        /\ reconciled2.object = c.object /\ reconciled2.smoke = c.smoke
        /\ reconciled2.create = c.create /\ reconciled2.cas = c.cas
        /\ reconciled2.attempted = c.attempted /\ reconciled2.url = c.url
    BY <1>1 DEF Checkpoint, CheckpointFields
  <2> HIDE DEF reconciled2
  <2>2. Checkpoint(reconciled2) /\ Backed(p, reconciled2) /\ Release!JournalAccepts(c, reconciled2)
    BY <1>0, <1>1, <1>5, <2>1, WithLock
  <2>3. reconciled2.phase # NoPhase
    BY <2>1 DEF NoPhase
  <2>4. Fit(p, "main", reconciled2, proc[p].state)
    BY <2>1, <2>2, <2>3, FitMiddle DEF Middle
  <2> QED BY <1>0, <1>5, <2>2, <2>3, <2>4, GoesOnWith DEF c
<1>6. c.acquired => Fit(p, "main", c, proc[p].state)
  <2> HIDE DEF c
  <2> QED BY <1>1, FitMiddle DEF Middle
<1>7. Fit(p, IF c.object THEN "lock_ref" ELSE "lock_object", c, proc[p].state)
  <2> HIDE DEF c
  <2> QED BY <1>1, FitStart
<1>8. Release!ReadPublicState.lock = hub.lock
  BY DEF Release!ReadPublicState
<1>9. \/ \E why : Release!Unrecorded /\ Release!Ends(p, why)
      \/ /\ c.removed \/ c.phase \in Release!RemovalPhases
         /\ Release!Journaled(p, done2) /\ Release!Ends(p, "complete")
      \/ c.acquired /\ Release!Unrecorded /\ Release!Moves(p, "main", c) /\ UNCHANGED seen
      \/ /\ Release!Unrecorded /\ UNCHANGED seen
         /\ Release!Moves(p, IF c.object THEN "lock_ref" ELSE "lock_object", c)
      \/ /\ hub.lock = p /\ c.object
         /\ Release!Journaled(p, reconciled2) /\ Release!Moves(p, "main", reconciled2)
         /\ UNCHANGED seen
  <2>1. done2 = [c EXCEPT !.removed = TRUE, !.phase = <<"complete", "none">>]
    OBVIOUS
  <2>2. reconciled2 = [c EXCEPT !.acquired = TRUE, !.phase = <<"lock_ref_create", "reconciled">>]
    OBVIOUS
  <2> HIDE DEF done2, reconciled2
  <2> QED BY <1>8, <2>1, <2>2 DEF Release!PublishRecovery
<1> HIDE DEF c, done1, done2, reconciled1, reconciled2
<1> QED BY <1>2, <1>3, <1>4, <1>5, <1>6, <1>7, <1>9

\* The lock object and the lock ref.
LEMMA LockStages ==
    ASSUME RelInv, NEW p \in Publishers,
           \/ Release!LockObjectCreate(p) \/ Release!HaveObject(p)
           \/ Release!LockRefCreate(p) \/ Release!HaveLock(p)
    PROVE  RelInv' /\ ReceiptsKept
<1> DEFINE c == proc[p].cp
<1>0. /\ proc[p].at \in {"lock_object", "have_object", "lock_ref", "have_lock"}
      /\ proc[p].io = "none" /\ Release!World
  BY DEF Release!LockObjectCreate, Release!HaveObject, Release!LockRefCreate, Release!HaveLock,
         Release!Notes, Release!At
<1>1. /\ proc[p].at # "down" /\ c = journal[p] /\ Checkpoint(c) /\ Backed(p, c)
      /\ c.phase # NoPhase /\ c # Release!NoCheckpoint
      /\ proc[p].at \in {"lock_ref", "have_lock"} => c.object
  BY <1>0, OfOne DEF Process, BeforeObject
<1>2. CASE Release!LockObjectCreate(p)
  <2>1. proc[p].at = "lock_object" /\ Release!WritePending(p, "lock_object_create", c)
    BY <1>2 DEF Release!LockObjectCreate, Release!At
  <2> QED BY <1>0, <1>1, <2>1, PendingStep DEF Sends
<1>3. CASE Release!HaveObject(p)
  <2> DEFINE d == [c EXCEPT !.object = TRUE]
  <2>1. Release!Journaled(p, d) /\ Release!Moves(p, "lock_ref", d) /\ UNCHANGED seen
    BY <1>3 DEF Release!HaveObject, Release!Notes
  <2> HIDE DEF c
  <2>2. /\ DOMAIN d = CheckpointFields /\ d.object = TRUE /\ d.phase = c.phase
        /\ d.acquired = c.acquired /\ d.removed = c.removed /\ d.smoke = c.smoke
        /\ d.create = c.create /\ d.cas = c.cas /\ d.attempted = c.attempted /\ d.url = c.url
    BY <1>1 DEF Checkpoint, CheckpointFields
  <2> HIDE DEF d
  <2>3. Checkpoint(d) /\ Backed(p, d)
    BY <1>1, <2>2 DEF Checkpoint, Backed
  <2>4. Release!JournalAccepts(c, d)
    BY <1>1, <2>2, <2>3, GrownAccepted, ProbeStands
  <2>5. Fit(p, "lock_ref", d, proc[p].state)
    BY <1>1, <2>2, FitStart
  <2> QED BY <1>0, <1>1, <2>1, <2>2, <2>3, <2>4, <2>5, GoesOnWith
<1>4. CASE Release!LockRefCreate(p)
  <2>1. proc[p].at = "lock_ref"
    BY <1>4 DEF Release!LockRefCreate, Release!At
  <2>2. CASE Release!WritePending(p, "lock_ref_create", c)
    BY <1>0, <1>1, <2>1, <2>2, PendingStep DEF Sends
  <2>3. CASE Release!Unrecorded /\ Release!Ends(p, "lock_foreign")
    BY <1>0, <2>3, EndsAsItWas
  <2> QED BY <1>4, <2>2, <2>3 DEF Release!LockRefCreate
<1>5. CASE Release!HaveLock(p)
  <2> DEFINE d == [c EXCEPT !.acquired = TRUE]
  <2>1. CASE Release!Unrecorded /\ Release!Ends(p, "lock_missing")
    BY <1>0, <2>1, EndsAsItWas
  <2>2. CASE /\ hub.lock = p /\ Release!Journaled(p, d) /\ Release!Moves(p, "main", d)
             /\ UNCHANGED seen
    <3>0. c.object
      BY <1>1, <1>5 DEF Release!HaveLock, Release!At
    <3> HIDE DEF c
    <3>1. /\ DOMAIN d = CheckpointFields /\ d.object = c.object /\ d.phase = c.phase
          /\ d.acquired = TRUE /\ d.removed = c.removed /\ d.smoke = c.smoke
          /\ d.create = c.create /\ d.cas = c.cas /\ d.attempted = c.attempted /\ d.url = c.url
      BY <1>1 DEF Checkpoint, CheckpointFields
    <3> HIDE DEF d
    <3>2. Checkpoint(d) /\ Backed(p, d) /\ Release!JournalAccepts(c, d)
      BY <1>1, <2>2, <3>0, <3>1, WithLock
    <3>3. Fit(p, "main", d, proc[p].state)
      BY <1>1, <3>1, <3>2, FitMiddle DEF Middle
    <3> QED BY <1>0, <1>1, <2>2, <3>1, <3>2, <3>3, GoesOnWith
  <2> QED BY <1>5, <2>1, <2>2 DEF Release!HaveLock
<1> QED BY <1>2, <1>3, <1>4, <1>5

\* The version, the smoke test and the release.
LEMMA VersionStages ==
    ASSUME RelInv, NEW p \in Publishers,
           \/ Release!RegistryVersion(p) \/ Release!AnonymousPullSmoke(p)
           \/ Release!GithubRelease(p)
    PROVE  RelInv' /\ ReceiptsKept
<1> DEFINE c == proc[p].cp
<1>0. /\ proc[p].at \in {"version", "version_create", "version_made", "retained", "smoke",
                         "smoke_pulled", "smoke_done", "release", "release_read",
                         "release_made"}
      /\ proc[p].io = "none" /\ Release!World
  BY DEF Release!RegistryVersion, Release!AnonymousPullSmoke, Release!GithubRelease,
         Release!Stage, Release!Reread, Release!Confirms, Release!At, Release!SmokePull,
         Release!SmokeDelete, Release!SmokeRecord, Release!Notes
<1>1. /\ proc[p].at # "down" /\ c.acquired /\ c.phase # NoPhase /\ Checkpoint(c)
      /\ c = journal[p] /\ Backed(p, c) /\ c # Release!NoCheckpoint
      /\ \A at \in Middle : \A state : Fit(p, at, c, state)
  <2>1. proc[p].at \notin BeforeLock /\ proc[p].at # "down"
    BY <1>0 DEF BeforeLock, BeforeObject
  <2> QED BY <2>1, PastTheLock, OfOne
<1>a. ASSUME Release!ComponentsValid(Release!ReadPublicState), NEW at \in {"release_read", "latest"}
      PROVE  Fit(p, at, c, Release!ReadPublicState)
  <2> DEFINE state == Release!ReadPublicState
  <2>1. state.latest = hub.latest /\ state.latest \in {"prior", "ours"}
    BY <1>a DEF Release!ReadPublicState, Release!ComponentsValid
  <2> HIDE DEF state
  <2>2. Fit(p, at, c, state)
    BY <1>1, <2>1 DEF Fit, Resting, Process, Around, Checkpoint, Unsent, BeforeObject,
                      BeforeLock, Closing
  <2> QED BY <2>2 DEF state
<1>2. CASE Release!RegistryVersion(p)
  <2>1. CASE /\ Release!Unrecorded
             /\ IF ~Release!HasLock(p) THEN Release!Ends(p, "lock_missing")
                ELSE /\ Release!Moves(p, IF proc[p].state.version = Release!Absent
                                         THEN "create_probe" ELSE "retained", c)
                     /\ UNCHANGED seen
    <3>1. CASE Release!Ends(p, "lock_missing")
      BY <1>0, <2>1, <3>1, EndsAsItWas
    <3>2. ASSUME NEW next \in {"create_probe", "retained"}, Release!Moves(p, next, c), UNCHANGED seen
          PROVE  RelInv' /\ ReceiptsKept
      BY <1>0, <1>1, <2>1, <3>2, GoesOn DEF Middle
    <3> QED BY <2>1, <3>1, <3>2
  <2>2. CASE Release!Stage(p, "version_create", TRUE, "version_create", "none")
    BY <2>2, StageStep DEF Sends
  <2>3. CASE Release!Reread(p, "version_made", hub.version = "ours", "retained")
    BY <1>1, <2>3, RereadStep DEF Middle
  <2>4. CASE Release!Confirms(p, "retained", Release!Retained(c.create, hub.create[p]), "smoke")
    BY <1>1, <2>4, ConfirmsStep DEF Middle
  <2> QED BY <1>2, <2>1, <2>2, <2>3, <2>4 DEF Release!RegistryVersion
<1>3. CASE Release!AnonymousPullSmoke(p)
  <2> DEFINE d1 == [c EXCEPT !.smoke = TRUE]
             d == [d1 EXCEPT !.phase = <<"smoke", "verified">>]
  <2>1. CASE Release!SmokePull(p) \/ Release!SmokeDelete(p)
    <3>1. ASSUME NEW why, Release!Unrecorded, Release!Ends(p, why)
          PROVE  RelInv' /\ ReceiptsKept
      BY <1>0, <3>1, EndsAsItWas
    <3>2. ASSUME NEW next \in {"smoke_pulled", "smoke_done"}, Release!Unrecorded,
                 Release!Moves(p, next, c), UNCHANGED seen
          PROVE  RelInv' /\ ReceiptsKept
      BY <1>0, <1>1, <3>2, GoesOn DEF Middle
    <3> QED BY <2>1, <3>1, <3>2 DEF Release!SmokePull, Release!SmokeDelete
  <2>2. CASE Release!Journaled(p, d) /\ Release!Moves(p, "release", d) /\ UNCHANGED seen
    <3> HIDE DEF c
    <3>1. /\ DOMAIN d = CheckpointFields /\ d.object = c.object /\ d.phase = <<"smoke", "verified">>
          /\ d.acquired = c.acquired /\ d.removed = c.removed /\ d.smoke = TRUE
          /\ d.create = c.create /\ d.cas = c.cas /\ d.attempted = c.attempted /\ d.url = c.url
      BY <1>1 DEF Checkpoint, CheckpointFields
    <3> HIDE DEF d
    <3>2. d.phase # NoPhase /\ d.phase \notin Release!RemovalPhases
      BY <3>1 DEF NoPhase, Release!RemovalPhases
    <3>3. Checkpoint(d) /\ Backed(p, d)
      BY <1>1, <3>1, <3>2 DEF Checkpoint, Backed
    <3>4. Release!JournalAccepts(c, d)
      BY <1>1, <3>1, <3>3, GrownAccepted, ProbeStands
    <3>5. Fit(p, "release", d, proc[p].state)
      BY <1>1, <3>1, <3>2, <3>3, FitMiddle DEF Middle
    <3> QED BY <1>0, <1>1, <2>2, <3>2, <3>3, <3>4, <3>5, GoesOnWith
  <2> QED BY <1>3, <2>1, <2>2 DEF Release!AnonymousPullSmoke, Release!SmokeRecord, Release!Notes
<1>4. CASE Release!GithubRelease(p)
  <2>1. CASE Release!Reread(p, "release", Release!HasLock(p), "release_read")
    BY <1>a, <2>1, RereadStep
  <2>2. CASE proc[p].at = "release_read" /\ Release!WritePending(p, "release_create", c)
    BY <1>0, <1>1, <2>2, PendingStep DEF Sends
  <2>3. CASE /\ proc[p].at = "release_read" /\ Release!Unrecorded /\ Release!Moves(p, "latest", c)
             /\ UNCHANGED seen
    <3>1. Around(p, proc[p])
      BY OfOne
    <3> DEFINE state == proc[p].state
    <3>2. state.latest \in {"prior", "ours"} /\ (state.latest = "ours" => hub.latest = "ours")
      BY <2>3, <3>1 DEF Around
    <3> HIDE DEF state, c
    <3>3. Fit(p, "latest", c, state)
      BY <1>1, <3>2 DEF Fit, Resting, Process, Around, Checkpoint, Unsent, BeforeObject,
                        BeforeLock, Closing
    <3> QED BY <1>0, <1>1, <2>3, <3>3, GoesOn DEF state, c
  <2>4. CASE Release!Reread(p, "release_made", hub.release = "ours", "latest")
    BY <1>a, <2>4, RereadStep
  <2> QED BY <1>4, <2>1, <2>2, <2>3, <2>4 DEF Release!GithubRelease, Release!At
<1> QED BY <1>2, <1>3, <1>4

\* Where the update of latest is prepared by a publisher with the lock, nobody sent it yet.
LEMMA NobodySent ==
    ASSUME RelInv, NEW p \in Publishers, hub.lock = p, ~journal[p].attempted,
           hub.latest # "ours"
    PROVE  seen.updates = 0
<1>1. SUFFICES ASSUME seen.updates # 0 PROVE FALSE
  OBVIOUS
<1>2. PICK q \in Publishers : journal[q].attempted /\ journal[q].acquired
  BY <1>1 DEF RelInv, SenderKnown
<1>3. hub.lock = q
  BY <1>2, OfOne DEF Backed
<1> QED BY <1>2, <1>3

\* The publisher that finds latest moved looks at the evidence.
LEMMA FitClosing ==
    ASSUME NEW p, NEW at \in Closing, NEW c, NEW state, Checkpoint(c), c.acquired,
           c.phase # NoPhase, hub.latest = "ours"
    PROVE  Fit(p, at, c, state)
BY DEF Fit, Resting, Process, Around, Checkpoint, Unsent, BeforeObject, BeforeLock, Closing

\* The decision about latest.
LEMMA RegistryLatestStep ==
    ASSUME RelInv, NEW p \in Publishers, Release!RegistryLatest(p)
    PROVE  RelInv' /\ ReceiptsKept
<1> DEFINE c == proc[p].cp
<1>0. proc[p].at = "latest" /\ proc[p].io = "none" /\ Release!World
  BY DEF Release!RegistryLatest, Release!At
<1>1. /\ proc[p].at # "down" /\ c.acquired /\ c.phase # NoPhase /\ Checkpoint(c)
      /\ c = journal[p] /\ Backed(p, c)
      /\ proc[p].state.latest \in {"prior", "ours"}
      /\ proc[p].state.latest = "ours" => hub.latest = "ours"
  <2>1. proc[p].at \notin BeforeLock /\ proc[p].at # "down"
    BY <1>0 DEF BeforeLock, BeforeObject
  <2>2. Around(p, proc[p])
    BY OfOne
  <2>3. /\ proc[p].state.latest \in {"prior", "ours"}
        /\ proc[p].state.latest = "ours" => hub.latest = "ours"
    BY <1>0, <2>2 DEF Around
  <2> QED BY <2>1, <2>3, PastTheLock
<1>2. ASSUME NEW why, Release!Unrecorded, Release!Ends(p, why)
      PROVE  RelInv' /\ ReceiptsKept
  BY <1>0, <1>2, EndsAsItWas
<1>3. CASE ~Release!HasLock(p)
  BY <1>2, <1>3 DEF Release!RegistryLatest
<1>4. CASE Release!HasLock(p) /\ c.attempted /\ proc[p].state.latest = "prior"
  <2>1. \/ /\ Release!Journaled(p, [c EXCEPT !.phase = <<"latest", "unresolved">>])
           /\ Release!Ends(p, "unresolved")
        \/ Release!Unrecorded /\ Release!Ends(p, "evidence")
    BY <1>4 DEF Release!RegistryLatest
  <2>2. CASE /\ Release!Journaled(p, [c EXCEPT !.phase = <<"latest", "unresolved">>])
             /\ Release!Ends(p, "unresolved")
    <3>1. <<"latest", "unresolved">> # NoPhase
          /\ <<"latest", "unresolved">> \notin Release!RemovalPhases
      BY DEF NoPhase, Release!RemovalPhases
    <3>2. Release!Journaled(p, [journal[p] EXCEPT !.phase = <<"latest", "unresolved">>])
      BY <1>1, <2>2
    <3> QED BY <1>0, <1>1, <2>2, <3>1, <3>2, EndsInPhase
  <2> QED BY <1>2, <2>1, <2>2
<1>5. CASE Release!HasLock(p) /\ ~c.attempted /\ proc[p].state.latest = "prior"
  <2>1. \/ /\ hub.latest = "prior" /\ Release!Unrecorded /\ UNCHANGED seen
           /\ Release!Moves(p, "cas_probe", c)
        \/ Release!Unrecorded /\ Release!Ends(p, "not_exact")
    BY <1>5 DEF Release!RegistryLatest
  <2>2. CASE /\ hub.latest = "prior" /\ Release!Unrecorded /\ UNCHANGED seen
             /\ Release!Moves(p, "cas_probe", c)
    <3>1. hub.lock = p /\ hub.latest # "ours" /\ ~journal[p].attempted
      BY <1>1, <1>5, <2>2 DEF Release!HasLock
    <3>2. seen.updates = 0
      BY <3>1, NobodySent
    <3>3. Fit(p, "cas_probe", c, proc[p].state)
      BY <1>1, <1>5, <3>2, FitCas
    <3> QED BY <1>0, <1>1, <2>2, <3>3, GoesOn
  <2> QED BY <1>2, <2>1, <2>2
<1>6. CASE Release!HasLock(p) /\ proc[p].state.latest = "ours"
  <2>1. Release!Unrecorded /\ Release!Moves(p, "evidence", c) /\ UNCHANGED seen
    BY <1>6 DEF Release!RegistryLatest
  <2>2. Fit(p, "evidence", c, proc[p].state)
    BY <1>1, <1>6, FitClosing DEF Closing
  <2> QED BY <1>0, <1>1, <2>1, <2>2, GoesOn
<1> QED BY <1>1, <1>3, <1>4, <1>5, <1>6 DEF Checkpoint

\* That the update will be sent is recorded first.
LEMMA LatestArmedStep ==
    ASSUME RelInv, NEW p \in Publishers, Release!LatestArmed(p)
    PROVE  RelInv' /\ ReceiptsKept
<1> DEFINE c == proc[p].cp
           d1 == [c EXCEPT !.attempted = TRUE]
           d == [d1 EXCEPT !.phase = <<"latest_update", "armed">>]
<1>0. proc[p].at = "latest_arm" /\ proc[p].io = "none" /\ Release!World
  BY DEF Release!LatestArmed, Release!At
<1>1. /\ proc[p].at # "down" /\ c.acquired /\ c.phase # NoPhase /\ Checkpoint(c)
      /\ c = journal[p] /\ Backed(p, c) /\ c # Release!NoCheckpoint
      /\ c.cas.stage = "verified" /\ seen.updates = 0
  <2>1. proc[p].at \notin BeforeLock /\ proc[p].at # "down"
    BY <1>0 DEF BeforeLock, BeforeObject
  <2>2. Process(proc[p]) /\ Around(p, proc[p])
    BY OfOne
  <2>3. c.cas.stage = "verified" /\ seen.updates = 0
    BY <1>0, <2>2 DEF Process, Around
  <2> QED BY <2>1, <2>3, PastTheLock, OfOne
<1>2. CASE Release!Unrecorded /\ Release!Ends(p, "lock_missing")
  BY <1>0, <1>2, EndsAsItWas
<1>3. CASE Release!Journaled(p, d) /\ Release!Moves(p, "latest_send", d) /\ UNCHANGED seen
  <2> HIDE DEF c
  <2>1. /\ DOMAIN d = CheckpointFields /\ d.object = c.object
        /\ d.phase = <<"latest_update", "armed">>
        /\ d.acquired = c.acquired /\ d.removed = c.removed /\ d.smoke = c.smoke
        /\ d.create = c.create /\ d.cas = c.cas /\ d.attempted = TRUE /\ d.url = c.url
    BY <1>1 DEF Checkpoint, CheckpointFields
  <2> HIDE DEF d
  <2>2. d.phase # NoPhase /\ d.phase \notin Release!RemovalPhases
    BY <2>1 DEF NoPhase, Release!RemovalPhases
  <2>3. Checkpoint(d) /\ Backed(p, d)
    BY <1>1, <2>1, <2>2 DEF Checkpoint, Backed
  <2>4. Release!JournalAccepts(c, d)
    BY <1>1, <2>1, <2>3, GrownAccepted, ProbeStands
  <2>5. Fit(p, "latest_send", d, proc[p].state)
    BY <1>1, <2>1, <2>2, <2>3 DEF Fit, Resting, Process, Around, Checkpoint, Unsent,
                                  BeforeObject, BeforeLock, Closing
  <2> QED BY <1>0, <1>1, <1>3, <2>2, <2>3, <2>4, <2>5, GoesOnWith
<1> QED BY <1>2, <1>3 DEF Release!LatestArmed

\* The update of latest and the removal of the lock.
LEMMA LastStages ==
    ASSUME RelInv, NEW p \in Publishers, Release!LatestUpdate(p) \/ Release!LockRefRemove(p)
    PROVE  RelInv' /\ ReceiptsKept
<1> DEFINE c == proc[p].cp
<1>0. /\ proc[p].at \in {"latest_send", "latest_made", "evidence", "unlock", "lock_gone"}
      /\ proc[p].io = "none" /\ Release!World
  BY DEF Release!LatestUpdate, Release!LockRefRemove, Release!Stage, Release!Reread,
         Release!Confirms, Release!At
<1>1. /\ proc[p].at # "down" /\ c.acquired /\ c.phase # NoPhase /\ Checkpoint(c)
      /\ c = journal[p] /\ Backed(p, c) /\ c # Release!NoCheckpoint
      /\ proc[p].at \in Closing => hub.latest = "ours"
  <2>1. proc[p].at \notin BeforeLock /\ proc[p].at # "down"
    BY <1>0 DEF BeforeLock, BeforeObject
  <2>2. Around(p, proc[p])
    BY OfOne
  <2>3. proc[p].at \in Closing => hub.latest = "ours"
    BY <2>2 DEF Around
  <2> QED BY <2>1, <2>3, PastTheLock, OfOne
<1>2. CASE proc[p].at = "latest_send" /\ Release!WritePending(p, "latest_update", proc[p].cp)
  BY <1>0, <1>1, <1>2, PendingStep DEF Sends
<1>3. CASE Release!Reread(p, "latest_made", hub.latest = "ours", "evidence")
  <2>1. hub.latest = "ours" => \A state : Fit(p, "evidence", c, state)
    BY <1>1, FitClosing DEF Closing
  <2> QED BY <1>3, <2>1, RereadStep
<1>4. CASE Release!Confirms(p, "evidence", Release!EvidenceComplete(p, proc[p].cp), "unlock")
  <2>1. proc[p].at = "evidence"
    BY <1>4 DEF Release!Confirms, Release!At
  <2>2. Fit(p, "unlock", c, proc[p].state)
    BY <1>1, <2>1, FitClosing DEF Closing
  <2> QED BY <1>4, <2>2, ConfirmsStep
<1>5. CASE Release!Stage(p, "unlock", TRUE, "lock_ref_remove", "none")
  <2>1. <<"unlock", "lock_ref_remove">> \in Sends
    BY DEF Sends
  <2>2. proc[p].at = "unlock"
    BY <1>5 DEF Release!Stage, Release!At
  <2>3. \/ Release!Unrecorded /\ Release!Ends(p, "lock_missing")
        \/ Release!WritePending(p, "lock_ref_remove", proc[p].cp)
    BY <1>5 DEF Release!Stage
  <2>4. CASE Release!Unrecorded /\ Release!Ends(p, "lock_missing")
    BY <1>0, <2>4, EndsAsItWas
  <2>5. CASE Release!WritePending(p, "lock_ref_remove", proc[p].cp)
    BY <1>0, <1>1, <2>1, <2>2, <2>5, PendingStep
  <2> QED BY <2>3, <2>4, <2>5
<1>6. CASE Release!Unrecorded /\ Release!Ends(p, "lock_foreign")
  BY <1>0, <1>6, EndsAsItWas
<1>7. CASE /\ Release!Journaled(p, [c EXCEPT !.removed = TRUE, !.phase = <<"complete", "none">>])
           /\ Release!Ends(p, "complete")
  <2> DEFINE d1 == [c EXCEPT !.removed = TRUE]
             d == [d1 EXCEPT !.phase = <<"complete", "none">>]
  <2> HIDE DEF c
  <2>1. /\ DOMAIN d = CheckpointFields /\ d.object = c.object
        /\ d.phase = <<"complete", "none">>
        /\ d.acquired = c.acquired /\ d.removed = TRUE /\ d.smoke = c.smoke
        /\ d.create = c.create /\ d.cas = c.cas /\ d.attempted = c.attempted /\ d.url = c.url
    BY <1>1 DEF Checkpoint, CheckpointFields
  <2>2. journal' = [journal EXCEPT ![p] = d] /\ proc' = [proc EXCEPT ![p] = Release!NotRunning]
    BY <1>7 DEF Release!Journaled, Release!Ends
  <2> HIDE DEF d
  <2>3. d.phase # NoPhase /\ d.phase \notin Release!RemovalPhases
    BY <2>1 DEF NoPhase, Release!RemovalPhases
  <2>4. Checkpoint(d) /\ Backed(p, d)
    BY <1>1, <2>1, <2>3 DEF Checkpoint, Backed
  <2>5. Release!JournalAccepts(c, d)
    BY <1>1, <2>1, <2>4, GrownAccepted, ProbeStands
  <2>6. UNCHANGED <<hub, honours, late>>
    BY <1>0 DEF Release!World
  <2> QED BY <1>1, <1>7, <2>2, <2>3, <2>4, <2>5, <2>6, EndsStep
<1>8. Release!LatestUpdate(p) => \/ proc[p].at = "latest_send"
                                    /\ Release!WritePending(p, "latest_update", proc[p].cp)
                                 \/ Release!Reread(p, "latest_made", hub.latest = "ours", "evidence")
  BY DEF Release!LatestUpdate, Release!At
<1>9. Release!LockRefRemove(p) =>
        \/ Release!Confirms(p, "evidence", Release!EvidenceComplete(p, proc[p].cp), "unlock")
        \/ Release!Stage(p, "unlock", TRUE, "lock_ref_remove", "none")
        \/ Release!Unrecorded /\ Release!Ends(p, "lock_foreign")
        \/ /\ Release!Journaled(p, [c EXCEPT !.removed = TRUE, !.phase = <<"complete", "none">>])
           /\ Release!Ends(p, "complete")
  BY DEF Release!LockRefRemove
<1> QED BY <1>2, <1>3, <1>4, <1>5, <1>6, <1>7, <1>8, <1>9

-----------------------------------------------------------------------------
(* The requests, the servers and the others. *)

\* What the servers make of a request.
Served(p, op, h) ==
    /\ DOMAIN h = HubFields /\ DOMAIN h.create = Publishers /\ DOMAIN h.cas = Publishers
    /\ \A q \in Publishers : Reference(h.create[q]) /\ Reference(h.cas[q])
    /\ op # "latest_update" => h.latest = hub.latest
    /\ op = "latest_update" /\ honours.match /\ hub.latest # "prior" => h.latest = hub.latest
    /\ h.latest \in {hub.latest, "ours"}
    /\ op # "version_create" => h.version = hub.version
    /\ op = "version_create" /\ honours.create /\ hub.version # Release!Absent =>
          h.version = hub.version
    /\ \/ h.lock = hub.lock
       \/ op = "lock_ref_create" /\ hub.lock = Release!NoOne
       \/ op = "lock_ref_remove"
    /\ \A q \in Publishers : q # p => h.create[q] = hub.create[q] /\ h.cas[q] = hub.cas[q]
    /\ op \notin Release!ProbeOps => h.create = hub.create /\ h.cas = hub.cas
    /\ op = "create_probe_reject" /\ ~honours.create => h.create[p].holds = "rejected"
    /\ op = "cas_probe_stale" /\ ~honours.match => h.cas[p].holds = "rejected"

\* A probe's reference stays one.
LEMMA ProbeServed ==
    ASSUME NEW r, Reference(r), NEW content, NEW matches, NEW honoured
    PROVE  /\ Reference(Release!Probe(r, content, matches, honoured))
           /\ ~honoured => Release!Probe(r, content, matches, honoured).holds = content
<1>1. r.etag + 1 \in Nat /\ r.etag + 1 # 0
  BY DEF Reference
<1> QED BY <1>1 DEF Release!Probe, Release!Overwrite, Reference

\* One field of the public state changes.
LEMMA OneFieldServed ==
    ASSUME RelInv, NEW p \in Publishers, NEW op, op \notin Release!ProbeOps,
           NEW h, DOMAIN h = HubFields, h.create = hub.create, h.cas = hub.cas,
           op # "latest_update" => h.latest = hub.latest,
           op = "latest_update" /\ honours.match /\ hub.latest # "prior" => h.latest = hub.latest,
           h.latest \in {hub.latest, "ours"},
           op # "version_create" => h.version = hub.version,
           op = "version_create" /\ honours.create /\ hub.version # Release!Absent =>
              h.version = hub.version,
           \/ h.lock = hub.lock
           \/ op = "lock_ref_create" /\ hub.lock = Release!NoOne
           \/ op = "lock_ref_remove"
    PROVE  Served(p, op, h)
BY DEF Served, RelInv, Servers, Release!ProbeOps

\* Applied, operation by operation.
LEMMA AppliedServed ==
    ASSUME RelInv, NEW p \in Publishers, NEW op
    PROVE  Served(p, op, Release!Applied(p, op))
<1>0. DOMAIN hub = HubFields /\ DOMAIN hub.create = Publishers /\ DOMAIN hub.cas = Publishers
      /\ \A q \in Publishers : Reference(hub.create[q]) /\ Reference(hub.cas[q])
  BY DEF RelInv, Servers
<1> DEFINE h == Release!Applied(p, op)
<1>1. CASE op = "lock_ref_create"
  <2>1. h = IF hub.lock = Release!NoOne THEN [hub EXCEPT !.lock = p] ELSE hub
    BY <1>1 DEF Release!Applied
  <2> HIDE DEF h
  <2>2. DOMAIN h = HubFields /\ h.create = hub.create /\ h.cas = hub.cas
        /\ h.latest = hub.latest /\ h.version = hub.version
        /\ (hub.lock = Release!NoOne \/ h.lock = hub.lock)
    BY <1>0, <2>1 DEF HubFields
  <2> QED BY <1>1, <2>2, OneFieldServed DEF Release!ProbeOps, h
<1>2. CASE op = "lock_ref_remove"
  <2>1. h = IF hub.lock = p THEN [hub EXCEPT !.lock = Release!NoOne] ELSE hub
    BY <1>2 DEF Release!Applied
  <2> HIDE DEF h
  <2>2. DOMAIN h = HubFields /\ h.create = hub.create /\ h.cas = hub.cas
        /\ h.latest = hub.latest /\ h.version = hub.version
    BY <1>0, <2>1 DEF HubFields
  <2> QED BY <1>2, <2>2, OneFieldServed DEF Release!ProbeOps, h
<1>3. CASE op = "version_create"
  <2>1. h = IF hub.version = Release!Absent \/ ~honours.create
            THEN [hub EXCEPT !.version = "ours"] ELSE hub
    BY <1>3 DEF Release!Applied
  <2> HIDE DEF h
  <2>2. DOMAIN h = HubFields /\ h.create = hub.create /\ h.cas = hub.cas
        /\ h.latest = hub.latest /\ h.lock = hub.lock
        /\ (honours.create /\ hub.version # Release!Absent => h.version = hub.version)
    BY <1>0, <2>1 DEF HubFields
  <2> QED BY <1>3, <2>2, OneFieldServed DEF Release!ProbeOps, h
<1>4. CASE op = "latest_update"
  <2>1. h = IF hub.latest = "prior" \/ ~honours.match
            THEN [hub EXCEPT !.latest = "ours"] ELSE hub
    BY <1>4 DEF Release!Applied
  <2> HIDE DEF h
  <2>2. DOMAIN h = HubFields /\ h.create = hub.create /\ h.cas = hub.cas
        /\ h.version = hub.version /\ h.lock = hub.lock
        /\ (honours.match /\ hub.latest # "prior" => h.latest = hub.latest)
        /\ h.latest \in {hub.latest, "ours"}
    BY <1>0, <2>1 DEF HubFields
  <2> QED BY <1>4, <2>2, OneFieldServed DEF Release!ProbeOps, h
<1>5. CASE op \in {"create_probe_seed", "create_probe_reject"}
  <2> DEFINE n == Release!ProbeWrite(p, op)
  <2>1. h = [hub EXCEPT !.create[p] = n]
    BY <1>5 DEF Release!Applied
  <2>2. Reference(n)
    <3>1. \/ n = Release!Probe(hub.create[p], "winner", hub.create[p].holds = Release!Absent, honours.create)
          \/ n = Release!Probe(hub.create[p], "rejected", hub.create[p].holds = Release!Absent, honours.create)
      BY <1>5 DEF Release!ProbeWrite
    <3> QED BY <1>0, <3>1, ProbeServed
  <2>3. op = "create_probe_reject" /\ ~honours.create => n.holds = "rejected"
    <3>1. op = "create_probe_reject" => 
             n = Release!Probe(hub.create[p], "rejected", hub.create[p].holds = Release!Absent, honours.create)
      BY DEF Release!ProbeWrite
    <3> QED BY <1>0, <3>1, ProbeServed
  <2> HIDE DEF h, n
  <2>4. /\ DOMAIN h = HubFields /\ DOMAIN h.create = Publishers /\ h.cas = hub.cas
        /\ h.create[p] = n /\ \A q \in Publishers : q # p => h.create[q] = hub.create[q]
        /\ h.latest = hub.latest /\ h.version = hub.version /\ h.lock = hub.lock
    BY <1>0, <2>1 DEF HubFields
  <2> QED BY <1>0, <1>5, <2>2, <2>3, <2>4 DEF Served, Release!ProbeOps, h
<1>6. CASE op \in {"cas_probe_seed", "cas_probe_cas", "cas_probe_stale"}
  <2> DEFINE n == Release!ProbeWrite(p, op)
             x == hub.cas[p]
             hit == x.etag = proc[p].cp.cas.prior
  <2>1. h = [hub EXCEPT !.cas[p] = n]
    BY <1>6 DEF Release!Applied
  <2>2. Reference(n)
    <3>1. \/ n = Release!Probe(x, "prior", x.holds = Release!Absent, honours.create)
          \/ n = Release!Probe(x, "winner", hit, honours.match)
          \/ n = Release!Probe(x, "rejected", hit, honours.match)
      BY <1>6 DEF Release!ProbeWrite
    <3> QED BY <1>0, <3>1, ProbeServed
  <2>3. op = "cas_probe_stale" /\ ~honours.match => n.holds = "rejected"
    <3>1. op = "cas_probe_stale" => n = Release!Probe(x, "rejected", hit, honours.match)
      BY DEF Release!ProbeWrite
    <3> QED BY <1>0, <3>1, ProbeServed
  <2> HIDE DEF h, n, hit, x
  <2>4. /\ DOMAIN h = HubFields /\ DOMAIN h.cas = Publishers /\ h.create = hub.create
        /\ h.cas[p] = n /\ \A q \in Publishers : q # p => h.cas[q] = hub.cas[q]
        /\ h.latest = hub.latest /\ h.version = hub.version /\ h.lock = hub.lock
    BY <1>0, <2>1 DEF HubFields
  <2> QED BY <1>0, <1>6, <2>2, <2>3, <2>4 DEF Served, Release!ProbeOps, h
<1>7. CASE op \notin {"lock_ref_create", "lock_ref_remove", "version_create", "latest_update"}
                     \cup Release!ProbeOps
  <2>1. \/ h = hub \/ h = [hub EXCEPT !.main = "release"] \/ h = [hub EXCEPT !.tag = "ours"]
        \/ h = [hub EXCEPT !.blob = TRUE] \/ h = [hub EXCEPT !.manifest = TRUE]
        \/ h = [hub EXCEPT !.release = "ours"]
    BY <1>7 DEF Release!Applied, Release!ProbeOps
  <2> HIDE DEF h
  <2>2. DOMAIN h = HubFields /\ h.create = hub.create /\ h.cas = hub.cas
        /\ h.latest = hub.latest /\ h.version = hub.version /\ h.lock = hub.lock
    BY <1>0, <2>1 DEF HubFields
  <2> QED BY <1>7, <2>2, OneFieldServed DEF Release!ProbeOps, h
<1> QED BY <1>1, <1>2, <1>3, <1>4, <1>5, <1>6, <1>7 DEF Release!ProbeOps

\* A request is on its way from where its sender was allowed to send it.
LEMMA SenderAllowed ==
    ASSUME RelInv, NEW p \in Publishers, proc[p].io # "none"
    PROVE  LET op == proc[p].op
           IN  /\ <<proc[p].at, op>> \in Sends /\ proc[p].at # "down" /\ op # "none"
               /\ op = "version_create" => honours.create
               /\ op = "latest_update" =>
                    /\ proc[p].at = "latest_send" /\ honours.match
                    /\ journal[p].attempted /\ journal[p].acquired
               /\ op = "lock_ref_remove" => hub.latest = "ours" /\ journal[p].acquired
               /\ proc[p].cp = journal[p]
<1> DEFINE op == proc[p].op
           at == proc[p].at
<1>1. Process(proc[p]) /\ Around(p, proc[p]) /\ Backed(p, journal[p])
  BY OfOne
<1>2. <<at, op>> \in Sends /\ op # "none"
  BY <1>1 DEF Process
<1>3. /\ at # "down"
      /\ op = "version_create" => at = "version_create"
      /\ op = "latest_update" => at = "latest_send"
      /\ op = "lock_ref_remove" => at = "unlock"
  BY <1>2 DEF Sends
<1>4. proc[p].cp = journal[p]
  BY <1>3, OfOne
<1>5. op = "version_create" => honours.create
  BY <1>1, <1>3, <1>4 DEF Process, Backed
<1>6. op = "latest_update" => honours.match /\ journal[p].attempted /\ journal[p].acquired
  <2>1. at = "latest_send" => at \notin BeforeLock
    BY DEF BeforeLock, BeforeObject
  <2> QED BY <1>1, <1>3, <1>4, <2>1 DEF Process, Backed
<1>7. op = "lock_ref_remove" => hub.latest = "ours" /\ journal[p].acquired
  <2>1. at = "unlock" => at \notin BeforeLock /\ at \in Closing
    BY DEF BeforeLock, BeforeObject, Closing
  <2> QED BY <1>1, <1>3, <1>4, <2>1 DEF Process, Around
<1> QED BY <1>2, <1>3, <1>4, <1>5, <1>6, <1>7

\* The servers apply a request that was allowed: nothing is overwritten, and what the
\* others know stays true.
LEMMA AppliedKeeps ==
    ASSUME RelInv, NEW p \in Publishers, NEW op,
           op = "version_create" => honours.create,
           op = "latest_update" => honours.match,
           op = "lock_ref_remove" => hub.latest = "ours",
           hub' = Release!Applied(p, op), UNCHANGED <<honours, journal>>
    PROVE  /\ Served(p, op, hub')
           /\ Release!Noted(p, op).overwritten = FALSE
           /\ \A q \in Publishers : Backed(q, journal[q])'
           /\ hub.latest = "ours" => hub'.latest = "ours"
<1>1. Served(p, op, hub')
  BY AppliedServed
<1>2. Release!Noted(p, op).overwritten = FALSE
  <2>1. DOMAIN seen = {"overwritten", "updates", "stranded"} /\ seen.overwritten = FALSE
    BY DEF RelInv, Servers
  <2>2. hub.version = "foreign" => Release!Applied(p, op).version = "foreign"
    BY <1>1 DEF Served, Release!Absent
  <2>3. hub.latest = "foreign" => Release!Applied(p, op).latest = "foreign"
    BY <1>1 DEF Served
  <2> QED BY <2>1, <2>2, <2>3 DEF Release!Noted
<1>3. hub.latest = "ours" => hub'.latest = "ours"
  BY <1>1 DEF Served
<1>4. ASSUME NEW q \in Publishers
      PROVE  Backed(q, journal[q])'
  <2>1. Backed(q, journal[q])
    BY OfOne
  <2>2. journal[q].acquired /\ hub'.latest # "ours" => hub'.lock = q
    <3>1. SUFFICES ASSUME journal[q].acquired, hub'.latest # "ours"
                   PROVE  hub'.lock = q
      OBVIOUS
    <3>2. hub.latest # "ours"
      BY <1>3, <3>1
    <3>3. hub.lock = q /\ q # Release!NoOne
      BY <2>1, <3>1, <3>2, ReleaseAssumption DEF Backed
    <3> QED BY <1>1, <3>2, <3>3 DEF Served
  <2> QED BY <2>1, <2>2 DEF Backed
<1> QED BY <1>1, <1>2, <1>3, <1>4

\* What a publisher knows survives what others make the servers do.
LEMMA OthersKeep ==
    ASSUME RelInv, NEW q \in Publishers, UNCHANGED honours,
           proc'[q] = proc[q], journal'[q] = journal[q], Backed(q, journal[q])',
           hub.latest = "ours" => hub'.latest = "ours",
           hub'.create[q] = hub.create[q], hub'.cas[q] = hub.cas[q],
           \/ seen'.updates = seen.updates
           \/ /\ proc[q].at \notin {"cas_probe", "cas_rejected", "latest_arm"}
              /\ ~(proc[q].at = "latest_send" /\ proc[q].io \in Unsent)
    PROVE  Known(q, proc[q], journal[q])'
<1>1. Known(q, proc[q], journal[q])
  BY DEF RelInv
<1> DEFINE w == proc[q]
           w2 == proc'[q]
<1>2. Around(q, w)
  BY <1>1 DEF Known
<1>3. Around(q, w)'
  BY <1>2 DEF Around
<1> QED BY <1>1, <1>3 DEF Known, Process, Checkpoint

\* While the update of latest is still to be sent, nobody else is about to send it.
LEMMA SendsAlone ==
    ASSUME RelInv, NEW p \in Publishers, NEW q \in Publishers, q # p,
           proc[p].at = "latest_send", proc[p].io \in Unsent
    PROVE  /\ seen.updates = 0 /\ proc[q].at \notin {"cas_probe", "cas_rejected", "latest_arm"}
           /\ ~(proc[q].at = "latest_send" /\ proc[q].io \in Unsent)
<1>1. seen.updates = 0 /\ hub.latest # "ours"
  <2>1. Around(p, proc[p])
    BY OfOne
  <2>2. seen.updates = 0
    BY <2>1 DEF Around
  <2> QED BY <2>2 DEF RelInv, Servers
<1>2. ASSUME NEW r \in Publishers, proc[r].at \notin BeforeLock
      PROVE  hub.lock = r
  <2>1. proc[r].cp.acquired /\ Backed(r, proc[r].cp)
    BY <1>2, PastTheLock
  <2> QED BY <1>1, <2>1 DEF Backed
<1>3. "latest_send" \notin BeforeLock /\ "cas_probe" \notin BeforeLock
      /\ "cas_rejected" \notin BeforeLock /\ "latest_arm" \notin BeforeLock
  BY DEF BeforeLock, BeforeObject
<1> QED BY <1>1, <1>2, <1>3

\* A request leaves: it is applied, delayed or lost.
LEMMA SentStep ==
    ASSUME RelInv, NEW p \in Publishers, NEW op, NEW io, op = proc[p].op,
           Release!Sendable(p), UNCHANGED <<honours, journal>>,
           io \in {"answered", "failed"}, proc' = [proc EXCEPT ![p].io = io],
           DOMAIN seen' = DOMAIN seen,
           seen'.updates = IF op = "latest_update" THEN seen.updates + 1 ELSE seen.updates,
           \/ /\ hub' = Release!Applied(p, op) /\ UNCHANGED late
              /\ seen'.overwritten = Release!Noted(p, op).overwritten
           \/ /\ hub' = hub /\ io = "failed" /\ seen'.overwritten = seen.overwritten
              /\ \/ UNCHANGED late
                 \/ op \notin Release!ProbeOps /\ late' = late \cup {<<p, op>>}
    PROVE  RelInv' /\ ReceiptsKept
<1> DEFINE w == proc[p]
<1>1. w.io \in Unsent /\ w.io # "none"
  BY DEF Release!Sendable, Unsent
<1>2. /\ <<w.at, op>> \in Sends /\ w.at # "down" /\ op # "none"
      /\ op = "version_create" => honours.create
      /\ op = "latest_update" =>
           /\ w.at = "latest_send" /\ honours.match
           /\ journal[p].attempted /\ journal[p].acquired
      /\ op = "lock_ref_remove" => hub.latest = "ours"
      /\ w.cp = journal[p]
  BY <1>1, SenderAllowed
<1>3. /\ \/ Served(p, op, hub')
         \/ hub' = hub /\ io = "failed"
      /\ seen'.overwritten = FALSE
      /\ \A q \in Publishers : Backed(q, journal[q])'
      /\ hub.latest = "ours" => hub'.latest = "ours"
  <2>1. CASE hub' = Release!Applied(p, op) /\ seen'.overwritten = Release!Noted(p, op).overwritten
    BY <1>2, <2>1, AppliedKeeps
  <2>2. CASE hub' = hub /\ io = "failed" /\ seen'.overwritten = seen.overwritten
    <3>1. seen.overwritten = FALSE
      BY DEF RelInv, Servers
    <3>2. \A q \in Publishers : Backed(q, journal[q])
      BY OfOne
    <3> QED BY <2>2, <3>1, <3>2 DEF Backed
  <2> QED BY <2>1, <2>2
<1>4. op = "latest_update" => seen.updates = 0
  <2>1. Around(p, w)
    BY OfOne
  <2> QED BY <1>1, <1>2, <2>1 DEF Around
<1>5. seen.updates \in {0, 1} /\ seen'.updates \in {0, 1}
      /\ (seen.updates # 0 => seen'.updates # 0)
      /\ (op = "latest_update" => seen'.updates # 0)
      /\ (op # "latest_update" => seen'.updates = seen.updates)
  <2>1. seen.updates \in {0, 1}
    BY DEF RelInv, Servers
  <2> QED BY <1>4, <2>1
<1>6. Servers'
  <2>1. /\ DOMAIN hub' = HubFields
        /\ DOMAIN hub'.create = Publishers /\ DOMAIN hub'.cas = Publishers
        /\ \A q \in Publishers : Reference(hub'.create[q]) /\ Reference(hub'.cas[q])
    BY <1>3 DEF Served, RelInv, Servers
  <2>2. seen'.updates = 0 => hub'.latest # "ours"
    BY <1>3, <1>5 DEF Served, RelInv, Servers
  <2>3. \A r \in late' : Delayed(r)'
    <3>1. \A r \in late : Delayed(r)'
      BY <1>3, <1>5 DEF RelInv, Servers, Delayed
    <3>2. op \notin Release!ProbeOps => Delayed(<<p, op>>)'
      BY <1>2, <1>3, <1>5 DEF Delayed
    <3> QED BY <3>1, <3>2
  <2> QED BY <1>3, <1>5, <2>1, <2>2, <2>3 DEF RelInv, Servers, Reference
<1>7. SenderKnown'
  <2>1. CASE op = "latest_update"
    BY <1>2, <2>1 DEF SenderKnown
  <2>2. CASE op # "latest_update"
    BY <1>3, <1>5, <2>2 DEF SenderKnown, RelInv
  <2> QED BY <2>1, <2>2
<1>8. /\ DOMAIN proc' = Publishers /\ DOMAIN journal' = Publishers
      /\ \A q \in Publishers : q # p => proc'[q] = proc[q]
      /\ DOMAIN proc'[p] = ProcFields /\ proc'[p].io = io /\ proc'[p].at = w.at
      /\ proc'[p].op = op /\ proc'[p].cp = w.cp /\ proc'[p].state = w.state
  <2>1. DOMAIN proc = Publishers /\ DOMAIN journal = Publishers /\ DOMAIN proc[p] = ProcFields
    BY OfOne
  <2> QED BY <2>1 DEF ProcFields
<1>9. ASSUME NEW q \in Publishers, q # p
      PROVE  Known(q, proc[q], journal[q])'
  <2>1. hub'.create[q] = hub.create[q] /\ hub'.cas[q] = hub.cas[q]
    BY <1>3, <1>9 DEF Served
  <2>2. \/ seen'.updates = seen.updates
        \/ /\ proc[q].at \notin {"cas_probe", "cas_rejected", "latest_arm"}
           /\ ~(proc[q].at = "latest_send" /\ proc[q].io \in Unsent)
    BY <1>1, <1>2, <1>5, <1>9, SendsAlone
  <2> QED BY <1>3, <1>8, <1>9, <2>1, <2>2, OthersKeep
<1>10. Known(p, proc[p], journal[p])'
  <2>1. Checkpoint(journal[p]) /\ Process(w) /\ Around(p, w)
    BY OfOne
  <2> DEFINE v == proc'[p]
  <2>2. Process(v)
    BY <1>2, <1>8, <2>1 DEF Process
  <2>3. w.at \notin {"create_rejected", "cas_rejected"}
        /\ (w.at = "cas_probe" \/ w.at = "latest_arm" => op # "latest_update")
    BY <1>2 DEF Sends
  <2>4. Around(p, proc[p])'
    <3>1. /\ v.op = "create_probe_reject" /\ v.io = "answered" /\ ~honours.create
               => hub'.create[p].holds = "rejected"
          /\ v.op = "cas_probe_stale" /\ v.io = "answered" /\ ~honours.match
               => hub'.cas[p].holds = "rejected"
      BY <1>3, <1>8 DEF Served
    <3>2. v.at \in {"cas_probe", "cas_rejected", "latest_arm"} => seen'.updates = 0
      BY <1>5, <1>8, <2>1, <2>3 DEF Around
    <3>3. v.at \in Closing => hub'.latest = "ours"
      BY <1>3, <1>8, <2>1 DEF Around
    <3>4. v.at \in {"release_read", "latest"} =>
            /\ v.state.latest \in {"prior", "ours"}
            /\ v.state.latest = "ours" => hub'.latest = "ours"
      BY <1>3, <1>8, <2>1 DEF Around
    <3> QED BY <1>8, <2>3, <3>1, <3>2, <3>3, <3>4 DEF Around, Unsent
  <2>5. Checkpoint(journal'[p])
    BY <2>1
  <2> QED BY <1>2, <1>3, <1>8, <2>2, <2>4, <2>5 DEF Known, Process, Checkpoint
<1>11. ReceiptsKept
  BY DEF ReceiptsKept, Release!AcceptsReceipts
<1> QED BY <1>6, <1>7, <1>8, <1>9, <1>10, <1>11 DEF RelInv

\* The request is answered or not.
LEMMA WriteSteps ==
    ASSUME RelInv, NEW p \in Publishers, Release!WriteSent(p) \/ Release!WriteUnanswered(p)
    PROVE  RelInv' /\ ReceiptsKept
<1> DEFINE op == proc[p].op
<1>0. DOMAIN seen = {"overwritten", "updates", "stranded"}
  BY DEF RelInv, Servers
<1>1. ASSUME NEW history, DOMAIN history = DOMAIN seen, history.updates = seen.updates,
             seen' = Release!Counted(history, op)
      PROVE  /\ DOMAIN seen' = DOMAIN seen /\ seen'.overwritten = history.overwritten
             /\ seen'.updates = IF op = "latest_update" THEN seen.updates + 1 ELSE seen.updates
  BY <1>0, <1>1 DEF Release!Counted
<1>2. /\ DOMAIN Release!Noted(p, op) = DOMAIN seen
      /\ Release!Noted(p, op).updates = seen.updates
  BY <1>0 DEF Release!Noted
<1> HIDE DEF op
<1>3. CASE Release!WriteSent(p)
  <2>1. /\ Release!Sendable(p) /\ UNCHANGED <<honours, journal, late>>
        /\ hub' = Release!Applied(p, op) /\ seen' = Release!Counted(Release!Noted(p, op), op)
        /\ \E io \in {"answered", "failed"} : proc' = [proc EXCEPT ![p].io = io]
    BY <1>3 DEF Release!WriteSent, Release!Unrecorded, op
  <2>2. /\ DOMAIN seen' = DOMAIN seen /\ seen'.overwritten = Release!Noted(p, op).overwritten
        /\ seen'.updates = IF op = "latest_update" THEN seen.updates + 1 ELSE seen.updates
    BY <1>1, <1>2, <2>1
  <2>3. PICK io \in {"answered", "failed"} : proc' = [proc EXCEPT ![p].io = io]
    BY <2>1
  <2> QED BY <2>1, <2>2, <2>3, SentStep DEF op
<1>4. CASE Release!WriteUnanswered(p)
  <2>1. /\ Release!Sendable(p) /\ UNCHANGED <<honours, journal>>
        /\ proc' = [proc EXCEPT ![p].io = "failed"]
    BY <1>4 DEF Release!WriteUnanswered, Release!Unrecorded
  <2>2. CASE /\ hub' = Release!Applied(p, op)
             /\ seen' = Release!Counted(Release!Noted(p, op), op) /\ UNCHANGED late
    <3>1. /\ DOMAIN seen' = DOMAIN seen /\ seen'.overwritten = Release!Noted(p, op).overwritten
          /\ seen'.updates = IF op = "latest_update" THEN seen.updates + 1 ELSE seen.updates
      BY <1>1, <1>2, <2>2
    <3> QED BY <2>1, <2>2, <3>1, SentStep DEF op
  <2>3. CASE /\ seen' = Release!Counted(seen, op) /\ hub' = hub
             /\ \/ UNCHANGED late
                \/ op \notin Release!ProbeOps /\ late' = late \cup {<<p, op>>}
    <3>1. /\ DOMAIN seen' = DOMAIN seen /\ seen'.overwritten = seen.overwritten
          /\ seen'.updates = IF op = "latest_update" THEN seen.updates + 1 ELSE seen.updates
      BY <1>1, <2>3
    <3> QED BY <2>1, <2>3, <3>1, SentStep DEF op
  <2> QED BY <1>4, <2>2, <2>3 DEF Release!WriteUnanswered, op
<1> QED BY <1>3, <1>4

\* The same place and checkpoint, another state of the request not yet sent or failed.
LEMMA IoStep ==
    ASSUME RelInv, NEW p \in Publishers, NEW io, Release!World, Release!Unrecorded,
           UNCHANGED seen, proc[p].io \in Unsent, proc[p].io # "none",
           io \in {"checked", "identified", "failed"}, proc' = [proc EXCEPT ![p].io = io]
    PROVE  RelInv' /\ ReceiptsKept
<1> DEFINE w == proc[p]
           v == [w EXCEPT !.io = io]
<1>1. /\ Checkpoint(journal[p]) /\ Process(w) /\ Around(p, w) /\ Backed(p, journal[p])
      /\ DOMAIN w = ProcFields
      /\ w.at # "down" => w.cp = journal[p]
  BY OfOne
<1>2. /\ DOMAIN v = ProcFields /\ v.io = io /\ v.at = w.at /\ v.op = w.op /\ v.cp = w.cp
      /\ v.state = w.state
  BY <1>1 DEF ProcFields
<1>3. proc' = [proc EXCEPT ![p] = v]
  OBVIOUS
<1>4. UNCHANGED <<hub, honours, late>> /\ UNCHANGED journal
  BY DEF Release!World, Release!Unrecorded
<1> HIDE DEF v
<1>5. Process(v)
  BY <1>1, <1>2 DEF Process, Unsent
<1>6. Around(p, v)
  BY <1>1, <1>2 DEF Around, Unsent
<1>7. Known(p, v, journal[p])
  BY <1>1, <1>2, <1>5, <1>6 DEF Known
<1> QED BY <1>3, <1>4, <1>7, LocalStep

\* The checks before a request is sent.
LEMMA CheckSteps ==
    ASSUME RelInv, NEW p \in Publishers, Release!WriteChecked(p) \/ Release!IdentifyLatest(p)
    PROVE  RelInv' /\ ReceiptsKept
<1>0. proc[p].io \in Unsent /\ proc[p].io # "none" /\ Release!World
  BY DEF Release!WriteChecked, Release!IdentifyLatest, Unsent
<1>1. CASE \E io \in {"checked", "identified", "failed"} :
              proc' = [proc EXCEPT ![p].io = io] /\ Release!Unrecorded /\ UNCHANGED seen
  BY <1>0, <1>1, IoStep
<1>2. CASE /\ Release!Journaled(p, [proc[p].cp EXCEPT !.phase = <<proc[p].op, "blocked">>])
           /\ Release!Ends(p, "blocked")
  <2>1. proc[p].at # "down" /\ proc[p].cp = journal[p]
    BY <1>0, SenderAllowed
  <2>2. <<proc[p].op, "blocked">> # NoPhase
        /\ <<proc[p].op, "blocked">> \notin Release!RemovalPhases
    BY DEF NoPhase, Release!RemovalPhases
  <2>3. Release!Journaled(p, [journal[p] EXCEPT !.phase = <<proc[p].op, "blocked">>])
    BY <1>2, <2>1
  <2> QED BY <1>0, <1>2, <2>1, <2>2, <2>3, EndsInPhase
<1> QED BY <1>1, <1>2 DEF Release!WriteChecked, Release!IdentifyLatest

\* Where a publisher is after a request that was answered.
LEMMA FitAfter ==
    ASSUME RelInv, NEW p \in Publishers, proc[p].io = "answered", NEW c, Checkpoint(c),
           c.phase # NoPhase, c.object = proc[p].cp.object, c.acquired = proc[p].cp.acquired,
           c.create = proc[p].cp.create, c.cas = proc[p].cp.cas,
           c.attempted = proc[p].cp.attempted
    PROVE  Fit(p, Release!After(proc[p].op), c, proc[p].state)
<1> DEFINE w == proc[p]
           at == w.at
           op == w.op
           state == w.state
           next == Release!After(op)
<1>1. Process(w) /\ Around(p, w) /\ <<at, op>> \in Sends
  BY OfOne, SenderAllowed
<1>2. op \in {"lock_object_create", "lock_ref_create", "main_fast_forward",
              "version_tag_object_create", "version_tag_ref_create", "blob_upload_start",
              "blob_upload_finish", "manifest_put", "create_probe_seed", "create_probe_reject",
              "version_create", "release_create", "cas_probe_seed", "cas_probe_cas",
              "cas_probe_stale", "latest_update", "lock_ref_remove"}
  BY <1>1 DEF Sends
<1>3. op # "lock_object_create" => c.object
  <2>1. op # "lock_object_create" => at \notin BeforeObject
    BY <1>1 DEF Sends, BeforeObject
  <2> QED BY <1>1, <2>1 DEF Process
<1>4. op \notin {"lock_object_create", "lock_ref_create"} => c.acquired
  <2>1. op \notin {"lock_object_create", "lock_ref_create"} => at \notin BeforeLock
    BY <1>1 DEF Sends, BeforeLock, BeforeObject
  <2> QED BY <1>1, <2>1 DEF Process
<1>5. CASE op \in {"lock_object_create", "lock_ref_create"}
  <2>1. next \in {"have_object", "have_lock"} /\ (next = "have_lock" => op = "lock_ref_create")
    BY <1>5 DEF Release!After
  <2> HIDE DEF next
  <2> QED BY <1>3, <2>1, FitStart DEF next
<1>6. CASE op \in {"main_fast_forward", "version_tag_object_create", "version_tag_ref_create",
                   "blob_upload_start", "blob_upload_finish", "manifest_put",
                   "create_probe_seed", "version_create", "release_create", "latest_update"}
  <2>1. next \in Middle
    BY <1>6 DEF Release!After, Middle
  <2> HIDE DEF next
  <2> QED BY <1>4, <1>6, <2>1, FitMiddle DEF next
<1>7. CASE op \in {"cas_probe_seed", "cas_probe_cas"}
  <2>1. next = "cas_probe" /\ at = "cas_probe"
    BY <1>1, <1>7 DEF Release!After, Sends
  <2>2. ~c.attempted /\ seen.updates = 0
    BY <1>1, <2>1 DEF Process, Around
  <2> QED BY <1>4, <1>7, <2>1, <2>2, FitCas
<1>8. CASE op = "create_probe_reject"
  <2>1. next = "create_rejected"
    BY <1>8 DEF Release!After
  <2>2. /\ c.create.stage = "reject_armed"
        /\ ~honours.create => hub.create[p].holds = "rejected"
    BY <1>1, <1>8 DEF Process, Around
  <2>3. Fit(p, "create_rejected", c, state)
    BY <1>3, <1>4, <1>8, <2>2 DEF Fit, Resting, Process, Around, Unsent, BeforeObject,
                                  BeforeLock, Closing
  <2> QED BY <2>1, <2>3
<1>9. CASE op = "cas_probe_stale"
  <2>1. next = "cas_rejected" /\ at = "cas_probe"
    BY <1>1, <1>9 DEF Release!After, Sends
  <2>2. /\ c.cas.stage = "stale_armed" /\ ~c.attempted /\ seen.updates = 0
        /\ ~honours.match => hub.cas[p].holds = "rejected"
    BY <1>1, <1>9, <2>1 DEF Process, Around
  <2>3. Fit(p, "cas_rejected", c, state)
    BY <1>3, <1>4, <1>9, <2>2 DEF Fit, Resting, Process, Around, Unsent, BeforeObject,
                                  BeforeLock, Closing
  <2> QED BY <2>1, <2>3
<1>10. CASE op = "lock_ref_remove"
  <2>1. next = "lock_gone" /\ at = "unlock"
    BY <1>1, <1>10 DEF Release!After, Sends
  <2>2. hub.latest = "ours"
    BY <1>1, <2>1 DEF Around, Closing
  <2>3. Fit(p, "lock_gone", c, state)
    BY <1>4, <1>10, <2>2, FitClosing DEF Closing
  <2> QED BY <2>1, <2>3
<1> QED BY <1>2, <1>5, <1>6, <1>7, <1>8, <1>9, <1>10

\* What became of a request is recorded.
LEMMA SettledStep ==
    ASSUME RelInv, NEW p \in Publishers, Release!WriteSettled(p)
    PROVE  RelInv' /\ ReceiptsKept
<1> DEFINE w == proc[p]
           c == journal[p]
           op == w.op
<1>0. w.io \in {"answered", "failed"} /\ Release!World /\ w.io # "none"
  BY DEF Release!WriteSettled
<1>1. /\ w.at # "down" /\ w.cp = c /\ op # "none"
      /\ op = "lock_ref_remove" => c.acquired
  BY <1>0, SenderAllowed
<1>2. ASSUME NEW how
      PROVE  /\ <<op, how>> # NoPhase
             /\ <<op, how>> \in Release!RemovalPhases => c.acquired
  <2>1. <<op, how>> # NoPhase
    BY <1>1 DEF NoPhase
  <2>2. <<op, how>> \in Release!RemovalPhases => op = "lock_ref_remove"
    BY DEF Release!RemovalPhases
  <2> QED BY <1>1, <2>1, <2>2
<1>3. CASE /\ Release!Journaled(p, [w.cp EXCEPT !.phase = <<op, "ambiguous">>])
           /\ Release!Ends(p, "ambiguous")
  BY <1>0, <1>1, <1>2, <1>3, EndsInPhase
<1>4. CASE w.io = "answered" /\ ~(w.io = "failed" \/ hub.runs # w.cp.runs)
  <2> DEFINE d == [c EXCEPT !.phase = <<op, "written">>]
             next == Release!After(op)
             v == [w EXCEPT !.cp = d, !.io = "none", !.op = "none", !.at = next]
  <2>1. /\ journal' = [journal EXCEPT ![p] = d] /\ UNCHANGED <<seen, hub, honours, late>>
        /\ proc' = [proc EXCEPT ![p] = v]
    BY <1>0, <1>1, <1>4 DEF Release!WriteSettled, Release!Journaled, Release!World
  <2>2. Checkpoint(c) /\ Backed(p, c) /\ c # Release!NoCheckpoint /\ DOMAIN w = ProcFields
    BY <1>1, OfOne
  <2> HIDE DEF c
  <2>3. /\ Checkpoint(d) /\ Backed(p, d) /\ d.phase # NoPhase /\ Release!JournalAccepts(c, d)
        /\ d.object = c.object /\ d.acquired = c.acquired /\ d.create = c.create
        /\ d.cas = c.cas /\ d.attempted = c.attempted
    <3>1. <<op, "written">> # NoPhase
          /\ (<<op, "written">> \in Release!RemovalPhases => c.acquired)
      BY <1>2
    <3> QED BY <2>2, <3>1, NewPhase
  <2> HIDE DEF d
  <2>4. Fit(p, next, d, w.state)
    BY <1>1, <1>4, <2>3, FitAfter
  <2> HIDE DEF next
  <2>5. Resting(v, next, d, w.state)
    BY <2>2 DEF Resting, ProcFields
  <2> HIDE DEF v
  <2>6. Process(v) /\ Around(p, v)
    BY <2>4, <2>5 DEF Fit
  <2> QED BY <2>1, <2>3, <2>5, <2>6, RestStep DEF c
<1> QED BY <1>0, <1>3, <1>4 DEF Release!WriteSettled

\* A process dies.
LEMMA StopsStep ==
    ASSUME RelInv, NEW p \in Publishers, Release!PublisherStops(p)
    PROVE  RelInv' /\ ReceiptsKept
<1>1. /\ UNCHANGED <<hub, honours, late>> /\ UNCHANGED journal /\ UNCHANGED seen
      /\ proc' = [proc EXCEPT ![p] = Release!NotRunning]
  BY DEF Release!PublisherStops
<1>2. Checkpoint(journal[p]) /\ Backed(p, journal[p])
  BY OfOne
<1> QED BY <1>1, <1>2, EndsStep

\* The servers change and no publisher moves.
LEMMA ServersStep ==
    ASSUME RelInv, UNCHANGED <<honours, journal, proc>>, late' \subseteq late,
           DOMAIN hub' = HubFields, hub'.create = hub.create, hub'.cas = hub.cas,
           hub.latest = "ours" => hub'.latest = "ours",
           seen.updates = 0 => hub'.latest # "ours",
           DOMAIN seen' = DOMAIN seen, seen'.updates = seen.updates,
           seen'.overwritten = FALSE,
           \A q \in Publishers : Backed(q, journal[q])'
    PROVE  RelInv' /\ ReceiptsKept
<1>1. \A q \in Publishers : Known(q, proc[q], journal[q])'
  BY OthersKeep
<1>2. Servers'
  <2>1. \A r \in late' : Delayed(r)'
    BY DEF RelInv, Servers, Delayed
  <2> QED BY <2>1 DEF RelInv, Servers
<1>3. SenderKnown'
  BY DEF RelInv, SenderKnown
<1>4. ReceiptsKept
  BY DEF ReceiptsKept, Release!AcceptsReceipts
<1> QED BY <1>1, <1>2, <1>3, <1>4 DEF RelInv

\* A delayed request arrives.
LEMMA LateStep ==
    ASSUME RelInv, Release!ArrivesLate
    PROVE  RelInv' /\ ReceiptsKept
<1>1. PICK r \in late : /\ late' = late \ {r} /\ hub' = Release!Applied(r[1], r[2])
                        /\ seen' = Release!Noted(r[1], r[2])
                        /\ UNCHANGED <<honours, journal, proc>>
  BY DEF Release!ArrivesLate
<1> DEFINE p == r[1]
           op == r[2]
<1>2. Delayed(r) /\ DOMAIN seen = {"overwritten", "updates", "stranded"}
  BY DEF RelInv, Servers
<1>3. /\ p \in Publishers /\ op \notin Release!ProbeOps
      /\ op = "version_create" => honours.create
      /\ op = "latest_update" => honours.match /\ seen.updates # 0
      /\ op = "lock_ref_remove" => hub.latest = "ours"
  BY <1>2 DEF Delayed
<1> HIDE DEF p, op
<1>4. /\ Served(p, op, hub') /\ Release!Noted(p, op).overwritten = FALSE
      /\ \A q \in Publishers : Backed(q, journal[q])'
      /\ hub.latest = "ours" => hub'.latest = "ours"
  BY <1>1, <1>3, AppliedKeeps DEF p, op
<1>5. DOMAIN seen' = DOMAIN seen /\ seen'.updates = seen.updates /\ seen'.overwritten = FALSE
  BY <1>1, <1>2, <1>4 DEF Release!Noted, p, op
<1>6. DOMAIN hub' = HubFields /\ hub'.create = hub.create /\ hub'.cas = hub.cas
  BY <1>3, <1>4 DEF Served
<1>7. seen.updates = 0 => hub'.latest # "ours"
  BY <1>3, <1>4 DEF Served, RelInv, Servers
<1> QED BY <1>1, <1>4, <1>5, <1>6, <1>7, ServersStep

\* Somebody else writes.
LEMMA ForeignStep ==
    ASSUME RelInv, Release!ForeignWrite
    PROVE  RelInv' /\ ReceiptsKept
<1>1. DOMAIN hub = HubFields
  BY DEF RelInv, Servers
<1>2. UNCHANGED <<honours, journal, proc, late, seen>>
  BY DEF Release!ForeignWrite
<1>3. /\ DOMAIN hub' = HubFields /\ hub'.create = hub.create /\ hub'.cas = hub.cas
      /\ hub'.lock = hub.lock
      /\ hub'.latest = hub.latest
         \/ (hub.latest \in {"prior", Release!Absent} /\ hub'.latest = "foreign")
  <2>1. CASE hub' = [hub EXCEPT !.runs = @ + 1]
    BY <1>1, <2>1 DEF HubFields
  <2>2. CASE \E place \in {"main", "latest", "tag", "release", "version"} :
                /\ hub[place] \in {"prior", Release!Absent}
                /\ hub' = [hub EXCEPT ![place] = "foreign"]
    BY <1>1, <2>2 DEF HubFields
  <2> QED BY <2>1, <2>2 DEF Release!ForeignWrite
<1>4. /\ hub.latest = "ours" => hub'.latest = "ours"
      /\ seen.updates = 0 => hub'.latest # "ours"
  BY <1>3 DEF RelInv, Servers, Release!Absent
<1>5. \A q \in Publishers : Backed(q, journal[q])'
  <2>1. \A q \in Publishers : Backed(q, journal[q])
    BY OfOne
  <2> QED BY <1>2, <1>3, <1>4, <2>1 DEF Backed
<1>6. seen.overwritten = FALSE
  BY DEF RelInv, Servers
<1> QED BY <1>2, <1>3, <1>4, <1>5, <1>6, ServersStep

\* The invariant holds at first.
LEMMA RelStart == Release!ReleaseInit => RelInv
<1> SUFFICES ASSUME Release!ReleaseInit PROVE RelInv
  OBVIOUS
<1> DEFINE no == Release!NoCheckpoint
<1>1. /\ proc = [p \in Publishers |-> Release!NotRunning] /\ journal = [p \in Publishers |-> no]
      /\ late = {} /\ seen = [overwritten |-> FALSE, updates |-> 0, stranded |-> FALSE]
      /\ honours.create \in BOOLEAN /\ honours.match \in BOOLEAN
  BY DEF Release!ReleaseInit
<1>2. /\ DOMAIN hub = HubFields /\ hub.latest = "prior"
      /\ hub.create = [p \in Publishers |-> Release!EmptyReference]
      /\ hub.cas = [p \in Publishers |-> Release!EmptyReference]
  BY DEF Release!ReleaseInit, HubFields
<1>3. Reference(Release!EmptyReference)
  BY DEF Reference, Release!EmptyReference
<1>4. Servers
  BY <1>1, <1>2, <1>3 DEF Servers
<1>5. SenderKnown
  BY <1>1 DEF SenderKnown
<1>6. /\ DOMAIN no = CheckpointFields /\ no.phase = NoPhase /\ no.object = FALSE
      /\ no.acquired = FALSE /\ no.removed = FALSE /\ no.smoke = FALSE
      /\ no.attempted = FALSE /\ no.url = FALSE /\ no.create = Release!NoProbe
      /\ no.cas = Release!NoProbe
  BY DEF Release!NoCheckpoint, CheckpointFields, NoPhase
<1>7. CreateKept(Release!NoProbe) /\ CasKept(Release!NoProbe) /\ Release!NoProbe.stage = "none"
  BY DEF CreateKept, CasKept, Release!NoProbe, ProbeFields
<1> HIDE DEF no
<1>8. Checkpoint(no)
  <2>1. NoPhase \notin Release!RemovalPhases
    BY DEF NoPhase, Release!RemovalPhases
  <2> QED BY <1>6, <1>7, <2>1 DEF Checkpoint
<1>9. ASSUME NEW p
      PROVE  Known(p, Release!NotRunning, no)
  <2>1. Backed(p, no)
    BY <1>6, <1>7 DEF Backed
  <2>2. Process(Release!NotRunning) /\ Around(p, Release!NotRunning)
    BY DEF Process, Around, Release!NotRunning, ProcFields, Unsent, BeforeObject, BeforeLock, Closing
  <2> QED BY <1>8, <2>1, <2>2 DEF Known, Release!NotRunning
<1> QED BY <1>1, <1>4, <1>5, <1>9 DEF RelInv, no

\* Every step of the publishers, the servers and the others keeps it.
LEMMA RelStep ==
    ASSUME RelInv, Release!ReleaseNext
    PROVE  RelInv' /\ ReceiptsKept
<1>1. CASE Release!ArrivesLate \/ Release!ForeignWrite
  BY <1>1, LateStep, ForeignStep
<1>2. ASSUME NEW p \in Publishers,
             \/ \E c \in Checkouts : Release!PublishFresh(p, c) \/ Release!PublishRecovery(p, c)
             \/ Release!LockObjectCreate(p) \/ Release!HaveObject(p)
             \/ Release!LockRefCreate(p) \/ Release!HaveLock(p)
      PROVE  RelInv' /\ ReceiptsKept
  BY <1>2, FreshStep, RecoveryStep, LockStages
<1>3. ASSUME NEW p \in Publishers,
             \/ Release!MainFastForward(p) \/ Release!VersionTag(p)
             \/ Release!RegistryBlob(p) \/ Release!RegistryManifest(p)
             \/ Release!RegistryVersion(p) \/ Release!CreateProbe(p) \/ Release!CreateRejected(p)
             \/ Release!AnonymousPullSmoke(p) \/ Release!GithubRelease(p)
      PROVE  RelInv' /\ ReceiptsKept
  BY <1>3, EarlyStages, VersionStages, CreateProbeStep, CreateRejectedStep
<1>4. ASSUME NEW p \in Publishers,
             \/ Release!RegistryLatest(p) \/ Release!CasProbe(p) \/ Release!CasRejected(p)
             \/ Release!LatestArmed(p) \/ Release!LatestUpdate(p) \/ Release!LockRefRemove(p)
      PROVE  RelInv' /\ ReceiptsKept
  BY <1>4, RegistryLatestStep, CasProbeStep, CasRejectedStep, LatestArmedStep, LastStages
<1>5. ASSUME NEW p \in Publishers,
             \/ Release!WriteChecked(p) \/ Release!IdentifyLatest(p) \/ Release!WriteSent(p)
             \/ Release!WriteUnanswered(p) \/ Release!WriteSettled(p) \/ Release!PublisherStops(p)
      PROVE  RelInv' /\ ReceiptsKept
  BY <1>5, CheckSteps, WriteSteps, SettledStep, StopsStep
<1> QED BY <1>1, <1>2, <1>3, <1>4, <1>5 DEF Release!ReleaseNext

\* A step of the composition, as the publishers see it.
LEMMA ReleasePart ==
    /\ OpsInit => Release!ReleaseInit
    /\ [OpsNext]_opsVars => Release!ReleaseNext \/ UNCHANGED releaseVars
BY Zenon DEF OpsInit, OpsNext, opsVars

\* RelInv holds at first, and every step of the composition keeps it.
LEMMA RelAlways ==
    /\ OpsInit => RelInv
    /\ RelInv /\ [OpsNext]_opsVars =>
          RelInv' /\ [Release!AcceptsReceipts]_(Release!releaseVars)
<1>1. OpsInit => RelInv
  BY ReleasePart, RelStart
<1>2. ASSUME RelInv, [OpsNext]_opsVars
      PROVE  RelInv' /\ [Release!AcceptsReceipts]_(Release!releaseVars)
  <2>1. ASSUME UNCHANGED releaseVars
        PROVE  RelInv' /\ UNCHANGED Release!releaseVars
    <3>1. UNCHANGED <<hub, honours, journal, proc, late, seen>>
      BY <2>1 DEF releaseVars
    <3>2. RelInv'
      <4>1. \A q, w, c : Known(q, w, c) => Known(q, w, c)'
        BY <3>1 DEF Known, Backed, Around
      <4>2. \A r : Delayed(r) => Delayed(r)'
        BY <3>1 DEF Delayed
      <4>3. Servers' /\ SenderKnown'
        BY <1>2, <3>1, <4>2 DEF RelInv, Servers, SenderKnown
      <4> QED BY <1>2, <3>1, <4>1, <4>3 DEF RelInv
    <3> QED BY <2>1, <3>2 DEF releaseVars, Release!releaseVars
  <2> QED BY <1>2, <2>1, RelStep, ReleasePart DEF ReceiptsKept
<1> QED BY <1>1, <1>2

\* The update of latest is sent at most once, by any number of publishers that
\* crash and are called again any number of times, whatever requests fail or
\* arrive late and whatever others write (latest_write_attempted, task12.py).
THEOREM LatestIsSentOnce == OpsSpec => []LatestSentOnce
<1>1. RelInv => LatestSentOnce
  BY DEF RelInv, Servers, LatestSentOnce, Release!LatestSentOnce
<1> QED BY <1>1, RelAlways, PTL DEF OpsSpec

\* A version or a latest that is somebody else's is never replaced, not even by
\* a request that arrives late, and whether or not the registry honours
\* conditional writes (_run_version_create_probe, _run_latest_cas_probe).
THEOREM NothingIsOverwritten == OpsSpec => []NothingOverwritten
<1>1. RelInv => NothingOverwritten
  BY DEF RelInv, Servers, NothingOverwritten, Release!NothingOverwritten
<1> QED BY <1>1, RelAlways, PTL DEF OpsSpec

\* No publisher ever offers its journal a checkpoint the journal refuses, on
\* whichever path and after whatever trouble it was called again
\* (_validate_checkpoint_transition, _validate_initial_checkpoint).
THEOREM ReceiptsAlwaysAccepted == OpsSpec => ReceiptsAreAccepted
BY RelAlways, PTL DEF OpsSpec, ReceiptsAreAccepted, Release!ReceiptsAreAccepted
-----------------------------------------------------------------------------
(***************************************************************************)
(* Crashes alone.  While no request failed, nobody else wrote and only one *)
(* publisher has begun, everything public is what this publisher made it,  *)
(* so that its checkpoint and its place tell what the servers hold         *)
(* (CalmCheckpoint, CalmPlace).  After a crash it is the checkpoint that   *)
(* says enough to go on.                                                   *)
(***************************************************************************)

PastLatest == Closing \cup {"latest_made"}
PastRelease == PastLatest \cup {"release_made", "latest", "cas_probe", "cas_rejected",
                                "latest_arm", "latest_send"}
PastSmoke == PastRelease \cup {"release", "release_read"}
Smoking == {"smoke", "smoke_pulled", "smoke_done"}
PastVersion == PastSmoke \cup {"version_made", "retained", "smoke", "smoke_pulled", "smoke_done"}
PastTag == PastVersion \cup {"tag_made", "blob", "have_url", "blob_send", "blob_made", "manifest",
                             "manifest_made", "version", "create_probe", "create_rejected",
                             "version_create"}
PastMain == PastTag \cup {"main_moved", "tag", "tag_ref"}

\* Where the version the publisher read is still the one there.
VersionRead == {"main_read", "main_moved", "tag", "tag_ref", "tag_made", "blob", "have_url",
                "blob_send", "blob_made", "manifest", "manifest_made", "version"}

\* What the throw-away references show in which stage of the probes.
CreateShows(probe, r) ==
    /\ probe.stage \in {"none", "planned"} => r.holds = Release!Absent
    /\ probe.stage = "seed_armed" => r.holds \in {Release!Absent, "winner"}
    /\ probe.stage \in {"reject_armed", "verified"} => r.holds = "winner" /\ r.etag = probe.winner

CasShows(probe, r) ==
    /\ probe.stage \in {"none", "planned"} => r.holds = Release!Absent
    /\ probe.stage = "seed_armed" => r.holds \in {Release!Absent, "prior"}
    /\ probe.stage = "cas_armed" => \/ r.holds = "prior" /\ r.etag = probe.prior
                                    \/ r.holds = "winner" /\ r.etag # probe.prior
    /\ probe.stage \in {"stale_armed", "verified"} =>
          r.holds = "winner" /\ r.etag = probe.winner /\ probe.winner # probe.prior

AllPublic ==
    /\ hub.main = "release" /\ hub.tag = "ours" /\ hub.release = "ours"
    /\ hub.version = "ours" /\ hub.latest = "ours"

\* What a checkpoint says of the servers.
CalmCheckpoint(p, c) ==
    /\ c.runs = hub.runs
    /\ CreateShows(c.create, hub.create[p]) /\ CasShows(c.cas, hub.cas[p])
    /\ hub.version = "ours" => c.create.stage = "verified"
    /\ hub.latest = "ours" => c.attempted
    /\ c.attempted => c.smoke /\ c.create.stage = "verified"
    /\ hub.lock \in {Release!NoOne, p}
    /\ hub.lock = p /\ ~c.acquired => c.object /\ c.phase \in Release!AcquirePhases
    /\ hub.lock = Release!NoOne /\ c.acquired =>
          AllPublic /\ (c.removed \/ c.phase \in Release!RemovalPhases)
    /\ c.removed => hub.lock = Release!NoOne

\* What a publisher's place says of them.
CalmLock(p, w) ==
    /\ w.at \in {"lock_object", "have_object", "lock_ref", "have_lock"} => ~w.cp.acquired
    /\ w.at \in {"lock_object", "have_object"} \/ (w.at = "lock_ref" /\ w.io \in Unsent) =>
          hub.lock = Release!NoOne
    /\ w.at = "have_lock" \/ (w.at = "lock_ref" /\ w.io = "answered") => hub.lock = p
    /\ w.at \notin BeforeLock \cup {"lock_gone"} /\ (w.at = "unlock" => w.io \in Unsent) =>
          hub.lock = p
    /\ w.at = "lock_gone" \/ (w.at = "unlock" /\ w.io = "answered") => hub.lock = Release!NoOne

CalmGit(w) ==
    /\ w.at \in PastMain \/ (w.at = "main_read" /\ w.io = "answered") => hub.main = "release"
    /\ w.at = "main_read" /\ w.state.main # "prior" => hub.main = "release"
    /\ w.at \in {"main_read", "tag"} => w.state.tag = hub.tag
    /\ w.op = "version_tag_object_create" => w.state.tag = Release!Absent
    /\ w.at = "tag_ref" /\ w.io \in Unsent => hub.tag = Release!Absent
    /\ w.at \in PastTag \/ (w.at = "tag_ref" /\ w.io = "answered") => hub.tag = "ours"
    /\ w.at = "release_read" /\ w.io \in Unsent => w.state.release = hub.release
    /\ w.op = "release_create" => w.state.release = Release!Absent
    /\ w.at \in PastRelease \/ (w.at = "release_read" /\ w.io = "answered") =>
          hub.release = "ours"

CalmRegistry(w) ==
    /\ w.at \in VersionRead => w.state.version = hub.version
    /\ w.at = "blob_made" \/ (w.op = "blob_upload_finish" /\ w.io = "answered") => hub.blob
    /\ w.at = "manifest_made" \/ (w.op = "manifest_put" /\ w.io = "answered") => hub.manifest
    /\ w.op = "create_probe_seed" => w.cp.create.stage = "seed_armed"
    /\ w.at \in PastVersion \/ (w.at = "version_create" /\ w.io = "answered") =>
          hub.version = "ours"
    /\ w.at \in PastSmoke => w.cp.smoke
    /\ w.at \in {"release_read", "latest"} => w.state.latest = hub.latest
    /\ w.at \in PastLatest \/ (w.at = "latest_send" /\ w.io = "answered") => hub.latest = "ours"
    /\ w.op = "cas_probe_seed" => w.cp.cas.stage = "seed_armed"
    /\ w.op = "cas_probe_cas" => w.cp.cas.stage = "cas_armed"

CalmPlace(p, w) ==
    /\ w.io # "failed"
    /\ w.io # "none" => w.cp.phase = <<w.op, "pending">>
    /\ CalmLock(p, w) /\ CalmGit(w) /\ CalmRegistry(w)

CalmServers ==
    /\ hub.main \in {"prior", "release"}
    /\ hub.tag \in {Release!Absent, "ours"} /\ hub.release \in {Release!Absent, "ours"}
    /\ hub.version \in {Release!Absent, "ours"}
    /\ hub.latest \in {"prior", "ours"}
    /\ late = {}
    /\ \A p \in Publishers :
          /\ hub.create[p] = [holds |-> hub.create[p].holds, etag |-> hub.create[p].etag]
          /\ hub.cas[p] = [holds |-> hub.cas[p].holds, etag |-> hub.cas[p].etag]
          /\ journal[p] = Release!NoCheckpoint =>
                hub.create[p].holds = Release!Absent /\ hub.cas[p].holds = Release!Absent

AtPeace ==
    /\ CalmServers
    /\ \A p \in Publishers : journal[p] # Release!NoCheckpoint =>
          CalmCheckpoint(p, journal[p]) /\ CalmPlace(p, proc[p])

CalmInv ==
    /\ DOMAIN bill = {"stops", "errors", "foreign"} /\ bill.errors \in Nat /\ bill.foreign \in Nat
    /\ seen.stranded = FALSE
    /\ Release!Undisturbed => AtPeace

\* The same for a publisher between two writes.
RestLock(p, at, c) ==
    /\ at \in {"lock_object", "have_object", "lock_ref", "have_lock"} => ~c.acquired
    /\ at \in {"lock_object", "have_object", "lock_ref", "lock_gone"} => hub.lock = Release!NoOne
    /\ at = "have_lock" \/ at \notin BeforeLock \cup {"lock_gone"} => hub.lock = p

RestGit(at, state) ==
    /\ at \in PastMain => hub.main = "release"
    /\ at = "main_read" /\ state.main # "prior" => hub.main = "release"
    /\ at \in {"main_read", "tag"} => state.tag = hub.tag
    /\ at = "tag_ref" => hub.tag = Release!Absent
    /\ at \in PastTag => hub.tag = "ours"
    /\ at = "release_read" => state.release = hub.release
    /\ at \in PastRelease => hub.release = "ours"

RestRegistry(at, c, state) ==
    /\ at \in VersionRead => state.version = hub.version
    /\ at = "blob_made" => hub.blob
    /\ at = "manifest_made" => hub.manifest
    /\ at \in PastVersion => hub.version = "ours"
    /\ at \in PastSmoke => c.smoke
    /\ at \in {"release_read", "latest"} => state.latest = hub.latest
    /\ at \in PastLatest => hub.latest = "ours"

MayRest(p, at, c, state) == RestLock(p, at, c) /\ RestGit(at, state) /\ RestRegistry(at, c, state)

\* What a step of an undisturbed publisher leaves.
CalmKept == AtPeace' /\ seen'.stranded = FALSE

\* Resting, in both directions.
LEMMA RestIsPlace ==
    ASSUME NEW p, NEW w, NEW at, NEW c, NEW state
    PROVE  Resting(w, at, c, state) => (CalmPlace(p, w) <=> MayRest(p, at, c, state))
<1> SUFFICES ASSUME Resting(w, at, c, state)
             PROVE  CalmPlace(p, w) <=> MayRest(p, at, c, state)
  OBVIOUS
<1>1. w.at = at /\ w.io = "none" /\ w.op = "none" /\ w.cp = c /\ w.state = state
      /\ w.io \in Unsent
  BY DEF Resting, Unsent
<1>2. CalmLock(p, w) <=> RestLock(p, at, c)
  BY <1>1 DEF CalmLock, RestLock, BeforeLock, BeforeObject
<1>3. CalmGit(w) <=> RestGit(at, state)
  BY <1>1 DEF CalmGit, RestGit
<1>4. CalmRegistry(w) <=> RestRegistry(at, c, state)
  BY <1>1 DEF CalmRegistry, RestRegistry
<1> QED BY <1>1, <1>2, <1>3, <1>4 DEF CalmPlace, MayRest

\* What is known of a publisher that runs undisturbed.
LEMMA CalmOf ==
    ASSUME RelInv, AtPeace, NEW p \in Publishers
    PROVE  /\ proc[p].at # "down" =>
                /\ journal[p] # Release!NoCheckpoint /\ proc[p].cp = journal[p]
                /\ Checkpoint(journal[p]) /\ journal[p].phase # NoPhase
           /\ journal[p] # Release!NoCheckpoint =>
                CalmCheckpoint(p, journal[p]) /\ CalmPlace(p, proc[p])
           /\ DOMAIN proc[p] = ProcFields /\ DOMAIN proc = Publishers
           /\ DOMAIN journal = Publishers /\ Process(proc[p]) /\ Around(p, proc[p])
           /\ Release!ComponentsValid(Release!ReadPublicState)
           /\ Release!NoOne # p
<1>1. Release!ComponentsValid(Release!ReadPublicState)
  BY DEF AtPeace, CalmServers, Release!ComponentsValid, Release!ReadPublicState
<1>2. Release!NoOne # p
  BY ReleaseAssumption
<1> QED BY <1>1, <1>2, OfOne DEF AtPeace

\* A publisher that rests where it is.
LEMMA CalmRest ==
    ASSUME RelInv, AtPeace, NEW p \in Publishers, proc[p].at # "down", proc[p].io = "none"
    PROVE  MayRest(p, proc[p].at, journal[p], proc[p].state)
<1>1. Resting(proc[p], proc[p].at, journal[p], proc[p].state)
  BY CalmOf DEF Resting, Process
<1> QED BY <1>1, CalmOf, RestIsPlace

\* A step of one publisher that reaches no server.
LEMMA CalmStep ==
    ASSUME RelInv, AtPeace, seen.stranded = FALSE, NEW p \in Publishers, NEW w, NEW c,
           UNCHANGED <<hub, late>>, proc' = [proc EXCEPT ![p] = w],
           \/ journal' = [journal EXCEPT ![p] = c]
           \/ UNCHANGED journal /\ c = journal[p],
           c # Release!NoCheckpoint, CalmCheckpoint(p, c), CalmPlace(p, w),
           seen'.stranded = FALSE
    PROVE  CalmKept
<1>1. DOMAIN proc = Publishers /\ DOMAIN journal = Publishers
  BY DEF RelInv
<1>2. /\ proc'[p] = w /\ journal'[p] = c
      /\ \A q \in Publishers : q # p => proc'[q] = proc[q] /\ journal'[q] = journal[q]
  BY <1>1
<1>3. CalmServers'
  BY <1>2 DEF AtPeace, CalmServers
<1>4. \A q, d : CalmCheckpoint(q, d) => CalmCheckpoint(q, d)'
  BY DEF CalmCheckpoint, AllPublic
<1>5. \A q, v : CalmPlace(q, v) => CalmPlace(q, v)'
  BY DEF CalmPlace, CalmLock, CalmGit, CalmRegistry
<1>6. \A q \in Publishers : journal'[q] # Release!NoCheckpoint =>
         CalmCheckpoint(q, journal[q])' /\ CalmPlace(q, proc[q])'
  BY <1>2, <1>4, <1>5 DEF AtPeace
<1> QED BY <1>3, <1>6 DEF AtPeace, CalmKept

\* The publisher goes on with the checkpoint it has.
LEMMA CalmGoesOn ==
    ASSUME RelInv, AtPeace, seen.stranded = FALSE, NEW p \in Publishers, NEW next,
           proc[p].at # "down", Release!World, Release!Unrecorded, UNCHANGED seen,
           Release!Moves(p, next, proc[p].cp), MayRest(p, next, journal[p], proc[p].state)
    PROVE  CalmKept
<1>1. journal[p] # Release!NoCheckpoint /\ proc[p].cp = journal[p] /\ CalmCheckpoint(p, journal[p])
  BY CalmOf
<1>2. PICK w : /\ Resting(w, next, proc[p].cp, proc[p].state)
               /\ proc' = [proc EXCEPT ![p] = w]
  BY MovesRests
<1>3. CalmPlace(p, w)
  BY <1>1, <1>2, RestIsPlace
<1>4. UNCHANGED <<hub, late>> /\ UNCHANGED journal /\ seen'.stranded = FALSE
  BY DEF Release!World, Release!Unrecorded
<1> QED BY <1>1, <1>2, <1>3, <1>4, CalmStep

\* The publisher records a new checkpoint and goes on.
LEMMA CalmGoesOnWith ==
    ASSUME RelInv, AtPeace, seen.stranded = FALSE, NEW p \in Publishers, NEW next, NEW c,
           Release!World, Release!Journaled(p, c), UNCHANGED seen,
           Release!Moves(p, next, c), MayRest(p, next, c, proc[p].state),
           CalmCheckpoint(p, c), c.phase # NoPhase
    PROVE  CalmKept
<1>1. PICK w : /\ Resting(w, next, c, proc[p].state)
               /\ proc' = [proc EXCEPT ![p] = w]
  BY MovesRests
<1>2. CalmPlace(p, w)
  BY <1>1, RestIsPlace
<1>3. UNCHANGED <<hub, late>> /\ journal' = [journal EXCEPT ![p] = c] /\ seen'.stranded = FALSE
  BY DEF Release!World, Release!Journaled
<1>4. c # Release!NoCheckpoint
  BY DEF Release!NoCheckpoint, NoPhase
<1> QED BY <1>1, <1>2, <1>3, <1>4, CalmStep

\* The publisher ends as it may.
LEMMA CalmEnds ==
    ASSUME RelInv, AtPeace, seen.stranded = FALSE, NEW p \in Publishers, NEW c,
           Release!World, NEW why \in Release!Expected, Release!Ends(p, why),
           Release!Journaled(p, c) \/ (Release!Unrecorded /\ c = journal[p]),
           CalmCheckpoint(p, c), c # Release!NoCheckpoint
    PROVE  CalmKept
<1>1. UNCHANGED <<hub, late>> /\ proc' = [proc EXCEPT ![p] = Release!NotRunning]
  BY DEF Release!World, Release!Ends
<1>2. \/ journal' = [journal EXCEPT ![p] = c]
      \/ UNCHANGED journal /\ c = journal[p]
  BY DEF Release!Journaled, Release!Unrecorded
<1>3. seen'.stranded = FALSE
  <2>1. DOMAIN seen = {"overwritten", "updates", "stranded"}
    BY DEF RelInv, Servers
  <2> QED BY <2>1 DEF Release!Ends
<1>4. CalmPlace(p, Release!NotRunning)
  BY DEF CalmPlace, CalmLock, CalmGit, CalmRegistry, Release!NotRunning, BeforeLock,
         BeforeObject, PastMain, PastTag, PastVersion, PastSmoke, PastRelease, PastLatest,
         Closing, VersionRead
<1> QED BY <1>1, <1>2, <1>3, <1>4, CalmStep

\* A new phase keeps what a checkpoint says.
LEMMA CalmPhase ==
    ASSUME NEW p, NEW c, Checkpoint(c), CalmCheckpoint(p, c), NEW phase,
           hub.lock = p /\ ~c.acquired => phase \in Release!AcquirePhases,
           hub.lock = Release!NoOne /\ c.acquired => c.removed \/ phase \in Release!RemovalPhases
    PROVE  CalmCheckpoint(p, [c EXCEPT !.phase = phase])
<1> DEFINE d == [c EXCEPT !.phase = phase]
<1>1. /\ d.phase = phase
      /\ d.object = c.object /\ d.acquired = c.acquired /\ d.create = c.create
      /\ d.cas = c.cas /\ d.attempted = c.attempted /\ d.removed = c.removed
      /\ d.smoke = c.smoke /\ d.runs = c.runs
  BY DEF Checkpoint, CheckpointFields
<1> HIDE DEF d
<1>2. CalmCheckpoint(p, d)
  BY <1>1 DEF CalmCheckpoint
<1> QED BY <1>2 DEF d

\* Past the lock the publisher holds it.
LEMMA CalmHolds ==
    ASSUME RelInv, AtPeace, NEW p \in Publishers, proc[p].at \notin BeforeLock \cup {"lock_gone"},
           proc[p].io \in Unsent
    PROVE  Release!HasLock(p) /\ journal[p].acquired /\ hub.lock = p
<1>1. proc[p].at # "down"
  BY DEF BeforeLock, BeforeObject
<1>2. CalmPlace(p, proc[p]) /\ Process(proc[p]) /\ proc[p].cp = journal[p]
  BY <1>1, CalmOf
<1>3. proc[p].cp.acquired
  BY <1>2 DEF Process
<1>4. hub.lock = p
  BY <1>2 DEF CalmPlace, CalmLock
<1> QED BY <1>2, <1>3, <1>4 DEF Release!HasLock

\* What a publisher must know to begin a write.
MayWrite(w, op) ==
    /\ <<w.at, op>> \in Sends
    /\ op = "version_tag_object_create" => w.state.tag = Release!Absent
    /\ op = "release_create" => w.state.release = Release!Absent
    /\ op = "create_probe_seed" => w.cp.create.stage = "seed_armed"
    /\ op = "cas_probe_seed" => w.cp.cas.stage = "seed_armed"
    /\ op = "cas_probe_cas" => w.cp.cas.stage = "cas_armed"

\* A write begins.
LEMMA CalmPending ==
    ASSUME RelInv, AtPeace, seen.stranded = FALSE, NEW p \in Publishers, NEW op, Release!World,
           proc[p].at # "down", proc[p].io = "none",
           Release!WritePending(p, op, proc[p].cp), MayWrite(proc[p], op)
    PROVE  CalmKept
<1> DEFINE w == proc[p]
           c == journal[p]
           d == [c EXCEPT !.phase = <<op, "pending">>]
           v == [w EXCEPT !.cp = d, !.op = op, !.io = "pending"]
<1>1. /\ c # Release!NoCheckpoint /\ w.cp = c /\ Checkpoint(c) /\ CalmCheckpoint(p, c)
      /\ CalmPlace(p, w) /\ DOMAIN w = ProcFields /\ Process(w) /\ Release!NoOne # p
  BY CalmOf
<1>2. /\ UNCHANGED <<hub, late>> /\ journal' = [journal EXCEPT ![p] = d]
      /\ proc' = [proc EXCEPT ![p] = v] /\ seen'.stranded = FALSE
  BY <1>1 DEF Release!World, Release!WritePending, Release!Journaled
<1> HIDE DEF c, w
<1>3. /\ <<w.at, op>> \in Sends /\ w.io = "none" /\ op # "none"
      /\ w.at # "lock_gone"
      /\ w.at \in BeforeLock => w.at \in {"lock_object", "lock_ref"}
  BY DEF MayWrite, Sends, BeforeLock, BeforeObject, w
<1>4. w.at \in BeforeLock => ~c.acquired /\ hub.lock = Release!NoOne
  BY <1>1, <1>3 DEF CalmPlace, CalmLock, Unsent
<1>5. w.at \notin BeforeLock => c.acquired /\ hub.lock = p
  BY <1>1, <1>3 DEF CalmPlace, CalmLock, Process, Unsent
<1>6. CalmCheckpoint(p, d)
  BY <1>1, <1>4, <1>5, CalmPhase
<1>7. d.phase = <<op, "pending">> /\ d.acquired = c.acquired /\ d.create = c.create
      /\ d.cas = c.cas /\ d.smoke = c.smoke
  BY <1>1 DEF Checkpoint, CheckpointFields
<1> HIDE DEF d
<1>8. /\ v.at = w.at /\ v.io = "pending" /\ v.op = op /\ v.cp = d /\ v.state = w.state
  BY <1>1 DEF ProcFields
<1> HIDE DEF v
<1>9. CalmLock(p, v)
  BY <1>1, <1>3, <1>7, <1>8 DEF CalmPlace, CalmLock, Unsent
<1>10. CalmGit(v)
  BY <1>1, <1>3, <1>7, <1>8 DEF CalmPlace, CalmGit, Unsent, MayWrite, w
<1>11. CalmRegistry(v)
  BY <1>1, <1>3, <1>7, <1>8 DEF CalmPlace, CalmRegistry, Unsent, MayWrite, w
<1>12. CalmPlace(p, v)
  BY <1>7, <1>8, <1>9, <1>10, <1>11 DEF CalmPlace
<1>13. d # Release!NoCheckpoint
  BY <1>7 DEF Release!NoCheckpoint
<1> QED BY <1>2, <1>6, <1>12, <1>13, CalmStep

\* A stage that goes on or begins a write.
LEMMA CalmStage ==
    ASSUME RelInv, AtPeace, seen.stranded = FALSE, NEW p \in Publishers, NEW at, NEW todo, NEW op,
           NEW next, Release!Stage(p, at, todo, op, next), at \notin BeforeLock \cup {"lock_gone"},
           todo => MayWrite(proc[p], op),
           ~todo => MayRest(p, next, journal[p], proc[p].state)
    PROVE  CalmKept
<1>1. proc[p].at = at /\ proc[p].io = "none" /\ Release!World /\ at # "down"
  BY DEF Release!Stage, Release!At, BeforeLock, BeforeObject
<1>2. Release!HasLock(p)
  BY <1>1, CalmHolds DEF Unsent
<1>3. CASE todo
  <2>1. Release!WritePending(p, op, proc[p].cp)
    BY <1>2, <1>3 DEF Release!Stage
  <2> QED BY <1>1, <1>3, <2>1, CalmPending
<1>4. CASE ~todo
  <2>1. /\ Release!Unrecorded /\ UNCHANGED seen
        /\ Release!Moves(p, next, proc[p].cp)
    BY <1>2, <1>4 DEF Release!Stage
  <2> QED BY <1>1, <1>4, <2>1, CalmGoesOn
<1> QED BY <1>3, <1>4

\* A stage that finds what it looks for.
LEMMA CalmConfirms ==
    ASSUME RelInv, AtPeace, seen.stranded = FALSE, NEW p \in Publishers, NEW at, NEW wanted,
           NEW next, Release!Confirms(p, at, wanted, next), at # "down", wanted,
           MayRest(p, next, journal[p], proc[p].state)
    PROVE  CalmKept
<1>1. /\ proc[p].at = at /\ Release!World /\ Release!Unrecorded
      /\ UNCHANGED seen /\ Release!Moves(p, next, proc[p].cp)
  BY DEF Release!Confirms, Release!At
<1> QED BY <1>1, CalmGoesOn

\* A stage that reads the public state again and finds what it looks for.
LEMMA CalmReread ==
    ASSUME RelInv, AtPeace, seen.stranded = FALSE, NEW p \in Publishers, NEW at, NEW wanted,
           NEW next, Release!Reread(p, at, wanted, next), at # "down", wanted,
           MayRest(p, next, journal[p], Release!ReadPublicState)
    PROVE  CalmKept
<1> DEFINE state == Release!ReadPublicState
           w == [proc[p] EXCEPT !.at = next, !.state = state]
<1>1. proc[p].at = at /\ proc[p].io = "none" /\ Release!World /\ Release!Unrecorded
  BY DEF Release!Reread, Release!At
<1>2. /\ journal[p] # Release!NoCheckpoint /\ proc[p].cp = journal[p]
      /\ CalmCheckpoint(p, journal[p]) /\ DOMAIN proc[p] = ProcFields /\ Process(proc[p])
      /\ Release!ComponentsValid(state)
  BY <1>1, CalmOf
<1>3. UNCHANGED seen /\ proc' = [proc EXCEPT ![p] = w]
  BY <1>2 DEF Release!Reread
<1> HIDE DEF state
<1>4. Resting(w, next, journal[p], state)
  <2>1. proc[p].op = "none"
    BY <1>1, <1>2 DEF Process
  <2> QED BY <1>1, <1>2, <2>1 DEF Resting, ProcFields
<1> HIDE DEF w
<1>5. CalmPlace(p, w)
  BY <1>4, RestIsPlace DEF state
<1>6. UNCHANGED <<hub, late>> /\ UNCHANGED journal /\ seen'.stranded = FALSE
  BY <1>1, <1>3 DEF Release!World, Release!Unrecorded
<1> QED BY <1>2, <1>3, <1>5, <1>6, CalmStep

\* The public state as it is read.
LEMMA ReadsAll ==
    LET state == Release!ReadPublicState
    IN  /\ state.main = hub.main /\ state.tag = hub.tag /\ state.release = hub.release
        /\ state.version = hub.version /\ state.latest = hub.latest /\ state.lock = hub.lock
BY DEF Release!ReadPublicState

\* MainFastForward, VersionTag, RegistryBlob and RegistryManifest.
LEMMA CalmEarly ==
    ASSUME RelInv, AtPeace, seen.stranded = FALSE, NEW p \in Publishers,
           \/ Release!MainFastForward(p) \/ Release!VersionTag(p)
           \/ Release!RegistryBlob(p) \/ Release!RegistryManifest(p)
    PROVE  CalmKept
<1> DEFINE w == proc[p]
           at == w.at
           state == w.state
           c == journal[p]
           fresh == Release!ReadPublicState
<1>0. /\ at \in {"main", "main_read", "main_moved", "tag", "tag_ref", "tag_made", "blob",
                 "have_url", "blob_send", "blob_made", "manifest", "manifest_made"}
      /\ w.io = "none"
  BY DEF Release!MainFastForward, Release!VersionTag, Release!RegistryBlob,
         Release!RegistryManifest, Release!Reread, Release!Stage, Release!Notes,
         Release!Confirms, Release!At
<1>1. /\ at # "down" /\ at \notin BeforeLock \cup {"lock_gone"}
  BY <1>0 DEF BeforeLock, BeforeObject
<1>2. w.cp = c /\ Checkpoint(c) /\ c.phase # NoPhase /\ CalmCheckpoint(p, c) /\ CalmServers
      /\ hub.lock = p /\ MayRest(p, at, c, state)
  BY <1>0, <1>1, CalmOf, CalmRest, CalmHolds DEF Unsent, AtPeace
<1>3. /\ at \in PastMain => hub.main = "release"
      /\ at = "main_read" /\ state.main # "prior" => hub.main = "release"
      /\ at \in {"main_read", "tag"} => state.tag = hub.tag
      /\ at = "tag_ref" => hub.tag = Release!Absent
      /\ at \in PastTag => hub.tag = "ours"
      /\ at \in VersionRead => state.version = hub.version
      /\ at = "blob_made" => hub.blob
      /\ at = "manifest_made" => hub.manifest
      /\ hub.main \in {"prior", "release"} /\ hub.tag \in {Release!Absent, "ours"}
  BY <1>2 DEF MayRest, RestGit, RestRegistry, CalmServers
<1>4. /\ fresh.main = hub.main /\ fresh.tag = hub.tag /\ fresh.version = hub.version
  BY ReadsAll
<1>5. \A s, d : s.version = hub.version =>
        /\ s.tag = hub.tag /\ (s.main # "prior" => hub.main = "release") =>
              MayRest(p, "main_read", d, s)
        /\ hub.main = "release" /\ s.tag = hub.tag => MayRest(p, "tag", d, s)
        /\ hub.main = "release" /\ hub.tag = "ours" =>
              /\ MayRest(p, "blob", d, s) /\ MayRest(p, "blob_send", d, s)
              /\ MayRest(p, "manifest", d, s) /\ MayRest(p, "version", d, s)
  BY <1>2 DEF MayRest, RestLock, RestGit, RestRegistry, BeforeLock, BeforeObject,
         PastMain, PastTag, PastVersion, PastSmoke, PastRelease, PastLatest, Closing, VersionRead
<1>6. CASE Release!MainFastForward(p)
  <2>1. CASE Release!Reread(p, "main", TRUE, "main_read")
    <3>1. MayRest(p, "main_read", c, fresh)
      BY <1>3, <1>4, <1>5
    <3> QED BY <2>1, <3>1, CalmReread
  <2>2. CASE Release!Stage(p, "main_read", state.main = "prior", "main_fast_forward", "tag")
    <3>0. at = "main_read"
      BY <2>2 DEF Release!Stage, Release!At
    <3>1. state.main # "prior" => MayRest(p, "tag", c, state)
      BY <1>3, <1>5, <3>0 DEF VersionRead
    <3>2. MayWrite(w, "main_fast_forward")
      BY <3>0 DEF MayWrite, Sends
    <3> QED BY <1>1, <2>2, <3>0, <3>1, <3>2, CalmStage
  <2>3. CASE Release!Reread(p, "main_moved", hub.main = "release", "tag")
    <3>0. at = "main_moved"
      BY <2>3 DEF Release!Reread, Release!At
    <3>1. hub.main = "release"
      BY <1>3, <3>0 DEF PastMain
    <3>2. MayRest(p, "tag", c, fresh)
      BY <1>4, <1>5, <3>1
    <3> QED BY <2>3, <3>1, <3>2, CalmReread
  <2> QED BY <1>6, <2>1, <2>2, <2>3 DEF Release!MainFastForward
<1>7. CASE Release!VersionTag(p)
  <2>1. CASE Release!Stage(p, "tag", state.tag = Release!Absent, "version_tag_object_create", "blob")
    <3>0. at = "tag"
      BY <2>1 DEF Release!Stage, Release!At
    <3>1. state.tag # Release!Absent => MayRest(p, "blob", c, state)
      BY <1>3, <1>5, <3>0 DEF VersionRead, PastMain
    <3>2. state.tag = Release!Absent => MayWrite(w, "version_tag_object_create")
      BY <3>0 DEF MayWrite, Sends
    <3> QED BY <1>1, <2>1, <3>0, <3>1, <3>2, CalmStage
  <2>2. CASE Release!At(p, "tag_ref") /\ Release!World
             /\ Release!WritePending(p, "version_tag_ref_create", proc[p].cp)
    <3>1. MayWrite(w, "version_tag_ref_create")
      BY <2>2 DEF MayWrite, Sends, Release!At
    <3> QED BY <1>0, <1>1, <2>2, <3>1, CalmPending
  <2>3. CASE Release!Reread(p, "tag_made", hub.tag = "ours", "blob")
    <3>0. at = "tag_made"
      BY <2>3 DEF Release!Reread, Release!At
    <3>1. hub.tag = "ours" /\ hub.main = "release"
      BY <1>3, <3>0 DEF PastTag, PastMain
    <3>2. MayRest(p, "blob", c, fresh)
      BY <1>4, <1>5, <3>1
    <3> QED BY <2>3, <3>1, <3>2, CalmReread
  <2> QED BY <1>7, <2>1, <2>2, <2>3 DEF Release!VersionTag
<1>8. at \in {"blob", "have_url", "blob_send", "blob_made", "manifest", "manifest_made"} =>
        \A d : /\ MayRest(p, "manifest", d, state) /\ MayRest(p, "version", d, state)
               /\ MayRest(p, "blob_send", d, state)
  BY <1>3, <1>5 DEF PastTag, PastMain, VersionRead
<1>9. CASE Release!RegistryBlob(p)
  <2>1. CASE Release!Stage(p, "blob", ~hub.blob, IF proc[p].cp.url THEN "blob_upload_finish"
                                                 ELSE "blob_upload_start", "manifest")
    <3>1. PICK op \in {"blob_upload_finish", "blob_upload_start"} :
             Release!Stage(p, "blob", ~hub.blob, op, "manifest")
      BY <2>1
    <3>2. at = "blob"
      BY <2>1 DEF Release!Stage, Release!At
    <3>3. MayWrite(w, op)
      BY <3>2 DEF MayWrite, Sends
    <3> QED BY <1>1, <1>8, <3>1, <3>2, <3>3, CalmStage
  <2>2. CASE Release!Notes(p, "have_url", [proc[p].cp EXCEPT !.url = TRUE], "blob_send")
    <3> DEFINE d == [c EXCEPT !.url = TRUE]
    <3>1. /\ Release!World /\ Release!Journaled(p, d) /\ UNCHANGED seen
          /\ Release!Moves(p, "blob_send", d) /\ at = "have_url"
      BY <1>2, <2>2 DEF Release!Notes, Release!At
    <3> HIDE DEF c
    <3>2. /\ d.phase = c.phase /\ d.create = c.create /\ d.cas = c.cas /\ d.smoke = c.smoke
          /\ d.object = c.object /\ d.acquired = c.acquired /\ d.removed = c.removed
          /\ d.attempted = c.attempted /\ d.runs = c.runs
      BY <1>2 DEF Checkpoint, CheckpointFields
    <3> HIDE DEF d
    <3>3. CalmCheckpoint(p, d)
      BY <1>2, <3>2 DEF CalmCheckpoint
    <3>4. MayRest(p, "blob_send", d, state)
      BY <1>8, <3>1
    <3> QED BY <1>2, <3>1, <3>2, <3>3, <3>4, CalmGoesOnWith
  <2>3. CASE Release!At(p, "blob_send") /\ Release!World
             /\ Release!WritePending(p, "blob_upload_finish", proc[p].cp)
    <3>1. MayWrite(w, "blob_upload_finish")
      BY <2>3 DEF MayWrite, Sends, Release!At
    <3> QED BY <1>0, <1>1, <2>3, <3>1, CalmPending
  <2>4. CASE Release!Confirms(p, "blob_made", hub.blob, "manifest")
    <3>1. at = "blob_made" /\ hub.blob
      BY <1>3, <2>4 DEF Release!Confirms, Release!At
    <3> QED BY <1>8, <2>4, <3>1, CalmConfirms
  <2> QED BY <1>9, <2>1, <2>2, <2>3, <2>4 DEF Release!RegistryBlob
<1>10. CASE Release!RegistryManifest(p)
  <2>1. CASE Release!Stage(p, "manifest", ~hub.manifest, "manifest_put", "version")
    <3>1. at = "manifest"
      BY <2>1 DEF Release!Stage, Release!At
    <3>2. MayWrite(w, "manifest_put")
      BY <3>1 DEF MayWrite, Sends
    <3> QED BY <1>1, <1>8, <2>1, <3>1, <3>2, CalmStage
  <2>2. CASE Release!Confirms(p, "manifest_made", hub.manifest, "version")
    <3>1. at = "manifest_made" /\ hub.manifest
      BY <1>3, <2>2 DEF Release!Confirms, Release!At
    <3> QED BY <1>8, <2>2, <3>1, CalmConfirms
  <2> QED BY <1>10, <2>1, <2>2 DEF Release!RegistryManifest
<1> QED BY <1>6, <1>7, <1>9, <1>10

\* A publisher between two writes, past the lock.
LEMMA CalmPast ==
    ASSUME RelInv, AtPeace, NEW p \in Publishers, proc[p].at \notin BeforeLock \cup {"lock_gone"},
           proc[p].io = "none"
    PROVE  /\ proc[p].at # "down" /\ proc[p].cp = journal[p] /\ Checkpoint(journal[p])
           /\ journal[p].phase # NoPhase /\ journal[p] # Release!NoCheckpoint
           /\ CalmCheckpoint(p, journal[p]) /\ CalmServers /\ journal[p].acquired
           /\ hub.lock = p /\ Release!HasLock(p) /\ Process(proc[p])
           /\ MayRest(p, proc[p].at, journal[p], proc[p].state)
<1>1. proc[p].at # "down"
  BY DEF BeforeLock, BeforeObject
<1> QED BY <1>1, CalmOf, CalmRest, CalmHolds DEF Unsent, AtPeace

\* Where such a publisher may go on, by what is public.
LEMMA RestsLater ==
    ASSUME NEW p, NEW c, NEW state, hub.lock = p, hub.main = "release", hub.tag = "ours"
    PROVE  /\ MayRest(p, "create_probe", c, state) /\ MayRest(p, "version_create", c, state)
           /\ hub.version = "ours" =>
                /\ MayRest(p, "retained", c, state) /\ MayRest(p, "smoke", c, state)
                /\ MayRest(p, "smoke_pulled", c, state) /\ MayRest(p, "smoke_done", c, state)
                /\ c.smoke =>
                     /\ MayRest(p, "release", c, state)
                     /\ state.release = hub.release /\ state.latest = hub.latest =>
                          MayRest(p, "release_read", c, state)
                     /\ hub.release = "ours" =>
                          /\ state.latest = hub.latest => MayRest(p, "latest", c, state)
                          /\ MayRest(p, "cas_probe", c, state) /\ MayRest(p, "latest_arm", c, state)
                          /\ MayRest(p, "latest_send", c, state)
                          /\ hub.latest = "ours" =>
                               MayRest(p, "evidence", c, state) /\ MayRest(p, "unlock", c, state)
BY DEF MayRest, RestLock, RestGit, RestRegistry, BeforeLock, BeforeObject, PastMain, PastTag,
       PastVersion, PastSmoke, PastRelease, PastLatest, Closing, VersionRead

\* What is public where such a publisher is.
LEMMA PublicAt ==
    ASSUME NEW p, NEW at, NEW c, NEW state, MayRest(p, at, c, state)
    PROVE  /\ at \in PastMain => hub.main = "release"
           /\ at \in PastTag => hub.main = "release" /\ hub.tag = "ours"
           /\ at \in VersionRead => state.version = hub.version
           /\ at \in PastVersion => hub.main = "release" /\ hub.tag = "ours" /\ hub.version = "ours"
           /\ at \in PastSmoke => /\ hub.main = "release" /\ hub.tag = "ours" /\ hub.version = "ours"
                                  /\ c.smoke
           /\ at = "release_read" => state.release = hub.release
           /\ at \in {"release_read", "latest"} => state.latest = hub.latest
           /\ at \in PastRelease => hub.release = "ours"
           /\ at \in PastLatest => hub.latest = "ours"
BY DEF MayRest, RestGit, RestRegistry, PastMain, PastTag, PastVersion, PastSmoke, PastRelease, PastLatest

\* A checkpoint that grows while the lock is held still says what is there.
LEMMA CalmGrows ==
    ASSUME NEW p \in Publishers, NEW c, NEW d, CalmCheckpoint(p, c), hub.lock = p, d.acquired,
           d.runs = c.runs, d.removed = c.removed,
           CreateShows(d.create, hub.create[p]), CasShows(d.cas, hub.cas[p]),
           c.create.stage = "verified" => d.create.stage = "verified",
           c.attempted => d.attempted, d.attempted => d.smoke /\ d.create.stage = "verified"
    PROVE  CalmCheckpoint(p, d)
<1>1. p # Release!NoOne
  BY ReleaseAssumption
<1> QED BY <1>1 DEF CalmCheckpoint

\* RegistryVersion.
LEMMA CalmVersion ==
    ASSUME RelInv, AtPeace, seen.stranded = FALSE, NEW p \in Publishers, Release!RegistryVersion(p)
    PROVE  CalmKept
<1> DEFINE w == proc[p]
           c == journal[p]
<1>0. w.at \in {"version", "version_create", "version_made", "retained"} /\ w.io = "none"
  BY DEF Release!RegistryVersion, Release!Stage, Release!Reread, Release!Confirms, Release!At
<1>1. w.at \notin BeforeLock \cup {"lock_gone"} /\ w.at \in PastTag
  BY <1>0 DEF BeforeLock, BeforeObject, PastTag, PastVersion
<1>2. /\ w.at # "down" /\ w.cp = c /\ CalmCheckpoint(p, c) /\ CalmServers
      /\ hub.lock = p /\ Release!HasLock(p) /\ MayRest(p, w.at, c, w.state)
  BY <1>0, <1>1, CalmPast
<1>3. hub.main = "release" /\ hub.tag = "ours"
  BY <1>1, <1>2, PublicAt
<1>4. CASE /\ Release!At(p, "version") /\ Release!World /\ Release!Unrecorded
           /\ Release!Moves(p, IF w.state.version = Release!Absent THEN "create_probe"
                               ELSE "retained", w.cp)
           /\ UNCHANGED seen
  <2>1. w.at = "version" /\ w.state.version = hub.version
    BY <1>2, <1>4, PublicAt DEF Release!At, VersionRead
  <2>2. hub.version \in {Release!Absent, "ours"}
    BY <1>2 DEF CalmServers
  <2> DEFINE next == IF w.state.version = Release!Absent THEN "create_probe" ELSE "retained"
  <2>3. MayRest(p, next, c, w.state)
    BY <1>2, <1>3, <2>1, <2>2, RestsLater
  <2>4. Release!Moves(p, next, w.cp)
    BY <1>4
  <2> HIDE DEF next
  <2> QED BY <1>2, <1>4, <2>3, <2>4, CalmGoesOn
<1>5. CASE Release!Stage(p, "version_create", TRUE, "version_create", "none")
  <2>1. w.at = "version_create"
    BY <1>5 DEF Release!Stage, Release!At
  <2>2. MayWrite(w, "version_create")
    BY <2>1 DEF MayWrite, Sends
  <2> QED BY <1>1, <1>5, <2>1, <2>2, CalmStage
<1>6. CASE Release!Reread(p, "version_made", hub.version = "ours", "retained")
  <2>1. w.at = "version_made"
    BY <1>6 DEF Release!Reread, Release!At
  <2>2. hub.version = "ours"
    BY <1>2, <2>1, PublicAt DEF PastVersion
  <2>3. MayRest(p, "retained", c, Release!ReadPublicState)
    BY <1>2, <1>3, <2>2, RestsLater
  <2> QED BY <1>6, <2>2, <2>3, CalmReread
<1>7. CASE Release!Confirms(p, "retained", Release!Retained(proc[p].cp.create, hub.create[p]), "smoke")
  <2>1. w.at = "retained"
    BY <1>7 DEF Release!Confirms, Release!At
  <2>2. hub.version = "ours"
    BY <1>2, <2>1, PublicAt DEF PastVersion
  <2>3. Release!Retained(proc[p].cp.create, hub.create[p])
    BY <1>2, <2>2 DEF CalmCheckpoint, CreateShows, Release!Retained
  <2>4. MayRest(p, "smoke", c, w.state)
    BY <1>2, <1>3, <2>2, RestsLater
  <2> QED BY <1>7, <2>3, <2>4, CalmConfirms
<1> QED BY <1>2, <1>4, <1>5, <1>6, <1>7 DEF Release!RegistryVersion

\* AnonymousPullSmoke and GithubRelease.
LEMMA CalmRelease ==
    ASSUME RelInv, AtPeace, seen.stranded = FALSE, NEW p \in Publishers,
           Release!AnonymousPullSmoke(p) \/ Release!GithubRelease(p)
    PROVE  CalmKept
<1> DEFINE w == proc[p]
           c == journal[p]
           fresh == Release!ReadPublicState
<1>0. w.at \in Smoking \cup {"release", "release_read", "release_made"} /\ w.io = "none"
      /\ Release!World
  BY DEF Release!AnonymousPullSmoke, Release!GithubRelease, Release!Reread, Release!At,
         Release!SmokePull, Release!SmokeDelete, Release!SmokeRecord, Release!Notes, Smoking
<1>1. w.at \notin BeforeLock \cup {"lock_gone"} /\ w.at \in PastVersion
      /\ (w.at \notin Smoking => w.at \in PastSmoke)
  BY <1>0 DEF BeforeLock, BeforeObject, PastVersion, PastSmoke, PastRelease, Smoking
<1>2. /\ w.at # "down" /\ w.cp = c /\ CalmCheckpoint(p, c) /\ CalmServers /\ Checkpoint(c)
      /\ hub.lock = p /\ Release!HasLock(p) /\ MayRest(p, w.at, c, w.state)
      /\ c.acquired
  BY <1>0, <1>1, CalmPast
<1>3. hub.main = "release" /\ hub.tag = "ours" /\ hub.version = "ours"
      /\ (w.at \notin Smoking => c.smoke)
  BY <1>1, <1>2, PublicAt
<1>4. fresh.release = hub.release /\ fresh.latest = hub.latest
  BY ReadsAll
<1>11. CASE Release!SmokePull(p)
  <2>1. CASE Release!Ends(p, "residue") /\ Release!Unrecorded
    <3>1. c # Release!NoCheckpoint /\ "residue" \in Release!Expected
      BY <1>2, CalmOf DEF Release!Expected
    <3> QED BY <1>0, <1>2, <2>1, <3>1, CalmEnds
  <2>2. CASE Release!Moves(p, "smoke_pulled", w.cp) /\ UNCHANGED seen /\ Release!Unrecorded
    <3>1. MayRest(p, "smoke_pulled", c, w.state)
      BY <1>2, <1>3, RestsLater
    <3> QED BY <1>0, <1>2, <2>2, <3>1, CalmGoesOn
  <2> QED BY <1>2, <1>3, <1>11, <2>1, <2>2 DEF Release!SmokePull
<1>10. CASE Release!SmokeDelete(p)
  <2>1. MayRest(p, "smoke_done", c, w.state)
    BY <1>2, <1>3, RestsLater
  <2> QED BY <1>0, <1>2, <1>10, <2>1, CalmGoesOn DEF Release!SmokeDelete
<1>5. CASE Release!SmokeRecord(p)
  <2> DEFINE d1 == [c EXCEPT !.smoke = TRUE]
             d == [d1 EXCEPT !.phase = <<"smoke", "verified">>]
  <2>1. Release!Journaled(p, d) /\ Release!Moves(p, "release", d) /\ UNCHANGED seen
    BY <1>2, <1>5 DEF Release!SmokeRecord, Release!Notes
  <2> HIDE DEF c
  <2>2. /\ d.phase = <<"smoke", "verified">> /\ d.smoke = TRUE /\ d.create = c.create
        /\ d.cas = c.cas /\ d.acquired = c.acquired /\ d.removed = c.removed
        /\ d.attempted = c.attempted /\ d.runs = c.runs
    BY <1>2 DEF Checkpoint, CheckpointFields
  <2> HIDE DEF d
  <2>3. CreateShows(c.create, hub.create[p]) /\ CasShows(c.cas, hub.cas[p])
        /\ (c.attempted => c.create.stage = "verified")
    BY <1>2 DEF CalmCheckpoint
  <2>4. CalmCheckpoint(p, d)
    BY <1>2, <2>2, <2>3, CalmGrows
  <2>5. MayRest(p, "release", d, w.state)
    BY <1>2, <1>3, <2>2, RestsLater
  <2>6. d.phase # NoPhase
    BY <2>2 DEF NoPhase
  <2> QED BY <1>0, <2>1, <2>4, <2>5, <2>6, CalmGoesOnWith
<1>6. CASE Release!Reread(p, "release", Release!HasLock(p), "release_read")
  <2>1. w.at = "release"
    BY <1>6 DEF Release!Reread, Release!At
  <2>2. MayRest(p, "release_read", c, fresh)
    BY <1>2, <1>3, <1>4, <2>1, RestsLater DEF Smoking
  <2> QED BY <1>2, <1>6, <2>2, CalmReread
<1>7. CASE /\ w.at = "release_read" /\ w.state.release = Release!Absent
           /\ Release!WritePending(p, "release_create", w.cp)
  <2>1. MayWrite(w, "release_create")
    BY <1>7 DEF MayWrite, Sends
  <2> QED BY <1>0, <1>2, <1>7, <2>1, CalmPending
<1>8. CASE /\ w.at = "release_read" /\ w.state.release # Release!Absent
           /\ Release!Unrecorded /\ Release!Moves(p, "latest", w.cp) /\ UNCHANGED seen
  <2>1. w.state.release = hub.release /\ w.state.latest = hub.latest
    BY <1>2, <1>8, PublicAt
  <2>2. hub.release = "ours"
    BY <1>2, <1>8, <2>1 DEF CalmServers
  <2>3. MayRest(p, "latest", c, w.state)
    BY <1>2, <1>3, <1>8, <2>1, <2>2, RestsLater DEF Smoking
  <2> QED BY <1>0, <1>2, <1>8, <2>3, CalmGoesOn
<1>9. CASE Release!Reread(p, "release_made", hub.release = "ours", "latest")
  <2>1. w.at = "release_made"
    BY <1>9 DEF Release!Reread, Release!At
  <2>2. hub.release = "ours"
    BY <1>2, <2>1, PublicAt DEF PastRelease
  <2>3. MayRest(p, "latest", c, fresh)
    BY <1>2, <1>3, <1>4, <2>1, <2>2, RestsLater DEF Smoking
  <2> QED BY <1>9, <2>2, <2>3, CalmReread
<1> QED BY <1>5, <1>6, <1>7, <1>8, <1>9, <1>10, <1>11
        DEF Release!GithubRelease, Release!At, Release!AnonymousPullSmoke

\* A probe's receipt moves to its next stage.
LEMMA ArmedSays ==
    ASSUME RelInv, AtPeace, NEW p \in Publishers, proc[p].at \notin BeforeLock \cup {"lock_gone"},
           proc[p].io = "none", NEW probe
    PROVE  /\ CreateShows(probe, hub.create[p]) /\ journal[p].create.stage # "verified" =>
                LET d == Release!Armed(p, "create", probe)
                IN  CalmCheckpoint(p, d) /\ d.phase # NoPhase /\ d.smoke = journal[p].smoke
           /\ CasShows(probe, hub.cas[p]) =>
                LET d == Release!Armed(p, "cas", probe)
                IN  CalmCheckpoint(p, d) /\ d.phase # NoPhase /\ d.smoke = journal[p].smoke
<1> DEFINE c == journal[p]
<1>1. proc[p].cp = c /\ Checkpoint(c) /\ CalmCheckpoint(p, c) /\ c.acquired /\ hub.lock = p
  BY CalmPast
<1>2. /\ CreateShows(c.create, hub.create[p]) /\ CasShows(c.cas, hub.cas[p])
      /\ c.attempted => c.smoke /\ c.create.stage = "verified"
  BY <1>1 DEF CalmCheckpoint
<1>3. ASSUME CreateShows(probe, hub.create[p]), c.create.stage # "verified"
      PROVE  LET d == Release!Armed(p, "create", probe)
             IN  CalmCheckpoint(p, d) /\ d.phase # NoPhase /\ d.smoke = c.smoke
  <2> DEFINE d1 == [c EXCEPT !.create = probe]
             d == [d1 EXCEPT !.phase = <<"create", probe.stage>>]
  <2>1. Release!Armed(p, "create", probe) = d
    BY <1>1 DEF Release!Armed
  <2> HIDE DEF c
  <2>2. /\ d.phase = <<"create", probe.stage>> /\ d.smoke = c.smoke /\ d.create = probe
        /\ d.cas = c.cas /\ d.acquired = c.acquired /\ d.removed = c.removed
        /\ d.attempted = c.attempted /\ d.runs = c.runs
    BY <1>1 DEF Checkpoint, CheckpointFields
  <2> HIDE DEF d
  <2>3. CalmCheckpoint(p, d)
    BY <1>1, <1>2, <1>3, <2>2, CalmGrows
  <2> QED BY <2>1, <2>2, <2>3 DEF NoPhase
<1>4. ASSUME CasShows(probe, hub.cas[p])
      PROVE  LET d == Release!Armed(p, "cas", probe)
             IN  CalmCheckpoint(p, d) /\ d.phase # NoPhase /\ d.smoke = c.smoke
  <2> DEFINE d1 == [c EXCEPT !.cas = probe]
             d == [d1 EXCEPT !.phase = <<"cas", probe.stage>>]
  <2>1. Release!Armed(p, "cas", probe) = d
    BY <1>1 DEF Release!Armed
  <2> HIDE DEF c
  <2>2. /\ d.phase = <<"cas", probe.stage>> /\ d.smoke = c.smoke /\ d.cas = probe
        /\ d.create = c.create /\ d.acquired = c.acquired /\ d.removed = c.removed
        /\ d.attempted = c.attempted /\ d.runs = c.runs
    BY <1>1 DEF Checkpoint, CheckpointFields
  <2> HIDE DEF d
  <2>3. CalmCheckpoint(p, d)
    BY <1>1, <1>2, <1>4, <2>2, CalmGrows
  <2> QED BY <2>1, <2>2, <2>3 DEF NoPhase
<1> QED BY <1>3, <1>4

\* CreateProbe: the reference shows what the stage of the receipt says.
LEMMA CalmCreateProbe ==
    ASSUME RelInv, AtPeace, seen.stranded = FALSE, NEW p \in Publishers, Release!CreateProbe(p)
    PROVE  CalmKept
<1> DEFINE w == proc[p]
           c == w.cp
           probe == c.create
           reference == hub.create[p]
<1>0. w.at = "create_probe" /\ w.io = "none" /\ Release!World
  BY DEF Release!CreateProbe, Release!At
<1>1. w.at \notin BeforeLock \cup {"lock_gone"} /\ w.at \in PastTag
  BY <1>0 DEF BeforeLock, BeforeObject, PastTag
<1>2. /\ w.at # "down" /\ c = journal[p] /\ CalmCheckpoint(p, c) /\ Checkpoint(c)
      /\ hub.lock = p /\ Release!HasLock(p) /\ MayRest(p, w.at, c, w.state)
  BY <1>0, <1>1, CalmPast
<1>3. hub.main = "release" /\ hub.tag = "ours"
  BY <1>1, <1>2, PublicAt
<1>4. /\ CreateShows(probe, reference) /\ CreateKept(probe)
      /\ c.attempted => probe.stage = "verified"
  BY <1>2 DEF CalmCheckpoint, Checkpoint
<1>5. ASSUME NEW n, CreateShows(n, reference), probe.stage # "verified",
             Release!Journaled(p, Release!Armed(p, "create", n)), UNCHANGED seen,
             Release!Moves(p, "create_probe", Release!Armed(p, "create", n))
      PROVE  CalmKept
  <2> DEFINE d == Release!Armed(p, "create", n)
  <2>1. CalmCheckpoint(p, d) /\ d.phase # NoPhase
    BY <1>0, <1>1, <1>2, <1>4, <1>5, ArmedSays
  <2>2. Release!Journaled(p, d) /\ Release!Moves(p, "create_probe", d)
    BY <1>5
  <2> HIDE DEF d
  <2>3. MayRest(p, "create_probe", d, w.state)
    BY <1>2, <1>3, RestsLater
  <2> QED BY <1>0, <1>5, <2>1, <2>2, <2>3, CalmGoesOnWith
<1>6. CASE probe.stage = "none"
  <2> DEFINE n == [probe EXCEPT !.stage = "planned"]
  <2>1. /\ Release!Journaled(p, Release!Armed(p, "create", n)) /\ UNCHANGED seen
        /\ Release!Moves(p, "create_probe", Release!Armed(p, "create", n))
    BY <1>6 DEF Release!CreateProbe
  <2>2. CreateShows(n, reference)
    BY <1>4, <1>6 DEF CreateShows, CreateKept, ProbeFields
  <2> HIDE DEF n
  <2> QED BY <1>5, <1>6, <2>1, <2>2
<1>7. CASE probe.stage = "planned"
  <2> DEFINE n == [probe EXCEPT !.stage = "seed_armed"]
  <2>0. reference.holds = Release!Absent
    BY <1>4, <1>7 DEF CreateShows
  <2>1. /\ Release!Journaled(p, Release!Armed(p, "create", n)) /\ UNCHANGED seen
        /\ Release!Moves(p, "create_probe", Release!Armed(p, "create", n))
    BY <1>7, <2>0 DEF Release!CreateProbe
  <2>2. CreateShows(n, reference)
    BY <1>4, <1>7 DEF CreateShows, CreateKept, ProbeFields
  <2> HIDE DEF n
  <2> QED BY <1>5, <1>7, <2>1, <2>2
<1>8. CASE probe.stage = "seed_armed" /\ reference.holds = Release!Absent
  <2>1. Release!WritePending(p, "create_probe_seed", c)
    BY <1>2, <1>8 DEF Release!CreateProbe, Release!Absent
  <2>2. MayWrite(w, "create_probe_seed")
    BY <1>0, <1>8 DEF MayWrite, Sends
  <2> QED BY <1>0, <1>2, <2>1, <2>2, CalmPending
<1>9. CASE probe.stage = "seed_armed" /\ reference.holds = "winner"
  <2> DEFINE n == [probe EXCEPT !.stage = "reject_armed", !.winner = reference.etag]
  <2>1. /\ Release!Journaled(p, Release!Armed(p, "create", n)) /\ UNCHANGED seen
        /\ Release!Moves(p, "create_probe", Release!Armed(p, "create", n))
    BY <1>9 DEF Release!CreateProbe, Release!Absent
  <2>2. CreateShows(n, reference)
    BY <1>4, <1>9 DEF CreateShows, CreateKept, ProbeFields
  <2> HIDE DEF n
  <2> QED BY <1>5, <1>9, <2>1, <2>2
<1>10. CASE probe.stage = "reject_armed"
  <2>0. reference.holds = "winner" /\ reference.etag = probe.winner
    BY <1>4, <1>10 DEF CreateShows
  <2>1. Release!WritePending(p, "create_probe_reject", c)
    BY <1>2, <1>10, <2>0 DEF Release!CreateProbe
  <2>2. MayWrite(w, "create_probe_reject")
    BY <1>0 DEF MayWrite, Sends
  <2> QED BY <1>0, <1>2, <2>1, <2>2, CalmPending
<1>11. CASE probe.stage = "verified"
  <2>0. Release!Retained(probe, reference)
    BY <1>4, <1>11 DEF CreateShows, Release!Retained
  <2>1. Release!Unrecorded /\ Release!Moves(p, "version_create", c) /\ UNCHANGED seen
    BY <1>11, <2>0 DEF Release!CreateProbe
  <2>2. MayRest(p, "version_create", c, w.state)
    BY <1>2, <1>3, RestsLater
  <2> QED BY <1>0, <1>2, <2>1, <2>2, CalmGoesOn
<1>12. probe.stage \in {"none", "planned", "seed_armed", "reject_armed", "verified"}
      /\ (probe.stage = "seed_armed" => reference.holds \in {Release!Absent, "winner"})
  BY <1>4 DEF CreateKept, CreateShows
<1> QED BY <1>6, <1>7, <1>8, <1>9, <1>10, <1>11, <1>12

\* CreateRejected: the second create changed nothing.
LEMMA CalmCreateRejected ==
    ASSUME RelInv, AtPeace, seen.stranded = FALSE, NEW p \in Publishers, Release!CreateRejected(p)
    PROVE  CalmKept
<1> DEFINE w == proc[p]
           c == w.cp
           probe == c.create
           n == [probe EXCEPT !.stage = "verified"]
           d == Release!Armed(p, "create", n)
<1>0. w.at = "create_rejected" /\ w.io = "none" /\ Release!World
  BY DEF Release!CreateRejected, Release!At
<1>1. w.at \notin BeforeLock \cup {"lock_gone"} /\ w.at \in PastTag
  BY <1>0 DEF BeforeLock, BeforeObject, PastTag
<1>2. /\ w.at # "down" /\ c = journal[p] /\ CalmCheckpoint(p, c) /\ Checkpoint(c)
      /\ hub.lock = p /\ MayRest(p, w.at, c, w.state) /\ Process(w) /\ CalmServers
  BY <1>0, <1>1, CalmPast
<1>3. hub.main = "release" /\ hub.tag = "ours"
  BY <1>1, <1>2, PublicAt
<1>4. probe.stage = "reject_armed" /\ CreateKept(probe) /\ CreateShows(probe, hub.create[p])
  BY <1>0, <1>2 DEF Process, Checkpoint, CalmCheckpoint
<1>5. hub.create[p] = [holds |-> "winner", etag |-> probe.winner]
  BY <1>2, <1>4 DEF CalmServers, CreateShows
<1>6. Release!Journaled(p, d) /\ Release!Moves(p, "version_create", d) /\ UNCHANGED seen
  BY <1>5 DEF Release!CreateRejected
<1>7. CreateShows(n, hub.create[p]) /\ n.stage = "verified"
  BY <1>4 DEF CreateShows, CreateKept, ProbeFields
<1> HIDE DEF n
<1>8. CalmCheckpoint(p, d) /\ d.phase # NoPhase
  BY <1>0, <1>1, <1>2, <1>4, <1>7, ArmedSays
<1> HIDE DEF d
<1>9. MayRest(p, "version_create", d, w.state)
  BY <1>2, <1>3, RestsLater
<1> QED BY <1>0, <1>6, <1>8, <1>9, CalmGoesOnWith

\* CasProbe, the same for the probe of latest.
LEMMA CalmCasProbe ==
    ASSUME RelInv, AtPeace, seen.stranded = FALSE, NEW p \in Publishers, Release!CasProbe(p)
    PROVE  CalmKept
<1> DEFINE w == proc[p]
           c == w.cp
           probe == c.cas
           reference == hub.cas[p]
<1>0. w.at = "cas_probe" /\ w.io = "none" /\ Release!World
  BY DEF Release!CasProbe, Release!At
<1>1. w.at \notin BeforeLock \cup {"lock_gone"} /\ w.at \in PastRelease /\ w.at \in PastSmoke
  BY <1>0 DEF BeforeLock, BeforeObject, PastRelease, PastSmoke
<1>2. /\ w.at # "down" /\ c = journal[p] /\ CalmCheckpoint(p, c) /\ Checkpoint(c)
      /\ hub.lock = p /\ Release!HasLock(p) /\ MayRest(p, w.at, c, w.state)
  BY <1>0, <1>1, CalmPast
<1>3. hub.main = "release" /\ hub.tag = "ours" /\ hub.version = "ours" /\ hub.release = "ours"
      /\ c.smoke
  BY <1>1, <1>2, PublicAt
<1>4. CasShows(probe, reference) /\ CasKept(probe)
  BY <1>2 DEF CalmCheckpoint, Checkpoint
<1>5. ASSUME NEW n, CasShows(n, reference),
             Release!Journaled(p, Release!Armed(p, "cas", n)), UNCHANGED seen,
             Release!Moves(p, "cas_probe", Release!Armed(p, "cas", n))
      PROVE  CalmKept
  <2> DEFINE d == Release!Armed(p, "cas", n)
  <2>1. CalmCheckpoint(p, d) /\ d.phase # NoPhase /\ d.smoke = journal[p].smoke
    BY <1>0, <1>1, <1>5, ArmedSays
  <2>2. Release!Journaled(p, d) /\ Release!Moves(p, "cas_probe", d)
    BY <1>5
  <2> HIDE DEF d
  <2>3. MayRest(p, "cas_probe", d, w.state)
    BY <1>2, <1>3, <2>1, RestsLater
  <2> QED BY <1>0, <1>5, <2>1, <2>2, <2>3, CalmGoesOnWith
<1>6. CASE probe.stage = "none"
  <2> DEFINE n == [probe EXCEPT !.stage = "planned"]
  <2>1. /\ Release!Journaled(p, Release!Armed(p, "cas", n)) /\ UNCHANGED seen
        /\ Release!Moves(p, "cas_probe", Release!Armed(p, "cas", n))
    BY <1>6 DEF Release!CasProbe
  <2>2. CasShows(n, reference)
    BY <1>4, <1>6 DEF CasShows, CasKept, ProbeFields
  <2> HIDE DEF n
  <2> QED BY <1>5, <1>6, <2>1, <2>2
<1>7. CASE probe.stage = "planned"
  <2> DEFINE n == [probe EXCEPT !.stage = "seed_armed"]
  <2>0. reference.holds = Release!Absent
    BY <1>4, <1>7 DEF CasShows
  <2>1. /\ Release!Journaled(p, Release!Armed(p, "cas", n)) /\ UNCHANGED seen
        /\ Release!Moves(p, "cas_probe", Release!Armed(p, "cas", n))
    BY <1>7, <2>0 DEF Release!CasProbe
  <2>2. CasShows(n, reference)
    BY <1>4, <1>7 DEF CasShows, CasKept, ProbeFields
  <2> HIDE DEF n
  <2> QED BY <1>5, <1>7, <2>1, <2>2
<1>8. CASE probe.stage = "seed_armed" /\ reference.holds = Release!Absent
  <2>1. Release!WritePending(p, "cas_probe_seed", c)
    BY <1>2, <1>8 DEF Release!CasProbe, Release!Absent
  <2>2. MayWrite(w, "cas_probe_seed")
    BY <1>0, <1>8 DEF MayWrite, Sends
  <2> QED BY <1>0, <1>2, <2>1, <2>2, CalmPending
<1>9. CASE probe.stage = "seed_armed" /\ reference.holds = "prior"
  <2> DEFINE n1 == [probe EXCEPT !.stage = "cas_armed"]
             n == [n1 EXCEPT !.prior = reference.etag]
  <2>1. /\ Release!Journaled(p, Release!Armed(p, "cas", n)) /\ UNCHANGED seen
        /\ Release!Moves(p, "cas_probe", Release!Armed(p, "cas", n))
    BY <1>9 DEF Release!CasProbe, Release!Absent
  <2>2. n.stage = "cas_armed" /\ n.prior = reference.etag
    BY <1>4 DEF CasKept, ProbeFields
  <2>3. CasShows(n, reference)
    BY <1>9, <2>2 DEF CasShows
  <2> HIDE DEF n
  <2> QED BY <1>5, <1>9, <2>1, <2>3
<1>10. CASE /\ probe.stage = "cas_armed" /\ reference.holds = "prior"
            /\ reference.etag = probe.prior
  <2>1. Release!WritePending(p, "cas_probe_cas", c)
    BY <1>2, <1>10 DEF Release!CasProbe
  <2>2. MayWrite(w, "cas_probe_cas")
    BY <1>0, <1>10 DEF MayWrite, Sends
  <2> QED BY <1>0, <1>2, <2>1, <2>2, CalmPending
<1>11. CASE /\ probe.stage = "cas_armed" /\ reference.holds = "winner"
            /\ reference.etag # probe.prior
  <2> DEFINE n1 == [probe EXCEPT !.stage = "stale_armed"]
             n == [n1 EXCEPT !.winner = reference.etag]
  <2>1. /\ Release!Journaled(p, Release!Armed(p, "cas", n)) /\ UNCHANGED seen
        /\ Release!Moves(p, "cas_probe", Release!Armed(p, "cas", n))
    BY <1>11 DEF Release!CasProbe
  <2>2. n.stage = "stale_armed" /\ n.winner = reference.etag /\ n.prior = probe.prior
    BY <1>4 DEF CasKept, ProbeFields
  <2>3. CasShows(n, reference)
    BY <1>11, <2>2 DEF CasShows
  <2> HIDE DEF n
  <2> QED BY <1>5, <1>11, <2>1, <2>3
<1>12. CASE probe.stage = "stale_armed"
  <2>0. reference.holds = "winner" /\ reference.etag = probe.winner
    BY <1>4, <1>12 DEF CasShows
  <2>1. Release!WritePending(p, "cas_probe_stale", c)
    BY <1>2, <1>12, <2>0 DEF Release!CasProbe
  <2>2. MayWrite(w, "cas_probe_stale")
    BY <1>0 DEF MayWrite, Sends
  <2> QED BY <1>0, <1>2, <2>1, <2>2, CalmPending
<1>13. CASE probe.stage = "verified"
  <2>0. Release!Retained(probe, reference)
    BY <1>4, <1>13 DEF CasShows, Release!Retained
  <2>1. Release!Unrecorded /\ Release!Moves(p, "latest_arm", c) /\ UNCHANGED seen
    BY <1>13, <2>0 DEF Release!CasProbe
  <2>2. MayRest(p, "latest_arm", c, w.state)
    BY <1>2, <1>3, RestsLater
  <2> QED BY <1>0, <1>2, <2>1, <2>2, CalmGoesOn
<1>14. /\ probe.stage \in {"none", "planned", "seed_armed", "cas_armed", "stale_armed", "verified"}
       /\ probe.stage = "seed_armed" => reference.holds \in {Release!Absent, "prior"}
       /\ probe.stage = "cas_armed" => \/ reference.holds = "prior" /\ reference.etag = probe.prior
                                       \/ reference.holds = "winner" /\ reference.etag # probe.prior
  BY <1>4 DEF CasKept, CasShows
<1> QED BY <1>6, <1>7, <1>8, <1>9, <1>10, <1>11, <1>12, <1>13, <1>14

\* CasRejected: the stale write changed nothing.
LEMMA CalmCasRejected ==
    ASSUME RelInv, AtPeace, seen.stranded = FALSE, NEW p \in Publishers, Release!CasRejected(p)
    PROVE  CalmKept
<1> DEFINE w == proc[p]
           c == w.cp
           probe == c.cas
           n == [probe EXCEPT !.stage = "verified"]
           d == Release!Armed(p, "cas", n)
<1>0. w.at = "cas_rejected" /\ w.io = "none" /\ Release!World
  BY DEF Release!CasRejected, Release!At
<1>1. w.at \notin BeforeLock \cup {"lock_gone"} /\ w.at \in PastRelease /\ w.at \in PastSmoke
  BY <1>0 DEF BeforeLock, BeforeObject, PastRelease, PastSmoke
<1>2. /\ w.at # "down" /\ c = journal[p] /\ CalmCheckpoint(p, c) /\ Checkpoint(c)
      /\ hub.lock = p /\ MayRest(p, w.at, c, w.state) /\ Process(w) /\ CalmServers
  BY <1>0, <1>1, CalmPast
<1>3. hub.main = "release" /\ hub.tag = "ours" /\ hub.version = "ours" /\ hub.release = "ours"
      /\ c.smoke
  BY <1>1, <1>2, PublicAt
<1>4. probe.stage = "stale_armed" /\ CasKept(probe) /\ CasShows(probe, hub.cas[p])
  BY <1>0, <1>2 DEF Process, Checkpoint, CalmCheckpoint
<1>5. hub.cas[p] = [holds |-> "winner", etag |-> probe.winner]
  BY <1>2, <1>4 DEF CalmServers, CasShows
<1>6. Release!Journaled(p, d) /\ Release!Moves(p, "latest_arm", d) /\ UNCHANGED seen
  BY <1>5 DEF Release!CasRejected
<1>7. CasShows(n, hub.cas[p])
  BY <1>4 DEF CasShows, CasKept, ProbeFields
<1> HIDE DEF n
<1>8. CalmCheckpoint(p, d) /\ d.phase # NoPhase /\ d.smoke = journal[p].smoke
  BY <1>0, <1>1, <1>7, ArmedSays
<1> HIDE DEF d
<1>9. MayRest(p, "latest_arm", d, w.state)
  BY <1>2, <1>3, <1>8, RestsLater
<1> QED BY <1>0, <1>6, <1>8, <1>9, CalmGoesOnWith

\* Once the update of latest was attempted the evidence is complete.
LEMMA CalmEvidence ==
    ASSUME NEW p, NEW c, Checkpoint(c), CalmCheckpoint(p, c), c.attempted
    PROVE  Release!EvidenceComplete(p, c)
BY DEF Release!EvidenceComplete, Release!Retained, Checkpoint, CalmCheckpoint, CreateShows, CasShows

\* RegistryLatest.
LEMMA CalmLatest ==
    ASSUME RelInv, AtPeace, seen.stranded = FALSE, NEW p \in Publishers, Release!RegistryLatest(p)
    PROVE  CalmKept
<1> DEFINE w == proc[p]
           c == w.cp
<1>0. w.at = "latest" /\ w.io = "none" /\ Release!World
  BY DEF Release!RegistryLatest, Release!At
<1>1. w.at \notin BeforeLock \cup {"lock_gone"} /\ w.at \in PastRelease /\ w.at \in PastSmoke
  BY <1>0 DEF BeforeLock, BeforeObject, PastRelease, PastSmoke
<1>2. /\ w.at # "down" /\ c = journal[p] /\ CalmCheckpoint(p, c) /\ Checkpoint(c)
      /\ hub.lock = p /\ Release!HasLock(p) /\ MayRest(p, w.at, c, w.state) /\ CalmServers
      /\ c # Release!NoCheckpoint
  BY <1>0, <1>1, CalmPast
<1>3. hub.main = "release" /\ hub.tag = "ours" /\ hub.version = "ours" /\ hub.release = "ours"
      /\ c.smoke /\ w.state.latest = hub.latest
  BY <1>0, <1>1, <1>2, PublicAt
<1>4. CASE c.attempted /\ w.state.latest = "prior"
  <2> DEFINE d == [c EXCEPT !.phase = <<"latest", "unresolved">>]
  <2>1. Release!EvidenceComplete(p, c)
    BY <1>2, <1>4, CalmEvidence
  <2>2. Release!Journaled(p, d) /\ Release!Ends(p, "unresolved")
    BY <1>2, <1>4, <2>1 DEF Release!RegistryLatest
  <2>3. Release!NoOne # p /\ c.acquired
    BY <1>2, CalmOf DEF Release!HasLock
  <2>4. CalmCheckpoint(p, d)
    BY <1>2, <2>3, CalmPhase
  <2>5. d # Release!NoCheckpoint
    <3>1. d.phase = <<"latest", "unresolved">>
      BY <1>2 DEF Checkpoint, CheckpointFields
    <3> QED BY <3>1 DEF Release!NoCheckpoint
  <2>6. "unresolved" \in Release!Expected
    BY DEF Release!Expected
  <2> HIDE DEF d
  <2> QED BY <1>0, <2>2, <2>4, <2>5, <2>6, CalmEnds
<1>5. CASE ~c.attempted /\ w.state.latest = "prior"
  <2>1. Release!ComponentsValid(Release!ReadPublicState)
    BY CalmOf
  <2>2. Release!Unrecorded /\ Release!Moves(p, "cas_probe", c) /\ UNCHANGED seen
    BY <1>2, <1>3, <1>5, <2>1 DEF Release!RegistryLatest
  <2>3. MayRest(p, "cas_probe", c, w.state)
    BY <1>2, <1>3, RestsLater
  <2> QED BY <1>0, <1>2, <2>2, <2>3, CalmGoesOn
<1>6. CASE w.state.latest = "ours"
  <2>1. Release!Unrecorded /\ Release!Moves(p, "evidence", c) /\ UNCHANGED seen
    BY <1>2, <1>6 DEF Release!RegistryLatest
  <2>2. MayRest(p, "evidence", c, w.state)
    BY <1>2, <1>3, <1>6, RestsLater
  <2> QED BY <1>0, <1>2, <2>1, <2>2, CalmGoesOn
<1> QED BY <1>2, <1>3, <1>4, <1>5, <1>6 DEF CalmServers

\* LatestArmed and LatestUpdate.
LEMMA CalmUpdate ==
    ASSUME RelInv, AtPeace, seen.stranded = FALSE, NEW p \in Publishers,
           Release!LatestArmed(p) \/ Release!LatestUpdate(p)
    PROVE  CalmKept
<1> DEFINE w == proc[p]
           c == w.cp
<1>0. w.at \in {"latest_arm", "latest_send", "latest_made"} /\ w.io = "none" /\ Release!World
  BY DEF Release!LatestArmed, Release!LatestUpdate, Release!Reread, Release!At
<1>1. w.at \notin BeforeLock \cup {"lock_gone"} /\ w.at \in PastRelease /\ w.at \in PastSmoke
  BY <1>0 DEF BeforeLock, BeforeObject, PastRelease, PastSmoke, PastLatest
<1>2. /\ w.at # "down" /\ c = journal[p] /\ CalmCheckpoint(p, c) /\ Checkpoint(c)
      /\ hub.lock = p /\ Release!HasLock(p) /\ MayRest(p, w.at, c, w.state)
      /\ c.acquired
  BY <1>0, <1>1, CalmPast
<1>3. hub.main = "release" /\ hub.tag = "ours" /\ hub.version = "ours" /\ hub.release = "ours"
      /\ c.smoke
  BY <1>1, <1>2, PublicAt
<1>4. CASE Release!LatestArmed(p)
  <2> DEFINE d1 == [c EXCEPT !.attempted = TRUE]
             d == [d1 EXCEPT !.phase = <<"latest_update", "armed">>]
  <2>1. Release!Journaled(p, d) /\ Release!Moves(p, "latest_send", d) /\ UNCHANGED seen
    BY <1>2, <1>4 DEF Release!LatestArmed
  <2> HIDE DEF c
  <2>2. /\ d.phase = <<"latest_update", "armed">> /\ d.attempted = TRUE /\ d.create = c.create
        /\ d.cas = c.cas /\ d.acquired = c.acquired /\ d.removed = c.removed
        /\ d.smoke = c.smoke /\ d.runs = c.runs
    BY <1>2 DEF Checkpoint, CheckpointFields
  <2> HIDE DEF d
  <2>3. CreateShows(c.create, hub.create[p]) /\ CasShows(c.cas, hub.cas[p])
        /\ c.create.stage = "verified"
    BY <1>2, <1>3 DEF CalmCheckpoint
  <2>4. CalmCheckpoint(p, d)
    BY <1>2, <1>3, <2>2, <2>3, CalmGrows
  <2>5. MayRest(p, "latest_send", d, w.state)
    BY <1>2, <1>3, <2>2, RestsLater
  <2>6. d.phase # NoPhase
    BY <2>2 DEF NoPhase
  <2> QED BY <1>0, <2>1, <2>4, <2>5, <2>6, CalmGoesOnWith
<1>5. CASE Release!At(p, "latest_send") /\ Release!WritePending(p, "latest_update", c)
  <2>1. MayWrite(w, "latest_update")
    BY <1>5 DEF MayWrite, Sends, Release!At
  <2> QED BY <1>0, <1>2, <1>5, <2>1, CalmPending
<1>6. CASE Release!Reread(p, "latest_made", hub.latest = "ours", "evidence")
  <2>1. w.at = "latest_made"
    BY <1>6 DEF Release!Reread, Release!At
  <2>2. hub.latest = "ours"
    BY <1>2, <2>1, PublicAt DEF PastLatest
  <2>3. MayRest(p, "evidence", journal[p], Release!ReadPublicState)
    BY <1>2, <1>3, <2>2, RestsLater
  <2> QED BY <1>6, <2>2, <2>3, CalmReread
<1> QED BY <1>4, <1>5, <1>6 DEF Release!LatestUpdate

\* The checkpoint of a release that is complete.
LEMMA CalmDone ==
    ASSUME NEW p \in Publishers, NEW c, Checkpoint(c), CalmCheckpoint(p, c), c.acquired,
           hub.lock = Release!NoOne
    PROVE  LET d == [c EXCEPT !.removed = TRUE, !.phase = <<"complete", "none">>]
           IN  CalmCheckpoint(p, d) /\ d # Release!NoCheckpoint
<1> DEFINE d1 == [c EXCEPT !.removed = TRUE]
           d == [d1 EXCEPT !.phase = <<"complete", "none">>]
<1>1. /\ d.phase = <<"complete", "none">> /\ d.removed = TRUE /\ d.create = c.create
      /\ d.cas = c.cas /\ d.acquired = c.acquired /\ d.attempted = c.attempted
      /\ d.smoke = c.smoke /\ d.runs = c.runs /\ d.object = c.object
  BY DEF Checkpoint, CheckpointFields
<1> HIDE DEF d
<1>2. p # Release!NoOne
  BY ReleaseAssumption
<1>3. CalmCheckpoint(p, d)
  BY <1>1, <1>2 DEF CalmCheckpoint
<1>4. d # Release!NoCheckpoint
  BY <1>1 DEF Release!NoCheckpoint
<1>5. d = [c EXCEPT !.removed = TRUE, !.phase = <<"complete", "none">>]
  BY DEF d
<1> QED BY <1>3, <1>4, <1>5

\* LockRefRemove.
LEMMA CalmUnlock ==
    ASSUME RelInv, AtPeace, seen.stranded = FALSE, NEW p \in Publishers, Release!LockRefRemove(p)
    PROVE  CalmKept
<1> DEFINE w == proc[p]
           c == w.cp
<1>0. w.at \in {"evidence", "unlock", "lock_gone"} /\ w.io = "none" /\ Release!World
  BY DEF Release!LockRefRemove, Release!Confirms, Release!Stage, Release!At
<1>1. w.at \in PastLatest /\ w.at \in PastRelease /\ w.at \in PastSmoke /\ w.at # "down"
      /\ w.at \notin BeforeLock
  BY <1>0 DEF PastRelease, PastSmoke, PastLatest, Closing, BeforeLock, BeforeObject
<1>2. /\ c = journal[p] /\ CalmCheckpoint(p, c) /\ Checkpoint(c) /\ Process(w)
      /\ Release!ComponentsValid(Release!ReadPublicState)
  BY <1>1, CalmOf
<1>3. MayRest(p, w.at, c, w.state) /\ c.acquired
  BY <1>0, <1>1, <1>2, CalmRest DEF Process
<1>4. hub.main = "release" /\ hub.tag = "ours" /\ hub.version = "ours" /\ hub.release = "ours"
      /\ c.smoke /\ hub.latest = "ours"
  BY <1>1, <1>3, PublicAt
<1>5. CASE Release!Confirms(p, "evidence", Release!EvidenceComplete(p, proc[p].cp), "unlock")
  <2>1. w.at = "evidence" /\ w.at \notin BeforeLock \cup {"lock_gone"}
    BY <1>5 DEF Release!Confirms, Release!At, BeforeLock, BeforeObject
  <2>2. hub.lock = p
    BY <1>0, <2>1, CalmPast
  <2>3. MayRest(p, "unlock", c, w.state)
    BY <1>4, <2>2, RestsLater
  <2>4. Release!EvidenceComplete(p, c)
    BY <1>2, <1>4, CalmEvidence DEF CalmCheckpoint
  <2> QED BY <1>2, <1>5, <2>3, <2>4, CalmConfirms
<1>6. CASE Release!Stage(p, "unlock", TRUE, "lock_ref_remove", "none")
  <2>1. w.at = "unlock"
    BY <1>6 DEF Release!Stage, Release!At
  <2>2. MayWrite(w, "lock_ref_remove") /\ "unlock" \notin BeforeLock \cup {"lock_gone"}
    BY <2>1 DEF MayWrite, Sends, BeforeLock, BeforeObject
  <2> QED BY <1>6, <2>1, <2>2, CalmStage
<1>7. CASE w.at = "lock_gone"
  <2> DEFINE d == [c EXCEPT !.removed = TRUE, !.phase = <<"complete", "none">>]
  <2>1. hub.lock = Release!NoOne
    BY <1>3, <1>7 DEF MayRest, RestLock
  <2>2. Release!Journaled(p, d) /\ Release!Ends(p, "complete")
    BY <1>2, <1>7, <2>1 DEF Release!LockRefRemove, Release!Confirms, Release!Stage, Release!At
  <2>3. CalmCheckpoint(p, d) /\ d # Release!NoCheckpoint
    BY <1>2, <1>3, <2>1, CalmDone
  <2>4. "complete" \in Release!Expected
    BY DEF Release!Expected
  <2> HIDE DEF d
  <2> QED BY <1>0, <2>2, <2>3, <2>4, CalmEnds
<1> QED BY <1>5, <1>6, <1>7 DEF Release!LockRefRemove, Release!At

\* Where a publisher begins or begins again.
LEMMA RestsEarly ==
    ASSUME NEW p, NEW c, NEW state
    PROVE  /\ ~c.acquired /\ hub.lock = Release!NoOne =>
                MayRest(p, "lock_object", c, state) /\ MayRest(p, "lock_ref", c, state)
           /\ hub.lock = p => MayRest(p, "main", c, state)
BY DEF MayRest, RestLock, RestGit, RestRegistry, BeforeLock, BeforeObject, PastMain, PastTag,
       PastVersion, PastSmoke, PastRelease, PastLatest, Closing, VersionRead

\* LockObjectCreate, HaveObject, LockRefCreate and HaveLock.
LEMMA CalmLocking ==
    ASSUME RelInv, AtPeace, seen.stranded = FALSE, NEW p \in Publishers,
           \/ Release!LockObjectCreate(p) \/ Release!HaveObject(p)
           \/ Release!LockRefCreate(p) \/ Release!HaveLock(p)
    PROVE  CalmKept
<1> DEFINE w == proc[p]
           c == w.cp
<1>0. /\ w.at \in {"lock_object", "have_object", "lock_ref", "have_lock"}
      /\ w.io = "none" /\ Release!World
  BY DEF Release!LockObjectCreate, Release!HaveObject, Release!LockRefCreate, Release!HaveLock,
         Release!Notes, Release!At
<1>1. /\ w.at # "down" /\ c = journal[p] /\ Checkpoint(c) /\ CalmCheckpoint(p, c)
      /\ c.phase # NoPhase /\ Release!ComponentsValid(Release!ReadPublicState)
      /\ p # Release!NoOne
  BY <1>0, CalmOf
<1>2. MayRest(p, w.at, c, w.state)
  BY <1>0, <1>1, CalmRest
<1>3. /\ ~c.acquired
      /\ w.at # "have_lock" => hub.lock = Release!NoOne
      /\ w.at = "have_lock" => hub.lock = p
  BY <1>0, <1>2 DEF MayRest, RestLock
<1>4. CASE Release!LockObjectCreate(p)
  <2>1. w.at = "lock_object" /\ Release!WritePending(p, "lock_object_create", c)
    BY <1>4 DEF Release!LockObjectCreate, Release!At
  <2>2. MayWrite(w, "lock_object_create")
    BY <2>1 DEF MayWrite, Sends
  <2> QED BY <1>0, <1>1, <2>1, <2>2, CalmPending
<1>5. CASE Release!HaveObject(p)
  <2> DEFINE d == [c EXCEPT !.object = TRUE]
  <2>1. /\ Release!Journaled(p, d) /\ Release!Moves(p, "lock_ref", d) /\ UNCHANGED seen
        /\ w.at = "have_object"
    BY <1>5 DEF Release!HaveObject, Release!Notes, Release!At
  <2> HIDE DEF c
  <2>2. /\ d.phase = c.phase /\ d.object = TRUE /\ d.create = c.create /\ d.cas = c.cas
        /\ d.acquired = c.acquired /\ d.attempted = c.attempted /\ d.removed = c.removed
        /\ d.smoke = c.smoke /\ d.runs = c.runs
    BY <1>1 DEF Checkpoint, CheckpointFields
  <2> HIDE DEF d
  <2>3. CalmCheckpoint(p, d)
    BY <1>1, <1>3, <2>1, <2>2 DEF CalmCheckpoint
  <2>4. MayRest(p, "lock_ref", d, w.state)
    BY <1>3, <2>1, <2>2, RestsEarly
  <2> QED BY <1>0, <1>1, <2>1, <2>2, <2>3, <2>4, CalmGoesOnWith
<1>6. CASE Release!LockRefCreate(p)
  <2>1. w.at = "lock_ref"
    BY <1>6 DEF Release!LockRefCreate, Release!At
  <2>2. Release!WritePending(p, "lock_ref_create", c)
    BY <1>1, <1>3, <1>6, <2>1 DEF Release!LockRefCreate
  <2>3. MayWrite(w, "lock_ref_create")
    BY <2>1 DEF MayWrite, Sends
  <2> QED BY <1>0, <1>1, <2>2, <2>3, CalmPending
<1>7. CASE Release!HaveLock(p)
  <2> DEFINE d == [c EXCEPT !.acquired = TRUE]
  <2>1. w.at = "have_lock" /\ hub.lock = p
    BY <1>3, <1>7 DEF Release!HaveLock, Release!At
  <2>2. /\ Release!Journaled(p, d) /\ Release!Moves(p, "main", d) /\ UNCHANGED seen
    BY <1>7, <2>1 DEF Release!HaveLock
  <2> HIDE DEF c
  <2>3. /\ d.phase = c.phase /\ d.acquired = TRUE /\ d.create = c.create /\ d.cas = c.cas
        /\ d.attempted = c.attempted /\ d.removed = c.removed
        /\ d.smoke = c.smoke /\ d.runs = c.runs
    BY <1>1 DEF Checkpoint, CheckpointFields
  <2> HIDE DEF d
  <2>4. CreateShows(c.create, hub.create[p]) /\ CasShows(c.cas, hub.cas[p])
        /\ (c.attempted => c.smoke /\ c.create.stage = "verified")
    BY <1>1 DEF CalmCheckpoint
  <2>5. CalmCheckpoint(p, d)
    BY <1>1, <2>1, <2>3, <2>4, CalmGrows
  <2>6. MayRest(p, "main", d, w.state)
    BY <2>1, RestsEarly
  <2> QED BY <1>0, <1>1, <2>2, <2>3, <2>5, <2>6, CalmGoesOnWith
<1> QED BY <1>4, <1>5, <1>6, <1>7

\* Nothing changes.
LEMMA CalmStays ==
    ASSUME AtPeace, seen.stranded = FALSE, UNCHANGED <<hub, late, proc, journal, seen>>
    PROVE  CalmKept
<1>1. \A q, d : CalmCheckpoint(q, d) => CalmCheckpoint(q, d)'
  BY DEF CalmCheckpoint, AllPublic
<1>2. \A q, v : CalmPlace(q, v) => CalmPlace(q, v)'
  BY DEF CalmPlace, CalmLock, CalmGit, CalmRegistry
<1>3. CalmServers'
  BY DEF AtPeace, CalmServers
<1> QED BY <1>1, <1>2, <1>3 DEF AtPeace, CalmKept

\* publish() on the first call.
LEMMA CalmFresh ==
    ASSUME RelInv, AtPeace, seen.stranded = FALSE, NEW p \in Publishers, NEW k,
           Release!PublishFresh(p, k)
    PROVE  CalmKept
<1> DEFINE d == Release!Prepared(hub.runs)
<1>0. proc[p].at = "down" /\ journal[p] = Release!NoCheckpoint /\ Release!World
  BY DEF Release!PublishFresh
<1>1. CASE UNCHANGED <<proc, journal, seen>>
  BY <1>0, <1>1, CalmStays DEF Release!World
<1>2. CASE /\ Release!ReadPublicState.lock = Release!NoOne
           /\ Release!Untouched(Release!ReadPublicState)
           /\ Release!Journaled(p, d) /\ Release!Moves(p, "lock_object", d) /\ UNCHANGED seen
  <2>1. /\ d.phase = <<"prepared", "none">>
        /\ d.object = FALSE /\ d.acquired = FALSE /\ d.removed = FALSE /\ d.smoke = FALSE
        /\ d.attempted = FALSE /\ d.create = Release!NoProbe
        /\ d.cas = Release!NoProbe /\ d.runs = hub.runs
    BY DEF Release!Prepared, Release!NoCheckpoint
  <2>2. /\ hub.lock = Release!NoOne /\ hub.version = Release!Absent /\ hub.latest = "prior"
        /\ p # Release!NoOne
    BY <1>2, ReadsAll, ReleaseAssumption DEF Release!Untouched
  <2>3. hub.create[p].holds = Release!Absent /\ hub.cas[p].holds = Release!Absent
    BY <1>0 DEF AtPeace, CalmServers
  <2>4. Release!NoProbe.stage = "none"
    BY DEF Release!NoProbe
  <2> HIDE DEF d
  <2>5. CreateShows(d.create, hub.create[p]) /\ CasShows(d.cas, hub.cas[p])
    BY <2>1, <2>3, <2>4 DEF CreateShows, CasShows
  <2>6. CalmCheckpoint(p, d)
    BY <2>1, <2>2, <2>5 DEF CalmCheckpoint, Release!Absent
  <2>7. MayRest(p, "lock_object", d, proc[p].state)
    BY <2>1, <2>2, RestsEarly
  <2>8. d.phase # NoPhase
    BY <2>1 DEF NoPhase
  <2> QED BY <1>0, <1>2, <2>6, <2>7, <2>8, CalmGoesOnWith
<1> QED BY <1>1, <1>2 DEF Release!PublishFresh, Release!Unrecorded

\* publish() on a recovery: the checkpoint says enough to go on.
LEMMA CalmRecovery ==
    ASSUME RelInv, AtPeace, seen.stranded = FALSE, NEW p \in Publishers, NEW k,
           Release!PublishRecovery(p, k)
    PROVE  CalmKept
<1> DEFINE c == journal[p]
           state == Release!ReadPublicState
           ended == [c EXCEPT !.removed = TRUE, !.phase = <<"complete", "none">>]
           reconciled1 == [c EXCEPT !.acquired = TRUE]
           reconciled == [reconciled1 EXCEPT !.phase = <<"lock_ref_create", "reconciled">>]
           closed == /\ hub.lock = Release!NoOne /\ Release!IsFinalState(state)
                     /\ c.removed \/ c.phase \in Release!RemovalPhases
<1>0. /\ proc[p].at = "down" /\ c # Release!NoCheckpoint /\ Release!World
  BY DEF Release!PublishRecovery
<1>1. Checkpoint(c) /\ CalmCheckpoint(p, c) /\ c.phase # NoPhase /\ p # Release!NoOne
  BY <1>0, OfOne, CalmOf
<1>2. state.lock = hub.lock
  BY ReadsAll
<1>3. ASSUME NEW at, Release!Unrecorded, Release!Moves(p, at, c), UNCHANGED seen,
             MayRest(p, at, c, proc[p].state)
      PROVE  CalmKept
  <2>1. PICK w : Resting(w, at, c, proc[p].state) /\ proc' = [proc EXCEPT ![p] = w]
    BY <1>3, MovesRests
  <2>2. CalmPlace(p, w)
    BY <1>3, <2>1, RestIsPlace
  <2>3. UNCHANGED <<hub, late>> /\ UNCHANGED journal /\ seen'.stranded = FALSE
    BY <1>0, <1>3 DEF Release!World, Release!Unrecorded
  <2> QED BY <1>0, <1>1, <2>1, <2>2, <2>3, CalmStep
<1>4. CASE Release!Unrecorded /\ Release!Ends(p, "refused")
  <2>1. "refused" \in Release!Expected
    BY DEF Release!Expected
  <2> QED BY <1>0, <1>1, <1>4, <2>1, CalmEnds
<1>5. \/ Release!Unrecorded /\ Release!Ends(p, "refused")
      \/ closed /\ (IF Release!EvidenceComplete(p, c)
                    THEN Release!Journaled(p, ended) /\ Release!Ends(p, "complete")
                    ELSE Release!Unrecorded /\ Release!Ends(p, "evidence"))
      \/ ~closed /\ c.removed
      \/ ~closed /\ ~c.removed /\ c.acquired /\
           (hub.lock = p => Release!Unrecorded /\ Release!Moves(p, "main", c) /\ UNCHANGED seen)
      \/ /\ ~c.acquired /\ hub.lock = Release!NoOne /\ Release!Unrecorded /\ UNCHANGED seen
         /\ Release!Moves(p, IF c.object THEN "lock_ref" ELSE "lock_object", c)
      \/ /\ ~c.acquired /\ hub.lock # Release!NoOne
         /\ hub.lock = p /\ c.object /\ c.phase \in Release!AcquirePhases =>
              /\ Release!Journaled(p, reconciled) /\ Release!Moves(p, "main", reconciled)
              /\ UNCHANGED seen
  <2>1. reconciled = [c EXCEPT !.acquired = TRUE, !.phase = <<"lock_ref_create", "reconciled">>]
    OBVIOUS
  <2> HIDE DEF ended, reconciled
  <2> QED BY <1>2, <2>1 DEF Release!PublishRecovery, ended
<1>6. ~closed => /\ ~c.removed
                 /\ c.acquired => hub.lock = p
  <2>1. SUFFICES ASSUME ~closed, c.removed \/ (c.acquired /\ hub.lock # p) PROVE FALSE
    OBVIOUS
  <2>2. hub.lock = Release!NoOne /\ c.acquired
    BY <1>1, <2>1 DEF CalmCheckpoint, Checkpoint
  <2>3. AllPublic /\ (c.removed \/ c.phase \in Release!RemovalPhases)
    BY <1>1, <2>2 DEF CalmCheckpoint
  <2>4. Release!IsFinalState(state)
    BY <2>2, <2>3, ReadsAll DEF Release!IsFinalState, AllPublic
  <2> QED BY <2>1, <2>2, <2>3, <2>4
<1>7. CASE closed /\ (IF Release!EvidenceComplete(p, c)
                      THEN Release!Journaled(p, ended) /\ Release!Ends(p, "complete")
                      ELSE Release!Unrecorded /\ Release!Ends(p, "evidence"))
  <2>1. hub.latest = "ours" /\ c.acquired
    BY <1>1, <1>7, ReadsAll DEF Release!IsFinalState, Checkpoint
  <2>2. Release!EvidenceComplete(p, c)
    BY <1>1, <2>1, CalmEvidence DEF CalmCheckpoint
  <2>3. CalmCheckpoint(p, ended) /\ ended # Release!NoCheckpoint
    BY <1>1, <1>7, <2>1, CalmDone
  <2>4. "complete" \in Release!Expected
    BY DEF Release!Expected
  <2> HIDE DEF ended
  <2> QED BY <1>0, <1>7, <2>2, <2>3, <2>4, CalmEnds
<1>8. CASE c.acquired /\ hub.lock = p /\ Release!Unrecorded /\ Release!Moves(p, "main", c)
           /\ UNCHANGED seen
  BY <1>3, <1>8, RestsEarly
<1>9. CASE /\ ~c.acquired /\ hub.lock = Release!NoOne /\ Release!Unrecorded /\ UNCHANGED seen
           /\ Release!Moves(p, IF c.object THEN "lock_ref" ELSE "lock_object", c)
  <2> HIDE DEF c
  <2>1. MayRest(p, IF c.object THEN "lock_ref" ELSE "lock_object", c, proc[p].state)
    BY <1>9, RestsEarly
  <2> QED BY <1>3, <1>9, <2>1
<1>10. CASE /\ ~c.acquired /\ hub.lock # Release!NoOne
            /\ hub.lock = p /\ c.object /\ c.phase \in Release!AcquirePhases =>
                 /\ Release!Journaled(p, reconciled) /\ Release!Moves(p, "main", reconciled)
                 /\ UNCHANGED seen
  <2>1. hub.lock = p /\ c.object /\ c.phase \in Release!AcquirePhases
    BY <1>1, <1>10 DEF CalmCheckpoint
  <2>2. /\ Release!Journaled(p, reconciled) /\ Release!Moves(p, "main", reconciled)
        /\ UNCHANGED seen
    BY <1>10, <2>1
  <2> HIDE DEF c
  <2>3. /\ reconciled.phase = <<"lock_ref_create", "reconciled">> /\ reconciled.acquired = TRUE
        /\ reconciled.create = c.create /\ reconciled.cas = c.cas
        /\ reconciled.attempted = c.attempted /\ reconciled.removed = c.removed
        /\ reconciled.smoke = c.smoke /\ reconciled.runs = c.runs
    BY <1>1 DEF Checkpoint, CheckpointFields
  <2> HIDE DEF reconciled
  <2>4. CreateShows(c.create, hub.create[p]) /\ CasShows(c.cas, hub.cas[p])
        /\ (c.attempted => c.smoke /\ c.create.stage = "verified")
    BY <1>1 DEF CalmCheckpoint
  <2>5. CalmCheckpoint(p, reconciled)
    BY <1>1, <2>1, <2>3, <2>4, CalmGrows
  <2>6. MayRest(p, "main", reconciled, proc[p].state)
    BY <2>1, RestsEarly
  <2>7. reconciled.phase # NoPhase
    BY <2>3 DEF NoPhase
  <2> QED BY <1>0, <2>2, <2>5, <2>6, <2>7, CalmGoesOnWith
<1> HIDE DEF c, ended, reconciled, closed, state
<1> QED BY <1>4, <1>5, <1>6, <1>7, <1>8, <1>9, <1>10

\* The same write, further on but not yet sent.
LEMMA CalmIo ==
    ASSUME RelInv, AtPeace, seen.stranded = FALSE, NEW p \in Publishers, NEW io,
           Release!World, Release!Unrecorded, UNCHANGED seen, proc[p].at # "down",
           proc[p].io \in Unsent, proc[p].io # "none", io \in {"checked", "identified"},
           proc' = [proc EXCEPT ![p].io = io]
    PROVE  CalmKept
<1> DEFINE w == proc[p]
           v == [w EXCEPT !.io = io]
<1>1. /\ journal[p] # Release!NoCheckpoint /\ CalmCheckpoint(p, journal[p]) /\ CalmPlace(p, w)
      /\ DOMAIN w = ProcFields
  BY CalmOf
<1>2. /\ v.io = io /\ v.at = w.at /\ v.op = w.op /\ v.cp = w.cp /\ v.state = w.state
  BY <1>1 DEF ProcFields
<1>3. proc' = [proc EXCEPT ![p] = v]
  OBVIOUS
<1> HIDE DEF v, w
<1>4. CalmPlace(p, v)
  <2>1. w.io \in Unsent /\ v.io \in Unsent /\ w.io # "none" /\ v.io # "answered"
        /\ v.io # "failed" /\ w.io # "answered"
    BY <1>2 DEF w, Unsent
  <2> QED BY <1>1, <1>2, <2>1 DEF CalmPlace, CalmLock, CalmGit, CalmRegistry
<1>5. UNCHANGED <<hub, late>> /\ UNCHANGED journal /\ seen'.stranded = FALSE
  BY DEF Release!World, Release!Unrecorded
<1> QED BY <1>1, <1>3, <1>4, <1>5, CalmStep

\* A write on its way: where, and with what in the journal.
LEMMA CalmWrite ==
    ASSUME RelInv, AtPeace, NEW p \in Publishers, proc[p].io # "none"
    PROVE  /\ proc[p].at # "down" /\ proc[p].cp = journal[p] /\ Checkpoint(journal[p])
           /\ journal[p] # Release!NoCheckpoint
           /\ CalmCheckpoint(p, journal[p]) /\ CalmPlace(p, proc[p]) /\ CalmServers
           /\ <<proc[p].at, proc[p].op>> \in Sends /\ Process(proc[p]) /\ Around(p, proc[p])
           /\ journal[p].phase = <<proc[p].op, "pending">> /\ proc[p].io # "failed"
           /\ proc[p].at \in BeforeLock => proc[p].at \in {"lock_object", "lock_ref"}
           /\ proc[p].at # "lock_gone"
           /\ proc[p].at \in BeforeLock => ~journal[p].acquired
           /\ proc[p].at \notin BeforeLock => journal[p].acquired
<1>1. <<proc[p].at, proc[p].op>> \in Sends /\ Process(proc[p])
  BY OfOne DEF Process
<1>2. /\ proc[p].at # "down" /\ proc[p].at # "lock_gone"
      /\ proc[p].at \in BeforeLock => proc[p].at \in {"lock_object", "lock_ref"}
  BY <1>1 DEF Sends, BeforeLock, BeforeObject
<1>3. /\ proc[p].cp = journal[p] /\ Checkpoint(journal[p]) /\ journal[p] # Release!NoCheckpoint
      /\ CalmCheckpoint(p, journal[p]) /\ CalmPlace(p, proc[p]) /\ CalmServers
      /\ Around(p, proc[p])
  BY <1>2, CalmOf DEF AtPeace
<1>4. journal[p].phase = <<proc[p].op, "pending">> /\ proc[p].io # "failed"
      /\ (proc[p].at \in BeforeLock => ~journal[p].acquired)
  BY <1>2, <1>3 DEF CalmPlace, CalmLock
<1>5. proc[p].at \notin BeforeLock => journal[p].acquired
  BY <1>1, <1>3 DEF Process
<1> QED BY <1>1, <1>2, <1>3, <1>4, <1>5

\* WriteChecked and IdentifyLatest find nothing amiss.
LEMMA CalmChecks ==
    ASSUME RelInv, AtPeace, seen.stranded = FALSE, NEW p \in Publishers,
           Release!WriteChecked(p) \/ Release!IdentifyLatest(p)
    PROVE  CalmKept
<1> DEFINE w == proc[p]
<1>0. w.io \in Unsent /\ w.io # "none" /\ Release!World
  BY DEF Release!WriteChecked, Release!IdentifyLatest, Unsent
<1>1. /\ w.at # "down" /\ w.cp = journal[p] /\ CalmCheckpoint(p, journal[p]) /\ CalmServers
      /\ <<w.at, w.op>> \in Sends /\ Around(p, w)
      /\ w.at \in BeforeLock => w.at \in {"lock_object", "lock_ref"}
      /\ w.at # "lock_gone"
  BY <1>0, CalmWrite
<1>2. CASE Release!WriteChecked(p)
  <2>1. hub.runs = w.cp.runs
    BY <1>1 DEF CalmCheckpoint
  <2>2. w.op \in Release!LockOps \/ Release!HasLock(p)
    <3>1. CASE w.at \in BeforeLock
      BY <1>1, <3>1 DEF Sends, Release!LockOps
    <3>2. CASE w.at \notin BeforeLock
      BY <1>0, <1>1, <3>2, CalmHolds
    <3> QED BY <3>1, <3>2
  <2>3. proc' = [proc EXCEPT ![p].io = "checked"] /\ Release!Unrecorded /\ UNCHANGED seen
    BY <1>2, <2>1, <2>2 DEF Release!WriteChecked
  <2> QED BY <1>0, <1>1, <2>3, CalmIo
<1>3. CASE Release!IdentifyLatest(p)
  <2>1. w.op = "latest_update"
    BY <1>3 DEF Release!IdentifyLatest
  <2>2. w.at = "latest_send"
    BY <1>1, <2>1 DEF Sends
  <2>3. seen.updates = 0
    BY <1>0, <1>1, <2>2 DEF Around
  <2>4. hub.latest = "prior"
    BY <1>1, <2>3 DEF RelInv, Servers, CalmServers
  <2>5. proc' = [proc EXCEPT ![p].io = "identified"] /\ Release!Unrecorded /\ UNCHANGED seen
    BY <1>3, <2>4 DEF Release!IdentifyLatest
  <2> QED BY <1>0, <1>1, <2>5, CalmIo
<1> QED BY <1>2, <1>3

\* What a request makes of the public state, place by place.
LEMMA AppliedTo ==
    ASSUME RelInv, NEW p \in Publishers, NEW op, hub' = Release!Applied(p, op)
    PROVE  /\ hub'.runs = hub.runs
           /\ hub'.main = IF op = "main_fast_forward" /\ hub.main = "prior" THEN "release" ELSE hub.main
           /\ hub'.tag = IF op = "version_tag_ref_create" /\ hub.tag = Release!Absent
                         THEN "ours" ELSE hub.tag
           /\ hub'.release = IF op = "release_create" /\ hub.release = Release!Absent
                             THEN "ours" ELSE hub.release
           /\ op # "blob_upload_finish" => hub'.blob = hub.blob
           /\ op = "blob_upload_finish" => hub'.blob
           /\ op # "manifest_put" => hub'.manifest = hub.manifest
           /\ op = "manifest_put" => hub'.manifest
           /\ hub'.version = IF op = "version_create" /\ (hub.version = Release!Absent \/ ~honours.create)
                             THEN "ours" ELSE hub.version
           /\ hub'.latest = IF op = "latest_update" /\ (hub.latest = "prior" \/ ~honours.match)
                            THEN "ours" ELSE hub.latest
           /\ hub'.lock = IF op = "lock_ref_create" /\ hub.lock = Release!NoOne THEN p
                          ELSE IF op = "lock_ref_remove" /\ hub.lock = p THEN Release!NoOne
                          ELSE hub.lock
           /\ \A q \in Publishers : q # p =>
                 hub'.create[q] = hub.create[q] /\ hub'.cas[q] = hub.cas[q]
           /\ hub'.create[p] = IF op \in {"create_probe_seed", "create_probe_reject"}
                               THEN Release!ProbeWrite(p, op) ELSE hub.create[p]
           /\ hub'.cas[p] = IF op \in {"cas_probe_seed", "cas_probe_cas", "cas_probe_stale"}
                            THEN Release!ProbeWrite(p, op) ELSE hub.cas[p]
<1>0. DOMAIN hub = HubFields /\ DOMAIN hub.create = Publishers /\ DOMAIN hub.cas = Publishers
  BY DEF RelInv, Servers
<1>1. CASE op = "lock_ref_create"
  <2>1. hub' = IF hub.lock = Release!NoOne THEN [hub EXCEPT !.lock = p] ELSE hub
    BY <1>1 DEF Release!Applied
  <2> QED BY <1>0, <1>1, <2>1 DEF HubFields
<1>2. CASE op = "lock_ref_remove"
  <2>1. hub' = IF hub.lock = p THEN [hub EXCEPT !.lock = Release!NoOne] ELSE hub
    BY <1>2 DEF Release!Applied
  <2> QED BY <1>0, <1>2, <2>1 DEF HubFields
<1>3. CASE op = "main_fast_forward"
  <2>1. hub' = IF hub.main = "prior" THEN [hub EXCEPT !.main = "release"] ELSE hub
    BY <1>3 DEF Release!Applied
  <2> QED BY <1>0, <1>3, <2>1 DEF HubFields
<1>4. CASE op = "version_tag_ref_create"
  <2>1. hub' = IF hub.tag = Release!Absent THEN [hub EXCEPT !.tag = "ours"] ELSE hub
    BY <1>4 DEF Release!Applied
  <2> QED BY <1>0, <1>4, <2>1 DEF HubFields
<1>5. CASE op = "blob_upload_finish"
  <2>1. hub' = [hub EXCEPT !.blob = TRUE]
    BY <1>5 DEF Release!Applied
  <2> QED BY <1>0, <1>5, <2>1 DEF HubFields
<1>6. CASE op = "manifest_put"
  <2>1. hub' = [hub EXCEPT !.manifest = TRUE]
    BY <1>6 DEF Release!Applied
  <2> QED BY <1>0, <1>6, <2>1 DEF HubFields
<1>7. CASE op = "release_create"
  <2>1. hub' = IF hub.release = Release!Absent THEN [hub EXCEPT !.release = "ours"] ELSE hub
    BY <1>7 DEF Release!Applied
  <2> QED BY <1>0, <1>7, <2>1 DEF HubFields
<1>8. CASE op = "version_create"
  <2>1. hub' = IF hub.version = Release!Absent \/ ~honours.create
               THEN [hub EXCEPT !.version = "ours"] ELSE hub
    BY <1>8 DEF Release!Applied
  <2> QED BY <1>0, <1>8, <2>1 DEF HubFields
<1>9. CASE op = "latest_update"
  <2>1. hub' = IF hub.latest = "prior" \/ ~honours.match
               THEN [hub EXCEPT !.latest = "ours"] ELSE hub
    BY <1>9 DEF Release!Applied
  <2> QED BY <1>0, <1>9, <2>1 DEF HubFields
<1>10. CASE op \in {"create_probe_seed", "create_probe_reject"}
  <2> DEFINE n == Release!ProbeWrite(p, op)
  <2>1. hub' = [hub EXCEPT !.create[p] = n]
    BY <1>10 DEF Release!Applied
  <2> HIDE DEF n
  <2> QED BY <1>0, <1>10, <2>1 DEF HubFields, n
<1>11. CASE op \in {"cas_probe_seed", "cas_probe_cas", "cas_probe_stale"}
  <2> DEFINE n == Release!ProbeWrite(p, op)
  <2>1. hub' = [hub EXCEPT !.cas[p] = n]
    BY <1>11 DEF Release!Applied
  <2> HIDE DEF n
  <2> QED BY <1>0, <1>11, <2>1 DEF HubFields, n
<1>12. CASE op \notin {"lock_ref_create", "lock_ref_remove", "main_fast_forward",
                       "version_tag_ref_create", "blob_upload_finish", "manifest_put",
                       "release_create", "version_create", "latest_update"} \cup Release!ProbeOps
  <2>1. hub' = hub
    BY <1>12 DEF Release!Applied, Release!ProbeOps
  <2> QED BY <1>12, <2>1 DEF Release!ProbeOps
<1> QED BY <1>1, <1>2, <1>3, <1>4, <1>5, <1>6, <1>7, <1>8, <1>9, <1>10, <1>11, <1>12
        DEF Release!ProbeOps

\* What the probes of an undisturbed publisher make of their references.
LEMMA CalmProbes ==
    ASSUME RelInv, NEW p \in Publishers, honours.create, honours.match,
           NEW c, c = proc[p].cp, NEW op,
           CreateShows(c.create, hub.create[p]), CasShows(c.cas, hub.cas[p]),
           op = "create_probe_seed" => c.create.stage = "seed_armed",
           op = "create_probe_reject" => c.create.stage = "reject_armed",
           op = "cas_probe_seed" => c.cas.stage = "seed_armed",
           op = "cas_probe_cas" => c.cas.stage = "cas_armed",
           op = "cas_probe_stale" => c.cas.stage = "stale_armed",
           op \in Release!ProbeOps,
           \A q \in Publishers :
              /\ hub.create[q] = [holds |-> hub.create[q].holds, etag |-> hub.create[q].etag]
              /\ hub.cas[q] = [holds |-> hub.cas[q].holds, etag |-> hub.cas[q].etag]
    PROVE  LET n == Release!ProbeWrite(p, op)
           IN  /\ n = [holds |-> n.holds, etag |-> n.etag]
               /\ op \in {"create_probe_seed", "create_probe_reject"} => CreateShows(c.create, n)
               /\ op \in {"cas_probe_seed", "cas_probe_cas", "cas_probe_stale"} =>
                     CasShows(c.cas, n)
<1> DEFINE n == Release!ProbeWrite(p, op)
           x == hub.create[p]
           y == hub.cas[p]
<1>1. /\ x.etag \in Nat /\ y.etag \in Nat
      /\ x.etag + 1 \in Nat /\ y.etag + 1 \in Nat /\ y.etag + 1 # y.etag
      /\ x = [holds |-> x.holds, etag |-> x.etag] /\ y = [holds |-> y.holds, etag |-> y.etag]
  BY DEF RelInv, Servers, Reference
<1>2. CASE op = "create_probe_seed"
  <2>1. n = IF x.holds = Release!Absent THEN [holds |-> "winner", etag |-> x.etag + 1] ELSE x
    BY <1>2 DEF Release!ProbeWrite, Release!Probe, Release!Overwrite
  <2> HIDE DEF n, x, y
  <2> QED BY <1>1, <1>2, <2>1 DEF CreateShows, n, x
<1>3. CASE op = "create_probe_reject"
  <2>0. x.holds = "winner" /\ x.holds # Release!Absent
    BY <1>3 DEF CreateShows, Release!Absent
  <2>1. n = x
    BY <1>3, <2>0 DEF Release!ProbeWrite, Release!Probe, Release!Overwrite
  <2> QED BY <1>1, <1>3, <2>1
<1>4. CASE op = "cas_probe_seed"
  <2>1. n = IF y.holds = Release!Absent THEN [holds |-> "prior", etag |-> y.etag + 1] ELSE y
    BY <1>4 DEF Release!ProbeWrite, Release!Probe, Release!Overwrite
  <2> HIDE DEF n, x, y
  <2> QED BY <1>1, <1>4, <2>1 DEF CasShows, n, y
<1>5. CASE op = "cas_probe_cas"
  <2>1. n = IF y.etag = c.cas.prior THEN [holds |-> "winner", etag |-> y.etag + 1] ELSE y
    BY <1>5 DEF Release!ProbeWrite, Release!Probe, Release!Overwrite
  <2> HIDE DEF n, x, y
  <2> QED BY <1>1, <1>5, <2>1 DEF CasShows, n, y
<1>6. CASE op = "cas_probe_stale"
  <2>0. y.etag # c.cas.prior
    BY <1>6 DEF CasShows
  <2>1. n = y
    BY <1>6, <2>0 DEF Release!ProbeWrite, Release!Probe, Release!Overwrite
  <2> QED BY <1>1, <1>6, <2>1
<1> QED BY <1>2, <1>3, <1>4, <1>5, <1>6 DEF Release!ProbeOps

\* The servers answer an undisturbed publisher as it wishes.
LEMMA CalmAccepted ==
    ASSUME RelInv, AtPeace, NEW p \in Publishers, proc[p].io \in Unsent, proc[p].io # "none",
           hub' = Release!Applied(p, proc[p].op)
    PROVE  Release!Accepted(p, proc[p].op)
<1> DEFINE w == proc[p]
           op == w.op
<1>1. CalmPlace(p, w) /\ <<w.at, op>> \in Sends /\ CalmServers
      /\ (w.at \in BeforeLock => w.at \in {"lock_object", "lock_ref"}) /\ w.at # "lock_gone"
  BY CalmWrite
<1> HIDE DEF w
<1>2. CASE op = "lock_ref_create"
  <2>1. hub.lock = Release!NoOne
    BY <1>1, <1>2 DEF CalmPlace, CalmLock, Sends, w
  <2> QED BY <1>2, <2>1 DEF Release!Accepted, w
<1>3. CASE op = "lock_ref_remove"
  <2>1. w.at = "unlock" /\ w.at \notin BeforeLock \cup {"lock_gone"}
    BY <1>1, <1>3 DEF Sends, BeforeLock, BeforeObject
  <2>2. hub.lock = p
    BY <2>1, CalmHolds DEF w
  <2> QED BY <1>3, <2>2 DEF Release!Accepted, w
<1>4. CASE op = "main_fast_forward"
  BY <1>1, <1>4 DEF Release!Accepted, CalmServers, w
<1>5. CASE op = "version_tag_ref_create"
  <2>1. hub.tag = Release!Absent
    BY <1>1, <1>5 DEF CalmPlace, CalmGit, Sends, w
  <2> QED BY <1>5, <2>1 DEF Release!Accepted, w
<1>6. CASE op = "release_create"
  <2>1. hub.release = Release!Absent
    BY <1>1, <1>6 DEF CalmPlace, CalmGit, Sends, w
  <2> QED BY <1>6, <2>1 DEF Release!Accepted, w
<1>7. CASE op = "version_create"
  <2>1. hub'.version = "ours"
    BY <1>1, <1>7, AppliedTo DEF CalmServers, w
  <2> QED BY <1>7, <2>1 DEF Release!Accepted, w
<1>8. CASE op = "latest_update"
  <2>1. hub'.latest = "ours"
    BY <1>1, <1>8, AppliedTo DEF CalmServers, w
  <2> QED BY <1>8, <2>1 DEF Release!Accepted, w
<1>9. CASE op \notin {"lock_ref_create", "lock_ref_remove", "main_fast_forward",
                      "version_tag_ref_create", "release_create", "version_create",
                      "latest_update"}
  BY <1>9 DEF Release!Accepted, w
<1> QED BY <1>2, <1>3, <1>4, <1>5, <1>6, <1>7, <1>8, <1>9

\* Everything is public when the lock is removed.
LEMMA CalmRemoves ==
    ASSUME NEW p, NEW w, CalmPlace(p, w), w.at = "unlock"
    PROVE  AllPublic
BY DEF CalmPlace, CalmGit, CalmRegistry, AllPublic, PastMain, PastTag, PastVersion, PastSmoke,
       PastRelease, PastLatest, Closing

\* WriteSent: what was written is there, and the checkpoint still says what is.
LEMMA CalmSent ==
    ASSUME RelInv, AtPeace, seen.stranded = FALSE, Release!Undisturbed, NEW p \in Publishers,
           Release!WriteSent(p)
    PROVE  CalmKept
<1> DEFINE w == proc[p]
           op == w.op
           c == journal[p]
           v == [w EXCEPT !.io = "answered"]
<1>0. w.io \in Unsent /\ w.io # "none" /\ hub' = Release!Applied(p, op) /\ UNCHANGED <<journal, late>>
  BY DEF Release!WriteSent, Release!Sendable, Unsent, Release!Unrecorded
<1>1. /\ w.at # "down" /\ w.cp = c /\ Checkpoint(c) /\ c # Release!NoCheckpoint
      /\ CalmCheckpoint(p, c) /\ CalmPlace(p, w) /\ CalmServers
      /\ <<w.at, op>> \in Sends /\ Process(w)
      /\ c.phase = <<op, "pending">>
      /\ w.at \in BeforeLock => w.at \in {"lock_object", "lock_ref"}
      /\ w.at # "lock_gone"
      /\ w.at \in BeforeLock => ~c.acquired
      /\ w.at \notin BeforeLock => c.acquired
      /\ p # Release!NoOne
  BY <1>0, CalmWrite, ReleaseAssumption
<1>2. proc' = [proc EXCEPT ![p] = v] /\ DOMAIN proc = Publishers /\ DOMAIN w = ProcFields
  <2>1. Release!Accepted(p, op)
    BY <1>0, CalmAccepted
  <2> QED BY <2>1, OfOne DEF Release!WriteSent
<1>3. seen'.stranded = FALSE
  <2>1. DOMAIN seen = {"overwritten", "updates", "stranded"}
    BY DEF RelInv, Servers
  <2>2. seen' = Release!Counted(Release!Noted(p, op), op)
    BY DEF Release!WriteSent
  <2> QED BY <2>1, <2>2 DEF Release!Counted, Release!Noted
<1>4. \A q \in Publishers : q # p => journal[q] = Release!NoCheckpoint
  BY <1>1 DEF Release!Undisturbed
<1>5. honours.create /\ honours.match
  BY DEF Release!Undisturbed
<1>6. /\ op = "create_probe_seed" => c.create.stage = "seed_armed"
      /\ op = "create_probe_reject" => c.create.stage = "reject_armed"
      /\ op = "cas_probe_seed" => c.cas.stage = "seed_armed"
      /\ op = "cas_probe_cas" => c.cas.stage = "cas_armed"
      /\ op = "cas_probe_stale" => c.cas.stage = "stale_armed"
      /\ op = "version_create" => c.create.stage = "verified"
      /\ op = "latest_update" => c.attempted
      /\ op = "lock_ref_create" => w.at = "lock_ref" /\ c.object /\ hub.lock = Release!NoOne
      /\ op = "lock_ref_remove" => w.at = "unlock" /\ hub.lock = p
  <2>1. /\ op = "create_probe_seed" => c.create.stage = "seed_armed"
        /\ op = "cas_probe_seed" => c.cas.stage = "seed_armed"
        /\ op = "cas_probe_cas" => c.cas.stage = "cas_armed"
    BY <1>1 DEF CalmPlace, CalmRegistry
  <2>2. /\ op = "create_probe_reject" => c.create.stage = "reject_armed"
        /\ op = "cas_probe_stale" => c.cas.stage = "stale_armed"
    BY <1>1 DEF Process
  <2>3. /\ op = "version_create" => w.at = "version_create"
        /\ op = "latest_update" => w.at = "latest_send"
        /\ op = "lock_ref_create" => w.at = "lock_ref"
        /\ op = "lock_ref_remove" => w.at = "unlock"
    BY <1>1 DEF Sends
  <2>4. /\ op = "version_create" => c.create.stage = "verified"
        /\ op = "latest_update" => c.attempted
        /\ op = "lock_ref_create" => c.object
    BY <1>1, <2>3 DEF Process, BeforeObject
  <2>5. /\ op = "lock_ref_create" => hub.lock = Release!NoOne
    BY <1>0, <1>1, <2>3 DEF CalmPlace, CalmLock
  <2>6. "unlock" \notin BeforeLock
    BY DEF BeforeLock, BeforeObject
  <2>7. op = "lock_ref_remove" => hub.lock = p
    BY <1>0, <1>1, <2>3, <2>6, CalmHolds
  <2> QED BY <2>1, <2>2, <2>3, <2>4, <2>5, <2>7
<1>7. /\ hub'.create[p] = [holds |-> hub'.create[p].holds, etag |-> hub'.create[p].etag]
      /\ hub'.cas[p] = [holds |-> hub'.cas[p].holds, etag |-> hub'.cas[p].etag]
      /\ CreateShows(c.create, hub'.create[p]) /\ CasShows(c.cas, hub'.cas[p])
  <2>1. CreateShows(c.create, hub.create[p]) /\ CasShows(c.cas, hub.cas[p])
    BY <1>1 DEF CalmCheckpoint
  <2>2. \A q \in Publishers :
           /\ hub.create[q] = [holds |-> hub.create[q].holds, etag |-> hub.create[q].etag]
           /\ hub.cas[q] = [holds |-> hub.cas[q].holds, etag |-> hub.cas[q].etag]
    BY <1>1 DEF CalmServers
  <2> DEFINE n == Release!ProbeWrite(p, op)
  <2>3. /\ hub'.create[p] = IF op \in {"create_probe_seed", "create_probe_reject"}
                            THEN n ELSE hub.create[p]
        /\ hub'.cas[p] = IF op \in {"cas_probe_seed", "cas_probe_cas", "cas_probe_stale"}
                         THEN n ELSE hub.cas[p]
    BY <1>0, AppliedTo
  <2> HIDE DEF n
  <2>4. CASE op \in Release!ProbeOps
    <3>1. /\ n = [holds |-> n.holds, etag |-> n.etag]
          /\ op \in {"create_probe_seed", "create_probe_reject"} => CreateShows(c.create, n)
          /\ op \in {"cas_probe_seed", "cas_probe_cas", "cas_probe_stale"} => CasShows(c.cas, n)
      BY <1>1, <1>5, <1>6, <2>1, <2>2, <2>4, CalmProbes DEF n
    <3> HIDE DEF c, w
    <3> QED BY <2>1, <2>2, <2>3, <3>1
  <2>5. CASE op \notin Release!ProbeOps
    <3> HIDE DEF c, w
    <3> QED BY <2>1, <2>2, <2>3, <2>5 DEF Release!ProbeOps
  <2> QED BY <2>4, <2>5
<1>8. /\ hub'.runs = hub.runs
      /\ hub'.main = IF op = "main_fast_forward" /\ hub.main = "prior" THEN "release" ELSE hub.main
      /\ hub'.tag = IF op = "version_tag_ref_create" /\ hub.tag = Release!Absent
                    THEN "ours" ELSE hub.tag
      /\ hub'.release = IF op = "release_create" /\ hub.release = Release!Absent
                        THEN "ours" ELSE hub.release
      /\ op # "blob_upload_finish" => hub'.blob = hub.blob
      /\ op = "blob_upload_finish" => hub'.blob
      /\ op # "manifest_put" => hub'.manifest = hub.manifest
      /\ op = "manifest_put" => hub'.manifest
      /\ hub'.version = IF op = "version_create" /\ hub.version = Release!Absent
                        THEN "ours" ELSE hub.version
      /\ hub'.latest = IF op = "latest_update" /\ hub.latest = "prior" THEN "ours" ELSE hub.latest
      /\ hub'.lock = IF op = "lock_ref_create" THEN p
                     ELSE IF op = "lock_ref_remove" THEN Release!NoOne ELSE hub.lock
      /\ \A q \in Publishers : q # p =>
            hub'.create[q] = hub.create[q] /\ hub'.cas[q] = hub.cas[q]
  BY <1>0, <1>5, <1>6, AppliedTo
<1>9. CalmServers'
  <2> HIDE DEF c, w
  <2> QED BY <1>0, <1>1, <1>7, <1>8 DEF CalmServers, c
<1>10. /\ v.io = "answered" /\ v.at = w.at /\ v.op = w.op /\ v.cp = w.cp /\ v.state = w.state
  BY <1>2 DEF ProcFields
<1>11. proc'[p] = v /\ journal'[p] = c /\ \A q \in Publishers : journal'[q] = journal[q]
  BY <1>0, <1>2
<1>12. AllPublic => AllPublic'
  BY <1>8 DEF AllPublic, Release!Absent
<1>13. CalmCheckpoint(p, journal[p])'
  <2>1. op = "lock_ref_remove" => AllPublic
    BY <1>1, <1>6, CalmRemoves
  <2>2. /\ op = "lock_ref_create" => c.phase \in Release!AcquirePhases
        /\ op = "lock_ref_remove" => c.phase \in Release!RemovalPhases
    BY <1>1 DEF Release!AcquirePhases, Release!RemovalPhases
  <2>3. op = "lock_ref_create" => ~c.acquired
    BY <1>1, <1>6 DEF BeforeLock
  <2> DEFINE x == hub'.create[p]
             y == hub'.cas[p]
             e == journal'[p]
  <2>4. e = c /\ CreateShows(e.create, x) /\ CasShows(e.cas, y)
    BY <1>7, <1>11
  <2>5. /\ e.runs = hub'.runs
        /\ hub'.version = "ours" => e.create.stage = "verified"
        /\ hub'.latest = "ours" => e.attempted
        /\ e.attempted => e.smoke /\ e.create.stage = "verified"
    BY <1>1, <1>6, <1>8, <2>4 DEF CalmCheckpoint
  <2>6. /\ hub'.lock \in {Release!NoOne, p}
        /\ hub'.lock = p /\ ~e.acquired => e.object /\ e.phase \in Release!AcquirePhases
    BY <1>1, <1>6, <1>8, <2>2, <2>4 DEF CalmCheckpoint
  <2>7. /\ hub'.lock = Release!NoOne /\ e.acquired =>
             AllPublic' /\ (e.removed \/ e.phase \in Release!RemovalPhases)
    BY <1>1, <1>6, <1>8, <1>12, <2>1, <2>2, <2>4 DEF CalmCheckpoint
  <2>8. e.removed => hub'.lock = Release!NoOne
    BY <1>1, <1>6, <1>8, <2>3, <2>4 DEF CalmCheckpoint, Checkpoint
  <2> QED BY <2>4, <2>5, <2>6, <2>7, <2>8 DEF CalmCheckpoint
<1>14. CalmPlace(p, proc[p])'
  <2> DEFINE u == proc'[p]
  <2>1. /\ u.io = "answered" /\ u.at = w.at /\ u.op = w.op /\ u.cp = c /\ u.state = w.state
    BY <1>1, <1>10, <1>11
  <2> HIDE DEF u, w, c
  <2>2. /\ u.at \in {"lock_object", "have_object", "lock_ref", "have_lock"} => ~u.cp.acquired
        /\ u.at \in {"lock_object", "have_object"} => hub'.lock = Release!NoOne
        /\ u.at = "have_lock" \/ u.at = "lock_ref" => hub'.lock = p
        /\ u.at \notin BeforeLock \cup {"lock_gone"} /\ u.at # "unlock" => hub'.lock = p
        /\ u.at = "lock_gone" \/ u.at = "unlock" => hub'.lock = Release!NoOne
    BY <1>0, <1>1, <1>6, <1>8, <2>1 DEF CalmPlace, CalmLock, Sends, w
  <2>3. CalmLock(p, proc[p])'
    BY <2>1, <2>2 DEF CalmLock, Unsent, u
  <2>4. CalmGit(proc[p])'
    BY <1>0, <1>1, <1>8, <2>1 DEF CalmPlace, CalmServers, CalmGit, Sends, Unsent, u, w
  <2>5. CalmRegistry(proc[p])'
    BY <1>0, <1>1, <1>8, <2>1 DEF CalmPlace, CalmServers, CalmRegistry, Sends, VersionRead, u, w
  <2>6. u.io # "failed" /\ u.cp.phase = <<u.op, "pending">>
    BY <1>1, <2>1 DEF w
  <2> QED BY <2>3, <2>4, <2>5, <2>6 DEF CalmPlace, u
<1>15. \A q \in Publishers : journal'[q] # Release!NoCheckpoint =>
          CalmCheckpoint(q, journal[q])' /\ CalmPlace(q, proc[q])'
  BY <1>4, <1>11, <1>13, <1>14
<1> QED BY <1>3, <1>9, <1>15 DEF AtPeace, CalmKept

\* Where a publisher rests after a write that was answered.
LEMMA RestsAfter ==
    ASSUME NEW p \in Publishers, NEW w, NEW c, CalmPlace(p, w), w.cp = c, w.io = "answered",
           <<w.at, w.op>> \in Sends, NEW d, d.acquired = c.acquired, d.smoke = c.smoke
    PROVE  MayRest(p, Release!After(w.op), d, w.state)
<1> DEFINE at == w.at
           op == w.op
           state == w.state
           next == Release!After(op)
<1>1. \/ /\ op = "lock_object_create" /\ at = "lock_object" /\ next = "have_object"
      \/ /\ op = "lock_ref_create" /\ at = "lock_ref" /\ next = "have_lock"
      \/ /\ op = "main_fast_forward" /\ at = "main_read" /\ next = "main_moved"
      \/ /\ op = "version_tag_object_create" /\ at = "tag" /\ next = "tag_ref"
      \/ /\ op = "version_tag_ref_create" /\ at = "tag_ref" /\ next = "tag_made"
      \/ /\ op = "blob_upload_start" /\ at = "blob" /\ next = "have_url"
      \/ /\ op = "blob_upload_finish" /\ at \in {"blob", "blob_send"} /\ next = "blob_made"
      \/ /\ op = "manifest_put" /\ at = "manifest" /\ next = "manifest_made"
      \/ /\ op = "create_probe_seed" /\ at = "create_probe" /\ next = "create_probe"
      \/ /\ op = "create_probe_reject" /\ at = "create_probe" /\ next = "create_rejected"
      \/ /\ op = "version_create" /\ at = "version_create" /\ next = "version_made"
      \/ /\ op = "release_create" /\ at = "release_read" /\ next = "release_made"
      \/ /\ op = "cas_probe_seed" /\ at = "cas_probe" /\ next = "cas_probe"
      \/ /\ op = "cas_probe_cas" /\ at = "cas_probe" /\ next = "cas_probe"
      \/ /\ op = "cas_probe_stale" /\ at = "cas_probe" /\ next = "cas_rejected"
      \/ /\ op = "latest_update" /\ at = "latest_send" /\ next = "latest_made"
      \/ /\ op = "lock_ref_remove" /\ at = "unlock" /\ next = "lock_gone"
  BY DEF Sends, Release!After
<1> HIDE DEF next
<1>2. w.io \notin Unsent
  BY DEF Unsent
<1>3. RestLock(p, next, d)
  BY <1>1, <1>2 DEF CalmPlace, CalmLock, RestLock, BeforeLock, BeforeObject
<1>4. RestGit(next, state)
  BY <1>1, <1>2 DEF CalmPlace, CalmGit, RestGit, PastMain, PastTag, PastVersion, PastSmoke,
                    PastRelease, PastLatest, Closing
<1>5. RestRegistry(next, d, state)
  BY <1>1 DEF CalmPlace, CalmRegistry, RestRegistry, VersionRead, PastVersion, PastSmoke,
              PastRelease, PastLatest, Closing
<1> QED BY <1>3, <1>4, <1>5 DEF MayRest, next

\* WriteSettled.
LEMMA CalmSettled ==
    ASSUME RelInv, AtPeace, seen.stranded = FALSE, NEW p \in Publishers, Release!WriteSettled(p)
    PROVE  CalmKept
<1> DEFINE w == proc[p]
           c == journal[p]
           op == w.op
           next == Release!After(op)
           d == [c EXCEPT !.phase = <<op, "written">>]
           v == [w EXCEPT !.cp = d, !.io = "none", !.op = "none", !.at = next]
<1>0. w.io \in {"answered", "failed"} /\ w.io # "none" /\ Release!World
  BY DEF Release!WriteSettled
<1>1. /\ w.cp = c /\ Checkpoint(c) /\ CalmCheckpoint(p, c) /\ CalmPlace(p, w)
      /\ <<w.at, op>> \in Sends /\ w.io # "failed" /\ Process(w)
      /\ w.at \in BeforeLock => w.at \in {"lock_object", "lock_ref"}
      /\ w.at # "lock_gone"
      /\ w.at \in BeforeLock => ~c.acquired
      /\ w.at \notin BeforeLock => c.acquired
      /\ p # Release!NoOne
  BY <1>0, CalmWrite, ReleaseAssumption
<1>2. hub.runs = c.runs /\ w.io = "answered" /\ DOMAIN w = ProcFields
  BY <1>0, <1>1 DEF CalmCheckpoint, Process
<1>3. /\ journal' = [journal EXCEPT ![p] = d] /\ proc' = [proc EXCEPT ![p] = v]
      /\ UNCHANGED <<hub, late>> /\ seen'.stranded = FALSE
  BY <1>0, <1>1, <1>2 DEF Release!WriteSettled, Release!Journaled, Release!World
<1> HIDE DEF c, w
<1>4. d.acquired = c.acquired /\ d.smoke = c.smoke /\ d.phase = <<op, "written">>
  BY <1>1 DEF Checkpoint, CheckpointFields
<1>5. CalmCheckpoint(p, d)
  <2>1. /\ op = "lock_ref_create" => <<op, "written">> \in Release!AcquirePhases
        /\ op = "lock_ref_remove" => <<op, "written">> \in Release!RemovalPhases
    BY DEF Release!AcquirePhases, Release!RemovalPhases
  <2>2. hub.lock = p /\ ~c.acquired => op = "lock_ref_create"
    BY <1>1, <1>2 DEF CalmPlace, CalmLock, Sends
  <2>3. hub.lock = Release!NoOne /\ c.acquired => op = "lock_ref_remove"
    BY <1>1, <1>2 DEF CalmPlace, CalmLock, Sends
  <2> QED BY <1>1, <2>1, <2>2, <2>3, CalmPhase
<1> HIDE DEF d
<1>6. MayRest(p, next, d, w.state)
  BY <1>1, <1>2, <1>4, RestsAfter
<1> HIDE DEF next
<1>7. Resting(v, next, d, w.state)
  BY <1>2 DEF Resting, ProcFields
<1> HIDE DEF v
<1>8. CalmPlace(p, v)
  BY <1>6, <1>7, RestIsPlace
<1>9. d # Release!NoCheckpoint
  BY <1>4 DEF Release!NoCheckpoint
<1> QED BY <1>3, <1>5, <1>8, <1>9, CalmStep DEF c

\* PublisherStops: the checkpoint stays.
LEMMA CalmStops ==
    ASSUME RelInv, AtPeace, seen.stranded = FALSE, NEW p \in Publishers, Release!PublisherStops(p)
    PROVE  CalmKept
<1>1. /\ UNCHANGED <<hub, late>> /\ UNCHANGED journal /\ seen'.stranded = FALSE
      /\ proc' = [proc EXCEPT ![p] = Release!NotRunning] /\ proc[p].at # "down"
  BY DEF Release!PublisherStops
<1>2. journal[p] # Release!NoCheckpoint /\ CalmCheckpoint(p, journal[p])
  BY <1>1, CalmOf
<1>3. CalmPlace(p, Release!NotRunning)
  BY DEF CalmPlace, CalmLock, CalmGit, CalmRegistry, Release!NotRunning, BeforeLock,
         BeforeObject, PastMain, PastTag, PastVersion, PastSmoke, PastRelease, PastLatest,
         Closing, VersionRead
<1> QED BY <1>1, <1>2, <1>3, CalmStep

\* What a step does to the history beside AtPeace: trouble is never forgotten, and
\* only an end that strands an undisturbed release is noted as one.
Steady ==
    /\ UNCHANGED honours
    /\ \/ UNCHANGED bill
       \/ bill' = [bill EXCEPT !.stops = @ + 1]
       \/ bill' = [bill EXCEPT !.errors = @ + 1]
       \/ bill' = [bill EXCEPT !.foreign = @ + 1]
    /\ seen'.stranded = seen.stranded \/ \E p \in Publishers : \E why : Release!Ends(p, why)

\* The steps that change no server.
LEMMA LocalSteady ==
    ASSUME NEW p \in Publishers, Release!World, UNCHANGED seen \/ \E why : Release!Ends(p, why)
    PROVE  Steady
BY DEF Steady, Release!World

\* Every step of a publisher.
LEMMA StagesSteady ==
    ASSUME RelInv, NEW p \in Publishers,
           \/ \E k \in Checkouts : Release!PublishFresh(p, k) \/ Release!PublishRecovery(p, k)
           \/ Release!LockObjectCreate(p) \/ Release!HaveObject(p)
           \/ Release!LockRefCreate(p) \/ Release!HaveLock(p)
           \/ Release!MainFastForward(p) \/ Release!VersionTag(p) \/ Release!RegistryBlob(p)
           \/ Release!RegistryManifest(p) \/ Release!RegistryVersion(p)
           \/ Release!CreateProbe(p) \/ Release!CreateRejected(p)
           \/ Release!AnonymousPullSmoke(p) \/ Release!GithubRelease(p)
           \/ Release!RegistryLatest(p) \/ Release!CasProbe(p) \/ Release!CasRejected(p)
           \/ Release!LatestArmed(p) \/ Release!LatestUpdate(p) \/ Release!LockRefRemove(p)
           \/ Release!WriteChecked(p) \/ Release!IdentifyLatest(p) \/ Release!WriteSettled(p)
    PROVE  Steady
<1> DEFINE Local == Release!World /\ (UNCHANGED seen \/ \E why : Release!Ends(p, why))
<1>1. ASSUME NEW at, NEW todo, NEW op, NEW next, Release!Stage(p, at, todo, op, next)
      PROVE  Local
  BY <1>1 DEF Release!Stage, Release!WritePending
<1>2. ASSUME NEW at, NEW wanted, NEW next,
             Release!Reread(p, at, wanted, next) \/ Release!Confirms(p, at, wanted, next)
      PROVE  Local
  BY <1>2 DEF Release!Reread, Release!Confirms
<1>3. ASSUME NEW at, NEW c, NEW next, Release!Notes(p, at, c, next)
      PROVE  Local
  BY <1>3 DEF Release!Notes
<1>4. CASE \E k \in Checkouts : Release!PublishFresh(p, k) \/ Release!PublishRecovery(p, k)
  <2>1. PICK k \in Checkouts : Release!PublishFresh(p, k) \/ Release!PublishRecovery(p, k)
    BY <1>4
  <2>2. CASE Release!PublishFresh(p, k)
    BY <2>2, LocalSteady DEF Release!PublishFresh
  <2>3. CASE Release!PublishRecovery(p, k)
    <3>1. Local
      BY <2>3 DEF Release!PublishRecovery
    <3> QED BY <3>1, LocalSteady
  <2> QED BY <2>1, <2>2, <2>3
<1>5. CASE \/ Release!LockObjectCreate(p) \/ Release!HaveObject(p)
           \/ Release!LockRefCreate(p) \/ Release!HaveLock(p)
  <2>1. Local
    BY <1>3, <1>5 DEF Release!LockObjectCreate, Release!HaveObject, Release!LockRefCreate,
                      Release!HaveLock, Release!WritePending
  <2> QED BY <2>1, LocalSteady
<1>6. CASE \/ Release!MainFastForward(p) \/ Release!VersionTag(p) \/ Release!RegistryBlob(p)
           \/ Release!RegistryManifest(p)
  <2>1. Local
    BY <1>1, <1>2, <1>3, <1>6 DEF Release!MainFastForward, Release!VersionTag,
       Release!RegistryBlob, Release!RegistryManifest, Release!WritePending
  <2> QED BY <2>1, LocalSteady
<1>7. CASE Release!RegistryVersion(p) \/ Release!GithubRelease(p) \/ Release!AnonymousPullSmoke(p)
  <2>1. Local
    BY <1>1, <1>2, <1>3, <1>7 DEF Release!RegistryVersion, Release!GithubRelease,
       Release!AnonymousPullSmoke, Release!SmokePull, Release!SmokeDelete,
       Release!SmokeRecord, Release!WritePending
  <2> QED BY <2>1, LocalSteady
<1>8. CASE Release!CreateProbe(p)
  <2>1. Local
    BY <1>8 DEF Release!CreateProbe, Release!WritePending
  <2> QED BY <2>1, LocalSteady
<1>9. CASE Release!CasProbe(p)
  <2>1. Local
    BY <1>9 DEF Release!CasProbe, Release!WritePending
  <2> QED BY <2>1, LocalSteady
<1>10. CASE Release!CreateRejected(p) \/ Release!CasRejected(p) \/ Release!LatestArmed(p)
  <2>1. Local
    BY <1>10 DEF Release!CreateRejected, Release!CasRejected, Release!LatestArmed
  <2> QED BY <2>1, LocalSteady
<1>11. CASE Release!RegistryLatest(p)
  <2>0. proc[p].cp.attempted \in BOOLEAN /\ proc[p].state.latest \in {"prior", "ours"}
    <3>1. proc[p].at = "latest" /\ proc[p].at # "down"
      BY <1>11 DEF Release!RegistryLatest, Release!At
    <3> QED BY <3>1, OfOne DEF Around, Checkpoint
  <2>1. Local
    BY <1>11, <2>0 DEF Release!RegistryLatest
  <2> QED BY <2>1, LocalSteady
<1>12. CASE Release!LatestUpdate(p) \/ Release!LockRefRemove(p)
  <2>1. Local
    BY <1>1, <1>2, <1>12 DEF Release!LatestUpdate, Release!LockRefRemove, Release!WritePending
  <2> QED BY <2>1, LocalSteady
<1>13. CASE Release!WriteChecked(p) \/ Release!IdentifyLatest(p) \/ Release!WriteSettled(p)
  <2>1. Local
    BY <1>13 DEF Release!WriteChecked, Release!IdentifyLatest, Release!WriteSettled
  <2> QED BY <2>1, LocalSteady
<1> QED BY <1>4, <1>5, <1>6, <1>7, <1>8, <1>9, <1>10, <1>11, <1>12, <1>13

\* Every other step.
LEMMA ServersSteady ==
    ASSUME RelInv,
           \/ Release!ArrivesLate \/ Release!ForeignWrite
           \/ \E p \in Publishers : \/ Release!WriteSent(p) \/ Release!WriteUnanswered(p)
                                    \/ Release!PublisherStops(p)
    PROVE  Steady /\ seen'.stranded = seen.stranded
<1>1. DOMAIN seen = {"overwritten", "updates", "stranded"}
  BY DEF RelInv, Servers
<1>2. \A p, op : /\ Release!Noted(p, op).stranded = seen.stranded
                 /\ Release!Counted(seen, op).stranded = seen.stranded
                 /\ Release!Counted(Release!Noted(p, op), op).stranded = seen.stranded
  BY <1>1 DEF Release!Noted, Release!Counted
<1>3. CASE Release!ArrivesLate
  BY <1>2, <1>3 DEF Release!ArrivesLate, Steady
<1>4. CASE Release!ForeignWrite
  BY <1>4 DEF Release!ForeignWrite, Steady
<1>5. CASE \E p \in Publishers : Release!WriteSent(p)
  BY <1>2, <1>5 DEF Release!WriteSent, Steady
<1>6. CASE \E p \in Publishers : Release!WriteUnanswered(p)
  BY <1>2, <1>6 DEF Release!WriteUnanswered, Steady
<1>7. CASE \E p \in Publishers : Release!PublisherStops(p)
  BY <1>7 DEF Release!PublisherStops, Steady
<1> QED BY <1>3, <1>4, <1>5, <1>6, <1>7

\* A step of a release that was disturbed, or is by it.
LEMMA DisturbedStep ==
    ASSUME CalmInv, RelInv, Steady, ReceiptsKept
    PROVE  /\ DOMAIN bill' = {"stops", "errors", "foreign"}
           /\ bill'.errors \in Nat /\ bill'.foreign \in Nat
           /\ ~Release!Undisturbed => seen'.stranded = FALSE /\ ~Release!Undisturbed'
<1>1. /\ DOMAIN bill = {"stops", "errors", "foreign"} /\ bill.errors \in Nat
      /\ bill.foreign \in Nat /\ seen.stranded = FALSE
  BY DEF CalmInv
<1>2. /\ DOMAIN bill' = {"stops", "errors", "foreign"}
      /\ bill'.errors \in {bill.errors, bill.errors + 1}
      /\ bill'.foreign \in {bill.foreign, bill.foreign + 1}
  BY <1>1 DEF Steady
<1>3. /\ bill'.errors \in Nat /\ bill'.foreign \in Nat
      /\ bill'.errors = 0 => bill.errors = 0
      /\ bill'.foreign = 0 => bill.foreign = 0
  BY <1>1, <1>2
<1>4. Release!Undisturbed' => Release!Undisturbed
  BY <1>3 DEF Release!Undisturbed, Steady, ReceiptsKept
<1>5. ~Release!Undisturbed => seen'.stranded = FALSE
  <2>1. DOMAIN seen = {"overwritten", "updates", "stranded"}
    BY DEF RelInv, Servers
  <2> QED BY <1>1, <2>1 DEF Steady, Release!Ends
<1> QED BY <1>2, <1>3, <1>4, <1>5

\* A request that failed and a write of others are trouble.
LEMMA TroubleDisturbs ==
    ASSUME CalmInv, Release!ForeignWrite \/ \E p \in Publishers : Release!WriteUnanswered(p)
    PROVE  ~Release!Undisturbed'
<1>1. DOMAIN bill = {"stops", "errors", "foreign"} /\ bill.errors \in Nat /\ bill.foreign \in Nat
  BY DEF CalmInv
<1>2. bill.errors + 1 # 0 /\ bill.foreign + 1 # 0
  BY <1>1
<1>3. bill'.errors # 0 \/ bill'.foreign # 0
  BY <1>1, <1>2 DEF Release!ForeignWrite, Release!WriteUnanswered
<1> QED BY <1>3 DEF Release!Undisturbed

\* A step of an undisturbed release.
LEMMA CalmStepOf ==
    ASSUME RelInv, AtPeace, seen.stranded = FALSE, Release!Undisturbed, Release!ReleaseNext
    PROVE  \/ CalmKept
           \/ Release!ForeignWrite \/ \E p \in Publishers : Release!WriteUnanswered(p)
<1>1. ~Release!ArrivesLate
  BY DEF Release!ArrivesLate, AtPeace, CalmServers
<1>2. ASSUME NEW p \in Publishers,
             \/ \E k \in Checkouts : Release!PublishFresh(p, k) \/ Release!PublishRecovery(p, k)
             \/ Release!LockObjectCreate(p) \/ Release!HaveObject(p)
             \/ Release!LockRefCreate(p) \/ Release!HaveLock(p)
      PROVE  CalmKept
  BY <1>2, CalmFresh, CalmRecovery, CalmLocking
<1>3. ASSUME NEW p \in Publishers,
             \/ Release!MainFastForward(p) \/ Release!VersionTag(p)
             \/ Release!RegistryBlob(p) \/ Release!RegistryManifest(p)
             \/ Release!RegistryVersion(p) \/ Release!CreateProbe(p) \/ Release!CreateRejected(p)
             \/ Release!AnonymousPullSmoke(p) \/ Release!GithubRelease(p)
      PROVE  CalmKept
  BY <1>3, CalmEarly, CalmVersion, CalmCreateProbe, CalmCreateRejected, CalmRelease
<1>4. ASSUME NEW p \in Publishers,
             \/ Release!RegistryLatest(p) \/ Release!CasProbe(p) \/ Release!CasRejected(p)
             \/ Release!LatestArmed(p) \/ Release!LatestUpdate(p) \/ Release!LockRefRemove(p)
      PROVE  CalmKept
  BY <1>4, CalmLatest, CalmCasProbe, CalmCasRejected, CalmUpdate, CalmUnlock
<1>5. ASSUME NEW p \in Publishers,
             \/ Release!WriteChecked(p) \/ Release!IdentifyLatest(p) \/ Release!WriteSent(p)
             \/ Release!WriteSettled(p) \/ Release!PublisherStops(p)
      PROVE  CalmKept
  BY <1>5, CalmChecks, CalmSent, CalmSettled, CalmStops
<1> QED BY <1>1, <1>2, <1>3, <1>4, <1>5 DEF Release!ReleaseNext

\* CalmInv holds at first.
LEMMA CalmStart == Release!ReleaseInit => CalmInv
<1> SUFFICES ASSUME Release!ReleaseInit PROVE CalmInv
  OBVIOUS
<1>1. /\ journal = [p \in Publishers |-> Release!NoCheckpoint] /\ late = {}
      /\ seen.stranded = FALSE /\ bill = [stops |-> 0, errors |-> 0, foreign |-> 0]
  BY DEF Release!ReleaseInit
<1>2. /\ hub.main = "prior" /\ hub.tag = Release!Absent /\ hub.release = Release!Absent
      /\ hub.version = Release!Absent /\ hub.latest = "prior"
      /\ hub.create = [p \in Publishers |-> Release!EmptyReference]
      /\ hub.cas = [p \in Publishers |-> Release!EmptyReference]
  BY DEF Release!ReleaseInit
<1>3. CalmServers
  BY <1>1, <1>2 DEF CalmServers, Release!EmptyReference
<1>4. AtPeace
  BY <1>1, <1>3 DEF AtPeace
<1> QED BY <1>1, <1>4 DEF CalmInv

\* Every step keeps it, undisturbed or not.
LEMMA CalmNext ==
    ASSUME RelInv, CalmInv, Release!ReleaseNext
    PROVE  CalmInv'
<1>1. ReceiptsKept
  BY RelStep
<1>2. Steady
  BY StagesSteady, ServersSteady DEF Release!ReleaseNext
<1>3. /\ DOMAIN bill' = {"stops", "errors", "foreign"}
      /\ bill'.errors \in Nat /\ bill'.foreign \in Nat
      /\ ~Release!Undisturbed => seen'.stranded = FALSE /\ ~Release!Undisturbed'
  BY <1>1, <1>2, DisturbedStep
<1>4. CASE ~Release!Undisturbed
  BY <1>3, <1>4 DEF CalmInv
<1>5. CASE Release!Undisturbed
  <2>1. AtPeace /\ seen.stranded = FALSE
    BY <1>5 DEF CalmInv
  <2>2. CASE CalmKept
    BY <1>3, <2>2 DEF CalmInv, CalmKept
  <2>3. CASE Release!ForeignWrite \/ \E p \in Publishers : Release!WriteUnanswered(p)
    <3>1. ~Release!Undisturbed'
      BY <2>3, TroubleDisturbs
    <3>2. seen'.stranded = FALSE
      BY <2>1, <2>3, ServersSteady
    <3> QED BY <1>3, <3>1, <3>2 DEF CalmInv
  <2> QED BY <1>5, <2>1, <2>2, <2>3, CalmStepOf
<1> QED BY <1>4, <1>5

\* Crashes alone never strand a release, however often and wherever the
\* publisher dies: while no request failed, nobody else wrote or holds a
\* checkpoint and the registry honours conditions, publish() called again with
\* the newest checkpoint goes on, completes, is refused for its local sources,
\* or stops at an update of latest whose outcome it cannot know (publish in
\* task12.py).
THEOREM ReleaseIsResumable == OpsSpec => []CrashesAreResumable
<1>1. OpsInit => CalmInv
  BY ReleasePart, CalmStart
<1>2. ASSUME RelInv, CalmInv, [OpsNext]_opsVars
      PROVE  CalmInv'
  <2>1. ASSUME UNCHANGED releaseVars
        PROVE  CalmInv'
    <3>1. UNCHANGED <<hub, honours, journal, proc, late, seen, bill>>
      BY <2>1 DEF releaseVars
    <3>2. AtPeace => AtPeace'
      <4>1. \A q, d : CalmCheckpoint(q, d) => CalmCheckpoint(q, d)'
        BY <3>1 DEF CalmCheckpoint, AllPublic
      <4>2. \A q, v : CalmPlace(q, v) => CalmPlace(q, v)'
        BY <3>1 DEF CalmPlace, CalmLock, CalmGit, CalmRegistry
      <4>3. CalmServers => CalmServers'
        BY <3>1 DEF CalmServers
      <4> QED BY <3>1, <4>1, <4>2, <4>3 DEF AtPeace
    <3> QED BY <1>2, <3>1, <3>2 DEF CalmInv, Release!Undisturbed
  <2> QED BY <1>2, <2>1, CalmNext, ReleasePart
<1>3. CalmInv => CrashesAreResumable
  BY DEF CalmInv, CrashesAreResumable, Release!CrashesAreResumable
<1> QED BY <1>1, <1>2, <1>3, RelAlways, PTL DEF OpsSpec
=============================================================================

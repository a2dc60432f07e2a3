----------------------- MODULE FileTranscriptionProofs -----------------------
(***************************************************************************)
(* FileTranscription for every set of files, every length of their media,  *)
(* every chunk size and every number of replaced recordings.               *)
(*                                                                         *)
(* Four results: whoever waits for a file is told how it ended, unless the *)
(* receipts failed closed or the file was stale when it was taken; a       *)
(* published subtitle is made of one recording; a gate workload reported   *)
(* complete has its subtitle on disk; and the whole file transcription,    *)
(* not only the publication on its own, implements SubtitleFile.           *)
(*                                                                         *)
(* They rest on one inductive invariant.  Its parts say where the chunk    *)
(* loop stands (Progress: the committed records follow each other from the *)
(* start of the media to the cursor), which recording the chunks in hand   *)
(* were read from (Recording), and what a gate publication has brought to  *)
(* disk by each of its steps (GateKeeps).                                  *)
(***************************************************************************)
EXTENDS FileTranscription, AdaptiveChunkProofs, TLAPS

(***************************************************************************)
(* The publication on its own implements SubtitleFile.  The refinement     *)
(* rests on one inductive invariant.  A path shows and keeps whole         *)
(* contents only because nothing reaches it before its bytes are synced,   *)
(* and what is installed is the payload because a publication past the     *)
(* sync of its staging file still has the whole payload there.             *)
(***************************************************************************)

\* The bytes behind every path are on disk, and whole.
WholePaths ==
    \A p \in Paths : /\ target[p].now \in Contents
                     /\ target[p].kept \in Contents
                     /\ target[p].synced

\* A publication that has begun has a transcript, and one that has written
\* its staging file has the whole of it there, synced before it is installed.
WholeStaging ==
    /\ pubpc \in {"write", "sync", "verify", "install"} => payload \in Transcripts
    /\ pubpc \in {"sync", "verify", "install"} => staging.data = payload
    /\ pubpc \in {"verify", "install"} => staging.synced

PubInv == PubTypeOK /\ WholePaths /\ WholeStaging

-----------------------------------------------------------------------------
\* AnyPath, the path of a publisher that has nothing to do, is a path.
LEMMA AnyPathIsPath == AnyPath \in Paths
BY PublicationAssumption DEF AnyPath

\* What the publication finds when it starts satisfies the invariant.
LEMMA PubInitInv == PubInit => PubInv
<1> SUFFICES ASSUME PubInit PROVE PubInv
    OBVIOUS
<1>1. PICK f \in [Paths -> {Absent, Foreign}] :
         target = [p \in Paths |-> [now |-> f[p], kept |-> f[p], synced |-> TRUE]]
    BY DEF PubInit
<1>2. {Absent, Foreign} \subseteq Contents
    BY PublicationAssumption DEF Contents
<1>3. PubTypeOK
    BY <1>1, <1>2, AnyPathIsPath DEF PubInit, PubTypeOK, NoStaging, PubSteps, Contents
<1>4. WholePaths
    BY <1>1, <1>2 DEF WholePaths
<1>5. WholeStaging
    BY DEF PubInit, WholeStaging
<1> QED
    BY <1>3, <1>4, <1>5 DEF PubInv

-----------------------------------------------------------------------------
(* The steps that leave every path alone. *)

\* The two staging files a call is born and left with have the type of one.
LEMMA StagingTypes ==
    /\ NoStaging \in [data : Contents \cup {Torn}, synced : BOOLEAN, own : BOOLEAN]
    /\ [data |-> Torn, synced |-> FALSE, own |-> TRUE]
          \in [data : Contents \cup {Torn}, synced : BOOLEAN, own : BOOLEAN]
    /\ Transcripts \cup {Absent} \subseteq Contents \cup {Torn}
BY DEF NoStaging, Contents

\* Raising moves to the clean-up and changes nothing else.
LEMMA RaiseKeeps ==
    ASSUME PubInv, Raise
    PROVE  PubInv'
BY DEF PubInv, PubTypeOK, WholePaths, WholeStaging, Raise, PubSteps

\* The steps before and after the installation keep the invariant.
LEMMA QuietStepKeeps ==
    ASSUME PubInv,
           \/ \E p \in Paths, t \in Transcripts : BeginPublish(p, t)
           \/ WriteStaging \/ SyncStaging \/ VerifyStaging \/ VerifyLink
           \/ UnlinkStaging \/ CleanUp \/ TakeResult \/ ForeignStaging
    PROVE  PubInv'
<1> USE DEF PubInv, PubTypeOK, WholePaths, WholeStaging, PubSteps
<1>1. ASSUME NEW p \in Paths, NEW t \in Transcripts, BeginPublish(p, t)
      PROVE  PubInv'
    BY <1>1, StagingTypes DEF BeginPublish
<1>2. CASE WriteStaging
    BY <1>2, RaiseKeeps DEF WriteStaging
<1>3. CASE SyncStaging
    BY <1>3, RaiseKeeps DEF SyncStaging
<1>4. CASE VerifyStaging
    BY <1>4, RaiseKeeps DEF VerifyStaging
<1>5. CASE VerifyLink
    BY <1>5, RaiseKeeps DEF VerifyLink
<1>6. CASE UnlinkStaging
    BY <1>6, RaiseKeeps, StagingTypes DEF UnlinkStaging
<1>7. CASE CleanUp
    BY <1>7, StagingTypes DEF CleanUp
<1>8. CASE TakeResult
    BY <1>8, AnyPathIsPath, StagingTypes DEF TakeResult, CallGone
<1>9. CASE ForeignStaging
    BY <1>9 DEF ForeignStaging
<1> QED
    BY <1>1, <1>2, <1>3, <1>4, <1>5, <1>6, <1>7, <1>8, <1>9

-----------------------------------------------------------------------------
(* The steps that change what a path holds. *)

\* A whole, synced file under one path keeps every path whole.
LEMMA WholeEntryKeeps ==
    ASSUME PubInv, NEW c \in Contents, NEW k \in Contents, NEW q \in Paths,
           target' = [target EXCEPT ![q] = [now |-> c, kept |-> k, synced |-> TRUE]]
    PROVE  /\ target' \in [Paths -> [now : Contents \cup {Torn},
                                     kept : Contents \cup {Torn},
                                     synced : BOOLEAN]]
           /\ WholePaths'
BY DEF PubInv, PubTypeOK, WholePaths

\* os.replace installs the synced payload.
LEMMA ReplaceKeeps ==
    ASSUME PubInv, ReplaceTarget
    PROVE  PubInv'
<1>1. CASE Raise
    BY <1>1, RaiseKeeps
<1>2. CASE ~Raise
  <2>1. /\ pubpc = "install" /\ pubpc' = "settle" /\ staging' = NoStaging
        /\ UNCHANGED <<gate, pubpath, payload>>
        /\ target' = [target EXCEPT ![pubpath] =
                         [now |-> staging.data, kept |-> target[pubpath].kept,
                          synced |-> staging.synced]]
      BY <1>2 DEF ReplaceTarget, PubInv, PubTypeOK
  <2>2. /\ staging.data \in Contents /\ staging.synced = TRUE
        /\ pubpath \in Paths /\ target[pubpath].kept \in Contents
      BY <2>1 DEF PubInv, PubTypeOK, WholeStaging, WholePaths, Contents
  <2>3. target' = [target EXCEPT ![pubpath] =
                      [now |-> staging.data, kept |-> target[pubpath].kept,
                       synced |-> TRUE]]
      BY <2>1, <2>2
  <2> QED
      BY <2>1, <2>2, <2>3, WholeEntryKeeps
         DEF PubInv, PubTypeOK, WholeStaging, NoStaging, Contents, PubSteps
<1> QED
    BY <1>1, <1>2

\* os.link installs the synced payload, or a foreign file that is whole.
LEMMA LinkKeeps ==
    ASSUME PubInv, LinkTarget
    PROVE  PubInv'
<1>1. CASE Raise
    BY <1>1, RaiseKeeps
<1>2. CASE ~Raise
  <2>1. /\ pubpc = "install" /\ pubpc' = "verify_link"
        /\ UNCHANGED <<gate, staging, pubpath, payload>>
        /\ target' = [target EXCEPT ![pubpath] =
                         [now |-> NamedBytes, kept |-> target[pubpath].kept,
                          synced |-> staging.synced]]
      BY <1>2 DEF LinkTarget, PubInv, PubTypeOK
  <2>2. /\ NamedBytes \in Contents /\ staging.synced = TRUE
        /\ pubpath \in Paths /\ target[pubpath].kept \in Contents
      BY <2>1, PublicationAssumption
         DEF PubInv, PubTypeOK, WholeStaging, WholePaths, Contents, NamedBytes
  <2>3. target' = [target EXCEPT ![pubpath] =
                      [now |-> NamedBytes, kept |-> target[pubpath].kept,
                       synced |-> TRUE]]
      BY <2>1, <2>2
  <2> QED
      BY <2>1, <2>2, <2>3, WholeEntryKeeps
         DEF PubInv, PubTypeOK, WholeStaging, PubSteps
<1> QED
    BY <1>1, <1>2

\* The sync of the directory makes what is shown what is kept.
LEMMA SettleKeeps ==
    ASSUME PubInv, SyncDirectory
    PROVE  PubInv'
<1>1. CASE Raise
    BY <1>1, RaiseKeeps
<1>2. CASE UNCHANGED target
    BY <1>1, <1>2, RaiseKeeps
       DEF SyncDirectory, PubInv, PubTypeOK, WholePaths, WholeStaging, PubSteps
<1>3. CASE target' = [target EXCEPT ![pubpath].kept = target[pubpath].now]
    BY <1>1, <1>3, RaiseKeeps
       DEF SyncDirectory, PubInv, PubTypeOK, WholePaths, WholeStaging, PubSteps
<1> QED
    BY <1>1, <1>2, <1>3 DEF SyncDirectory

\* Another writer's whole file keeps every path whole.
LEMMA ForeignKeeps ==
    ASSUME PubInv, ForeignWrite
    PROVE  PubInv'
<1>1. Foreign \in Contents /\ pubpath \in Paths
    BY PublicationAssumption DEF Contents, PubInv, PubTypeOK
<1> QED
    BY <1>1, WholeEntryKeeps DEF ForeignWrite, PubInv, PubTypeOK, WholeStaging

\* A power loss leaves whole files, because no path has unsynced bytes.
LEMMA CrashKeeps ==
    ASSUME PubInv, Crash
    PROVE  PubInv'
<1>1. PICK f \in [Paths -> Contents \cup {Torn}] :
         /\ \A p \in Paths : f[p] \in Survivors(target[p])
         /\ target' = [p \in Paths |-> [now |-> f[p], kept |-> f[p], synced |-> TRUE]]
    BY DEF Crash
<1>2. \A p \in Paths : f[p] \in Contents
    BY <1>1 DEF Survivors, PubInv, WholePaths
<1>3. WholePaths'
    BY <1>1, <1>2 DEF WholePaths
<1>4. PubTypeOK'
    BY <1>1, AnyPathIsPath DEF Crash, CallGone, PubInv, PubTypeOK, NoStaging, PubSteps, Contents
<1>5. WholeStaging'
    BY DEF Crash, CallGone, WholeStaging
<1> QED
    BY <1>3, <1>4, <1>5 DEF PubInv

\* Every step keeps the invariant.
LEMMA PubNextInv == PubInv /\ [PubNext]_pubVars => PubInv'
<1> SUFFICES ASSUME PubInv, [PubNext]_pubVars PROVE PubInv'
    OBVIOUS
<1>1. CASE UNCHANGED pubVars
    BY <1>1 DEF pubVars, PubInv, PubTypeOK, WholePaths, WholeStaging
<1>2. CASE PubNext
    BY <1>2, QuietStepKeeps, ReplaceKeeps, LinkKeeps, SettleKeeps, ForeignKeeps, CrashKeeps
       DEF PubNext, PubStep, PubEnv
<1> QED
    BY <1>1, <1>2

\* PubTypeOK and the wholeness of every path hold in every state: no reader
\* of a subtitle path ever opens a part of a subtitle (_atomic_publish).
THEOREM PathsStayWhole == PubSpec => [](PubTypeOK /\ WholePaths)
<1>1. PubInv => PubTypeOK /\ WholePaths
    BY DEF PubInv
<1> QED
    BY <1>1, PubInitInv, PubNextInv, PTL DEF PubSpec

-----------------------------------------------------------------------------
(* The refinement. *)

Shown == [p \in Paths |-> target[p].now]
Past == [p \in Paths |-> target[p].kept]

\* The initial states map to initial states of SubtitleFile.
LEMMA InitRefines == PubInit => Files!FilesInit
<1> SUFFICES ASSUME PubInit PROVE Files!FilesInit
    OBVIOUS
<1>1. \A p \in Paths : target[p].now = target[p].kept /\ target[p].now \in Contents
  <2>1. PICK f \in [Paths -> {Absent, Foreign}] :
           target = [p \in Paths |-> [now |-> f[p], kept |-> f[p], synced |-> TRUE]]
      BY DEF PubInit
  <2> QED
      BY <2>1, PublicationAssumption DEF Contents
<1>2. Shown = Past /\ Shown \in [Paths -> Contents]
    BY <1>1 DEF Shown, Past
<1>3. gate \in BOOLEAN
    BY DEF PubInit
<1> QED
    BY <1>2, <1>3 DEF Files!FilesInit, Files!Contents, Contents, Shown, Past

\* A step that leaves the paths and the gate alone maps to a stutter.
LEMMA QuietRefines ==
    ASSUME UNCHANGED <<gate, target>>
    PROVE  UNCHANGED Files!filesVars
BY DEF Files!filesVars

\* A whole file that takes the place of none, or of any outside the gate,
\* maps to Appear.
LEMMA EntryRefines ==
    ASSUME PubInv, gate' = gate, NEW c \in Transcripts,
           NEW k \in {c, target[pubpath].kept},
           gate => target[pubpath].now = Absent,
           target' = [target EXCEPT ![pubpath] = [now |-> c, kept |-> k, synced |-> TRUE]]
    PROVE  Files!FilesNext
<1>1. pubpath \in Paths /\ target \in [Paths -> [now : Contents \cup {Torn},
                                                 kept : Contents \cup {Torn},
                                                 synced : BOOLEAN]]
    BY DEF PubInv, PubTypeOK
<1>2. Shown' = [Shown EXCEPT ![pubpath] = c]
    BY <1>1 DEF Shown
<1>3. Past' = [Past EXCEPT ![pubpath] = k]
    BY <1>1 DEF Past
<1>4. [Past EXCEPT ![pubpath] = target[pubpath].kept] = Past
    BY <1>1 DEF Past
<1>5. gate => Shown[pubpath] = Absent
    BY <1>1 DEF Shown
<1>6. PICK p \in Paths : p = pubpath
    BY <1>1
<1>7. Files!Appear(p, c)
    BY <1>2, <1>3, <1>4, <1>5, <1>6 DEF Files!Appear, Shown, Past
<1> QED
    BY <1>7 DEF Files!FilesNext

\* The two ways to install a subtitle map to Appear or to a stutter.
LEMMA InstallRefines ==
    ASSUME PubInv, ReplaceTarget \/ LinkTarget
    PROVE  [Files!FilesNext]_Files!filesVars
<1>1. CASE Raise
    BY <1>1, QuietRefines DEF Raise
<1>2. CASE ReplaceTarget /\ ~Raise
  <2>1. /\ pubpc = "install" /\ ~gate /\ gate' = gate
        /\ target' = [target EXCEPT ![pubpath] =
                         [now |-> staging.data, kept |-> target[pubpath].kept,
                          synced |-> staging.synced]]
      BY <1>2 DEF ReplaceTarget, PubInv, PubTypeOK
  <2>2. staging.data \in Transcripts /\ staging.synced = TRUE /\ pubpath \in Paths
      BY <2>1 DEF PubInv, PubTypeOK, WholeStaging
  <2>3. PICK c \in Transcripts : c = staging.data
      BY <2>2
  <2>4. PICK k \in {c, target[pubpath].kept} : k = target[pubpath].kept
      OBVIOUS
  <2> QED
      BY <2>1, <2>2, <2>3, <2>4, EntryRefines
<1>3. CASE LinkTarget /\ ~Raise
  <2>1. /\ pubpc = "install" /\ target[pubpath].now = Absent /\ gate' = gate
        /\ target' = [target EXCEPT ![pubpath] =
                         [now |-> NamedBytes, kept |-> target[pubpath].kept,
                          synced |-> staging.synced]]
      BY <1>3 DEF LinkTarget, PubInv, PubTypeOK
  <2>2. NamedBytes \in Transcripts /\ staging.synced = TRUE /\ pubpath \in Paths
      BY <2>1, PublicationAssumption DEF PubInv, PubTypeOK, WholeStaging, NamedBytes
  <2>3. PICK c \in Transcripts : c = NamedBytes
      BY <2>2
  <2>4. PICK k \in {c, target[pubpath].kept} : k = target[pubpath].kept
      OBVIOUS
  <2> QED
      BY <2>1, <2>2, <2>3, <2>4, EntryRefines
<1> QED
    BY <1>1, <1>2, <1>3

\* The sync of the directory maps to Settle or to a stutter.
LEMMA SyncDirectoryRefines ==
    ASSUME PubInv, SyncDirectory
    PROVE  [Files!FilesNext]_Files!filesVars
<1>1. CASE UNCHANGED <<gate, target>>
    BY <1>1, QuietRefines
<1>2. CASE ~UNCHANGED <<gate, target>>
  <2>1. gate' = gate /\ target' = [target EXCEPT ![pubpath].kept = target[pubpath].now]
      BY <1>2 DEF SyncDirectory, Raise
  <2>2. pubpath \in Paths /\ target \in [Paths -> [now : Contents \cup {Torn},
                                                   kept : Contents \cup {Torn},
                                                   synced : BOOLEAN]]
      BY DEF PubInv, PubTypeOK
  <2>3. Shown' = Shown
      BY <2>1, <2>2 DEF Shown
  <2>4. Past' = [Past EXCEPT ![pubpath] = Shown[pubpath]]
      BY <2>1, <2>2 DEF Past, Shown
  <2>5. PICK p \in Paths : p = pubpath
      BY <2>2
  <2>6. Files!Settle(p)
      BY <2>1, <2>3, <2>4, <2>5 DEF Files!Settle, Shown, Past
  <2> QED
      BY <2>6 DEF Files!FilesNext
<1> QED
    BY <1>1, <1>2

\* A foreign file maps to Appear of a subtitle the disk already knows.
LEMMA ForeignRefines ==
    ASSUME PubInv, ForeignWrite
    PROVE  [Files!FilesNext]_Files!filesVars
<1>1. pubpath \in Paths /\ Foreign \in Transcripts
    BY PublicationAssumption DEF PubInv, PubTypeOK
<1> QED
    BY <1>1, EntryRefines DEF ForeignWrite

\* A power loss maps to PowerLoss: each path shows what it showed or kept.
LEMMA CrashRefines ==
    ASSUME PubInv, Crash
    PROVE  [Files!FilesNext]_Files!filesVars
<1>1. PICK f \in [Paths -> Contents \cup {Torn}] :
         /\ \A p \in Paths : f[p] \in Survivors(target[p])
         /\ target' = [p \in Paths |-> [now |-> f[p], kept |-> f[p], synced |-> TRUE]]
    BY DEF Crash
<1>2. \A p \in Paths : f[p] \in {target[p].now, target[p].kept} /\ f[p] \in Contents
    BY <1>1 DEF Survivors, PubInv, WholePaths
<1>3. Shown' = f /\ Past' = f
    BY <1>1 DEF Shown, Past
<1>4. Shown' \in [Paths -> Contents]
    BY <1>1, <1>2, <1>3
<1>5. \A p \in Paths : Shown'[p] \in {Shown[p], Past[p]}
    BY <1>2, <1>3 DEF Shown, Past
<1>6. gate' = gate
    BY DEF Crash
<1>7. Files!PowerLoss
    BY <1>3, <1>4, <1>5, <1>6 DEF Files!PowerLoss, Files!Contents, Contents, Shown, Past
<1> QED
    BY <1>7 DEF Files!FilesNext

\* Every step maps to a step of SubtitleFile or to a stutter.
LEMMA NextRefines ==
    PubInv /\ [PubNext]_pubVars => [Files!FilesNext]_Files!filesVars
<1> SUFFICES ASSUME PubInv, [PubNext]_pubVars
             PROVE  [Files!FilesNext]_Files!filesVars
    OBVIOUS
<1>1. CASE UNCHANGED <<gate, target>>
    BY <1>1, QuietRefines
<1>2. CASE ReplaceTarget \/ LinkTarget
    BY <1>2, InstallRefines
<1>3. CASE SyncDirectory
    BY <1>3, SyncDirectoryRefines
<1>4. CASE ForeignWrite
    BY <1>4, ForeignRefines
<1>5. CASE Crash
    BY <1>5, CrashRefines
<1> QED
    BY <1>1, <1>2, <1>3, <1>4, <1>5
       DEF PubNext, PubStep, PubEnv, pubVars, BeginPublish, WriteStaging, SyncStaging,
           VerifyStaging, VerifyLink, UnlinkStaging, CleanUp, TakeResult,
           ForeignStaging, Raise

\* Publication implements SubtitleFile, whatever the paths and transcripts,
\* with a power loss or a foreign writer between any two of its steps.
THEOREM PublicationRefines == PubSpec => PublishesWholeFiles
<1>1. PubInit => Files!FilesInit
    BY InitRefines
<1>2. PubInv /\ [PubNext]_pubVars => [Files!FilesNext]_Files!filesVars
    BY NextRefines
<1> QED
    BY <1>1, <1>2, PubInitInv, PubNextInv, PTL
       DEF PubSpec, PublishesWholeFiles, Files!FilesSpec

-----------------------------------------------------------------------------
(***************************************************************************)
(* The transcription of a file.                                            *)
(***************************************************************************)

Generations == 0 .. MaxChanges

\* A record of the journal.
Interval == [from : Nat, to : Nat, gen : Generations]

\* The state of a receipt coordinator.
ReceiptStates ==
    [bound : BOOLEAN, uncommitted : BOOLEAN, cursor : Nat,
     completed : Seq(Paths), aborted : BOOLEAN, failed : BOOLEAN]

FtSteps == {"idle", "admit", "load", "whole", "whole_infer", "release",
            "recover", "plan", "extract", "started", "infer", "commit",
            "committed", "finish", "join", "publish", "complete", "fail",
            "final", "stale", "down"}

\* The steps with a planned window, and those with a rest of the media left.
Windowed == {"extract", "started", "infer", "commit", "committed"}
Unfinished == Windowed \cup {"whole", "whole_infer", "release", "recover", "plan"}

FtTypeOK ==
    /\ segmented \in BOOLEAN
    /\ validated \in BOOLEAN
    /\ pc \in FtSteps
    /\ job \in Paths
    /\ media \in Generations
    /\ admitted \in 0 .. media
    /\ chunk \in Budget(Baseline)
    /\ cursor \in Nat
    /\ window \in Nat
    /\ audio \in 0 .. media
    /\ journal \in [records : Seq(Interval), poisoned : BOOLEAN, open : BOOLEAN]
    /\ result \in Seq(Interval)
    /\ receipts \in ReceiptStates

\* The records follow each other from the start of the media to upto.
Chain(r, upto) ==
    /\ IF r = <<>> THEN upto = 0 ELSE r[1].from = 0 /\ r[Len(r)].to = upto
    /\ \A i \in 1 .. Len(r) - 1 : r[i].to = r[i + 1].from

\* All of the records were read from recording g.
Sole(r, g) == \A i \in 1 .. Len(r) : r[i].gen = g

Progress ==
    /\ pc \in {"idle", "admit", "load"} => journal.records = <<>> /\ cursor = 0
    /\ pc \in Unfinished => /\ cursor < DurationOf[job]
                            /\ Chain(journal.records,
                                     IF pc = "committed" THEN window ELSE cursor)
    /\ pc \in Windowed => cursor < window /\ window <= DurationOf[job]
    /\ pc = "finish" => Chain(journal.records, DurationOf[job])
    /\ pc = "join" => Chain(result, DurationOf[job])
    /\ pc = "release" => verdict \in {"pressure", "memory"}

Recording ==
    validated =>
        /\ pc \in Unfinished \cup {"finish"} => Sole(journal.records, admitted)
        /\ pc \in {"whole_infer", "started"} => admitted <= audio
        /\ pc \in {"infer", "commit"} => audio = admitted
        /\ pc = "join" => Sole(result, admitted)
        /\ pc = "publish" => payload = {admitted}

\* The publication is called from one step of gen_subtitles, for its file.
Calling ==
    /\ pc = "publish" <=> pubpc # "idle"
    /\ pc = "publish" => pubpath = job

Answering ==
    /\ pc = "complete" => waiter # "waiting"
    /\ WaiterIsTold

\* What a gate publication has brought to disk.
GateKeeps ==
    gate => /\ \A p \in Paths : target[p].kept \in Transcripts
                                   => target[p].now \in Transcripts
            /\ pubpc \in {"verify_link", "unlink", "settle"}
                  => target[pubpath].now \in Transcripts
            /\ pubpc = "returned" => target[pubpath].kept \in Transcripts

Durable ==
    /\ gate /\ pc = "complete" => target[job].kept \in Transcripts
    /\ CompletedIsDurable

FtInv ==
    /\ PubInv
    /\ FtTypeOK
    /\ Progress
    /\ Recording
    /\ Calling
    /\ Answering
    /\ GateKeeps
    /\ Durable

-----------------------------------------------------------------------------
(* Transcripts. *)

\* One more record takes a chain from its end to the record's.
LEMMA ChainGrows ==
    ASSUME NEW r \in Seq(Interval), NEW from \in Nat, NEW to \in Nat,
           NEW g \in Generations, Chain(r, from)
    PROVE  /\ Append(r, [from |-> from, to |-> to, gen |-> g]) \in Seq(Interval)
           /\ Chain(Append(r, [from |-> from, to |-> to, gen |-> g]), to)
<1> DEFINE e == [from |-> from, to |-> to, gen |-> g]
           s == Append(r, e)
<1>1. e \in Interval /\ e.from = from /\ e.to = to
    BY DEF Interval
<1> HIDE DEF e
<1>2. /\ s \in Seq(Interval) /\ Len(s) = Len(r) + 1 /\ s[Len(r) + 1] = e
      /\ \A i \in 1 .. Len(r) : s[i] = r[i]
      /\ Len(r) \in Nat
    BY <1>1
<1> HIDE DEF s
<1>3. s # <<>>
    BY <1>2
<1>4. r = <<>> => Len(r) = 0 /\ from = 0
    BY DEF Chain
<1>5. r # <<>> => Len(r) > 0 /\ r[1].from = 0 /\ r[Len(r)].to = from
    BY <1>2 DEF Chain
<1>6. s[1].from = 0 /\ s[Len(s)].to = to
    BY <1>1, <1>2, <1>4, <1>5
<1>7. ASSUME NEW i \in 1 .. Len(s) - 1 PROVE s[i].to = s[i + 1].from
  <2>1. CASE i = Len(r)
      BY <2>1, <1>1, <1>2, <1>4, <1>5
  <2>2. CASE i # Len(r)
    <3>1. i \in 1 .. Len(r) - 1 /\ i \in 1 .. Len(r) /\ i + 1 \in 1 .. Len(r)
        BY <2>2, <1>2
    <3> QED
        BY <3>1, <1>2 DEF Chain
  <2> QED
      BY <2>1, <2>2
<1> QED
    BY <1>2, <1>3, <1>6, <1>7 DEF Chain, s, e

\* No records are a chain to the start of the media.
LEMMA EmptyChain ==
    ASSUME NEW g
    PROVE  Chain(<<>>, 0) /\ Sole(<<>>, g) /\ <<>> \in Seq(Interval)
BY DEF Chain, Sole

\* The whole file in one piece is a chain to its end.
LEMMA WholeChain ==
    ASSUME NEW d \in Nat, NEW g \in Generations
    PROVE  /\ <<[from |-> 0, to |-> d, gen |-> g]>> \in Seq(Interval)
           /\ Chain(<<[from |-> 0, to |-> d, gen |-> g]>>, d)
           /\ Sole(<<[from |-> 0, to |-> d, gen |-> g]>>, g)
BY DEF Chain, Sole, Interval

\* A record of the recording that all the others come from.
LEMMA SoleGrows ==
    ASSUME NEW r \in Seq(Interval), NEW from \in Nat, NEW to \in Nat,
           NEW g \in Generations, Sole(r, g)
    PROVE  Sole(Append(r, [from |-> from, to |-> to, gen |-> g]), g)
<1> DEFINE e == [from |-> from, to |-> to, gen |-> g]
           s == Append(r, e)
<1>1. e \in Interval /\ e.gen = g
    BY DEF Interval
<1> HIDE DEF e
<1>2. /\ Len(s) = Len(r) + 1 /\ s[Len(r) + 1] = e
      /\ \A i \in 1 .. Len(r) : s[i] = r[i]
      /\ Len(r) \in Nat
    BY <1>1
<1> HIDE DEF s
<1> QED
    BY <1>1, <1>2 DEF Sole, s, e

\* A chain to the end of the media is rendered as a whole transcript, and one
\* of a single recording as that recording's.
LEMMA ChainIsRendered ==
    ASSUME NEW r \in Seq(Interval), DurationOf[job] \in Nat \ {0},
           Chain(r, DurationOf[job])
    PROVE  /\ Rendered(r) \in Transcripts
           /\ \A g : Sole(r, g) => Rendered(r) = {g}
<1>1. r # <<>> /\ Len(r) \in Nat /\ Len(r) > 0
    BY DEF Chain
<1>2. Contiguous(r)
    BY <1>1 DEF Chain, Contiguous, Duration
<1>3. Rendered(r) = {r[i].gen : i \in 1 .. Len(r)}
    BY <1>2 DEF Rendered
<1>4. 1 \in 1 .. Len(r) /\ \A i \in 1 .. Len(r) : r[i].gen \in Generations
  <2>1. \A i \in 1 .. Len(r) : r[i] \in Interval
      OBVIOUS
  <2> QED
      BY <1>1, <2>1 DEF Interval
<1>5. {r[i].gen : i \in 1 .. Len(r)} # {}
    BY <1>4
<1>6. {r[i].gen : i \in 1 .. Len(r)} \in SUBSET Generations
    BY <1>4
<1>7. {r[i].gen : i \in 1 .. Len(r)} \in Transcripts
    BY <1>5, <1>6, TranscriptionAssumption DEF Generations
<1>8. ASSUME NEW g, Sole(r, g) PROVE {r[i].gen : i \in 1 .. Len(r)} = {g}
  <2>1. \A i \in 1 .. Len(r) : r[i].gen = g
      BY <1>8 DEF Sole
  <2> QED
      BY <1>4, <2>1
<1> QED
    BY <1>3, <1>7, <1>8

-----------------------------------------------------------------------------
(* Receipts.  Only the completion of a workload adds to the completed ones. *)

\* Append keeps the type of a sequence.
LEMMA AppendTyped ==
    ASSUME NEW S, NEW s \in Seq(S), NEW e \in S
    PROVE  Append(s, e) \in Seq(S)
OBVIOUS

\* What an operation other than the completion leaves.
Unreported(r, o) == o.state \in ReceiptStates /\ o.state.completed = r.completed

\* _publish_locked.
LEMMA PublishedReceipt ==
    ASSUME NEW before \in ReceiptStates, NEW after \in ReceiptStates,
           NEW o \in Published(before, after)
    PROVE  /\ o.state \in ReceiptStates
           /\ o.ok => o.state = after
           /\ ~o.ok => o.state.failed /\ o.state.completed = before.completed
           /\ o.ok \in BOOLEAN
<1>1. [before EXCEPT !.failed = TRUE] \in ReceiptStates
    BY DEF ReceiptStates
<1>2. /\ [before EXCEPT !.failed = TRUE].failed
      /\ [before EXCEPT !.failed = TRUE].completed = before.completed
    BY DEF ReceiptStates
<1>3. o = Returns(after) \/ o = Raises([before EXCEPT !.failed = TRUE])
    BY DEF Published
<1>4. CASE o = Returns(after)
  <2>1. o.state = after /\ o.ok = TRUE
      BY <1>4 DEF Returns
  <2> QED
      BY <2>1
<1>5. CASE o = Raises([before EXCEPT !.failed = TRUE])
  <2>1. o.state = [before EXCEPT !.failed = TRUE] /\ o.ok = FALSE
      BY <1>5 DEF Raises
  <2> QED
      BY <1>1, <1>2, <2>1
<1> QED
    BY <1>3, <1>4, <1>5

\* bind_workload_locked.
LEMMA BindReceipt ==
    ASSUME NEW r \in ReceiptStates, NEW p \in Paths, NEW o \in BindWorkload(r, p)
    PROVE  Unreported(r, o)
<1> DEFINE after == [r EXCEPT !.bound = TRUE, !.uncommitted = FALSE, !.cursor = 0]
<1>1. after \in ReceiptStates /\ after.completed = r.completed
    BY DEF ReceiptStates
<1> HIDE DEF after
<1>2. o = Raises(r) \/ o \in Published(r, after)
    BY DEF BindWorkload, after
<1> QED
    BY <1>1, <1>2, PublishedReceipt DEF Unreported, Raises

\* record_chunk_locked.
LEMMA ChunkReceipt ==
    ASSUME NEW r \in ReceiptStates, NEW c \in Nat, NEW u \in BOOLEAN,
           NEW o \in RecordChunk(r, c, u)
    PROVE  Unreported(r, o)
<1> DEFINE after == [r EXCEPT !.cursor = c, !.uncommitted = u]
<1>1. after \in ReceiptStates /\ after.completed = r.completed
    BY DEF ReceiptStates
<1> HIDE DEF after
<1>2. o = Raises(r) \/ o = Returns(r) \/ o \in Published(r, after)
    BY DEF RecordChunk, after
<1> QED
    BY <1>1, <1>2, PublishedReceipt DEF Unreported, Raises, Returns

\* abort_workload_locked of a bound workload: it raises only when the
\* coordinator has failed closed.
LEMMA AbortReceipt ==
    ASSUME NEW r \in ReceiptStates, r.bound, NEW o \in AbortWorkload(r),
           gate \in BOOLEAN
    PROVE  Unreported(r, o) /\ (~o.ok => o.state.failed)
<1> DEFINE after == [r EXCEPT !.bound = FALSE, !.uncommitted = FALSE, !.aborted = gate]
<1>1. after \in ReceiptStates /\ after.completed = r.completed
    BY DEF ReceiptStates
<1> HIDE DEF after
<1>2. (r.failed /\ o = Raises(r)) \/ o \in Published(r, after)
    BY DEF AbortWorkload, after
<1> QED
    BY <1>1, <1>2, PublishedReceipt DEF Unreported, Raises

\* complete_workload_locked.
LEMMA CompleteReceipt ==
    ASSUME NEW r \in ReceiptStates, NEW terminal \in Nat, NEW p \in Paths,
           NEW o \in CompleteWorkload(r, terminal, p)
    PROVE  /\ o.state \in ReceiptStates
           /\ ~o.ok => Unreported(r, o)
           /\ o.ok => o.state.completed = Append(r.completed, p)
<1> DEFINE after == [r EXCEPT !.bound = FALSE, !.uncommitted = FALSE,
                              !.completed = Append(@, p)]
<1>1. after \in ReceiptStates /\ after.completed = Append(r.completed, p)
  <2>1. ASSUME NEW k \in Seq(Paths)
        PROVE  /\ [r EXCEPT !.bound = FALSE, !.uncommitted = FALSE, !.completed = k]
                     \in ReceiptStates
               /\ [r EXCEPT !.bound = FALSE, !.uncommitted = FALSE,
                            !.completed = k].completed = k
      BY DEF ReceiptStates
  <2>2. r.completed \in Seq(Paths)
      BY DEF ReceiptStates
  <2>3. Append(r.completed, p) \in Seq(Paths)
      BY <2>2, AppendTyped
  <2> QED
      BY <2>1, <2>3
<1> HIDE DEF after
<1>2. o = Raises(r) \/ o \in Published(r, after)
    BY DEF CompleteWorkload, after
<1> QED
    BY <1>1, <1>2, PublishedReceipt DEF Unreported, Raises

-----------------------------------------------------------------------------
(* The publication in the gate. *)

\* A subtitle that is on disk stays on disk.
StaysKept ==
    gate => \A p \in Paths : target[p].kept \in Transcripts
                                => target'[p].kept \in Transcripts

\* A step that leaves the paths and the publication's place alone, or raises.
LEMMA QuietGateStep ==
    ASSUME PubInv, GateKeeps, UNCHANGED <<gate, target>>,
           \/ pubpc' \in {"idle", "write", "sync", "verify", "install", "cleanup", "failed"}
           \/ UNCHANGED <<pubpc, pubpath>>
           \/ pubpc' = "unlink" /\ pubpc = "verify_link" /\ UNCHANGED pubpath
           \/ pubpc' = "settle" /\ pubpc = "unlink" /\ UNCHANGED pubpath
    PROVE  GateKeeps' /\ StaysKept
BY DEF GateKeeps, StaysKept

\* os.link, which takes only a path that shows nothing and so keeps nothing.
LEMMA LinkGateStep ==
    ASSUME PubInv, GateKeeps, LinkTarget
    PROVE  GateKeeps' /\ StaysKept
<1>1. CASE Raise
    BY <1>1, QuietGateStep DEF Raise
<1>2. CASE ~Raise
  <2>1. /\ gate /\ gate' = gate /\ pubpath' = pubpath /\ pubpath \in Paths
        /\ pubpc = "install" /\ pubpc' = "verify_link"
        /\ target[pubpath].now = Absent
        /\ target' = [target EXCEPT ![pubpath] =
                         [now |-> NamedBytes, kept |-> target[pubpath].kept,
                          synced |-> staging.synced]]
      BY <1>2 DEF LinkTarget, PubInv, PubTypeOK
  <2>2. NamedBytes \in Transcripts
      BY <2>1, PublicationAssumption DEF PubInv, PubTypeOK, WholeStaging, NamedBytes
  <2>3. /\ target'[pubpath].now \in Transcripts
        /\ \A p \in Paths : /\ target'[p].kept = target[p].kept
                            /\ p # pubpath => target'[p].now = target[p].now
      BY <2>1, <2>2 DEF PubInv, PubTypeOK
  <2> QED
      BY <2>1, <2>3 DEF GateKeeps, StaysKept
<1> QED
    BY <1>1, <1>2

\* The sync of the directory keeps what is shown.
LEMMA SettleGateStep ==
    ASSUME PubInv, GateKeeps, SyncDirectory
    PROVE  GateKeeps' /\ StaysKept
<1>1. CASE Raise \/ ~gate
    BY <1>1, QuietGateStep DEF Raise, SyncDirectory, GateKeeps, StaysKept
<1>2. CASE ~Raise /\ gate
  <2>1. /\ gate' = gate /\ pubpath' = pubpath /\ pubpath \in Paths
        /\ pubpc = "settle" /\ pubpc' = "returned"
        /\ target' = [target EXCEPT ![pubpath].kept = target[pubpath].now]
      BY <1>2 DEF SyncDirectory, PubInv, PubTypeOK
  <2>2. target[pubpath].now \in Transcripts
      BY <1>2, <2>1 DEF GateKeeps
  <2>3. /\ target'[pubpath].kept \in Transcripts
        /\ \A p \in Paths : /\ target'[p].now = target[p].now
                            /\ p # pubpath => target'[p].kept = target[p].kept
      BY <2>1, <2>2 DEF PubInv, PubTypeOK
  <2> QED
      BY <1>2, <2>1, <2>2, <2>3 DEF GateKeeps, StaysKept
<1> QED
    BY <1>1, <1>2

\* A foreign file is whole and synced when it appears.
LEMMA ForeignGateStep ==
    ASSUME PubInv, GateKeeps, ForeignWrite
    PROVE  GateKeeps' /\ StaysKept
<1>1. /\ gate' = gate /\ pubpath' = pubpath /\ pubpath \in Paths /\ pubpc' = pubpc
      /\ target' = [target EXCEPT ![pubpath] =
                       [now |-> Foreign, kept |-> Foreign, synced |-> TRUE]]
      /\ Foreign \in Transcripts
    BY PublicationAssumption DEF ForeignWrite, PubInv, PubTypeOK
<1>2. /\ target'[pubpath].now \in Transcripts /\ target'[pubpath].kept \in Transcripts
      /\ \A p \in Paths : p # pubpath => target'[p] = target[p]
    BY <1>1 DEF PubInv, PubTypeOK
<1> QED
    BY <1>1, <1>2 DEF GateKeeps, StaysKept

\* A power loss brings back what was kept or leaves what is shown.
LEMMA CrashGateStep ==
    ASSUME PubInv, GateKeeps, Crash
    PROVE  GateKeeps' /\ StaysKept
<1>1. PICK f \in [Paths -> Contents \cup {Torn}] :
         /\ \A p \in Paths : f[p] \in Survivors(target[p])
         /\ target' = [p \in Paths |-> [now |-> f[p], kept |-> f[p], synced |-> TRUE]]
    BY DEF Crash
<1>2. \A p \in Paths : f[p] \in {target[p].now, target[p].kept}
    BY <1>1 DEF Survivors, PubInv, WholePaths
<1>3. \A p \in Paths : target'[p].now = f[p] /\ target'[p].kept = f[p]
    BY <1>1
<1>4. gate' = gate /\ pubpc' = "idle"
    BY DEF Crash, CallGone
<1> QED
    BY <1>2, <1>3, <1>4 DEF GateKeeps, StaysKept

\* Every step of the publication keeps it, and leaves on disk what is there.
LEMMA GateNext ==
    ASSUME PubInv, GateKeeps, [PubNext]_pubVars
    PROVE  GateKeeps' /\ StaysKept /\ gate' = gate
<1>0. gate' = gate
    BY DEF PubNext, PubStep, PubEnv, pubVars, BeginPublish, WriteStaging, SyncStaging,
           VerifyStaging, VerifyLink, UnlinkStaging, CleanUp, TakeResult, ReplaceTarget,
           LinkTarget, SyncDirectory, ForeignWrite, ForeignStaging, Raise, Crash
<1>1. CASE \/ UNCHANGED pubVars
           \/ \E p \in Paths, t \in Transcripts : BeginPublish(p, t)
           \/ WriteStaging \/ SyncStaging \/ VerifyStaging \/ VerifyLink
           \/ UnlinkStaging \/ CleanUp \/ TakeResult \/ ForeignStaging
    BY <1>1, QuietGateStep
       DEF pubVars, BeginPublish, WriteStaging, SyncStaging, VerifyStaging, VerifyLink,
           UnlinkStaging, CleanUp, TakeResult, CallGone, ForeignStaging, Raise
<1>2. CASE ReplaceTarget
    BY <1>0, <1>2 DEF ReplaceTarget, GateKeeps, StaysKept
<1> QED
    BY <1>0, <1>1, <1>2, LinkGateStep, SettleGateStep, ForeignGateStep, CrashGateStep
       DEF PubNext, PubStep, PubEnv

-----------------------------------------------------------------------------
(* The file's own part of the invariant, step by step. *)

FtOwn == FtTypeOK /\ Progress /\ Recording /\ Calling /\ Answering /\ Durable

\* The media of every file has a length.
LEMMA DurationTyped == FtTypeOK => DurationOf[job] \in Nat \ {0}
BY TranscriptionAssumption DEF FtTypeOK

\* A recording in hand is not newer than the one on disk.
LEMMA RecordingOrder ==
    FtTypeOK => /\ media \in Nat /\ admitted \in Nat /\ audio \in Nat
                /\ admitted <= media /\ audio <= media
                /\ audio \in Generations /\ admitted \in Generations
BY TranscriptionAssumption DEF FtTypeOK, Generations

\* What is reported complete stays on disk while nothing is added to it.
LEMMA DurableStays ==
    ASSUME FtInv, StaysKept, gate' = gate,
           receipts'.completed = receipts.completed, pc' # "complete"
    PROVE  Durable'
<1>1. \A i \in 1 .. Len(receipts.completed) : receipts.completed[i] \in Paths
  <2>1. receipts.completed \in Seq(Paths)
      BY DEF FtInv, FtTypeOK, ReceiptStates
  <2> QED
      BY <2>1
<1> QED
    BY <1>1 DEF FtInv, Durable, CompletedIsDurable, StaysKept

\* The parts that a step of the chunk loop cannot disturb.
LEMMA LoopStep ==
    ASSUME FtInv, pc # "publish", pc' \notin {"publish", "complete", "final"},
           pc' = "stale" => validated' /\ media' # admitted',
           UNCHANGED pubVars, receipts'.completed = receipts.completed,
           FtTypeOK', Progress', Recording'
    PROVE  FtOwn'
<1>1. StaysKept /\ gate' = gate
    BY DEF StaysKept, pubVars
<1>2. Calling'
    BY DEF FtInv, Calling, pubVars
<1>3. Answering'
    BY DEF Answering, WaiterIsTold
<1> QED
    BY <1>1, <1>2, <1>3, DurableStays DEF FtOwn

\* An exception leaves everything but the receipts as it was.
LEMMA UnwindKeeps ==
    ASSUME FtInv, pc # "publish", NEW r \in ReceiptStates,
           r.completed = receipts.completed, Unwind(r)
    PROVE  FtOwn'
<1>1. FtTypeOK'
    BY DEF FtInv, FtTypeOK, FtSteps, Unwind, setting
<1>2. Progress'
    BY DEF Unwind, Progress, Unfinished, Windowed
<1>3. Recording'
    BY DEF Unwind, Recording, Unfinished, Windowed
<1> QED
    BY <1>1, <1>2, <1>3, LoopStep DEF Unwind

\* The same, of an operation of the receipts that raised.
LEMMA ReceiptUnwinds ==
    ASSUME FtInv, pc # "publish", NEW o, Unreported(receipts, o), Unwind(o.state)
    PROVE  FtOwn'
BY UnwindKeeps DEF Unreported

\* Nothing was reported, and an exception left the receipts alone.
LEMMA PlainUnwind ==
    ASSUME FtInv, pc # "publish", Unwind(receipts)
    PROVE  FtOwn'
BY UnwindKeeps DEF FtInv, FtTypeOK

\* A worker takes a file.
LEMMA StartKeeps ==
    ASSUME FtInv, NEW p \in Paths, StartFile(p)
    PROVE  FtOwn'
<1>1. FtTypeOK'
    BY DEF FtInv, FtTypeOK, FtSteps, StartFile, setting, Generations
<1>2. Progress'
    BY DEF FtInv, StartFile, Progress, Unfinished, Windowed
<1>3. Recording'
    BY DEF StartFile, Recording, Unfinished, Windowed
<1> QED
    BY <1>1, <1>2, <1>3, LoopStep DEF StartFile, MediaIsCurrent

\* _begin_workload.
LEMMA AdmitKeeps ==
    ASSUME FtInv, Admit
    PROVE  FtOwn'
<1>1. pc = "admit" /\ receipts \in ReceiptStates /\ job \in Paths
    BY DEF Admit, FtInv, FtTypeOK
<1>2. CASE Unwind(receipts)
    BY <1>1, <1>2, PlainUnwind
<1>3. CASE ~Unwind(receipts)
  <2>1. PICK o \in BindWorkload(receipts, job) :
           \/ ~o.ok /\ Unwind(o.state)
           \/ /\ o.ok
              /\ receipts' = o.state
              /\ pc' = "load"
              /\ UNCHANGED <<setting, job, admitted, chunk, cursor, window,
                             audio, verdict, journal, result, waiter,
                             loaded, pressure, pubVars>>
      BY <1>3 DEF Admit
  <2>2. Unreported(receipts, o)
      BY <1>1, BindReceipt
  <2>3. CASE Unwind(o.state)
      BY <1>1, <2>2, <2>3, ReceiptUnwinds
  <2>4. CASE ~Unwind(o.state)
    <3>1. FtTypeOK'
        BY <2>1, <2>2, <2>4 DEF FtInv, FtTypeOK, FtSteps, setting, Unreported
    <3>2. Progress'
        BY <1>1, <2>1, <2>4 DEF FtInv, Progress, Unfinished, Windowed
    <3>3. Recording'
        BY <2>1, <2>4 DEF Recording, Unfinished, Windowed
    <3> QED
        BY <1>1, <2>1, <2>2, <2>4, <3>1, <3>2, <3>3, LoopStep DEF Unreported
  <2> QED
      BY <2>3, <2>4
<1> QED
    BY <1>2, <1>3

\* start_model: the journal is empty and the cursor at the start.
LEMMA LoadKeeps ==
    ASSUME FtInv, LoadModel
    PROVE  FtOwn'
<1>1. pc = "load" /\ journal.records = <<>> /\ cursor = 0
    BY DEF LoadModel, FtInv, Progress
<1>2. CASE Unwind(receipts)
    BY <1>1, <1>2, PlainUnwind
<1>3. CASE ~Unwind(receipts)
  <2>1. /\ chunk' = Freshly(Baseline) /\ cursor' = 0
        /\ pc' \in {"plan", "whole"}
        /\ journal' \in {journal, [NoJournal EXCEPT !.open = TRUE]}
        /\ UNCHANGED <<setting, job, admitted, window, audio, verdict, result,
                       receipts, waiter, pressure, pubVars>>
      BY <1>3 DEF LoadModel
  <2>2. Freshly(Baseline) \in Budget(Baseline)
      BY FreshlyInBudget, TranscriptionAssumption
  <2>3. /\ journal' \in [records : Seq(Interval), poisoned : BOOLEAN, open : BOOLEAN]
        /\ journal'.records = <<>>
      BY <1>1, <2>1, EmptyChain DEF NoJournal, FtInv, FtTypeOK
  <2>4. FtTypeOK'
      BY <2>1, <2>2, <2>3 DEF FtInv, FtTypeOK, FtSteps, setting
  <2>5. Progress'
      BY <2>1, <2>3, EmptyChain, DurationTyped DEF FtInv, Progress, Unfinished, Windowed
  <2>6. Recording'
      BY <2>1, <2>3, EmptyChain DEF FtInv, Recording, Unfinished, Windowed
  <2> QED
      BY <1>1, <2>1, <2>4, <2>5, <2>6, LoopStep
<1> QED
    BY <1>2, <1>3

\* chunk_uncommitted and the extraction of the whole file.
LEMMA BeginWholeKeeps ==
    ASSUME FtInv, BeginWhole
    PROVE  FtOwn'
<1>1. pc = "whole" /\ receipts \in ReceiptStates
    BY DEF BeginWhole, FtInv, FtTypeOK
<1>2. PICK o \in RecordChunk(receipts, 0, TRUE) :
         \/ ~o.ok /\ Unwind(o.state)
         \/ /\ o.ok
            /\ receipts' = o.state
            /\ audio' = media
            /\ pc' = "whole_infer"
            /\ UNCHANGED <<setting, job, admitted, chunk, cursor, window,
                           verdict, journal, result, waiter, loaded, pressure,
                           pubVars>>
    BY DEF BeginWhole
<1>3. Unreported(receipts, o)
    BY <1>1, ChunkReceipt
<1>4. CASE Unwind(o.state)
    BY <1>1, <1>3, <1>4, ReceiptUnwinds
<1>5. CASE ~Unwind(o.state)
  <2>1. FtTypeOK'
      BY <1>2, <1>3, <1>5 DEF FtInv, FtTypeOK, FtSteps, setting, Unreported, Generations
  <2>2. Progress'
      BY <1>1, <1>2, <1>5 DEF FtInv, Progress, Unfinished, Windowed
  <2>3. Recording'
      BY <1>1, <1>2, <1>5, RecordingOrder DEF FtInv, Recording, Unfinished, Windowed, setting
  <2> QED
      BY <1>1, <1>2, <1>3, <1>5, <2>1, <2>2, <2>3, LoopStep DEF Unreported
<1> QED
    BY <1>4, <1>5

\* An attempt that ends in a control error releases the model.
LEMMA AttemptFails ==
    ASSUME FtInv, pc \in {"whole_infer", "infer"}, NEW o, Unreported(receipts, o),
           receipts' = o.state, verdict' \in {"pressure", "memory"}, pc' = "release",
           UNCHANGED <<setting, job, admitted, chunk, cursor, window, audio,
                       journal, result, waiter, loaded, pubVars>>
    PROVE  FtOwn'
<1>1. FtTypeOK'
    BY DEF FtInv, FtTypeOK, FtSteps, setting, Unreported
<1>2. Progress'
    BY DEF FtInv, Progress, Unfinished, Windowed
<1>3. Recording'
    BY DEF FtInv, Recording, Unfinished, Windowed, setting
<1> QED
    BY <1>1, <1>2, <1>3, LoopStep DEF Unreported

\* The whole file's transcript, its control error, or its exception.
LEMMA EndWholeKeeps ==
    ASSUME FtInv, EndWhole
    PROVE  FtOwn'
<1>1. pc = "whole_infer" /\ receipts \in ReceiptStates /\ DurationOf[job] \in Nat \ {0}
    BY DurationTyped DEF EndWhole, FtInv, FtTypeOK
<1>2. CASE \E o \in RecordChunk(receipts, 0, FALSE) : Unwind(o.state)
    BY <1>1, <1>2, ChunkReceipt, ReceiptUnwinds
<1>3. CASE /\ MediaIsCurrent
           /\ \E o \in RecordChunk(receipts, IF segmented THEN Duration ELSE 0, FALSE) :
                 \/ ~o.ok /\ Unwind(o.state)
                 \/ /\ o.ok
                    /\ receipts' = o.state
                    /\ result' = <<[from |-> 0, to |-> Duration, gen |-> audio]>>
                    /\ pc' = "join"
                    /\ UNCHANGED <<setting, job, admitted, chunk, cursor, window,
                                   audio, verdict, journal, waiter, loaded,
                                   pressure, pubVars>>
  <2>1. PICK o \in RecordChunk(receipts, IF segmented THEN Duration ELSE 0, FALSE) :
           \/ ~o.ok /\ Unwind(o.state)
           \/ /\ o.ok
              /\ receipts' = o.state
              /\ result' = <<[from |-> 0, to |-> Duration, gen |-> audio]>>
              /\ pc' = "join"
              /\ UNCHANGED <<setting, job, admitted, chunk, cursor, window,
                             audio, verdict, journal, waiter, loaded,
                             pressure, pubVars>>
      BY <1>3
  <2>2. Unreported(receipts, o)
    <3>1. (IF segmented THEN Duration ELSE 0) \in Nat
        BY <1>1 DEF Duration
    <3> QED
        BY <1>1, <3>1, ChunkReceipt
  <2>3. CASE Unwind(o.state)
      BY <1>1, <2>2, <2>3, ReceiptUnwinds
  <2>4. CASE ~Unwind(o.state)
    <3>1. /\ audio \in Generations
          /\ validated => audio = admitted
        BY <1>1, <1>3, RecordingOrder DEF FtInv, Recording, MediaIsCurrent
    <3>2. /\ result' \in Seq(Interval)
          /\ Chain(result', DurationOf[job])
          /\ Sole(result', audio)
        BY <1>1, <2>1, <2>4, <3>1, WholeChain DEF Duration
    <3>3. FtTypeOK'
        BY <2>1, <2>2, <2>4, <3>2 DEF FtInv, FtTypeOK, FtSteps, setting, Unreported
    <3>4. Progress'
        BY <2>1, <2>4, <3>2 DEF Progress, Unfinished, Windowed
    <3>5. Recording'
        BY <2>1, <2>4, <3>1, <3>2 DEF Recording, Unfinished, Windowed, setting
    <3> QED
        BY <1>1, <2>1, <2>2, <2>4, <3>3, <3>4, <3>5, LoopStep DEF Unreported
  <2> QED
      BY <2>3, <2>4
<1>4. CASE \E o \in RecordChunk(receipts, 0, FALSE), k \in {"pressure", "memory"} :
              \/ ~o.ok /\ Unwind(o.state)
              \/ /\ o.ok
                 /\ Spend(k)
                 /\ receipts' = o.state
                 /\ verdict' = k
                 /\ pc' = "release"
                 /\ UNCHANGED <<setting, job, admitted, chunk, cursor, window,
                                audio, journal, result, waiter, loaded, pubVars>>
    BY <1>1, <1>4, ChunkReceipt, ReceiptUnwinds, AttemptFails
<1> QED
    BY <1>2, <1>3, <1>4 DEF EndWhole

\* release_after_inference_failure and the smaller chunk.
LEMMA ReleaseKeeps ==
    ASSUME FtInv, ReleaseAttempt
    PROVE  FtOwn'
<1>1. pc = "release" /\ verdict \in {"pressure", "memory"}
    BY DEF ReleaseAttempt, FtInv, Progress
<1>2. CASE Unwind(receipts)
    BY <1>1, <1>2, PlainUnwind
<1>3. CASE ~Unwind(receipts)
  <2>1. /\ chunk' \in {chunk, RecordPressureYield(chunk),
                       RecordAllocationFailure(chunk, chunk.current)}
        /\ pc' = "recover"
        /\ UNCHANGED <<setting, job, admitted, cursor, window, audio, verdict,
                       journal, result, receipts, waiter, loaded, pressure, pubVars>>
      BY <1>1, <1>3 DEF ReleaseAttempt, FtInv, FtTypeOK
  <2>2. chunk \in Budget(Baseline) /\ chunk.current \in Int
      BY DEF FtInv, FtTypeOK, Budget
  <2>3. chunk' \in Budget(Baseline)
      BY <2>1, <2>2, PressureYieldInBudget, AllocationFailureInBudget, TranscriptionAssumption
  <2>4. FtTypeOK'
      BY <2>1, <2>3 DEF FtInv, FtTypeOK, FtSteps, setting
  <2>5. Progress'
      BY <1>1, <2>1 DEF FtInv, Progress, Unfinished, Windowed
  <2>6. Recording'
      BY <1>1, <2>1 DEF FtInv, Recording, Unfinished, Windowed, setting
  <2> QED
      BY <1>1, <2>1, <2>4, <2>5, <2>6, LoopStep
<1> QED
    BY <1>2, <1>3

\* _wait_for_inference_recovery.
LEMMA RecoverKeeps ==
    ASSUME FtInv, WaitForRecovery
    PROVE  FtOwn'
<1>1. pc = "recover"
    BY DEF WaitForRecovery
<1>2. CASE Unwind(receipts)
    BY <1>1, <1>2, PlainUnwind
<1>3. CASE ~Unwind(receipts)
  <2>1. PICK outside \in BOOLEAN : Recovered(outside)
      BY <1>3 DEF WaitForRecovery
  <2>2. /\ chunk' \in {chunk, RecordExternalRecovery(chunk)}
        /\ pc' \in {"fail", "plan", "whole"}
        /\ journal' \in {journal, [journal EXCEPT !.open = TRUE]}
        /\ UNCHANGED <<setting, job, admitted, cursor, window, audio, verdict,
                       result, receipts, waiter, loaded, pubVars>>
      BY <2>1 DEF Recovered
  <2>3. chunk' \in Budget(Baseline)
      BY <2>2, ExternalRecoveryInBudget, TranscriptionAssumption DEF FtInv, FtTypeOK
  <2>4. /\ journal' \in [records : Seq(Interval), poisoned : BOOLEAN, open : BOOLEAN]
        /\ journal'.records = journal.records
      BY <2>2 DEF FtInv, FtTypeOK
  <2>5. FtTypeOK'
      BY <2>2, <2>3, <2>4 DEF FtInv, FtTypeOK, FtSteps, setting
  <2>6. Progress'
      BY <1>1, <2>2, <2>4 DEF FtInv, Progress, Unfinished, Windowed
  <2>7. Recording'
      BY <1>1, <2>2, <2>4 DEF FtInv, Recording, Unfinished, Windowed, setting
  <2> QED
      BY <1>1, <2>2, <2>5, <2>6, <2>7, LoopStep
<1> QED
    BY <1>2, <1>3

\* check_cancelled, plan_next_window and the validation before the chunk.
LEMMA PlanKeeps ==
    ASSUME FtInv, PlanChunk
    PROVE  FtOwn'
<1>1. pc = "plan" /\ DurationOf[job] \in Nat \ {0} /\ cursor \in Nat /\ cursor < DurationOf[job]
    BY DurationTyped DEF PlanChunk, FtInv, FtTypeOK, Progress, Unfinished
<1>2. CASE Unwind(receipts)
    BY <1>1, <1>2, PlainUnwind
<1>3. CASE ~Unwind(receipts)
  <2>1. /\ window' = PlanNextWindow(cursor, chunk.current, DurationOf[job])
        /\ pc' = "extract"
        /\ UNCHANGED <<setting, job, admitted, chunk, cursor, audio, verdict,
                       journal, result, receipts, waiter, loaded, pressure, pubVars>>
      BY <1>3 DEF PlanChunk, Duration
  <2>2. chunk.current \in Nat \ {0}
      BY TranscriptionAssumption DEF FtInv, FtTypeOK, Budget, Minimum
  <2>3. window' \in cursor + 1 .. DurationOf[job]
      BY <1>1, <2>1, <2>2, WindowAdvances
  <2>4. window' \in Nat /\ cursor < window' /\ window' <= DurationOf[job]
      BY <1>1, <2>3
  <2>5. FtTypeOK'
      BY <2>1, <2>4 DEF FtInv, FtTypeOK, FtSteps, setting
  <2>6. Progress'
      BY <1>1, <2>1, <2>4 DEF FtInv, Progress, Unfinished, Windowed
  <2>7. Recording'
      BY <1>1, <2>1 DEF FtInv, Recording, Unfinished, Windowed, setting
  <2> QED
      BY <1>1, <2>1, <2>5, <2>6, <2>7, LoopStep
<1> QED
    BY <1>2, <1>3

\* extract_audio_segment_to_memory.
LEMMA ExtractKeeps ==
    ASSUME FtInv, ExtractChunk
    PROVE  FtOwn'
<1>1. pc = "extract"
    BY DEF ExtractChunk
<1>2. CASE Unwind(receipts)
    BY <1>1, <1>2, PlainUnwind
<1>3. CASE ~Unwind(receipts)
  <2>1. /\ audio' = media /\ pc' = "started"
        /\ UNCHANGED <<setting, job, admitted, chunk, cursor, window, verdict,
                       journal, result, receipts, waiter, loaded, pressure, pubVars>>
      BY <1>3 DEF ExtractChunk
  <2>2. FtTypeOK'
      BY <2>1 DEF FtInv, FtTypeOK, FtSteps, setting, Generations
  <2>3. Progress'
      BY <1>1, <2>1 DEF FtInv, Progress, Unfinished, Windowed
  <2>4. Recording'
      BY <1>1, <2>1, RecordingOrder DEF FtInv, Recording, Unfinished, Windowed, setting
  <2> QED
      BY <1>1, <2>1, <2>2, <2>3, <2>4, LoopStep
<1> QED
    BY <1>2, <1>3

\* The validation after the extraction finds the recording that was admitted,
\* and the audio, read in between, is neither older nor newer.
LEMMA StartedKeeps ==
    ASSUME FtInv, ChunkStarted
    PROVE  FtOwn'
<1>1. pc = "started" /\ receipts \in ReceiptStates /\ cursor \in Nat
    BY DEF ChunkStarted, FtInv, FtTypeOK
<1>2. CASE Unwind(receipts)
    BY <1>1, <1>2, PlainUnwind
<1>3. CASE ~Unwind(receipts)
  <2>1. PICK o \in RecordChunk(receipts, cursor, TRUE) :
           \/ ~o.ok /\ Unwind(o.state)
           \/ /\ o.ok
              /\ receipts' = o.state
              /\ pc' = "infer"
              /\ UNCHANGED <<setting, job, admitted, chunk, cursor, window,
                             audio, verdict, journal, result, waiter, loaded,
                             pressure, pubVars>>
      BY <1>3 DEF ChunkStarted
  <2>2. Unreported(receipts, o)
      BY <1>1, ChunkReceipt
  <2>3. CASE Unwind(o.state)
      BY <1>1, <2>2, <2>3, ReceiptUnwinds
  <2>4. CASE ~Unwind(o.state)
    <3>0. MediaIsCurrent
        BY <1>3 DEF ChunkStarted
    <3>1. validated => audio = admitted
        BY <1>1, <3>0, RecordingOrder DEF FtInv, Recording, MediaIsCurrent
    <3>2. FtTypeOK'
        BY <2>1, <2>2, <2>4 DEF FtInv, FtTypeOK, FtSteps, setting, Unreported
    <3>3. Progress'
        BY <1>1, <2>1, <2>4 DEF FtInv, Progress, Unfinished, Windowed
    <3>4. Recording'
        BY <1>1, <2>1, <2>4, <3>1 DEF FtInv, Recording, Unfinished, Windowed, setting
    <3> QED
        BY <1>1, <2>1, <2>2, <2>4, <3>2, <3>3, <3>4, LoopStep DEF Unreported
  <2> QED
      BY <2>3, <2>4
<1> QED
    BY <1>2, <1>3

\* transcribe_chunk.
LEMMA TranscribeKeeps ==
    ASSUME FtInv, TranscribeChunk
    PROVE  FtOwn'
<1>1. pc = "infer" /\ receipts \in ReceiptStates /\ cursor \in Nat
    BY DEF TranscribeChunk, FtInv, FtTypeOK
<1>2. CASE \E o \in RecordChunk(receipts, cursor, FALSE) : Unwind(o.state)
    BY <1>1, <1>2, ChunkReceipt, ReceiptUnwinds
<1>3. CASE /\ pc' = "commit"
           /\ UNCHANGED <<setting, job, admitted, chunk, cursor, window, audio,
                          journal, result, receipts, waiter, loaded, pressure,
                          pubVars>>
  <2>1. FtTypeOK'
      BY <1>3 DEF FtInv, FtTypeOK, FtSteps, setting
  <2>2. Progress'
      BY <1>1, <1>3 DEF FtInv, Progress, Unfinished, Windowed
  <2>3. Recording'
      BY <1>1, <1>3 DEF FtInv, Recording, Unfinished, Windowed, setting
  <2> QED
      BY <1>1, <1>3, <2>1, <2>2, <2>3, LoopStep
<1>4. CASE \E o \in RecordChunk(receipts, cursor, FALSE), k \in {"pressure", "memory"} :
              \/ ~o.ok /\ Unwind(o.state)
              \/ /\ o.ok
                 /\ Spend(k)
                 /\ receipts' = o.state
                 /\ verdict' = k
                 /\ pc' = "release"
                 /\ UNCHANGED <<setting, job, admitted, chunk, cursor, window,
                                audio, journal, result, waiter, loaded, pubVars>>
    BY <1>1, <1>4, ChunkReceipt, ReceiptUnwinds, AttemptFails
<1> QED
    BY <1>2, <1>3, <1>4 DEF TranscribeChunk

\* SegmentJournal._commit_record.
LEMMA CommitRecords ==
    ASSUME FtInv, pc = "commit",
           NEW c \in Commits(journal, [from |-> cursor, to |-> window, gen |-> audio])
    PROVE  /\ c.state \in [records : Seq(Interval), poisoned : BOOLEAN, open : BOOLEAN]
           /\ c.ok => /\ Chain(c.state.records, window)
                      /\ validated => Sole(c.state.records, admitted)
<1> DEFINE rec == [from |-> cursor, to |-> window, gen |-> audio]
           more == Append(journal.records, rec)
           Journals == [records : Seq(Interval), poisoned : BOOLEAN, open : BOOLEAN]
<1>1. /\ journal \in Journals /\ journal.records \in Seq(Interval)
      /\ cursor \in Nat /\ window \in Nat /\ audio \in Generations
      /\ Chain(journal.records, cursor)
      /\ validated => Sole(journal.records, admitted) /\ audio = admitted
    BY RecordingOrder DEF FtInv, FtTypeOK, Progress, Recording, Unfinished, Windowed
<1>2. more \in Seq(Interval) /\ Chain(more, window)
    BY <1>1, ChainGrows
<1>3. validated => Sole(more, admitted)
    BY <1>1, SoleGrows
<1> HIDE DEF more
<1>4. /\ [journal EXCEPT !.records = more] \in Journals
      /\ [journal EXCEPT !.records = more].records = more
      /\ [journal EXCEPT !.poisoned = TRUE] \in Journals
    BY <1>1, <1>2
<1>5. \/ c = Raises(journal)
      \/ c = Raises([journal EXCEPT !.poisoned = TRUE])
      \/ c = Returns([journal EXCEPT !.records = more])
    BY DEF Commits, more
<1>6. CASE c = Raises(journal)
  <2>1. c.state = journal /\ c.ok = FALSE
      BY <1>6 DEF Raises
  <2> QED
      BY <1>1, <2>1
<1>7. CASE c = Raises([journal EXCEPT !.poisoned = TRUE])
  <2>1. c.state = [journal EXCEPT !.poisoned = TRUE] /\ c.ok = FALSE
      BY <1>7 DEF Raises
  <2> QED
      BY <1>4, <2>1
<1>8. CASE c = Returns([journal EXCEPT !.records = more])
  <2>1. c.state = [journal EXCEPT !.records = more]
      BY <1>8 DEF Returns
  <2> QED
      BY <1>2, <1>3, <1>4, <2>1
<1> QED
    BY <1>5, <1>6, <1>7, <1>8

\* The record is in the journal before anything advances.
LEMMA CommitKeeps ==
    ASSUME FtInv, CommitChunk
    PROVE  FtOwn'
<1>1. pc = "commit" /\ receipts \in ReceiptStates /\ cursor \in Nat
    BY DEF CommitChunk, FtInv, FtTypeOK
<1>2. PICK c \in Commits(journal, [from |-> cursor, to |-> window, gen |-> audio]) :
         /\ journal' = c.state
         /\ IF c.ok
            THEN pc' = "committed" /\ UNCHANGED receipts
            ELSE /\ pc' = "fail"
                 /\ \E o \in RecordChunk(receipts, cursor, FALSE) :
                       receipts' = o.state
    BY DEF CommitChunk
<1>3. UNCHANGED <<setting, job, admitted, chunk, cursor, window, audio, verdict,
                  result, waiter, loaded, pressure, pubVars>>
    BY DEF CommitChunk
<1>4. /\ journal' \in [records : Seq(Interval), poisoned : BOOLEAN, open : BOOLEAN]
      /\ pc' = "committed" => /\ Chain(journal'.records, window)
                              /\ validated => Sole(journal'.records, admitted)
    BY <1>1, <1>2, CommitRecords
<1>5. receipts' \in ReceiptStates /\ receipts'.completed = receipts.completed
    BY <1>1, <1>2, ChunkReceipt DEF Unreported
<1>6. pc' \in {"committed", "fail"}
    BY <1>2
<1>7. FtTypeOK'
    BY <1>3, <1>4, <1>5, <1>6 DEF FtInv, FtTypeOK, FtSteps, setting
<1>8. Progress'
    BY <1>1, <1>3, <1>4, <1>6 DEF FtInv, Progress, Unfinished, Windowed
<1>9. Recording'
    BY <1>1, <1>3, <1>4, <1>6 DEF FtInv, Recording, Unfinished, Windowed, setting
<1> QED
    BY <1>1, <1>3, <1>5, <1>6, <1>7, <1>8, <1>9, LoopStep

\* chunk_committed: the cursor moves to the end of the committed chunk.
LEMMA CommittedKeeps ==
    ASSUME FtInv, ChunkCommitted
    PROVE  FtOwn'
<1>1. /\ pc = "committed" /\ receipts \in ReceiptStates /\ window \in Nat
      /\ DurationOf[job] \in Nat
    BY DurationTyped DEF ChunkCommitted, FtInv, FtTypeOK
<1>2. PICK o \in RecordChunk(receipts, window, FALSE) :
         \/ (~o.ok \/ cancelled) /\ Unwind(o.state)
         \/ /\ o.ok
            /\ ~cancelled
            /\ receipts' = o.state
            /\ cursor' = window
            /\ chunk' = RecordSuccess(chunk, verdict = "healthy", Baseline)
            /\ pc' = IF window = Duration THEN "finish" ELSE "plan"
            /\ UNCHANGED <<setting, job, admitted, window, audio, verdict,
                           journal, result, waiter, loaded, pressure, pubVars>>
    BY DEF ChunkCommitted
<1>3. Unreported(receipts, o)
    BY <1>1, ChunkReceipt
<1>4. CASE Unwind(o.state)
    BY <1>1, <1>3, <1>4, ReceiptUnwinds
<1>5. CASE ~Unwind(o.state)
  <2>1. chunk' \in Budget(Baseline)
    <3>1. (verdict = "healthy") \in BOOLEAN
        OBVIOUS
    <3> QED
        BY <1>2, <1>5, <3>1, SuccessInBudget, TranscriptionAssumption DEF FtInv, FtTypeOK
  <2>2. pc' = IF window = DurationOf[job] THEN "finish" ELSE "plan"
      BY <1>2, <1>5 DEF Duration
  <2>3. FtTypeOK'
      BY <1>1, <1>2, <1>3, <1>5, <2>1, <2>2 DEF FtInv, FtTypeOK, FtSteps, setting, Unreported
  <2>4. Progress'
      BY <1>1, <1>2, <1>5, <2>2 DEF FtInv, Progress, Unfinished, Windowed
  <2>5. Recording'
      BY <1>1, <1>2, <1>5, <2>2 DEF FtInv, Recording, Unfinished, Windowed, setting
  <2> QED
      BY <1>1, <1>2, <1>3, <1>5, <2>2, <2>3, <2>4, <2>5, LoopStep DEF Unreported
<1> QED
    BY <1>4, <1>5

\* SegmentJournal.finalize.
LEMMA FinalizeKeeps ==
    ASSUME FtInv, Finalize
    PROVE  FtOwn'
<1>1. pc = "finish"
    BY DEF Finalize
<1>2. CASE Unwind(receipts)
    BY <1>1, <1>2, PlainUnwind
<1>3. CASE ~Unwind(receipts)
  <2>1. /\ result' = journal.records /\ pc' = "join"
        /\ UNCHANGED <<setting, job, admitted, chunk, cursor, window, audio,
                       verdict, journal, receipts, waiter, loaded, pressure, pubVars>>
      BY <1>3 DEF Finalize
  <2>2. journal.records \in Seq(Interval)
      BY DEF FtInv, FtTypeOK
  <2>3. FtTypeOK'
      BY <2>1, <2>2 DEF FtInv, FtTypeOK, FtSteps, setting
  <2>4. Progress'
      BY <1>1, <2>1 DEF FtInv, Progress, Unfinished, Windowed
  <2>5. Recording'
      BY <1>1, <2>1 DEF FtInv, Recording, Unfinished, Windowed, setting
  <2> QED
      BY <1>1, <2>1, <2>3, <2>4, <2>5, LoopStep
<1> QED
    BY <1>2, <1>3

-----------------------------------------------------------------------------
(* The publication and the end of the file. *)

\* The result in hand is a whole transcript, of one recording when the job
\* carries a validation.
LEMMA JoinPublishes ==
    ASSUME FtInv, pc = "join"
    PROVE  /\ Rendered(result) \in Transcripts
           /\ validated => Rendered(result) = {admitted}
<1>1. /\ result \in Seq(Interval) /\ DurationOf[job] \in Nat \ {0}
      /\ Chain(result, DurationOf[job])
      /\ validated => Sole(result, admitted)
    BY DurationTyped DEF FtInv, FtTypeOK, Progress, Recording
<1> QED
    BY <1>1, ChainIsRendered

\* The start of _atomic_publish.
LEMMA JoinKeeps ==
    ASSUME FtInv, JoinChunks
    PROVE  FtOwn'
<1>1. pc = "join"
    BY DEF JoinChunks
<1>2. CASE Unwind(receipts)
    BY <1>1, <1>2, PlainUnwind
<1>3. CASE ~Unwind(receipts)
  <2>1. /\ BeginPublish(job, Rendered(result))
        /\ pc' = "publish"
        /\ UNCHANGED <<setting, job, admitted, chunk, cursor, window, audio,
                       verdict, journal, result, receipts, waiter, loaded, pressure>>
      BY <1>3 DEF JoinChunks
  <2>2. /\ pubpc' # "idle" /\ pubpath' = job /\ payload' = Rendered(result)
        /\ UNCHANGED <<gate, target>>
      BY <2>1 DEF BeginPublish
  <2>3. FtTypeOK'
      BY <2>1 DEF FtInv, FtTypeOK, FtSteps, setting
  <2>4. Progress'
      BY <2>1 DEF Progress, Unfinished, Windowed
  <2>5. Recording'
      BY <1>1, <2>1, <2>2, JoinPublishes DEF Recording, Unfinished, Windowed, setting
  <2>6. Calling'
      BY <2>1, <2>2 DEF Calling
  <2>7. Answering'
      BY <2>1 DEF Answering, WaiterIsTold
  <2>8. Durable'
      BY <2>1, <2>2, DurableStays DEF StaysKept
  <2> QED
      BY <2>3, <2>4, <2>5, <2>6, <2>7, <2>8 DEF FtOwn
<1> QED
    BY <1>2, <1>3

\* A step of the publication leaves the file's own state alone.
LEMMA PublishingKeeps ==
    ASSUME FtInv, (pc = "publish" /\ PubStep) \/ PubEnv, UNCHANGED jobVars,
           StaysKept, gate' = gate
    PROVE  FtOwn'
<1>1. UNCHANGED <<pubpath, payload>> /\ (pubpc' # "idle" <=> pubpc # "idle")
    BY DEF FtInv, Calling, PubStep, PubEnv, WriteStaging, SyncStaging, VerifyStaging,
           ReplaceTarget, LinkTarget, VerifyLink, UnlinkStaging, SyncDirectory, CleanUp,
           ForeignWrite, ForeignStaging, Raise
<1>2. FtTypeOK'
    BY DEF FtInv, FtTypeOK, jobVars
<1>3. Progress'
    BY DEF FtInv, Progress, jobVars
<1>4. Recording'
    BY <1>1 DEF FtInv, Recording, jobVars
<1>5. Calling'
    BY <1>1 DEF FtInv, Calling, jobVars
<1>6. Answering'
    BY DEF FtInv, Answering, WaiterIsTold, jobVars
<1>7. Durable'
  <2>1. CASE pc = "complete"
    <3>1. pubpc = "idle" /\ PubEnv
        BY <2>1 DEF FtInv, Calling
    <3>2. UNCHANGED target
        BY <3>1 DEF PubEnv, ForeignWrite, ForeignStaging
    <3> QED
        BY <3>2 DEF FtInv, Durable, CompletedIsDurable, jobVars
  <2>2. CASE pc # "complete"
      BY <2>2, DurableStays DEF jobVars
  <2> QED
      BY <2>1, <2>2
<1> QED
    BY <1>2, <1>3, <1>4, <1>5, <1>6, <1>7 DEF FtOwn

\* The publication returned, and in the gate what it published is on disk;
\* or it raised.
LEMMA PublishEndedKeeps ==
    ASSUME FtInv, PublishEnded
    PROVE  FtOwn'
<1>1. /\ pc = "publish" /\ pubpath = job /\ job \in Paths
      /\ pubpc' = "idle" /\ UNCHANGED <<gate, target>>
      /\ UNCHANGED <<setting, job, admitted, chunk, cursor, window, audio, verdict,
                     journal, result, receipts, loaded, pressure>>
    BY DEF PublishEnded, TakeResult, CallGone, FtInv, Calling, FtTypeOK
<1>2. \/ pubpc = "returned" /\ pc' = "complete" /\ waiter' # "waiting"
      \/ pc' = "fail"
    BY DEF PublishEnded
<1>3. FtTypeOK'
    BY <1>1, <1>2 DEF FtInv, FtTypeOK, FtSteps, setting
<1>4. Progress'
    BY <1>2 DEF Progress, Unfinished, Windowed
<1>5. Recording'
    BY <1>2 DEF Recording, Unfinished, Windowed
<1>6. Calling'
    BY <1>1, <1>2 DEF Calling
<1>7. Answering'
    BY <1>2 DEF Answering, WaiterIsTold
<1>8. Durable'
    BY <1>1, <1>2 DEF FtInv, Durable, CompletedIsDurable, GateKeeps
<1> QED
    BY <1>3, <1>4, <1>5, <1>6, <1>7, <1>8 DEF FtOwn

\* _complete_workload: the file's subtitle is on disk when it is reported.
LEMMA CompleteKeeps ==
    ASSUME FtInv, Complete
    PROVE  FtOwn'
<1>1. /\ pc = "complete" /\ receipts \in ReceiptStates /\ job \in Paths
      /\ (IF segmented THEN Duration ELSE 0) \in Nat
    BY DurationTyped DEF Complete, FtInv, FtTypeOK, Duration
<1>2. PICK o \in CompleteWorkload(receipts, IF segmented THEN Duration ELSE 0, job) :
         \/ ~o.ok /\ Unwind(o.state)
         \/ /\ o.ok
            /\ receipts' = o.state
            /\ pc' = "final"
            /\ UNCHANGED <<setting, job, admitted, chunk, cursor, window, audio,
                           verdict, journal, result, waiter, loaded, pressure,
                           pubVars>>
    BY DEF Complete
<1>3. /\ o.state \in ReceiptStates
      /\ ~o.ok => Unreported(receipts, o)
      /\ o.ok => o.state.completed = Append(receipts.completed, job)
    BY <1>1, CompleteReceipt
<1>4. CASE ~o.ok /\ Unwind(o.state)
    BY <1>1, <1>3, <1>4, ReceiptUnwinds
<1>5. CASE ~(~o.ok /\ Unwind(o.state))
  <2>1. FtTypeOK'
      BY <1>2, <1>3, <1>5 DEF FtInv, FtTypeOK, FtSteps, setting
  <2>2. Progress'
      BY <1>2, <1>5 DEF Progress, Unfinished, Windowed
  <2>3. Recording'
      BY <1>2, <1>5 DEF Recording, Unfinished, Windowed
  <2>4. Calling'
      BY <1>1, <1>2, <1>5 DEF FtInv, Calling, pubVars
  <2>5. Answering'
      BY <1>1, <1>2, <1>5 DEF FtInv, Answering, WaiterIsTold
  <2>6. Durable'
    <3>1. receipts.completed \in Seq(Paths)
        BY <1>1 DEF ReceiptStates
    <3>2. ASSUME NEW i \in 1 .. Len(Append(receipts.completed, job)), gate
          PROVE  target[Append(receipts.completed, job)[i]].kept \in Transcripts
      <4>1. CASE i = Len(receipts.completed) + 1
          BY <1>1, <3>1, <3>2, <4>1 DEF FtInv, Durable
      <4>2. CASE i # Len(receipts.completed) + 1
          BY <3>1, <3>2, <4>2 DEF FtInv, Durable, CompletedIsDurable
      <4> QED
          BY <4>1, <4>2
    <3>3. receipts'.completed = Append(receipts.completed, job) /\ UNCHANGED <<gate, target>>
        BY <1>2, <1>3, <1>5 DEF pubVars
    <3> QED
        BY <1>2, <1>5, <3>2, <3>3 DEF Durable, CompletedIsDurable
  <2> QED
      BY <2>1, <2>2, <2>3, <2>4, <2>5, <2>6 DEF FtOwn
<1> QED
    BY <1>4, <1>5

\* The handler of gen_subtitles: _abort_workload raises only when the
\* receipts have failed closed, and otherwise the waiting task gets its error.
LEMMA FailedKeeps ==
    ASSUME FtInv, FileFailed
    PROVE  FtOwn'
<1>1. pc = "fail" /\ pc' = "final" /\ receipts \in ReceiptStates /\ gate \in BOOLEAN
      /\ UNCHANGED <<setting, job, admitted, chunk, cursor, window, audio, verdict,
                     journal, result, loaded, pressure, pubVars>>
    BY DEF FileFailed, FtInv, FtTypeOK, PubInv, PubTypeOK
<1>2. PICK o \in IF receipts.bound THEN AbortWorkload(receipts) ELSE {Returns(receipts)} :
         /\ receipts' = o.state
         /\ waiter' = IF o.ok /\ waiter # "none" THEN "error" ELSE waiter
    BY DEF FileFailed
<1>3. /\ receipts' \in ReceiptStates
      /\ receipts'.completed = receipts.completed
      /\ waiter' = "waiting" => receipts'.failed
  <2>1. CASE receipts.bound
    <3>1. Unreported(receipts, o) /\ (~o.ok => o.state.failed)
        BY <1>1, <1>2, <2>1, AbortReceipt
    <3> QED
        BY <1>2, <3>1 DEF Unreported
  <2>2. CASE ~receipts.bound
    <3>1. o.state = receipts /\ o.ok = TRUE
        BY <1>2, <2>2 DEF Returns
    <3> QED
        BY <1>1, <1>2, <3>1
  <2> QED
      BY <2>1, <2>2
<1>4. FtTypeOK'
    BY <1>1, <1>3 DEF FtInv, FtTypeOK, FtSteps, setting
<1>5. Progress'
    BY <1>1 DEF Progress, Unfinished, Windowed
<1>6. Recording'
    BY <1>1 DEF Recording, Unfinished, Windowed
<1>7. Calling'
    BY <1>1 DEF FtInv, Calling, pubVars
<1>8. Answering'
    BY <1>1, <1>3 DEF Answering, WaiterIsTold
<1>9. Durable'
    BY <1>1, <1>3, DurableStays DEF StaysKept, pubVars
<1> QED
    BY <1>4, <1>5, <1>6, <1>7, <1>8, <1>9 DEF FtOwn

\* What the locals of a call that is gone are.
LEMMA FreshLocals ==
    ASSUME FtInv, LocalsGone, media' = media, UNCHANGED <<segmented, validated>>,
           pc' \in {"idle", "down"}, receipts' \in ReceiptStates
    PROVE  FtTypeOK' /\ Progress' /\ Recording' /\ Answering'
<1>1. Freshly(Baseline) \in Budget(Baseline)
    BY FreshlyInBudget, TranscriptionAssumption
<1>2. /\ NoJournal \in [records : Seq(Interval), poisoned : BOOLEAN, open : BOOLEAN]
      /\ NoJournal.records = <<>>
    BY DEF NoJournal
<1>3. FtTypeOK'
    BY <1>1, <1>2, AnyPathIsPath, RecordingOrder
       DEF LocalsGone, FtInv, FtTypeOK, FtSteps, Generations
<1>4. Progress'
    BY <1>2 DEF LocalsGone, Progress, Unfinished, Windowed
<1>5. Recording'
    BY DEF Recording, Unfinished, Windowed
<1>6. Answering'
    BY DEF Answering, WaiterIsTold
<1> QED
    BY <1>3, <1>4, <1>5, <1>6

\* finally.
LEMMA EndedKeeps ==
    ASSUME FtInv, FileEnded
    PROVE  FtOwn'
<1>1. /\ pc # "publish" /\ pc' = "idle" /\ LocalsGone
      /\ UNCHANGED <<setting, receipts, pressure, pubVars>>
      /\ receipts' \in ReceiptStates
    BY DEF FileEnded, FtInv, FtTypeOK
<1>2. FtTypeOK' /\ Progress' /\ Recording' /\ Answering'
    BY <1>1, FreshLocals DEF setting
<1>3. Calling'
    BY <1>1 DEF FtInv, Calling, pubVars
<1>4. Durable'
    BY <1>1, DurableStays DEF StaysKept, pubVars
<1> QED
    BY <1>2, <1>3, <1>4 DEF FtOwn

\* Power loss: in the gate the receipts stay, elsewhere they start again.
LEMMA LostKeeps ==
    ASSUME FtInv, ProcessLost, StaysKept
    PROVE  FtOwn'
<1>1. /\ pc' \in {"idle", "down"} /\ LocalsGone /\ gate' = gate /\ pubpc' = "idle"
      /\ UNCHANGED <<segmented, validated, media>>
      /\ receipts \in ReceiptStates
    BY DEF ProcessLost, Crash, CallGone, FtInv, FtTypeOK
<1>2. /\ receipts' \in ReceiptStates
      /\ gate => receipts' = receipts
  <2>1. [receipts EXCEPT !.bound = FALSE, !.uncommitted = FALSE, !.cursor = 0,
                         !.completed = <<>>] \in ReceiptStates
    <3>0. <<>> \in Seq(Paths)
        OBVIOUS
    <3>1. PICK none \in Seq(Paths) : none = <<>>
        BY <3>0, Zenon
    <3>2. [receipts EXCEPT !.bound = FALSE, !.uncommitted = FALSE, !.cursor = 0,
                           !.completed = none] \in ReceiptStates
        BY <1>1 DEF ReceiptStates
    <3> QED
        BY <3>1, <3>2
  <2> QED
      BY <1>1, <2>1 DEF ProcessLost
<1>3. FtTypeOK' /\ Progress' /\ Recording' /\ Answering'
    BY <1>1, <1>2, FreshLocals
<1>4. Calling'
    BY <1>1 DEF Calling
<1>5. Durable'
  <2>1. CASE gate
    <3>1. receipts'.completed = receipts.completed /\ pc' # "complete"
        BY <1>1, <1>2, <2>1
    <3> QED
        BY <1>1, <3>1, DurableStays
  <2>2. CASE ~gate
    <3>1. ~gate'
        BY <1>1, <2>2
    <3> QED
        BY <3>1 DEF Durable, CompletedIsDurable
  <2> QED
      BY <2>1, <2>2
<1> QED
    BY <1>3, <1>4, <1>5 DEF FtOwn

\* A new recording is newer than any that was admitted or read.
LEMMA MediaKeeps ==
    ASSUME FtInv, MediaReplaced \/ CancelRuntime
    PROVE  FtOwn'
<1>1. UNCHANGED <<segmented, validated, pc, job, admitted, chunk, cursor, window,
                  audio, verdict, journal, result, receipts, waiter, pubVars>>
    BY DEF MediaReplaced, CancelRuntime
<1>2. media' \in Generations /\ media <= media' /\ media \in Nat
    BY RecordingOrder, TranscriptionAssumption
       DEF MediaReplaced, CancelRuntime, FtInv, FtTypeOK, Generations
<1>3. FtTypeOK'
    BY <1>1, <1>2, RecordingOrder DEF FtInv, FtTypeOK, Generations
<1>4. Progress' /\ Recording' /\ Calling' /\ Durable'
    BY <1>1 DEF FtInv, Progress, Recording, Calling, Durable, CompletedIsDurable, pubVars
<1>5. media # admitted => media' # admitted'
    BY <1>1, <1>2, RecordingOrder DEF FtInv, MediaReplaced, CancelRuntime
<1>6. Answering'
    BY <1>1, <1>5 DEF FtInv, Answering, WaiterIsTold
<1> QED
    BY <1>3, <1>4, <1>6 DEF FtOwn

-----------------------------------------------------------------------------
(* The theorems. *)

\* What FileTranscription starts from satisfies the invariant.
LEMMA FtInitInv == FtInit => FtInv
<1> SUFFICES ASSUME FtInit PROVE FtInv
    OBVIOUS
<1>1. PubInv
    BY PubInitInv DEF FtInit
<1>2. /\ Freshly(Baseline) \in Budget(Baseline)
      /\ NoJournal \in [records : Seq(Interval), poisoned : BOOLEAN, open : BOOLEAN]
      /\ NoJournal.records = <<>>
    BY FreshlyInBudget, TranscriptionAssumption DEF NoJournal
<1>3. receipts \in ReceiptStates /\ Len(receipts.completed) = 0
    BY DEF FtInit, ReceiptStates
<1>4. FtTypeOK
    BY <1>2, <1>3, AnyPathIsPath, TranscriptionAssumption
       DEF FtInit, FtTypeOK, FtSteps, Generations
<1>5. Progress /\ Recording
    BY <1>2 DEF FtInit, Progress, Recording, Unfinished, Windowed
<1>6. Calling /\ Answering
    BY DEF FtInit, PubInit, Calling, Answering, WaiterIsTold
<1>7. GateKeeps
  <2>1. PICK f \in [Paths -> {Absent, Foreign}] :
           target = [p \in Paths |-> [now |-> f[p], kept |-> f[p], synced |-> TRUE]]
      BY DEF FtInit, PubInit
  <2>2. \A p \in Paths : target[p].kept = target[p].now
      BY <2>1
  <2>3. pubpc = "idle"
      BY DEF FtInit, PubInit
  <2> QED
      BY <2>2, <2>3 DEF GateKeeps
<1>8. Durable
    BY <1>3 DEF FtInit, Durable, CompletedIsDurable
<1> QED
    BY <1>1, <1>4, <1>5, <1>6, <1>7, <1>8 DEF FtInv

\* A step of gen_subtitles is a step of the publication or leaves it alone.
LEMMA FtStepPublishes ==
    ASSUME FtInv, [FtNext]_ftVars
    PROVE  [PubNext]_pubVars
<1>1. CASE UNCHANGED ftVars
    BY <1>1 DEF ftVars
<1>2. CASE JoinChunks
  <2>1. CASE UNCHANGED pubVars
      BY <2>1
  <2>2. CASE BeginPublish(job, Rendered(result))
      BY <1>2, <2>2, JoinPublishes DEF JoinChunks, FtInv, FtTypeOK, PubNext
  <2> QED
      BY <1>2, <2>1, <2>2 DEF JoinChunks, Unwind
<1>3. CASE Publishing \/ PublishEnded \/ ForeignWriter \/ ProcessLost
    BY <1>3 DEF Publishing, PublishEnded, ForeignWriter, ProcessLost, PubNext
<1>4. CASE \/ \E p \in Paths : StartFile(p)
           \/ Admit \/ LoadModel \/ BeginWhole \/ EndWhole
           \/ ReleaseAttempt \/ WaitForRecovery
    BY <1>4 DEF StartFile, Admit, LoadModel, BeginWhole, EndWhole, ReleaseAttempt,
                WaitForRecovery, Recovered, Unwind
<1>5. CASE \/ PlanChunk \/ ExtractChunk \/ ChunkStarted \/ TranscribeChunk
           \/ CommitChunk \/ ChunkCommitted \/ Finalize
    BY <1>5 DEF PlanChunk, ExtractChunk, ChunkStarted, TranscribeChunk, CommitChunk,
                ChunkCommitted, Finalize, Unwind
<1>6. CASE Complete \/ FileFailed \/ FileEnded \/ MediaReplaced \/ CancelRuntime
    BY <1>6 DEF Complete, FileFailed, FileEnded, MediaReplaced, CancelRuntime, Unwind
<1> QED
    BY <1>1, <1>2, <1>3, <1>4, <1>5, <1>6 DEF FtNext, FileStep

\* Every step keeps the invariant.
LEMMA FtNextInv == FtInv /\ [FtNext]_ftVars => FtInv'
<1> SUFFICES ASSUME FtInv, [FtNext]_ftVars PROVE FtInv'
    OBVIOUS
<1>1. [PubNext]_pubVars
    BY FtStepPublishes
<1>2. PubInv'
    BY <1>1, PubNextInv DEF FtInv
<1>3. GateKeeps' /\ StaysKept /\ gate' = gate
    BY <1>1, GateNext DEF FtInv
<1>4. FtOwn'
  <2>1. CASE UNCHANGED ftVars
      BY <2>1 DEF ftVars, jobVars, pubVars, FtInv, FtOwn, FtTypeOK, Progress, Recording,
                  Calling, Answering, WaiterIsTold, Durable, CompletedIsDurable
  <2>2. CASE \/ \E p \in Paths : StartFile(p)
             \/ Admit \/ LoadModel \/ BeginWhole \/ EndWhole
             \/ ReleaseAttempt \/ WaitForRecovery
      BY <2>2, StartKeeps, AdmitKeeps, LoadKeeps, BeginWholeKeeps, EndWholeKeeps,
         ReleaseKeeps, RecoverKeeps
  <2>3. CASE \/ PlanChunk \/ ExtractChunk \/ ChunkStarted \/ TranscribeChunk
             \/ CommitChunk \/ ChunkCommitted \/ Finalize
      BY <2>3, PlanKeeps, ExtractKeeps, StartedKeeps, TranscribeKeeps, CommitKeeps,
         CommittedKeeps, FinalizeKeeps
  <2>4. CASE JoinChunks \/ PublishEnded \/ Complete \/ FileFailed \/ FileEnded
      BY <2>4, JoinKeeps, PublishEndedKeeps, CompleteKeeps, FailedKeeps, EndedKeeps
  <2>5. CASE Publishing \/ ForeignWriter
      BY <1>3, <2>5, PublishingKeeps DEF Publishing, ForeignWriter
  <2>6. CASE MediaReplaced \/ CancelRuntime \/ ProcessLost
      BY <1>3, <2>6, MediaKeeps, LostKeeps
  <2> QED
      BY <2>1, <2>2, <2>3, <2>4, <2>5, <2>6 DEF FtNext, FileStep
<1> QED
    BY <1>2, <1>3, <1>4 DEF FtInv, FtOwn

\* The invariant holds in every state.
LEMMA FtInvHolds == FtSpec => []FtInv
BY FtInitInv, FtNextInv, PTL DEF FtSpec

\* Whoever waits for the result of a file is told how it ended, whatever
\* step of gen_subtitles failed, unless the receipt coordinator failed closed
\* or the media was replaced before the first check, which stands outside the
\* try.
THEOREM WaitersAreTold == FtSpec => []WaiterIsTold
<1>1. FtInv => WaiterIsTold
    BY DEF FtInv, Answering
<1> QED
    BY <1>1, FtInvHolds, PTL

\* A subtitle that a validated job publishes is made of the recording that
\* was admitted, however often the media file is replaced meanwhile.
THEOREM SubtitlesHaveOneRecording == FtSpec => []OneRecording
<1>1. FtInv => OneRecording
    BY DEF FtInv, Recording, OneRecording
<1> QED
    BY <1>1, FtInvHolds, PTL

\* A gate workload that was reported complete has its subtitle on disk, and
\* keeps it there through every power loss, abort and failed append.
THEOREM CompletionsAreDurable == FtSpec => []CompletedIsDurable
<1>1. FtInv => CompletedIsDurable
    BY DEF FtInv, Durable
<1> QED
    BY <1>1, FtInvHolds, PTL

\* The chunk loop advances: a planned window starts at the cursor, is not
\* empty and ends inside the media (plan_next_window, AdaptiveChunkState).
THEOREM ChunksAdvance ==
    FtSpec => [](pc \in Windowed => cursor < window /\ window <= DurationOf[job])
<1>1. FtInv => (pc \in Windowed => cursor < window /\ window <= DurationOf[job])
    BY DEF FtInv, Progress
<1> QED
    BY <1>1, FtInvHolds, PTL

\* The transcription of files implements SubtitleFile: nothing the chunk loop
\* hands to the publication is a part of a transcript.
THEOREM TranscriptionRefines == FtSpec => PublishesWholeFiles
<1>1. FtInit => Files!FilesInit
    BY InitRefines DEF FtInit
<1>2. FtInv /\ [FtNext]_ftVars => [Files!FilesNext]_Files!filesVars
    BY FtStepPublishes, NextRefines DEF FtInv
<1> QED
    BY <1>1, <1>2, FtInvHolds, PTL DEF FtSpec, PublishesWholeFiles, Files!FilesSpec
=============================================================================

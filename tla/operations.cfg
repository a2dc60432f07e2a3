\* One part of the operations side at a time; two uploads of one audio, a
\* library file and two workers for the task queue.
SPECIFICATION OpsSpec
CONSTANTS
    Requests = {r1, r2}
    Feeders = {f1}
    Workers = {w1, w2}
    Upload = upload
    Audio = {upload}
    Files = {someFile}
    IdOf <- SameUpload
    None = none
    ProbeReplies <- SomeReplies
    PolicyFolders <- OneFolder
    HeartbeatMaxAge = 1
    SourceMaxAge = 2
    MaxTrackedEpochs = 1
    MaxTime = 3
    MaxEpochs = 2
    MaxPublications = 2
    MaxFaults = 1
    MaxAppends = 3
    MaxStops = 3
    JournalLosses = 1
    Publishers = {pubA, pubB}
    Checkouts <- CleanAndNot
    MaxTroubles = 1
    Indexes <- SomeIndexes
    Candidate = 2
    SmokeMishaps = 3
    Repositories <- SomeRepositories
    Evidence <- EvidenceFiles
    CandidateRecord = "candidate"
    Boundary = "boundary"
    SealPath = "seal"
    SoakOnly <- SoakRecords
    SoakReads <- SoakFiles
    Image <- Images
    Intended = "intended"
    MaxEdits = 4
    GateCandidates = {"documented", "runtime"}
    MaxReceipts = 16
    MaxLead = 3
    Samples = 1
    GateUpsets = 1
    MaxCgroups = 3
    MaxOoms = 2
    MaxUpsets = 3
    ProfilerRuns = {1, 2}
    Duration = 1
    Overlap = 1
    MaxClock = 4
    MaxFailures = 1
    Backends = {"cuda", "native"}
    MaxRequests = 2
    MaxRepeats = 1
    MinMark = 1
    MinDelete = 1
    MaxGenerations = 2
    MaxTokens = 1
    MaxJobs = 2
    MonitorLosses = 1
    RepairCandidates = {"a", "b"}
    RepairRuns = {"r1", "r2"}
    MinCrashes = 2
    MaxPending = 1
    Oversized = {"b"}
    MaxEvidence = 3
    MaxStarts = 2
    MaxSessions = 2
INVARIANTS
    OneOwnerPerTask
    AcceptedIsServed
    NoResultLeftBehind
    OnlyProvenMediaDestroyed
    DeletedIsGone
    ResumesFromNewest
    CrashesNeverBlock
    NothingOverwritten
    LatestSentOnce
    CrashesAreResumable
    PassIsEarned
    ProofBindsOneCapture
    PassMissedNothing
    PassWatchedOneCycle
    DrainCountsWholeLife
    FinalEvidenceIsSealed
    PassSawEveryFailure
    GoneIsOffline
    ReleasedIsGone
PROPERTIES
    ClearIsEarned
    EvidenceIsNews
    ReportsAreKept
    ReceiptsAreAccepted
CHECK_DEADLOCK FALSE

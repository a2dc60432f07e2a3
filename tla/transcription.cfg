\* One process, in either of its ways: files by the model, or by two GPUs.
SPECIFICATION TrSpec
CONSTANTS
    f1 = f1
    f2 = f2
    Paths = {f1, f2}
    Transcripts <- Recordings
    GateOrder <- PhaseAThenB
    Absent = Absent
    Foreign = Foreign
    Torn = Torn
    DurationOf <- LongAndShort
    Baseline = 2
    GrowAfter = 2
    MaxPressure = 1
    MaxChanges = 1
    MaxJobs = 3
    MaxOrdinary = 1
    w1 = w1
    w2 = w2
    Selected <- TwoGpus
    CoFiles <- LongAndShortFile
INVARIANTS
    CompletedIsDurable
    OneRecording
    WaiterIsTold
    MediaIsPartitioned
    LeaseOwnsMemory
PROPERTIES
    PublishesWholeFiles
    CohortFileEnds
CHECK_DEADLOCK FALSE

\* A close that overtakes the end of a recovery, with no resident model.
SPECIFICATION MCFairSpec
CONSTANTS
    RecoverySamples = 1
    PriorityClears = 1
    PriorityConfigured = FALSE
    CanonicalCuda = FALSE
    SourceGens = {1}
    Workers = {w1}
    Cleaners = {}
    Permits = {p1}
    Observer = obs
    Free = nobody
    Segmented = FALSE
    BackendMayFail = FALSE
    MayShutDown = FALSE
    MaxGen = 3
    MaxExt = 0
PROPERTIES
    NormalReopens

\* Releases under fairness, with failures, idle cleanup and shutdown.
SPECIFICATION MCFairSpec
CONSTANTS
    RecoverySamples = 1
    PriorityClears = 1
    PriorityConfigured = FALSE
    CanonicalCuda = TRUE
    SourceGens = {1}
    Workers = {w1}
    Cleaners = {c1}
    Permits = {p1, p2}
    Observer = obs
    Free = nobody
    Segmented = FALSE
    BackendMayFail = TRUE
    MayShutDown = TRUE
    MaxGen = 1
    MaxExt = 0
PROPERTIES
    ReleaseCompletes
    JoinersReturn

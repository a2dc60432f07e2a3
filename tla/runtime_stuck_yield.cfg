\* A segmented worker and the observer release the model at the same time.
SPECIFICATION MCFairSpec
CONSTANTS
    RecoverySamples = 1
    PriorityClears = 1
    PriorityConfigured = FALSE
    CanonicalCuda = FALSE
    SourceGens = {1}
    Workers = {w1}
    Cleaners = {}
    Permits = {p1}
    Observer = obs
    Free = nobody
    Segmented = TRUE
    BackendMayFail = FALSE
    MayShutDown = FALSE
    MaxGen = 3
    MaxExt = 0
PROPERTIES
    YieldIsAcknowledged

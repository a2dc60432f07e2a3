\* A priority signal is configured; its publications carry two generations.
SPECIFICATION BoundedSpec
CONSTANTS
    RecoverySamples = 1
    PriorityClears = 1
    PriorityConfigured = TRUE
    CanonicalCuda = FALSE
    SourceGens = {1, 2}
    Workers = {w1}
    Cleaners = {}
    Permits = {p1}
    Observer = obs
    Free = nobody
    Segmented = FALSE
    BackendMayFail = FALSE
    MayShutDown = FALSE
    MaxGen = 1
    MaxExt = 1
INVARIANTS
    OpenMeansRecovered

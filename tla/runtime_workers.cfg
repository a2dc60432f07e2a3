\* Two workers with segmented tasks compete for one permit under an observer.
SPECIFICATION MCSpec
CONSTANTS
    RecoverySamples = 1
    PriorityClears = 1
    PriorityConfigured = FALSE
    CanonicalCuda = FALSE
    SourceGens = {1}
    Workers = {w1, w2}
    Cleaners = {}
    Permits = {p1}
    Observer = obs
    Free = nobody
    Segmented = TRUE
    BackendMayFail = FALSE
    MayShutDown = FALSE
    MaxGen = 2
    MaxExt = 0
SYMMETRY Symmetry
INVARIANTS
    NoUnloadDuringInference
    TicketReleasesItsOwnModel

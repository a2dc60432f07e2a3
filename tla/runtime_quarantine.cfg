\* Two workers whose loads fail: the second failure quarantines the profile.
SPECIFICATION BoundedSpec
CONSTANTS
    RecoverySamples = 1
    PriorityClears = 1
    PriorityConfigured = FALSE
    CanonicalCuda = FALSE
    SourceGens = {1}
    Workers = {w1, w2}
    Cleaners = {}
    Permits = {p1}
    Observer = obs
    Free = nobody
    Segmented = FALSE
    BackendMayFail = TRUE
    MayShutDown = FALSE
    MaxGen = 2
    MaxExt = 0
SYMMETRY Symmetry
PROPERTIES
    QuarantineIsFinal

\* Two libraries change while they are scanned; or one file meets a webhook,
\* a worker, errors, a hanging scan and shutdown.
SPECIFICATION MCFairSpec
CONSTANTS
    Paths = {p1, p2}
    Libraries = {movies, shows}
    Other = other
    Elsewhere = {p2}
    LabelOf <- MCLabelOf
    Hooks = {h1}
    Workers = {w1}
    Scanner = scanner
    Watcher = watcher
    MayFail = TRUE
    MaxChanges = 2
CHECK_DEADLOCK FALSE
INVARIANTS
    LeftMatchesPending
    CleanScanIsExact
    NothingMissed
PROPERTIES
    BarrierOpens

\* A queued file is replaced by one of the same name.
SPECIFICATION MCSpec
CONSTANTS
    Paths = {p1}
    Libraries = {movies}
    Other = other
    Elsewhere = {}
    LabelOf <- MCLabelOf
    Hooks = {}
    Workers = {}
    Scanner = scanner
    Watcher = watcher
    MayFail = FALSE
    MaxChanges = 2
CHECK_DEADLOCK FALSE
INVARIANTS
    QueuedIsLeft

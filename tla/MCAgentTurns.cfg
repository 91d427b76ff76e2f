CONSTANTS
    Msgs = {m1, m2}
    Early = {m1, m2}
    Hooks = {}
    Workers = {w1, w2}
    MaxPosts = 0
    Ceiling = 2
    RedisFails = TRUE
    MaxFaults = 1
    StaffRetry = TRUE
SPECIFICATION Spec
SYMMETRY Symmetry
INVARIANTS TypeOK TurnsAlone RepliesInOrder
PROPERTIES HistoryKept
CHECK_DEADLOCK FALSE

CONSTANTS
    Rows = {1, 2}
    Terminal = {2}
    Workers = {w1, w2}
    BatchSize = 2
    MaxDuration = 4
    LastStart = 1
    RowDeadline = 2
    Lease = 5
    Backoff = 1
    Ceiling = 2
    Ops = {"retry", "dismiss"}
SPECIFICATION Spec
SYMMETRY Symmetry
INVARIANTS TypeOK LeaseIsHeld OneRunner RunsAreCharged
PROPERTIES KeepsRowPromise
CHECK_DEADLOCK FALSE

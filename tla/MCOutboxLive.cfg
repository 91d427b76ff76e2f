CONSTANTS
    Rows = {1, 2}
    Terminal = {2}
    Workers = {w1, w2}
    BatchSize = 2
    MaxDuration = 4
    LastStart = 1
    RowDeadline = 3
    Lease = 5
    Backoff = 1
    Ceiling = 1
    Ops = {}
SPECIFICATION FairSpec
PROPERTIES EveryRowSettles
CHECK_DEADLOCK FALSE

CONSTANTS
    Msgs = {m1, m2}
    Early = {m1}
    Hooks = {h1}
    Workers = {w1}
    MaxPosts = 2
    Ceiling = 1
    RedisFails = FALSE
    MaxFaults = 1
    StaffRetry = FALSE
SPECIFICATION FairSpec
INVARIANTS InboundExactlyOnce
PROPERTIES EveryMessageIsAnswered
CHECK_DEADLOCK FALSE

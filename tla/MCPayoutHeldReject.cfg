CONSTANTS
    Workers = {w1}
    Callbacks = {}
    Retries = {}
    Ceiling = 1
    Fundings = {"card"}
    Ways = {"held"}
    Ops = {}
    Watched = {}
SPECIFICATION Spec
INVARIANTS PendingRefundHasEffect
CHECK_DEADLOCK FALSE

CONSTANTS
    Workers = {w1}
    Callbacks = {}
    Retries = {}
    Ceiling = 1
    Fundings = {"card"}
    Ways = {"settled"}
    Ops = {"retry", "dismiss"}
    Watched = {"refundstuck"}
SPECIFICATION FairSpec
PROPERTIES PendingRefundIsDecided
CHECK_DEADLOCK FALSE

CONSTANTS
    Workers = {w1}
    Callbacks = {c1}
    Retries = {r1}
    Ceiling = 1
    Fundings = {"none", "card", "stripe", "b2b"}
    Ways = {"settled", "mocked", "funded", "arrived"}
    Ops = {}
    Watched = {}
SPECIFICATION Spec
VIEW View
SYMMETRY Symmetry
INVARIANTS RefundKeyFollowsLedger PendingRefundHasEffect OneLiveInstruction LedgerIsTruthful
CHECK_DEADLOCK FALSE

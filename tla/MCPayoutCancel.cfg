CONSTANTS
    Workers = {w1, w2}
    Callbacks = {}
    Retries = {}
    Ceiling = 2
    Fundings = {"none", "card", "stripe", "b2b"}
    Ways = {"settled", "mocked", "held", "funded", "arrived"}
    Ops = {"retry", "dismiss"}
    Watched = {}
SPECIFICATION Spec
VIEW View
SYMMETRY Symmetry
INVARIANTS TypeOK SenderCancelIsFinal
PROPERTIES FirstToldWhileLive KeepsLifecycle
CHECK_DEADLOCK FALSE

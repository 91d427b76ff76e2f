CONSTANTS
    Payers = {p1, p2, p3}
    Confirmers = {c1}
    StripeFunding = FALSE
    MockRail = FALSE
    Watched = {"cancelcharged", "fundblocked"}
SPECIFICATION FairSpec
INVARIANTS StageOneAfterCharge RailOnlyWhenAllowed
PROPERTIES ChargedRowIsResolved CancelledChargeIsReported
CHECK_DEADLOCK FALSE

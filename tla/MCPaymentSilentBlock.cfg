CONSTANTS
    Payers = {p1}
    Confirmers = {c1}
    StripeFunding = TRUE
    MockRail = FALSE
    Watched = {"fundblocked", "stripechargedmoved", "stripereturn"}
SPECIFICATION FairSpec
PROPERTIES BlockedDebitIsReported
CHECK_DEADLOCK FALSE

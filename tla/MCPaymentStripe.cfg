CONSTANTS
    Payers = {p1}
    Confirmers = {c1}
    StripeFunding = TRUE
    MockRail = TRUE
    Watched = {"fundblocked"}
SPECIFICATION FairSpec
INVARIANTS TypeOK IntentNeverVoided
PROPERTIES FundingGateHolds KeepsLifecycle ChargedRowIsResolved HandsOver
CHECK_DEADLOCK FALSE

CONSTANTS
    d1 = d1
    d2 = d2
    c1 = c1
    c2 = c2
    None = None
    Ids    <- MCIds
    Requests  <- MCRequests
    Review = TRUE
    Expiry = TRUE
SPECIFICATION DisputesSpec
CHECK_DEADLOCK FALSE
INVARIANTS
    DecidedOnce
    AnswerIsOwnDecision
PROPERTIES
    NoneStaysOpen

CONSTANTS
    p1 = p1
    p2 = p2
    r1 = r1
    r2 = r2
    None = None
    Providers <- MCProviders
    Requests  <- MCRequests
    Attempts = 2
    MaxRefreshes = 2
    RecoverAfter = 2
SPECIFICATION FairSpec
CHECK_DEADLOCK FALSE
INVARIANTS
    UnlistedWerePinged
    CandidatesWereUp
PROPERTIES
    DownIsNoticed
    UpHeals

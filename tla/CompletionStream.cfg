CONSTANTS
    Cap       <- MCCap
    MaxChunks <- MCMaxChunks
SPECIFICATION FairSpec
CHECK_DEADLOCK FALSE
INVARIANTS
    DoneMeansAll
    EndingReachesClient
    OutcomeHeardOnce
PROPERTIES
    GoroutinesEnd
    ImplementsDelivery

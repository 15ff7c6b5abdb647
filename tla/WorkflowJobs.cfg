CONSTANTS
    j1 = j1
    c1 = c1
    c2 = c2
    w1 = w1
    Executor = Executor
    Jobs     <- MCJobs
    Callers  <- MCCallers
    Watchers <- MCWatchers
    NSteps   = 2
SPECIFICATION FairSpec
CHECK_DEADLOCK FALSE
INVARIANTS
    LateWritersRaced
    OutcomeMatchesState
    WatchersInOrder
PROPERTIES
    JobsSettle
    ImplementsLifecycle

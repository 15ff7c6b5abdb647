CONSTANTS
    k1 = k1
    c1 = c1
    c2 = c2
    c3 = c3
    NoRow = NoRow
    MaxInt64 = 3
    Calls     <- MCCalls
    Accounts  <- MCAccounts
    SetValues <- MCSetValues
    MaxBusy = 2
SPECIFICATION SQLSpec
SYMMETRY MCSymmetry
CHECK_DEADLOCK FALSE
INVARIANTS
    LostOnlyToOverlap

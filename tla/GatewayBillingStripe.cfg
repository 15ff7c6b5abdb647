CONSTANTS
    r1 = r1
    r2 = r2
    p1 = p1
    k1 = k1
    NoKey = NoKey
    Requests <- MCRequests
    Payments <- MCPayments
    Accounts <- MCAccounts
    Costs    <- MCCosts
    Amounts  <- MCAmounts
    MaxInt64 = 7
    Signing  = TRUE
    MaxTopUps = 1
    MaxTries  = 2
SPECIFICATION Spec
CHECK_DEADLOCK FALSE
INVARIANTS
    StripeCreditsOnce

CONSTANTS
    l1 = l1
    l2 = l2
    small = small
    large = large
    userAddress = userAddress
    hotWallet = hotWallet
    user = user
    None = None
    HotKey = HotKey
    Loops        <- MCLoops
    Transfers    <- MCTransfers
    To           <- MCTo
    Wei          <- MCWei
    Addresses    <- MCAddresses
    Hot          <- MCHot
    Keys         <- MCKeys
    Indexes      <- MCIndexes
    Confirmations = 1
    Lag = 1
    Word = 16
    WeiPerCent = 2
    Costs        <- MCCosts
    MaxHeight = 3
    MaxReorgs = 1
    MaxLogs = 2
    MaxDeliveries = 2
    MaxSettled = 1
SPECIFICATION Spec
SYMMETRY MCSymmetry
CHECK_DEADLOCK FALSE
INVARIANTS
    OncePerTransfer
    CreditedStaysMined
    OwnersOnly
    AccountsAddUp
    StoppedIsQuiet

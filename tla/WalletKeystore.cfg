CONSTANTS
    p1 = p1
    p2 = p2
    c1 = c1
    c2 = c2
    c3 = c3
    right = right
    wrong = wrong
    Torn = Torn
    None = None
    Processes <- MCProcesses
    Calls     <- MCCalls
    Password  <- MCPassword
SPECIFICATION Spec
SYMMETRY MCSymmetry
CHECK_DEADLOCK FALSE
INVARIANTS
    FileWhole
    KeyOfWallet
    AloneItStays

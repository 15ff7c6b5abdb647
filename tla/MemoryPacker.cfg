CONSTANTS
    m1 = m1
    m2 = m2
    Models    <- MCModels
    Sizes     <- MCSizes
    NewBudget <- MCNewBudget
    Budgets   <- MCBudgets
    MaxPlaced  = 3
    MaxAddress = 8
    MaxBelow   = 3
SPECIFICATION PackerSpec
SYMMETRY MCSymmetry
INVARIANTS
    Disjoint
    Counted

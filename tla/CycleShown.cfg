SPECIFICATION Spec
CONSTANTS
    x = x
    y = y
    Window = {x, y}
    Compared = {}
    TargetOf <- Mutual
    Keys = {k1, k2}
    Classify <- Turns
    MaxEdits = 1
    MaxCompacts = 2
    MaxFaults = 0
    None = None
SYMMETRY Symmetry
CHECK_DEADLOCK FALSE
INVARIANTS ExecutesApproved CurrentFaithful

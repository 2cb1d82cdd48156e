SPECIFICATION Spec
CONSTANTS
    x = x
    y = y
    Window = {x}
    Compared = {y}
    TargetOf <- Older
    Keys = {k1, k2}
    Classify <- Drift
    MaxEdits = 1
    MaxCompacts = 2
    MaxFaults = 1
    None = None
INVARIANT SafeCompletes
SYMMETRY Symmetry
CHECK_DEADLOCK FALSE

SPECIFICATION Spec
CONSTANTS
    x = x
    y = y
    Window = {x, y}
    Compared = {}
    TargetOf <- Mutual
    Keys = {k1, k2}
    Classify <- Drift
    MaxEdits = 1
    MaxCompacts = 2
    MaxFaults = 1
    None = None
INVARIANTS CheckpointBacked MergedOnce CompactFaithful
SYMMETRY Symmetry
CHECK_DEADLOCK FALSE

SPECIFICATION ManagedSpec
CONSTANTS
    k1 = k1
    k2 = k2
    b1 = b1
    b2 = b2
    plain = plain
    Paths = {canon}
    Canonical = canon
    Keys = {k1, k2, out}
    RelateKeys = {}
    Bodies = {b1, b2}
    Metas <- Provenances
    Plain = plain
    Targets = {}
    MaxOwner = 1
    MaxFaults = 1
    Prepares = {k1, k2}
    Out = out
    MaxRev = 1
    None = None
SYMMETRY Symmetry
INVARIANT ReprepareCompletes
CHECK_DEADLOCK FALSE

SPECIFICATION Spec
CONSTANTS
    Paths = {canon, moved}
    Canonical = canon
    Keys = {k1, k2}
    RelateKeys = {r1}
    Bodies = {b1, b2}
    Metas = {plain}
    Plain = plain
    Targets = {t}
    MaxOwner = 1
    MaxFaults = 1
    None = None
SYMMETRY Symmetry
INVARIANTS WriteOnce OneActive LinksKept
PROPERTIES ReplacesExpected
CHECK_DEADLOCK FALSE

SPECIFICATION Spec
CONSTANTS
    Paths = {canon, moved}
    Canonical = canon
    Keys = {k1, k2}
    RelateKeys = {r1}
    Bodies = {b1, b2}
    Metas = {plain}
    Plain = plain
    Targets = {t}
    MaxOwner = 1
    MaxFaults = 1
    None = None
CHECK_DEADLOCK FALSE
INVARIANTS IntentResumes RelateResumes
PROPERTY ReplacesExpectedAlways

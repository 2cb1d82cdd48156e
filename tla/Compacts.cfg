SPECIFICATION Spec
CONSTANTS
    Requests = {r1, r2, r3}
    Drafts = {d1, d2}
    RequestIds = {q1, q2}
    Lifecycle = {"mark", "archive", "delete"}
    MaxEvidence = 1
    MaxCrashes = 1
    MaxLifecycle = 1
    None = None
    Absent = Absent
SYMMETRY Symmetry
INVARIANTS OneCurrent LineageLinear RequestIdOnce
CHECK_DEADLOCK FALSE

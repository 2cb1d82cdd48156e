SPECIFICATION Spec
CONSTANTS
    p1 = p1
    p2 = p2
    x = x
    y = y
    n1 = n1
    n2 = n2
    Plans = {p1, p2}
    Contexts = {x, y, n1, n2}
    Existing = {x, y}
    Candidates <- OwnOrScanned
    DecisionLists <- EachEffect
    Requests = {a, b, c}
    Late = {c}
    Kinds = {"apply", "review", "resolve", "scan"}
    MaxErrors = 1
    NoRow = NoRow
    NoNote = NoNote
    NoPlan = NoPlan
SYMMETRY Symmetry
INVARIANTS AppliedBacked ReviewGate AppliedMeansDone
CHECK_DEADLOCK FALSE

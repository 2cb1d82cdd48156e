SPECIFICATION Spec
CONSTANTS
    p1 = p1
    p2 = p2
    x = x
    y = y
    n1 = n1
    n2 = n2
    Plans = {p1, p2}
    Contexts = {x, y, n1, n2}
    Existing = {x, y}
    Candidates <- OnlyOwn
    DecisionLists <- Supersessions
    Requests = {a, b, c}
    Late = {}
    Kinds = {"apply", "review", "resolve"}
    MaxErrors = 1
    NoRow = NoRow
    NoNote = NoNote
    NoPlan = NoPlan
CHECK_DEADLOCK FALSE
INVARIANT AppliedHappened
PROPERTIES ResolvedStays AppliedFinal

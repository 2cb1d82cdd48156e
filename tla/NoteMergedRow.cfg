SPECIFICATION Spec
CONSTANTS
    NPaths = 1
    NRequests = 2
    Bodies = {1, 2}
    Mixes = {"saves"}
    Workloads <- MCWorkloads
INVARIANTS
    RowHonestAlways

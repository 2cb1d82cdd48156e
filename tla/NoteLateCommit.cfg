SPECIFICATION Spec
CONSTANTS
    NPaths = 1
    NRequests = 3
    Bodies = {1, 2}
    Mixes = {"late"}
    Workloads <- MCWorkloads
INVARIANTS
    NothingStaleAlways

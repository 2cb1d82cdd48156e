SPECIFICATION Spec
CONSTANTS
    NPaths = 2
    NRequests = 3
    Bodies = {1, 2, 3}
    Mixes = {"archive"}
    Workloads <- MCWorkloads
INVARIANTS
    RelationsRebuilt

SPECIFICATION FairSpec
CONSTANTS
    NPaths = 2
    NRequests = 3
    Bodies = {1, 2, 3, 4}
    Mixes = {"cas", "heal", "finish"}
    Workloads <- MCWorkloads
INVARIANTS
    RowHonest
    NothingStale
    Rebuilt
PROPERTIES
    CasExact
    RequestsFinish

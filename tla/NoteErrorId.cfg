SPECIFICATION Spec
CONSTANTS
    NPaths = 2
    NRequests = 4
    Bodies = {1, 2, 3}
    Mixes = {"error"}
    Workloads <- MCWorkloads
PROPERTIES
    IdStable

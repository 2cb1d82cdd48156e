SPECIFICATION Spec
CONSTANTS
    NPaths = 3
    NRequests = 2
    Bodies = {1, 2, 3, 4}
    Mixes = {"replace"}
    Workloads <- MCWorkloads
PROPERTIES
    SupersededOnce

SPECIFICATION Spec
CONSTANTS
    NPaths = 1
    NRequests = 2
    Bodies = {1, 2}
    Mixes = {"casArchive"}
    Workloads <- MCWorkloads
PROPERTIES
    CasExactAlways

SPECIFICATION HostSpec
CONSTANTS
    ServicePids = {1, 2}
    MaxBirths = 4
    MaxUserSteps = 0
    Invokers = {"i1"}
    Samples = 1
CHECK_DEADLOCK FALSE
INVARIANTS
    OnlyOursIsStopped

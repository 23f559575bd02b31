SPECIFICATION Spec
CONSTANTS
    NDies = 2
    PagesPerDie = 1
    MaxFaults = 1
INVARIANTS
    CacheIsRegister
    OnTarget
    CallsTellTruth
CHECK_DEADLOCK FALSE

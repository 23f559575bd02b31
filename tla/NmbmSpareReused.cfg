SPECIFICATION Spec
CONSTANTS
    BlockCount = 12
    MgmtStart = 3
    SpareBlocks = 1
    FactoryBad = {0, 1, 2, 9}
    WeakBlocks <- EveryBlock
    FaultKinds = {}
    ForcedCreate = FALSE
    MaxFaults = 0
    MaxRestarts = 0
PROPERTIES
    SpareWasUnused

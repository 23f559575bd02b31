SPECIFICATION StoreSpec
CONSTANTS
    BlockCount = 9
    MgmtStart = 2
    SpareBlocks = 2
    FactoryBad = {0}
    WeakBlocks <- EveryBlock
    FaultKinds <- WriteFailure
    ForcedCreate = FALSE
    MaxFaults = 1
    MaxRestarts = 2
INVARIANTS
    CountsIdentify
    ReadsOwn
PROPERTIES
    ImplementsStore

SPECIFICATION FairSpec
CONSTANTS
    BlockCount = 9
    MgmtStart = 2
    SpareBlocks = 0
    FactoryBad = {0, 1, 5, 6}
    WeakBlocks <- EveryBlock
    FaultKinds <- AnyFailure
    ForcedCreate = FALSE
    MaxFaults = 4
    MaxRestarts = 1
INVARIANTS
    TableWritesConfined
    TablesSaved
    BlocksApart
PROPERTIES
    CallsReturn

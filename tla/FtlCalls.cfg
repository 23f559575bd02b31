SPECIFICATION FairSpec
CONSTANTS
    BlockCount = 5
    PagesPerBlock = 2
    MarkPages = {0, 1}
    UsePart = TRUE
    PartBase = 0
    PartBlocks = 5
    CheckBad = TRUE
    Overwrite = FALSE
    MapPages = 2
    FactoryBad = {1}
    Worn = {3}
    Dead = {4}
    FaultKinds = {"program", "erase", "mark", "read"}
    Calls <- EveryCaller
    MaxFaults = 1
INVARIANTS
    BbtTruthful
    RetcountIsTrue
PROPERTIES
    BadUntouched
    ChangesInRange
    EveryCallEnds

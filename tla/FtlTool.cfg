SPECIFICATION Spec
CONSTANTS
    BlockCount = 5
    PagesPerBlock = 2
    MarkPages = {0, 1}
    UsePart = TRUE
    PartBase = 1
    PartBlocks = 4
    CheckBad = TRUE
    Overwrite = TRUE
    MapPages = 3
    FactoryBad = {2}
    Worn = {}
    Dead = {3}
    FaultKinds = {"erase", "mark", "check"}
    Calls <- SpreadCommands
    MaxFaults = 1
INVARIANTS
    SuccessIsTrue
    ErasedIsBlank

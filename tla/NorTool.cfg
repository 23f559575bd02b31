SPECIFICATION Spec
CONSTANTS
    Parts <- EvenParts
    Commands <- AllCommands
    MaxOp = 3
    FaultKinds = {"setup", "select", "address", "command"}
    MaxFaults = 1
INVARIANTS
    CacheTrue
    ReadIsFlash
    SuccessIsDone
    UpdateKeepsRest
PROPERTIES
    ChangesInBlocks
    StepsShorten

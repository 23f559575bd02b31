SPECIFICATION Spec
CONSTANTS
    NBlocks = 3
    PagesPerBlock = 2
    Marked = {3}
    x = x
    y = y
    Blank = Blank
    Old = Old
    Junk = Junk
    Part = Part
    Data <- MCData
    Image <- MCImage
    MaxFaults = 3
    IdTests = 5
    Retries = 3
    VerifyRetries = 2
INVARIANTS
    BadUntouched
    GateFirst
    UnlistedIsGood
    StopIsPrompt
    OneTroubleIsMended
PROPERTIES
    EveryRunEnds
CHECK_DEADLOCK FALSE

SPECIFICATION Spec
CONSTANTS
    NBlocks = 3
    PagesPerBlock = 2
    Marked = {3}
    x = x
    y = y
    Blank = Blank
    Old = Old
    Junk = Junk
    Part = Part
    Data <- MCData
    Image <- MCImage
    MaxFaults = 3
    ImagePages = 3
INVARIANTS
    CleanRunWrites
CHECK_DEADLOCK FALSE

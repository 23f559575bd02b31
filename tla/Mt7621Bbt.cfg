SPECIFICATION Spec
CONSTANTS
    NBlocks = 5
    TableNum = 4
    MaxMarks = 2
    MaxFaults = 1
INVARIANTS
    TableFollows
    RamIsTrue
    FirmwareReadsTruth
PROPERTIES
    SaveSparesData

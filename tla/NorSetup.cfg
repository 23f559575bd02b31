SPECIFICATION Spec
CONSTANTS
    Controllers <- MCControllers
    Chips <- MCChips
INVARIANTS
    LeftoversAreFound
    AddressesAgree
    TransfersAgree
    Served
CHECK_DEADLOCK FALSE

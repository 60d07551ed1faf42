SPECIFICATION Spec
CONSTANTS
    NumFiles = 3
    MaxPending = 1
    MaxScans = 1
    Faults <- AllFaults
INVARIANTS
    CatalogNamesEachFileOnce
    SelectionIsSound
    PositionNamesSelection
PROPERTIES
    ImplementsLedger
CHECK_DEADLOCK FALSE

SPECIFICATION Spec
CONSTANTS
    NumFiles = 4
    MaxPending = 0
    MaxScans = 0
    Faults <- KnownFaults
INVARIANTS
    CanonicalOrder
CHECK_DEADLOCK FALSE

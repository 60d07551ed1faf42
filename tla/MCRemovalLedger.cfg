SPECIFICATION LedgerSpec
CONSTANTS
    a = a
    b = b
    c = c
    NoFile = NoFile
    Files <- ThreeFiles
    MaxPending = 2
SYMMETRY AnyFile
INVARIANTS
    NothingPendingIsListed
    OfferIsRecoverable

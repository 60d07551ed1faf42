SPECIFICATION WakeSpec
CONSTANTS
    r1 = r1
    r2 = r2
    r3 = r3
    NoRequest = NoRequest
    Requests <- ThreeRequests
    MaxActive = 2
INVARIANT
    WakeFindsItsResult
PROPERTY
    SlotIsReleased

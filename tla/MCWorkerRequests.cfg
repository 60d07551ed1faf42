SPECIFICATION Spec
CONSTANTS
    r1 = r1
    r2 = r2
    r3 = r3
    p1 = p1
    p2 = p2
    NoRequest = NoRequest
    NoProcess = NoProcess
    Requests <- ThreeRequests
    Ids <- TwoIds
    Callers = 2
    MaxIdle = 1
INVARIANTS
    PixelsAreOwn
    EveryProcessHasOneOwner
PROPERTY
    RequestReturns
CHECK_DEADLOCK FALSE

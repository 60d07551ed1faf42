SPECIFICATION Spec
CONSTANTS
    f1 = f1
    f2 = f2
    b1 = b1
    b2 = b2
    Foreground <- ForegroundThreads
    Background <- BackgroundThreads
    Limit = 2
    QueueCapacity = 1
    MaxGeneration = 3
INVARIANTS
    SleeperHasAWaker
    OfferHasATaker
    OnlyTheNewestIsReported
PROPERTY
    LoadSettles
CHECK_DEADLOCK FALSE

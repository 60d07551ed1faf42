SPECIFICATION Spec
CONSTANT MaxPending = 2
INVARIANTS
    OneFileOperation
    NoWorkIsCutOff
    NoStrandedClose
    CleanExitMeansDone
PROPERTIES
    FailureKeepsWindowOpen
    WindowLossEnds
CHECK_DEADLOCK FALSE

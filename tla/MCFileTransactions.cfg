SPECIFICATION Spec
CONSTANT MaxMeddling = 2
INVARIANTS
    PictureIsKept
    ExportIsClean
PROPERTIES
    ReturnsWhatHappened
    SparesWhatItSaw
CHECK_DEADLOCK FALSE

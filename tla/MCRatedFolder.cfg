SPECIFICATION Spec
CONSTANTS
    NumFiles = 2
    MaxWrites = 2
INVARIANTS
    RatingsAreTrue
    DecodesAreTrue
    WrittenFileIsLeftAlone
PROPERTIES
    OnlyTheSelectedIsShown
    FilterIsDecided
CHECK_DEADLOCK FALSE

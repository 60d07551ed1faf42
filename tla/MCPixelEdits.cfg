\* Edits of two files over two loads, with two strokes.
CONSTANTS
    Names = {f1, f2}
    f1 = f1
    f2 = f2
    NoFile = NoFile
    ByteLimit = 2
    Width = 2
    MaxLoads = 2
    MaxHeals = 3
    MaxImages = 3
SPECIFICATION Spec
SYMMETRY Symmetry
INVARIANTS UndoIsExact
           EditedPixelsAreNotReused
PROPERTIES CropIsAppliedOrGivenBack
CHECK_DEADLOCK FALSE

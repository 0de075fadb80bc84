SPECIFICATION MCSpec
CONSTANTS
    Half = 8
    MaxSize = 7
    MaxDim = 2
    MaxChoice = 4
CHECK_DEADLOCK FALSE
INVARIANTS
    IInv
    WritesInside
    AllDrawn
    FewOutOfRange
    InBounds
    AllReached

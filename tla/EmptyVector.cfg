SPECIFICATION MCSpec
CONSTANTS
    Half = 8
    MaxSize = 4
    MaxDim = 2
    MaxChoice = 4
CHECK_DEADLOCK FALSE
INVARIANT IndexInRange

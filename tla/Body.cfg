SPECIFICATION Spec
CONSTANTS
    NTest = 3
    Fixture <- Fixtures
    MaxStmt = 4
    MaxDepth = 2
    Byte = 4
    IntBytes = 2
    MaxBytes = 3
INVARIANTS
    IInv
    FailureKept
    NoFalseFailure
    CleanBuffers
CHECK_DEADLOCK FALSE

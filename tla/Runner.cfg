SPECIFICATION FairSpec
CONSTANTS
    NTest = 2
    Boring = {1, 2}
    Disabled = {2}
    Matching = {1}
    NFile = 3
    Flags <- MCAll
    Ends <- MCEnds
    ExitCodes = {0, 2, 300}
    ForkFails = TRUE
CHECK_DEADLOCK FALSE
INVARIANTS
    IInv
    CountTrue
    CountTrueButLost
    StopsAtFirst
    KeptTrue
PROPERTIES
    RunnerEnds

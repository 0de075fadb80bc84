SPECIFICATION MCFairSpec
CONSTANTS
    NFun = 2
    NBin = 4
    OutputNamed = {}
    NameFound <- MCTrue
    Dotted <- MCFalse
    MaxAux = 2
    Logs <- Log
    MaxInputs = {0, 4}
    MaxTestfiles = {0, 1, 3}
    Calls = {"analyze_pkg", "analyze_fun", "fuzz_analyze"}
    Events = {"create", "compile", "fuzz"}
INVARIANTS
    FunctionsComplete
    ErrorsKept
    LinesOfErrors
PROPERTIES
    CallEnds

SPECIFICATION MCSpec
CONSTANTS
    NFun = 1
    NBin = 2
    OutputNamed = {}
    NameFound <- MCTrue
    Dotted <- MCFalse
    MaxAux = 2
    Logs = {}
    MaxInputs = {0, 1, 3}
    MaxTestfiles = {0}
    Calls = {"analyze_pkg"}
    Events = {"create", "compile", "fuzz"}
INVARIANTS
    AnalysisGivesTable

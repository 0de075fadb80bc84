SPECIFICATION MCFairLinks
CONSTANTS
    f = f
    g = g
    NoFun = NoFun
    Fun <- MCOnlyF
    Supported <- MCOnlyF
    MaxVer = 1
    Exports <- MCOne
    Others = {}
    Edits = {}
    GlobalFun = f
    Rank <- MCByName
    Calls = {"compile_run", "editable", "compile_fun", "fuzz_fun", "compile_generate", "compile_checks"}
    Events = {"kill"}
INVARIANTS
    IInv
    OutputBeforeRun
PROPERTIES
    CallEnds

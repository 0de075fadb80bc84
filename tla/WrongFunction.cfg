SPECIFICATION Spec
CONSTANTS
    f = f
    g = g
    NoFun = NoFun
    Fun <- MCFun
    Supported <- MCFun
    MaxVer = 1
    Exports <- MCStable
    Others = {}
    Edits = {}
    GlobalFun = g
    Rank <- MCByName
    Calls = {"pkg_create", "editable", "compile_checks"}
    Events = {}
INVARIANTS
    NamedFunctionRuns

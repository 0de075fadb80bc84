SPECIFICATION MCLinks
CONSTANTS
    f = f
    g = g
    NoFun = NoFun
    Fun <- MCFun
    Supported <- MCOnlyF
    MaxVer = 2
    Exports <- MCDropF
    Others = {}
    Edits = {e1}
    GlobalFun = f
    Rank <- MCByName
    Calls = {"compile_run", "fuzz_fun"}
    Events = {"edit", "provide", "source", "shared", "deps", "kill"}
INVARIANTS
    IInv
    CreatedUsable
    ReportedIsCurrent
    ReportedHasFunction
PROPERTIES
    FilesKept
    TreeKept

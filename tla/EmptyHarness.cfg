SPECIFICATION Spec
CONSTANTS
    f = f
    g = g
    NoFun = NoFun
    Fun <- MCOnlyF
    Supported <- MCOnlyF
    MaxVer = 1
    Exports <- MCOne
    Others = {}
    Edits = {}
    GlobalFun = NoFun
    Rank <- MCByName
    Calls = {"pkg_create"}
    Events = {"deps"}
INVARIANTS
    CreatedIsGenerated

SPECIFICATION MCLinks
CONSTANTS
    f = f
    g = g
    NoFun = NoFun
    Fun <- MCOnlyF
    Supported <- MCOnlyF
    MaxVer = 2
    Exports <- MCOthers
    Others = {2}
    Edits = {e1}
    GlobalFun = NoFun
    Rank <- MCAnyOrder
    Calls = {"pkg_create", "fun_create"}
    Events = {"source", "edit", "remove", "kill"}
INVARIANTS
    GeneratedHasMakefile
PROPERTIES
    DefaultHarnessKept
    FilesKept

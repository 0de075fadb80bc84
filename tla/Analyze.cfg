SPECIFICATION MCSpec
CONSTANTS
    NFun = 1
    NBin = 2
    OutputNamed = {}
    NameFound <- MCTrue
    Dotted <- MCBoth
    MaxAux = 2
    Logs = {}
    MaxInputs = {0, 1, 3}
    MaxTestfiles = {0}
    Calls <- MCAllCalls
    Events <- MCAllEvents
INVARIANTS
    IInv
    RowsWereRun
    InputsOfCalled
    StopsUnread

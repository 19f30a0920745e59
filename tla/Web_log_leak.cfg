SPECIFICATION TabSpec
CONSTANTS
    InitialRules <- FourRules
    NewName = "N"
    EditFields = {"pluginLocalPath"}
    MaxEdits = 2
    MaxSessions = 2
    MaxRequests = 1
    Ids = {"a", "b"}
    StoredRules <- TwoAndOne
    MaxCommands = 1
    MaxTrouble = 1
    MaxTableRequests = 2
    Keep = 2
    MaxLines = 3
    MaxSockets = 2
    MaxLoads = 1
    MaxClicks = 1
INVARIANT NothingLeftOpen
CHECK_DEADLOCK FALSE

SPECIFICATION DialogSpec
CONSTANTS
    InitialDisk <- TokenDisk
    EditFields = {"authToken"}
    MaxEdits = 2
    MaxWrites = 1
    MaxRequests = 2
    Ids = {"a", "b"}
    StoredRules <- TwoInstances
    Pastes <- Texts
    Candidates <- Suggestions
    FirstPort = 1
    LastPort = 3
    MaxOpens = 2
    MaxTransferEdits = 3
    MaxImports = 1
    MaxTransferRequests = 1
    InitialChannels <- OneChannel
    InitialSchedules <- OneSchedule
    NewChannel = "c3"
    MaxWork = 2
    MaxBackupRequests = 2
INVARIANTS UntouchedSaveKeeps StoredIsCoherent BindsDistinct SecretIsLastTyped
PROPERTY OverwriteIsAsked
CHECK_DEADLOCK FALSE

SPECIFICATION StateSpec
CONSTANTS
    Ids = {"a", "b"}
    CopyOf <- Copies
    NewId = "n"
    MaxCommands = 1
    MaxTrouble = 2
    MaxRequests = 1
PROPERTIES StatusConverges CardSettles
CHECK_DEADLOCK FALSE

SPECIFICATION Spec
CONSTANTS
    c1 = c1
    c2 = c2
    a = a
    b = b
    good = good
    bad = bad
    Callers = {c1, c2}
    Ids = {a, b}
    Versions = {good, bad}
    Valid = {good}
    MaxInst = 1
    Exclusive = TRUE
    MayRestart = TRUE
    IOFails = TRUE
    NoId = NoId
    NoFile = NoFile
    Empty = Empty
    Mixed = Mixed
SYMMETRY RegistrySymmetry
INVARIANTS NoOrphan RegisteredOnDisk LiveIsFile ChangedIsApplied
PROPERTIES TornByCrashOnly RestartKeeps

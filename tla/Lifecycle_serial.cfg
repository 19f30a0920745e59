SPECIFICATION FairSpec
CONSTANTS
    c1 = c1
    Callers = {c1}
    MaxRuns = 2
    MayPanic = TRUE
INVARIANTS AtMostOneActive StoppedIsIdle StopDrains
PROPERTIES KeepsService StopReturns ExitEndsRun
CHECK_DEADLOCK FALSE

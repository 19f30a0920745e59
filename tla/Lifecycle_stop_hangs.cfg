SPECIFICATION FairSpec
CONSTANTS
    c1 = c1
    c2 = c2
    Callers = {c1, c2}
    MaxRuns = 1
    MayPanic = FALSE
PROPERTY StopReturns
CHECK_DEADLOCK FALSE

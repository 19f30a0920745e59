SPECIFICATION Spec
CONSTANTS
    c1 = c1
    c2 = c2
    Callers = {c1, c2}
    MaxRuns = 2
    MayPanic = FALSE
SYMMETRY CallerSymmetry
INVARIANTS TypeOK WaitGroupExact HeldHandleUsable
CHECK_DEADLOCK FALSE

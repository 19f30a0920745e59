SPECIFICATION Spec
CONSTANTS
    s1 = s1
    s2 = s2
    s3 = s3
    x = x
    y = y
    p = p
    q = q
    c1 = c1
    c2 = c2
    j1 = j1
    j2 = j2
    None = None
    Callers = {c1, c2}
    Schedules = {s1, s2, s3}
    Channels = {x, y}
    Pools = {p}
    Jobs = {j1, j2}
    Boot <- BootStore
    Archives <- ArchiveStores
    Retention = 1
    FlushFails = FALSE
    MaxWork = 4
    MaxEdits = 2
SYMMETRY Symmetry
INVARIANTS OneJobPerSchedule StopQuiesces RunsRecorded PoolsApart
PROPERTIES NewestKept
CHECK_DEADLOCK FALSE

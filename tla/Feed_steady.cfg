SPECIFICATION FairSpec
CONSTANTS
    p1 = p1
    k1 = k1
    k2 = k2
    None = None
    Publishers = {p1}
    Conns = {k1, k2}
    RingCap = 2
    ChanCap = 2
    MaxSeq = 3
    MaxBoots = 1
    UserLogs = FALSE
    TokenChanges = FALSE
INVARIANTS NothingForgotten OneSocket
PROPERTIES Reconnects CatchesUp

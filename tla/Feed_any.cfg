SPECIFICATION Spec
CONSTANTS
    p1 = p1
    p2 = p2
    k1 = k1
    k2 = k2
    None = None
    Publishers = {p1, p2}
    Conns = {k1}
    RingCap = 2
    ChanCap = 1
    MaxSeq = 3
    MaxBoots = 2
    UserLogs = TRUE
    TokenChanges = TRUE
SYMMETRY FeedSymmetry
INVARIANT HandoverWhole

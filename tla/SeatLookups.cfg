SPECIFICATION MCSpec
CONSTANTS
    s1 = s1
    s2 = s2
    k1 = k1
    k2 = k2
    bk = bk
    f1 = f1
    f2 = f2
    o1 = o1
    p1 = p1
    p2 = p2
    None = None
    Seats = {s1, s2}
    Keys = {k1, k2}
    Backends = {bk}
    BackendOf <- MCBackendOf
    Designated <- MCDesignated
    AtOnce = 1
    Budget = 2
    Rounds = 2
    MaxTurns = 2
    MaxRaises = 1
INVARIANTS
    LookupsAreShared
    ReadsAreClean
    TalkIsHeard
PROPERTIES
    LookupsEndGated
CHECK_DEADLOCK FALSE

SPECIFICATION MCSpec
CONSTANTS
    None = None
    portal = portal
    admin = admin
    Callers = {portal, admin}
    TtlMax = 1
    Ttls = {1, 2}
    Idles <- MCIdles
    Concurrency = 2
    WithDelib = 1
    MaxInflight = 1
    Horizon = 3
    CardFrame = 60
    SecHead = 20
    ChunkLine = 90
    Toc = 1500
    NoCards = 21
INVARIANTS
    GraceEnds
    RowsAreKept
    PlanIsRight
PROPERTIES
    FlagIsKept
    ReviewsEnd
CHECK_DEADLOCK FALSE

SPECIFICATION MCSpec
CONSTANTS
    s1 = s1
    s2 = s2
    t1 = t1
    t2 = t2
    u1 = u1
    Seats <- SeatsVal
    Jobs <- JobsVal
    Rounds = 2
    MaxAttempts = 3
    ChairTries = 2
    Tasks = {t1, t2}
    OwnerOf <- OwnersVal
    WaitS = 1
    AnswerS = 2
    Pieces = 2
INVARIANTS
    RoundsAreRead
    NoticesAreTold
    AnswerIsWhole
    WaitIsJust
PROPERTIES
    IsProgress
    AbsentMeansIdle
    EverythingEnds
\* An engine that is over does nothing more.
CHECK_DEADLOCK FALSE

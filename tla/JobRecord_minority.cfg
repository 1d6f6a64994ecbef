SPECIFICATION Spec
CONSTANTS
    Seats = {s1, s2}
    Stages = 1
    Rounds = 2
    TurnMax = 5
    WarnMax = 2
    OmitMax = 1
    OmitTail = 2
    PageMax = 2
    WaitPolls = 1
    MaxAttempts = 1
    MaxLost = 0
    MaxCards = 0
    None = None
INVARIANTS
    MinorityIsFound
CHECK_DEADLOCK FALSE

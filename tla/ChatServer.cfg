SPECIFICATION MCSpec
CONSTANTS
    r1 = r1
    r2 = r2
    job = job
    Reqs <- ReqsVal
    Convs <- OneConvVal
    Calls <- CallsVal
    Kind <- KindVal
    Earlier <- EarlierVal
    ConfirmMax = 1
    MaxCards = 3
    MaxAtOnce = 2
    MaxRounds = 1
    AutoRetry = 1
    WaitMax = 1
    MaxStages = 1
SYMMETRY ReqSymmetry
INVARIANTS
    CalledOnce
    CardIsAsked
    StreamTellsTheEnd
    RequestsMove
    ContextIsKept
    AnswerIsChecked
PROPERTIES
    GateIsRight
CHECK_DEADLOCK FALSE

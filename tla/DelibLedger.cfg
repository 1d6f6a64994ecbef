SPECIFICATION MCSpec
CONSTANTS
    j1 = j1
    j2 = j2
    j3 = j3
    NoJob = NoJob
    Jobs = {j1, j2, j3}
    Started = {j1}
    MaxProc = 3
    Rounds = 2
    MaxCalls = 1
    CutWrites = TRUE
INVARIANTS
    RoundsAreKept
    JobsAreOwned
PROPERTIES
    EndsAreFinal
    NothingIsDropped
\* The last process may go down.
CHECK_DEADLOCK FALSE

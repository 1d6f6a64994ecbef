SPECIFICATION Spec
CONSTANTS
    j1 = j1
    j2 = j2
    j3 = j3
    NoJob = NoJob
    Jobs = {j1, j2, j3}
    Started = {j1}
    MaxProc = 2
    Rounds = 1
    MaxCalls = 1
    CutWrites = FALSE
INVARIANTS
    ResumedOnce
\* The last process may go down.
CHECK_DEADLOCK FALSE

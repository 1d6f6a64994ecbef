SPECIFICATION LiveSpec
CONSTANTS
    r1 = r1
    r2 = r2
    Lives = {1, 2}
    Runs = {r1, r2}
    Plan <- MCPlan
    Left = {r1}
    MaxRunning = 1
    RunCalls <- MCRunCalls
    Strikes = 2
    MaxJobs = 2
    MaxStops = 1
    MaxPauses = 1
    None = None
INVARIANTS
    RunsAreKept
    OneDeliberation
    EndsOnce
PROPERTIES
    DriveEnds
CHECK_DEADLOCK FALSE

SPECIFICATION LiveSpec
CONSTANTS
    a1 = a1
    a2 = a2
    b1 = b1
    x1 = x1
    u1 = u1
    u2 = u2
    Anon = anon
    OwnerOf <- MCOwnerOf
    Est <- MCEst
    MaxSeats = 2
    Carried = {a2}
    Jobs = {a1, a2, b1}
    External = {}
    LimitChoices <- LiveLimits
PROPERTIES
    EveryoneIsServed
\* A server that has shut down stops.
CHECK_DEADLOCK FALSE

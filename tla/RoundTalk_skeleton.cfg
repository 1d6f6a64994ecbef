SPECIFICATION Spec
CONSTANTS
    s1 = s1
    s2 = s2
    s3 = s3
    Order <- MCOrder
    Words <- MCWords
    PerSeat = 1
    ParseRetries = 2
    MaxRebuts = 1
    SerClip = 2
    Label = 1
    Mark = 1
    Notice = 2
INVARIANTS
    SkeletonIsNotQuoted
CHECK_DEADLOCK FALSE

SPECIFICATION MCSpec
CONSTANTS
    a1 = a1
    a2 = a2
    b1 = b1
    c1 = c1
    adv = adv
    da = da
    db = db
    dc = dc
    None = None
    Seats = {a1, a2, b1, c1}
    Domains = {da, db, dc}
    DomainOf <- MCDomainOf
    Phrases = {"p1", "p2"}
    MaxAnswers = 2
    Hops = 2
    Concurrency = 1
    ReferMax = 3
INVARIANTS
    ConsultationIsWhole
    SeatsAreRight
    RecordIsTold
PROPERTIES
    HeardToTheEnd
CHECK_DEADLOCK FALSE

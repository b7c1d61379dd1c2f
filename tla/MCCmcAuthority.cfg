SPECIFICATION Spec
CONSTANTS
    Procs = {p1, p2}
    NumKeys = 1
    Requests = {r1, r2, r3}
    Costs = {1, 2, 3}
    MaxLease = 2
    KeyCredits = 3
    KeyRequests = 2
    MinuteLimit = 2
    DayLimit = 2
    MonthLimit = 3
    Concurrent = 2
    Ttl = 2
    Minute = 2
    Day = 2
    Month = 4
    Remains = {0}
    LateCandidates = FALSE
    MaxTime = 5
    MaxEpoch = 2
    MaxGen = 2
    None = None
SYMMETRY Symmetry
INVARIANTS TypeOK LeasesCounted CreditsCounted PlanKept MinuteKept KeyLimitsKept OneEpochOpen

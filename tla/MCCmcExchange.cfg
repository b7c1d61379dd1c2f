SPECIFICATION FairSpec
CONSTANTS
    Relays = {}
    Links <- Direct
    ClientProcs = {c}
    AuthorityProcs = {a}
    Outcomes = {"ok", "failed"}
    MaxRequests = 2
    MaxEpoch = 2
    MaxFaults = 1
    Overlap = FALSE
    None = None
INVARIANTS NotLost SettledTrue
PROPERTIES UsedLeaseOpen Delivered
CHECK_DEADLOCK FALSE

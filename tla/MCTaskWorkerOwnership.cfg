SPECIFICATION FairSpec
CONSTANTS
    Procs = {p1, p2, p3}
    Coords = {c1, c2}
    None = None
    ByHand = TRUE
    MaxFaults = 4
INVARIANTS OneWorker
PROPERTIES OwnerKept WorkerReturns

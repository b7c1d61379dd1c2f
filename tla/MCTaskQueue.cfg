SPECIFICATION Spec
CONSTANTS
    NumJobs = 2
    Runners = {r1, r2}
    Requests = {q1}
    AgePending = FALSE
    MaxFaults = 1
    MaxRetries = 1
    Worker = Worker
    None = None
INVARIANTS OneRunner StatusFits
SYMMETRY Symmetry

SPECIFICATION Spec
CONSTANTS
    NumJobs = 1
    Runners = {r1, r2}
    Requests = {q1}
    AgePending = TRUE
    MaxFaults = 0
    MaxRetries = 0
    Worker = Worker
    None = None
PROPERTY HandoffKept

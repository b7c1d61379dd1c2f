SPECIFICATION FairSpec
CONSTANTS
    NumJobs = 2
    Runners = {r1}
    Requests = {q1}
    AgePending = FALSE
    MaxFaults = 1
    MaxRetries = 0
    Worker = Worker
    None = None
PROPERTIES CancelTakesEffect JobsEnd

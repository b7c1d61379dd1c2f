SPECIFICATION FairSpec
CONSTANTS
    N = 2
    Links <- BothWays
    Credential = {1, 2}
    Checkpointed = TRUE
    BatchLimit = 1
    MaxSeq = 2
    Quota <- BothWrite
    MaxRepairs = 1
    MaxFaults = 0
PROPERTY GapFetched
CHECK_DEADLOCK FALSE

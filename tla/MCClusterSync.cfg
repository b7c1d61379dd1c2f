SPECIFICATION FairSpec
CONSTANTS
    N = 3
    Links <- Hub
    Credential = {1, 2, 3}
    Checkpointed = TRUE
    BatchLimit = 2
    MaxSeq = 3
    Quota <- OneWrites
    MaxRepairs = 1
    MaxFaults = 1
INVARIANTS VectorsSound OnlyCredentialGaps
PROPERTIES ImplementsOplog Delivered

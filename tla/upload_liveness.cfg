SPECIFICATION FairSpec
CONSTANTS
    NumSessions = 1
    Handlers = {h1, h2}
    NoHandler = NoHandler
    ChunkSize = 2
    DeclaredSizes = {1, 2}
    WellSized = TRUE
    Quotas = {}
    InitQuota = 1
    BatchSize = 1
    MaxDrift = 0
    MaxNodes = 1
    Faults = {"lookup", "persist"}
PROPERTIES
    ClaimIsResolved
    RequestsAreAnswered

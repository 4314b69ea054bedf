SPECIFICATION Spec
CONSTANTS
    NumSessions = 1
    Handlers = {h1}
    NoHandler = NoHandler
    ChunkSize = 1
    DeclaredSizes = {2}
    WellSized = TRUE
    Quotas = {1, 2}
    InitQuota = 2
    BatchSize = 1
    MaxDrift = 0
    MaxNodes = 0
    Faults = {}
INVARIANT
    BlobIsWhole

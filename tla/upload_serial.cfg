SPECIFICATION GcSpec
CONSTANTS
    NumSessions = 2
    Handlers = {h1}
    NoHandler = NoHandler
    ChunkSize = 2
    DeclaredSizes = {1, 3}
    WellSized = TRUE
    Quotas = {}
    InitQuota = 3
    BatchSize = 1
    MaxDrift = 0
    MaxNodes = 1
    Faults = {"drop", "write", "unlink"}
INVARIANTS
    ReservationsHold
    ReceivedIsBacked
    NodeHasBlob
    FirstBlobIsWhole
    OneNodeAtATime
PROPERTY
    ExpiredIsReclaimed

SPECIFICATION Spec
CONSTANTS
    NumSessions = 1
    Handlers = {h1, h2}
    NoHandler = NoHandler
    ChunkSize = 1
    DeclaredSizes = {2}
    WellSized = TRUE
    Quotas = {1, 2}
    InitQuota = 2
    BatchSize = 1
    MaxDrift = 0
    MaxNodes = 1
    Faults = {"drop", "crash", "lookup", "persist", "rename", "write", "unlink"}
SYMMETRY Symmetry
VIEW View
INVARIANTS
    TypeOK
    CompletedHasNode
    OnlyPurgeTakesBlobs
PROPERTIES
    QuotaGate
    TerminalStatesAreFinal
    CollectorSparesClaimed
    ImplementsLifecycle

SPECIFICATION Spec
CONSTANTS
    Readers = {r1, r2}
    Fields <- RangeFields
    ChunkSizes = {1, 2}
    Remaining = 3
    Faults = {"write"}
SYMMETRY Symmetry
INVARIANTS
    TypeOK
    FileIsWhole
PROPERTIES
    AnswerIsExact
    LiveFileIsFound

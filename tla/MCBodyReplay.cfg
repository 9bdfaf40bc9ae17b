SPECIFICATION Spec
CONSTANTS
    MaxBody = 5
    LineEnds <- MCLineEnds
    MemLimits = {0, 1, 3, 5}
    ReadChunk = 2
    MaxLine = 3
    MaxRead = 3
INVARIANTS
    TypeOK
    CopyWithinLimit
PROPERTIES
    ImplementsBodyStream
    ReplayEnds
CHECK_DEADLOCK FALSE

SPECIFICATION Spec
CONSTANTS
    Entries <- MCEntries
    MaxPairs = 3
    ContentTypes <- MCContentTypes
    NoType = NoType
    Base = 3
    IntMax = 31
    SizeMod = 128
INVARIANTS
    TypeOK
    BufferFits
    EveryHeaderInspected
CHECK_DEADLOCK FALSE

SPECIFICATION Spec
CONSTANTS
    Letters <- MCLetters
    Lower <- MCLower
    Unsupported <- MCUnsupported
    WordMax = 3
    MaxText = 8
INVARIANTS
    TypeOK
    RefusalIsReal
    AcceptedIsClean
CHECK_DEADLOCK FALSE

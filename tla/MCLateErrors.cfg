SPECIFICATION Spec
CONSTANTS
    Interventions <- MCInterventions
    HandlerErrors <- MCHandlerErrors
    MaxReqs = 3
    MaxChunks = 2
    MaxBody = 1
    MaxDelayedBody = 1
    LateErrors = TRUE
INVARIANTS
    TypeOK
    OneTransaction
    NoSecondDeny
    OneAuditEntry
    AuditShowsDenial
PROPERTIES
    NothingAfterLogging
    Terminates

SPECIFICATION Spec
CONSTANTS
    Interventions <- MCInterventions
    HandlerErrors <- MCHandlerErrors
    MaxReqs = 2
    MaxChunks = 2
    MaxBody = 1
    MaxDelayedBody = 2
    LateErrors = FALSE
INVARIANT
    HeadersOnWireUnlessDelayed

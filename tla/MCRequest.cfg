SPECIFICATION Spec
CONSTANTS
    Interventions <- MCInterventions
    HandlerErrors <- MCHandlerErrors
    MaxReqs = 3
    MaxChunks = 3
    MaxBody = 2
    MaxDelayedBody = 2
    LateErrors = FALSE
INVARIANTS
    HandlerSeesInspectedRequest
    DeniedBodyWithheld
    ReleasedAfterInspection
    WireIsOneResponse
    CompleteDelivery
    AnsweredOrDropped
    DropIsSilent
    DenyStatusServed
    PhasesOnceInOrder
    ServedResponseInspected
    BodyReplayed

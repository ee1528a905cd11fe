SPECIFICATION Spec
CONSTANTS
    d1 = d1
    d2 = d2
    Delegations = {d1}
    Ops <- OneReservation
    Asked <- PlainArguments
    Inputs <- NoInputs
    Claims = {}
    Budget <- TwoCalls
    Calls <- MCCalls
    Stock = 3
    MayRestart = TRUE
    MayLimit = TRUE
    Careless = {}
    Silent = {d1}
    Retriers = {}
CHECK_DEADLOCK FALSE
INVARIANTS
    SuccessIsBacked

SPECIFICATION Spec
CONSTANTS
    d1 = d1
    d2 = d2
    Delegations = {d1}
    Ops <- OneCharge
    Asked <- PlainArguments
    Inputs <- NoInputs
    Claims = {}
    Budget <- ThreeCalls
    Calls <- MCCalls
    Stock = 3
    MayRestart = FALSE
    MayLimit = TRUE
    Careless = {}
    Silent = {}
    Retriers = {d1}
CHECK_DEADLOCK FALSE
INVARIANTS
    ChargedOnce

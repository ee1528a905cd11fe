SPECIFICATION FairSpec
CONSTANTS
    d1 = d1
    d2 = d2
    Delegations = {d1, d2}
    Ops <- EveryStep
    Asked <- OrderArguments
    Inputs <- AnyInputs
    Claims = {"succeeded"}
    Budget <- Budgets
    Calls <- MCCalls
    Stock = 3
    MayRestart = TRUE
    MayLimit = TRUE
    Careless = {d2}
    Silent = {}
    Retriers = {}
CHECK_DEADLOCK FALSE
INVARIANTS
    TypeOK
    ReplyTellsTheEffect
    EffectsAreAudited
    SuccessIsBacked
PROPERTIES
    ImplementsPromise
    EveryDelegationEnds

SPECIFICATION FairSpec
CONSTANTS
    o1 = o1
    o2 = o2
    Orders = {o1}
    Outcomes <- TrustedOutcomes
    MayRaise <- Everywhere
    MayCancel = {o1}
    RecursionLimit <- DefaultLimit
CHECK_DEADLOCK FALSE
INVARIANTS
    ConfirmedCarriesIds
    ConfirmationTellsTheRun
    TrailMissesNoEffect
    TrailShowsTheReplies
    BudgetCoversEveryPath
    RecordedOrderIsBacked
    FailureIsCompensated
PROPERTIES
    ImplementsSaga
    EveryOrderIsAnswered

SPECIFICATION Spec
CONSTANTS
    o1 = o1
    o2 = o2
    Orders = {o1, o2}
    Outcomes <- AnyOutcomes
    MayRaise <- Everywhere
    MayCancel = {o1}
    RecursionLimit <- DefaultAndTight
CHECK_DEADLOCK FALSE
INVARIANTS
    TypeOK
    ReviewHasNoSideEffects
    RejectionStopsTheSaga
    EveryPlanIsSafe

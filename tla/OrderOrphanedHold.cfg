SPECIFICATION Spec
CONSTANTS
    o1 = o1
    o2 = o2
    Orders = {o1}
    Outcomes <- TruthfulOutcomes
    MayRaise <- Everywhere
    MayCancel = {}
    RecursionLimit <- DefaultLimit
CHECK_DEADLOCK FALSE
INVARIANT
    NoOrphanedHold

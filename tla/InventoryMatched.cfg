SPECIFICATION FairSpec
CONSTANTS
    p1 = p1
    p2 = p2
    ghost = ghost
    r1 = r1
    r2 = r2
    r3 = r3
    r4 = r4
    Products = {p1}
    ProductIds = {p1, ghost}
    Seed <- OneProduct
    MaxQty = 2
    Requests = {r1, r2, r3, r4}
    Matched = TRUE
    MayRestart = FALSE
CHECK_DEADLOCK FALSE
INVARIANT
    NoOversell
PROPERTY
    EveryRequestIsAnswered

SPECIFICATION Spec
CONSTANTS
    p1 = p1
    p2 = p2
    ghost = ghost
    r1 = r1
    r2 = r2
    r3 = r3
    r4 = r4
    Products = {p1, p2}
    ProductIds = {p1, p2, ghost}
    Seed <- TwoProducts
    MaxQty = 2
    Requests = {r1, r2, r3}
    Matched = FALSE
    MayRestart = TRUE
CHECK_DEADLOCK FALSE
INVARIANTS
    TypeOK
    BooksBalance
    ConflictHasAWinner
PROPERTY
    ImplementsLedger

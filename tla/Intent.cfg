SPECIFICATION Spec
CONSTANTS
    Price <- MCPrice
    Customers = {"C-001"}
    Null = Null
    Odd = Odd
    Replies <- MCReplies
CHECK_DEADLOCK FALSE
INVARIANTS
    TypeOK
    ProceedsIffAcceptable
    TotalIsTheCatalogs
    LaterRefusals
    RefusalsAreMarked
PROPERTIES
    ImplementsExtraction

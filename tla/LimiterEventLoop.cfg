SPECIFICATION Spec
CONSTANTS
    i1 = i1
    i2 = i2
    c1 = c1
    c2 = c2
    c3 = c3
    Ids = {i1, i2}
    Callers = {c1, c2}
    MaxCalls = 2
    Window = 2
    Threads = FALSE
    Horizon = 4
SYMMETRY Symmetry
INVARIANTS
    TypeOK
    Ceiling
PROPERTY
    RejectsOnlyAtCeiling

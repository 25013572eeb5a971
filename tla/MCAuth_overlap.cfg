SPECIFICATION Spec
SYMMETRY Symmetry
CONSTANTS
    Logins = {l1, l2}
    Sessions = {s1, s2}
    Limit = 1
    Lifetime = 2
    MaxTime = 3
    Faults = TRUE
INVARIANTS
    TypeOK
    ListBounded
    RetiredStaysOut
PROPERTY
    ImplementsTokenList

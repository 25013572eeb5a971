SPECIFICATION FairSpec
CONSTANTS
    Cap = 1
    Total = 2
    Orders = {o1}
    MaxChanges = 2
    Faults = TRUE
INVARIANTS
    TypeOK
    FreshIncludesOwn
    OrdersAcceptable
PROPERTIES
    CatchesUp

SPECIFICATION FairSpec
CONSTANTS
    Tabs = {t1, t2}
    Calls = {c1, c2}
    Accounts = {a, b}
    Limit = 1
    Faults = TRUE
INVARIANTS
    TypeOK
    QueueIsServed
    AlarmsExplained
    StaysSignedOut
    RunsAsShown
PROPERTIES
    ImplementsRequestBook
    EveryCallSettles
\* The browser may stop when every request has been made and settled.
CHECK_DEADLOCK FALSE

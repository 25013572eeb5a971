SPECIFICATION FairSpec
CONSTANTS
    Events = {1, 2, 3}
    Starts <- Two
    Rank <- Ranks
    Limit = 1
    LastPage = 3
    MaxChanges = 1
    MaxFetches = 2
    Faults = FALSE
INVARIANTS
    TypeOK
    PageInRange
    StrandedOnlyBy
    PagesComplete
PROPERTIES
    ShowsPage
\* The reader may stop when everything is shown.
CHECK_DEADLOCK FALSE

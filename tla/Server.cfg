SPECIFICATION FairSpec
CONSTANTS
    Connections = {c1}
    Routes = {"register", "admin"}
    Keys = {k1}
    Seeders = {s1, s2}
    WindowApi = 2
    WindowAuth = 1
    MaxApi = 2
    MaxAuth = 1
    MaxTime = 3
    MaxAccounts = 2
    Faults = TRUE
INVARIANTS
    TypeOK
    AdmissionsBounded
    NobodyCutOff
    CleanExit
    StrangersOut
    SeedGivesAdmin
PROPERTIES
    ShutdownEnds

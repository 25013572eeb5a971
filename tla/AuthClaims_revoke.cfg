\* A login overtakes the revocation of all tokens.
SPECIFICATION Spec
CONSTANTS
    Logins = {l1}
    Sessions = {s1}
    Limit = 5
    Lifetime = 9
    MaxTime = 2
    Faults = FALSE
PROPERTY
    ReuseRevokes

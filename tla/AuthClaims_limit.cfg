\* Two logins read a list of four.
SPECIFICATION Spec
CONSTANTS
    Logins = {l1, l2}
    Sessions = {}
    Limit = 5
    Lifetime = 9
    MaxTime = 2
    Faults = FALSE
INVARIANT
    AtMostFive

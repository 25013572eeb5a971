\* Two cancellations of one booking, one after the other's read.
SPECIFICATION Spec
CONSTANTS
    Users = {u2}
    Admins = {u2}
    Events = {e1}
    Bookings = {b1}
    Totals = {1}
    MaxSeats = 1
    ReplicaSet = TRUE
    Faults = FALSE
    Bookers = {r1}
    Cancellers = {c1, c2}
    Editors = {}
INVARIANT
    RestoredOnce

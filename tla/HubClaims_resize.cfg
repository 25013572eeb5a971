\* A booking commits between an admin's read and write.
SPECIFICATION Spec
CONSTANTS
    Users = {u1}
    Admins = {}
    Events = {e1}
    Bookings = {b1}
    Totals = {1, 2}
    MaxSeats = 2
    ReplicaSet = TRUE
    Faults = FALSE
    Bookers = {r1}
    Cancellers = {}
    Editors = {d1}
INVARIANT
    NeverBelowBooked

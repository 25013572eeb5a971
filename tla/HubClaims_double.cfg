\* Two requests of one user at the same time.
SPECIFICATION Spec
CONSTANTS
    Users = {u1}
    Admins = {}
    Events = {e1}
    Bookings = {b1, b2}
    Totals = {2}
    MaxSeats = 1
    ReplicaSet = TRUE
    Faults = FALSE
    Bookers = {r1, r2}
    Cancellers = {}
    Editors = {}
INVARIANT
    OneActiveBooking

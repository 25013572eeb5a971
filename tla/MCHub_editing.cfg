\* One booker, two cancellers and an admin who resizes, closes and deletes.
SPECIFICATION Spec
SYMMETRY Symmetry
CONSTANTS
    Users = {u2}
    Admins = {u2}
    Events = {e1}
    Bookings = {b1, b2}
    Totals = {1, 2}
    MaxSeats = 2
    ReplicaSet = TRUE
    Faults = FALSE
    Bookers = {r1}
    Cancellers = {c1, c2}
    Editors = {d1}
INVARIANT
    SeatLedger
PROPERTY
    ImplementsBoxOffice

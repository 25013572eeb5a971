SPECIFICATION FairSpec
CONSTANTS
    Users = {u1, u2}
    Admins = {u2}
    Events = {e1}
    Bookings = {b1,b2}
    Totals = {3}
    MaxSeats = 2
    ReplicaSet = TRUE
    Faults = TRUE
    Bookers = {r1, r2}
    Cancellers = {c1}
    Editors = {}
INVARIANTS
    TypeOK
    OneBookingUnlessOverlap
    SeatLedger
PROPERTIES
    ImplementsBoxOffice
    CreateEnds
    CancelEnds
    EventReleased

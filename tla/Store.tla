-------------------------------- MODULE Store --------------------------------
(***************************************************************************)
(* The two MongoDB collections the seat accounting lives in, as the        *)
(* repositories see them, and the queries the services make of them.      *)
(*                                                                         *)
(* A collection is a function from identifiers to documents.  An           *)
(* identifier that no insert has used yet maps to Unissued; ObjectIds are  *)
(* never used twice, so a removed event maps to Deleted for ever.  Only    *)
(* COMMITTED documents are here: what an open transaction has written and  *)
(* not yet committed is read off the request that owns the transaction.    *)
(***************************************************************************)
EXTENDS Integers, FiniteSets

CONSTANTS
    Users,       \* accounts
    Admins,      \* the accounts whose token carries role 'admin'
    Events,      \* event identifiers
    Bookings,    \* booking identifiers
    Totals,      \* the totalSeats an admin may ask for
    MaxSeats,    \* the largest seatsBooked of one booking
    ReplicaSet,  \* does the MongoDB deployment support transactions?
    Faults       \* may commands of bookers and cancellers fail, and the
                 \* process crash?

ASSUME StoreAssumption ==
    /\ Admins \subseteq Users
    /\ IsFiniteSet(Bookings)
    /\ Totals \subseteq Nat \ {0}
    /\ MaxSeats \in Nat \ {0}
    /\ ReplicaSet \in BOOLEAN
    /\ Faults \in BOOLEAN

VARIABLES
    events,    \* identifier -> event document
    bookings   \* identifier -> booking document

storeVars == <<events, bookings>>

-----------------------------------------------------------------------------
(* Documents. *)

EventStatuses == {"upcoming", "ongoing", "completed", "cancelled"}

EventDoc == [total: Nat \ {0}, available: Nat, status: EventStatuses]

BookingStatuses == {"confirmed", "cancelled"}

BookingDoc ==
    [user: Users, event: Events, seats: 1..MaxSeats, status: BookingStatuses]

Unissued == [status |-> "unissued"]
Deleted  == [status |-> "deleted"]

StoreTypeOK ==
    /\ events \in [Events -> EventDoc \cup {Unissued, Deleted}]
    /\ bookings \in [Bookings -> BookingDoc \cup {Unissued}]

StoreInit ==
    /\ events = [e \in Events |-> Unissued]
    /\ bookings = [b \in Bookings |-> Unissued]

-----------------------------------------------------------------------------
(* Queries. *)

EventExists(e) == events[e].status \in EventStatuses

BookingExists(b) == bookings[b].status \in BookingStatuses

FreeBookings == {b \in Bookings : ~BookingExists(b)}

\* existsActiveBooking(userId, eventId)
ActiveBookings(u, e) ==
    {b \in Bookings : /\ bookings[b].status = "confirmed"
                      /\ bookings[b].user = u
                      /\ bookings[b].event = e}

\* Mutant of HasSeats: the filter without the $gte guard.
HasSeats_NoGuard(e, n) == EventExists(e)

\* the filter { _id, availableSeats: { $gte: count } }
HasSeats(e, n) == EventExists(e) /\ events[e].available >= n

\* the seats of the confirmed bookings for e, each one a pair
SeatsOf(e) ==
    {s \in Bookings \X (1..MaxSeats) : /\ bookings[s[1]].status = "confirmed"
                                       /\ bookings[s[1]].event = e
                                       /\ s[2] <= bookings[s[1]].seats}

SeatsTaken(e) == Cardinality(SeatsOf(e))

-----------------------------------------------------------------------------
(* Updates, each the effect of one committed command. *)

AddSeats(e, n) == [events EXCEPT ![e].available = @ + n]

InsertedEvent(t) == [total |-> t, available |-> t, status |-> "upcoming"]

InsertedBooking(u, e, n) ==
    [user |-> u, event |-> e, seats |-> n, status |-> "confirmed"]
=============================================================================

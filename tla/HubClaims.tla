------------------------------ MODULE HubClaims ------------------------------
(***************************************************************************)
(* What the README, the tests and the comments say of the booking API and  *)
(* EventHub, the code, does not keep in every interleaving.                *)
(* Each claim holds in a smaller instance or up to a race that EventHub    *)
(* records; here it is stated without that escape.                         *)
(***************************************************************************)
EXTENDS EventHub

\* README.md:632, "One active booking per user per event": no user ever holds
\* two confirmed bookings for the same event.
OneActiveBooking ==
    \A u \in Users, e \in Events : Cardinality(ActiveBookings(u, e)) <= 1

\* event.service.js:67-70, "Cannot reduce total seats below already booked
\* seats": the confirmed bookings of an event fit into its total.
NeverBelowBooked ==
    \A e \in Events : EventExists(e) => SeatsTaken(e) <= events[e].total

\* booking.service.js:77-78 and booking.test.js:161, a cancelled booking cannot
\* be cancelled again: seats are restored once, so there are never more seats
\* left than the event has.
RestoredOnce ==
    \A e \in Events : EventExists(e) => events[e].available <= events[e].total
=============================================================================

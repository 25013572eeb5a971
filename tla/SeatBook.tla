------------------------------- MODULE SeatBook -------------------------------
(***************************************************************************)
(* What the booking API promises: a box office.  Every seat sold is in     *)
(* `sold', a sale is whole or does not happen, and no event sells more     *)
(* seats than it has.  There is no counter, no transaction and no request  *)
(* here: room is what the seats sold leave of the total.                   *)
(*                                                                         *)
(* An event in `void' is one for which the promise has been given up.      *)
(***************************************************************************)
EXTENDS Integers, FiniteSets

CONSTANTS Events, Bookings, MaxSeats, Totals

VARIABLES
    total,   \* event -> its seats, 0 while there is no such event
    sold,    \* the seats sold: <<event, booking, number within the booking>>
    void     \* events whose accounting has been given up

vars == <<total, sold, void>>

SoldFor(e) == {s \in sold : s[1] = e}

Fits(e, n, t) == e \in void \/ Cardinality(SoldFor(e)) + n <= t

-----------------------------------------------------------------------------
Init ==
    /\ total = [e \in Events |-> 0]
    /\ sold = {}
    /\ void = {}

Open(e, t) ==
    /\ total[e] = 0
    /\ SoldFor(e) = {}
    /\ total' = [total EXCEPT ![e] = t]
    /\ UNCHANGED <<sold, void>>

Resize(e, t) ==
    /\ total[e] # 0
    /\ Fits(e, 0, t)
    /\ total' = [total EXCEPT ![e] = t]
    /\ UNCHANGED <<sold, void>>

Close(e) ==
    /\ total' = [total EXCEPT ![e] = 0]
    /\ UNCHANGED <<sold, void>>

Sell(e, b, n) ==
    /\ total[e] # 0
    /\ Fits(e, n, total[e])
    /\ \A s \in sold : s[2] # b
    /\ sold' = sold \cup ({e} \X {b} \X (1..n))
    /\ UNCHANGED <<total, void>>

Release(b) ==
    /\ sold' = {s \in sold : s[2] # b}
    /\ UNCHANGED <<total, void>>

\* The promise for e is given up, possibly by a resize that ignores it.
GiveUp(e) ==
    /\ void' = void \cup {e}
    /\ \E t \in Totals \cup {total[e]} : total' = [total EXCEPT ![e] = t]
    /\ UNCHANGED sold

Next ==
    \/ \E e \in Events, t \in Totals : Open(e, t) \/ Resize(e, t)
    \/ \E e \in Events : Close(e) \/ GiveUp(e)
    \/ \E e \in Events, b \in Bookings, n \in 1..MaxSeats : Sell(e, b, n)
    \/ \E b \in Bookings : Release(b)

Spec == Init /\ [][Next]_vars
=============================================================================

------------------------------- MODULE EventHub -------------------------------
(***************************************************************************)
(* The booking API as a whole: create, cancel and admin requests running   *)
(* concurrently against one database, with failing commands and crashes.   *)
(*                                                                         *)
(* Two history variables record when a race that the code leaves open has  *)
(* happened; no action reads them.  The invariants say that those races    *)
(* are the ONLY ways in which the accounting can go wrong.                 *)
(***************************************************************************)
EXTENDS BookingService, EventService

VARIABLES
    raced,      \* events whose counter a stale edit or second restore touched
    overlapped  \* <<user, event>> whose duplicate checks have overlapped

historyVars == <<raced, overlapped>>
vars == <<events, bookings, creates, cancels, edits, raced, overlapped>>

-----------------------------------------------------------------------------
(* What the history variables record. *)

InWindow(q, u, e) ==
    q.pc \in {"dec", "insert", "commit"} /\ q.user = u /\ q.event = e

\* r passes the duplicate check while another request for the same user and
\* event has passed it and has not committed yet.
Overlap(r) ==
    LET q == creates[r]
    IN  {<<q.user, q.event>> :
            x \in {x \in Bookers \ {r} : /\ creates'[r].pc = "dec"
                                         /\ InWindow(creates[x], q.user, q.event)}}

\* r commits the cancellation of a booking that is already cancelled.
SecondRestore(r) ==
    LET b == cancels[r].booking
    IN  IF cancels[r].held /\ bookings[b].status = "cancelled"
        THEN {bookings[b].event} ELSE {}

\* r writes totals computed from a seat count that has changed since.
StaleResize(r) ==
    LET q == edits[r]
    IN  IF /\ q.total # NotGiven
           /\ EventExists(q.event)
           /\ q.booked # events[q.event].total - events[q.event].available
        THEN {q.event} ELSE {}

-----------------------------------------------------------------------------
Init ==
    /\ ServiceInit
    /\ EditInit
    /\ raced = {}
    /\ overlapped = {}

\* What a create request does once it has arrived, and the reaper for it.
CreateRuns(r) ==
    \/ /\ \/ DecrementSeats(r)
          \/ InsertBooking(r)
          \/ CommitCreate(r)
          \/ ReapCreate(r)
       /\ UNCHANGED <<edits, raced, overlapped>>
    \/ /\ CheckDuplicate(r)
       /\ overlapped' = overlapped \cup Overlap(r)
       /\ UNCHANGED <<edits, raced>>

Creating(r) ==
    \/ CreateRuns(r)
    \/ /\ \/ \E u \in Users, e \in Events, n \in 1..MaxSeats : FindEvent(r, u, e, n)
          \/ FailCreate(r)
       /\ UNCHANGED <<edits, raced, overlapped>>

CancelRuns(r) ==
    \/ /\ \/ IncrementSeats(r)
          \/ SaveBooking(r)
          \/ ReapCancel(r)
       /\ UNCHANGED <<edits, raced, overlapped>>
    \/ /\ CommitCancel(r)
       /\ raced' = raced \cup SecondRestore(r)
       /\ UNCHANGED <<edits, overlapped>>

Cancelling(r) ==
    \/ CancelRuns(r)
    \/ /\ \/ \E u \in Users, b \in Bookings : FindBooking(r, u, b)
          \/ FailCancel(r)
       /\ UNCHANGED <<edits, raced, overlapped>>

\* MongoDB makes a write outside a transaction wait for the open transaction
\* that has written the same document.
Editing(r) ==
    \/ /\ \/ \E e \in Events, t \in Totals \cup {NotGiven},
                s \in EventStatuses \cup {Same} : FindForUpdate(r, e, t, s)
          \/ \E e \in Events : FindForDelete(r, e)
          \/ FailEdit(r)
          \/ edits[r].pc = "delete" /\ ~EventBusy(edits[r].event) /\ WriteDelete(r)
       /\ UNCHANGED <<creates, cancels, raced, overlapped>>
    \/ /\ edits[r].pc = "update"
       /\ ~EventBusy(edits[r].event)
       /\ WriteUpdate(r)
       /\ raced' = raced \cup StaleResize(r)
       /\ UNCHANGED <<creates, cancels, overlapped>>

Publishing ==
    /\ \E e \in Events, t \in Totals : CreateEvent(e, t)
    /\ UNCHANGED <<creates, cancels, raced, overlapped>>

Crash ==
    /\ CrashRequests
    /\ CrashEdits
    /\ UNCHANGED historyVars

Next ==
    \/ \E r \in Bookers : Creating(r)
    \/ \E r \in Cancellers : Cancelling(r)
    \/ \E r \in Editors : Editing(r)
    \/ Publishing
    \/ Crash

Spec == Init /\ [][Next]_vars

(***************************************************************************)
(* Node runs every continuation whose command has been answered, and the   *)
(* server reaps every transaction that outlives its limit.  Nobody is      *)
(* obliged to send a request, to fail or to crash, and nothing is said     *)
(* about a write that waits for a lock.                                    *)
(***************************************************************************)
Fairness ==
    /\ \A r \in Bookers : WF_vars(CreateRuns(r))
    /\ \A r \in Cancellers : WF_vars(CancelRuns(r))

FairSpec == Spec /\ Fairness

-----------------------------------------------------------------------------
(* Type invariant. *)

\* Every document and every request has its shape; in particular availableSeats
\* never goes below zero, whatever commits, fails or is edited in between.
TypeOK ==
    /\ ServiceTypeOK
    /\ EditTypeOK
    /\ raced \subseteq Events
    /\ overlapped \subseteq Users \X Events

-----------------------------------------------------------------------------
(* Safety. *)

\* booking.service.js, event.service.js: as long as neither of the two races
\* has hit an event, the seats it has left and the seats of its confirmed
\* bookings add up to its total.
SeatLedger ==
    \A e \in Events \ raced :
        EventExists(e) => events[e].available + SeatsTaken(e) = events[e].total

\* booking.service.js:24-27: two confirmed bookings of one user for one event
\* exist only if two of their requests passed the duplicate check together.
OneBookingUnlessOverlap ==
    \A u \in Users, e \in Events :
        <<u, e>> \notin overlapped =>
            \A b, c \in ActiveBookings(u, e) : b = c

-----------------------------------------------------------------------------
(* Refinement. *)

\* The whole API implements the box office of SeatBook: a counter guarded by
\* $gte and kept by transactions sells what a ledger of seats would sell.
BoxOffice == INSTANCE SeatBook WITH
    total <- [e \in Events |-> IF EventExists(e) THEN events[e].total ELSE 0],
    sold  <- {<<bookings[s[1]].event, s[1], s[2]>> :
                 s \in UNION {SeatsOf(e) : e \in Events}},
    void  <- raced

ImplementsBoxOffice == BoxOffice!Spec

-----------------------------------------------------------------------------
(* Liveness. *)

\* Every booking request that has arrived comes to an end: it is answered or
\* its process dies and the server has let its transaction go.
CreateEnds == \A r \in Bookers : ~Free(creates[r]) ~> Free(creates[r])

\* Every cancel request comes to an end in the same sense.
CancelEnds == \A r \in Cancellers : ~Free(cancels[r]) ~> Free(cancels[r])

\* No transaction keeps an event to itself for ever, even when the process
\* that opened it is gone.
EventReleased == \A e \in Events : EventBusy(e) ~> ~EventBusy(e)
=============================================================================

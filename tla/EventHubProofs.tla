---------------------------- MODULE EventHubProofs ----------------------------
(***************************************************************************)
(* Proofs, for every set of slots, identifiers and totals, of the safety   *)
(* properties of EventHub.                                                 *)
(***************************************************************************)
EXTENDS EventHub, FiniteSetTheorems, TLAPS

-----------------------------------------------------------------------------
(* The inductive invariant. *)

\* A transaction that has written an event keeps the event in existence, and
\* an uncommitted decrement keeps the seats it was granted.
HeldEventsExist ==
    /\ \A r \in Bookers, e \in Events :
          CreateHolds(r, e) =>
             /\ EventExists(e)
             /\ creates[r].pc # "orphan" => events[e].available >= creates[r].seats
    /\ \A r \in Cancellers, e \in Events : CancelHolds(r, e) => EventExists(e)

\* The event of a booking has existed, and a cancellation that found no event
\* to write never will.
EventsKnown ==
    /\ \A b \in Bookings : BookingExists(b) => events[bookings[b].event] # Unissued
    /\ \A r \in Cancellers :
          ~Free(cancels[r]) =>
             /\ BookingExists(cancels[r].booking)
             /\ cancels[r].pc # "inc" /\ ~cancels[r].held =>
                   events[bookings[cancels[r].booking].event] = Deleted

\* What an update is about to write adds up.
EditsAddUp ==
    \A r \in Editors :
        edits[r].pc = "update" /\ edits[r].total # NotGiven =>
            edits[r].available + edits[r].booked = edits[r].total

\* Two requests never both hold a decrement or a restore of the same event.
OneWriterPerEvent ==
    \A e \in Events :
        /\ \A r, x \in Bookers : CreateHolds(r, e) /\ CreateHolds(x, e) => r = x
        /\ \A r, x \in Cancellers : CancelHolds(r, e) /\ CancelHolds(x, e) => r = x
        /\ \A r \in Bookers, x \in Cancellers : ~(CreateHolds(r, e) /\ CancelHolds(x, e))

IndInv ==
    /\ TypeOK
    /\ OneWriterPerEvent
    /\ HeldEventsExist
    /\ EventsKnown
    /\ EditsAddUp

-----------------------------------------------------------------------------
(* Requests. *)

\* An answer is a finished request.
LEMMA AnsweredFinished ==
    ASSUME NEW code \in Codes
    PROVE  Answered(code) \in Finished /\ Free(Answered(code))
BY DEF Finished, Answered, Free

\* A create request that is not finished has all its fields.
LEMMA CreateFields ==
    ASSUME TypeOK, NEW r \in Bookers, ~Free(creates[r])
    PROVE  creates[r] \in CreateRequest
BY DEF TypeOK, ServiceTypeOK, Finished, Idle, Answered, Free

\* A cancel request that is not finished has all its fields.
LEMMA CancelFields ==
    ASSUME TypeOK, NEW r \in Cancellers, ~Free(cancels[r])
    PROVE  cancels[r] \in CancelRequest
BY DEF TypeOK, ServiceTypeOK, Finished, Idle, Answered, Free

\* An event that exists is a document.
LEMMA EventFields ==
    ASSUME TypeOK, NEW e \in Events, EventExists(e)
    PROVE  events[e] \in EventDoc
BY DEF TypeOK, ServiceTypeOK, StoreTypeOK, EventExists, EventStatuses, Unissued, Deleted

\* A booking that exists is a document.
LEMMA BookingFields ==
    ASSUME TypeOK, NEW b \in Bookings, BookingExists(b)
    PROVE  bookings[b] \in BookingDoc
BY DEF TypeOK, ServiceTypeOK, StoreTypeOK, BookingExists, BookingStatuses, Unissued

\* AddSeats changes one field of one event, and keeps it a document unless the
\* count would become negative.
LEMMA SeatsMoved ==
    ASSUME TypeOK, NEW e0 \in Events, EventExists(e0), NEW n \in Int,
           events[e0].available + n \in Nat,
           events' = AddSeats(e0, n)
    PROVE  /\ events' \in [Events -> EventDoc \cup {Unissued, Deleted}]
           /\ events'[e0] \in EventDoc
           /\ events'[e0].available = events[e0].available + n
           /\ events'[e0].total = events[e0].total
           /\ events'[e0].status = events[e0].status
           /\ \A e \in Events : e # e0 => events'[e] = events[e]
<1>1. events \in [Events -> EventDoc \cup {Unissued, Deleted}]
  BY DEF TypeOK, ServiceTypeOK, StoreTypeOK
<1>2. events[e0] \in EventDoc
  BY EventFields
<1>3. /\ events'[e0] = [events[e0] EXCEPT !.available = @ + n]
      /\ events' \in [Events -> EventDoc \cup {Unissued, Deleted}] <=> events'[e0] \in EventDoc \cup {Unissued, Deleted}
      /\ \A e \in Events : e # e0 => events'[e] = events[e]
  BY <1>1 DEF AddSeats
<1>4. /\ events'[e0] \in EventDoc
      /\ events'[e0].available = events[e0].available + n
      /\ events'[e0].total = events[e0].total
      /\ events'[e0].status = events[e0].status
  BY <1>2, <1>3 DEF EventDoc
<1> QED
  BY <1>3, <1>4

\* Restoring seats keeps the collection of events in shape and takes no seat
\* from any event.
LEMMA SeatsRestored ==
    ASSUME TypeOK, NEW e0 \in Events, EventExists(e0), NEW n \in Nat,
           events' = AddSeats(e0, n)
    PROVE  /\ events' \in [Events -> EventDoc \cup {Unissued, Deleted}]
           /\ \A e \in Events :
                 /\ EventExists(e)' <=> EventExists(e)
                 /\ ~EventExists(e) => events'[e] = events[e]
                 /\ EventExists(e) =>
                      /\ events'[e] \in EventDoc
                      /\ events'[e].available >= events[e].available
<1>1. events[e0].available \in Nat
  BY EventFields DEF EventDoc
<1>2. /\ events' \in [Events -> EventDoc \cup {Unissued, Deleted}]
      /\ events'[e0] \in EventDoc
      /\ events'[e0].available = events[e0].available + n
      /\ events'[e0].status = events[e0].status
      /\ \A e \in Events : e # e0 => events'[e] = events[e]
  BY <1>1, SeatsMoved
<1>3. events'[e0].available >= events[e0].available
  BY <1>1, <1>2
<1>4. \A e \in Events : EventExists(e) =>
         events[e] \in EventDoc /\ events[e].available \in Nat
  BY EventFields DEF EventDoc
<1>5. \A e \in Events : EventExists(e)' <=> EventExists(e)
  BY <1>2 DEF EventExists
<1>6. \A e \in Events : EventExists(e) =>
         events'[e] \in EventDoc /\ events'[e].available >= events[e].available
  BY <1>2, <1>3, <1>4
<1> QED
  BY <1>2, <1>5, <1>6

\* The collections start empty and every slot idle.
LEMMA InitIndInv == Init => IndInv
<1> SUFFICES ASSUME Init PROVE IndInv
  OBVIOUS
<1> USE DEF Init, ServiceInit, StoreInit, EditInit
<1>1. TypeOK
  BY DEF TypeOK, ServiceTypeOK, StoreTypeOK, EditTypeOK, Finished, EditDone, Idle
<1>2. OneWriterPerEvent /\ HeldEventsExist
  BY DEF OneWriterPerEvent, HeldEventsExist, CreateHolds, CancelHolds, Idle
<1>3. EventsKnown
  BY DEF EventsKnown, BookingExists, BookingStatuses, Unissued, Free, Idle
<1>4. EditsAddUp
  BY DEF EditsAddUp
<1> QED
  BY <1>1, <1>2, <1>3, <1>4 DEF IndInv

-----------------------------------------------------------------------------
(* Steps that only move one create request. *)

\* q may take the place of creates[r]: it holds an event only if creates[r]
\* held it with the same seats, or if nobody holds it and it has the seats.
MayFollow(r, q) ==
    q.pc \in {"insert", "commit", "orphan"} =>
        \/ /\ creates[r].pc \in {"insert", "commit", "orphan"}
           /\ q.pc # "orphan" => creates[r].pc # "orphan"
           /\ q.event = creates[r].event
           /\ q.seats = creates[r].seats
        \/ HasSeats(q.event, q.seats) /\ ~EventBusy(q.event)

\* Such a step preserves the invariant.
LEMMA CreateMoves ==
    ASSUME IndInv, NEW r \in Bookers,
           NEW q \in CreateRequest \cup Finished, MayFollow(r, q),
           creates' = [creates EXCEPT ![r] = q],
           UNCHANGED <<events, bookings, cancels, edits, raced>>,
           overlapped' \subseteq Users \X Events
    PROVE  IndInv'
<1> USE DEF IndInv
<1>1. TypeOK'
  BY DEF TypeOK, ServiceTypeOK, StoreTypeOK, EditTypeOK
<1>2. creates \in [Bookers -> CreateRequest \cup Finished]
  BY DEF TypeOK, ServiceTypeOK
<1>3. \A x \in Bookers, e \in Events :
         CreateHolds(x, e)' <=>
            IF x = r THEN q.pc \in {"insert", "commit", "orphan"} /\ q.event = e
                     ELSE CreateHolds(x, e)
  BY <1>2 DEF CreateHolds
<1>4. \A x \in Cancellers, e \in Events : CancelHolds(x, e)' <=> CancelHolds(x, e)
  BY DEF CancelHolds
<1>5. \A e \in Events :
         q.pc \in {"insert", "commit", "orphan"} /\ q.event = e =>
            \/ CreateHolds(r, e)
            \/ ~EventBusy(e)
  BY DEF MayFollow, CreateHolds
<1>6. OneWriterPerEvent'
  BY <1>3, <1>4, <1>5 DEF OneWriterPerEvent, EventBusy
<1>7. HeldEventsExist'
  <2>1. ASSUME NEW x \in Bookers, NEW e \in Events, CreateHolds(x, e)'
        PROVE  /\ EventExists(e)
               /\ creates'[x].pc # "orphan" => events[e].available >= creates'[x].seats
    <3>1. CASE x # r
      BY <2>1, <1>2, <1>3, <3>1 DEF HeldEventsExist
    <3>2. CASE x = r
      <4>1. creates'[x] = q
        BY <1>2, <3>2
      <4>2. q.pc \in {"insert", "commit", "orphan"} /\ q.event = e
        BY <2>1, <1>3, <3>2
      <4> QED
        BY <4>1, <4>2, <3>2 DEF MayFollow, HasSeats, HeldEventsExist, CreateHolds
    <3> QED
      BY <3>1, <3>2
  <2> QED
    BY <2>1, <1>4 DEF HeldEventsExist, EventExists
<1>8. EventsKnown' /\ EditsAddUp'
  BY DEF EventsKnown, EditsAddUp, BookingExists
<1> QED
  BY <1>1, <1>6, <1>7, <1>8

\* The answers and the moves of the create handler are such steps.
LEMMA CreateStepsInv ==
    ASSUME IndInv, NEW r \in Bookers,
           \/ \E u \in Users, e \in Events, n \in 1..MaxSeats : FindEvent(r, u, e, n)
           \/ DecrementSeats(r)
           \/ InsertBooking(r)
           \/ FailCreate(r)
           \/ ReapCreate(r)
           \/ CheckDuplicate(r),
           UNCHANGED <<edits, raced>>,
           overlapped' \subseteq Users \X Events
    PROVE  IndInv'
<1>1. UNCHANGED <<events, bookings, cancels>>
  BY DEF FindEvent, DecrementSeats, InsertBooking, FailCreate, ReapCreate, CheckDuplicate
<1>2. TypeOK
  BY DEF IndInv
<1>3. ASSUME NEW code \in Codes, AnswerCreate(r, code)
      PROVE  IndInv'
  <2>1. Answered(code) \in Finished /\ MayFollow(r, Answered(code))
    BY AnsweredFinished DEF MayFollow, Answered
  <2> QED
    BY <1>1, <1>3, <2>1, CreateMoves DEF AnswerCreate
<1>4. ASSUME NEW pc \in {"dec", "insert", "commit", "orphan"}, AwaitCreate(r, pc),
             ~Free(creates[r]),
             MayFollow(r, [creates[r] EXCEPT !.pc = pc])
      PROVE  IndInv'
  <2>1. [creates[r] EXCEPT !.pc = pc] \in CreateRequest
    BY <1>2, <1>4, CreateFields DEF CreateRequest
  <2>2. creates' = [creates EXCEPT ![r] = [creates[r] EXCEPT !.pc = pc]]
    BY <1>4 DEF AwaitCreate
  <2> QED
    BY <1>1, <1>4, <2>1, <2>2, CreateMoves
<1>5. ASSUME NEW u \in Users, NEW e \in Events, NEW n \in 1..MaxSeats, FindEvent(r, u, e, n)
      PROVE  IndInv'
  <2>1. CASE AnswerCreate(r, 404) \/ AnswerCreate(r, 400)
    BY <2>1, <1>3 DEF Codes
  <2>2. CASE creates' = [creates EXCEPT ![r] =
                [pc |-> "dup", user |-> u, event |-> e, seats |-> n]]
    <3> DEFINE q == [pc |-> "dup", user |-> u, event |-> e, seats |-> n]
    <3>1. q \in CreateRequest /\ MayFollow(r, q)
      BY DEF CreateRequest, MayFollow
    <3> QED
      BY <1>1, <2>2, <3>1, CreateMoves
  <2> QED
    BY <1>5, <2>1, <2>2 DEF FindEvent
<1>6. CASE CheckDuplicate(r)
  <2>1. CASE AnswerCreate(r, 409)
    BY <2>1, <1>3 DEF Codes
  <2>2. CASE AwaitCreate(r, "dec")
    <3>1. creates[r] \in CreateRequest /\ ~Free(creates[r])
      BY <1>2, <1>6, CreateFields DEF CheckDuplicate, Free
    <3>2. MayFollow(r, [creates[r] EXCEPT !.pc = "dec"])
      BY <3>1 DEF MayFollow, CreateRequest
    <3> QED
      BY <2>2, <3>1, <3>2, <1>4
  <2> QED
    BY <1>6, <2>1, <2>2 DEF CheckDuplicate
<1>7. CASE DecrementSeats(r)
  <2>1. CASE AnswerCreate(r, 500) \/ AnswerCreate(r, 400)
    BY <2>1, <1>3 DEF Codes
  <2>2. CASE /\ HasSeats(creates[r].event, creates[r].seats)
             /\ ~EventBusy(creates[r].event)
             /\ AwaitCreate(r, "insert")
    <3>1. creates[r] \in CreateRequest /\ ~Free(creates[r])
      BY <1>2, <1>7, CreateFields DEF DecrementSeats, Free
    <3>2. MayFollow(r, [creates[r] EXCEPT !.pc = "insert"])
      BY <2>2, <3>1 DEF MayFollow, CreateRequest
    <3> QED
      BY <2>2, <3>1, <3>2, <1>4
  <2> QED
    BY <1>7, <2>1, <2>2 DEF DecrementSeats
<1>8. CASE InsertBooking(r)
  <2>1. CASE AnswerCreate(r, 409)
    BY <2>1, <1>3 DEF Codes
  <2>2. CASE AwaitCreate(r, "commit")
    <3>1. creates[r] \in CreateRequest /\ ~Free(creates[r])
      BY <1>2, <1>8, CreateFields DEF InsertBooking, Free
    <3>2. MayFollow(r, [creates[r] EXCEPT !.pc = "commit"])
      BY <3>1, <1>8 DEF MayFollow, CreateRequest, InsertBooking
    <3> QED
      BY <2>2, <3>1, <3>2, <1>4
  <2> QED
    BY <1>8, <2>1, <2>2 DEF InsertBooking
<1>9. CASE FailCreate(r)
  <2>1. CASE AnswerCreate(r, 500)
    BY <2>1, <1>3 DEF Codes
  <2>2. CASE creates[r].pc \in {"insert", "commit"} /\ AwaitCreate(r, "orphan")
    <3>1. creates[r] \in CreateRequest /\ ~Free(creates[r])
      BY <1>2, <2>2, CreateFields DEF Free
    <3>2. MayFollow(r, [creates[r] EXCEPT !.pc = "orphan"])
      BY <3>1, <2>2 DEF MayFollow, CreateRequest
    <3> QED
      BY <2>2, <3>1, <3>2, <1>4
  <2> QED
    BY <1>9, <2>1, <2>2 DEF FailCreate
<1>10. CASE ReapCreate(r)
  BY <1>10, <1>3 DEF ReapCreate, Codes
<1> QED
  BY <1>5, <1>6, <1>7, <1>8, <1>9, <1>10

\* The commit of a create request preserves the invariant: the seats it was
\* granted are still there, since nobody else has written the event.
LEMMA CommitCreateInv ==
    ASSUME IndInv, NEW r \in Bookers, CommitCreate(r),
           UNCHANGED <<edits, raced, overlapped>>
    PROVE  IndInv'
<1> DEFINE q == creates[r]
<1>1. q \in CreateRequest /\ q.pc = "commit"
  BY CreateFields DEF CommitCreate, Free, IndInv
<1>2. q.user \in Users /\ q.event \in Events /\ q.seats \in 1..MaxSeats
  BY <1>1 DEF CreateRequest
<1>3. CreateHolds(r, q.event)
  BY <1>1 DEF CreateHolds
<1>4. EventExists(q.event) /\ events[q.event].available >= q.seats
  BY <1>1, <1>2, <1>3 DEF IndInv, HeldEventsExist
<1>5. events[q.event] \in EventDoc
  BY <1>2, <1>4, EventFields DEF IndInv
<1>6. PICK b \in FreeBookings :
         bookings' = [bookings EXCEPT ![b] = InsertedBooking(q.user, q.event, q.seats)]
  BY DEF CommitCreate
<1>7. PICK code \in {201, 500} : creates' = [creates EXCEPT ![r] = Answered(code)]
  BY DEF CommitCreate, AnswerCreate
<1>8. b \in Bookings /\ ~BookingExists(b)
  BY <1>6 DEF FreeBookings
<1>9. Answered(code) \in Finished /\ Answered(code).pc = "done"
  BY <1>7, AnsweredFinished DEF Codes, Answered
<1>10. events' = [events EXCEPT ![q.event] =
                    [events[q.event] EXCEPT !.available = @ - q.seats]]
  BY <1>2, <1>5, StoreAssumption DEF CommitCreate, AddSeats, EventDoc
<1>11. events'[q.event] \in EventDoc
  BY <1>2, <1>4, <1>5, <1>10, StoreAssumption
     DEF EventDoc, IndInv, TypeOK, ServiceTypeOK, StoreTypeOK
<1>12. \A e \in Events : e # q.event => events'[e] = events[e]
  BY <1>2, <1>10 DEF IndInv, TypeOK, ServiceTypeOK, StoreTypeOK
<1>13. InsertedBooking(q.user, q.event, q.seats) \in BookingDoc
  BY <1>2 DEF InsertedBooking, BookingDoc, BookingStatuses
<1>14. TypeOK'
  <2>1. events' \in [Events -> EventDoc \cup {Unissued, Deleted}]
    BY <1>2, <1>10, <1>11 DEF IndInv, TypeOK, ServiceTypeOK, StoreTypeOK
  <2>2. bookings' \in [Bookings -> BookingDoc \cup {Unissued}]
    BY <1>6, <1>8, <1>13 DEF IndInv, TypeOK, ServiceTypeOK, StoreTypeOK
  <2>3. creates' \in [Bookers -> CreateRequest \cup Finished]
    BY <1>7, <1>9 DEF IndInv, TypeOK, ServiceTypeOK
  <2>4. UNCHANGED <<cancels, edits, raced, overlapped>>
    BY DEF CommitCreate
  <2> QED
    BY <2>1, <2>2, <2>3, <2>4 DEF IndInv, TypeOK, ServiceTypeOK, StoreTypeOK, EditTypeOK
<1>15. /\ bookings \in [Bookings -> BookingDoc \cup {Unissued}]
       /\ creates \in [Bookers -> CreateRequest \cup Finished]
       /\ cancels' = cancels
  BY DEF IndInv, TypeOK, ServiceTypeOK, StoreTypeOK, CommitCreate
<1>16. \A c \in Bookings : BookingExists(c) => bookings'[c] = bookings[c] /\ c # b
  BY <1>6, <1>8, <1>15
<1>17. \A x \in Cancellers : ~Free(cancels[x]) =>
          bookings'[cancels[x].booking] = bookings[cancels[x].booking]
  <2> SUFFICES ASSUME NEW x \in Cancellers, ~Free(cancels[x])
               PROVE  bookings'[cancels[x].booking] = bookings[cancels[x].booking]
    OBVIOUS
  <2>1. cancels[x].booking \in Bookings /\ BookingExists(cancels[x].booking)
    BY CancelFields DEF CancelRequest, IndInv, EventsKnown
  <2> QED
    BY <2>1, <1>16
<1>18. \A x \in Bookers, e \in Events :
          CreateHolds(x, e)' <=> x # r /\ CreateHolds(x, e)
  BY <1>7, <1>9, <1>15 DEF CreateHolds
<1>19. \A x \in Cancellers, e \in Events : CancelHolds(x, e)' <=> CancelHolds(x, e)
  BY <1>15, <1>17 DEF CancelHolds, Free
<1>20. OneWriterPerEvent'
  BY <1>18, <1>19 DEF OneWriterPerEvent, IndInv
<1>21. HeldEventsExist'
  <2>1. ASSUME NEW x \in Bookers, NEW e \in Events, CreateHolds(x, e)'
        PROVE  /\ EventExists(e)'
               /\ creates'[x].pc # "orphan" => events'[e].available >= creates'[x].seats
    <3>1. x # r /\ CreateHolds(x, e)
      BY <2>1, <1>18
    <3>2. e # q.event
      BY <3>1, <1>2, <1>3 DEF IndInv, OneWriterPerEvent
    <3>3. creates'[x] = creates[x]
      BY <3>1, <1>7, <1>15
    <3>4. events'[e] = events[e]
      BY <3>2, <1>12
    <3> QED
      BY <3>1, <3>3, <3>4 DEF IndInv, HeldEventsExist, EventExists
  <2>2. ASSUME NEW x \in Cancellers, NEW e \in Events, CancelHolds(x, e)'
        PROVE  EventExists(e)'
    <3>1. CancelHolds(x, e) /\ e # q.event
      BY <2>2, <1>2, <1>3, <1>19 DEF IndInv, OneWriterPerEvent
    <3>2. events'[e] = events[e]
      BY <3>1, <1>12
    <3> QED
      BY <3>1, <3>2 DEF IndInv, HeldEventsExist, EventExists
  <2> QED
    BY <2>1, <2>2 DEF HeldEventsExist
<1>22. EventsKnown'
  <2>1. ASSUME NEW c \in Bookings, BookingExists(c)'
        PROVE  events'[bookings'[c].event] # Unissued
    <3>1. CASE c = b
      <4>1. bookings'[c].event = q.event
        BY <3>1, <1>6, <1>8, <1>15 DEF InsertedBooking
      <4> QED
        BY <4>1, <1>11 DEF EventDoc, EventStatuses, Unissued
    <3>2. CASE c # b
      <4>1. bookings'[c] = bookings[c] /\ BookingExists(c)
        BY <2>1, <3>2, <1>6, <1>15 DEF BookingExists
      <4>2. bookings[c].event \in Events /\ events[bookings[c].event] # Unissued
        BY <4>1, BookingFields DEF IndInv, EventsKnown, BookingDoc
      <4>3. events'[bookings[c].event] # Unissued
        BY <4>2, <1>11, <1>12 DEF EventDoc, EventStatuses, Unissued
      <4> QED
        BY <4>1, <4>3
    <3> QED
      BY <3>1, <3>2
  <2>2. ASSUME NEW x \in Cancellers, ~Free(cancels[x])
        PROVE  /\ BookingExists(cancels[x].booking)'
               /\ cancels'[x].pc # "inc" /\ ~cancels'[x].held =>
                     events'[bookings'[cancels'[x].booking].event] = Deleted
    <3> DEFINE c == cancels[x].booking
    <3>1. c \in Bookings /\ BookingExists(c)
      BY <2>2, CancelFields DEF CancelRequest, IndInv, EventsKnown
    <3>2. bookings'[c] = bookings[c] /\ bookings[c].event \in Events
      BY <3>1, <1>16, BookingFields DEF IndInv, BookingDoc
    <3>3. ASSUME events[bookings[c].event] = Deleted
          PROVE  bookings[c].event # q.event
      BY <3>3, <1>4 DEF EventExists, EventStatuses, Deleted
    <3>4. BookingExists(c)'
      BY <3>1, <3>2, <1>15 DEF BookingExists
    <3>5. cancels[x].pc # "inc" /\ ~cancels[x].held => events'[bookings[c].event] = Deleted
      BY <2>2, <3>2, <3>3, <1>12 DEF IndInv, EventsKnown
    <3> QED
      BY <3>2, <3>4, <3>5, <1>15
  <2> QED
    BY <2>1, <2>2, <1>15 DEF EventsKnown
<1>23. EditsAddUp'
  BY DEF IndInv, EditsAddUp
<1> QED
  BY <1>14, <1>20, <1>21, <1>22, <1>23 DEF IndInv

-----------------------------------------------------------------------------
(* Steps that only move one cancel request. *)

Writing == {"save", "doomed", "commit", "orphan"}

\* q may take the place of cancels[r]: its booking is known, and it holds an
\* event only if r held it already or if nobody holds it and it exists.
MayFollowCancel(r, q) ==
    ~Free(q) =>
        /\ BookingExists(q.booking)
        /\ q.pc # "inc" /\ ~q.held => events[bookings[q.booking].event] = Deleted
        /\ q.pc \in Writing /\ q.held =>
              \/ CancelHolds(r, bookings[q.booking].event)
              \/ /\ EventExists(bookings[q.booking].event)
                 /\ ~EventBusy(bookings[q.booking].event)

\* Such a step preserves the invariant.
LEMMA CancelMoves ==
    ASSUME IndInv, NEW r \in Cancellers,
           NEW q \in CancelRequest \cup Finished, MayFollowCancel(r, q),
           cancels' = [cancels EXCEPT ![r] = q],
           UNCHANGED <<events, bookings, creates, edits, raced, overlapped>>
    PROVE  IndInv'
<1>1. TypeOK'
  BY DEF IndInv, TypeOK, ServiceTypeOK, StoreTypeOK, EditTypeOK
<1>2. cancels \in [Cancellers -> CancelRequest \cup Finished]
  BY DEF IndInv, TypeOK, ServiceTypeOK
<1>3. \A x \in Cancellers : cancels'[x] = IF x = r THEN q ELSE cancels[x]
  BY <1>2
<1>4. \A x \in Cancellers, e \in Events : x # r =>
         (CancelHolds(x, e)' <=> CancelHolds(x, e))
  BY <1>3 DEF CancelHolds
<1>5. \A x \in Bookers, e \in Events : CreateHolds(x, e)' <=> CreateHolds(x, e)
  BY DEF CreateHolds
<1>6. ASSUME NEW e \in Events, CancelHolds(r, e)'
      PROVE  CancelHolds(r, e) \/ (EventExists(e) /\ ~EventBusy(e))
  <2>1. q.pc \in Writing /\ q.held /\ bookings[q.booking].event = e
    BY <1>3, <1>6 DEF CancelHolds, Writing
  <2>2. ~Free(q)
    BY <2>1 DEF Writing, Free
  <2>3. \/ CancelHolds(r, bookings[q.booking].event)
        \/ /\ EventExists(bookings[q.booking].event)
           /\ ~EventBusy(bookings[q.booking].event)
    BY <2>1, <2>2, Zenon DEF MayFollowCancel
  <2> QED
    BY <2>1, <2>3
<1>7. OneWriterPerEvent'
  BY <1>4, <1>5, <1>6 DEF IndInv, OneWriterPerEvent, EventBusy
<1>8. HeldEventsExist'
  <2>1. \A x \in Bookers, e \in Events :
           CreateHolds(x, e)' =>
              /\ EventExists(e)'
              /\ creates'[x].pc # "orphan" => events'[e].available >= creates'[x].seats
    BY <1>5 DEF IndInv, HeldEventsExist, EventExists
  <2>2. \A x \in Cancellers, e \in Events : CancelHolds(x, e)' => EventExists(e)'
    BY <1>4, <1>6 DEF IndInv, HeldEventsExist, EventExists
  <2> QED
    BY <2>1, <2>2 DEF HeldEventsExist
<1>9. EventsKnown'
  <2>1. \A b \in Bookings : BookingExists(b)' => events'[bookings'[b].event] # Unissued
    BY DEF IndInv, EventsKnown, BookingExists
  <2>2. ASSUME NEW x \in Cancellers, ~Free(cancels'[x])
        PROVE  /\ BookingExists(cancels'[x].booking)
               /\ cancels'[x].pc # "inc" /\ ~cancels'[x].held =>
                     events[bookings[cancels'[x].booking].event] = Deleted
    BY <2>2, <1>3 DEF MayFollowCancel, IndInv, EventsKnown
  <2> QED
    BY <2>1, <2>2 DEF EventsKnown, BookingExists
<1>10. EditsAddUp'
  BY DEF IndInv, EditsAddUp
<1> QED
  BY <1>1, <1>7, <1>8, <1>9, <1>10 DEF IndInv

\* The answers and the moves of the cancel handler are such steps.
LEMMA CancelStepsInv ==
    ASSUME IndInv, NEW r \in Cancellers,
           \/ \E u \in Users, b \in Bookings : FindBooking(r, u, b)
           \/ IncrementSeats(r)
           \/ SaveBooking(r)
           \/ FailCancel(r)
           \/ ReapCancel(r),
           UNCHANGED <<edits, raced, overlapped>>
    PROVE  IndInv'
<1>1. UNCHANGED <<events, bookings, creates>>
  BY DEF FindBooking, IncrementSeats, SaveBooking, FailCancel, ReapCancel
<1>2. TypeOK
  BY DEF IndInv
<1>3. ASSUME NEW code \in Codes, AnswerCancel(r, code)
      PROVE  IndInv'
  <2>1. Answered(code) \in Finished /\ MayFollowCancel(r, Answered(code))
    BY AnsweredFinished DEF MayFollowCancel
  <2> QED
    BY <1>1, <1>3, <2>1, CancelMoves DEF AnswerCancel
<1>4. ASSUME NEW pc \in {"commit", "orphan"}, AwaitCancel(r, pc),
             cancels[r].pc \in Writing
      PROVE  IndInv'
  <2> DEFINE q == [cancels[r] EXCEPT !.pc = pc]
  <2>1. cancels[r] \in CancelRequest /\ ~Free(cancels[r]) /\ cancels[r].pc # "inc"
    BY <1>2, <1>4, CancelFields DEF Writing, Free
  <2>2. q \in CancelRequest /\ q.pc = pc /\ q.booking = cancels[r].booking
           /\ q.held = cancels[r].held
    BY <1>4, <2>1 DEF CancelRequest
  <2>3. BookingExists(q.booking)
           /\ (~q.held => events[bookings[q.booking].event] = Deleted)
    BY <2>1, <2>2 DEF IndInv, EventsKnown
  <2>4. q.held => CancelHolds(r, bookings[q.booking].event)
    BY <1>4, <2>2 DEF CancelHolds, Writing
  <2>5. MayFollowCancel(r, q)
    BY <2>3, <2>4 DEF MayFollowCancel
  <2>6. cancels' = [cancels EXCEPT ![r] = q]
    BY <1>4 DEF AwaitCancel
  <2> QED
    BY <1>1, <2>2, <2>5, <2>6, CancelMoves
<1>5. ASSUME NEW u \in Users, NEW b \in Bookings, FindBooking(r, u, b)
      PROVE  IndInv'
  <2>1. CASE \E code \in {400, 403, 404, 500} : AnswerCancel(r, code)
    BY <2>1, <1>3 DEF Codes
  <2>2. CASE /\ bookings[b].status = "confirmed"
             /\ cancels' = [cancels EXCEPT ![r] =
                    [pc |-> "inc", booking |-> b, held |-> FALSE]]
    <3> DEFINE q == [pc |-> "inc", booking |-> b, held |-> FALSE]
    <3>1. q \in CancelRequest
      BY DEF CancelRequest
    <3>2. MayFollowCancel(r, q)
      BY <2>2 DEF MayFollowCancel, BookingExists, BookingStatuses, Writing
    <3> QED
      BY <1>1, <2>2, <3>1, <3>2, CancelMoves
  <2> QED
    BY <1>5, <2>1, <2>2 DEF FindBooking
<1>6. CASE IncrementSeats(r)
  <2> DEFINE b == cancels[r].booking
             e == bookings[b].event
             q == [pc |-> "save", booking |-> b, held |-> EventExists(e)]
  <2>1. CASE AnswerCancel(r, 500)
    BY <2>1, <1>3 DEF Codes
  <2>2. CASE /\ ~EventBusy(e)
             /\ cancels' = [cancels EXCEPT ![r] = q]
    <3>1. cancels[r] \in CancelRequest /\ ~Free(cancels[r])
      BY <1>2, <1>6, CancelFields DEF IncrementSeats, Free
    <3>2. b \in Bookings /\ BookingExists(b)
      BY <3>1 DEF CancelRequest, IndInv, EventsKnown
    <3>3. e \in Events /\ events[e] # Unissued
      BY <1>2, <3>2, BookingFields DEF IndInv, EventsKnown, BookingDoc
    <3>4. q \in CancelRequest
      BY <3>2 DEF CancelRequest, EventExists
    <3>5. ~EventExists(e) => events[e] = Deleted
      BY <1>2, <3>3 DEF EventExists, TypeOK, ServiceTypeOK, StoreTypeOK, EventDoc
    <3>6. MayFollowCancel(r, q)
      BY <2>2, <3>2, <3>5 DEF MayFollowCancel
    <3> QED
      BY <1>1, <2>2, <3>4, <3>6, CancelMoves
  <2> QED
    BY <1>6, <2>1, <2>2 DEF IncrementSeats
<1>7. CASE SaveBooking(r)
  <2>1. \/ AnswerCancel(r, 500)
        \/ AwaitCancel(r, "commit") /\ cancels[r].pc \in Writing
    BY <1>7 DEF SaveBooking, Writing
  <2> QED
    BY <2>1, <1>3, <1>4 DEF Codes
<1>8. CASE FailCancel(r)
  <2>1. \/ AnswerCancel(r, 500)
        \/ AwaitCancel(r, "orphan") /\ cancels[r].pc \in Writing
    BY <1>8 DEF FailCancel, Writing
  <2> QED
    BY <2>1, <1>3, <1>4 DEF Codes
<1>9. CASE ReapCancel(r)
  BY <1>9, <1>3 DEF ReapCancel, Codes
<1> QED
  BY <1>5, <1>6, <1>7, <1>8, <1>9

\* The commit of a cancel request preserves the invariant.
LEMMA CommitCancelInv ==
    ASSUME IndInv, NEW r \in Cancellers, CommitCancel(r),
           UNCHANGED <<edits, overlapped>>,
           raced' \subseteq Events
    PROVE  IndInv'
<1> DEFINE b == cancels[r].booking
           e0 == bookings[b].event
<1>1. cancels[r] \in CancelRequest /\ cancels[r].pc = "commit" /\ ~Free(cancels[r])
  BY CancelFields DEF CommitCancel, Free, IndInv
<1>2. b \in Bookings /\ BookingExists(b) /\ bookings[b] \in BookingDoc
  BY <1>1, BookingFields DEF CancelRequest, IndInv, EventsKnown
<1>3. e0 \in Events /\ bookings[b].seats \in 1..MaxSeats
  BY <1>2 DEF BookingDoc
<1>4. PICK code \in {200, 500} :
         cancels' = [x \in Cancellers |->
             IF x = r THEN Answered(code)
             ELSE IF cancels[x].pc = "save" /\ cancels[x].booking = b
                  THEN [cancels[x] EXCEPT !.pc = "doomed"]
                  ELSE cancels[x]]
  BY DEF CommitCancel
<1>5. Answered(code) \in Finished /\ Free(Answered(code)) /\ Answered(code).pc = "done"
  BY <1>4, AnsweredFinished DEF Codes, Answered
<1>6. \A x \in Cancellers :
         /\ cancels'[x] \in CancelRequest \cup Finished
         /\ ~Free(cancels'[x]) =>
              /\ x # r
              /\ ~Free(cancels[x])
              /\ cancels'[x].booking = cancels[x].booking
              /\ cancels'[x].held = cancels[x].held
              /\ cancels'[x].pc = "inc" <=> cancels[x].pc = "inc"
              /\ cancels'[x].pc \in Writing <=> cancels[x].pc \in Writing
  <2> SUFFICES ASSUME NEW x \in Cancellers
               PROVE  /\ cancels'[x] \in CancelRequest \cup Finished
                      /\ ~Free(cancels'[x]) =>
                           /\ x # r
                           /\ ~Free(cancels[x])
                           /\ cancels'[x].booking = cancels[x].booking
                           /\ cancels'[x].held = cancels[x].held
                           /\ cancels'[x].pc = "inc" <=> cancels[x].pc = "inc"
                           /\ cancels'[x].pc \in Writing <=> cancels[x].pc \in Writing
    OBVIOUS
  <2>1. CASE x = r
    BY <1>4, <1>5, <2>1
  <2>2. CASE x # r /\ cancels[x].pc = "save" /\ cancels[x].booking = b
    <3>1. cancels[x] \in CancelRequest
      BY <2>2, CancelFields DEF Free, IndInv
    <3>2. cancels'[x] = [cancels[x] EXCEPT !.pc = "doomed"]
      BY <1>4, <2>2
    <3> QED
      BY <2>2, <3>1, <3>2 DEF CancelRequest, Free, Writing
  <2>3. CASE x # r /\ ~(cancels[x].pc = "save" /\ cancels[x].booking = b)
    BY <1>4, <2>3 DEF IndInv, TypeOK, ServiceTypeOK
  <2> QED
    BY <2>1, <2>2, <2>3
<1>7. /\ bookings \in [Bookings -> BookingDoc \cup {Unissued}]
      /\ events \in [Events -> EventDoc \cup {Unissued, Deleted}]
      /\ creates' = creates
  BY DEF CommitCancel, IndInv, TypeOK, ServiceTypeOK, StoreTypeOK
<1>8. bookings' = [bookings EXCEPT ![b] = [bookings[b] EXCEPT !.status = "cancelled"]]
  BY <1>2, <1>7 DEF CommitCancel
<1>9. \A c \in Bookings :
         /\ bookings'[c] \in BookingDoc \cup {Unissued}
         /\ BookingExists(c)' <=> BookingExists(c)
         /\ BookingExists(c) => bookings'[c].event = bookings[c].event
  BY <1>2, <1>7, <1>8 DEF BookingDoc, BookingExists, BookingStatuses
<1>10. /\ events' \in [Events -> EventDoc \cup {Unissued, Deleted}]
       /\ \A e \in Events :
             /\ EventExists(e)' <=> EventExists(e)
             /\ ~EventExists(e) => events'[e] = events[e]
             /\ EventExists(e) =>
                  /\ events'[e] \in EventDoc
                  /\ events'[e].available >= events[e].available
  <2>1. CASE cancels[r].held
    <3>1. PICK d \in Events, n \in Nat : d = e0 /\ n = bookings[b].seats
      BY <1>3, StoreAssumption
    <3>2. CancelHolds(r, d)
      BY <1>1, <2>1, <3>1 DEF CancelHolds
    <3>3. TypeOK /\ EventExists(d)
      BY <3>2 DEF IndInv, HeldEventsExist
    <3>4. events' = AddSeats(d, n)
      BY <2>1, <3>1 DEF CommitCancel
    <3> HIDE DEF b, e0
    <3> QED
      BY <3>3, <3>4, SeatsRestored
  <2>2. CASE ~cancels[r].held
    <3>1. events' = events
      BY <2>2 DEF CommitCancel
    <3>2. \A e \in Events : EventExists(e) =>
             events[e] \in EventDoc /\ events[e].available \in Nat
      BY EventFields DEF EventDoc, IndInv
    <3> QED
      BY <1>7, <3>1, <3>2 DEF EventExists
  <2> QED
    BY <2>1, <2>2
<1>11. TypeOK'
  <2>1. cancels' \in [Cancellers -> CancelRequest \cup Finished]
    BY <1>4, <1>6
  <2>2. bookings' \in [Bookings -> BookingDoc \cup {Unissued}]
    <3>1. DOMAIN bookings' = Bookings /\ bookings' = [c \in Bookings |-> bookings'[c]]
      BY <1>7, <1>8
    <3>2. \A c \in Bookings : bookings'[c] \in BookingDoc \cup {Unissued}
      BY <1>9
    <3> QED
      BY <3>1, <3>2
  <2>3. StoreTypeOK'
    BY <1>10, <2>2 DEF StoreTypeOK
  <2>4. creates' \in [Bookers -> CreateRequest \cup Finished]
    BY <1>7 DEF IndInv, TypeOK, ServiceTypeOK
  <2>5. ServiceTypeOK'
    BY <2>1, <2>3, <2>4 DEF ServiceTypeOK
  <2> QED
    BY <2>5 DEF IndInv, TypeOK, EditTypeOK
<1>12. \A x \in Cancellers, e \in Events : CancelHolds(x, e)' => CancelHolds(x, e)
  <2> SUFFICES ASSUME NEW x \in Cancellers, NEW e \in Events, CancelHolds(x, e)'
               PROVE  CancelHolds(x, e)
    OBVIOUS
  <2>1. ~Free(cancels'[x])
    BY DEF CancelHolds, Free
  <2>2. cancels[x].booking \in Bookings /\ BookingExists(cancels[x].booking)
    BY <1>6, <2>1, CancelFields DEF CancelRequest, IndInv, EventsKnown
  <2> QED
    BY <1>6, <1>9, <2>1, <2>2 DEF CancelHolds, Writing
<1>13. \A x \in Bookers, e \in Events : CreateHolds(x, e)' <=> CreateHolds(x, e)
  BY <1>7 DEF CreateHolds
<1>14. OneWriterPerEvent'
  BY <1>12, <1>13 DEF IndInv, OneWriterPerEvent
<1>15. HeldEventsExist'
  <2>1. ASSUME NEW x \in Bookers, NEW e \in Events, CreateHolds(x, e)
        PROVE  /\ EventExists(e)'
               /\ creates[x].pc # "orphan" => events'[e].available >= creates[x].seats
    <3>1. creates[x] \in CreateRequest
      BY <2>1, CreateFields DEF CreateHolds, Free, IndInv
    <3>2. EventExists(e) /\ (creates[x].pc # "orphan" => events[e].available >= creates[x].seats)
      BY <2>1 DEF IndInv, HeldEventsExist
    <3>3. events[e].available \in Nat
      BY <3>2, EventFields DEF IndInv, EventDoc
    <3>4. events'[e].available \in Nat /\ events'[e].available >= events[e].available
      BY <1>10, <3>2 DEF EventDoc
    <3>5. creates[x].seats \in Nat
      BY <3>1, StoreAssumption DEF CreateRequest
    <3> QED
      BY <1>10, <3>2, <3>3, <3>4, <3>5
  <2>2. \A x \in Cancellers, e \in Events : CancelHolds(x, e)' => EventExists(e)'
    BY <1>10, <1>12 DEF IndInv, HeldEventsExist
  <2> QED
    BY <2>1, <2>2, <1>7, <1>13 DEF HeldEventsExist
<1>16. EventsKnown'
  <2>1. ASSUME NEW c \in Bookings, BookingExists(c)
        PROVE  /\ events'[bookings'[c].event] # Unissued
               /\ events[bookings[c].event] = Deleted =>
                    events'[bookings'[c].event] = Deleted
    <3>1. bookings'[c].event = bookings[c].event /\ bookings[c].event \in Events
      BY <1>9, <2>1, BookingFields DEF BookingDoc, IndInv
    <3>2. events[bookings[c].event] # Unissued
      BY <2>1 DEF IndInv, EventsKnown
    <3>3. CASE EventExists(bookings[c].event)
      <4>1. events[bookings[c].event] # Deleted
        BY <3>3 DEF EventExists, EventStatuses, Deleted
      <4>2. events'[bookings[c].event] # Unissued
        BY <1>10, <3>1, <3>3 DEF EventDoc, EventStatuses, Unissued
      <4> QED
        BY <3>1, <4>1, <4>2
    <3>4. CASE ~EventExists(bookings[c].event)
      BY <1>10, <3>1, <3>2, <3>4
    <3> QED
      BY <3>3, <3>4
  <2>2. ASSUME NEW x \in Cancellers, ~Free(cancels'[x])
        PROVE  /\ BookingExists(cancels[x].booking)'
               /\ cancels'[x].pc # "inc" /\ ~cancels'[x].held =>
                     events'[bookings'[cancels'[x].booking].event] = Deleted
    <3>1. cancels[x].booking \in Bookings /\ BookingExists(cancels[x].booking)
      BY <1>6, <2>2, CancelFields DEF CancelRequest, IndInv, EventsKnown
    <3>2. BookingExists(cancels[x].booking)'
      BY <1>6, <1>9, <2>2, <3>1 DEF BookingExists
    <3>3. cancels[x].pc # "inc" /\ ~cancels[x].held =>
             events[bookings[cancels[x].booking].event] = Deleted
      BY <1>6, <2>2 DEF IndInv, EventsKnown
    <3> QED
      BY <1>6, <2>1, <2>2, <3>1, <3>2, <3>3
  <2> QED
    BY <2>1, <2>2, <1>9 DEF EventsKnown
<1>17. EditsAddUp'
  BY DEF IndInv, EditsAddUp
<1> QED
  BY <1>11, <1>14, <1>15, <1>16, <1>17 DEF IndInv

-----------------------------------------------------------------------------
(* Steps of the admin handlers. *)

\* A step that moves edit requests and leaves the store alone preserves the
\* invariant when what it is about to write adds up.
LEMMA EditMoves ==
    ASSUME IndInv, EditTypeOK', EditsAddUp',
           UNCHANGED <<events, bookings, creates, cancels, raced, overlapped>>
    PROVE  IndInv'
<1>1. TypeOK'
  BY DEF IndInv, TypeOK, ServiceTypeOK, StoreTypeOK
<1>2. OneWriterPerEvent' /\ HeldEventsExist'
  BY DEF IndInv, OneWriterPerEvent, HeldEventsExist, CreateHolds, CancelHolds, EventExists
<1>3. EventsKnown'
  BY DEF IndInv, EventsKnown, BookingExists
<1> QED
  BY <1>1, <1>2, <1>3 DEF IndInv

\* A write to an event that no transaction has written preserves it too.
LEMMA EventWrite ==
    ASSUME IndInv, EditTypeOK', EditsAddUp',
           NEW e0 \in Events, NEW d \in EventDoc \cup {Deleted},
           events[e0] # Deleted, ~EventBusy(e0),
           events' = [events EXCEPT ![e0] = d],
           UNCHANGED <<bookings, creates, cancels, overlapped>>,
           raced' \subseteq Events
    PROVE  IndInv'
<1>1. TypeOK'
  BY DEF IndInv, TypeOK, ServiceTypeOK, StoreTypeOK
<1>2. /\ events'[e0] = d
      /\ \A e \in Events : e # e0 => events'[e] = events[e]
      /\ d # Unissued
  BY DEF IndInv, TypeOK, ServiceTypeOK, StoreTypeOK, EventDoc, EventStatuses,
         Deleted, Unissued
<1>3. /\ \A x \in Bookers, e \in Events : CreateHolds(x, e)' <=> CreateHolds(x, e)
      /\ \A x \in Cancellers, e \in Events : CancelHolds(x, e)' <=> CancelHolds(x, e)
  BY DEF CreateHolds, CancelHolds
<1>4. OneWriterPerEvent'
  BY <1>3 DEF IndInv, OneWriterPerEvent
<1>5. HeldEventsExist'
  <2>1. ASSUME NEW x \in Bookers, NEW e \in Events, CreateHolds(x, e)
        PROVE  /\ EventExists(e)'
               /\ creates'[x].pc # "orphan" => events'[e].available >= creates'[x].seats
    <3>1. events'[e] = events[e]
      BY <2>1, <1>2 DEF EventBusy
    <3> QED
      BY <2>1, <3>1 DEF IndInv, HeldEventsExist, EventExists
  <2>2. ASSUME NEW x \in Cancellers, NEW e \in Events, CancelHolds(x, e)
        PROVE  EventExists(e)'
    <3>1. events'[e] = events[e]
      BY <2>2, <1>2 DEF EventBusy
    <3> QED
      BY <2>2, <3>1 DEF IndInv, HeldEventsExist, EventExists
  <2> QED
    BY <1>3, <2>1, <2>2 DEF HeldEventsExist
<1>6. EventsKnown'
  <2>1. ASSUME NEW b \in Bookings, BookingExists(b)
        PROVE  /\ events'[bookings[b].event] # Unissued
               /\ events[bookings[b].event] = Deleted => events'[bookings[b].event] = Deleted
    <3>1. bookings[b].event \in Events /\ events[bookings[b].event] # Unissued
      BY <2>1, BookingFields DEF IndInv, EventsKnown, BookingDoc
    <3> QED
      BY <3>1, <1>2
  <2>2. ASSUME NEW x \in Cancellers, ~Free(cancels[x])
        PROVE  /\ BookingExists(cancels[x].booking)'
               /\ cancels[x].pc # "inc" /\ ~cancels[x].held =>
                     events'[bookings[cancels[x].booking].event] = Deleted
    <3>1. cancels[x].booking \in Bookings /\ BookingExists(cancels[x].booking)
      BY <2>2, CancelFields DEF CancelRequest, IndInv, EventsKnown
    <3>2. BookingExists(cancels[x].booking)'
      BY <3>1 DEF BookingExists
    <3>3. cancels[x].pc # "inc" /\ ~cancels[x].held =>
             events[bookings[cancels[x].booking].event] = Deleted
      BY <2>2 DEF IndInv, EventsKnown
    <3> QED
      BY <2>1, <3>1, <3>2, <3>3
  <2>3. \A b \in Bookings : BookingExists(b)' <=> BookingExists(b)
    BY DEF BookingExists
  <2> QED
    BY <2>1, <2>2, <2>3 DEF EventsKnown
<1> QED
  BY <1>1, <1>4, <1>5, <1>6 DEF IndInv

\* An edit request that is answered holds nothing that has to add up.
LEMMA AnswerEditOK ==
    ASSUME IndInv, NEW r \in Editors, NEW code \in {200, 400, 404, 500},
           AnswerEdit(r, code)
    PROVE  EditTypeOK' /\ EditsAddUp'
<1>1. [pc |-> "done", code |-> code] \in EditDone
  BY DEF EditDone
<1> QED
  BY <1>1 DEF AnswerEdit, IndInv, TypeOK, EditTypeOK, EditsAddUp

\* The admin handlers preserve the invariant.
LEMMA EditingInv ==
    ASSUME IndInv, NEW r \in Editors, Editing(r)
    PROVE  IndInv'
<1>1. edits \in [Editors -> UpdateRequest \cup DeleteRequest \cup EditDone]
  BY DEF IndInv, TypeOK, EditTypeOK
<1>2. ASSUME NEW e \in Events, NEW t \in Totals \cup {NotGiven},
             NEW s \in EventStatuses \cup {Same}, FindForUpdate(r, e, t, s),
             UNCHANGED <<creates, cancels, raced, overlapped>>
      PROVE  IndInv'
  <2> DEFINE given == t # NotGiven
             booked == IF given THEN events[e].total - events[e].available ELSE 0
             q == [pc |-> "update", event |-> e, total |-> t,
                   available |-> IF given THEN t - booked ELSE 0,
                   booked |-> booked, status |-> s]
  <2>1. CASE AnswerEdit(r, 404) \/ AnswerEdit(r, 400)
    BY <1>2, <2>1, AnswerEditOK, EditMoves DEF FindForUpdate, storeVars
  <2>2. CASE /\ EventExists(e)
             /\ given => t >= booked
             /\ edits' = [edits EXCEPT ![r] = q]
    <3>1. events[e].total \in Nat /\ events[e].available \in Nat
      BY <2>2, EventFields DEF IndInv, EventDoc
    <3>2. booked \in Int /\ t \in Int
      BY <3>1, StoreAssumption DEF NotGiven
    <3>3. given => t - booked \in Nat /\ (t - booked) + booked = t
      BY <2>2, <3>2
    <3>4. q \in UpdateRequest
      BY <3>2, <3>3 DEF UpdateRequest
    <3>5. EditTypeOK'
      BY <1>1, <2>2, <3>4 DEF EditTypeOK
    <3>6. EditsAddUp'
      BY <1>1, <2>2, <3>3 DEF EditsAddUp, IndInv
    <3> QED
      BY <1>2, <3>5, <3>6, EditMoves DEF FindForUpdate, storeVars
  <2> QED
    BY <1>2, <2>1, <2>2 DEF FindForUpdate
<1>3. ASSUME NEW e \in Events, FindForDelete(r, e),
             UNCHANGED <<creates, cancels, raced, overlapped>>
      PROVE  IndInv'
  <2>1. CASE AnswerEdit(r, 404)
    BY <1>3, <2>1, AnswerEditOK, EditMoves DEF FindForDelete, storeVars
  <2>2. CASE edits' = [edits EXCEPT ![r] = [pc |-> "delete", event |-> e]]
    <3>1. [pc |-> "delete", event |-> e] \in DeleteRequest
      BY DEF DeleteRequest
    <3>2. EditTypeOK' /\ EditsAddUp'
      BY <1>1, <2>2, <3>1 DEF EditTypeOK, EditsAddUp, IndInv
    <3> QED
      BY <1>3, <3>2, EditMoves DEF FindForDelete, storeVars
  <2> QED
    BY <1>3, <2>1, <2>2 DEF FindForDelete
<1>4. CASE FailEdit(r) /\ UNCHANGED <<creates, cancels, raced, overlapped>>
  BY <1>4, AnswerEditOK, EditMoves DEF FailEdit, storeVars
<1>5. CASE /\ edits[r].pc = "delete" /\ ~EventBusy(edits[r].event) /\ WriteDelete(r)
           /\ UNCHANGED <<creates, cancels, raced, overlapped>>
  <2>1. edits[r].event \in Events
    BY <1>1, <1>5 DEF UpdateRequest, DeleteRequest, EditDone
  <2>2. EditTypeOK' /\ EditsAddUp'
    BY <1>5, AnswerEditOK DEF WriteDelete
  <2>3. CASE EventExists(edits[r].event)
    <3>1. events[edits[r].event] # Deleted
      BY <2>3 DEF EventExists, EventStatuses, Deleted
    <3> QED
      BY <1>5, <2>1, <2>2, <2>3, <3>1, EventWrite DEF WriteDelete, IndInv, TypeOK
  <2>4. CASE ~EventExists(edits[r].event)
    BY <1>5, <2>2, <2>4, EditMoves DEF WriteDelete
  <2> QED
    BY <2>3, <2>4
<1>6. CASE /\ edits[r].pc = "update"
           /\ ~EventBusy(edits[r].event)
           /\ WriteUpdate(r)
           /\ raced' = raced \cup StaleResize(r)
           /\ UNCHANGED <<creates, cancels, overlapped>>
  <2> DEFINE q == edits[r]
             e == edits[r].event
  <2>1. q \in UpdateRequest
    BY <1>1, <1>6 DEF DeleteRequest, EditDone
  <2>2. e \in Events /\ q.total \in Totals \cup {NotGiven} /\ q.available \in Nat
           /\ q.status \in EventStatuses \cup {Same}
    BY <2>1 DEF UpdateRequest
  <2>3. EditTypeOK' /\ EditsAddUp'
    BY <1>6, AnswerEditOK DEF WriteUpdate
  <2>4. CASE EventExists(e)
    <3>1. events[e] \in EventDoc /\ events[e] # Deleted
      BY <2>2, <2>4, EventFields DEF IndInv, EventExists, EventStatuses, Deleted
    <3>2. Updated(events[e], q) \in EventDoc
      BY <2>2, <3>1, StoreAssumption DEF Updated, EventDoc
    <3>3. events' = [events EXCEPT ![e] = Updated(events[e], q)]
      BY <1>6, <2>4 DEF WriteUpdate
    <3>4. raced' \subseteq Events
      BY <1>6, <2>2 DEF StaleResize, IndInv, TypeOK
    <3> QED
      BY <1>6, <2>2, <2>3, <3>1, <3>2, <3>3, <3>4, EventWrite DEF WriteUpdate
  <2>5. CASE ~EventExists(e)
    <3>1. events' = events /\ raced' = raced
      BY <1>6, <2>5 DEF WriteUpdate, StaleResize
    <3> QED
      BY <1>6, <2>3, <3>1, EditMoves DEF WriteUpdate
  <2> QED
    BY <2>4, <2>5
<1> QED
  BY <1>2, <1>3, <1>4, <1>5, <1>6 DEF Editing

\* Publishing an event preserves the invariant: nobody can hold a new event.
LEMMA PublishingInv ==
    ASSUME IndInv, Publishing
    PROVE  IndInv'
<1>1. PICK e \in Events, t \in Totals : CreateEvent(e, t)
  BY DEF Publishing
<1>2. InsertedEvent(t) \in EventDoc
  BY <1>1, StoreAssumption DEF InsertedEvent, EventDoc, EventStatuses
<1>3. events[e] # Deleted /\ ~EventExists(e)
  BY <1>1 DEF CreateEvent, Unissued, Deleted, EventExists, EventStatuses
<1>4. ~EventBusy(e)
  BY <1>1, <1>3 DEF EventBusy, IndInv, HeldEventsExist
<1>5. EditTypeOK' /\ EditsAddUp'
  BY <1>1 DEF CreateEvent, IndInv, TypeOK, EditTypeOK, EditsAddUp
<1> QED
  BY <1>1, <1>2, <1>3, <1>4, <1>5, EventWrite DEF CreateEvent, Publishing, IndInv, TypeOK

-----------------------------------------------------------------------------
(* Crashes. *)

\* What a crash leaves of a create request.
LEMMA CreateAfterCrash ==
    ASSUME TypeOK, NEW r \in Bookers
    PROVE  LET q == AfterCrash(creates[r])
           IN  /\ q \in CreateRequest \cup Finished
               /\ q.pc \notin {"dec", "insert", "commit"}
               /\ q.pc = "orphan" =>
                     /\ creates[r].pc \in {"insert", "commit", "orphan"}
                     /\ q.event = creates[r].event
<1> DEFINE q == AfterCrash(creates[r])
<1>1. CASE Free(creates[r])
  <2>1. q = creates[r]
    BY <1>1 DEF AfterCrash, Free
  <2> QED
    BY <1>1, <2>1 DEF Free, TypeOK, ServiceTypeOK
<1>2. CASE ~Free(creates[r])
  <2>1. creates[r] \in CreateRequest
    BY <1>2, CreateFields
  <2>2. CASE creates[r].pc \in {"insert", "commit"}
    <3>1. q = [creates[r] EXCEPT !.pc = "orphan"]
      BY <2>2 DEF AfterCrash
    <3> QED
      BY <2>1, <2>2, <3>1 DEF CreateRequest
  <2>3. CASE creates[r].pc \in {"dup", "dec"}
    <3>1. q = Idle
      BY <2>3 DEF AfterCrash
    <3> QED
      BY <3>1 DEF Idle, Finished
  <2>4. CASE creates[r].pc = "orphan"
    <3>1. q = creates[r]
      BY <2>4 DEF AfterCrash
    <3> QED
      BY <2>1, <2>4, <3>1
  <2> QED
    BY <2>1, <2>2, <2>3, <2>4 DEF CreateRequest
<1> QED
  BY <1>1, <1>2

\* What a crash leaves of a cancel request.
LEMMA CancelAfterCrash ==
    ASSUME TypeOK, NEW r \in Cancellers
    PROVE  LET q == AfterCrash(cancels[r])
           IN  /\ q \in CancelRequest \cup Finished
               /\ q.pc # "commit"
               /\ ~Free(q) =>
                     /\ q.pc = "orphan"
                     /\ cancels[r].pc \in Writing
                     /\ q.booking = cancels[r].booking
                     /\ q.held = cancels[r].held
<1> DEFINE q == AfterCrash(cancels[r])
<1>1. CASE Free(cancels[r])
  <2>1. q = cancels[r]
    BY <1>1 DEF AfterCrash, Free
  <2> QED
    BY <1>1, <2>1 DEF Free, TypeOK, ServiceTypeOK
<1>2. CASE ~Free(cancels[r])
  <2>1. cancels[r] \in CancelRequest
    BY <1>2, CancelFields
  <2>2. CASE cancels[r].pc = "commit" \/ (cancels[r].pc = "save" /\ cancels[r].held)
    <3>1. q = [cancels[r] EXCEPT !.pc = "orphan"]
      BY <2>2 DEF AfterCrash
    <3> QED
      BY <2>1, <2>2, <3>1 DEF CancelRequest, Free, Writing
  <2>3. CASE \/ cancels[r].pc \in {"inc", "doomed"}
             \/ cancels[r].pc = "save" /\ ~cancels[r].held
    <3>1. q = Idle
      BY <2>3 DEF AfterCrash
    <3> QED
      BY <3>1 DEF Idle, Finished, Free
  <2>4. CASE cancels[r].pc = "orphan"
    <3>1. q = cancels[r]
      BY <2>4 DEF AfterCrash
    <3> QED
      BY <2>1, <2>4, <3>1 DEF Writing
  <2> QED
    BY <2>1, <2>2, <2>3, <2>4 DEF CancelRequest
<1> QED
  BY <1>1, <1>2

\* A crash preserves the invariant: orphans keep what they held.
LEMMA CrashInv ==
    ASSUME IndInv, Crash
    PROVE  IndInv'
<1>1. /\ \A x \in Bookers : creates'[x] = AfterCrash(creates[x])
      /\ \A x \in Cancellers : cancels'[x] = AfterCrash(cancels[x])
      /\ UNCHANGED <<events, bookings, raced, overlapped>>
  BY DEF Crash, CrashRequests, historyVars
<1>2. EditTypeOK' /\ EditsAddUp'
  BY DEF Crash, CrashEdits, Editable, IndInv, TypeOK, EditTypeOK, EditsAddUp, EditDone
<1>3. TypeOK'
  <2>1. creates' \in [Bookers -> CreateRequest \cup Finished]
    BY CreateAfterCrash DEF Crash, CrashRequests, IndInv
  <2>2. cancels' \in [Cancellers -> CancelRequest \cup Finished]
    BY CancelAfterCrash DEF Crash, CrashRequests, IndInv
  <2> QED
    BY <1>1, <1>2, <2>1, <2>2 DEF IndInv, TypeOK, ServiceTypeOK, StoreTypeOK
<1>4. ASSUME NEW x \in Bookers, NEW e \in Events, CreateHolds(x, e)'
      PROVE  CreateHolds(x, e) /\ creates'[x].pc = "orphan"
  BY <1>1, <1>4, CreateAfterCrash DEF CreateHolds, IndInv
<1>5. ASSUME NEW x \in Cancellers, NEW e \in Events, CancelHolds(x, e)'
      PROVE  CancelHolds(x, e)
  BY <1>1, <1>5, CancelAfterCrash DEF CancelHolds, IndInv, Free, Writing
<1>6. OneWriterPerEvent' /\ HeldEventsExist'
  BY <1>1, <1>4, <1>5 DEF IndInv, OneWriterPerEvent, HeldEventsExist, EventExists
<1>7. EventsKnown'
  <2>1. \A b \in Bookings : /\ BookingExists(b)' <=> BookingExists(b)
                            /\ BookingExists(b) => events'[bookings'[b].event] # Unissued
    BY <1>1 DEF IndInv, EventsKnown, BookingExists
  <2>2. ASSUME NEW x \in Cancellers, ~Free(cancels'[x])
        PROVE  /\ BookingExists(cancels'[x].booking)
               /\ cancels'[x].pc # "inc" /\ ~cancels'[x].held =>
                     events[bookings[cancels'[x].booking].event] = Deleted
    <3>1. /\ cancels[x].pc \in Writing
          /\ cancels'[x].booking = cancels[x].booking
          /\ cancels'[x].held = cancels[x].held
      BY <1>1, <2>2, CancelAfterCrash DEF IndInv
    <3> QED
      BY <3>1 DEF IndInv, EventsKnown, Free, Writing
  <2> QED
    BY <1>1, <2>1, <2>2 DEF EventsKnown, BookingExists
<1> QED
  BY <1>2, <1>3, <1>6, <1>7 DEF IndInv

-----------------------------------------------------------------------------
(* The invariant. *)

\* Every step of the specification preserves the inductive invariant.
LEMMA NextIndInv == IndInv /\ [Next]_vars => IndInv'
<1> SUFFICES ASSUME IndInv, [Next]_vars PROVE IndInv'
  OBVIOUS
<1>1. raced \subseteq Events /\ overlapped \subseteq Users \X Events
  BY DEF IndInv, TypeOK
<1>2. ASSUME NEW r \in Bookers, Creating(r) PROVE IndInv'
  <2>1. CASE /\ CheckDuplicate(r)
             /\ overlapped' = overlapped \cup Overlap(r)
             /\ UNCHANGED <<edits, raced>>
    <3>1. creates[r] \in CreateRequest
      BY <2>1, CreateFields DEF CheckDuplicate, Free, IndInv
    <3>2. overlapped' \subseteq Users \X Events
      BY <1>1, <2>1, <3>1 DEF Overlap, CreateRequest
    <3> QED
      BY <2>1, <3>2, CreateStepsInv
  <2>2. CASE CommitCreate(r) /\ UNCHANGED <<edits, raced, overlapped>>
    BY <2>2, CommitCreateInv
  <2>3. CASE /\ \/ \E u \in Users, e \in Events, n \in 1..MaxSeats : FindEvent(r, u, e, n)
                \/ DecrementSeats(r)
                \/ InsertBooking(r)
                \/ FailCreate(r)
                \/ ReapCreate(r)
             /\ UNCHANGED <<edits, raced, overlapped>>
    BY <1>1, <2>3, CreateStepsInv
  <2> QED
    BY <1>2, <2>1, <2>2, <2>3 DEF Creating, CreateRuns
<1>3. ASSUME NEW r \in Cancellers, Cancelling(r) PROVE IndInv'
  <2>1. CASE /\ CommitCancel(r)
             /\ raced' = raced \cup SecondRestore(r)
             /\ UNCHANGED <<edits, overlapped>>
    <3>1. cancels[r] \in CancelRequest
      BY <2>1, CancelFields DEF CommitCancel, Free, IndInv
    <3>2. BookingExists(cancels[r].booking)
      BY <2>1 DEF CommitCancel, Free, IndInv, EventsKnown
    <3>3. bookings[cancels[r].booking].event \in Events
      BY <3>1, <3>2, BookingFields DEF CancelRequest, IndInv, BookingDoc
    <3>4. raced' \subseteq Events
      BY <1>1, <2>1, <3>3 DEF SecondRestore
    <3> QED
      BY <2>1, <3>4, CommitCancelInv
  <2>2. CASE /\ \/ \E u \in Users, b \in Bookings : FindBooking(r, u, b)
                \/ IncrementSeats(r)
                \/ SaveBooking(r)
                \/ FailCancel(r)
                \/ ReapCancel(r)
             /\ UNCHANGED <<edits, raced, overlapped>>
    BY <2>2, CancelStepsInv
  <2> QED
    BY <1>3, <2>1, <2>2 DEF Cancelling, CancelRuns
<1>4. ASSUME NEW r \in Editors, Editing(r) PROVE IndInv'
  BY <1>4, EditingInv
<1>5. CASE Publishing
  BY <1>5, PublishingInv
<1>6. CASE Crash
  BY <1>6, CrashInv
<1>7. CASE UNCHANGED vars
  <2>1. EditTypeOK' /\ EditsAddUp'
    BY <1>7 DEF vars, IndInv, TypeOK, EditTypeOK, EditsAddUp
  <2> QED
    BY <1>7, <2>1, EditMoves DEF vars
<1> QED
  BY <1>2, <1>3, <1>4, <1>5, <1>6, <1>7 DEF Next

\* The inductive invariant holds in every reachable state.
THEOREM Invariance == Spec => []IndInv
<1> QED
  BY InitIndInv, NextIndInv, PTL DEF Spec

\* Documents and requests keep their shape; availableSeats never goes below
\* zero, although only decrementSeats guards it.
THEOREM TypeCorrect == Spec => []TypeOK
<1>1. IndInv => TypeOK
  BY DEF IndInv
<1> QED
  BY Invariance, <1>1, PTL
=============================================================================

----------------------------- MODULE LedgerProofs -----------------------------
(***************************************************************************)
(* Proofs, for every set of slots, identifiers and totals, that the seats  *)
(* of EventHub add up, that duplicate bookings need a race, and that the   *)
(* API implements the box office of SeatBook.                              *)
(***************************************************************************)
EXTENDS EventHubProofs, FunctionTheorems

-----------------------------------------------------------------------------
(* Counting seats. *)

\* The seats of an event are finitely many.
LEMMA SeatsFinite ==
    ASSUME NEW e
    PROVE  IsFiniteSet(SeatsOf(e)) /\ SeatsTaken(e) \in Nat
<1>1. IsFiniteSet(Bookings) /\ IsFiniteSet(1..MaxSeats)
  BY StoreAssumption, FS_Interval
<1>2. IsFiniteSet(Bookings \X (1..MaxSeats))
  BY <1>1, FS_Product
<1>3. SeatsOf(e) \in SUBSET (Bookings \X (1..MaxSeats))
  BY DEF SeatsOf
<1>4. IsFiniteSet(SeatsOf(e))
  BY <1>2, <1>3, FS_Subset
<1> QED
  BY <1>4, FS_CardinalityType DEF SeatsTaken

\* A booking of n seats is n seats.
LEMMA BlockCounts ==
    ASSUME NEW b, NEW n \in Nat
    PROVE  IsFiniteSet({b} \X (1..n)) /\ Cardinality({b} \X (1..n)) = n
<1>1. IsFiniteSet({b}) /\ Cardinality({b}) = 1
  BY FS_Singleton
<1>2. IsFiniteSet(1..n) /\ Cardinality(1..n) = n
  BY FS_Interval
<1>3. /\ IsFiniteSet({b} \X (1..n))
      /\ Cardinality({b} \X (1..n)) = Cardinality({b}) * Cardinality(1..n)
  BY <1>1, <1>2, FS_Product, Zenon
<1>4. Cardinality({b}) * Cardinality(1..n) = n
  BY <1>1, <1>2
<1> QED
  BY <1>3, <1>4

\* A new confirmed booking adds its seats to its event and to no other.
LEMMA SaleCounts ==
    ASSUME bookings \in [Bookings -> BookingDoc \cup {Unissued}],
           NEW b \in Bookings, ~BookingExists(b),
           NEW u \in Users, NEW e0 \in Events, NEW n \in 1..MaxSeats,
           bookings' = [bookings EXCEPT ![b] = InsertedBooking(u, e0, n)]
    PROVE  /\ SeatsTaken(e0)' = SeatsTaken(e0) + n
           /\ \A e \in Events : e # e0 => SeatsTaken(e)' = SeatsTaken(e)
<1> DEFINE block == {b} \X (1..n)
<1>1. /\ bookings'[b] = [user |-> u, event |-> e0, seats |-> n, status |-> "confirmed"]
      /\ \A c \in Bookings : c # b => bookings'[c] = bookings[c]
      /\ bookings[b].status # "confirmed"
  BY DEF InsertedBooking, BookingExists, BookingStatuses
<1>2. n \in Nat /\ MaxSeats \in Nat
  BY StoreAssumption
<1>3. block \subseteq Bookings \X (1..MaxSeats)
  BY <1>2
<1>4. \A s \in Bookings \X (1..MaxSeats) :
         s \in SeatsOf(e0)' <=> s \in SeatsOf(e0) \/ s \in block
  <2> SUFFICES ASSUME NEW c \in Bookings, NEW k \in 1..MaxSeats
               PROVE  <<c, k>> \in SeatsOf(e0)' <=>
                         <<c, k>> \in SeatsOf(e0) \/ <<c, k>> \in block
    OBVIOUS
  <2>1. <<c, k>> \in block <=> c = b /\ k <= n
    BY <1>2
  <2>2. CASE c = b
    BY <2>1, <2>2, <1>1 DEF SeatsOf
  <2>3. CASE c # b
    BY <2>1, <2>3, <1>1 DEF SeatsOf
  <2> QED
    BY <2>2, <2>3
<1>5. SeatsOf(e0)' = SeatsOf(e0) \cup block
  BY <1>3, <1>4 DEF SeatsOf
<1>6. SeatsOf(e0) \cap block = {}
  BY <1>1 DEF SeatsOf
<1>7. SeatsTaken(e0)' = SeatsTaken(e0) + n
  <2>1. IsFiniteSet(block) /\ Cardinality(block) = n
    BY <1>2, BlockCounts
  <2>2. IsFiniteSet(SeatsOf(e0)) /\ SeatsTaken(e0) \in Nat
    BY SeatsFinite
  <2>3. Cardinality(SeatsOf(e0) \cup block) =
           Cardinality(SeatsOf(e0)) + Cardinality(block) - Cardinality(SeatsOf(e0) \cap block)
    BY <2>1, <2>2, FS_Union
  <2>4. Cardinality({}) = 0
    BY FS_EmptySet
  <2>5. SeatsTaken(e0)' = Cardinality(SeatsOf(e0) \cup block)
    BY <1>5 DEF SeatsTaken
  <2>6. SeatsTaken(e0)' = SeatsTaken(e0) + n - 0
    BY <1>6, <2>1, <2>3, <2>4, <2>5 DEF SeatsTaken
  <2> QED
    BY <1>2, <2>2, <2>6
<1>8. ASSUME NEW e \in Events, e # e0
      PROVE  SeatsTaken(e)' = SeatsTaken(e)
  <2>1. SeatsOf(e)' = SeatsOf(e)
    BY <1>1, <1>8 DEF SeatsOf
  <2> QED
    BY <2>1 DEF SeatsTaken
<1> QED
  BY <1>7, <1>8

\* A cancelled booking takes its seats away from its event and from no other.
LEMMA ReleaseCounts ==
    ASSUME bookings \in [Bookings -> BookingDoc \cup {Unissued}],
           NEW b \in Bookings, bookings[b].status = "confirmed",
           NEW e0 \in Events, bookings[b].event = e0,
           NEW n \in 1..MaxSeats, bookings[b].seats = n,
           bookings' = [bookings EXCEPT ![b].status = "cancelled"]
    PROVE  /\ SeatsTaken(e0)' = SeatsTaken(e0) - n
           /\ \A e \in Events : e # e0 => SeatsTaken(e)' = SeatsTaken(e)
<1> DEFINE block == {b} \X (1..n)
<1>1. bookings[b] \in BookingDoc
  BY DEF Unissued
<1>2. n \in Nat /\ MaxSeats \in Nat
  BY StoreAssumption
<1>3. /\ bookings'[b].status = "cancelled"
      /\ \A c \in Bookings : c # b => bookings'[c] = bookings[c]
  BY <1>1 DEF BookingDoc
<1>4. block \subseteq SeatsOf(e0)
  <2> SUFFICES ASSUME NEW k \in 1..n PROVE <<b, k>> \in SeatsOf(e0)
    OBVIOUS
  <2> QED
    BY <1>2 DEF SeatsOf
<1>5. \A s \in Bookings \X (1..MaxSeats) :
         s \in SeatsOf(e0)' <=> s \in SeatsOf(e0) /\ s \notin block
  <2> SUFFICES ASSUME NEW c \in Bookings, NEW k \in 1..MaxSeats
               PROVE  <<c, k>> \in SeatsOf(e0)' <=>
                         <<c, k>> \in SeatsOf(e0) /\ <<c, k>> \notin block
    OBVIOUS
  <2>1. <<c, k>> \in block <=> c = b /\ k <= n
    BY <1>2
  <2>2. CASE c = b
    BY <2>1, <2>2, <1>3 DEF SeatsOf
  <2>3. CASE c # b
    BY <2>1, <2>3, <1>3 DEF SeatsOf
  <2> QED
    BY <2>2, <2>3
<1>6. SeatsOf(e0)' = SeatsOf(e0) \ block
  BY <1>5 DEF SeatsOf
<1>7. SeatsTaken(e0)' = SeatsTaken(e0) - n
  <2>1. Cardinality(block) = n
    BY <1>2, BlockCounts
  <2>2. IsFiniteSet(SeatsOf(e0))
    BY SeatsFinite
  <2>3. Cardinality(SeatsOf(e0) \ block) =
           Cardinality(SeatsOf(e0)) - Cardinality(SeatsOf(e0) \cap block)
    BY <2>2, FS_Difference
  <2>4. SeatsOf(e0) \cap block = block
    BY <1>4
  <2>5. SeatsTaken(e0)' = Cardinality(SeatsOf(e0) \ block)
    BY <1>6 DEF SeatsTaken
  <2> QED
    BY <2>1, <2>3, <2>4, <2>5 DEF SeatsTaken
<1>8. ASSUME NEW e \in Events, e # e0
      PROVE  SeatsTaken(e)' = SeatsTaken(e)
  <2>1. SeatsOf(e)' = SeatsOf(e)
    BY <1>1, <1>3, <1>8 DEF SeatsOf
  <2> QED
    BY <2>1 DEF SeatsTaken
<1> QED
  BY <1>7, <1>8

\* An event that nobody has ever booked has sold no seats.
LEMMA NewEventIsEmpty ==
    ASSUME IndInv, NEW e \in Events, events[e] = Unissued
    PROVE  SeatsTaken(e) = 0
<1>1. SeatsOf(e) = {}
  BY DEF SeatsOf, IndInv, EventsKnown, BookingExists, BookingStatuses
<1> QED
  BY <1>1, FS_EmptySet DEF SeatsTaken

-----------------------------------------------------------------------------
(* The ledger. *)

\* A step that leaves the store alone leaves the ledger alone.
LEMMA LedgerFrame ==
    ASSUME SeatLedger, UNCHANGED <<events, bookings>>, raced \subseteq raced'
    PROVE  SeatLedger'
<1>1. \A e \in Events : SeatsTaken(e)' = SeatsTaken(e)
  BY DEF SeatsTaken, SeatsOf
<1> QED
  BY <1>1 DEF SeatLedger, EventExists

\* A sale moves seats from one column to the other.
LEMMA LedgerSale ==
    ASSUME IndInv, SeatLedger, NEW r \in Bookers, CommitCreate(r), UNCHANGED raced
    PROVE  SeatLedger'
<1>1. creates[r] \in CreateRequest /\ creates[r].pc = "commit"
  BY CreateFields DEF CommitCreate, Free, IndInv
<1>2. PICK u \in Users, e0 \in Events, n \in 1..MaxSeats :
         creates[r].user = u /\ creates[r].event = e0 /\ creates[r].seats = n
  BY <1>1 DEF CreateRequest
<1>3. CreateHolds(r, e0)
  BY <1>1, <1>2 DEF CreateHolds
<1>4. EventExists(e0) /\ events[e0] \in EventDoc
  BY <1>3, EventFields DEF IndInv, HeldEventsExist
<1>5. PICK b \in Bookings :
         /\ ~BookingExists(b)
         /\ bookings' = [bookings EXCEPT ![b] = InsertedBooking(u, e0, n)]
  BY <1>2 DEF CommitCreate, FreeBookings
<1>6. /\ SeatsTaken(e0)' = SeatsTaken(e0) + n
      /\ \A e \in Events : e # e0 => SeatsTaken(e)' = SeatsTaken(e)
  <2>1. bookings \in [Bookings -> BookingDoc \cup {Unissued}]
    BY DEF IndInv, TypeOK, ServiceTypeOK, StoreTypeOK
  <2>2. ~BookingExists(b)
    BY <1>5
  <2>3. bookings' = [bookings EXCEPT ![b] = InsertedBooking(u, e0, n)]
    BY <1>5
  <2> QED
    BY <2>1, <2>2, <2>3, SaleCounts, ZenonT(60)
<1>7. /\ events'[e0].available = events[e0].available + -n
      /\ events'[e0].total = events[e0].total
      /\ \A e \in Events : e # e0 => events'[e] = events[e]
  <2>1. events' = AddSeats(e0, -n)
    BY <1>2 DEF CommitCreate
  <2>2. events[e0].available >= n
    BY <1>1, <1>2, <1>3 DEF IndInv, HeldEventsExist
  <2>3. -n \in Int /\ events[e0].available + -n \in Nat
    BY <1>4, <2>2, StoreAssumption DEF EventDoc
  <2> QED
    BY <1>4, <2>1, <2>3, SeatsMoved DEF IndInv
<1> SUFFICES ASSUME NEW e \in Events, e \notin raced, EventExists(e)'
             PROVE  events'[e].available + SeatsTaken(e)' = events'[e].total
  BY DEF SeatLedger
<1>8. CASE e = e0
  <2>1. events[e0].available + SeatsTaken(e0) = events[e0].total
    BY <1>4, <1>8 DEF SeatLedger
  <2>2. SeatsTaken(e0) \in Nat /\ events[e0].available \in Nat /\ n \in Nat
    BY <1>4, SeatsFinite, StoreAssumption DEF EventDoc
  <2> QED
    BY <1>6, <1>7, <1>8, <2>1, <2>2
<1>9. CASE e # e0
  BY <1>6, <1>7, <1>9 DEF SeatLedger, EventExists
<1> QED
  BY <1>8, <1>9

\* A release moves them back, unless the booking had been released before and
\* the event is marked.
LEMMA LedgerRelease ==
    ASSUME IndInv, SeatLedger, NEW r \in Cancellers, CommitCancel(r),
           raced' = raced \cup SecondRestore(r)
    PROVE  SeatLedger'
<1>1. cancels[r] \in CancelRequest /\ cancels[r].pc = "commit" /\ ~Free(cancels[r])
  BY CancelFields DEF CommitCancel, Free, IndInv
<1>2. PICK b \in Bookings :
         cancels[r].booking = b /\ BookingExists(b) /\ bookings[b] \in BookingDoc
  BY <1>1, BookingFields DEF CancelRequest, IndInv, EventsKnown
<1>3. PICK e0 \in Events, n \in 1..MaxSeats :
         /\ bookings[b].event = e0
         /\ bookings[b].seats = n
         /\ bookings[b].status \in BookingStatuses
  BY <1>2 DEF BookingDoc
<1>4. bookings' = [bookings EXCEPT ![b].status = "cancelled"]
  BY <1>2 DEF CommitCancel
<1>5. CASE bookings[b].status = "confirmed"
  <2>1. /\ SeatsTaken(e0)' = SeatsTaken(e0) - n
        /\ \A e \in Events : e # e0 => SeatsTaken(e)' = SeatsTaken(e)
    <3>1. bookings \in [Bookings -> BookingDoc \cup {Unissued}]
      BY DEF IndInv, TypeOK, ServiceTypeOK, StoreTypeOK
    <3>2. bookings[b].event = e0 /\ bookings[b].seats = n
      BY <1>3
    <3> QED
      BY <1>4, <1>5, <3>1, <3>2, ReleaseCounts
  <2>2. CASE cancels[r].held
    <3>1. EventExists(e0) /\ events[e0] \in EventDoc
      <4>1. CancelHolds(r, e0)
        BY <1>1, <1>2, <1>3, <2>2 DEF CancelHolds
      <4> QED
        BY <4>1, EventFields DEF IndInv, HeldEventsExist
    <3>2. /\ events'[e0].available = events[e0].available + n
          /\ events'[e0].total = events[e0].total
          /\ \A e \in Events : e # e0 => events'[e] = events[e]
      <4>1. events' = AddSeats(e0, n)
        BY <1>2, <1>3, <2>2 DEF CommitCancel
      <4>2. n \in Int /\ events[e0].available + n \in Nat
        BY <3>1, StoreAssumption DEF EventDoc
      <4> QED
        BY <3>1, <4>1, <4>2, SeatsMoved DEF IndInv
    <3> SUFFICES ASSUME NEW e \in Events, e \notin raced, EventExists(e)'
                 PROVE  events'[e].available + SeatsTaken(e)' = events'[e].total
      BY DEF SeatLedger
    <3>3. CASE e = e0
      <4>1. events[e0].available + SeatsTaken(e0) = events[e0].total
        BY <1>3, <3>1, <3>3 DEF SeatLedger
      <4>2. SeatsTaken(e0) \in Nat /\ events[e0].available \in Nat /\ n \in Nat
        BY <1>3, <3>1, SeatsFinite, StoreAssumption DEF EventDoc
      <4> QED
        BY <2>1, <3>2, <3>3, <4>1, <4>2
    <3>4. CASE e # e0
      BY <2>1, <3>2, <3>4 DEF SeatLedger, EventExists
    <3> QED
      BY <3>3, <3>4
  <2>3. CASE ~cancels[r].held
    <3>1. events' = events
      BY <2>3 DEF CommitCancel
    <3>2. ~EventExists(e0)
      BY <1>1, <1>2, <1>3, <2>3 DEF IndInv, EventsKnown, EventExists, EventStatuses, Deleted
    <3> QED
      BY <2>1, <3>1, <3>2 DEF SeatLedger, EventExists
  <2> QED
    BY <2>2, <2>3
<1>6. CASE bookings[b].status = "cancelled"
  <2>1. bookings' = bookings
    BY <1>2, <1>4, <1>6 DEF IndInv, TypeOK, ServiceTypeOK, StoreTypeOK, BookingDoc
  <2>2. \A e \in Events : SeatsTaken(e)' = SeatsTaken(e)
    BY <2>1 DEF SeatsTaken, SeatsOf
  <2>3. CASE cancels[r].held
    <3>1. e0 \in raced'
      BY <1>2, <1>3, <1>6, <2>3 DEF SecondRestore
    <3>2. \A e \in Events : e # e0 => events'[e] = events[e]
      BY <1>2, <1>3, <2>3 DEF CommitCancel, AddSeats, IndInv, TypeOK, ServiceTypeOK, StoreTypeOK
    <3> QED
      BY <2>2, <3>1, <3>2 DEF SeatLedger, EventExists
  <2>4. CASE ~cancels[r].held
    <3>1. events' = events
      BY <2>4 DEF CommitCancel
    <3> QED
      BY <2>1, <3>1, LedgerFrame
  <2> QED
    BY <2>3, <2>4
<1> QED
  BY <1>3, <1>5, <1>6 DEF BookingStatuses

\* A resize keeps the ledger balanced, unless the count it was computed from
\* has changed since and the event is marked.
LEMMA LedgerResize ==
    ASSUME IndInv, SeatLedger, NEW r \in Editors, WriteUpdate(r),
           raced' = raced \cup StaleResize(r)
    PROVE  SeatLedger'
<1>1. edits[r] \in UpdateRequest
  BY DEF WriteUpdate, IndInv, TypeOK, EditTypeOK, DeleteRequest, EditDone
<1>2. PICK e0 \in Events : edits[r].event = e0
  BY <1>1 DEF UpdateRequest
<1>3. \A e \in Events : SeatsTaken(e)' = SeatsTaken(e)
  BY DEF WriteUpdate, SeatsTaken, SeatsOf
<1>4. CASE ~EventExists(e0)
  <2>1. UNCHANGED <<events, bookings>>
    BY <1>2, <1>4 DEF WriteUpdate
  <2> QED
    BY <2>1, LedgerFrame
<1>5. CASE EventExists(e0)
  <2>1. events[e0] \in EventDoc
    BY <1>5, EventFields DEF IndInv
  <2>2. /\ events'[e0] = Updated(events[e0], edits[r])
        /\ \A e \in Events : e # e0 => events'[e] = events[e]
    BY <1>2, <1>5 DEF WriteUpdate, IndInv, TypeOK, ServiceTypeOK, StoreTypeOK
  <2> SUFFICES ASSUME NEW e \in Events, e \notin raced', EventExists(e)'
               PROVE  events'[e].available + SeatsTaken(e)' = events'[e].total
    BY DEF SeatLedger
  <2>3. CASE e # e0
    BY <1>3, <2>2, <2>3 DEF SeatLedger, EventExists
  <2>4. CASE e = e0
    <3>1. events[e0].available + SeatsTaken(e0) = events[e0].total
      BY <1>5, <2>4 DEF SeatLedger
    <3>2. CASE edits[r].total = NotGiven
      BY <1>3, <2>2, <2>4, <3>1, <3>2 DEF Updated
    <3>3. CASE edits[r].total # NotGiven
      <4>1. edits[r].booked = events[e0].total - events[e0].available
        BY <1>2, <1>5, <2>4, <3>3 DEF StaleResize
      <4>2. edits[r].available + edits[r].booked = edits[r].total
        BY <1>1, <3>3 DEF IndInv, EditsAddUp, UpdateRequest
      <4>3. /\ events'[e0].available = edits[r].available
            /\ events'[e0].total = edits[r].total
        BY <2>2, <3>3 DEF Updated
      <4>4. /\ SeatsTaken(e0) \in Nat
            /\ events[e0].total \in Nat
            /\ events[e0].available \in Nat
            /\ edits[r].available \in Nat
        BY <1>1, <2>1, SeatsFinite DEF EventDoc, UpdateRequest
      <4>5. edits[r].booked = SeatsTaken(e0)
        BY <3>1, <4>1, <4>4
      <4> QED
        BY <1>3, <2>4, <4>2, <4>3, <4>5
    <3> QED
      BY <3>2, <3>3
  <2> QED
    BY <2>3, <2>4
<1> QED
  BY <1>4, <1>5

\* A deleted event has no ledger.
LEMMA LedgerDelete ==
    ASSUME IndInv, SeatLedger, NEW r \in Editors, WriteDelete(r), UNCHANGED raced
    PROVE  SeatLedger'
<1>1. \A e \in Events : SeatsTaken(e)' = SeatsTaken(e)
  BY DEF WriteDelete, SeatsTaken, SeatsOf
<1>2. \A e \in Events : EventExists(e)' => events'[e] = events[e]
  BY DEF WriteDelete, EventExists, EventStatuses, Deleted, IndInv, TypeOK,
         ServiceTypeOK, StoreTypeOK
<1> QED
  BY <1>1, <1>2 DEF SeatLedger, EventExists

\* A new event starts with a balanced ledger.
LEMMA LedgerOpens ==
    ASSUME IndInv, SeatLedger, Publishing
    PROVE  SeatLedger'
<1>1. PICK e0 \in Events, t \in Totals : CreateEvent(e0, t)
  BY DEF Publishing
<1>2. \A e \in Events : SeatsTaken(e)' = SeatsTaken(e)
  BY <1>1 DEF CreateEvent, SeatsTaken, SeatsOf
<1>3. SeatsTaken(e0) = 0
  BY <1>1, NewEventIsEmpty DEF CreateEvent
<1>4. /\ events'[e0] = InsertedEvent(t)
      /\ \A e \in Events : e # e0 => events'[e] = events[e]
      /\ t \in Nat
      /\ raced' = raced
  BY <1>1, StoreAssumption
     DEF CreateEvent, Publishing, IndInv, TypeOK, ServiceTypeOK, StoreTypeOK
<1> QED
  BY <1>2, <1>3, <1>4 DEF SeatLedger, EventExists, InsertedEvent

\* Every step keeps the ledger balanced.
LEMMA NextLedger == IndInv /\ SeatLedger /\ [Next]_vars => SeatLedger'
<1> SUFFICES ASSUME IndInv, SeatLedger, [Next]_vars PROVE SeatLedger'
  OBVIOUS
<1>1. ASSUME NEW r \in Bookers, Creating(r) PROVE SeatLedger'
  <2>1. CASE CommitCreate(r) /\ UNCHANGED raced
    BY <2>1, LedgerSale
  <2>2. CASE UNCHANGED <<events, bookings, raced>>
    BY <2>2, LedgerFrame
  <2> QED
    BY <1>1, <2>1, <2>2
       DEF Creating, CreateRuns, FindEvent, CheckDuplicate, DecrementSeats,
           InsertBooking, FailCreate, ReapCreate
<1>2. ASSUME NEW r \in Cancellers, Cancelling(r) PROVE SeatLedger'
  <2>1. CASE CommitCancel(r) /\ raced' = raced \cup SecondRestore(r)
    BY <2>1, LedgerRelease
  <2>2. CASE UNCHANGED <<events, bookings, raced>>
    BY <2>2, LedgerFrame
  <2> QED
    BY <1>2, <2>1, <2>2
       DEF Cancelling, CancelRuns, FindBooking, IncrementSeats, SaveBooking,
           FailCancel, ReapCancel
<1>3. ASSUME NEW r \in Editors, Editing(r) PROVE SeatLedger'
  <2>1. CASE WriteUpdate(r) /\ raced' = raced \cup StaleResize(r)
    BY <2>1, LedgerResize
  <2>2. CASE WriteDelete(r) /\ UNCHANGED raced
    BY <2>2, LedgerDelete
  <2>3. CASE UNCHANGED <<events, bookings, raced>>
    BY <2>3, LedgerFrame
  <2> QED
    BY <1>3, <2>1, <2>2, <2>3
       DEF Editing, FindForUpdate, FindForDelete, FailEdit, storeVars
<1>4. CASE Publishing
  BY <1>4, LedgerOpens
<1>5. CASE Crash \/ UNCHANGED vars
  BY <1>5, LedgerFrame DEF Crash, CrashRequests, historyVars, vars
<1> QED
  BY <1>1, <1>2, <1>3, <1>4, <1>5 DEF Next

\* booking.service.js and event.service.js: until a stale resize or a second
\* restore hits an event, the seats left and the seats of its confirmed
\* bookings add up to its total, whatever fails, crashes or is reaped.
THEOREM LedgerBalances == Spec => []SeatLedger
<1>1. Init => SeatLedger
  BY DEF Init, ServiceInit, StoreInit, SeatLedger, EventExists, EventStatuses, Unissued
<1> QED
  BY Invariance, NextLedger, <1>1, PTL DEF Spec

-----------------------------------------------------------------------------
(* Duplicate bookings. *)

\* The strengthening of OneBookingUnlessOverlap: where no checks overlapped, one
\* request at a time is past the check, and it has no booking to compete with.
OneInWindow ==
    \A u \in Users, e \in Events : <<u, e>> \notin overlapped =>
        /\ \A b, c \in ActiveBookings(u, e) : b = c
        /\ \A r, x \in Bookers :
              InWindow(creates[r], u, e) /\ InWindow(creates[x], u, e) => r = x
        /\ \A r \in Bookers : InWindow(creates[r], u, e) => ActiveBookings(u, e) = {}

\* Steps that add no booking and open no window keep it.
LEMMA WindowFrame ==
    ASSUME OneInWindow,
           overlapped \subseteq overlapped',
           \A u \in Users, e \in Events :
              /\ ActiveBookings(u, e)' \subseteq ActiveBookings(u, e)
              /\ \A x \in Bookers :
                    InWindow(creates[x], u, e)' => InWindow(creates[x], u, e)
    PROVE  OneInWindow'
BY DEF OneInWindow

\* Passing the check opens a window only where there is none and no booking.
LEMMA WindowOpens ==
    ASSUME IndInv, OneInWindow, NEW r \in Bookers, CheckDuplicate(r),
           overlapped' = overlapped \cup Overlap(r)
    PROVE  OneInWindow'
<1>1. creates[r] \in CreateRequest /\ creates[r].pc = "dup"
  BY CreateFields DEF CheckDuplicate, Free, IndInv
<1>2. PICK u0 \in Users, e0 \in Events : creates[r].user = u0 /\ creates[r].event = e0
  BY <1>1 DEF CreateRequest
<1>3. \A u \in Users, e \in Events : ActiveBookings(u, e)' = ActiveBookings(u, e)
  BY DEF CheckDuplicate, ActiveBookings
<1>4. CASE AnswerCreate(r, 409)
  <2>1. \A x \in Bookers : creates'[x] = IF x = r THEN Answered(409) ELSE creates[x]
    BY <1>4 DEF AnswerCreate, IndInv, TypeOK, ServiceTypeOK
  <2>2. \A u \in Users, e \in Events, x \in Bookers :
           InWindow(creates[x], u, e)' => InWindow(creates[x], u, e)
    BY <2>1 DEF InWindow, Answered
  <2> QED
    BY <1>3, <2>2, WindowFrame
<1>5. CASE ActiveBookings(creates[r].user, creates[r].event) = {} /\ AwaitCreate(r, "dec")
  <2>1. /\ \A x \in Bookers : x # r => creates'[x] = creates[x]
        /\ creates'[r].pc = "dec"
        /\ creates'[r].user = u0
        /\ creates'[r].event = e0
    BY <1>1, <1>2, <1>5 DEF AwaitCreate, CreateRequest, IndInv, TypeOK, ServiceTypeOK
  <2>2. \A x \in Bookers, u \in Users, e \in Events :
           InWindow(creates[x], u, e)' <=>
              IF x = r THEN u = u0 /\ e = e0 ELSE InWindow(creates[x], u, e)
    BY <2>1 DEF InWindow
  <2>3. <<u0, e0>> \notin overlapped' =>
           \A x \in Bookers \ {r} : ~InWindow(creates[x], u0, e0)
    BY <1>2, <2>1 DEF Overlap
  <2> SUFFICES ASSUME NEW u \in Users, NEW e \in Events, <<u, e>> \notin overlapped'
               PROVE  /\ \A b, c \in ActiveBookings(u, e) : b = c
                      /\ \A y, x \in Bookers :
                            InWindow(creates[y], u, e)' /\ InWindow(creates[x], u, e)' => y = x
                      /\ \A y \in Bookers :
                            InWindow(creates[y], u, e)' => ActiveBookings(u, e) = {}
    BY <1>3 DEF OneInWindow
  <2>4. <<u, e>> \notin overlapped
    OBVIOUS
  <2>5. CASE u = u0 /\ e = e0
    BY <1>2, <1>5, <2>2, <2>3, <2>5
  <2>6. CASE ~(u = u0 /\ e = e0)
    BY <2>2, <2>4, <2>6 DEF OneInWindow
  <2> QED
    BY <2>5, <2>6
<1> QED
  BY <1>4, <1>5 DEF CheckDuplicate

\* The commit turns the only window of its user and event into the only booking.
LEMMA WindowCloses ==
    ASSUME IndInv, OneInWindow, NEW r \in Bookers, CommitCreate(r), UNCHANGED overlapped
    PROVE  OneInWindow'
<1>1. creates[r] \in CreateRequest /\ creates[r].pc = "commit"
  BY CreateFields DEF CommitCreate, Free, IndInv
<1>2. PICK u0 \in Users, e0 \in Events, n \in 1..MaxSeats :
         creates[r].user = u0 /\ creates[r].event = e0 /\ creates[r].seats = n
  BY <1>1 DEF CreateRequest
<1>3. PICK b \in Bookings :
         /\ ~BookingExists(b)
         /\ bookings' = [bookings EXCEPT ![b] = InsertedBooking(u0, e0, n)]
  BY <1>2 DEF CommitCreate, FreeBookings
<1>4. PICK code \in {201, 500} : creates' = [creates EXCEPT ![r] = Answered(code)]
  BY DEF CommitCreate, AnswerCreate
<1>5. \A x \in Bookers, u \in Users, e \in Events :
         InWindow(creates[x], u, e)' <=> x # r /\ InWindow(creates[x], u, e)
  BY <1>4 DEF InWindow, Answered, IndInv, TypeOK, ServiceTypeOK
<1>6. InWindow(creates[r], u0, e0)
  BY <1>1, <1>2 DEF InWindow
<1>7. \A u \in Users, e \in Events :
         ActiveBookings(u, e)' =
            IF u = u0 /\ e = e0 THEN ActiveBookings(u, e) \cup {b} ELSE ActiveBookings(u, e)
  BY <1>3 DEF ActiveBookings, InsertedBooking, BookingExists, BookingStatuses,
              IndInv, TypeOK, ServiceTypeOK, StoreTypeOK
<1> SUFFICES ASSUME NEW u \in Users, NEW e \in Events, <<u, e>> \notin overlapped
             PROVE  /\ \A c, d \in ActiveBookings(u, e)' : c = d
                    /\ \A y, x \in Bookers :
                          InWindow(creates[y], u, e)' /\ InWindow(creates[x], u, e)' => y = x
                    /\ \A y \in Bookers :
                          InWindow(creates[y], u, e)' => ActiveBookings(u, e)' = {}
  BY DEF OneInWindow
<1>8. CASE u = u0 /\ e = e0
  <2>1. ActiveBookings(u, e)' = {b}
    BY <1>6, <1>7, <1>8 DEF OneInWindow
  <2>2. \A x \in Bookers : ~InWindow(creates[x], u, e)'
    BY <1>5, <1>6, <1>8 DEF OneInWindow
  <2> QED
    BY <2>1, <2>2
<1>9. CASE ~(u = u0 /\ e = e0)
  BY <1>5, <1>7, <1>9 DEF OneInWindow
<1> QED
  BY <1>8, <1>9

\* The other steps of a create request open no window.
LEMMA WindowMoves ==
    ASSUME IndInv, OneInWindow, NEW r \in Bookers,
           \/ \E u \in Users, e \in Events, n \in 1..MaxSeats : FindEvent(r, u, e, n)
           \/ DecrementSeats(r)
           \/ InsertBooking(r)
           \/ FailCreate(r)
           \/ ReapCreate(r),
           UNCHANGED overlapped
    PROVE  OneInWindow'
<1>1. /\ bookings' = bookings
      /\ \E q : creates' = [creates EXCEPT ![r] = q]
  BY DEF FindEvent, DecrementSeats, InsertBooking, FailCreate, ReapCreate,
         AnswerCreate, AwaitCreate
<1>2. \A x \in Bookers : x # r => creates'[x] = creates[x]
  BY <1>1 DEF IndInv, TypeOK, ServiceTypeOK
<1>3. \A u \in Users, e \in Events :
         InWindow(creates[r], u, e)' => InWindow(creates[r], u, e)
  <2>1. CASE \E code \in Codes : AnswerCreate(r, code)
    <3>1. creates'[r].pc = "done"
      BY <2>1 DEF AnswerCreate, Answered, IndInv, TypeOK, ServiceTypeOK
    <3> QED
      BY <3>1 DEF InWindow
  <2>2. CASE \E u \in Users, e \in Events, n \in 1..MaxSeats :
                creates' = [creates EXCEPT ![r] =
                    [pc |-> "dup", user |-> u, event |-> e, seats |-> n]]
    <3>1. creates'[r].pc = "dup"
      BY <2>2 DEF IndInv, TypeOK, ServiceTypeOK
    <3> QED
      BY <3>1 DEF InWindow
  <2>3. CASE \E pc \in {"insert", "commit", "orphan"} :
                creates[r].pc \in {"dec", "insert", "commit"} /\ AwaitCreate(r, pc)
    <3>1. creates[r] \in CreateRequest
      BY <2>3, CreateFields DEF Free, IndInv
    <3>2. /\ creates'[r].user = creates[r].user
          /\ creates'[r].event = creates[r].event
      BY <2>3, <3>1 DEF AwaitCreate, CreateRequest, IndInv, TypeOK, ServiceTypeOK
    <3> QED
      BY <2>3, <3>2 DEF InWindow
  <2> QED
    BY <2>1, <2>2, <2>3
       DEF FindEvent, DecrementSeats, InsertBooking, FailCreate, ReapCreate, Codes
<1>4. \A u \in Users, e \in Events : ActiveBookings(u, e)' = ActiveBookings(u, e)
  BY <1>1 DEF ActiveBookings
<1>5. \A u \in Users, e \in Events, x \in Bookers :
         InWindow(creates[x], u, e)' => InWindow(creates[x], u, e)
  BY <1>2, <1>3 DEF InWindow
<1> QED
  BY <1>4, <1>5, WindowFrame

\* Every step keeps one request at a time in the window.
LEMMA NextWindow == IndInv /\ OneInWindow /\ [Next]_vars => OneInWindow'
<1> SUFFICES ASSUME IndInv, OneInWindow, [Next]_vars PROVE OneInWindow'
  OBVIOUS
<1>1. ASSUME NEW r \in Bookers, Creating(r) PROVE OneInWindow'
  BY <1>1, WindowOpens, WindowCloses, WindowMoves DEF Creating, CreateRuns
<1>2. ASSUME NEW r \in Cancellers, Cancelling(r) PROVE OneInWindow'
  <2>1. creates' = creates /\ overlapped' = overlapped
    BY <1>2 DEF Cancelling, CancelRuns, FindBooking, IncrementSeats, SaveBooking,
                CommitCancel, FailCancel, ReapCancel
  <2>2. bookings' = bookings \/ CommitCancel(r)
    BY <1>2 DEF Cancelling, CancelRuns, FindBooking, IncrementSeats, SaveBooking,
                FailCancel, ReapCancel
  <2>3. \A u \in Users, e \in Events : ActiveBookings(u, e)' \subseteq ActiveBookings(u, e)
    <3>1. CASE bookings' = bookings
      BY <3>1 DEF ActiveBookings
    <3>2. CASE CommitCancel(r)
      <4>1. cancels[r] \in CancelRequest
        BY <3>2, CancelFields DEF CommitCancel, Free, IndInv
      <4>2. PICK b \in Bookings : cancels[r].booking = b
        BY <4>1 DEF CancelRequest
      <4>3. bookings[b] \in BookingDoc
        BY <3>2, <4>2, BookingFields DEF CommitCancel, Free, IndInv, EventsKnown
      <4>4. /\ bookings'[b].status = "cancelled"
            /\ \A c \in Bookings : c # b => bookings'[c] = bookings[c]
        BY <3>2, <4>2, <4>3 DEF CommitCancel, BookingDoc, IndInv, TypeOK,
                                ServiceTypeOK, StoreTypeOK
      <4> QED
        BY <4>4 DEF ActiveBookings
    <3> QED
      BY <2>2, <3>1, <3>2
  <2>4. \A u \in Users, e \in Events, x \in Bookers :
           InWindow(creates[x], u, e)' => InWindow(creates[x], u, e)
    BY <2>1 DEF InWindow
  <2> QED
    BY <2>1, <2>3, <2>4, WindowFrame
<1>3. CASE \/ \E r \in Editors : Editing(r)
           \/ Publishing
           \/ UNCHANGED vars
  <2>1. UNCHANGED <<bookings, creates, overlapped>>
    BY <1>3 DEF Editing, Publishing, vars, storeVars, FindForUpdate, FindForDelete,
                FailEdit, WriteUpdate, WriteDelete, CreateEvent
  <2>2. \A u \in Users, e \in Events :
           /\ ActiveBookings(u, e)' = ActiveBookings(u, e)
           /\ \A x \in Bookers :
                 InWindow(creates[x], u, e)' => InWindow(creates[x], u, e)
    BY <2>1 DEF ActiveBookings, InWindow
  <2> QED
    BY <2>1, <2>2, WindowFrame
<1>4. CASE Crash
  <2>1. /\ \A x \in Bookers : creates'[x] = AfterCrash(creates[x])
        /\ UNCHANGED <<bookings, overlapped>>
    BY <1>4 DEF Crash, CrashRequests, historyVars
  <2>2. \A u \in Users, e \in Events, x \in Bookers : ~InWindow(creates[x], u, e)'
    BY <2>1, CreateAfterCrash DEF InWindow, IndInv
  <2>3. \A u \in Users, e \in Events : ActiveBookings(u, e)' = ActiveBookings(u, e)
    BY <2>1 DEF ActiveBookings
  <2> QED
    BY <2>1, <2>2, <2>3, WindowFrame
<1> QED
  BY <1>1, <1>2, <1>3, <1>4 DEF Next

\* booking.service.js:24-27: a user holds two confirmed bookings for an event
\* only if two of their requests passed the duplicate check before either
\* committed; a retry after a lost answer or a crash never does it.
THEOREM DuplicatesNeedOverlap == Spec => []OneBookingUnlessOverlap
<1>1. Init => OneInWindow
  BY DEF Init, ServiceInit, StoreInit, OneInWindow, ActiveBookings, InWindow,
         Idle, Unissued
<1>2. OneInWindow => OneBookingUnlessOverlap
  BY DEF OneInWindow, OneBookingUnlessOverlap
<1> QED
  BY Invariance, NextWindow, <1>1, <1>2, PTL DEF Spec

-----------------------------------------------------------------------------
(* The box office. *)

\* The seats sold, as SeatBook sees them.
Sold == {<<bookings[s[1]].event, s[1], s[2]>> : s \in UNION {SeatsOf(e) : e \in Events}}

\* The totals, as SeatBook sees them.
Offered == [e \in Events |-> IF EventExists(e) THEN events[e].total ELSE 0]

\* A seat is sold if it is one of a confirmed booking.
IsSold(x) ==
    \E b \in Bookings, k \in 1..MaxSeats :
        /\ x = <<bookings[b].event, b, k>>
        /\ bookings[b].status = "confirmed"
        /\ k <= bookings[b].seats

\* Sold is the set of the seats that IsSold speaks of.
LEMMA SoldSays == TypeOK => \A x : x \in Sold <=> IsSold(x)
<1> SUFFICES ASSUME TypeOK, NEW x PROVE x \in Sold <=> IsSold(x)
  OBVIOUS
<1>1. ASSUME NEW b \in Bookings, bookings[b].status = "confirmed"
      PROVE  bookings[b].event \in Events
  BY <1>1 DEF TypeOK, ServiceTypeOK, StoreTypeOK, BookingDoc, Unissued
<1>2. ASSUME x \in Sold
      PROVE  IsSold(x)
  BY <1>2 DEF Sold, SeatsOf, IsSold
<1>3. ASSUME NEW b \in Bookings, NEW k \in 1..MaxSeats,
             x = <<bookings[b].event, b, k>>,
             bookings[b].status = "confirmed", k <= bookings[b].seats
      PROVE  x \in Sold
  <2>1. <<b, k>> \in SeatsOf(bookings[b].event)
    BY <1>3 DEF SeatsOf
  <2>2. <<b, k>>[1] = b /\ <<b, k>>[2] = k
    OBVIOUS
  <2> QED
    BY <1>1, <1>3, <2>1, <2>2 DEF Sold
<1> QED
  BY <1>2, <1>3 DEF IsSold

\* The same after a step.
LEMMA SoldSaysThen == TypeOK' => \A x : x \in Sold' <=> IsSold(x)'
<1>1. TypeOK' => (\A x : x \in Sold <=> IsSold(x))'
  BY SoldSays, PTL
<1> QED
  BY <1>1

\* They are as many as the ledger counts.
LEMMA SoldCounts ==
    ASSUME TypeOK, NEW e \in Events
    PROVE  Cardinality(BoxOffice!SoldFor(e)) = SeatsTaken(e)
<1> DEFINE f == [s \in SeatsOf(e) |-> <<e, s[1], s[2]>>]
           T == {s \in Sold : s[1] = e}
<1>1. BoxOffice!SoldFor(e) = T
  BY DEF BoxOffice!SoldFor, Sold
<1>2. \A s \in SeatsOf(e) : f[s] \in T
  <2> SUFFICES ASSUME NEW b \in Bookings, NEW k \in 1..MaxSeats, <<b, k>> \in SeatsOf(e)
               PROVE  <<e, b, k>> \in T
    BY DEF SeatsOf
  <2>1. bookings[b].event = e /\ bookings[b].status = "confirmed" /\ k <= bookings[b].seats
    BY DEF SeatsOf
  <2> QED
    BY <2>1, SoldSays DEF IsSold
<1>3. ASSUME NEW x \in T
      PROVE  \E s \in SeatsOf(e) : f[s] = x
  <2>1. PICK b \in Bookings, k \in 1..MaxSeats :
           /\ x = <<bookings[b].event, b, k>>
           /\ bookings[b].status = "confirmed"
           /\ k <= bookings[b].seats
    BY SoldSays DEF IsSold
  <2>2. bookings[b].event = e
    BY <2>1
  <2>3. <<b, k>> \in SeatsOf(e)
    BY <2>1, <2>2 DEF SeatsOf
  <2>4. f[<<b, k>>] = x
    BY <2>1, <2>2, <2>3
  <2> QED
    BY <2>3, <2>4
<1>4. \A s, z \in SeatsOf(e) : f[s] = f[z] => s = z
  BY DEF SeatsOf
<1>5. f \in [SeatsOf(e) -> T]
  BY <1>2
<1>6. f \in Bijection(SeatsOf(e), T)
  <2>1. f \in Injection(SeatsOf(e), T)
    BY <1>4, <1>5, Fun_IsInj
  <2>2. f \in Surjection(SeatsOf(e), T)
    BY <1>3, <1>5, Fun_IsSurj
  <2> QED
    BY <2>1, <2>2, Fun_IsBij
<1>7. ExistsBijection(SeatsOf(e), T)
  BY <1>6 DEF ExistsBijection
<1>8. Cardinality(T) = Cardinality(SeatsOf(e))
  BY <1>7, SeatsFinite, FS_Bijection
<1> QED
  BY <1>1, <1>8 DEF SeatsTaken

\* The box office counts as the ledger does.
LEMMA SameCount == ASSUME NEW S PROVE BoxOffice!Cardinality(S) = Cardinality(S)
BY DEF BoxOffice!Cardinality, Cardinality

\* As long as an event has not been given up, what it has sold is what its
\* counter says.
LEMMA SoldByCounter ==
    ASSUME IndInv, SeatLedger, NEW e \in Events, EventExists(e)
    PROVE  /\ Offered[e] = events[e].total
           /\ events[e].total \in Nat \ {0} /\ events[e].available \in Nat
           /\ e \notin raced =>
                 Cardinality(BoxOffice!SoldFor(e)) = events[e].total - events[e].available
<1>1. events[e] \in EventDoc
  BY EventFields DEF IndInv
<1>2. SeatsTaken(e) \in Nat /\ Cardinality(BoxOffice!SoldFor(e)) = SeatsTaken(e)
  BY SeatsFinite, SoldCounts DEF IndInv
<1> QED
  BY <1>1, <1>2 DEF SeatLedger, EventDoc, Offered

\* Nothing the box office sees has changed.
LEMMA BoxStutters ==
    ASSUME bookings' = bookings, raced' = raced,
           \A e \in Events : /\ EventExists(e)' <=> EventExists(e)
                             /\ EventExists(e) => events'[e].total = events[e].total
    PROVE  UNCHANGED BoxOffice!vars
<1>1. Sold' = Sold
  BY DEF Sold, SeatsOf
<1>2. Offered' = Offered
  BY DEF Offered
<1> QED
  BY <1>1, <1>2 DEF BoxOffice!vars, Sold, Offered

\* The commit of a booking sells its seats.
LEMMA SaleMaps ==
    ASSUME IndInv, SeatLedger, Next, NEW r \in Bookers, CommitCreate(r), UNCHANGED raced
    PROVE  BoxOffice!Next
<1>1. creates[r] \in CreateRequest /\ creates[r].pc = "commit"
  BY CreateFields DEF CommitCreate, Free, IndInv
<1>2. PICK u \in Users, e \in Events, n \in 1..MaxSeats :
         creates[r].user = u /\ creates[r].event = e /\ creates[r].seats = n
  BY <1>1 DEF CreateRequest
<1>3. CreateHolds(r, e)
  BY <1>1, <1>2 DEF CreateHolds
<1>4. EventExists(e) /\ events[e].available >= n /\ events[e] \in EventDoc
  BY <1>1, <1>2, <1>3, EventFields DEF IndInv, HeldEventsExist
<1>5. PICK b \in Bookings :
         /\ ~BookingExists(b)
         /\ bookings' = [bookings EXCEPT ![b] = InsertedBooking(u, e, n)]
  BY <1>2 DEF CommitCreate, FreeBookings
<1>6. bookings \in [Bookings -> BookingDoc \cup {Unissued}] /\ n \in Nat /\ MaxSeats \in Nat
  BY StoreAssumption DEF IndInv, TypeOK, ServiceTypeOK, StoreTypeOK
<1>7. /\ bookings'[b] = [user |-> u, event |-> e, seats |-> n, status |-> "confirmed"]
      /\ \A c \in Bookings : c # b => bookings'[c] = bookings[c]
      /\ bookings[b].status # "confirmed"
  BY <1>5, <1>6 DEF InsertedBooking, BookingExists, BookingStatuses
<1>8. Offered' = Offered
  <2>1. events' = AddSeats(e, -n)
    BY <1>2 DEF CommitCreate
  <2>2. -n \in Int /\ events[e].available + -n \in Nat
    BY <1>4, <1>6 DEF EventDoc
  <2>3. /\ events'[e].total = events[e].total /\ events'[e].status = events[e].status
        /\ \A d \in Events : d # e => events'[d] = events[d]
    BY <1>4, <2>1, <2>2, SeatsMoved DEF IndInv
  <2> QED
    BY <2>3 DEF Offered, EventExists
<1>9. Sold' = Sold \cup ({e} \X {b} \X (1..n))
  <2>1. TypeOK'
    BY NextIndInv DEF IndInv
  <2>2. ASSUME NEW x
        PROVE  IsSold(x)' <=> IsSold(x) \/ x \in {e} \X {b} \X (1..n)
    BY <1>6, <1>7 DEF IsSold
  <2> QED
    BY <2>1, <2>2, SoldSays, SoldSaysThen DEF IndInv
<1>10. \A s \in Sold : s[2] # b
  BY <1>7, SoldSays DEF IndInv, IsSold
<1>11. BoxOffice!Fits(e, n, Offered[e])
  <2>1. CASE e \in raced
    BY <2>1 DEF BoxOffice!Fits
  <2>2. CASE e \notin raced
    <3> DEFINE c == Cardinality(BoxOffice!SoldFor(e))
    <3>1. /\ Offered[e] = events[e].total
          /\ events[e].total \in Nat /\ events[e].available \in Nat
          /\ c = events[e].total - events[e].available
      BY <1>4, <2>2, SoldByCounter
    <3>2. c + n <= Offered[e]
      BY <1>4, <1>6, <3>1
    <3> QED
      BY <3>2, SameCount DEF BoxOffice!Fits
  <2> QED
    BY <2>1, <2>2
<1>12. BoxOffice!Sell(e, b, n)
  BY <1>4, <1>8, <1>9, <1>10, <1>11, SoldByCounter DEF BoxOffice!Sell, Sold, Offered
<1> QED
  BY <1>12 DEF BoxOffice!Next

\* The commit of a cancellation releases them, or gives the event up.
LEMMA ReleaseMaps ==
    ASSUME IndInv, Next, NEW r \in Cancellers, CommitCancel(r),
           raced' = raced \cup SecondRestore(r)
    PROVE  BoxOffice!Next
<1>1. cancels[r] \in CancelRequest /\ cancels[r].pc = "commit" /\ ~Free(cancels[r])
  BY CancelFields DEF CommitCancel, Free, IndInv
<1>2. PICK b \in Bookings :
         cancels[r].booking = b /\ BookingExists(b) /\ bookings[b] \in BookingDoc
  BY <1>1, BookingFields DEF CancelRequest, IndInv, EventsKnown
<1>3. PICK e \in Events, n \in 1..MaxSeats : bookings[b].event = e /\ bookings[b].seats = n
  BY <1>2 DEF BookingDoc
<1>4. Offered' = Offered
  <2>1. CASE ~cancels[r].held
    BY <2>1 DEF CommitCancel, Offered, EventExists
  <2>2. CASE cancels[r].held
    <3>1. EventExists(e) /\ events[e] \in EventDoc
      <4>1. CancelHolds(r, e)
        BY <1>1, <1>2, <1>3, <2>2 DEF CancelHolds
      <4> QED
        BY <4>1, EventFields DEF IndInv, HeldEventsExist
    <3>2. events' = AddSeats(e, n)
      BY <1>2, <1>3, <2>2 DEF CommitCancel
    <3>3. n \in Int /\ events[e].available + n \in Nat
      BY <3>1, StoreAssumption DEF EventDoc
    <3>4. /\ events'[e].total = events[e].total /\ events'[e].status = events[e].status
          /\ \A d \in Events : d # e => events'[d] = events[d]
      BY <3>1, <3>2, <3>3, SeatsMoved DEF IndInv
    <3> QED
      BY <3>4 DEF Offered, EventExists
  <2> QED
    BY <2>1, <2>2
<1>5. Sold' = {s \in Sold : s[2] # b}
  <2>1. /\ bookings'[b].status = "cancelled"
        /\ \A c \in Bookings : c # b => bookings'[c] = bookings[c]
    BY <1>2 DEF CommitCancel, IndInv, TypeOK, ServiceTypeOK, StoreTypeOK, BookingDoc
  <2>2. TypeOK'
    BY NextIndInv DEF IndInv
  <2>3. ASSUME NEW x
        PROVE  IsSold(x)' <=> IsSold(x) /\ x[2] # b
    BY <2>1 DEF IsSold
  <2> QED
    BY <2>2, <2>3, SoldSays, SoldSaysThen DEF IndInv
<1>6. CASE SecondRestore(r) = {}
  <2>1. BoxOffice!Release(b)
    BY <1>4, <1>5, <1>6 DEF BoxOffice!Release, Sold, Offered
  <2> QED
    BY <2>1 DEF BoxOffice!Next
<1>7. CASE SecondRestore(r) # {}
  <2>1. SecondRestore(r) = {e} /\ bookings[b].status = "cancelled"
    BY <1>2, <1>3, <1>7 DEF SecondRestore
  <2>2. Sold' = Sold
    BY <1>5, <2>1, SoldSays DEF IsSold, IndInv
  <2>3. Offered' = [Offered EXCEPT ![e] = Offered[e]]
    BY <1>4 DEF Offered
  <2>4. BoxOffice!GiveUp(e)
    BY <2>1, <2>2, <2>3 DEF BoxOffice!GiveUp, Sold, Offered
  <2> QED
    BY <2>4 DEF BoxOffice!Next
<1> QED
  BY <1>6, <1>7

\* The bookings are as they were.
LEMMA SameBookings == bookings' = bookings => Sold' = Sold
BY DEF Sold, SeatsOf

\* An update resizes the event, or gives it up.
LEMMA ResizeMaps ==
    ASSUME IndInv, SeatLedger, NEW r \in Editors, WriteUpdate(r),
           raced' = raced \cup StaleResize(r)
    PROVE  BoxOffice!Next \/ UNCHANGED BoxOffice!vars
<1>1. edits[r] \in UpdateRequest
  BY DEF WriteUpdate, IndInv, TypeOK, EditTypeOK, DeleteRequest, EditDone
<1>2. PICK e \in Events : edits[r].event = e
  BY <1>1 DEF UpdateRequest
<1>3. bookings' = bookings /\ Sold' = Sold
  BY SameBookings DEF WriteUpdate
<1>4. CASE ~EventExists(e)
  <2>1. events' = events /\ raced' = raced
    BY <1>2, <1>4 DEF WriteUpdate, StaleResize
  <2> QED
    BY <1>3, <2>1, BoxStutters DEF EventExists
<1>5. CASE EventExists(e)
  <2>1. events[e] \in EventDoc
    BY <1>5, EventFields DEF IndInv
  <2>2. /\ events'[e] = Updated(events[e], edits[r])
        /\ \A d \in Events : d # e => events'[d] = events[d]
    BY <1>2, <1>5 DEF WriteUpdate, IndInv, TypeOK, ServiceTypeOK, StoreTypeOK
  <2>3. EventExists(e)'
    BY <1>1, <2>1, <2>2 DEF Updated, UpdateRequest, EventDoc, EventExists
  <2>4. CASE edits[r].total = NotGiven
    <3>1. events'[e].total = events[e].total
      BY <2>2, <2>4 DEF Updated
    <3>2. raced' = raced
      BY <2>4 DEF StaleResize
    <3> QED
      BY <1>3, <1>5, <2>2, <2>3, <3>1, <3>2, BoxStutters DEF EventExists
  <2>5. CASE edits[r].total # NotGiven
    <3>1. PICK t \in Totals : edits[r].total = t
      BY <1>1, <2>5 DEF UpdateRequest
    <3>2. Offered' = [Offered EXCEPT ![e] = t]
      <4>1. events'[e].total = t
        BY <2>2, <2>5, <3>1 DEF Updated
      <4>2. \A d \in Events : d # e => (EventExists(d)' <=> EventExists(d)) /\ events'[d] = events[d]
        BY <2>2 DEF EventExists
      <4> QED
        BY <2>3, <4>1, <4>2 DEF Offered
    <3>3. CASE e \in raced'
      <4>0. raced' = raced \cup {e}
        BY <1>2, <3>3 DEF StaleResize
      <4>1. BoxOffice!GiveUp(e)
        BY <1>3, <3>2, <4>0 DEF BoxOffice!GiveUp, Sold, Offered
      <4> QED
        BY <4>1 DEF BoxOffice!Next
    <3>4. CASE e \notin raced'
      <4>1. raced' = raced /\ edits[r].booked = events[e].total - events[e].available
        BY <1>2, <1>5, <2>5, <3>4 DEF StaleResize
      <4>2. edits[r].available + edits[r].booked = t
        BY <2>5, <3>1 DEF IndInv, EditsAddUp, WriteUpdate
      <4>3. edits[r].available \in Nat
        BY <1>1 DEF UpdateRequest
      <4>4. BoxOffice!Fits(e, 0, t)
        <5> DEFINE c == Cardinality(BoxOffice!SoldFor(e))
        <5>1. /\ events[e].total \in Nat /\ events[e].available \in Nat
              /\ c = events[e].total - events[e].available
          BY <1>5, <3>4, <4>1, SoldByCounter
        <5>2. c + 0 <= t
          BY <4>1, <4>2, <4>3, <5>1
        <5> QED
          BY <5>2, SameCount DEF BoxOffice!Fits
      <4>5. Offered[e] # 0
        BY <1>5, SoldByCounter
      <4>6. BoxOffice!Resize(e, t)
        BY <1>3, <3>2, <4>1, <4>4, <4>5 DEF BoxOffice!Resize, Sold, Offered
      <4> QED
        BY <4>6 DEF BoxOffice!Next
    <3> QED
      BY <3>3, <3>4
  <2> QED
    BY <2>4, <2>5
<1> QED
  BY <1>4, <1>5

\* A deletion closes the event.
LEMMA DeleteMaps ==
    ASSUME IndInv, NEW r \in Editors, WriteDelete(r), UNCHANGED raced
    PROVE  BoxOffice!Next \/ UNCHANGED BoxOffice!vars
<1>1. edits[r] \in DeleteRequest
  BY DEF WriteDelete, IndInv, TypeOK, EditTypeOK, UpdateRequest, EditDone
<1>2. PICK e \in Events : edits[r].event = e
  BY <1>1 DEF DeleteRequest
<1>3. bookings' = bookings /\ Sold' = Sold
  BY SameBookings DEF WriteDelete
<1>4. CASE ~EventExists(e)
  <2>1. events' = events
    BY <1>2, <1>4 DEF WriteDelete
  <2> QED
    BY <1>3, <2>1, BoxStutters DEF EventExists
<1>5. CASE EventExists(e)
  <2>1. events' = [events EXCEPT ![e] = Deleted]
    BY <1>2, <1>5 DEF WriteDelete
  <2>2. Offered' = [Offered EXCEPT ![e] = 0]
    BY <2>1 DEF Offered, EventExists, EventStatuses, Deleted, IndInv, TypeOK, ServiceTypeOK, StoreTypeOK
  <2>3. BoxOffice!Close(e)
    BY <1>3, <2>2 DEF BoxOffice!Close, Sold, Offered
  <2> QED
    BY <2>3 DEF BoxOffice!Next
<1> QED
  BY <1>4, <1>5

\* A new event opens with nothing sold.
LEMMA OpenMaps ==
    ASSUME IndInv, Publishing
    PROVE  BoxOffice!Next
<1>1. PICK e \in Events, t \in Totals : CreateEvent(e, t)
  BY DEF Publishing
<1>2. bookings' = bookings /\ Sold' = Sold /\ raced' = raced
  BY <1>1, SameBookings DEF CreateEvent, Publishing
<1>3. Offered' = [Offered EXCEPT ![e] = t]
  BY <1>1 DEF CreateEvent, InsertedEvent, Offered, EventExists, EventStatuses, Unissued,
     IndInv, TypeOK, ServiceTypeOK, StoreTypeOK
<1>4. Offered[e] = 0
  BY <1>1 DEF CreateEvent, Offered, EventExists, EventStatuses, Unissued
<1>5. BoxOffice!SoldFor(e) = {}
  <2>1. \A x \in Sold : x[1] # e
    BY <1>1, SoldSays DEF IndInv, IsSold, EventsKnown, BookingExists, BookingStatuses, CreateEvent
  <2> QED
    BY <2>1 DEF BoxOffice!SoldFor, Sold
<1>6. BoxOffice!Open(e, t)
  BY <1>2, <1>3, <1>4, <1>5 DEF BoxOffice!Open, Sold, Offered
<1> QED
  BY <1>6 DEF BoxOffice!Next

\* Every step of the API is a step of the box office or none.
LEMMA NextSells == IndInv /\ SeatLedger /\ [Next]_vars => [BoxOffice!Next]_BoxOffice!vars
<1> SUFFICES ASSUME IndInv, SeatLedger, [Next]_vars
             PROVE  BoxOffice!Next \/ UNCHANGED BoxOffice!vars
  OBVIOUS
<1>0. ASSUME UNCHANGED <<events, bookings, raced>>
      PROVE  UNCHANGED BoxOffice!vars
  BY <1>0, BoxStutters DEF EventExists
<1>1. ASSUME NEW r \in Bookers, Creating(r), Next
      PROVE  BoxOffice!Next \/ UNCHANGED BoxOffice!vars
  <2>1. CASE CommitCreate(r) /\ UNCHANGED raced
    BY <1>1, <2>1, SaleMaps
  <2>2. CASE UNCHANGED <<events, bookings, raced>>
    BY <1>0, <2>2
  <2> QED
    BY <1>1, <2>1, <2>2
       DEF Creating, CreateRuns, FindEvent, CheckDuplicate, DecrementSeats,
           InsertBooking, FailCreate, ReapCreate
<1>2. ASSUME NEW r \in Cancellers, Cancelling(r), Next
      PROVE  BoxOffice!Next \/ UNCHANGED BoxOffice!vars
  <2>1. CASE CommitCancel(r) /\ raced' = raced \cup SecondRestore(r)
    BY <1>2, <2>1, ReleaseMaps
  <2>2. CASE UNCHANGED <<events, bookings, raced>>
    BY <1>0, <2>2
  <2> QED
    BY <1>2, <2>1, <2>2
       DEF Cancelling, CancelRuns, FindBooking, IncrementSeats, SaveBooking,
           FailCancel, ReapCancel
<1>3. ASSUME NEW r \in Editors, Editing(r)
      PROVE  BoxOffice!Next \/ UNCHANGED BoxOffice!vars
  <2>1. CASE WriteUpdate(r) /\ raced' = raced \cup StaleResize(r)
    BY <2>1, ResizeMaps
  <2>2. CASE WriteDelete(r) /\ UNCHANGED raced
    BY <2>2, DeleteMaps
  <2>3. CASE UNCHANGED <<events, bookings, raced>>
    BY <1>0, <2>3
  <2> QED
    BY <1>3, <2>1, <2>2, <2>3
       DEF Editing, FindForUpdate, FindForDelete, FailEdit, storeVars
<1>4. CASE Publishing
  BY <1>4, OpenMaps
<1>5. CASE Crash \/ UNCHANGED vars
  BY <1>0, <1>5 DEF Crash, CrashRequests, historyVars, vars
<1> QED
  BY <1>1, <1>2, <1>3, <1>4, <1>5 DEF Next

\* Nothing is offered and nothing is sold at first.
LEMMA InitSells == Init => BoxOffice!Init
<1> SUFFICES ASSUME Init PROVE BoxOffice!Init
  OBVIOUS
<1>1. Sold = {}
  BY DEF Init, ServiceInit, StoreInit, Sold, SeatsOf, Unissued
<1>2. Offered = [e \in Events |-> 0]
  BY DEF Init, ServiceInit, StoreInit, Offered, EventExists, EventStatuses, Unissued
<1> QED
  BY <1>1, <1>2 DEF BoxOffice!Init, Sold, Offered, Init

\* booking.service.js and event.service.js implement the box office of SeatBook
\* for every number of requests, events and seats: a counter with a $gte guard,
\* written by transactions that may fail and be reaped, sells whole bookings and
\* no seat twice, except for events a stale resize or a second restore has hit.
THEOREM SeatsSoldOnce == Spec => ImplementsBoxOffice
BY InitSells, NextSells, Invariance, LedgerBalances, PTL
   DEF Spec, ImplementsBoxOffice, BoxOffice!Spec
=============================================================================

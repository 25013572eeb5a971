---------------------------- MODULE BookingService ----------------------------
(***************************************************************************)
(* POST /api/bookings and DELETE /api/bookings/:id: the two handlers that  *)
(* change the collections inside a MongoDB transaction.                    *)
(*                                                                         *)
(* A request is a slot with a program counter naming the database command  *)
(* it awaits; every await is a point where the other requests run.  The    *)
(* arrival of a request and its first read are one step, because nothing   *)
(* happens before that read.  A transaction is open on the server while    *)
(* its request is between the first write and the commit, or "orphan":     *)
(* its client gave up or died and the server has not reaped it yet.        *)
(*                                                                         *)
(* Inside a transaction a write to a document that another open            *)
(* transaction has written, or that was committed after the snapshot was   *)
(* taken, is a WriteConflict: the server aborts and the handler, which has *)
(* no retry, answers 500.                                                  *)
(***************************************************************************)
EXTENDS Store

CONSTANTS
    Bookers,     \* slots for concurrent create requests
    Cancellers   \* slots for concurrent cancel requests

VARIABLES
    creates,   \* slot -> create request
    cancels    \* slot -> cancel request

serviceVars == <<events, bookings, creates, cancels>>

-----------------------------------------------------------------------------
(* Requests. *)

Idle == [pc |-> "idle"]

Codes == {200, 201, 400, 403, 404, 409, 500}

Answered(code) == [pc |-> "done", code |-> code]

Free(q) == q.pc \in {"idle", "done"}

Finished == {Idle} \cup {Answered(code) : code \in Codes}

CreateRequest ==
    [pc: {"dup", "dec", "insert", "commit", "orphan"},
     user: Users, event: Events, seats: 1..MaxSeats]

CancelRequest ==
    [pc: {"inc", "save", "doomed", "commit", "orphan"},
     booking: Bookings,
     held: BOOLEAN]     \* did incrementSeats find the event and write it?

ServiceTypeOK ==
    /\ StoreTypeOK
    /\ creates \in [Bookers -> CreateRequest \cup Finished]
    /\ cancels \in [Cancellers -> CancelRequest \cup Finished]

ServiceInit ==
    /\ StoreInit
    /\ creates = [r \in Bookers |-> Idle]
    /\ cancels = [r \in Cancellers |-> Idle]

-----------------------------------------------------------------------------
(* Documents written by open transactions. *)

CreateHolds(r, e) ==
    creates[r].pc \in {"insert", "commit", "orphan"} /\ creates[r].event = e

CancelHolds(r, e) ==
    /\ cancels[r].pc \in {"save", "doomed", "commit", "orphan"}
    /\ cancels[r].held
    /\ bookings[cancels[r].booking].event = e

EventBusy(e) ==
    \/ \E r \in Bookers : CreateHolds(r, e)
    \/ \E r \in Cancellers : CancelHolds(r, e)

BookingBusy(b) ==
    \E r \in Cancellers :
        cancels[r].pc \in {"commit", "orphan"} /\ cancels[r].booking = b

-----------------------------------------------------------------------------
(* createBooking *)

AnswerCreate(r, code) == creates' = [creates EXCEPT ![r] = Answered(code)]

AwaitCreate(r, pc) == creates' = [creates EXCEPT ![r].pc = pc]

\* The bound on the model: a request starts only if a booking identifier is
\* left for it.
IdLeftFor(r) ==
    Cardinality({x \in Bookers : ~Free(creates[x])}) < Cardinality(FreeBookings)

\* The request arrives and its pre-flight read of the event returns.
FindEvent(r, u, e, n) ==
    /\ Free(creates[r])
    /\ IdLeftFor(r)
    /\ \/ ~EventExists(e) /\ AnswerCreate(r, 404)
       \/ events[e].status \in {"cancelled", "completed"} /\ AnswerCreate(r, 400)
       \/ /\ events[e].status \in {"upcoming", "ongoing"}
          /\ creates' = [creates EXCEPT ![r] =
                 [pc |-> "dup", user |-> u, event |-> e, seats |-> n]]
    /\ UNCHANGED <<events, bookings, cancels>>

\* Mutant of CheckDuplicate: the result of the query is not looked at.
CheckDuplicate_Ignored(r) ==
    /\ creates[r].pc = "dup"
    /\ AwaitCreate(r, "dec")
    /\ UNCHANGED <<events, bookings, cancels>>

\* The query for an active booking, outside the transaction.
CheckDuplicate(r) ==
    /\ creates[r].pc = "dup"
    /\ IF ActiveBookings(creates[r].user, creates[r].event) # {}
       THEN AnswerCreate(r, 409)
       ELSE AwaitCreate(r, "dec")
    /\ UNCHANGED <<events, bookings, cancels>>

\* Part of the mutant DecrementSeats_Waits: the command when no other
\* transaction has written the event.
DecrementSeats_NoConflict(r) ==
    /\ creates[r].pc = "dec"
    /\ IF HasSeats(creates[r].event, creates[r].seats)
       THEN AwaitCreate(r, "insert")
       ELSE AnswerCreate(r, 400)
    /\ UNCHANGED <<events, bookings, cancels>>

\* Mutant of DecrementSeats: the command waits for the other transaction.
DecrementSeats_Waits(r) ==
    /\ creates[r].pc = "dec"
    /\ ~EventBusy(creates[r].event)
    /\ DecrementSeats_NoConflict(r)

\* The first command of the transaction: findOneAndUpdate with the $gte guard.
DecrementSeats(r) ==
    LET e == creates[r].event
        enough == HasSeats(e, creates[r].seats)
    IN  /\ creates[r].pc = "dec"
        /\ \/ ~ReplicaSet /\ AnswerCreate(r, 500)
           \/ ReplicaSet /\ ~enough /\ AnswerCreate(r, 400)
           \/ ReplicaSet /\ enough /\ EventBusy(e) /\ AnswerCreate(r, 500)
           \/ ReplicaSet /\ enough /\ ~EventBusy(e) /\ AwaitCreate(r, "insert")
        /\ UNCHANGED <<events, bookings, cancels>>

\* Booking.create; a clash of the random bookingReference aborts with 409.
InsertBooking(r) ==
    /\ creates[r].pc = "insert"
    /\ \/ AwaitCreate(r, "commit")
       \/ Faults /\ AnswerCreate(r, 409)
    /\ UNCHANGED <<events, bookings, cancels>>

\* Mutant of CommitCreate: one seat is taken, whatever was asked for.
CommitCreate_OneSeat(r) ==
    /\ creates[r].pc = "commit"
    /\ \E b \in FreeBookings :
          bookings' = [bookings EXCEPT ![b] =
              InsertedBooking(creates[r].user, creates[r].event, creates[r].seats)]
    /\ events' = AddSeats(creates[r].event, -1)
    /\ AnswerCreate(r, 201)
    /\ UNCHANGED cancels

\* Mutant of CommitCreate: the decrement is outside the transaction and stays
\* when the booking is rolled back.
CommitCreate_Torn(r) ==
    /\ creates[r].pc = "commit"
    /\ events' = AddSeats(creates[r].event, -creates[r].seats)
    /\ AnswerCreate(r, 500)
    /\ UNCHANGED <<bookings, cancels>>

\* The commit makes the decrement and the booking visible together.  The
\* answer is lost when the acknowledgement or the reload after it fails.
CommitCreate(r) ==
    LET q == creates[r]
    IN  /\ q.pc = "commit"
        /\ \E b \in FreeBookings :
              bookings' = [bookings EXCEPT
                  ![b] = InsertedBooking(q.user, q.event, q.seats)]
        /\ events' = AddSeats(q.event, -q.seats)
        /\ \/ AnswerCreate(r, 201)
           \/ Faults /\ AnswerCreate(r, 500)
        /\ UNCHANGED cancels

\* A command fails.  Inside the transaction the catch block aborts it, unless
\* the abort is lost as well.
FailCreate(r) ==
    /\ Faults
    /\ \/ ~Free(creates[r]) /\ creates[r].pc # "orphan" /\ AnswerCreate(r, 500)
       \/ creates[r].pc \in {"insert", "commit"} /\ AwaitCreate(r, "orphan")
    /\ UNCHANGED <<events, bookings, cancels>>

\* Mutant of ReapCreate: the server has no transaction lifetime limit.
ReapCreate_Never(r) ==
    /\ creates[r].pc = "orphan"
    /\ UNCHANGED serviceVars

\* The server aborts a transaction past transactionLifetimeLimitSeconds.
ReapCreate(r) ==
    /\ creates[r].pc = "orphan"
    /\ AnswerCreate(r, 500)
    /\ UNCHANGED <<events, bookings, cancels>>

-----------------------------------------------------------------------------
(* cancelBooking *)

AnswerCancel(r, code) == cancels' = [cancels EXCEPT ![r] = Answered(code)]

AwaitCancel(r, pc) == cancels' = [cancels EXCEPT ![r].pc = pc]

\* findById populates userId, so toString() renders the user document and not
\* the identifier the token carries.
OwnerString(b) == [document |-> bookings[b].user]

MayAccess(u, b) == u \in Admins \/ OwnerString(b) = u

\* The request arrives and its read of the booking, with its event and owner
\* populated, returns.  If the owner's account is gone userId is null and the
\* owner check throws; no account is kept here, so any may be.  A booking of a
\* deleted event has eventId null, which the handler dereferences before its
\* first database command.
FindBooking(r, u, b) ==
    /\ Free(cancels[r])
    /\ \/ ~BookingExists(b) /\ AnswerCancel(r, 404)
       \/ BookingExists(b) /\ ~MayAccess(u, b) /\ AnswerCancel(r, 403)
       \/ BookingExists(b) /\ u \notin Admins /\ AnswerCancel(r, 500)
       \/ /\ bookings[b].status = "cancelled"
          /\ MayAccess(u, b)
          /\ AnswerCancel(r, 400)
       \/ /\ bookings[b].status = "confirmed"
          /\ MayAccess(u, b)
          /\ IF EventExists(bookings[b].event)
             THEN cancels' = [cancels EXCEPT ![r] =
                      [pc |-> "inc", booking |-> b, held |-> FALSE]]
             ELSE AnswerCancel(r, 500)
    /\ UNCHANGED <<events, bookings, creates>>

\* Part of the mutant IncrementSeats_Waits: the command when no other
\* transaction has written the event.
IncrementSeats_NoConflict(r) ==
    /\ cancels[r].pc = "inc"
    /\ cancels' = [cancels EXCEPT ![r] =
           [pc |-> "save", booking |-> cancels[r].booking,
            held |-> EventExists(bookings[cancels[r].booking].event)]]
    /\ UNCHANGED <<events, bookings, creates>>

\* Mutant of IncrementSeats: the command waits for the other transaction.
IncrementSeats_Waits(r) ==
    /\ cancels[r].pc = "inc"
    /\ ~EventBusy(bookings[cancels[r].booking].event)
    /\ IncrementSeats_NoConflict(r)

\* The first command of the transaction.  Its result is not looked at: an
\* event deleted since the read is simply not written.
IncrementSeats(r) ==
    LET b == cancels[r].booking
        e == bookings[b].event
    IN  /\ cancels[r].pc = "inc"
        /\ \/ (~ReplicaSet \/ EventBusy(e)) /\ AnswerCancel(r, 500)
           \/ /\ ReplicaSet
              /\ ~EventBusy(e)
              /\ cancels' = [cancels EXCEPT ![r] =
                     [pc |-> "save", booking |-> b, held |-> EventExists(e)]]
        /\ UNCHANGED <<events, bookings, creates>>

\* booking.save() writes the document read before the transaction, whatever
\* its status has become since.
SaveBooking(r) ==
    LET conflict == cancels[r].pc = "doomed" \/ BookingBusy(cancels[r].booking)
    IN  /\ cancels[r].pc \in {"save", "doomed"}
        /\ IF conflict THEN AnswerCancel(r, 500) ELSE AwaitCancel(r, "commit")
        /\ UNCHANGED <<events, bookings, creates>>

\* The commit makes the restored seats and the new status visible together;
\* transactions whose snapshot is older can no longer write the booking.
CommitCancel(r) ==
    LET b == cancels[r].booking
        late(x) == cancels[x].pc = "save" /\ cancels[x].booking = b
    IN  /\ cancels[r].pc = "commit"
        /\ bookings' = [bookings EXCEPT ![b].status = "cancelled"]
        /\ events' = IF cancels[r].held
                     THEN AddSeats(bookings[b].event, bookings[b].seats)
                     ELSE events
        /\ \E code \in {200} \cup (IF Faults THEN {500} ELSE {}) :
              cancels' = [x \in Cancellers |->
                  IF x = r THEN Answered(code)
                  ELSE IF late(x) THEN [cancels[x] EXCEPT !.pc = "doomed"]
                  ELSE cancels[x]]
        /\ UNCHANGED creates

FailCancel(r) ==
    /\ Faults
    /\ \/ ~Free(cancels[r]) /\ cancels[r].pc # "orphan" /\ AnswerCancel(r, 500)
       \/ /\ \/ cancels[r].pc = "save" /\ cancels[r].held
             \/ cancels[r].pc = "commit"
          /\ AwaitCancel(r, "orphan")
    /\ UNCHANGED <<events, bookings, creates>>

ReapCancel(r) ==
    /\ cancels[r].pc = "orphan"
    /\ AnswerCancel(r, 500)
    /\ UNCHANGED <<events, bookings, creates>>

-----------------------------------------------------------------------------
\* The process dies.  Requests without a transaction vanish; the server keeps
\* the open transactions of the others until it reaps them.
AfterCrash(q) ==
    IF q.pc \in {"insert", "save", "commit"} /\ (q.pc = "save" => q.held)
    THEN [q EXCEPT !.pc = "orphan"]
    ELSE IF q.pc \in {"dup", "dec", "inc", "save", "doomed"} THEN Idle ELSE q

CrashRequests ==
    /\ Faults
    /\ creates' = [r \in Bookers |-> AfterCrash(creates[r])]
    /\ cancels' = [r \in Cancellers |-> AfterCrash(cancels[r])]
    /\ UNCHANGED <<events, bookings>>

=============================================================================

----------------------------- MODULE EventService -----------------------------
(***************************************************************************)
(* The admin handlers on events: POST, PUT and DELETE /api/admin/events.   *)
(* None of them uses a transaction.  Update and delete read the event      *)
(* first and write it later, by identifier only; the write carries the     *)
(* seat count computed from that read.                                     *)
(***************************************************************************)
EXTENDS Store

CONSTANT Editors     \* slots for concurrent update and delete requests

VARIABLE edits       \* slot -> update or delete request

-----------------------------------------------------------------------------
NotGiven == 0        \* an update whose body has no totalSeats
Same == "same"       \* an update whose body has no status

EditDone == {[pc |-> "idle"]} \cup
            {[pc |-> "done", code |-> code] : code \in {200, 400, 404, 500}}

UpdateRequest ==
    [pc: {"update"},
     event: Events,
     total: Totals \cup {NotGiven},
     available: Nat,             \* the recalculated availableSeats, if total
     booked: Int,                \* the bookedSeats it was computed from
     status: EventStatuses \cup {Same}]

DeleteRequest == [pc: {"delete"}, event: Events]

EditTypeOK ==
    edits \in [Editors -> UpdateRequest \cup DeleteRequest \cup EditDone]

EditInit == edits = [r \in Editors |-> [pc |-> "idle"]]

-----------------------------------------------------------------------------
AnswerEdit(r, code) ==
    edits' = [edits EXCEPT ![r] = [pc |-> "done", code |-> code]]

Editable(r) == edits[r].pc \in {"idle", "done"}

CreateEvent(e, t) ==
    /\ events[e] = Unissued
    /\ events' = [events EXCEPT ![e] = InsertedEvent(t)]
    /\ UNCHANGED <<bookings, edits>>

\* Mutant of FindForUpdate: the new total is not compared with the seats booked.
FindForUpdate_NoCheck(r, e, t, s) ==
    LET booked == events[e].total - events[e].available
    IN  /\ Editable(r)
        /\ EventExists(e)
        /\ edits' = [edits EXCEPT ![r] =
               [pc |-> "update", event |-> e, total |-> t,
                available |-> IF t # NotGiven THEN t - booked ELSE 0,
                booked |-> IF t # NotGiven THEN booked ELSE 0, status |-> s]]
        /\ UNCHANGED storeVars

\* updateEvent up to its write: the read, the seat arithmetic, the check.
FindForUpdate(r, e, t, s) ==
    LET given == t # NotGiven
        booked == IF given THEN events[e].total - events[e].available ELSE 0
    IN  /\ Editable(r)
        /\ \/ ~EventExists(e) /\ AnswerEdit(r, 404)
           \/ EventExists(e) /\ given /\ t < booked /\ AnswerEdit(r, 400)
           \/ /\ EventExists(e)
              /\ given => t >= booked
              /\ edits' = [edits EXCEPT ![r] =
                     [pc |-> "update", event |-> e, total |-> t,
                      available |-> IF given THEN t - booked ELSE 0,
                      booked |-> booked, status |-> s]]
        /\ UNCHANGED storeVars

\* Mutant of Updated: a new total makes all seats available.
Updated_AllFree(doc, q) ==
    [total     |-> IF q.total = NotGiven THEN doc.total ELSE q.total,
     available |-> IF q.total = NotGiven THEN doc.available ELSE q.total,
     status    |-> IF q.status = Same THEN doc.status ELSE q.status]

Updated(doc, q) ==
    [total     |-> IF q.total = NotGiven THEN doc.total ELSE q.total,
     available |-> IF q.total = NotGiven THEN doc.available ELSE q.available,
     status    |-> IF q.status = Same THEN doc.status ELSE q.status]

\* findByIdAndUpdate; an event deleted since the read is answered 200 too.
WriteUpdate(r) ==
    LET q == edits[r]
    IN  /\ q.pc = "update"
        /\ events' = IF EventExists(q.event)
                     THEN [events EXCEPT ![q.event] = Updated(@, q)]
                     ELSE events
        /\ AnswerEdit(r, 200)
        /\ UNCHANGED bookings

FindForDelete(r, e) ==
    /\ Editable(r)
    /\ IF EventExists(e)
       THEN edits' = [edits EXCEPT ![r] = [pc |-> "delete", event |-> e]]
       ELSE AnswerEdit(r, 404)
    /\ UNCHANGED storeVars

\* findByIdAndDelete; the bookings of the event stay as they are.
WriteDelete(r) ==
    /\ edits[r].pc = "delete"
    /\ events' = IF EventExists(edits[r].event)
                 THEN [events EXCEPT ![edits[r].event] = Deleted]
                 ELSE events
    /\ AnswerEdit(r, 200)
    /\ UNCHANGED bookings

\* A command of the request fails; nothing of it stays.
FailEdit(r) ==
    /\ ~Editable(r)
    /\ AnswerEdit(r, 500)
    /\ UNCHANGED storeVars

CrashEdits ==
    edits' = [r \in Editors |-> IF Editable(r) THEN edits[r] ELSE [pc |-> "idle"]]
=============================================================================

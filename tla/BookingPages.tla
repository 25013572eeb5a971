---------------------------- MODULE BookingPages ----------------------------
(***************************************************************************)
(* EventDetailPage and BookingsPage over the query cache they share: what  *)
(* a user sees of an event and of the own booking while bookings are       *)
(* posted, answered late or never, and pages are left and entered again.   *)
(*                                                                         *)
(* The API is summarised by its history: past[v] is what it would answer   *)
(* after v - 1 changes, and what a page holds is such a number v.  That    *)
(* two orders of one user may both be accepted, which BookingService       *)
(* shows, is left out.                                                     *)
(***************************************************************************)
EXTENDS Integers, Sequences

CONSTANTS
    Cap,         \* seats per booking, 10 in the code
    Total,       \* seats of the event
    Orders,      \* slots for posted bookings and cancellations
    MaxChanges,  \* bound on the changes the API makes
    Faults       \* may requests and answers get lost?

ASSUME PagesAssumption ==
    /\ Cap \in Nat \ {0}
    /\ Total \in Nat \ {0}
    /\ MaxChanges \in Nat
    /\ Faults \in BOOLEAN

VARIABLES
    past,      \* what the API would have answered, oldest first
    view,      \* the page on the screen: a key, or "elsewhere"
    data,      \* key -> what the cache holds
    fresh,     \* keys whose data is neither invalidated nor past its staleTime
    error,     \* keys whose last fetch failed
    fetches,   \* key -> its fetch, at most one
    modal,     \* is the dialog open on which orders are confirmed?
    seats,     \* the seat picker
    orders,    \* slot -> order
    acked,     \* history: what the API would answer when it had made the last
               \*   change of this user's that the pages were told of
    passed,    \* history: keys with a fetch older than that and not recalled
    emptied    \* history: has this page shown the event as sold out?

cache == <<data, fresh, error, fetches, passed>>
page == <<view, modal, seats, emptied>>
vars == <<past, cache, page, orders, acked>>

-----------------------------------------------------------------------------
Keys == {"event", "bookings"}

None == 0
NoFetch == [pc |-> "idle", got |-> None]
NewFetch == [pc |-> "sent", got |-> None]
Free == [pc |-> "free", kind |-> "none", seats |-> 0, got |-> None, here |-> FALSE]

Now == past[Len(past)]

\* The page shows its data; a failed fetch hides what the cache still holds.
Shows(k) == view = k /\ data[k] # None /\ k \notin error
Shown(k) == past[data[k]]

Least(m, n) == IF m < n THEN m ELSE n
Most(m, n) == IF m < n THEN n ELSE m

Init ==
    /\ past = <<[avail |-> Total, mine |-> 0]>>
    /\ view = "elsewhere"
    /\ data = [k \in Keys |-> None]
    /\ fresh = {} /\ error = {} /\ passed = {}
    /\ fetches = [k \in Keys |-> NoFetch]
    /\ modal = FALSE /\ seats = 1 /\ emptied = FALSE
    /\ orders = [o \in Orders |-> Free]
    /\ acked = 1

-----------------------------------------------------------------------------
(* The query cache. *)

\* Query.fetch: a fetch under way is joined, or recalled and made again if
\* that is asked for and there is data to show meanwhile.
Joins(k, recall) == fetches[k] # NoFetch /\ ~(recall /\ data[k] # None)

\* A query with no data forgets its error when it is fetched again.
Forget(K) == error' = error \ {k \in K : data[k] = None}

Fetch(K, recall) ==
    LET made == {k \in K : ~Joins(k, recall)}
    IN  /\ fetches' = [k \in Keys |-> IF k \in made THEN NewFetch ELSE fetches[k]]
        /\ passed' = passed \ made
        /\ Forget(made)

\* The API answers the request.
Read(k) ==
    /\ fetches[k].pc = "sent"
    /\ fetches' = [fetches EXCEPT ![k] = [pc |-> "read", got |-> Len(past)]]
    /\ UNCHANGED <<past, data, fresh, error, passed, page, orders, acked>>

Arrive(k) ==
    /\ fetches[k].pc = "read"
    /\ data' = [data EXCEPT ![k] = fetches[k].got]
    /\ fresh' = fresh \cup {k}
    /\ error' = error \ {k}
    /\ fetches' = [fetches EXCEPT ![k] = NoFetch]
    /\ emptied' = (emptied \/ (k = "event" /\ view = k /\ past[fetches[k].got].avail = 0))
    /\ UNCHANGED <<past, passed, view, modal, seats, orders, acked>>

\* The attempt and its repetition have failed: the data stays, invalidated.
Fail(k) ==
    /\ Faults
    /\ fetches[k] # NoFetch
    /\ fresh' = fresh \ {k}
    /\ error' = error \cup {k}
    /\ fetches' = [fetches EXCEPT ![k] = NoFetch]
    /\ UNCHANGED <<past, data, passed, page, orders, acked>>

\* staleTime has passed.
Age(k) ==
    /\ k \in fresh
    /\ fresh' = fresh \ {k}
    /\ UNCHANGED <<past, data, error, fetches, passed, page, orders, acked>>

\* gcTime has passed since the page was left.
Collect(k) ==
    /\ view # k /\ fetches[k] = NoFetch /\ data[k] # None
    /\ data' = [data EXCEPT ![k] = None]
    /\ fresh' = fresh \ {k}
    /\ error' = error \ {k}
    /\ UNCHANGED <<past, fetches, passed, page, orders, acked>>

-----------------------------------------------------------------------------
(* The pages. *)

\* The state of the page that is left is gone; the page that is entered
\* fetches what is missing or stale.
Navigate(v) ==
    /\ view # v
    /\ view' = v
    /\ modal' = FALSE
    /\ seats' = 1
    /\ emptied' = (v = "event" /\ data[v] # None /\ past[data[v]].avail = 0)
    /\ orders' = [o \in Orders |-> [orders[o] EXCEPT !.here = FALSE]]
    /\ Fetch({v} \cap (Keys \ fresh), FALSE)
    /\ UNCHANGED <<past, data, fresh, acked>>

\* The retry button of ErrorMessage.
Refetch(k) ==
    /\ view = k /\ k \in error
    /\ Fetch({k}, TRUE)
    /\ UNCHANGED <<past, data, fresh, page, orders, acked>>

\* canBook, and canCancel.
OpenModal(k) ==
    /\ Shows(k) /\ ~modal
    /\ IF k = "event" THEN Shown(k).avail > 0 ELSE Shown(k).mine > 0
    /\ modal' = TRUE
    /\ UNCHANGED <<past, cache, view, seats, emptied, orders, acked>>

CloseModal(k) ==
    /\ Shows(k) /\ modal
    /\ modal' = FALSE
    /\ UNCHANGED <<past, cache, view, seats, emptied, orders, acked>>

\* Mutant of More: the limit per booking is not applied.
More_NoCap(s) == Least(Shown("event").avail, s + 1)

More(s) == Least(Least(Cap, Shown("event").avail), s + 1)

\* Mutant of Fewer: nothing keeps the number positive.
Fewer_NoFloor(s) == s - 1

Fewer(s) == Most(1, s - 1)

PickSeats ==
    /\ Shows("event") /\ modal
    /\ seats' \in {More(seats), Fewer(seats)}
    /\ UNCHANGED <<past, cache, view, modal, emptied, orders, acked>>

\* The button is disabled while an order of this page is under way.
Confirm(o, k) ==
    /\ Shows(k) /\ modal
    /\ \A p \in Orders : ~orders[p].here
    /\ orders[o] = Free
    /\ orders' = [orders EXCEPT ![o] =
           [pc |-> "sent", kind |-> k, seats |-> seats, got |-> None, here |-> TRUE]]
    /\ UNCHANGED <<past, cache, page, acked>>

-----------------------------------------------------------------------------
(* The API. *)

Change(s) == Len(past) <= MaxChanges /\ past' = Append(past, s)

\* createBooking and cancelBooking of this user.
Accepts(o) ==
    LET q == orders[o]
    IN  IF q.kind = "event"
        THEN /\ q.seats \in 1..Cap /\ q.seats <= Now.avail /\ Now.mine = 0
             /\ Change([avail |-> Now.avail - q.seats, mine |-> q.seats])
        ELSE /\ Now.mine > 0
             /\ Change([avail |-> Now.avail + Now.mine, mine |-> 0])

\* A message is all that comes of an order that is refused or whose answer is
\* lost.
Serve(o) ==
    /\ orders[o].pc = "sent"
    /\ \/ /\ Accepts(o)
          /\ \/ orders' = [orders EXCEPT ![o] = [@ EXCEPT !.pc = "accepted", !.got = Len(past')]]
             \/ Faults /\ orders' = [orders EXCEPT ![o] = Free]
       \/ /\ orders' = [orders EXCEPT ![o] = Free]
          /\ UNCHANGED past
    /\ UNCHANGED <<cache, page, acked>>

\* Somebody else books or cancels.
Others ==
    /\ \E n \in 0..(Total - Now.mine) : n # Now.avail /\ Change([Now EXCEPT !.avail = n])
    /\ UNCHANGED <<cache, page, orders, acked>>

-----------------------------------------------------------------------------
(* The answers to the orders. *)

\* Mutant of Invalidate: only the page on the screen is told.
Invalidate_Active ==
    /\ fresh' = fresh \ {view}
    /\ LET kept == {k \in Keys : fetches[k] # NoFetch /\ (k # view \/ Joins(k, TRUE))}
       IN  /\ fetches' = [k \in Keys |-> IF k = view /\ k \notin kept THEN NewFetch ELSE fetches[k]]
           /\ passed' = (passed \ {view}) \cup kept
           /\ Forget({view} \cap (Keys \ kept))

\* Mutant of Invalidate: the page on the screen is marked and not fetched.
Invalidate_Passive ==
    /\ fresh' = {}
    /\ LET kept == {k \in Keys : fetches[k] # NoFetch}
       IN  passed' = passed \cup kept
    /\ UNCHANGED <<fetches, error>>

\* invalidateQueries on both keys: all data is stale, and the page on the
\* screen fetches at once.  A fetch of the other page is left to arrive.
Invalidate ==
    /\ fresh' = {}
    /\ LET kept == {k \in Keys : fetches[k] # NoFetch /\ (k # view \/ Joins(k, TRUE))}
       IN  /\ fetches' = [k \in Keys |-> IF k = view /\ k \notin kept THEN NewFetch ELSE fetches[k]]
           /\ passed' = (passed \ {view}) \cup kept
           /\ Forget({view} \cap (Keys \ kept))

\* onSuccess of the hook runs whatever page is shown, and that of the page, which
\* closes the dialog, only on the page that has asked.
Accepted(o) ==
    /\ orders[o].pc = "accepted"
    /\ orders' = [orders EXCEPT ![o] = Free]
    /\ acked' = Most(acked, orders[o].got)
    /\ Invalidate
    /\ modal' = (modal /\ ~orders[o].here)
    /\ UNCHANGED <<past, data, view, seats, emptied>>

Next ==
    \/ \E k \in Keys :
          \/ Read(k) \/ Arrive(k) \/ Fail(k) \/ Age(k) \/ Collect(k)
          \/ Refetch(k) \/ OpenModal(k) \/ CloseModal(k)
          \/ \E o \in Orders : Confirm(o, k)
    \/ \E v \in Keys \cup {"elsewhere"} : Navigate(v)
    \/ \E o \in Orders : Serve(o) \/ Accepted(o)
    \/ PickSeats
    \/ Others

Spec == Init /\ [][Next]_vars

\* The API answers a fetch and the browser runs what it is answered.
Fairness == \A k \in Keys : WF_vars(Read(k)) /\ WF_vars(Arrive(k))

FairSpec == Spec /\ Fairness

-----------------------------------------------------------------------------
\* The types of the variables; nothing is fetched or acknowledged that the API
\* has not answered.
TypeOK ==
    /\ past \in Seq([avail : 0..Total, mine : 0..Cap])
    /\ view \in Keys \cup {"elsewhere"}
    /\ data \in [Keys -> 0..Len(past)]
    /\ fresh \in SUBSET Keys /\ error \in SUBSET Keys /\ passed \in SUBSET Keys
    /\ fetches \in [Keys -> [pc : {"idle", "sent", "read"}, got : 0..Len(past)]]
    /\ modal \in BOOLEAN /\ emptied \in BOOLEAN
    /\ seats \in Nat
    /\ orders \in [Orders ->
          [pc : {"free", "sent", "accepted"}, kind : Keys \cup {"none"},
           seats : Nat, got : 0..Len(past), here : BOOLEAN]]
    /\ acked \in 1..Len(past)

\* Data that the cache takes for fresh, and therefore does not fetch again for
\* its staleTime, includes every change the user has been told of; except what
\* arrives by a fetch that was under way at that moment and was not recalled,
\* because its page had been left or had no data yet.
FreshIncludesOwn == \A k \in fresh \ passed : data[k] >= acked

\* The seat picker never posts a number that the API refuses for its size,
\* unless the page has shown the event as sold out while it was open: More
\* gives 0 then.
OrdersAcceptable ==
    \A o \in Orders :
        orders[o].kind = "event" /\ orders[o].here /\ ~emptied => orders[o].seats \in 1..Cap

\* A page that stays on the screen comes to show what the user has been told of,
\* or its error message, however many changes and answers come in between.
CatchesUp ==
    \A k \in Keys :
        view = k /\ data[k] < acked /\ k \notin passed
            ~> data[k] >= acked \/ view # k \/ k \in error \/ k \in passed
=============================================================================

----------------------------- MODULE PagesProofs -----------------------------
(***************************************************************************)
(* Proofs about the booking pages, for every cap, total and number of      *)
(* orders: what the query cache takes for fresh includes the user's own    *)
(* changes, and the seat picker posts numbers the API can accept.          *)
(***************************************************************************)
EXTENDS BookingPages, TLAPS

-----------------------------------------------------------------------------
(* Types. *)

\* The seats that are left and the user's own fit into the event.
Fits == \A i \in 1..Len(past) : past[i].avail + past[i].mine <= Total

Typed == TypeOK /\ Fits

States == [avail : 0..Total, mine : 0..Cap]

OrderRecords(n) ==
    [pc : {"free", "sent", "accepted"}, kind : Keys \cup {"none"},
     seats : Nat, got : 0..n, here : BOOLEAN]

FetchRecords(n) == [pc : {"idle", "sent", "read"}, got : 0..n]

\* At the start no page is open.
LEMMA InitTyped == Init => Typed
<1> SUFFICES ASSUME Init PROVE Typed
  OBVIOUS
<1>1. past = <<[avail |-> Total, mine |-> 0]>>
  BY DEF Init
<1>2. past \in Seq(States) /\ Len(past) = 1 /\ past[1] = [avail |-> Total, mine |-> 0]
  BY <1>1, PagesAssumption DEF States
<1>3. Fits
  BY <1>2, PagesAssumption DEF Fits
<1>4. /\ NoFetch \in FetchRecords(Len(past)) /\ Free \in OrderRecords(Len(past))
      /\ None \in 0..Len(past)
  BY <1>2 DEF NoFetch, Free, None, FetchRecords, OrderRecords
<1>5. /\ data \in [Keys -> 0..Len(past)]
      /\ fetches \in [Keys -> FetchRecords(Len(past))]
      /\ orders \in [Orders -> OrderRecords(Len(past))]
  BY <1>4 DEF Init
<1>6. acked \in 1..Len(past) /\ seats \in Nat
  BY <1>2 DEF Init
<1> QED
  BY <1>2, <1>3, <1>5, <1>6 DEF Init, Typed, TypeOK, States, FetchRecords, OrderRecords

\* The API has a state.
LEMMA NowTyped ==
    ASSUME Typed
    PROVE  /\ Len(past) \in Nat \ {0}
           /\ Now \in States /\ Now.avail + Now.mine <= Total
<1>1. past \in Seq(States) /\ acked \in 1..Len(past)
  BY DEF Typed, TypeOK, States
<1>2. Len(past) \in Nat \ {0} /\ Len(past) \in 1..Len(past)
  BY <1>1
<1>3. past[Len(past)] \in States
  BY <1>1, <1>2
<1> QED
  BY <1>2, <1>3 DEF Typed, Fits, Now

\* A new state of the API keeps what was answered before.
LEMMA ChangeTyped ==
    ASSUME Typed, NEW s \in States, s.avail + s.mine <= Total, past' = Append(past, s)
    PROVE  /\ past' \in Seq(States) /\ Fits' /\ Len(past') = Len(past) + 1
           /\ \A i \in 1..Len(past) : past'[i] = past[i]
<1>1. past \in Seq(States) /\ Len(past) \in Nat
  BY DEF Typed, TypeOK, States
<1>2. /\ past' \in Seq(States) /\ Len(past') = Len(past) + 1
      /\ past'[Len(past) + 1] = s
      /\ \A i \in 1..Len(past) : past'[i] = past[i]
  BY <1>1
<1> QED
  BY <1>1, <1>2 DEF Typed, Fits

\* The types survive a step that only lengthens the API's history.
LEMMA LongerTyped ==
    ASSUME Typed, past' \in Seq(States), Fits', Len(past') = Len(past) + 1,
           UNCHANGED <<cache, page, acked>>,
           orders' \in [Orders -> OrderRecords(Len(past'))]
    PROVE  Typed'
<1>1. Len(past) \in Nat
  BY DEF Typed, TypeOK
<1>2. \A n \in 0..Len(past) : n \in 0..Len(past')
  BY <1>1
<1>3. data \in [Keys -> 0..Len(past')] /\ acked \in 1..Len(past')
  BY <1>1, <1>2 DEF Typed, TypeOK
<1>4. fetches \in [Keys -> [pc : {"idle", "sent", "read"}, got : 0..Len(past')]]
  BY <1>2 DEF Typed, TypeOK
<1> QED
  BY <1>3, <1>4 DEF Typed, TypeOK, States, OrderRecords, cache, page

\* What the API makes of an order.
LEMMA ServeTyped ==
    ASSUME Typed, NEW o \in Orders, Serve(o)
    PROVE  Typed'
<1> DEFINE q == orders[o]
<1>0. /\ q.seats \in Nat
      /\ Len(past) \in Nat \ {0} /\ Now \in States /\ Now.avail + Now.mine <= Total
  BY NowTyped DEF Typed, TypeOK
<1>1. UNCHANGED <<cache, page, acked>>
  BY DEF Serve
<1>2. CASE UNCHANGED past /\ orders' = [orders EXCEPT ![o] = Free]
  <2>1. Free \in OrderRecords(Len(past)) /\ orders \in [Orders -> OrderRecords(Len(past))]
    BY <1>0 DEF Free, None, OrderRecords, Typed, TypeOK
  <2>2. orders' \in [Orders -> OrderRecords(Len(past))]
    BY <1>2, <2>1
  <2> QED
    BY <1>1, <1>2, <2>2 DEF Typed, TypeOK, Fits, OrderRecords, cache, page
<1>3. CASE Accepts(o) /\ \/ orders' = [orders EXCEPT ![o] = [@ EXCEPT !.pc = "accepted", !.got = Len(past')]]
                         \/ orders' = [orders EXCEPT ![o] = Free]
  <2>1. PICK s \in States : s.avail + s.mine <= Total /\ past' = Append(past, s)
    <3>1. CASE q.kind = "event"
      <4> DEFINE s == [avail |-> Now.avail - q.seats, mine |-> q.seats]
      <4>1. q.seats \in 1..Cap /\ q.seats <= Now.avail /\ past' = Append(past, s)
        BY <1>3, <3>1 DEF Accepts, Change
      <4>2. s \in States /\ s.avail + s.mine <= Total
        BY <1>0, <4>1, PagesAssumption DEF States
      <4> QED
        BY <4>1, <4>2
    <3>2. CASE q.kind # "event"
      <4> DEFINE s == [avail |-> Now.avail + Now.mine, mine |-> 0]
      <4>1. past' = Append(past, s)
        BY <1>3, <3>2 DEF Accepts, Change
      <4>2. s \in States /\ s.avail + s.mine <= Total
        BY <1>0, PagesAssumption DEF States
      <4> QED
        BY <4>1, <4>2
    <3> QED
      BY <3>1, <3>2
  <2>2. past' \in Seq(States) /\ Fits' /\ Len(past') = Len(past) + 1
    BY <2>1, ChangeTyped
  <2>3. orders \in [Orders -> OrderRecords(Len(past'))]
    <3>1. \A n \in 0..Len(past) : n \in 0..Len(past')
      BY <1>0, <2>2
    <3> QED
      BY <3>1 DEF Typed, TypeOK, OrderRecords
  <2>4. 0 \in 0..Len(past') /\ Len(past') \in 0..Len(past')
    BY <1>0, <2>2
  <2>5. orders' \in [Orders -> OrderRecords(Len(past'))]
    <3>1. Free \in OrderRecords(Len(past'))
      BY <2>4 DEF Free, None, OrderRecords
    <3>2. [orders[o] EXCEPT !.pc = "accepted", !.got = Len(past')] \in OrderRecords(Len(past'))
      BY <2>3, <2>4 DEF OrderRecords
    <3> QED
      BY <1>3, <2>3, <3>1, <3>2
  <2> QED
    BY <1>1, <2>2, <2>5, LongerTyped
<1> QED
  BY <1>2, <1>3 DEF Serve

\* Somebody else's bookings.
LEMMA OthersTyped ==
    ASSUME Typed, Others
    PROVE  Typed'
<1>0. Len(past) \in Nat \ {0} /\ Now \in States /\ Now.avail + Now.mine <= Total
  BY NowTyped
<1>1. PICK n \in 0..(Total - Now.mine) : past' = Append(past, [Now EXCEPT !.avail = n])
  BY DEF Others, Change
<1>2. [Now EXCEPT !.avail = n] \in States /\ n + Now.mine <= Total
  BY <1>0, <1>1, PagesAssumption DEF States
<1>3. [Now EXCEPT !.avail = n].avail + [Now EXCEPT !.avail = n].mine <= Total
  BY <1>0, <1>2 DEF States
<1>4. past' \in Seq(States) /\ Fits' /\ Len(past') = Len(past) + 1
  BY <1>1, <1>2, <1>3, ChangeTyped
<1>5. orders' \in [Orders -> OrderRecords(Len(past'))]
  <2>1. \A n_1 \in 0..Len(past) : n_1 \in 0..Len(past')
    BY <1>0, <1>4
  <2> QED
    BY <2>1 DEF Typed, TypeOK, Others, OrderRecords
<1> QED
  BY <1>4, <1>5, LongerTyped DEF Others

\* Fetch, whatever it joins.
LEMMA FetchTyped ==
    ASSUME Typed, NEW K, NEW recall, Fetch(K, recall), UNCHANGED past
    PROVE  /\ fetches' \in [Keys -> [pc : {"idle", "sent", "read"}, got : 0..Len(past)]]
           /\ passed' \in SUBSET Keys /\ error' \in SUBSET Keys
<1>1. NewFetch \in [pc : {"idle", "sent", "read"}, got : 0..Len(past)]
  BY NowTyped DEF NewFetch, None
<1> QED
  BY <1>1 DEF Typed, TypeOK, Fetch, Forget

\* What invalidating leaves.
LEMMA InvalidateTyped ==
    ASSUME Typed, Invalidate, UNCHANGED past
    PROVE  /\ fetches' \in [Keys -> [pc : {"idle", "sent", "read"}, got : 0..Len(past)]]
           /\ passed' \in SUBSET Keys /\ error' \in SUBSET Keys /\ fresh' = {}
<1>1. NewFetch \in [pc : {"idle", "sent", "read"}, got : 0..Len(past)]
  BY NowTyped DEF NewFetch, None
<1>2. \A k \in Keys : fetches[k] \in [pc : {"idle", "sent", "read"}, got : 0..Len(past)]
  BY DEF Typed, TypeOK
<1>3. fresh' = {} /\ passed' \in SUBSET Keys /\ error' \in SUBSET Keys
  <2>1. passed \in SUBSET Keys /\ error \in SUBSET Keys
    BY DEF Typed, TypeOK
  <2> QED
    BY <2>1 DEF Invalidate, Forget
<1>4. fetches' \in [Keys -> [pc : {"idle", "sent", "read"}, got : 0..Len(past)]]
  BY <1>1, <1>2 DEF Invalidate
<1> QED
  BY <1>3, <1>4

\* The cache keeps its types when a fetch is answered, arrives, fails or is
\* forgotten.
LEMMA CacheTyped ==
    ASSUME Typed, NEW k \in Keys, Read(k) \/ Arrive(k) \/ Fail(k) \/ Age(k) \/ Collect(k)
    PROVE  Typed'
<1>0. Len(past) \in Nat \ {0} /\ Len(past) \in 0..Len(past) /\ 0 \in 0..Len(past)
  BY NowTyped
<1>1. NoFetch \in [pc : {"idle", "sent", "read"}, got : 0..Len(past)]
  BY <1>0 DEF NoFetch, None
<1>2. CASE Read(k)
  BY <1>0, <1>2 DEF Read, Typed, TypeOK, Fits, page
<1>3. CASE Arrive(k)
  <2>1. fetches[k].got \in 0..Len(past)
    BY DEF Typed, TypeOK
  <2>2. emptied' \in BOOLEAN
    BY <1>3 DEF Arrive
  <2> QED
    BY <1>1, <1>3, <2>1, <2>2 DEF Arrive, Typed, TypeOK, Fits
<1>4. CASE Fail(k)
  BY <1>1, <1>4 DEF Fail, Typed, TypeOK, Fits, page
<1>5. CASE Age(k)
  BY <1>5 DEF Age, Typed, TypeOK, Fits, page
<1>6. CASE Collect(k)
  BY <1>0, <1>6 DEF Collect, None, Typed, TypeOK, Fits, page
<1> QED
  BY <1>2, <1>3, <1>4, <1>5, <1>6

\* The page and its dialog.
LEMMA PageTyped ==
    ASSUME Typed, NEW k \in Keys,
           Refetch(k) \/ OpenModal(k) \/ CloseModal(k) \/ PickSeats
    PROVE  Typed'
<1>1. CASE Refetch(k)
  BY <1>1, FetchTyped DEF Refetch, Typed, TypeOK, Fits, page
<1>2. CASE OpenModal(k)
  BY <1>2 DEF OpenModal, Typed, TypeOK, Fits, cache
<1>3. CASE CloseModal(k)
  BY <1>3 DEF CloseModal, Typed, TypeOK, Fits, cache
<1>4. CASE PickSeats
  <2>1. /\ data["event"] \in 1..Len(past) /\ seats \in Nat
        /\ past \in Seq(States) /\ Len(past) \in Nat
    BY <1>4 DEF PickSeats, Shows, None, Keys, Typed, TypeOK, States
  <2>2. Shown("event").avail \in Nat
    <3>1. past[data["event"]] \in States
      BY <2>1
    <3> QED
      BY <3>1, PagesAssumption DEF Shown, States
  <2>3. More(seats) \in Nat /\ Fewer(seats) \in Nat
    BY <2>1, <2>2, PagesAssumption DEF More, Fewer, Least, Most
  <2>4. seats' \in Nat
    BY <1>4, <2>3 DEF PickSeats
  <2> QED
    BY <1>4, <2>4 DEF PickSeats, Typed, TypeOK, Fits, cache
<1> QED
  BY <1>1, <1>2, <1>3, <1>4

\* Another page is opened.
LEMMA NavigateTyped ==
    ASSUME Typed, NEW v \in Keys \cup {"elsewhere"}, Navigate(v)
    PROVE  Typed'
<1>1. orders' \in [Orders -> OrderRecords(Len(past))]
  <2>1. orders \in [Orders -> OrderRecords(Len(past))]
    BY DEF Typed, TypeOK, OrderRecords
  <2>2. ASSUME NEW q \in OrderRecords(Len(past))
        PROVE  [q EXCEPT !.here = FALSE] \in OrderRecords(Len(past))
    BY <2>2 DEF OrderRecords
  <2>3. orders' = [o \in Orders |-> [orders[o] EXCEPT !.here = FALSE]]
    BY DEF Navigate
  <2> QED
    BY <2>1, <2>2, <2>3
<1>2. emptied' \in BOOLEAN /\ seats' \in Nat /\ modal' \in BOOLEAN
  BY DEF Navigate
<1> QED
  BY <1>1, <1>2, FetchTyped DEF Navigate, Typed, TypeOK, Fits, OrderRecords

\* A booking is confirmed.
LEMMA ConfirmTyped ==
    ASSUME Typed, NEW o \in Orders, NEW k \in Keys, Confirm(o, k)
    PROVE  Typed'
<1>1. 0 \in 0..Len(past)
  BY NowTyped
<1>2. orders' \in [Orders -> OrderRecords(Len(past))]
  BY <1>1 DEF Confirm, None, Typed, TypeOK, OrderRecords
<1> QED
  BY <1>2 DEF Confirm, Typed, TypeOK, Fits, OrderRecords, cache, page

\* The API has accepted a request.
LEMMA AcceptedTyped ==
    ASSUME Typed, NEW o \in Orders, Accepted(o)
    PROVE  Typed'
<1>1. 0 \in 0..Len(past) /\ orders[o].got \in 0..Len(past) /\ acked \in 1..Len(past)
  BY NowTyped DEF Typed, TypeOK
<1>2. orders' \in [Orders -> OrderRecords(Len(past))]
  BY <1>1 DEF Accepted, Free, None, Typed, TypeOK, OrderRecords
<1>3. acked' \in 1..Len(past)
  BY <1>1 DEF Accepted, Most
<1>4. modal' \in BOOLEAN
  BY DEF Accepted, Typed, TypeOK
<1> QED
  BY <1>2, <1>3, <1>4, InvalidateTyped DEF Accepted, Typed, TypeOK, Fits, OrderRecords

\* Every step keeps the types.
LEMMA NextTyped == Typed /\ [Next]_vars => Typed'
<1> SUFFICES ASSUME Typed, [Next]_vars PROVE Typed'
  OBVIOUS
<1>1. ASSUME NEW k \in Keys,
             \/ Read(k) \/ Arrive(k) \/ Fail(k) \/ Age(k) \/ Collect(k)
             \/ Refetch(k) \/ OpenModal(k) \/ CloseModal(k)
      PROVE  Typed'
  BY <1>1, CacheTyped, PageTyped
<1>2. ASSUME NEW k \in Keys, NEW o \in Orders, Confirm(o, k)
      PROVE  Typed'
  BY <1>2, ConfirmTyped
<1>3. ASSUME NEW v \in Keys \cup {"elsewhere"}, Navigate(v)
      PROVE  Typed'
  BY <1>3, NavigateTyped
<1>4. ASSUME NEW o \in Orders, Serve(o) \/ Accepted(o)
      PROVE  Typed'
  BY <1>4, ServeTyped, AcceptedTyped
<1>5. CASE PickSeats
  BY <1>5, PageTyped DEF Keys
<1>6. CASE Others
  BY <1>6, OthersTyped
<1>7. CASE UNCHANGED vars
  BY <1>7 DEF vars, cache, page, Typed, TypeOK, Fits
<1> QED
  BY <1>1, <1>2, <1>3, <1>4, <1>5, <1>6, <1>7 DEF Next

\* The types of the pages, the cache and the API's history.
THEOREM PagesTypes == Spec => []TypeOK
<1>1. Spec => []Typed
  BY InitTyped, NextTyped, PTL DEF Spec
<1>2. Typed => TypeOK
  BY DEF Typed
<1> QED
  BY <1>1, <1>2, PTL

-----------------------------------------------------------------------------
(* The cache. *)

\* What the API had answered when a fetch not recalled was answered includes
\* what the user has been told of since, and data is never both fresh and behind
\* an error message.
CacheInv ==
    /\ fresh \cap error = {}
    /\ \A k \in Keys : fetches[k].pc = "read" /\ k \notin passed => fetches[k].got >= acked
    /\ FreshIncludesOwn

\* Nothing is cached at the start.
LEMMA InitCache == Init => CacheInv
  BY DEF Init, CacheInv, FreshIncludesOwn, NoFetch

\* A fetch that is made for data that is not fresh.
LEMMA FetchCache ==
    ASSUME CacheInv, NEW K, NEW recall, Fetch(K, recall), K \cap fresh = {},
           fetches \in [Keys -> [pc : {"idle", "sent", "read"}, got : 0..Len(past)]],
           UNCHANGED <<data, fresh, acked>>
    PROVE  CacheInv'
<1> DEFINE made == {k \in K : ~Joins(k, recall)}
<1>1. /\ fetches' = [k \in Keys |-> IF k \in made THEN NewFetch ELSE fetches[k]]
      /\ passed' = passed \ made /\ error' \subseteq error
  BY DEF Fetch, Forget
<1>2. NewFetch.pc # "read"
  BY DEF NewFetch
<1> QED
  BY <1>1, <1>2 DEF CacheInv, FreshIncludesOwn

\* Whatever fetch is left under way when all data is invalidated has passed.
LEMMA AcceptedCache ==
    ASSUME Typed, CacheInv, NEW o \in Orders, Accepted(o)
    PROVE  CacheInv'
<1> DEFINE kept == {k \in Keys : fetches[k] # NoFetch /\ (k # view \/ Joins(k, TRUE))}
<1>1. /\ fresh' = {}
      /\ fetches' = [k \in Keys |-> IF k = view /\ k \notin kept THEN NewFetch ELSE fetches[k]]
      /\ passed' = (passed \ {view}) \cup kept
  BY DEF Accepted, Invalidate
<1>2. NewFetch.pc # "read" /\ NoFetch.pc # "read"
  BY DEF NewFetch, NoFetch
<1>3. ASSUME NEW k \in Keys, fetches'[k].pc = "read", k \notin passed'
      PROVE  FALSE
  BY <1>1, <1>2, <1>3
<1> QED
  BY <1>1, <1>3 DEF CacheInv, FreshIncludesOwn

\* Every step keeps what is known of the cache.
LEMMA NextCache == Typed /\ CacheInv /\ [Next]_vars => CacheInv'
<1> SUFFICES ASSUME Typed, CacheInv, [Next]_vars PROVE CacheInv'
  OBVIOUS
<1>0. /\ fetches \in [Keys -> [pc : {"idle", "sent", "read"}, got : 0..Len(past)]]
      /\ data \in [Keys -> 0..Len(past)]
      /\ acked \in 1..Len(past) /\ Len(past) \in Nat
  BY NowTyped DEF Typed, TypeOK
<1>1. ASSUME NEW k \in Keys, Read(k)
      PROVE  CacheInv'
  BY <1>0, <1>1 DEF Read, CacheInv, FreshIncludesOwn
<1>2. ASSUME NEW k \in Keys, Arrive(k)
      PROVE  CacheInv'
  BY <1>0, <1>2 DEF Arrive, CacheInv, FreshIncludesOwn, NoFetch
<1>3. ASSUME NEW k \in Keys, Fail(k) \/ Age(k) \/ Collect(k)
      PROVE  CacheInv'
  <2>1. CASE Fail(k)
    BY <1>0, <2>1 DEF Fail, CacheInv, FreshIncludesOwn, NoFetch
  <2>2. CASE Age(k)
    BY <2>2 DEF Age, CacheInv, FreshIncludesOwn
  <2>3. CASE Collect(k)
    BY <1>0, <2>3 DEF Collect, CacheInv, FreshIncludesOwn
  <2> QED
    BY <1>3, <2>1, <2>2, <2>3
<1>4. ASSUME NEW k \in Keys, Refetch(k)
      PROVE  CacheInv'
  <2>1. {k} \cap fresh = {}
    BY <1>4 DEF Refetch, CacheInv
  <2> QED
    BY <1>0, <1>4, <2>1, FetchCache DEF Refetch
<1>5. ASSUME NEW v \in Keys \cup {"elsewhere"}, Navigate(v)
      PROVE  CacheInv'
  <2> DEFINE K == {v} \cap (Keys \ fresh)
  <2>1. K \cap fresh = {} /\ Fetch(K, FALSE)
    BY <1>5 DEF Navigate
  <2>2. UNCHANGED <<data, fresh, acked>>
    BY <1>5 DEF Navigate
  <2> HIDE DEF K
  <2> QED
    BY <1>0, <2>1, <2>2, FetchCache
<1>6. ASSUME NEW o \in Orders, Accepted(o)
      PROVE  CacheInv'
  BY <1>6, AcceptedCache
<1>7. ASSUME UNCHANGED <<cache, acked>>
      PROVE  CacheInv'
  BY <1>7 DEF cache, CacheInv, FreshIncludesOwn
<1>8. ASSUME NEW k \in Keys,
             OpenModal(k) \/ CloseModal(k) \/ \E o \in Orders : Confirm(o, k)
      PROVE  CacheInv'
  BY <1>7, <1>8 DEF OpenModal, CloseModal, Confirm
<1>9. ASSUME PickSeats \/ Others \/ (\E o \in Orders : Serve(o)) \/ UNCHANGED vars
      PROVE  CacheInv'
  BY <1>7, <1>9 DEF PickSeats, Others, Serve, vars
<1> QED
  BY <1>1, <1>2, <1>3, <1>4, <1>5, <1>6, <1>8, <1>9 DEF Next

\* What the cache takes for fresh includes every change the user was told of,
\* for any number of orders under way and any history of the API.
THEOREM FreshCache == Spec => []FreshIncludesOwn
<1>1. Spec => [](Typed /\ CacheInv)
  BY InitTyped, NextTyped, InitCache, NextCache, PTL DEF Spec
<1>2. CacheInv => FreshIncludesOwn
  BY DEF CacheInv
<1> QED
  BY <1>1, <1>2, PTL

-----------------------------------------------------------------------------
(* The seat picker. *)

\* A page that has not shown its event as sold out shows seats that are left.
PickerInv ==
    /\ ~emptied => seats \in 1..Cap
    /\ view = "event" /\ data["event"] # None /\ past[data["event"]].avail = 0 => emptied
    /\ OrdersAcceptable

\* At the start nobody has ordered anything.
LEMMA InitPicker == Init => PickerInv
  BY PagesAssumption DEF Init, PickerInv, OrdersAcceptable, Free

\* The API's history only grows, so that what a page shows does not change.
LEMMA HistoryKept ==
    ASSUME Typed, [Next]_vars
    PROVE  \A i \in 1..Len(past) : past'[i] = past[i]
<1>1. past \in Seq(States)
  BY DEF Typed, TypeOK, States
<1>2. ASSUME NEW s, Change(s)
      PROVE  \A i \in 1..Len(past) : past'[i] = past[i]
  BY <1>1, <1>2 DEF Change
<1>3. past' = past \/ \E s : Change(s)
  BY DEF Next, vars, Read, Arrive, Fail, Age, Collect, Refetch, OpenModal, CloseModal,
         Confirm, Navigate, Serve, Accepts, Accepted, PickSeats, Others
<1> QED
  BY <1>2, <1>3

\* Every step keeps what is known of the picker.
LEMMA NextPicker == Typed /\ PickerInv /\ [Next]_vars => PickerInv'
<1> SUFFICES ASSUME Typed, PickerInv, [Next]_vars PROVE PickerInv'
  OBVIOUS
<1>0. /\ data \in [Keys -> 0..Len(past)] /\ Len(past) \in Nat /\ past \in Seq(States)
      /\ fetches \in [Keys -> [pc : {"idle", "sent", "read"}, got : 0..Len(past)]]
      /\ orders \in [Orders ->
            [pc : {"free", "sent", "accepted"}, kind : Keys \cup {"none"},
             seats : Nat, got : 0..Len(past), here : BOOLEAN]]
      /\ "event" \in Keys
  BY NowTyped DEF Typed, TypeOK, Keys, States
<1>1. data["event"] # None => past'[data["event"]] = past[data["event"]]
  BY <1>0, HistoryKept DEF None
<1>2. ASSUME UNCHANGED <<data, view, seats, emptied>>, OrdersAcceptable'
      PROVE  PickerInv'
  BY <1>1, <1>2 DEF PickerInv
<1>3. ASSUME UNCHANGED <<data, view, seats, emptied, orders>>
      PROVE  PickerInv'
  BY <1>2, <1>3 DEF PickerInv, OrdersAcceptable
<1>4. ASSUME NEW k \in Keys,
             Read(k) \/ Fail(k) \/ Age(k) \/ Refetch(k) \/ OpenModal(k) \/ CloseModal(k)
      PROVE  PickerInv'
  BY <1>3, <1>4 DEF Read, Fail, Age, Refetch, OpenModal, CloseModal, page, cache
<1>5. ASSUME NEW k \in Keys, Arrive(k)
      PROVE  PickerInv'
  BY <1>0, <1>5 DEF Arrive, PickerInv, OrdersAcceptable
<1>6. ASSUME NEW k \in Keys, Collect(k)
      PROVE  PickerInv'
  BY <1>0, <1>6 DEF Collect, PickerInv, OrdersAcceptable, page, None
<1>7. CASE PickSeats
  <2>1. /\ data["event"] \in 1..Len(past)
        /\ UNCHANGED <<past, data, view, emptied, orders>>
        /\ view = "event" /\ data["event"] # None /\ seats' \in {More(seats), Fewer(seats)}
    BY <1>0, <1>7 DEF PickSeats, Shows, None, cache
  <2>2. Shown("event").avail \in Nat
    <3>1. past[data["event"]] \in States
      BY <1>0, <2>1
    <3> QED
      BY <3>1, PagesAssumption DEF Shown, States
  <2>3. ASSUME ~emptied PROVE seats' \in 1..Cap
    <3>1. Shown("event").avail # 0 /\ seats \in 1..Cap
      BY <2>1, <2>3 DEF Shown, PickerInv
    <3>2. More(seats) \in 1..Cap /\ Fewer(seats) \in 1..Cap
      BY <2>2, <3>1, PagesAssumption DEF More, Fewer, Least, Most
    <3> QED
      BY <2>1, <3>2
  <2> QED
    BY <2>1, <2>3 DEF PickerInv, OrdersAcceptable
<1>8. ASSUME NEW o \in Orders, NEW k \in Keys, Confirm(o, k)
      PROVE  PickerInv'
  <2>1. ~emptied => seats \in 1..Cap
    BY DEF PickerInv
  <2>2. OrdersAcceptable'
    BY <1>0, <1>8, <2>1 DEF Confirm, PickerInv, OrdersAcceptable, page
  <2> QED
    BY <1>2, <1>8, <2>2 DEF Confirm, page, cache
<1>9. ASSUME NEW v \in Keys \cup {"elsewhere"}, Navigate(v)
      PROVE  PickerInv'
  <2>1. \A o \in Orders : ~orders'[o].here
    BY <1>0, <1>9 DEF Navigate
  <2>2. seats' \in 1..Cap
    BY <1>9, PagesAssumption DEF Navigate
  <2> QED
    BY <1>9, <2>1, <2>2 DEF Navigate, PickerInv, OrdersAcceptable
<1>10. ASSUME NEW o \in Orders, Serve(o) \/ Accepted(o)
       PROVE  PickerInv'
  <2>1. UNCHANGED <<data, view, seats, emptied>>
    BY <1>10 DEF Serve, Accepted, page, cache
  <2>2. /\ \A p \in Orders \ {o} : orders'[p] = orders[p]
        /\ \/ orders'[o] = Free
           \/ /\ orders'[o].kind = orders[o].kind /\ orders'[o].here = orders[o].here
              /\ orders'[o].seats = orders[o].seats
    <3>1. CASE orders' = [orders EXCEPT ![o] = Free]
      BY <1>0, <3>1
    <3>2. CASE orders' = [orders EXCEPT ![o] = [@ EXCEPT !.pc = "accepted", !.got = Len(past')]]
      BY <1>0, <3>2
    <3> QED
      BY <1>10, <3>1, <3>2 DEF Serve, Accepted
  <2>3. OrdersAcceptable'
    BY <2>1, <2>2 DEF PickerInv, OrdersAcceptable, Free
  <2> QED
    BY <1>2, <2>1, <2>3
<1>11. CASE Others
  BY <1>3, <1>11 DEF Others, page, cache
<1>12. CASE UNCHANGED vars
  BY <1>3, <1>12 DEF vars, page, cache
<1> QED
  BY <1>4, <1>5, <1>6, <1>7, <1>8, <1>9, <1>10, <1>11, <1>12 DEF Next

\* A page that has not shown its event as sold out posts a number of seats the
\* API can accept, for every limit per booking and every total.
THEOREM PickedSeats == Spec => []OrdersAcceptable
<1>1. Spec => [](Typed /\ PickerInv)
  BY InitTyped, NextTyped, InitPicker, NextPicker, PTL DEF Spec
<1>2. PickerInv => OrdersAcceptable
  BY DEF PickerInv
<1> QED
  BY <1>1, <1>2, PTL
=============================================================================

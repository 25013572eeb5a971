---------------------------- MODULE SessionProofs ----------------------------
(***************************************************************************)
(* Proofs about the session of the frontend, for every number of tabs,     *)
(* requests and accounts: every queued request has a refresh to wait for,  *)
(* no request runs twice, a logout lasts, and a request runs as the user   *)
(* its page showed when it was made.                                       *)
(***************************************************************************)
EXTENDS Session, TLAPS

-----------------------------------------------------------------------------
(* What the steps do to the requests. *)

\* The fields of a request.
Fields == {"pc", "kind", "tab", "live", "retry", "token", "cookie", "as", "code", "pair", "ran", "ranAs"}

\* A request that was not made yet has them.
LEMMA NewFields == DOMAIN New = Fields
  BY DEF New, Fields

\* A request that is over has them.
LEMMA SettledFields ==
    ASSUME NEW q, NEW code
    PROVE  DOMAIN Settled(q, code) = Fields
  BY DEF Settled, New, Fields

\* Every request has these fields: all that the proofs need of its type.
Shape == DOMAIN calls = Calls /\ \A c \in Calls : DOMAIN calls[c] = Fields

\* No request but c is touched.
Only(c) == DOMAIN calls' = Calls /\ \A d \in Calls \ {c} : calls'[d] = calls[d]

\* What a page does to the request it makes.
LEMMA SendParts ==
    ASSUME Shape, NEW c \in Calls, NEW kind, NEW t, Send(c, kind, t)
    PROVE  Only(c) /\ calls[c] = New /\ calls'[c] = Request(kind, t)
  BY DEF Shape, Send, Only

\* What an answer of the API does to its request.
LEMMA ServeParts ==
    ASSUME Shape, NEW c \in Calls, Serve(c)
    PROVE  /\ Only(c) /\ DOMAIN calls'[c] = Fields
           /\ calls[c].pc \in {"sent", "refreshing"}
           /\ calls'[c].pc = IF calls[c].pc = "refreshing" THEN "refreshed" ELSE "reply"
           /\ calls'[c].live = calls[c].live /\ calls'[c].tab = calls[c].tab
           /\ calls'[c].kind = calls[c].kind /\ calls'[c].cookie = calls[c].cookie
           /\ calls'[c].code \in {"ok", "failed", "unauthorized"}
           /\ \/ calls'[c].ran = calls[c].ran
                 /\ (calls[c].pc = "sent" => calls'[c].code # "ok")
              \/ /\ calls[c].pc = "sent"
                 /\ calls'[c].ran = calls'[c].code /\ calls'[c].code # "unauthorized"
<1>1. CASE Unauthorized(c)
  BY <1>1 DEF Shape, Unauthorized, Replied, Only, Fields
<1>2. CASE Handle(c)
  BY <1>2 DEF Shape, Handle, Replied, Only, Fields, Outcomes
<1>3. CASE Login(c)
  BY <1>3 DEF Shape, Login, Replied, Only, Fields, Outcomes
<1>4. CASE RotateTokens(c)
  BY <1>4 DEF Shape, RotateTokens, Replied, Only, Fields, Outcomes
<1>5. CASE RaiseAlarm(c)
  BY <1>5 DEF Shape, RaiseAlarm, Replied, Only, Fields
<1>6. CASE Refuse(c)
  BY <1>6 DEF Shape, Refuse, Replied, Only, Fields
<1> QED
  BY <1>1, <1>2, <1>3, <1>4, <1>5, <1>6 DEF Serve

\* What the end of a request leaves of it.
LEMMA SettleParts ==
    ASSUME Shape, NEW c \in Calls, NEW code, Settle(c, code)
    PROVE  Only(c) /\ calls'[c] = Settled(calls[c], code)
  BY DEF Shape, Settle, Only

\* What becomes of a request that waits for the refresh of another.
LEMMA EnqueueParts ==
    ASSUME Shape, NEW c \in Calls, Enqueue(c)
    PROVE  /\ Only(c) /\ DOMAIN calls'[c] = Fields
           /\ calls'[c].pc = "queued"
           /\ calls'[c].live = calls[c].live /\ calls'[c].tab = calls[c].tab
           /\ calls'[c].kind = calls[c].kind /\ calls'[c].cookie = calls[c].cookie
           /\ calls'[c].code = calls[c].code /\ calls'[c].ran = calls[c].ran
           /\ calls'[c].pair = calls[c].pair
  BY DEF Shape, Enqueue, Only, Fields

\* What becomes of a request that posts a refresh.
LEMMA StartRefreshParts ==
    ASSUME Shape, NEW c \in Calls, StartRefresh(c)
    PROVE  /\ Only(c) /\ DOMAIN calls'[c] = Fields
           /\ calls'[c].pc = "refreshing"
           /\ calls'[c].live = calls[c].live /\ calls'[c].tab = calls[c].tab
           /\ calls'[c].kind = calls[c].kind /\ calls'[c].cookie = cookie
           /\ calls'[c].code = calls[c].code /\ calls'[c].ran = calls[c].ran
           /\ calls'[c].pair = calls[c].pair
  BY DEF Shape, StartRefresh, Only, Fields

\* What a successful refresh does to the requests that waited for it.
LEMMA ReplayParts ==
    ASSUME Shape, NEW c \in Calls, ReplayAll(c), NEW d \in Calls
    PROVE  /\ DOMAIN calls' = Calls
           /\ d \notin Waiting(c) => calls'[d] = calls[d]
           /\ d \in Waiting(c) =>
              /\ DOMAIN calls'[d] = Fields
              /\ calls'[d].pc = "sent"
              /\ calls'[d].live = calls[d].live /\ calls'[d].tab = calls[d].tab
              /\ calls'[d].kind = calls[d].kind
              /\ calls'[d].cookie = IF calls[d].kind = "api" THEN None ELSE calls[c].pair
              /\ calls'[d].code = "none" /\ calls'[d].ran = calls[d].ran
              /\ calls'[d].pair = None
  BY DEF Shape, ReplayAll, Fields

\* What a failed refresh does to them.
LEMMA RejectParts ==
    ASSUME Shape, NEW c \in Calls, RejectAll(c), NEW d \in Calls
    PROVE  /\ DOMAIN calls' = Calls
           /\ calls'[d] = IF d \in Waiting(c) THEN Settled(calls[d], "error") ELSE calls[d]
  BY DEF Shape, RejectAll

\* The requests after tab t was loaded again.
Reloaded(t, hydrate) ==
    /\ DOMAIN calls' = Calls
    /\ \A d \in Calls :
          /\ d \in hydrate => calls'[d] = Request("me", t)
          /\ d \notin hydrate /\ d \in Queued(t) => calls'[d] = Settled(calls[d], "gone")
          /\ d \notin hydrate /\ d \in OpenIn(t) \ Queued(t) =>
             /\ DOMAIN calls'[d] = Fields /\ calls'[d].live = FALSE
             /\ calls'[d].pc = calls[d].pc /\ calls'[d].tab = calls[d].tab
             /\ calls'[d].kind = calls[d].kind /\ calls'[d].cookie = calls[d].cookie
             /\ calls'[d].code = calls[d].code /\ calls'[d].ran = calls[d].ran
             /\ calls'[d].pair = calls[d].pair
          /\ d \notin hydrate \cup OpenIn(t) => calls'[d] = calls[d]

\* What loading a tab again does to the requests.
LEMMA ReloadParts ==
    ASSUME Shape, NEW t \in Tabs, Reload(t)
    PROVE  \E hydrate \in SUBSET {c \in Calls : calls[c] = New} : Reloaded(t, hydrate)
<1>1. PICK hydrate \in SUBSET {c \in Calls : calls[c] = New} :
         calls' = [c \in Calls |->
                IF c \in hydrate THEN Request("me", t)
                ELSE IF c \in Queued(t) THEN Settled(calls[c], "gone")
                ELSE IF c \in OpenIn(t) THEN [calls[c] EXCEPT !.live = FALSE]
                ELSE calls[c]]
  BY DEF Reload
<1>2. Queued(t) \subseteq OpenIn(t)
  BY DEF Queued
<1>3. \A d \in Calls : DOMAIN calls[d] = Fields
  BY DEF Shape
<1>4. Reloaded(t, hydrate)
  BY <1>1, <1>2, <1>3 DEF Reloaded, Fields
<1> QED
  BY <1>4

\* The ways in which a step concerns the requests.
LEMMA StepCases ==
    ASSUME [Next]_vars
    PROVE  \/ UNCHANGED <<calls, refreshing>>
           \/ \E c \in Calls :
                 \/ \E t \in Tabs, kind \in {"api", "login", "logout"} : Send(c, kind, t)
                 \/ Serve(c)
                 \/ calls[c].live /\ calls[c].pc = "reply"
                       /\ (ReceiveOk(c) \/ ReceiveError(c) \/ Enqueue(c) \/ StartRefresh(c))
                 \/ calls[c].live /\ calls[c].pc = "refreshed" /\ (ReplayAll(c) \/ RejectAll(c))
                 \/ ~calls[c].live /\ calls[c].pc \in {"reply", "refreshed"} /\ Ignore(c)
           \/ \E t \in Tabs : Reload(t)
<1>1. ASSUME NEW k \in Pairs, Expire(k)
      PROVE  UNCHANGED <<calls, refreshing>>
  BY <1>1 DEF Expire, tabs
<1>2. ASSUME NEW c \in Calls, Receive(c)
      PROVE  \/ calls[c].live /\ calls[c].pc = "reply"
                       /\ (ReceiveOk(c) \/ ReceiveError(c) \/ Enqueue(c) \/ StartRefresh(c))
             \/ calls[c].live /\ calls[c].pc = "refreshed" /\ (ReplayAll(c) \/ RejectAll(c))
             \/ ~calls[c].live /\ calls[c].pc \in {"reply", "refreshed"} /\ Ignore(c)
  BY <1>2, Zenon DEF Receive
<1> QED
  BY <1>1, <1>2, Zenon DEF Next, vars, tabs

\* At the start no request was made.
LEMMA InitShape == Init => Shape
  BY NewFields DEF Init, Shape

\* No step changes the fields.
LEMMA NextShape == Shape /\ [Next]_vars => Shape'
<1> SUFFICES ASSUME Shape, [Next]_vars
             PROVE  Shape'
  OBVIOUS
<1>0. \A d \in Calls : DOMAIN calls[d] = Fields
  BY DEF Shape
<1>1. CASE UNCHANGED calls
  BY <1>1 DEF Shape
<1>2. ASSUME NEW c \in Calls, Only(c), DOMAIN calls'[c] = Fields
      PROVE  Shape'
  BY <1>0, <1>2 DEF Only, Shape
<1>3. ASSUME NEW c \in Calls, NEW code, Settle(c, code)
      PROVE  Shape'
  <2>1. Only(c) /\ calls'[c] = Settled(calls[c], code)
    BY <1>3, SettleParts
  <2>2. DOMAIN Settled(calls[c], code) = Fields
    BY DEF Settled, New, Fields
  <2> QED
    BY <1>2, <2>1, <2>2
<1>4. ASSUME NEW c \in Calls, NEW kind, NEW t, Send(c, kind, t)
      PROVE  Shape'
  <2>1. Only(c) /\ calls'[c] = Request(kind, t)
    BY <1>4, SendParts
  <2>2. DOMAIN Request(kind, t) = Fields
    BY DEF Request, New, Fields
  <2> QED
    BY <1>2, <2>1, <2>2
<1>5. ASSUME NEW c \in Calls, Serve(c)
      PROVE  Shape'
  <2>1. Only(c) /\ DOMAIN calls'[c] = Fields
    BY <1>5, ServeParts
  <2> QED
    BY <1>2, <2>1
<1>6. ASSUME NEW c \in Calls, Enqueue(c) \/ StartRefresh(c)
      PROVE  Shape'
  BY <1>2, <1>6, EnqueueParts, StartRefreshParts
<1>7. ASSUME NEW c \in Calls, ReplayAll(c)
      PROVE  Shape'
  <2>1. DOMAIN calls' = Calls
    BY <1>7, ReplayParts
  <2>2. ASSUME NEW d \in Calls
        PROVE  DOMAIN calls'[d] = Fields
    BY <1>0, <1>7, ReplayParts
  <2> QED
    BY <2>1, <2>2 DEF Shape
<1>8. ASSUME NEW c \in Calls, RejectAll(c)
      PROVE  Shape'
  <2>1. DOMAIN calls' = Calls
    BY <1>8, RejectParts
  <2>2. ASSUME NEW d \in Calls
        PROVE  DOMAIN calls'[d] = Fields
    <3>1. calls'[d] = IF d \in Waiting(c) THEN Settled(calls[d], "error") ELSE calls[d]
      BY <1>8, RejectParts
    <3>2. DOMAIN Settled(calls[d], "error") = Fields
      BY SettledFields
    <3> QED
      BY <1>0, <3>1, <3>2
  <2> QED
    BY <2>1, <2>2 DEF Shape
<1>9. ASSUME NEW t \in Tabs, Reload(t)
      PROVE  Shape'
  <2>1. DOMAIN calls' = Calls
    BY <1>9, ReloadParts DEF Reloaded
  <2>2. ASSUME NEW d \in Calls
        PROVE  DOMAIN calls'[d] = Fields
    <3>1. DOMAIN Settled(calls[d], "gone") = Fields /\ DOMAIN Request("me", t) = Fields
      BY DEF Settled, Request, New, Fields
    <3> QED
      BY <1>0, <1>9, <3>1, ReloadParts DEF Reloaded
  <2> QED
    BY <2>1, <2>2 DEF Shape
<1> QED
  BY <1>1, <1>3, <1>4, <1>5, <1>6, <1>7, <1>8, <1>9, StepCases
     DEF ReceiveOk, ReceiveError, Ignore

-----------------------------------------------------------------------------
(* The queue. *)

Leads(c, t) == calls[c].tab = t /\ calls[c].live /\ Refreshes(c)
Waits(c, t) == calls[c].tab = t /\ calls[c].live /\ calls[c].pc = "queued"

\* QueueIsServed, request by request.
Served ==
    \A t \in Tabs :
        /\ \A c \in Calls : Leads(c, t) \/ Waits(c, t) => t \in refreshing
        /\ t \in refreshing => \E c \in Calls : Leads(c, t)
        /\ \A c, d \in Calls : Leads(c, t) /\ Leads(d, t) => c = d

\* The two are the same.
LEMMA ServedSays == Served => QueueIsServed
  BY DEF Served, QueueIsServed, Leads, Waits, OpenIn, Open, Queued, Refreshes

\* At the start no tab refreshes.
LEMMA InitServed == Init => Served
  BY DEF Init, Served, Leads, Waits, Refreshes, New

\* A request that neither leads nor waits, before and after, changes nothing.
LEMMA SteadyServed ==
    ASSUME Served, UNCHANGED refreshing, NEW c \in Calls, Only(c),
           \A t \in Tabs : Leads(c, t)' <=> Leads(c, t),
           \A t \in Tabs : Waits(c, t)' => Waits(c, t) \/ t \in refreshing
    PROVE  Served'
<1>1. \A d \in Calls \ {c}, t \in Tabs : (Leads(d, t)' <=> Leads(d, t)) /\ (Waits(d, t)' <=> Waits(d, t))
  BY DEF Only, Leads, Waits, Refreshes
<1> QED
  BY <1>1 DEF Served

\* A request that is over and did not refresh changes nothing.
LEMMA SettleServed ==
    ASSUME Shape, Served, UNCHANGED refreshing, NEW c \in Calls, NEW code, Settle(c, code),
           ~(calls[c].live /\ Refreshes(c))
    PROVE  Served'
<1>1. Only(c) /\ calls'[c] = Settled(calls[c], code)
  BY SettleParts
<1>2. ~calls'[c].live
  BY <1>1 DEF Settled, New
<1> QED
  BY <1>1, <1>2, SteadyServed DEF Leads, Waits

\* Nor does one that is just made.
LEMMA SendServed ==
    ASSUME Shape, Served, NEW c \in Calls, NEW kind, NEW t \in Tabs, Send(c, kind, t)
    PROVE  Served'
<1>1. Only(c) /\ calls[c] = New /\ calls'[c] = Request(kind, t) /\ UNCHANGED refreshing
  BY SendParts DEF Send, tabs
<1>2. ~calls[c].live /\ calls'[c].pc = "sent"
  BY <1>1 DEF Request, New
<1> QED
  BY <1>1, <1>2, SteadyServed DEF Leads, Waits, Refreshes

\* An answer of the API does not end a refresh: its arrival does.
LEMMA ServeServed ==
    ASSUME Shape, Served, NEW c \in Calls, Serve(c)
    PROVE  Served'
<1>1. /\ Only(c) /\ calls[c].pc \in {"sent", "refreshing"}
      /\ calls'[c].pc = IF calls[c].pc = "refreshing" THEN "refreshed" ELSE "reply"
      /\ calls'[c].live = calls[c].live /\ calls'[c].tab = calls[c].tab
  BY ServeParts
<1>2. UNCHANGED refreshing
  BY DEF Serve, tabs
<1> QED
  BY <1>1, <1>2, SteadyServed DEF Leads, Waits, Refreshes

\* A request is queued only behind a refresh.
LEMMA EnqueueServed ==
    ASSUME Shape, Served, NEW c \in Calls, calls[c].pc = "reply", Enqueue(c)
    PROVE  Served'
<1>1. /\ Only(c) /\ calls'[c].pc = "queued" /\ calls'[c].tab = calls[c].tab
      /\ calls[c].tab \in refreshing /\ UNCHANGED refreshing
  BY EnqueueParts DEF Enqueue, tabs
<1> QED
  BY <1>1, SteadyServed DEF Leads, Waits, Refreshes

\* A tab posts a refresh only if it has none.
LEMMA StartRefreshServed ==
    ASSUME Shape, Served, NEW c \in Calls, calls[c].live, calls[c].pc = "reply", StartRefresh(c)
    PROVE  Served'
<1>1. /\ Only(c) /\ calls'[c].pc = "refreshing"
      /\ calls'[c].live = calls[c].live /\ calls'[c].tab = calls[c].tab
      /\ calls[c].tab \notin refreshing /\ refreshing' = refreshing \cup {calls[c].tab}
  BY StartRefreshParts DEF StartRefresh
<1>2. \A d \in Calls \ {c}, t \in Tabs : (Leads(d, t)' <=> Leads(d, t)) /\ (Waits(d, t)' <=> Waits(d, t))
  BY <1>1 DEF Only, Leads, Waits, Refreshes
<1>3. \A t \in Tabs : Leads(c, t)' = (t = calls[c].tab) /\ ~Waits(c, t)'
  BY <1>1 DEF Leads, Waits, Refreshes
<1>4. \A d \in Calls : ~Leads(d, calls[c].tab) \/ calls[c].tab \notin Tabs
  BY <1>1 DEF Served
<1>5. ASSUME NEW t \in Tabs, t # calls[c].tab
      PROVE  /\ t \in refreshing' <=> t \in refreshing
             /\ \A d \in Calls : Leads(d, t)' <=> Leads(d, t)
             /\ \A d \in Calls : Waits(d, t)' => Waits(d, t)
  <2>1. ~Leads(c, t) /\ ~Leads(c, t)' /\ ~Waits(c, t)'
    BY <1>3, <1>5 DEF Leads
  <2> QED
    BY <1>1, <1>2, <1>5, <2>1
<1>6. ASSUME NEW t \in Tabs, t = calls[c].tab
      PROVE  t \in refreshing' /\ \A d \in Calls : Leads(d, t)' <=> d = c
  BY <1>1, <1>2, <1>3, <1>4, <1>6
<1> QED
  BY <1>5, <1>6 DEF Served

\* The end of a refresh is the end of its queue.
LEMMA ReleasedServed ==
    ASSUME Served, NEW c \in Calls, calls[c].live, Refreshes(c),
           refreshing' = refreshing \ {calls[c].tab},
           \A d \in Calls \ Waiting(c) : calls'[d] = calls[d],
           \A d \in Waiting(c) : calls'[d].pc \in {"sent", "done"}
    PROVE  Served'
<1>1. \A d \in Calls, t \in Tabs :
         d \notin Waiting(c) => (Leads(d, t)' <=> Leads(d, t)) /\ (Waits(d, t)' <=> Waits(d, t))
  BY DEF Leads, Waits, Refreshes
<1>2. \A d \in Waiting(c), t \in Tabs : ~Leads(d, t)' /\ ~Waits(d, t)'
  BY DEF Leads, Waits, Refreshes
<1>3. \A d \in Waiting(c) : calls[d].tab = calls[c].tab /\ d \in Calls
  BY DEF Waiting, Queued, OpenIn
<1>4. \A d \in Calls \ Waiting(c) : calls[c].tab \in Tabs =>
         ~Leads(d, calls[c].tab) /\ ~Waits(d, calls[c].tab)
  <2>1. \A d \in Calls \ Waiting(c) : ~Waits(d, calls[c].tab)
    BY DEF Waits, Waiting, Queued, OpenIn, Open
  <2>2. c \in Waiting(c) /\ Leads(c, calls[c].tab)
    BY DEF Waiting, Leads
  <2> QED
    BY <2>1, <2>2 DEF Served
<1>5. \A t \in Tabs : t # calls[c].tab =>
         \A d \in Waiting(c) : ~Leads(d, t) /\ ~Waits(d, t)
  BY <1>3 DEF Leads, Waits
<1>6. Waiting(c) \subseteq Calls
  BY <1>3
<1>7. ASSUME NEW t \in Tabs, t = calls[c].tab
      PROVE  t \notin refreshing' /\ \A d \in Calls : ~Leads(d, t)' /\ ~Waits(d, t)'
  BY <1>1, <1>2, <1>4, <1>7
<1>8. ASSUME NEW t \in Tabs, t # calls[c].tab
      PROVE  /\ t \in refreshing' <=> t \in refreshing
             /\ \A d \in Calls : (Leads(d, t)' <=> Leads(d, t)) /\ (Waits(d, t)' <=> Waits(d, t))
  BY <1>1, <1>2, <1>5, <1>8
<1> QED
  BY <1>7, <1>8 DEF Served

\* A tab that is loaded again loses its refresh and its queue together.
LEMMA ReloadServed ==
    ASSUME Shape, Served, NEW t \in Tabs, Reload(t)
    PROVE  Served'
<1>1. refreshing' = refreshing \ {t}
  BY DEF Reload
<1>2. ASSUME NEW d \in Calls, NEW s \in Tabs
      PROVE  IF s = t THEN ~Leads(d, s)' /\ ~Waits(d, s)'
             ELSE (Leads(d, s)' <=> Leads(d, s)) /\ (Waits(d, s)' <=> Waits(d, s))
  <2>1. PICK hydrate \in SUBSET {c \in Calls : calls[c] = New} : Reloaded(t, hydrate)
    BY ReloadParts
  <2>2. CASE d \in hydrate
    <3>1. calls'[d] = Request("me", t) /\ calls[d] = New
      BY <2>1, <2>2 DEF Reloaded
    <3>2. calls'[d].pc = "sent" /\ ~calls[d].live
      BY <3>1 DEF Request, New
    <3> QED
      BY <3>2 DEF Leads, Waits, Refreshes
  <2>3. CASE d \notin hydrate /\ d \in OpenIn(t)
    <3>1. calls[d].tab = t
      BY <2>3 DEF OpenIn
    <3>2. ~calls'[d].live
      <4>1. ~Settled(calls[d], "gone").live
        BY DEF Settled, New
      <4> QED
        BY <2>1, <2>3, <4>1 DEF Reloaded
    <3> QED
      BY <3>1, <3>2 DEF Leads, Waits
  <2>4. CASE d \notin hydrate \cup OpenIn(t)
    <3>1. calls'[d] = calls[d]
      BY <2>1, <2>4 DEF Reloaded
    <3>2. ~Leads(d, t) /\ ~Waits(d, t)
      BY <2>4 DEF OpenIn, Open, Leads, Waits, Refreshes
    <3> QED
      BY <3>1, <3>2 DEF Leads, Waits, Refreshes
  <2> QED
    BY <2>2, <2>3, <2>4
<1> QED
  BY <1>1, <1>2 DEF Served

\* Every step keeps the queues served.
LEMMA NextServed == Shape /\ Served /\ [Next]_vars => Served'
<1> SUFFICES ASSUME Shape, Served, [Next]_vars
             PROVE  Served'
  OBVIOUS
<1>1. CASE UNCHANGED <<calls, refreshing>>
  BY <1>1 DEF Served, Leads, Waits, Refreshes
<1>2. ASSUME NEW c \in Calls, calls[c].live, calls[c].pc = "reply", ReceiveOk(c) \/ ReceiveError(c)
      PROVE  Served'
  <2>1. UNCHANGED refreshing /\ \E code : Settle(c, code)
    BY <1>2 DEF ReceiveOk, ReceiveError
  <2> QED
    BY <1>2, <2>1, SettleServed DEF Refreshes
<1>3. ASSUME NEW c \in Calls, ~calls[c].live, Ignore(c)
      PROVE  Served'
  <2>1. UNCHANGED refreshing /\ Settle(c, "gone")
    BY <1>3 DEF Ignore, tabs
  <2> QED
    BY <1>3, <2>1, SettleServed
<1>4. ASSUME NEW c \in Calls, calls[c].live, calls[c].pc = "refreshed", ReplayAll(c)
      PROVE  Served'
  <2>1. refreshing' = refreshing \ {calls[c].tab}
    BY <1>4 DEF ReplayAll
  <2>2. /\ \A d \in Calls \ Waiting(c) : calls'[d] = calls[d]
        /\ \A d \in Calls : d \in Waiting(c) => calls'[d].pc = "sent"
    BY <1>4, ReplayParts
  <2>3. Waiting(c) \subseteq Calls
    BY DEF Waiting, Queued, OpenIn
  <2> QED
    BY <1>4, <2>1, <2>2, <2>3, ReleasedServed DEF Refreshes
<1>5. ASSUME NEW c \in Calls, calls[c].live, calls[c].pc = "refreshed", RejectAll(c)
      PROVE  Served'
  <2>1. refreshing' = refreshing \ {calls[c].tab}
    BY <1>5 DEF RejectAll
  <2>2. \A d \in Calls : calls'[d] = IF d \in Waiting(c) THEN Settled(calls[d], "error") ELSE calls[d]
    BY <1>5, RejectParts
  <2>3. \A d \in Calls : Settled(calls[d], "error").pc = "done"
    BY DEF Settled, New
  <2>4. Waiting(c) \subseteq Calls
    BY DEF Waiting, Queued, OpenIn
  <2>5. /\ \A d \in Calls \ Waiting(c) : calls'[d] = calls[d]
        /\ \A d \in Waiting(c) : calls'[d].pc \in {"sent", "done"}
    BY <2>2, <2>3, <2>4
  <2> QED
    BY <1>5, <2>1, <2>5, ReleasedServed DEF Refreshes
<1> QED
  BY <1>1, <1>2, <1>3, <1>4, <1>5, StepCases, SendServed, ServeServed, EnqueueServed,
     StartRefreshServed, ReloadServed

\* axios.js:36-66: no request is left in a queue that nobody will process, and no
\* second refresh is posted beside the first one of a tab, for every number of
\* tabs and requests.
THEOREM NobodyForgotten == Spec => []QueueIsServed
<1>1. Init => Shape /\ Served
  BY InitShape, InitServed
<1>2. Shape /\ Served /\ [Next]_vars => Shape' /\ Served'
  BY NextShape, NextServed
<1> QED
  BY <1>1, <1>2, ServedSays, PTL DEF Spec

-----------------------------------------------------------------------------
(* The promise to the pages. *)

\* A request that waits for a refresh has not been run, and an answer says
\* whether it was.
Truthful ==
    \A c \in Calls :
        /\ calls[c].pc \in {"new", "sent", "queued", "refreshing", "refreshed"}
              => calls[c].ran = "nothing"
        /\ calls[c].pc = "reply" =>
              /\ calls[c].code = "ok" <=> calls[c].ran = "ok"
              /\ calls[c].code = "unauthorized" => calls[c].ran = "nothing"

\* At the start nothing has run.
LEMMA InitTruthful == Init => Truthful
  BY DEF Init, Truthful, New

\* A step that touches one request only.
LEMMA OnlyTruthful ==
    ASSUME Truthful, NEW c \in Calls, Only(c),
           calls'[c].pc \in {"sent", "queued", "refreshing", "refreshed"} => calls'[c].ran = "nothing",
           calls'[c].pc # "new",
           calls'[c].pc = "reply" =>
              /\ calls'[c].code = "ok" <=> calls'[c].ran = "ok"
              /\ calls'[c].code = "unauthorized" => calls'[c].ran = "nothing"
    PROVE  Truthful'
  BY DEF Truthful, Only

\* An answer is the outcome of the handler.
LEMMA ServeTruthful ==
    ASSUME Shape, Truthful, NEW c \in Calls, Serve(c)
    PROVE  Truthful'
<1>1. /\ Only(c) /\ calls[c].pc \in {"sent", "refreshing"}
      /\ calls'[c].pc = IF calls[c].pc = "refreshing" THEN "refreshed" ELSE "reply"
      /\ calls'[c].code \in {"ok", "failed", "unauthorized"}
      /\ \/ calls'[c].ran = calls[c].ran
            /\ (calls[c].pc = "sent" => calls'[c].code # "ok")
         \/ /\ calls[c].pc = "sent"
            /\ calls'[c].ran = calls'[c].code /\ calls'[c].code # "unauthorized"
  BY ServeParts
<1>2. calls[c].ran = "nothing"
  BY <1>1 DEF Truthful
<1> QED
  BY <1>1, <1>2, OnlyTruthful

\* Every step keeps answers truthful.
LEMMA NextTruthful == Shape /\ Truthful /\ [Next]_vars => Truthful'
<1> SUFFICES ASSUME Shape, Truthful, [Next]_vars
             PROVE  Truthful'
  OBVIOUS
<1>1. CASE UNCHANGED calls
  BY <1>1 DEF Truthful
<1>2. ASSUME NEW c \in Calls, NEW code, Settle(c, code)
      PROVE  Truthful'
  <2>1. Only(c) /\ calls'[c] = Settled(calls[c], code)
    BY <1>2, SettleParts
  <2>2. calls'[c].pc = "done"
    BY <2>1 DEF Settled, New
  <2> QED
    BY <2>1, <2>2, OnlyTruthful
<1>3. ASSUME NEW c \in Calls, NEW kind, NEW t, Send(c, kind, t)
      PROVE  Truthful'
  <2>1. Only(c) /\ calls'[c] = Request(kind, t)
    BY <1>3, SendParts
  <2>2. calls'[c].pc = "sent" /\ calls'[c].ran = "nothing"
    BY <2>1 DEF Request, New
  <2> QED
    BY <2>1, <2>2, OnlyTruthful
<1>4. ASSUME NEW c \in Calls, calls[c].pc = "reply", Enqueue(c) \/ StartRefresh(c)
      PROVE  Truthful'
  <2>1. calls[c].ran = "nothing"
    BY <1>4 DEF Truthful, Enqueue, StartRefresh, NeedsRefresh
  <2>2. Only(c) /\ calls'[c].pc \in {"queued", "refreshing"} /\ calls'[c].ran = calls[c].ran
    BY <1>4, EnqueueParts, StartRefreshParts
  <2> QED
    BY <2>1, <2>2, OnlyTruthful
<1>5. ASSUME NEW c \in Calls, calls[c].pc = "refreshed", ReplayAll(c)
      PROVE  Truthful'
  <2>1. \A d \in Calls : d \in Waiting(c) => calls[d].ran = "nothing"
    BY <1>5 DEF Truthful, Waiting, Queued
  <2>2. ASSUME NEW d \in Calls
        PROVE  calls'[d] = calls[d] \/ (calls'[d].pc = "sent" /\ calls'[d].ran = "nothing")
    BY <1>5, <2>1, ReplayParts
  <2> QED
    BY <2>2 DEF Truthful
<1>6. ASSUME NEW c \in Calls, RejectAll(c)
      PROVE  Truthful'
  <2>1. \A d \in Calls : calls'[d] = IF d \in Waiting(c) THEN Settled(calls[d], "error") ELSE calls[d]
    BY <1>6, RejectParts
  <2>2. \A d \in Calls : Settled(calls[d], "error").pc = "done"
    BY DEF Settled, New
  <2>3. \A d \in Calls : calls'[d] = calls[d] \/ calls'[d].pc = "done"
    BY <2>1, <2>2
  <2> QED
    BY <2>3 DEF Truthful
<1>7. ASSUME NEW t \in Tabs, Reload(t)
      PROVE  Truthful'
  <2>1. PICK hydrate \in SUBSET {c \in Calls : calls[c] = New} : Reloaded(t, hydrate)
    BY <1>7, ReloadParts
  <2>2. \A d \in Calls : Settled(calls[d], "gone").pc = "done"
    BY DEF Settled, New
  <2>3. Request("me", t).pc = "sent" /\ Request("me", t).ran = "nothing"
    BY DEF Request, New
  <2>4. ASSUME NEW d \in Calls
        PROVE  \/ calls'[d].pc = "done"
               \/ calls'[d].pc = "sent" /\ calls'[d].ran = "nothing"
               \/ /\ calls'[d].pc = calls[d].pc /\ calls'[d].code = calls[d].code
                  /\ calls'[d].ran = calls[d].ran
    BY <2>1, <2>2, <2>3 DEF Reloaded
  <2> QED
    BY <2>4 DEF Truthful
<1> QED
  BY <1>1, <1>2, <1>3, <1>4, <1>5, <1>6, <1>7, StepCases, ServeTruthful
     DEF ReceiveOk, ReceiveError, Ignore

\* What the page of a call knows of it.
Told(c) ==
    IF calls[c].pc = "new" THEN "new"
    ELSE IF calls[c].pc = "done" THEN calls[c].code
    ELSE IF calls[c].live THEN "waiting" ELSE "gone"

\* The requests of S are settled truthfully.
BookSettle(S) ==
    /\ \A c \in S : Told(c) = "waiting"
    /\ \A c \in Calls : Told(c)' = IF c \notin S THEN Told(c)
                                   ELSE IF calls[c].ran = "ok" THEN "ok" ELSE "error"
    /\ \A c \in Calls : calls'[c].ran = calls[c].ran

BookLeave(S, b) ==
    /\ \A c \in S : Told(c) = "waiting"
    /\ \A c \in b : Told(c) = "new"
    /\ \A c \in Calls : Told(c)' = IF c \in S THEN "gone"
                                   ELSE IF c \in b THEN "waiting" ELSE Told(c)
    /\ \A c \in Calls : calls'[c].ran = calls[c].ran

\* A settling of RequestBook.
LEMMA BookSettles ==
    ASSUME NEW S \in SUBSET Calls, BookSettle(S)
    PROVE  Book!Next
<1>1. Book!Settle(S)
  BY DEF Book!Settle, BookSettle, Told
<1> QED
  BY <1>1 DEF Book!Next

\* A page that is left, in RequestBook.
LEMMA BookLeaves ==
    ASSUME NEW S \in SUBSET Calls, NEW b \in SUBSET Calls, BookLeave(S, b)
    PROVE  Book!Next
<1>1. Book!Leave(S)
  BY DEF Book!Leave, BookLeave, Told
<1> QED
  BY <1>1 DEF Book!Next

\* What RequestBook does not see.
LEMMA BookStutters ==
    ASSUME \A c \in Calls : Told(c)' = Told(c) /\ calls'[c].ran = calls[c].ran
    PROVE  UNCHANGED Book!vars
BY DEF Book!vars, Told

\* A request that is made, in RequestBook.
LEMMA BookBegins ==
    ASSUME NEW c \in Calls, Told(c) = "new", Told(c)' = "waiting", calls'[c].ran = calls[c].ran,
           \A d \in Calls \ {c} : Told(d)' = Told(d) /\ calls'[d].ran = calls[d].ran
    PROVE  Book!Next
<1>1. Book!Begin(c)
  BY DEF Book!Begin, Told
<1> QED
  BY <1>1 DEF Book!Next

\* A handler that runs, in RequestBook.
LEMMA BookRuns ==
    ASSUME NEW c \in Calls, Told(c) \in {"waiting", "gone"}, Told(c)' = Told(c),
           calls[c].ran = "nothing", calls'[c].ran \in {"ok", "failed"},
           \A d \in Calls \ {c} : Told(d)' = Told(d) /\ calls'[d].ran = calls[d].ran
    PROVE  Book!Next
<1>1. Book!Run(c)
  BY DEF Book!Run, Told
<1> QED
  BY <1>1 DEF Book!Next

\* Steps that concern one request.
LEMMA OneSettles ==
    ASSUME Shape, NEW c \in Calls, NEW code, Settle(c, code),
           Told(c) = "waiting", code = IF calls[c].ran = "ok" THEN "ok" ELSE "error"
    PROVE  Book!Next
<1>1. Only(c) /\ calls'[c] = Settled(calls[c], code)
  BY SettleParts
<1>2. calls'[c].pc = "done" /\ calls'[c].code = code /\ calls'[c].ran = calls[c].ran
  BY <1>1 DEF Settled, New
<1>3. BookSettle({c})
  BY <1>1, <1>2 DEF BookSettle, Told, Only
<1> QED
  BY <1>3, BookSettles

\* Or that its page does not notice.
LEMMA OneStays ==
    ASSUME NEW c \in Calls, Only(c), Told(c)' = Told(c), calls'[c].ran = calls[c].ran
    PROVE  UNCHANGED Book!vars
<1>1. \A d \in Calls : Told(d)' = Told(d) /\ calls'[d].ran = calls[d].ran
  BY DEF Only, Told
<1> QED
  BY <1>1, BookStutters

\* Making a request is making it in the book.
LEMMA SendMaps ==
    ASSUME Shape, NEW c \in Calls, NEW kind, NEW t, Send(c, kind, t)
    PROVE  Book!Next
<1>1. Only(c) /\ calls[c] = New /\ calls'[c] = Request(kind, t)
  BY SendParts
<1>2. /\ calls[c].pc = "new" /\ calls'[c].pc = "sent" /\ calls'[c].live
      /\ calls'[c].ran = calls[c].ran
  BY <1>1 DEF Request, New
<1> QED
  BY <1>1, <1>2, BookBegins DEF Told, Only

\* The API runs a request at most once.
LEMMA ServeMaps ==
    ASSUME Shape, Truthful, NEW c \in Calls, Serve(c)
    PROVE  Book!Next \/ UNCHANGED Book!vars
<1>1. /\ Only(c) /\ calls[c].pc \in {"sent", "refreshing"}
      /\ calls'[c].pc = IF calls[c].pc = "refreshing" THEN "refreshed" ELSE "reply"
      /\ calls'[c].live = calls[c].live
      /\ calls'[c].code \in {"ok", "failed", "unauthorized"}
      /\ \/ calls'[c].ran = calls[c].ran
         \/ calls'[c].ran = calls'[c].code /\ calls'[c].code # "unauthorized"
  BY ServeParts
<1>2. Told(c)' = Told(c) /\ Told(c) \in {"waiting", "gone"}
  BY <1>1 DEF Told
<1>3. CASE calls'[c].ran = calls[c].ran
  BY <1>1, <1>2, <1>3, OneStays
<1>4. CASE calls'[c].ran = calls'[c].code /\ calls'[c].code # "unauthorized"
  <2>1. calls[c].ran = "nothing" /\ calls'[c].ran \in {"ok", "failed"}
    BY <1>1, <1>4 DEF Truthful
  <2>2. \A d \in Calls \ {c} : Told(d)' = Told(d) /\ calls'[d].ran = calls[d].ran
    BY <1>1 DEF Only, Told
  <2> QED
    BY <1>2, <2>1, <2>2, BookRuns
<1> QED
  BY <1>1, <1>3, <1>4

\* An answer settles its request or makes it wait.
LEMMA AnswerMaps ==
    ASSUME Shape, Truthful, NEW c \in Calls, calls[c].live, calls[c].pc = "reply",
           ReceiveOk(c) \/ ReceiveError(c) \/ Enqueue(c) \/ StartRefresh(c)
    PROVE  Book!Next \/ UNCHANGED Book!vars
<1>1. Told(c) = "waiting" /\ (calls[c].code = "ok" <=> calls[c].ran = "ok")
  BY DEF Told, Truthful
<1>2. CASE ReceiveOk(c)
  BY <1>1, <1>2, OneSettles DEF ReceiveOk
<1>3. CASE ReceiveError(c)
  BY <1>1, <1>3, OneSettles DEF ReceiveError
<1>4. CASE Enqueue(c) \/ StartRefresh(c)
  <2>1. /\ Only(c) /\ calls'[c].pc \in {"queued", "refreshing"}
        /\ calls'[c].live = calls[c].live /\ calls'[c].ran = calls[c].ran
    BY <1>4, EnqueueParts, StartRefreshParts
  <2> QED
    BY <1>1, <2>1, OneStays DEF Told
<1> QED
  BY <1>2, <1>3, <1>4

\* A refresh settles nothing or rejects requests that have not run.
LEMMA RefreshMaps ==
    ASSUME Shape, Truthful, NEW c \in Calls, calls[c].live, calls[c].pc = "refreshed",
           ReplayAll(c) \/ RejectAll(c)
    PROVE  Book!Next \/ UNCHANGED Book!vars
<1>1. Waiting(c) \subseteq Calls
  BY DEF Waiting, Queued, OpenIn
<1>2. \A d \in Waiting(c) : Told(d) = "waiting" /\ calls[d].ran = "nothing"
  BY DEF Waiting, Queued, OpenIn, Open, Told, Truthful
<1>3. CASE ReplayAll(c)
  <2>1. ASSUME NEW d \in Calls
        PROVE  Told(d)' = Told(d) /\ calls'[d].ran = calls[d].ran
    <3>1. CASE d \notin Waiting(c)
      BY <1>3, <3>1, ReplayParts DEF Told
    <3>2. CASE d \in Waiting(c)
      <4>1. calls'[d].pc = "sent" /\ calls'[d].live = calls[d].live /\ calls'[d].ran = calls[d].ran
        BY <1>3, <3>2, ReplayParts
      <4>2. calls[d].live
        BY <3>2 DEF Waiting, Queued, OpenIn
      <4> QED
        BY <1>2, <3>2, <4>1, <4>2 DEF Told
    <3> QED
      BY <3>1, <3>2
  <2> QED
    BY <2>1, BookStutters
<1>4. CASE RejectAll(c)
  <2>1. \A d \in Calls : calls'[d] = IF d \in Waiting(c) THEN Settled(calls[d], "error") ELSE calls[d]
    BY <1>4, RejectParts
  <2>2. \A d \in Calls : /\ Settled(calls[d], "error").pc = "done"
                         /\ Settled(calls[d], "error").code = "error"
                         /\ Settled(calls[d], "error").ran = calls[d].ran
    BY DEF Settled, New
  <2>3. ASSUME NEW d \in Calls
        PROVE  /\ Told(d)' = IF d \notin Waiting(c) THEN Told(d)
                             ELSE IF calls[d].ran = "ok" THEN "ok" ELSE "error"
               /\ calls'[d].ran = calls[d].ran
    BY <1>2, <2>1, <2>2 DEF Told
  <2> QED
    BY <1>1, <1>2, <2>3, BookSettles DEF BookSettle
<1> QED
  BY <1>3, <1>4

\* Answers to a page that is gone are not in the book.
LEMMA IgnoreMaps ==
    ASSUME Shape, NEW c \in Calls, ~calls[c].live, calls[c].pc \in {"reply", "refreshed"}, Ignore(c)
    PROVE  UNCHANGED Book!vars
<1>1. Only(c) /\ calls'[c] = Settled(calls[c], "gone")
  BY SettleParts DEF Ignore
<1>2. calls'[c].pc = "done" /\ calls'[c].code = "gone" /\ calls'[c].ran = calls[c].ran
  BY <1>1 DEF Settled, New
<1> QED
  BY <1>1, <1>2, OneStays DEF Told

\* Loading a tab again is leaving a page and beginning a request.
LEMMA ReloadMaps ==
    ASSUME Shape, NEW t \in Tabs, Reload(t)
    PROVE  Book!Next
<1>1. PICK hydrate \in SUBSET {c \in Calls : calls[c] = New} : Reloaded(t, hydrate)
  BY ReloadParts
<1> DEFINE S == OpenIn(t)
<1>2. hydrate \subseteq Calls /\ S \subseteq Calls
  BY DEF OpenIn
<1>3. \A d \in S : Told(d) = "waiting" /\ d \notin hydrate
  BY DEF OpenIn, Open, Told, New
<1>4. \A d \in hydrate : Told(d) = "new" /\ calls[d].ran = "nothing"
  BY DEF Told, New
<1>5. \A d \in Calls : /\ Settled(calls[d], "gone").pc = "done"
                       /\ Settled(calls[d], "gone").code = "gone"
                       /\ Settled(calls[d], "gone").ran = calls[d].ran
  BY DEF Settled, New
<1>6. /\ Request("me", t).pc = "sent" /\ Request("me", t).ran = "nothing"
      /\ Request("me", t).live
  BY DEF Request, New
<1>7. ASSUME NEW d \in Calls
      PROVE  /\ Told(d)' = IF d \in S THEN "gone" ELSE IF d \in hydrate THEN "waiting" ELSE Told(d)
             /\ calls'[d].ran = calls[d].ran
  <2>1. CASE d \in hydrate
    <3>1. calls'[d] = Request("me", t)
      BY <1>1, <2>1 DEF Reloaded
    <3> QED
      BY <1>3, <1>4, <1>6, <2>1, <3>1 DEF Told
  <2>2. CASE d \in Queued(t)
    <3>1. d \in S /\ calls'[d] = Settled(calls[d], "gone")
      BY <1>1, <1>3, <2>2 DEF Reloaded, Queued
    <3> QED
      BY <1>5, <3>1 DEF Told
  <2>3. CASE d \in S \ Queued(t)
    <3>1. /\ calls'[d].live = FALSE /\ calls'[d].pc = calls[d].pc /\ calls'[d].ran = calls[d].ran
      BY <1>1, <1>3, <2>3 DEF Reloaded
    <3>2. calls[d].pc \notin {"new", "done"}
      BY <2>3 DEF OpenIn, Open
    <3> QED
      BY <2>3, <3>1, <3>2 DEF Told
  <2>4. CASE d \notin hydrate \cup S
    <3>1. calls'[d] = calls[d]
      BY <1>1, <2>4 DEF Reloaded
    <3> QED
      BY <2>4, <3>1 DEF Told
  <2> QED
    BY <2>1, <2>2, <2>3, <2>4
<1> HIDE DEF S
<1>8. BookLeave(S, hydrate)
  BY <1>2, <1>3, <1>4, <1>7 DEF BookLeave
<1> QED
  BY <1>2, <1>8, BookLeaves

\* Every step is a step of RequestBook or none.
LEMMA NextMaps == Shape /\ Truthful /\ [Next]_vars => [Book!Next]_Book!vars
<1> SUFFICES ASSUME Shape, Truthful, [Next]_vars
             PROVE  Book!Next \/ UNCHANGED Book!vars
  OBVIOUS
<1>1. CASE UNCHANGED calls
  <2>1. \A c \in Calls : Told(c)' = Told(c) /\ calls'[c].ran = calls[c].ran
    BY <1>1 DEF Told
  <2> QED
    BY <2>1, BookStutters
<1> QED
  BY <1>1, StepCases, SendMaps, ServeMaps, AnswerMaps, RefreshMaps, IgnoreMaps, ReloadMaps

\* Both start with no requests.
LEMMA InitMaps == Init => Book!Init
BY DEF Init, Book!Init, New

\* axios.js:25-71 and AuthContext.jsx keep the promise of RequestBook: the replays
\* of the interceptor never run a request twice, and a page hears of success
\* exactly when the API reported one.
THEOREM RequestsImplemented == Spec => ImplementsRequestBook
<1>1. Init => Shape /\ Truthful
  BY InitShape, InitTruthful
<1>2. Shape /\ Truthful /\ [Next]_vars => Shape' /\ Truthful'
  BY NextShape, NextTruthful
<1> QED
  BY <1>1, <1>2, InitMaps, NextMaps, PTL DEF Spec, ImplementsRequestBook, Book!Spec

-----------------------------------------------------------------------------
(* Signing out. *)

\* Every refresh token in the database was issued.
Issued == owner \in Seq(Accounts) /\ listed \subseteq 1..Len(owner)

\* The first pair is issued at the start.
LEMMA InitIssued == Init => Issued
<1> SUFFICES ASSUME Init PROVE Issued
  OBVIOUS
<1>1. PICK a \in Accounts : owner = <<a>>
  BY DEF Init
<1> QED
  BY <1>1 DEF Init, Issued

\* Issuing a pair adds it at the end.
LEMMA IssueKeeps ==
    ASSUME Issued, NEW a \in Accounts, owner' = Append(owner, a)
    PROVE  /\ owner' \in Seq(Accounts) /\ Len(owner') = Len(owner) + 1 /\ Len(owner) \in Nat
           /\ \A k \in 1..Len(owner) : owner'[k] = owner[k]
           /\ owner'[Len(owner) + 1] = a
BY DEF Issued

\* The API stores only tokens that it issues.
LEMMA ServeIssued ==
    ASSUME Issued, NEW c \in Calls, Serve(c)
    PROVE  Issued'
<1>1. CASE Unauthorized(c) \/ Refuse(c)
  BY <1>1 DEF Unauthorized, Refuse, server, Issued
<1>2. CASE Handle(c) \/ RaiseAlarm(c)
  <2>1. owner' = owner /\ listed' \subseteq listed
    BY <1>2 DEF Handle, RaiseAlarm
  <2> QED
    BY <2>1 DEF Issued
<1>3. CASE Login(c) \/ RotateTokens(c)
  <2>1. \E a \in Accounts : owner' = Append(owner, a)
    <3>1. CASE Login(c)
      BY <3>1 DEF Login, Issue
    <3>2. CASE RotateTokens(c)
      <4>1. calls[c].cookie \in 1..Len(owner) /\ owner' = Append(owner, owner[calls[c].cookie])
        BY <3>2 DEF RotateTokens, Issue, Issued
      <4> QED
        BY <4>1 DEF Issued
    <3> QED
      BY <1>3, <3>1, <3>2
  <2>2. listed' \subseteq listed \cup {Len(owner) + 1}
    BY <1>3 DEF Login, RotateTokens, AddRefreshToken
  <2> QED
    BY <2>1, <2>2, IssueKeeps DEF Issued
<1> QED
  BY <1>1, <1>2, <1>3 DEF Serve

\* Only the API changes what it has stored.
LEMMA ServerSteps ==
    ASSUME [Next]_vars
    PROVE  \/ UNCHANGED <<owner, listed, alarms>>
           \/ \E c \in Calls : Serve(c)
<1>1. ASSUME NEW c \in Calls, Receive(c)
      PROVE  UNCHANGED <<owner, listed, alarms>>
  BY <1>1 DEF Receive, ReceiveOk, ReceiveError, Enqueue, StartRefresh, ReplayAll, RejectAll,
              Ignore, server, history
<1>2. ASSUME NEW c \in Calls, NEW t \in Tabs, NEW kind, Send(c, kind, t)
      PROVE  UNCHANGED <<owner, listed, alarms>>
  BY <1>2 DEF Send, server
<1>3. ASSUME NEW t \in Tabs, Reload(t)
      PROVE  UNCHANGED <<owner, listed, alarms>>
  BY <1>3 DEF Reload, server, history
<1>4. ASSUME NEW k \in Pairs, Expire(k)
      PROVE  UNCHANGED <<owner, listed, alarms>>
  BY <1>4 DEF Expire, history
<1>5. CASE UNCHANGED vars
  BY <1>5 DEF vars, server, history
<1> QED
  BY <1>1, <1>2, <1>3, <1>4, <1>5 DEF Next

\* Every step keeps them issued.
LEMMA NextIssued == Issued /\ [Next]_vars => Issued'
<1> SUFFICES ASSUME Issued, [Next]_vars
             PROVE  Issued'
  OBVIOUS
<1>1. CASE UNCHANGED <<owner, listed, alarms>>
  BY <1>1 DEF Issued
<1> QED
  BY <1>1, ServerSteps, ServeIssued

\* After the logout no refresh has, or is going to have, a token.
Quiet ==
    signedOut =>
        /\ stored = None /\ cookie = None
        /\ \A c \in Calls : Refreshes(c) =>
              calls[c].cookie = None /\ (calls[c].pc = "refreshed" => calls[c].code # "ok")

\* Somebody is signed in at the start.
LEMMA InitQuiet == Init => Quiet
  BY DEF Init, Quiet

\* An answer carries its code.
LEMMA RepliedCode ==
    ASSUME Shape, NEW c \in Calls, NEW code, Replied(c, [calls[c] EXCEPT !.code = code])
    PROVE  calls'[c].code = code
  BY DEF Shape, Fields, Replied

\* A refresh that succeeds had a listed token.
LEMMA Rotated ==
    ASSUME Shape, NEW c \in Calls, Serve(c), calls[c].pc = "refreshing", calls'[c].code = "ok"
    PROVE  RotateTokens(c)
<1>1. ~Unauthorized(c) /\ ~RaiseAlarm(c) /\ ~Refuse(c)
  <2>1. ~Unauthorized(c)
    BY RepliedCode DEF Unauthorized
  <2>2. ~RaiseAlarm(c)
    BY RepliedCode DEF RaiseAlarm
  <2>3. ~Refuse(c)
    BY RepliedCode DEF Refuse
  <2> QED
    BY <2>1, <2>2, <2>3
<1>2. ~Handle(c) /\ ~Login(c)
  BY DEF Handle, Login
<1> QED
  BY <1>1, <1>2 DEF Serve

\* A step after which only c may be a refresh it was not before.
LEMMA OneQuiet ==
    ASSUME Quiet, NEW c \in Calls, Only(c), signedOut' => signedOut,
           signedOut => stored' = None /\ cookie' = None,
           signedOut /\ Refreshes(c)' =>
               calls'[c].cookie = None /\ (calls'[c].pc = "refreshed" => calls'[c].code # "ok")
    PROVE  Quiet'
<1>1. \A d \in Calls \ {c} : calls'[d] = calls[d]
  BY DEF Only
<1> QED
  BY <1>1 DEF Quiet, Refreshes

\* The API refuses a refresh without a token.
LEMMA ServeQuiet ==
    ASSUME Shape, Issued, Quiet, NEW c \in Calls, Serve(c)
    PROVE  Quiet'
<1>1. /\ Only(c) /\ calls[c].pc \in {"sent", "refreshing"}
      /\ calls'[c].pc = IF calls[c].pc = "refreshing" THEN "refreshed" ELSE "reply"
      /\ calls'[c].cookie = calls[c].cookie
  BY ServeParts
<1>2. UNCHANGED <<stored, cookie, signedOut>>
  BY DEF Serve, browser
<1>3. signedOut /\ Refreshes(c)' =>
         calls'[c].cookie = None /\ (calls'[c].pc = "refreshed" => calls'[c].code # "ok")
  <2> SUFFICES ASSUME signedOut, Refreshes(c)'
               PROVE  calls'[c].cookie = None /\ calls'[c].code # "ok"
    OBVIOUS
  <2>1. calls[c].pc = "refreshing" /\ calls[c].cookie = None
    BY <1>1 DEF Refreshes, Quiet
  <2>2. ~RotateTokens(c)
    <3>1. RotateTokens(c) => calls[c].cookie \in listed
      BY DEF RotateTokens
    <3>2. None \notin listed
      BY DEF Issued, None
    <3> QED
      BY <2>1, <3>1, <3>2
  <2> QED
    BY <1>1, <2>1, <2>2, Rotated
<1>4. signedOut => stored' = None /\ cookie' = None
  BY <1>2 DEF Quiet
<1> QED
  BY <1>1, <1>2, <1>3, <1>4, OneQuiet

\* An answer ends the quiet only by signing somebody in.
LEMMA SettleQuiet ==
    ASSUME Shape, Quiet, NEW c \in Calls, calls[c].pc \in {"reply", "refreshed"},
           ReceiveOk(c) \/ ReceiveError(c) \/ Ignore(c)
    PROVE  Quiet'
<1>1. PICK code : Settle(c, code)
  BY DEF ReceiveOk, ReceiveError, Ignore
<1>2. Only(c) /\ calls'[c] = Settled(calls[c], code)
  BY <1>1, SettleParts
<1>3. ~Refreshes(c)'
  <2>1. calls'[c].pc = "done"
    BY <1>2 DEF Settled, New
  <2> QED
    BY <2>1 DEF Refreshes
<1>4. CASE ReceiveOk(c) /\ SignedOut(c)
  <2>1. stored' = None /\ cookie' = None /\ (signedOut' => ~\E d \in Calls : Refreshes(d))
    BY <1>4 DEF SignedOut, clearAuth
  <2>2. \A d \in Calls : Refreshes(d)' => Refreshes(d)
    BY <1>2, <1>3 DEF Only, Refreshes
  <2> QED
    BY <2>1, <2>2 DEF Quiet
<1>5. CASE ReceiveOk(c) /\ SignedIn(c)
  BY <1>5 DEF SignedIn, Quiet
<1>6. CASE ReceiveOk(c) /\ (Fetched(c) \/ Hydrated(c))
  <2>1. UNCHANGED <<stored, cookie, signedOut>>
    BY <1>6 DEF Fetched, Hydrated, browser
  <2>2. signedOut => stored' = None /\ cookie' = None
    BY <2>1 DEF Quiet
  <2> QED
    BY <1>2, <1>3, <2>1, <2>2, OneQuiet
<1>7. CASE ReceiveError(c)
  <2>1. UNCHANGED <<cookie, signedOut>> /\ stored' \in {stored, None}
    BY <1>7 DEF ReceiveError, browser, clearAuth, history
  <2>2. signedOut => stored' = None /\ cookie' = None
    BY <2>1 DEF Quiet
  <2> QED
    BY <1>2, <1>3, <2>1, <2>2, OneQuiet
<1>8. CASE Ignore(c)
  <2>1. UNCHANGED stored /\ (signedOut' => signedOut /\ cookie' = None)
    <3>1. \/ signedOut' = (signedOut /\ cookie' = None)
          \/ UNCHANGED <<cookie, signedOut>>
      BY <1>8, Zenon DEF Ignore
    <3>2. UNCHANGED stored
      BY <1>8 DEF Ignore
    <3>3. signedOut => cookie = None
      BY DEF Quiet
    <3>4. CASE signedOut' = (signedOut /\ cookie' = None)
      <4>1. signedOut' => signedOut /\ cookie' = None
        BY <3>4, Zenon
      <4> QED
        BY <3>2, <4>1
    <3>5. CASE UNCHANGED <<cookie, signedOut>>
      <4>1. cookie' = cookie /\ signedOut' = signedOut
        BY <3>5
      <4> QED
        BY <3>2, <3>3, <4>1
    <3> QED
      BY <3>1, <3>4, <3>5
  <2>2. \A d \in Calls : Refreshes(d)' => Refreshes(d) /\ calls'[d] = calls[d]
    BY <1>2, <1>3 DEF Only, Refreshes
  <2> QED
    BY <2>1, <2>2 DEF Quiet
<1> QED
  BY <1>4, <1>5, <1>6, <1>7, <1>8 DEF ReceiveOk

\* Every step keeps the quiet.
LEMMA NextQuiet == Shape /\ Issued /\ Quiet /\ [Next]_vars => Quiet'
<1> SUFFICES ASSUME Shape, Issued, Quiet, [Next]_vars
             PROVE  Quiet'
  OBVIOUS
<1>1. ASSUME NEW c \in Calls, NEW t \in Tabs, NEW kind, Send(c, kind, t)
      PROVE  Quiet'
  <2>1. Only(c) /\ calls'[c] = Request(kind, t) /\ UNCHANGED <<stored, cookie, signedOut>>
    BY <1>1, SendParts DEF Send, browser
  <2>2. ~Refreshes(c)'
    <3>1. calls'[c].pc = "sent"
      BY <2>1 DEF Request, New
    <3> QED
      BY <3>1 DEF Refreshes
  <2>3. signedOut => stored' = None /\ cookie' = None
    BY <2>1 DEF Quiet
  <2> QED
    BY <2>1, <2>2, <2>3, OneQuiet
<1>2. ASSUME NEW c \in Calls, Enqueue(c) \/ StartRefresh(c)
      PROVE  Quiet'
  <2>1. UNCHANGED <<stored, cookie, signedOut>> /\ Only(c)
    BY <1>2, EnqueueParts, StartRefreshParts DEF Enqueue, StartRefresh, browser, history
  <2>2. \/ calls'[c].pc = "queued"
        \/ calls'[c].pc = "refreshing" /\ calls'[c].cookie = cookie
    BY <1>2, EnqueueParts, StartRefreshParts
  <2>3. signedOut => stored' = None /\ cookie' = None /\ cookie = None
    BY <2>1 DEF Quiet
  <2>4. signedOut /\ Refreshes(c)' =>
           calls'[c].cookie = None /\ (calls'[c].pc = "refreshed" => calls'[c].code # "ok")
    BY <2>2, <2>3 DEF Refreshes
  <2> QED
    BY <2>1, <2>3, <2>4, OneQuiet
<1>3. ASSUME NEW c \in Calls, calls[c].pc = "refreshed", ReplayAll(c)
      PROVE  Quiet'
  <2>1. calls[c].code = "ok" /\ signedOut' = signedOut
    BY <1>3 DEF ReplayAll, history
  <2>2. ~signedOut
    BY <1>3, <2>1 DEF Quiet, Refreshes
  <2> QED
    BY <2>1, <2>2 DEF Quiet
<1>4. ASSUME NEW c \in Calls, RejectAll(c)
      PROVE  Quiet'
  <2>1. stored' = None /\ UNCHANGED <<cookie, signedOut>>
    BY <1>4 DEF RejectAll, history
  <2>2. \A d \in Calls : calls'[d] = IF d \in Waiting(c) THEN Settled(calls[d], "error") ELSE calls[d]
    BY <1>4, RejectParts
  <2>3. \A d \in Calls : Settled(calls[d], "error").pc = "done"
    BY DEF Settled, New
  <2>4. \A d \in Calls : calls'[d] = calls[d] \/ calls'[d].pc = "done"
    BY <2>2, <2>3
  <2> QED
    BY <2>1, <2>4 DEF Quiet, Refreshes
<1>5. ASSUME NEW t \in Tabs, Reload(t)
      PROVE  Quiet'
  <2>1. UNCHANGED <<stored, cookie, signedOut>>
    BY <1>5 DEF Reload, browser, history
  <2>2. PICK hydrate \in SUBSET {c \in Calls : calls[c] = New} : Reloaded(t, hydrate)
    BY <1>5, ReloadParts
  <2>3. \A d \in Calls : Settled(calls[d], "gone").pc = "done"
    BY DEF Settled, New
  <2>4. Request("me", t).pc = "sent"
    BY DEF Request, New
  <2>5. ASSUME NEW d \in Calls
        PROVE  \/ calls'[d].pc \in {"done", "sent"}
               \/ /\ calls'[d].pc = calls[d].pc /\ calls'[d].code = calls[d].code
                  /\ calls'[d].cookie = calls[d].cookie
    BY <2>2, <2>3, <2>4 DEF Reloaded
  <2> QED
    BY <2>1, <2>5 DEF Quiet, Refreshes
<1>6. ASSUME NEW k \in Pairs, Expire(k)
      PROVE  Quiet'
  BY <1>6 DEF Expire, browser, history, Quiet, Refreshes
<1>7. CASE UNCHANGED vars
  BY <1>7 DEF vars, browser, history, Quiet, Refreshes
<1>8. ASSUME NEW c \in Calls, Receive(c)
      PROVE  Quiet'
  BY <1>2, <1>3, <1>4, <1>8, SettleQuiet DEF Receive
<1> QED
  BY <1>1, <1>5, <1>6, <1>7, <1>8, ServeQuiet DEF Next

\* useAuth.js:44-58, axios.js:52-57: a logout that met no refresh in flight lasts
\* until somebody signs in, whatever answers, reloads and requests of other tabs
\* come later.
THEOREM LogoutLasts == Spec => []StaysSignedOut
<1>1. Init => Shape /\ Issued /\ Quiet
  BY InitShape, InitIssued, InitQuiet
<1>2. Shape /\ Issued /\ Quiet /\ [Next]_vars => Shape' /\ Issued' /\ Quiet'
  BY NextShape, NextIssued, NextQuiet
<1>3. Quiet => StaysSignedOut
  BY DEF Quiet, StaysSignedOut
<1> QED
  BY <1>1, <1>2, <1>3, PTL DEF Spec

-----------------------------------------------------------------------------
(* Types. *)

\* The requests that may be made when n pairs have been issued.
Recs(n) ==
    [pc : {"new", "sent", "reply", "queued", "refreshing", "refreshed", "done"},
     kind : {"none", "api", "me", "login", "logout"},
     tab : Tabs \cup {Nowhere}, live : BOOLEAN, retry : BOOLEAN,
     token : 0..n, cookie : 0..n, pair : 0..n,
     as : Accounts \cup {Nobody}, ranAs : Accounts \cup {Nobody},
     code : {"none", "ok", "failed", "unauthorized", "error", "gone"},
     ran : {"nothing", "ok", "failed"}]

\* The login that succeeded has brought a pair.
LoginPair(q) == q.pc # "done" /\ q.kind = "login" /\ q.code = "ok" => q.pair # None

\* TypeOK, with what has to be known besides.
Typed ==
    /\ owner \in Seq(Accounts)
    /\ listed \in SUBSET (1..Len(owner)) /\ stale \in SUBSET (1..Len(owner))
    /\ alarms \in SUBSET (1..Len(owner)) /\ evicted \in SUBSET (1..Len(owner))
    /\ shared \in SUBSET (0..Len(owner))
    /\ cookie \in 0..Len(owner) /\ stored \in 0..Len(owner)
    /\ saved \in Accounts \cup {Nobody}
    /\ user \in [Tabs -> Accounts \cup {Nobody}]
    /\ refreshing \in SUBSET Tabs /\ leaving \in SUBSET Tabs
    /\ calls \in [Calls -> Recs(Len(owner))]
    /\ signedOut \in BOOLEAN /\ muddled \in SUBSET Tabs
    /\ \A c \in Calls : LoginPair(calls[c])

\* It says what the types are.
LEMMA TypedSays == Typed => TypeOK
<1> SUFFICES ASSUME Typed PROVE TypeOK
  OBVIOUS
<1>1. Pairs = 1..Len(owner) /\ Pairs \cup {None} = 0..Len(owner)
  BY DEF Typed, Pairs, None
<1>2. Records = Recs(Len(owner))
  BY <1>1 DEF Records, Recs
<1> QED
  BY <1>1, <1>2 DEF Typed, TypeOK

\* A request that was not made is one of them.
LEMMA NewTyped == ASSUME NEW n \in Nat PROVE New \in Recs(n) /\ LoginPair(New)
BY DEF New, Recs, None, Nowhere, Nobody, LoginPair

\* At the start one pair was issued, and no request was made.
LEMMA InitTyped == Init => Typed
<1> SUFFICES ASSUME Init PROVE Typed
  OBVIOUS
<1>1. PICK a \in Accounts : owner = <<a>> /\ saved = a /\ user = [t \in Tabs |-> a]
  BY DEF Init
<1>2. Len(owner) = 1 /\ owner \in Seq(Accounts)
  BY <1>1
<1>3. New \in Recs(1) /\ LoginPair(New)
  BY NewTyped
<1>4. /\ listed = {1} /\ stale = {} /\ alarms = {} /\ evicted = {} /\ shared = {}
      /\ cookie = 1 /\ stored = 1
      /\ refreshing = {} /\ leaving = {} /\ signedOut = FALSE /\ muddled = {}
      /\ calls = [c \in Calls |-> New]
  BY DEF Init
<1>5. calls \in [Calls -> Recs(Len(owner))] /\ \A c \in Calls : LoginPair(calls[c])
  BY <1>2, <1>3, <1>4
<1>6. user \in [Tabs -> Accounts \cup {Nobody}]
  BY <1>1
<1>7. /\ {1} \in SUBSET (1..Len(owner)) /\ {} \in SUBSET (1..Len(owner))
      /\ {} \in SUBSET (0..Len(owner)) /\ 1 \in 0..Len(owner)
  BY <1>2
<1>8. saved \in Accounts \cup {Nobody} /\ owner \in Seq(Accounts)
  BY <1>1, <1>2
<1> QED
  BY <1>4, <1>5, <1>6, <1>7, <1>8 DEF Typed

\* The same request when more pairs have been issued.
LEMMA RecsGrow ==
    ASSUME NEW n \in Nat, NEW m \in Nat, n <= m
    PROVE  Recs(n) \subseteq Recs(m)
<1>1. \A i \in 0..n : i \in 0..m
  OBVIOUS
<1> QED
  BY <1>1 DEF Recs

\* One field of a request is set.
LEMMA RecsSet ==
    ASSUME NEW n \in Nat, NEW q \in Recs(n)
    PROVE  /\ \A x \in {"new", "sent", "reply", "queued", "refreshing", "refreshed", "done"} :
                 [q EXCEPT !.pc = x] \in Recs(n)
           /\ \A x \in BOOLEAN : [q EXCEPT !.live = x] \in Recs(n) /\ [q EXCEPT !.retry = x] \in Recs(n)
           /\ \A x \in 0..n : /\ [q EXCEPT !.token = x] \in Recs(n)
                              /\ [q EXCEPT !.cookie = x] \in Recs(n)
                              /\ [q EXCEPT !.pair = x] \in Recs(n)
           /\ \A x \in {"none", "ok", "failed", "unauthorized"} : [q EXCEPT !.code = x] \in Recs(n)
           /\ \A x \in {"ok", "failed"} : [q EXCEPT !.ran = x] \in Recs(n)
           /\ \A x \in Accounts : [q EXCEPT !.ranAs = x] \in Recs(n)
<1>1. \A x \in {"new", "sent", "reply", "queued", "refreshing", "refreshed", "done"} :
         [q EXCEPT !.pc = x] \in Recs(n)
  BY SMTT(20) DEF Recs
<1>2. \A x \in BOOLEAN : [q EXCEPT !.live = x] \in Recs(n) /\ [q EXCEPT !.retry = x] \in Recs(n)
  BY SMTT(20) DEF Recs
<1>3. \A x \in 0..n : /\ [q EXCEPT !.token = x] \in Recs(n)
                      /\ [q EXCEPT !.cookie = x] \in Recs(n)
                      /\ [q EXCEPT !.pair = x] \in Recs(n)
  BY SMTT(20) DEF Recs
<1>4. /\ \A x \in {"none", "ok", "failed", "unauthorized"} : [q EXCEPT !.code = x] \in Recs(n)
      /\ \A x \in {"ok", "failed"} : [q EXCEPT !.ran = x] \in Recs(n)
      /\ \A x \in Accounts : [q EXCEPT !.ranAs = x] \in Recs(n)
  BY SMTT(20) DEF Recs
<1> QED
  BY <1>1, <1>2, <1>3, <1>4

\* A record with the right fields is a request.
LEMMA FieldsTyped ==
    ASSUME NEW n \in Nat, NEW r, r = [f \in Fields |-> r[f]],
           r.pc \in {"new", "sent", "reply", "queued", "refreshing", "refreshed", "done"},
           r.kind \in {"none", "api", "me", "login", "logout"},
           r.tab \in Tabs \cup {Nowhere}, r.live \in BOOLEAN, r.retry \in BOOLEAN,
           r.token \in 0..n, r.cookie \in 0..n, r.pair \in 0..n,
           r.as \in Accounts \cup {Nobody}, r.ranAs \in Accounts \cup {Nobody},
           r.code \in {"none", "ok", "failed", "unauthorized", "error", "gone"},
           r.ran \in {"nothing", "ok", "failed"}
    PROVE  r \in Recs(n)
BY DEF Recs, Fields

\* A request that is over.
LEMMA SettledTyped ==
    ASSUME NEW n \in Nat, NEW q \in Recs(n), NEW code \in {"ok", "error", "gone"}
    PROVE  Settled(q, code) \in Recs(n) /\ LoginPair(Settled(q, code))
<1>1. /\ q.as \in Accounts \cup {Nobody} /\ q.kind \in {"none", "api", "me", "login", "logout"}
      /\ q.tab \in Tabs \cup {Nowhere} /\ q.ran \in {"nothing", "ok", "failed"}
      /\ q.ranAs \in Accounts \cup {Nobody}
  BY DEF Recs
<1>2. code \in {"none", "ok", "failed", "unauthorized", "error", "gone"} /\ 0 \in 0..n
  OBVIOUS
<1> DEFINE r == Settled(q, code)
<1>3. /\ r.pc = "done" /\ r.kind = q.kind /\ r.tab = q.tab /\ r.live = FALSE /\ r.retry = FALSE
      /\ r.token = 0 /\ r.cookie = 0 /\ r.pair = 0
      /\ r.as = q.as /\ r.code = code /\ r.ran = q.ran /\ r.ranAs = q.ranAs
  BY DEF Settled, New, None
<1>4. r = [f \in Fields |-> r[f]]
  BY ZenonT(30) DEF Settled, New, Fields
<1> HIDE DEF r
<1>5. r \in Recs(n)
  BY <1>1, <1>2, <1>3, <1>4, FieldsTyped
<1> QED
  BY <1>3, <1>5 DEF LoginPair, r

\* A request that is made.
LEMMA RequestTyped ==
    ASSUME Typed, NEW t \in Tabs, NEW kind \in {"api", "me", "login", "logout"}
    PROVE  Request(kind, t) \in Recs(Len(owner)) /\ LoginPair(Request(kind, t))
<1>1. /\ stored \in 0..Len(owner) /\ cookie \in 0..Len(owner) /\ 0 \in 0..Len(owner)
      /\ user[t] \in Accounts \cup {Nobody} /\ Len(owner) \in Nat
  BY DEF Typed
<1> DEFINE r == Request(kind, t)
<1>2. /\ r.pc = "sent" /\ r.kind = kind /\ r.tab = t /\ r.live = TRUE /\ r.retry = FALSE
      /\ r.token = stored /\ r.cookie = IF kind = "api" THEN 0 ELSE cookie
      /\ r.pair = 0 /\ r.as = user[t] /\ r.ranAs = Nobody /\ r.code = "none" /\ r.ran = "nothing"
  BY DEF Request, New, None
<1>3. r = [f \in Fields |-> r[f]]
  BY ZenonT(30) DEF Request, New, Fields
<1> HIDE DEF r
<1>4. r \in Recs(Len(owner))
  BY <1>1, <1>2, <1>3, FieldsTyped
<1> QED
  BY <1>2, <1>4 DEF LoginPair, r

\* What is typed of the requests.
CallsTyped ==
    calls \in [Calls -> Recs(Len(owner))] /\ \A c \in Calls : LoginPair(calls[c])

\* One request changes, and pairs may be issued.
LEMMA OneTyped ==
    ASSUME Typed, NEW c \in Calls, NEW q, calls' = [calls EXCEPT ![c] = q], LoginPair(q),
           Len(owner') \in Nat, Len(owner) <= Len(owner'), q \in Recs(Len(owner'))
    PROVE  CallsTyped'
<1>1. Len(owner) \in Nat /\ calls \in [Calls -> Recs(Len(owner))]
      /\ \A d \in Calls : LoginPair(calls[d])
  BY DEF Typed
<1>2. \A d \in Calls : calls[d] \in Recs(Len(owner'))
  BY <1>1, RecsGrow
<1>3. calls' \in [Calls -> Recs(Len(owner'))]
  BY <1>1, <1>2
<1>4. \A d \in Calls : LoginPair(calls'[d])
  BY <1>1
<1> QED
  BY <1>3, <1>4 DEF CallsTyped, LoginPair, Recs

\* The API answers.
LEMMA RepliedTyped ==
    ASSUME Typed, NEW c \in Calls, NEW q, Replied(c, q),
           q.kind = "login" /\ q.code = "ok" => q.pair # None,
           Len(owner') \in Nat, Len(owner) <= Len(owner'), q \in Recs(Len(owner'))
    PROVE  CallsTyped'
<1> DEFINE r == [q EXCEPT !.pc = IF @ = "refreshing" THEN "refreshed" ELSE "reply"]
<1>1. calls' = [calls EXCEPT ![c] = r]
  BY DEF Replied
<1>2. r \in Recs(Len(owner'))
  BY RecsSet
<1>3. r.kind = q.kind /\ r.code = q.code /\ r.pair = q.pair
  BY DEF Recs
<1> HIDE DEF r
<1> QED
  BY <1>1, <1>2, <1>3, OneTyped DEF LoginPair

\* A request is over.
LEMMA SettleTyped ==
    ASSUME Typed, UNCHANGED owner, NEW c \in Calls, NEW code \in {"ok", "error", "gone"},
           Settle(c, code)
    PROVE  CallsTyped'
<1>1. Len(owner) \in Nat /\ calls[c] \in Recs(Len(owner))
  BY DEF Typed
<1>2. /\ Settled(calls[c], code) \in Recs(Len(owner))
      /\ LoginPair(Settled(calls[c], code))
  BY <1>1, SettledTyped
<1>3. calls' = [calls EXCEPT ![c] = Settled(calls[c], code)]
  BY DEF Settle
<1>4. Len(owner') \in Nat /\ Len(owner) <= Len(owner') /\ Len(owner') = Len(owner)
  BY <1>1
<1>5. Settled(calls[c], code) \in Recs(Len(owner'))
  BY <1>2, <1>4
<1> HIDE DEF Settled
<1> QED
  BY <1>2, <1>3, <1>4, <1>5, OneTyped

\* What is typed of the rest.
RestTyped ==
    /\ owner \in Seq(Accounts)
    /\ listed \in SUBSET (1..Len(owner)) /\ stale \in SUBSET (1..Len(owner))
    /\ alarms \in SUBSET (1..Len(owner)) /\ evicted \in SUBSET (1..Len(owner))
    /\ shared \in SUBSET (0..Len(owner))
    /\ cookie \in 0..Len(owner) /\ stored \in 0..Len(owner)
    /\ saved \in Accounts \cup {Nobody}
    /\ user \in [Tabs -> Accounts \cup {Nobody}]
    /\ refreshing \in SUBSET Tabs /\ leaving \in SUBSET Tabs
    /\ signedOut \in BOOLEAN /\ muddled \in SUBSET Tabs

\* A page makes a request.
LEMMA SendTyped ==
    ASSUME Typed, NEW c \in Calls, NEW kind \in {"api", "login", "logout"}, NEW t \in Tabs,
           Send(c, kind, t)
    PROVE  Typed'
<1>1. calls' = [calls EXCEPT ![c] = Request(kind, t)]
      /\ UNCHANGED <<server, browser, tabs, alarms, evicted, signedOut, muddled>>
      /\ shared' \in {shared, shared \cup {cookie}}
  BY DEF Send
<1>2. RestTyped'
  BY <1>1 DEF Typed, RestTyped, server, browser, tabs
<1>3. Request(kind, t) \in Recs(Len(owner)) /\ LoginPair(Request(kind, t)) /\ Len(owner) \in Nat
  BY RequestTyped DEF Typed
<1>4. Len(owner') \in Nat /\ Len(owner) <= Len(owner') /\ Len(owner') = Len(owner)
  BY <1>1, <1>3 DEF server
<1>5. Request(kind, t) \in Recs(Len(owner'))
  BY <1>3, <1>4
<1>6. CallsTyped'
  BY <1>1, <1>3, <1>4, <1>5, OneTyped
<1> QED
  BY <1>2, <1>6 DEF Typed, CallsTyped, RestTyped

\* The requests as they are after more pairs have been issued.
LEMMA OwnerGrows ==
    ASSUME Typed, NEW a \in Accounts, Issue(a)
    PROVE  /\ owner' \in Seq(Accounts) /\ Len(owner) \in Nat /\ Len(owner') = Len(owner) + 1
           /\ stale' = stale
           /\ 1..Len(owner) \subseteq 1..Len(owner') /\ 0..Len(owner) \subseteq 0..Len(owner')
           /\ Len(owner) + 1 \in 1..Len(owner')
BY DEF Typed, Issue

\* The API answers, and may issue a pair.
LEMMA ServeTyped ==
    ASSUME Typed, NEW c \in Calls, Serve(c)
    PROVE  Typed'
<1> DEFINE q == calls[c]
           n == Len(owner)
<1>0. /\ q \in Recs(n) /\ n \in Nat /\ owner \in Seq(Accounts) /\ Pairs = 1..n
      /\ q.token \in 0..n /\ q.cookie \in 0..n /\ LoginPair(q)
      /\ UNCHANGED <<browser, tabs, signedOut, muddled>>
  BY DEF Typed, Recs, Serve, Pairs
<1>1. CASE Unauthorized(c) \/ Refuse(c) \/ RaiseAlarm(c)
  <2>1. PICK code \in {"unauthorized", "failed"} : Replied(c, [q EXCEPT !.code = code])
    BY <1>1 DEF Unauthorized, Refuse, RaiseAlarm
  <2>2. /\ UNCHANGED <<owner, stale, evicted, shared>> /\ listed' \in SUBSET listed
        /\ alarms' \in SUBSET (alarms \cup ({q.cookie} \cap Pairs))
    BY <1>1 DEF Unauthorized, Refuse, RaiseAlarm, server
  <2>3. RestTyped'
    BY <1>0, <2>2 DEF Typed, RestTyped, browser, tabs
  <2> DEFINE r == [q EXCEPT !.code = code]
  <2>4. r \in Recs(n)
    <3>1. code \in {"none", "ok", "failed", "unauthorized"}
      OBVIOUS
    <3> QED
      BY <1>0, <3>1, RecsSet
  <2>5. r.code # "ok"
    BY <1>0 DEF Recs
  <2>6. Len(owner') = n
    BY <2>2
  <2>7. Replied(c, r)
    BY <2>1
  <2> HIDE DEF q, r, n
  <2>8. CallsTyped'
    <3>1. Len(owner') \in Nat /\ Len(owner) <= Len(owner') /\ r \in Recs(Len(owner'))
      BY <1>0, <2>4, <2>6 DEF n
    <3> QED
      BY <2>5, <2>7, <3>1, RepliedTyped
  <2> QED
    BY <2>3, <2>8 DEF Typed, CallsTyped, RestTyped
<1>2. CASE Handle(c)
  <2>1. PICK o \in {"ok", "failed"} :
           Replied(c, [q EXCEPT !.code = o, !.ran = o, !.ranAs = owner[q.token]])
    BY <1>2 DEF Handle, Outcomes
  <2>2. q.token \in 1..n /\ q.kind # "login"
    BY <1>0, <1>2 DEF Handle
  <2>3. /\ UNCHANGED <<owner, stale, alarms, evicted>> /\ listed' \in SUBSET listed
        /\ shared' \in SUBSET (shared \cup ({q.cookie} \cap Pairs))
    BY <1>2 DEF Handle
  <2>4. RestTyped'
    BY <1>0, <2>3 DEF Typed, RestTyped, browser, tabs
  <2> DEFINE r == [q EXCEPT !.code = o, !.ran = o, !.ranAs = owner[q.token]]
  <2>5. owner[q.token] \in Accounts
    BY <1>0, <2>2
  <2>6. r \in Recs(n)
    <3>1. [q EXCEPT !.code = o] \in Recs(n)
      BY <1>0, RecsSet
    <3>2. [[q EXCEPT !.code = o] EXCEPT !.ran = o] \in Recs(n)
      BY <1>0, <3>1, RecsSet
    <3>3. [[[q EXCEPT !.code = o] EXCEPT !.ran = o] EXCEPT !.ranAs = owner[q.token]] \in Recs(n)
      BY <1>0, <2>5, <3>2, RecsSet
    <3> QED
      BY <3>3
  <2>7. r.kind # "login"
    BY <1>0, <2>2 DEF Recs
  <2> HIDE DEF r
  <2>8. Replied(c, r)
    BY <2>1 DEF r
  <2>9. CallsTyped'
    BY <1>0, <2>3, <2>6, <2>7, <2>8, RepliedTyped
  <2> QED
    BY <2>4, <2>9 DEF Typed, CallsTyped, RestTyped
<1>3. CASE Login(c)
  <2>1. PICK a \in Accounts, o \in {"ok", "failed"} :
           /\ Issue(a)
           /\ Replied(c, [q EXCEPT !.code = o, !.ran = o, !.ranAs = a, !.pair = n + 1])
    BY <1>3 DEF Login, Outcomes
  <2>2. /\ UNCHANGED <<alarms, shared>>
        /\ listed' \in SUBSET (listed \cup {n + 1}) /\ evicted' \in SUBSET (evicted \cup listed)
    BY <1>3 DEF Login, AddRefreshToken, Oldest
  <2>3. /\ owner' \in Seq(Accounts) /\ Len(owner') = n + 1 /\ stale' = stale
        /\ 1..n \subseteq 1..(n + 1) /\ 0..n \subseteq 0..(n + 1) /\ n + 1 \in 1..(n + 1)
        /\ n + 1 \in Nat /\ n <= n + 1 /\ n + 1 \in 0..(n + 1)
    BY <1>0, <2>1, OwnerGrows
  <2>4. RestTyped'
    BY <1>0, <2>2, <2>3 DEF Typed, RestTyped, browser, tabs
  <2> DEFINE r == [q EXCEPT !.code = o, !.ran = o, !.ranAs = a, !.pair = n + 1]
  <2>5. r \in Recs(n + 1)
    <3>0. q \in Recs(n + 1)
      BY <1>0, <2>3, RecsGrow
    <3>1. [q EXCEPT !.code = o] \in Recs(n + 1)
      BY <2>3, <3>0, RecsSet
    <3>2. [[q EXCEPT !.code = o] EXCEPT !.ran = o] \in Recs(n + 1)
      BY <2>3, <3>1, RecsSet
    <3>3. [[[q EXCEPT !.code = o] EXCEPT !.ran = o] EXCEPT !.ranAs = a] \in Recs(n + 1)
      BY <2>3, <3>2, RecsSet
    <3>4. [[[[q EXCEPT !.code = o] EXCEPT !.ran = o] EXCEPT !.ranAs = a] EXCEPT !.pair = n + 1]
             \in Recs(n + 1)
      BY <2>3, <3>3, RecsSet
    <3> QED
      BY <3>4
  <2>6. r.pair # None
    BY <1>0 DEF Recs, None
  <2> HIDE DEF r
  <2>7. Replied(c, r)
    BY <2>1 DEF r
  <2>8. CallsTyped'
    BY <1>0, <2>3, <2>5, <2>6, <2>7, RepliedTyped
  <2> QED
    BY <2>4, <2>8 DEF Typed, CallsTyped, RestTyped
<1>4. CASE RotateTokens(c)
  <2>1. PICK o \in {"ok", "failed"} :
           /\ Replied(c, [q EXCEPT !.code = o, !.pair = n + 1])
           /\ shared' = IF o = "failed" THEN shared \cup {q.cookie} ELSE shared
    BY <1>4 DEF RotateTokens, Outcomes
  <2>2. /\ listed' \in SUBSET (listed \cup {n + 1}) /\ evicted' \in SUBSET (evicted \cup listed)
        /\ q.cookie \in listed /\ Issue(owner[q.cookie]) /\ UNCHANGED alarms
    BY <1>4 DEF RotateTokens, AddRefreshToken, Oldest
  <2>3. owner[q.cookie] \in Accounts
    <3>1. q.cookie \in 1..n
      BY <2>2 DEF Typed
    <3> QED
      BY <1>0, <3>1
  <2>4. /\ owner' \in Seq(Accounts) /\ Len(owner') = n + 1 /\ stale' = stale
        /\ 1..n \subseteq 1..(n + 1) /\ 0..n \subseteq 0..(n + 1) /\ n + 1 \in 1..(n + 1)
        /\ n + 1 \in Nat /\ n <= n + 1 /\ n + 1 \in 0..(n + 1)
    BY <1>0, <2>2, <2>3, OwnerGrows
  <2>5. RestTyped'
    BY <1>0, <2>1, <2>2, <2>4 DEF Typed, RestTyped, browser, tabs
  <2> DEFINE r == [q EXCEPT !.code = o, !.pair = n + 1]
  <2>6. r \in Recs(n + 1)
    <3>0. q \in Recs(n + 1)
      BY <1>0, <2>4, RecsGrow
    <3>1. [q EXCEPT !.code = o] \in Recs(n + 1)
      BY <2>4, <3>0, RecsSet
    <3>2. [[q EXCEPT !.code = o] EXCEPT !.pair = n + 1] \in Recs(n + 1)
      BY <2>4, <3>1, RecsSet
    <3> QED
      BY <3>2
  <2>7. r.pair # None
    BY <1>0 DEF Recs, None
  <2> HIDE DEF r
  <2>8. Replied(c, r)
    BY <2>1 DEF r
  <2>9. CallsTyped'
    BY <1>0, <2>4, <2>6, <2>7, <2>8, RepliedTyped
  <2> QED
    BY <2>5, <2>9 DEF Typed, CallsTyped, RestTyped
<1> QED
  BY <1>1, <1>2, <1>3, <1>4 DEF Serve

\* What a step that issues nothing may do to the browser and the tabs.
LEMMA RestKept ==
    ASSUME Typed, UNCHANGED server, alarms' = alarms, evicted' = evicted,
           shared' \in SUBSET (0..Len(owner)),
           cookie' \in 0..Len(owner), stored' \in 0..Len(owner),
           saved' \in Accounts \cup {Nobody}, user' \in [Tabs -> Accounts \cup {Nobody}],
           refreshing' \in SUBSET Tabs, leaving' \in SUBSET Tabs,
           signedOut' \in BOOLEAN, muddled' \in SUBSET Tabs
    PROVE  RestTyped'
BY DEF Typed, RestTyped, server

\* Every request is changed in its own way.
LEMMA AllTyped ==
    ASSUME Typed, UNCHANGED owner, calls' \in [Calls -> Recs(Len(owner))],
           \A d \in Calls : LoginPair(calls'[d])
    PROVE  CallsTyped'
<1>1. calls' \in [Calls -> Recs(Len(owner'))]
  OBVIOUS
<1> QED
  BY <1>1 DEF CallsTyped, LoginPair, Recs

\* An answer of success arrives: a login brings a pair that was issued.
LEMMA ReceiveOkTyped ==
    ASSUME Typed, NEW c \in Calls, calls[c].pc = "reply", ReceiveOk(c)
    PROVE  Typed'
<1> DEFINE q == calls[c]
<1>1. /\ q \in Recs(Len(owner)) /\ Len(owner) \in Nat /\ owner \in Seq(Accounts)
      /\ q.ranAs \in Accounts \cup {Nobody} /\ q.pair \in 0..Len(owner) /\ LoginPair(q)
      /\ 0 \in 0..Len(owner)
  BY DEF Typed, Recs
<1>2. CallsTyped'
  <2>1. Settle(c, "ok") /\ UNCHANGED owner /\ "ok" \in {"ok", "error", "gone"}
    BY DEF ReceiveOk, server
  <2> QED
    BY <2>1, SettleTyped
<1>3. /\ cookie \in 0..Len(owner) /\ stored \in 0..Len(owner) /\ saved \in Accounts \cup {Nobody}
      /\ user \in [Tabs -> Accounts \cup {Nobody}] /\ signedOut \in BOOLEAN /\ muddled \in SUBSET Tabs
  BY DEF Typed
<1>4. /\ cookie' \in 0..Len(owner) /\ stored' \in 0..Len(owner) /\ saved' \in Accounts \cup {Nobody}
      /\ user' \in [Tabs -> Accounts \cup {Nobody}] /\ signedOut' \in BOOLEAN
      /\ muddled' \in SUBSET Tabs
  <2>1. CASE Fetched(c)
    BY <1>3, <2>1 DEF Fetched, browser
  <2>2. CASE Hydrated(c)
    BY <1>1, <1>3, <2>2 DEF Hydrated
  <2>3. CASE SignedIn(c)
    <3>1. q.pair \in 1..Len(owner)
      BY <1>1, <2>3 DEF SignedIn, LoginPair, ReceiveOk, None
    <3>2. owner[q.pair] \in Accounts
      BY <1>1, <3>1
    <3> QED
      BY <1>1, <1>3, <2>3, <3>1, <3>2 DEF SignedIn, setAuth
  <2>4. CASE SignedOut(c)
    BY <1>1, <1>3, <2>4 DEF SignedOut, clearAuth, None
  <2> QED
    BY <2>1, <2>2, <2>3, <2>4 DEF ReceiveOk
<1>5. RestTyped'
  <2>1. /\ UNCHANGED <<server, alarms, evicted>> /\ shared' \in SUBSET (0..Len(owner))
        /\ refreshing' \in SUBSET Tabs /\ leaving' \in SUBSET Tabs
    BY DEF ReceiveOk, Typed
  <2> QED
    BY <1>4, <2>1, RestKept
<1> QED
  BY <1>2, <1>5 DEF Typed, CallsTyped, RestTyped

\* An error arrives that the page is told of.
LEMMA ReceiveErrorTyped ==
    ASSUME Typed, NEW c \in Calls, ReceiveError(c)
    PROVE  Typed'
<1>1. CallsTyped'
  <2>1. Settle(c, "error") /\ UNCHANGED owner /\ "error" \in {"ok", "error", "gone"}
    BY DEF ReceiveError, server
  <2> QED
    BY <2>1, SettleTyped
<1>2. RestTyped'
  BY DEF Typed, RestTyped, ReceiveError, clearAuth, None, server, browser, history
<1> QED
  BY <1>1, <1>2 DEF Typed, CallsTyped, RestTyped

\* A request waits for the refresh of another.
LEMMA EnqueueTyped ==
    ASSUME Typed, NEW c \in Calls, Enqueue(c)
    PROVE  Typed'
<1> DEFINE q == calls[c]
           r == [q EXCEPT !.pc = "queued"]
<1>1. q \in Recs(Len(owner)) /\ Len(owner) \in Nat /\ q.code = "unauthorized"
  BY DEF Typed, Enqueue, NeedsRefresh
<1>2. calls' = [calls EXCEPT ![c] = r] /\ UNCHANGED <<server, browser, tabs, history>>
  BY DEF Enqueue
<1>3. r \in Recs(Len(owner))
  BY <1>1, RecsSet
<1>4. LoginPair(r)
  BY <1>1 DEF LoginPair, Recs
<1> HIDE DEF q, r
<1>5. Len(owner') \in Nat /\ Len(owner) <= Len(owner') /\ r \in Recs(Len(owner'))
  BY <1>1, <1>2, <1>3 DEF server
<1>6. CallsTyped'
  BY <1>2, <1>4, <1>5, OneTyped
<1>7. RestTyped'
  BY <1>2 DEF Typed, RestTyped, server, browser, tabs, history
<1> QED
  BY <1>6, <1>7 DEF Typed, CallsTyped, RestTyped

\* A request posts a refresh.
LEMMA StartRefreshTyped ==
    ASSUME Typed, NEW c \in Calls, StartRefresh(c), calls[c].tab \in Tabs
    PROVE  Typed'
<1> DEFINE q == calls[c]
           r == [q EXCEPT !.pc = "refreshing", !.retry = TRUE, !.cookie = cookie]
<1>1. /\ q \in Recs(Len(owner)) /\ Len(owner) \in Nat /\ q.code = "unauthorized"
      /\ cookie \in 0..Len(owner)
  BY DEF Typed, StartRefresh, NeedsRefresh
<1>2. calls' = [calls EXCEPT ![c] = r] /\ UNCHANGED server
  BY DEF StartRefresh
<1>3. r \in Recs(Len(owner))
  <2>1. [q EXCEPT !.pc = "refreshing"] \in Recs(Len(owner))
    BY <1>1, RecsSet
  <2>2. [[q EXCEPT !.pc = "refreshing"] EXCEPT !.retry = TRUE] \in Recs(Len(owner))
    BY <1>1, <2>1, RecsSet
  <2>3. [[[q EXCEPT !.pc = "refreshing"] EXCEPT !.retry = TRUE] EXCEPT !.cookie = cookie]
           \in Recs(Len(owner))
    BY <1>1, <2>2, RecsSet
  <2> QED
    BY <2>3
<1>4. LoginPair(r)
  BY <1>1 DEF LoginPair, Recs
<1> HIDE DEF q, r
<1>5. Len(owner') \in Nat /\ Len(owner) <= Len(owner') /\ r \in Recs(Len(owner'))
  BY <1>1, <1>2, <1>3 DEF server
<1>6. CallsTyped'
  BY <1>2, <1>4, <1>5, OneTyped
<1>7. RestTyped'
  <2>1. /\ UNCHANGED <<server, browser, user, leaving, alarms, evicted, signedOut, muddled>>
        /\ refreshing' = refreshing \cup {calls[c].tab}
        /\ shared' \in {shared, shared \cup {cookie}}
    BY DEF StartRefresh
  <2> QED
    BY <2>1 DEF Typed, RestTyped, server, browser
<1> QED
  BY <1>6, <1>7 DEF Typed, CallsTyped, RestTyped

\* The requests that waited are sent again.
LEMMA ReplayAllTyped ==
    ASSUME Typed, NEW c \in Calls, ReplayAll(c)
    PROVE  Typed'
<1> DEFINE k == calls[c].pair
           f(d) == IF d \notin Waiting(c) THEN calls[d]
                   ELSE [calls[d] EXCEPT !.pc = "sent", !.token = k, !.code = "none", !.pair = None,
                                         !.cookie = IF calls[d].kind = "api" THEN None ELSE k]
           n == Len(owner)
<1>1. n \in Nat /\ k \in 0..n /\ None \in 0..n
  BY DEF Typed, Recs, None
<1>2. \A d \in Calls : f(d) \in Recs(n) /\ LoginPair(f(d))
  <2> SUFFICES ASSUME NEW d \in Calls PROVE f(d) \in Recs(n) /\ LoginPair(f(d))
    OBVIOUS
  <2>1. calls[d] \in Recs(n) /\ LoginPair(calls[d])
    BY DEF Typed
  <2> DEFINE b == IF calls[d].kind = "api" THEN None ELSE k
             r1 == [calls[d] EXCEPT !.pc = "sent"]
             r2 == [r1 EXCEPT !.token = k]
             r3 == [r2 EXCEPT !.code = "none"]
             r4 == [r3 EXCEPT !.pair = None]
             r5 == [r4 EXCEPT !.cookie = b]
  <2>2. b \in 0..n
    BY <1>1
  <2> HIDE DEF k, b, n
  <2>3. r1 \in Recs(n)
    BY <1>1, <2>1, RecsSet
  <2>4. r2 \in Recs(n)
    <3> HIDE DEF r1
    <3> QED
      BY <1>1, <2>3, RecsSet
  <2>5. r3 \in Recs(n)
    <3> HIDE DEF r2
    <3> QED
      BY <1>1, <2>4, RecsSet
  <2>6. r4 \in Recs(n)
    <3> HIDE DEF r3
    <3> QED
      BY <1>1, <2>5, RecsSet
  <2>7. r5 \in Recs(n) /\ r5.code = "none"
    <3>1. r5 \in Recs(n)
      <4> HIDE DEF r4
      <4> QED
        BY <1>1, <2>2, <2>6, RecsSet
    <3> QED
      BY <2>1, <3>1 DEF Recs
  <2>8. f(d) = IF d \notin Waiting(c) THEN calls[d] ELSE r5
    BY DEF b, k
  <2> HIDE DEF r5, f
  <2> QED
    BY <2>1, <2>7, <2>8 DEF LoginPair
<1>3. calls' = [d \in Calls |-> f(d)] /\ UNCHANGED owner
  BY DEF ReplayAll, server
<1>4. CallsTyped'
  <2> HIDE DEF f, n
  <2>1. calls' \in [Calls -> Recs(n)] /\ \A d \in Calls : LoginPair(calls'[d])
    BY <1>2, <1>3
  <2> QED
    BY <1>3, <2>1, AllTyped DEF n
<1>5. RestTyped'
  <2>1. /\ UNCHANGED <<server, saved, user, leaving, history>>
        /\ cookie' = k /\ stored' = k /\ refreshing' = refreshing \ {calls[c].tab}
    BY DEF ReplayAll
  <2> HIDE DEF k
  <2> QED
    BY <1>1, <2>1 DEF Typed, RestTyped, server, history
<1> QED
  BY <1>4, <1>5 DEF Typed, CallsTyped, RestTyped

\* The requests that waited are over.
LEMMA RejectAllTyped ==
    ASSUME Typed, NEW c \in Calls, RejectAll(c), calls[c].tab \in Tabs
    PROVE  Typed'
<1> DEFINE f(d) == IF d \in Waiting(c) THEN Settled(calls[d], "error") ELSE calls[d]
<1>1. \A d \in Calls : f(d) \in Recs(Len(owner)) /\ LoginPair(f(d))
  <2>1. \A d \in Calls : calls[d] \in Recs(Len(owner)) /\ LoginPair(calls[d])
    BY DEF Typed
  <2>2. \A d \in Calls : /\ Settled(calls[d], "error") \in Recs(Len(owner))
                         /\ LoginPair(Settled(calls[d], "error"))
    <3>1. "error" \in {"ok", "error", "gone"} /\ Len(owner) \in Nat
      BY DEF Typed
    <3> QED
      BY <2>1, <3>1, SettledTyped
  <2> QED
    BY <2>1, <2>2
<1>2. calls' = [d \in Calls |-> f(d)] /\ UNCHANGED owner
  BY DEF RejectAll, server
<1>3. CallsTyped'
  <2> HIDE DEF f
  <2>1. calls' \in [Calls -> Recs(Len(owner))] /\ \A d \in Calls : LoginPair(calls'[d])
    BY <1>1, <1>2
  <2> QED
    BY <1>2, <2>1, AllTyped
<1>4. RestTyped'
  <2>1. /\ UNCHANGED <<server, cookie, history>> /\ stored' = None /\ saved' = Nobody
        /\ user' \in {user, [user EXCEPT ![calls[c].tab] = Nobody]}
        /\ refreshing' = refreshing \ {calls[c].tab} /\ leaving' = leaving \cup {calls[c].tab}
    BY DEF RejectAll
  <2> QED
    BY <2>1 DEF Typed, RestTyped, server, history, None
<1> QED
  BY <1>3, <1>4 DEF Typed, CallsTyped, RestTyped

\* An answer comes to a page that is gone.
LEMMA IgnoreTyped ==
    ASSUME Typed, NEW c \in Calls, Ignore(c)
    PROVE  Typed'
<1>1. CallsTyped'
  <2>1. Settle(c, "gone") /\ UNCHANGED owner /\ "gone" \in {"ok", "error", "gone"}
    BY DEF Ignore, server
  <2> QED
    BY <2>1, SettleTyped
<1>2. calls[c].pair \in 0..Len(owner) /\ calls[c].cookie \in 0..Len(owner)
  BY DEF Typed, Recs
<1>3. /\ UNCHANGED <<server, stored, saved, tabs, alarms, evicted>>
      /\ cookie' \in {cookie, calls[c].pair} /\ signedOut' \in {signedOut, signedOut /\ cookie' = None}
      /\ muddled' \in {muddled, Tabs} /\ shared' \in SUBSET (shared \cup {calls[c].cookie})
  BY DEF Ignore
<1>4. RestTyped'
  BY <1>2, <1>3 DEF Typed, RestTyped, server, tabs
<1> QED
  BY <1>1, <1>4 DEF Typed, CallsTyped, RestTyped

\* A page is loaded again.
LEMMA ReloadTyped ==
    ASSUME Typed, NEW t \in Tabs, Reload(t)
    PROVE  Typed'
<1>1. PICK hydrate \in SUBSET {c \in Calls : calls[c] = New} :
         calls' = [c \in Calls |->
                IF c \in hydrate THEN Request("me", t)
                ELSE IF c \in Queued(t) THEN Settled(calls[c], "gone")
                ELSE IF c \in OpenIn(t) THEN [calls[c] EXCEPT !.live = FALSE]
                ELSE calls[c]]
  BY DEF Reload
<1> DEFINE f(c) == IF c \in hydrate THEN Request("me", t)
                   ELSE IF c \in Queued(t) THEN Settled(calls[c], "gone")
                   ELSE IF c \in OpenIn(t) THEN [calls[c] EXCEPT !.live = FALSE]
                   ELSE calls[c]
<1>2. \A c \in Calls : f(c) \in Recs(Len(owner)) /\ LoginPair(f(c))
  <2> SUFFICES ASSUME NEW c \in Calls PROVE f(c) \in Recs(Len(owner)) /\ LoginPair(f(c))
    OBVIOUS
  <2>1. calls[c] \in Recs(Len(owner)) /\ LoginPair(calls[c]) /\ Len(owner) \in Nat
    BY DEF Typed
  <2>2. Request("me", t) \in Recs(Len(owner)) /\ LoginPair(Request("me", t))
    BY RequestTyped
  <2>3. Settled(calls[c], "gone") \in Recs(Len(owner)) /\ LoginPair(Settled(calls[c], "gone"))
    BY <2>1, SettledTyped
  <2>4. [calls[c] EXCEPT !.live = FALSE] \in Recs(Len(owner))
    BY <2>1, RecsSet
  <2>5. LoginPair([calls[c] EXCEPT !.live = FALSE])
    BY <2>1 DEF LoginPair, Recs
  <2> QED
    BY <2>1, <2>2, <2>3, <2>4, <2>5
<1>3. CallsTyped'
  <2>1. calls' = [c \in Calls |-> f(c)] /\ UNCHANGED owner
    BY <1>1 DEF Reload, server
  <2> HIDE DEF f
  <2>2. calls' \in [Calls -> Recs(Len(owner))] /\ \A c \in Calls : LoginPair(calls'[c])
    BY <1>2, <2>1
  <2> QED
    BY <2>1, <2>2, AllTyped
<1>4. RestTyped'
  <2>1. /\ user' = [user EXCEPT ![t] = saved] /\ refreshing' = refreshing \ {t}
        /\ leaving' = leaving \ {t} /\ UNCHANGED <<server, browser, history>>
    BY DEF Reload
  <2> QED
    BY <2>1 DEF Typed, RestTyped, server, browser, history
<1> QED
  BY <1>3, <1>4 DEF Typed, CallsTyped, RestTyped

\* An access token expires.
LEMMA ExpireTyped ==
    ASSUME Typed, NEW k \in Pairs, Expire(k)
    PROVE  Typed'
<1>1. k \in 1..Len(owner)
  BY DEF Typed, Pairs
<1>2. stale' = stale \cup {k} /\ UNCHANGED <<owner, listed, browser, tabs, calls, history>>
  BY DEF Expire
<1> QED
  BY <1>1, <1>2 DEF Typed, browser, tabs, history, LoginPair, Recs

-----------------------------------------------------------------------------
(* Where requests come from. *)

\* A request that was made has a kind and a tab, and a refused password starts
\* no refresh.
Placed ==
    \A c \in Calls : /\ calls[c].pc # "new" => calls[c].kind # "none"
                     /\ calls[c].kind # "none" => calls[c].tab \in Tabs
                     /\ calls[c].kind = "login" => ~Refreshes(c)

\* At the start no request was made.
LEMMA InitPlaced == Init => Placed
BY DEF Init, Placed, New, Refreshes

\* What a step may make of a request.
Keeps(d) ==
    /\ calls'[d].kind = calls[d].kind /\ calls'[d].tab = calls[d].tab
    /\ calls[d].pc # "new" \/ calls'[d].pc = calls[d].pc
    /\ \/ calls'[d].pc \notin {"refreshing", "refreshed"} \/ Refreshes(d)
       \/ calls[d].kind # "login"

Begins(d) == \E t \in Tabs, kind \in {"api", "me", "login", "logout"} : calls'[d] = Request(kind, t)

\* It is enough to look at what a step makes of each request.
LEMMA StepsPlaced ==
    ASSUME Placed, \A d \in Calls : calls'[d] = calls[d] \/ Keeps(d) \/ Begins(d)
    PROVE  Placed'
<1> SUFFICES ASSUME NEW d \in Calls
             PROVE  /\ calls'[d].pc # "new" => calls'[d].kind # "none"
                    /\ calls'[d].kind # "none" => calls'[d].tab \in Tabs
                    /\ calls'[d].kind = "login" => calls'[d].pc \notin {"refreshing", "refreshed"}
  BY DEF Placed, Refreshes
<1>1. CASE calls'[d] = calls[d]
  BY <1>1 DEF Placed, Refreshes
<1>2. CASE Keeps(d)
  BY <1>2 DEF Placed, Keeps, Refreshes
<1>3. CASE Begins(d)
  <2>1. PICK t \in Tabs, kind \in {"api", "me", "login", "logout"} : calls'[d] = Request(kind, t)
    BY <1>3 DEF Begins
  <2>2. Request(kind, t).pc = "sent" /\ Request(kind, t).kind = kind /\ Request(kind, t).tab = t
    BY DEF Request, New
  <2> QED
    BY <2>1, <2>2
<1> QED
  BY <1>1, <1>2, <1>3

\* Every step keeps a request what it is, or makes a new one.
LEMMA NextPlaced == Shape /\ Placed /\ [Next]_vars => Placed'
<1> SUFFICES ASSUME Shape, Placed, [Next]_vars
             PROVE  \A d \in Calls : calls'[d] = calls[d] \/ Keeps(d) \/ Begins(d)
  BY StepsPlaced
<1>1. CASE UNCHANGED calls
  BY <1>1
<1>2. ASSUME NEW c \in Calls, Only(c), Keeps(c) \/ Begins(c)
      PROVE  \A d \in Calls : calls'[d] = calls[d] \/ Keeps(d) \/ Begins(d)
  BY <1>2 DEF Only
<1>3. ASSUME NEW c \in Calls, NEW code, Settle(c, code), calls[c].pc # "new"
      PROVE  \A d \in Calls : calls'[d] = calls[d] \/ Keeps(d) \/ Begins(d)
  <2>1. Only(c) /\ calls'[c] = Settled(calls[c], code)
    BY <1>3, SettleParts
  <2>2. Keeps(c)
    BY <1>3, <2>1 DEF Settled, New, Keeps
  <2> QED
    BY <1>2, <2>1, <2>2
<1>4. ASSUME NEW c \in Calls, NEW kind \in {"api", "login", "logout"}, NEW t \in Tabs, Send(c, kind, t)
      PROVE  \A d \in Calls : calls'[d] = calls[d] \/ Keeps(d) \/ Begins(d)
  BY <1>2, <1>4, SendParts DEF Begins
<1>5. ASSUME NEW c \in Calls, Serve(c)
      PROVE  \A d \in Calls : calls'[d] = calls[d] \/ Keeps(d) \/ Begins(d)
  <2>1. Only(c) /\ Keeps(c)
    BY <1>5, ServeParts DEF Keeps, Refreshes
  <2> QED
    BY <1>2, <2>1
<1>6. ASSUME NEW c \in Calls, Enqueue(c) \/ StartRefresh(c), calls[c].pc # "new"
      PROVE  \A d \in Calls : calls'[d] = calls[d] \/ Keeps(d) \/ Begins(d)
  <2>1. calls[c].kind # "login"
    BY <1>6 DEF Enqueue, StartRefresh, NeedsRefresh
  <2>2. Only(c) /\ Keeps(c)
    BY <1>6, <2>1, EnqueueParts, StartRefreshParts DEF Keeps
  <2> QED
    BY <1>2, <2>2
<1>7. ASSUME NEW c \in Calls, ReplayAll(c) \/ RejectAll(c), calls[c].pc # "new"
      PROVE  \A d \in Calls : calls'[d] = calls[d] \/ Keeps(d) \/ Begins(d)
  <2> SUFFICES ASSUME NEW d \in Calls
               PROVE  calls'[d] = calls[d] \/ Keeps(d)
    OBVIOUS
  <2>1. d \in Waiting(c) => calls[d].pc # "new"
    BY <1>7 DEF Waiting, Queued
  <2>2. CASE ReplayAll(c)
    BY <2>1, <2>2, ReplayParts DEF Keeps
  <2>3. CASE RejectAll(c)
    <3>1. calls'[d] = IF d \in Waiting(c) THEN Settled(calls[d], "error") ELSE calls[d]
      BY <2>3, RejectParts
    <3>2. /\ Settled(calls[d], "error").kind = calls[d].kind
          /\ Settled(calls[d], "error").tab = calls[d].tab
          /\ Settled(calls[d], "error").pc = "done"
      BY DEF Settled, New
    <3> QED
      BY <2>1, <3>1, <3>2 DEF Keeps
  <2> QED
    BY <1>7, <2>2, <2>3
<1>8. ASSUME NEW t \in Tabs, Reload(t)
      PROVE  \A d \in Calls : calls'[d] = calls[d] \/ Keeps(d) \/ Begins(d)
  <2> SUFFICES ASSUME NEW d \in Calls
               PROVE  calls'[d] = calls[d] \/ Keeps(d) \/ Begins(d)
    OBVIOUS
  <2>1. PICK hydrate \in SUBSET {c \in Calls : calls[c] = New} : Reloaded(t, hydrate)
    BY <1>8, ReloadParts
  <2>2. d \in OpenIn(t) => calls[d].pc # "new"
    BY DEF OpenIn, Open
  <2>3. Queued(t) \subseteq OpenIn(t)
    BY DEF Queued
  <2>4. /\ Settled(calls[d], "gone").kind = calls[d].kind
        /\ Settled(calls[d], "gone").tab = calls[d].tab
        /\ Settled(calls[d], "gone").pc = "done"
    BY DEF Settled, New
  <2> QED
    BY <2>1, <2>2, <2>3, <2>4 DEF Reloaded, Keeps, Begins, Refreshes
<1> QED
  BY <1>1, <1>3, <1>4, <1>5, <1>6, <1>7, <1>8, StepCases
     DEF ReceiveOk, ReceiveError, Ignore

\* Every step keeps the types.
LEMMA NextTyped == Typed /\ Placed /\ [Next]_vars => Typed'
<1> SUFFICES ASSUME Typed, Placed, [Next]_vars
             PROVE  Typed'
  OBVIOUS
<1>1. ASSUME NEW c \in Calls, Receive(c)
      PROVE  Typed'
  <2>1. calls[c].pc \in {"reply", "refreshed"}
    BY <1>1 DEF Receive
  <2>2. calls[c].tab \in Tabs
    BY <2>1 DEF Placed
  <2>3. CASE calls[c].pc = "reply" /\ ReceiveOk(c)
    BY <2>3, ReceiveOkTyped
  <2>4. CASE ReceiveError(c)
    BY <2>4, ReceiveErrorTyped
  <2>5. CASE Enqueue(c)
    BY <2>5, EnqueueTyped
  <2>6. CASE StartRefresh(c)
    BY <2>2, <2>6, StartRefreshTyped
  <2>7. CASE ReplayAll(c)
    BY <2>7, ReplayAllTyped
  <2>8. CASE RejectAll(c)
    BY <2>2, <2>8, RejectAllTyped
  <2>9. CASE Ignore(c)
    BY <2>9, IgnoreTyped
  <2> QED
    BY <1>1, <2>3, <2>4, <2>5, <2>6, <2>7, <2>8, <2>9 DEF Receive
<1>2. CASE UNCHANGED vars
  BY <1>2 DEF vars, server, browser, tabs, history, Typed, LoginPair, Recs
<1>3. ASSUME NEW c \in Calls, NEW t \in Tabs, NEW kind \in {"api", "login", "logout"}, Send(c, kind, t)
      PROVE  Typed'
  BY <1>3, SendTyped
<1> QED
  BY <1>1, <1>2, <1>3, ServeTyped, ReloadTyped, ExpireTyped DEF Next

\* Every token and every user anybody holds was issued or signed in, and every
\* request is one of those the pages make.
THEOREM SessionTypes == Spec => []TypeOK
<1>1. Init => Shape /\ Placed /\ Typed
  BY InitShape, InitPlaced, InitTyped
<1>2. (Shape /\ Placed /\ Typed) /\ [Next]_vars => (Shape /\ Placed /\ Typed)'
  BY NextShape, NextPlaced, NextTyped
<1> QED
  BY <1>1, <1>2, TypedSays, PTL DEF Spec

-----------------------------------------------------------------------------
(* Whose session it is. *)

\* Token k, if it is one, is account a's.
Of(k, a) == k = None \/ owner[k] = a

\* An open request holds nothing but tokens of account a, and was made and run
\* for a.
Mine(q, a) ==
    /\ Of(q.token, a) /\ Of(q.cookie, a)
    /\ q.kind # "login" => Of(q.pair, a) /\ q.ranAs \in {Nobody, a}
    /\ q.kind \in {"api", "logout"} /\ q.tab \notin muddled => q.as = a

\* The browser holds nothing but tokens of account a, the tabs that were not
\* left from an earlier session show nobody else.
MineHere(a) ==
    /\ Of(cookie, a) /\ Of(stored, a) /\ saved \in {Nobody, a}
    /\ \A t \in Tabs \ muddled : user[t] \in {Nobody, a}

OneAccount(a) == MineHere(a) /\ \A c \in Calls : Open(c) => Mine(calls[c], a)

\* Unless all tabs are muddled, there is one account that all is about.
OneSession ==
    /\ muddled # Tabs => \E a \in Accounts : OneAccount(a)
    /\ RunsAsShown

\* At the start it is the session of the account that has signed in.
LEMMA InitOneSession == Init => OneSession
<1> SUFFICES ASSUME Init PROVE OneSession
  OBVIOUS
<1>1. PICK a \in Accounts : owner = <<a>> /\ saved = a /\ user = [t \in Tabs |-> a]
  BY DEF Init
<1>2. MineHere(a)
  BY <1>1 DEF Init, MineHere, Of, None
<1>3. \A c \in Calls : ~Open(c) /\ calls[c].kind = "none"
  BY DEF Init, New, Open
<1>4. OneAccount(a)
  BY <1>2, <1>3 DEF OneAccount
<1> QED
  BY <1>3, <1>4 DEF OneSession, RunsAsShown

\* What an open request of account a becomes while no tab is left behind: one of
\* a, or one that is over.
Stays(d, a) ==
    \/ calls'[d] = calls[d]
    \/ /\ ~Open(d)'
       /\ calls'[d].kind = calls[d].kind /\ calls'[d].tab = calls[d].tab
       /\ calls'[d].ranAs = calls[d].ranAs /\ calls'[d].as = calls[d].as
    \/ /\ Mine(calls[d], a)'
       /\ calls'[d].kind \in {"api", "logout"} => calls'[d].ranAs \in {Nobody, a}

\* It is enough to look at what a step does to each request.
LEMMA StaysOne ==
    ASSUME Typed, OneSession, NEW a \in Accounts, OneAccount(a), muddled' = muddled,
           \A k \in 0..Len(owner) : Of(k, a) => Of(k, a)',
           MineHere(a)', \A d \in Calls : Stays(d, a)
    PROVE  OneSession'
<1>1. \A c \in Calls : Open(c)' => Mine(calls[c], a)'
  <2> SUFFICES ASSUME NEW c \in Calls, Open(c)' PROVE Mine(calls[c], a)'
    OBVIOUS
  <2>1. CASE calls'[c] = calls[c]
    <3>1. Mine(calls[c], a)
      BY <2>1 DEF Open, OneAccount
    <3>2. /\ calls[c].token \in 0..Len(owner) /\ calls[c].cookie \in 0..Len(owner)
          /\ calls[c].pair \in 0..Len(owner)
      BY DEF Typed, Recs
    <3>3. Of(calls[c].token, a)' /\ Of(calls[c].cookie, a)'
          /\ (Of(calls[c].pair, a) => Of(calls[c].pair, a)')
      BY <2>1, <3>1, <3>2 DEF Mine, Of
    <3> QED
      BY <2>1, <3>1, <3>3 DEF Mine
  <2> QED
    BY <2>1 DEF Stays
<1>2. OneAccount(a)'
  BY <1>1 DEF OneAccount
<1>3. RunsAsShown'
  <2> SUFFICES ASSUME NEW c \in Calls, calls'[c].kind \in {"api", "logout"}, calls'[c].tab \notin muddled
               PROVE  calls'[c].ranAs \in {Nobody, calls'[c].as}
    BY DEF RunsAsShown
  <2>1. CASE /\ calls'[c].kind = calls[c].kind /\ calls'[c].tab = calls[c].tab
             /\ calls'[c].ranAs = calls[c].ranAs /\ calls'[c].as = calls[c].as
    BY <2>1 DEF OneSession, RunsAsShown
  <2>2. CASE /\ Mine(calls[c], a)'
             /\ calls'[c].kind \in {"api", "logout"} => calls'[c].ranAs \in {Nobody, a}
    BY <2>2 DEF Mine
  <2> QED
    BY <2>1, <2>2 DEF Stays
<1> QED
  BY <1>2, <1>3 DEF OneSession

\* A page makes a request with what the browser holds, for the user it shows.
LEMMA SendOne ==
    ASSUME Shape, NEW a, OneAccount(a), NEW c \in Calls, NEW kind \in {"api", "login", "logout"},
           NEW t \in Tabs, Send(c, kind, t)
    PROVE  MineHere(a)' /\ \A d \in Calls : Stays(d, a)
<1>1. /\ Only(c) /\ calls'[c] = Request(kind, t) /\ UNCHANGED <<server, browser, tabs, muddled>>
      /\ kind = "login" \/ user[t] # Nobody
  <2>1. Only(c) /\ calls'[c] = Request(kind, t)
    BY SendParts
  <2>2. UNCHANGED <<server, browser, tabs, muddled>> /\ MaySend(kind, t)
    BY Zenon DEF Send
  <2> QED
    BY <2>1, <2>2 DEF MaySend
<1>2. MineHere(a)'
  BY <1>1 DEF OneAccount, MineHere, Of, server, browser, tabs
<1>3. /\ Request(kind, t).token = stored /\ Request(kind, t).cookie \in {None, cookie}
      /\ Request(kind, t).pair = None /\ Request(kind, t).ranAs = Nobody
      /\ Request(kind, t).kind = kind /\ Request(kind, t).tab = t /\ Request(kind, t).as = user[t]
  BY DEF Request, New
<1>4. Stays(c, a)
  BY <1>1, <1>3 DEF Stays, Mine, OneAccount, MineHere, Of, server, browser
<1>5. \A d \in Calls \ {c} : Stays(d, a)
  BY <1>1 DEF Only, Stays
<1> QED
  BY <1>2, <1>4, <1>5

\* The API runs a request for the owner of its token, and issues a pair for the
\* owner of the one it is given.
LEMMA ServeOne ==
    ASSUME Shape, Typed, NEW a, OneAccount(a), NEW c \in Calls, Serve(c)
    PROVE  /\ MineHere(a)' /\ \A d \in Calls : Stays(d, a)
           /\ \A k \in 0..Len(owner) : Of(k, a) => Of(k, a)'
<1>1. Only(c) /\ calls[c].pc \in {"sent", "refreshing"} /\ UNCHANGED <<browser, tabs, muddled>>
  BY ServeParts DEF Serve
<1>2. owner' = owner \/ \E b : owner' = Append(owner, b)
  BY DEF Serve, Unauthorized, Handle, Login, RotateTokens, RaiseAlarm, Refuse, Issue, server
<1>3. \A k \in 1..Len(owner) : owner'[k] = owner[k]
  BY <1>2 DEF Typed
<1>4. \A k \in 0..Len(owner) : Of(k, a) => Of(k, a)'
  <2>1. \A k \in 0..Len(owner) : k = None \/ k \in 1..Len(owner)
    BY DEF Typed, None
  <2> QED
    BY <1>3, <2>1 DEF Of
<1>5. MineHere(a)'
  <2>1. cookie \in 0..Len(owner) /\ stored \in 0..Len(owner)
    BY DEF Typed
  <2> QED
    BY <1>1, <1>4, <2>1 DEF OneAccount, MineHere, Of, browser, tabs
<1> DEFINE q == calls[c]
<1>6. /\ Mine(q, a) /\ DOMAIN q = Fields /\ q.token \in 0..Len(owner)
      /\ q.cookie \in 0..Len(owner) /\ q.pair \in 0..Len(owner)
  BY <1>1 DEF OneAccount, Open, Shape, Typed, Recs
<1> DEFINE In(k) == k = None \/ owner'[k] = a
           r == calls'[c]
<1>7. In(q.token) /\ In(q.cookie) /\ (q.kind # "login" => In(q.pair))
  BY <1>4, <1>6 DEF Mine, Of
<1>8. ASSUME r.token = q.token, r.cookie = q.cookie, r.kind = q.kind, r.tab = q.tab, r.as = q.as,
             q.kind # "login" =>
                 r.ranAs \in {q.ranAs, a} /\ (r.pair = q.pair \/ In(r.pair))
      PROVE  Stays(c, a)
  <2>1. Of(calls[c].token, a)' /\ Of(calls[c].cookie, a)'
    BY <1>7, <1>8 DEF Of
  <2>2. r.kind # "login" => Of(calls[c].pair, a)' /\ r.ranAs \in {Nobody, a}
    BY <1>6, <1>7, <1>8 DEF Mine, Of
  <2>3. r.kind \in {"api", "logout"} /\ r.tab \notin muddled' => r.as = a
    BY <1>1, <1>6, <1>8 DEF Mine
  <2> QED
    BY <2>1, <2>2, <2>3 DEF Stays, Mine
<1>9. Stays(c, a)
  <2>1. CASE Unauthorized(c) \/ RaiseAlarm(c) \/ Refuse(c)
    <3>1. PICK code : Replied(c, [q EXCEPT !.code = code])
      BY <2>1 DEF Unauthorized, RaiseAlarm, Refuse
    <3>2. /\ r.token = q.token /\ r.cookie = q.cookie /\ r.kind = q.kind /\ r.tab = q.tab
          /\ r.as = q.as /\ r.ranAs = q.ranAs /\ r.pair = q.pair
      BY <1>6, <3>1 DEF Replied, Shape, Fields
    <3> QED
      BY <1>8, <3>2
  <2>2. CASE Handle(c)
    <3>1. PICK o : Replied(c, [q EXCEPT !.code = o, !.ran = o, !.ranAs = owner[q.token]])
      BY <2>2 DEF Handle
    <3>2. /\ r.token = q.token /\ r.cookie = q.cookie /\ r.kind = q.kind /\ r.tab = q.tab
          /\ r.as = q.as /\ r.ranAs = owner[q.token] /\ r.pair = q.pair
      BY <1>6, <3>1 DEF Replied, Shape, Fields
    <3>3. owner[q.token] = a
      <4>1. q.token # None
        BY <2>2 DEF Handle, Pairs, Typed, None
      <4> QED
        BY <1>6, <4>1 DEF Mine, Of
    <3> QED
      BY <1>8, <3>2, <3>3
  <2>3. CASE Login(c)
    <3>1. PICK b, o, k : Replied(c, [q EXCEPT !.code = o, !.ran = o, !.ranAs = b, !.pair = k])
      BY <2>3 DEF Login
    <3>2. /\ r.token = q.token /\ r.cookie = q.cookie /\ r.kind = q.kind /\ r.tab = q.tab
          /\ r.as = q.as /\ q.kind = "login"
      BY <1>6, <2>3, <3>1 DEF Replied, Shape, Fields, Login
    <3> QED
      BY <1>8, <3>2
  <2>4. CASE RotateTokens(c)
    <3>1. PICK o : Replied(c, [q EXCEPT !.code = o, !.pair = Len(owner) + 1])
      BY <2>4 DEF RotateTokens
    <3>2. /\ r.token = q.token /\ r.cookie = q.cookie /\ r.kind = q.kind /\ r.tab = q.tab
          /\ r.as = q.as /\ r.ranAs = q.ranAs /\ r.pair = Len(owner) + 1
      BY <1>6, <3>1 DEF Replied, Shape, Fields
    <3>3. q.cookie \in 1..Len(owner) /\ owner' = Append(owner, owner[q.cookie])
      BY <2>4 DEF RotateTokens, Issue, Typed
    <3>4. owner[q.cookie] = a
      BY <1>6, <3>3 DEF Mine, Of, None
    <3>5. owner'[Len(owner) + 1] = a
      BY <3>3, <3>4 DEF Typed
    <3>6. In(r.pair)
      BY <3>2, <3>5
    <3> QED
      BY <1>8, <3>2, <3>6
  <2> QED
    BY <2>1, <2>2, <2>3, <2>4 DEF Serve
<1>10. \A d \in Calls \ {c} : Stays(d, a)
  BY <1>1 DEF Only, Stays
<1> QED
  BY <1>4, <1>5, <1>9, <1>10

\* Once all tabs are muddled nothing is said any more.
LEMMA AllMuddled == Placed' /\ muddled' = Tabs => OneSession'
BY DEF Placed, OneSession, RunsAsShown

\* Tabs do not stop being muddled.
LEMMA MuddledStays == Typed /\ muddled = Tabs /\ [Next]_vars => muddled' = Tabs
<1> SUFFICES ASSUME Typed, muddled = Tabs, [Next]_vars PROVE muddled' = Tabs
  OBVIOUS
<1>1. ASSUME NEW c \in Calls, ReceiveOk(c)
      PROVE  muddled' = Tabs
  BY <1>1 DEF ReceiveOk, Fetched, Hydrated, SignedIn, SignedOut
<1>2. ASSUME NEW c \in Calls, Ignore(c)
      PROVE  muddled' = Tabs
  BY <1>2 DEF Ignore
<1>3. ASSUME NEW c \in Calls, ReceiveError(c) \/ Enqueue(c) \/ StartRefresh(c) \/ ReplayAll(c) \/ RejectAll(c)
      PROVE  muddled' = muddled
  BY <1>3 DEF ReceiveError, Enqueue, StartRefresh, ReplayAll, RejectAll, history
<1>4. ASSUME NEW c \in Calls, Receive(c)
      PROVE  muddled' = Tabs
  BY <1>1, <1>2, <1>3, <1>4 DEF Receive
<1>5. ASSUME NEW c \in Calls, Serve(c)
      PROVE  muddled' = muddled
  BY <1>5 DEF Serve
<1>6. ASSUME NEW c \in Calls, NEW kind, NEW t, Send(c, kind, t)
      PROVE  muddled' = muddled
  BY <1>6 DEF Send
<1>7. ASSUME NEW t \in Tabs, Reload(t)
      PROVE  muddled' = muddled
  BY <1>7 DEF Reload, history
<1>8. ASSUME NEW k \in Pairs, Expire(k)
      PROVE  muddled' = muddled
  BY <1>8 DEF Expire, history
<1>9. CASE UNCHANGED vars
  BY <1>9 DEF vars, history
<1> QED
  BY <1>4, <1>5, <1>6, <1>7, <1>8, <1>9 DEF Next

\* A request that ends concerns nobody any more.
LEMMA SettleOne ==
    ASSUME Shape, NEW a, NEW c \in Calls, NEW code, Settle(c, code)
    PROVE  /\ \A d \in Calls : Stays(d, a)
           /\ ~Open(c)' /\ calls'[c].kind = calls[c].kind /\ calls'[c].tab = calls[c].tab
           /\ calls'[c].ranAs = calls[c].ranAs /\ calls'[c].as = calls[c].as
<1>1. Only(c) /\ calls'[c] = Settled(calls[c], code)
  BY SettleParts
<1>2. /\ ~Open(c)' /\ calls'[c].kind = calls[c].kind /\ calls'[c].tab = calls[c].tab
      /\ calls'[c].ranAs = calls[c].ranAs /\ calls'[c].as = calls[c].as
  BY <1>1 DEF Settled, New, Open
<1> QED
  BY <1>1, <1>2 DEF Only, Stays

\* Somebody signs in: it is their session if nothing else is under way.
LEMMA SignInOne ==
    ASSUME Shape, Typed, OneSession, NEW c \in Calls, calls[c].pc = "reply", ReceiveOk(c), SignedIn(c),
           muddled' # Tabs
    PROVE  OneSession'
<1> DEFINE k == calls[c].pair
           t == calls[c].tab
<1>1. k \in 1..Len(owner) /\ owner[k] \in Accounts
  <2>1. k \in 1..Len(owner)
    BY DEF Typed, Recs, SignedIn, LoginPair, ReceiveOk, None
  <2> QED
    BY <2>1 DEF Typed
<1>2. \A d \in Calls \ {c} : ~Open(d)
  BY DEF SignedIn
<1>3. Settle(c, "ok") /\ owner' = owner
  BY DEF ReceiveOk, server
<1>4. \A d \in Calls : /\ ~Open(d)' /\ calls'[d].kind = calls[d].kind /\ calls'[d].tab = calls[d].tab
                       /\ calls'[d].ranAs = calls[d].ranAs /\ calls'[d].as = calls[d].as
  <2>1. Only(c)
    BY <1>3, SettleParts
  <2> QED
    BY <1>2, <1>3, <2>1, SettleOne DEF Only, Open
<1>5. /\ cookie' = k /\ stored' = k /\ saved' = owner[k] /\ user' = [user EXCEPT ![t] = owner[k]]
      /\ muddled' = muddled \cup {s \in Tabs \ {t} : user[s] # Nobody}
  BY <1>2 DEF SignedIn, setAuth
<1>6. PICK a \in Accounts : a = owner[k]
  BY <1>1
<1>7. MineHere(a)'
  <2>1. \A s \in Tabs \ muddled' : user'[s] \in {Nobody, a}
    BY <1>5, <1>6 DEF Typed
  <2>2. cookie' = k /\ stored' = k /\ owner'[k] = a
    BY <1>3, <1>5, <1>6
  <2> QED
    BY <1>5, <1>6, <2>1, <2>2 DEF MineHere, Of
<1>8. RunsAsShown'
  BY <1>4, <1>5 DEF OneSession, RunsAsShown
<1>9. OneAccount(a)'
  BY <1>4, <1>7 DEF OneAccount
<1> QED
  BY <1>6, <1>8, <1>9 DEF OneSession

\* Every other answer to a request leaves the account as it is.
LEMMA ReceiveOkOne ==
    ASSUME Shape, Typed, NEW a, OneAccount(a), NEW c \in Calls, calls[c].pc = "reply", ReceiveOk(c),
           ~SignedIn(c)
    PROVE  MineHere(a)' /\ (\A d \in Calls : Stays(d, a)) /\ UNCHANGED <<owner, muddled>>
<1>1. Settle(c, "ok") /\ owner' = owner
  BY DEF ReceiveOk, server
<1>2. \A d \in Calls : Stays(d, a)
  BY <1>1, SettleOne
<1>3. CASE Fetched(c)
  BY <1>1, <1>2, <1>3 DEF Fetched, browser, OneAccount, MineHere, Of
<1>4. CASE Hydrated(c)
  <2>1. calls[c].ranAs \in {Nobody, a}
    BY <1>4 DEF OneAccount, Open, Mine, Hydrated
  <2> QED
    BY <1>1, <1>2, <1>4, <2>1 DEF Hydrated, OneAccount, MineHere, Of, Typed
<1>5. CASE SignedOut(c)
  BY <1>1, <1>2, <1>5 DEF SignedOut, clearAuth, OneAccount, MineHere, Of, Typed
<1> QED
  BY <1>3, <1>4, <1>5 DEF ReceiveOk

\* An error may end the session in the browser.
LEMMA ReceiveErrorOne ==
    ASSUME Shape, Typed, NEW a, OneAccount(a), NEW c \in Calls, ReceiveError(c)
    PROVE  MineHere(a)' /\ (\A d \in Calls : Stays(d, a)) /\ UNCHANGED <<owner, muddled>>
<1>1. Settle(c, "error") /\ UNCHANGED <<owner, muddled>>
  BY DEF ReceiveError, server, history
<1>2. \A d \in Calls : Stays(d, a)
  BY <1>1, SettleOne
<1>3. MineHere(a)'
  BY <1>1 DEF ReceiveError, clearAuth, browser, OneAccount, MineHere, Of, Typed
<1> QED
  BY <1>1, <1>2, <1>3

\* A request waits, or posts a refresh with the cookie of the browser.
LEMMA WaitOne ==
    ASSUME Shape, NEW a, OneAccount(a), NEW c \in Calls, calls[c].pc = "reply",
           Enqueue(c) \/ StartRefresh(c)
    PROVE  MineHere(a)' /\ (\A d \in Calls : Stays(d, a)) /\ UNCHANGED <<owner, muddled>>
<1>1. Only(c) /\ UNCHANGED <<server, browser, user, muddled>>
  BY EnqueueParts, StartRefreshParts DEF Enqueue, StartRefresh, tabs, history
<1>2. MineHere(a)'
  BY <1>1 DEF OneAccount, MineHere, Of, server, browser
<1>3. /\ calls'[c].token = calls[c].token /\ calls'[c].cookie \in {calls[c].cookie, cookie}
      /\ calls'[c].pair = calls[c].pair /\ calls'[c].kind = calls[c].kind
      /\ calls'[c].tab = calls[c].tab /\ calls'[c].as = calls[c].as
      /\ calls'[c].ranAs = calls[c].ranAs /\ calls[c].kind # "login"
  BY DEF Enqueue, StartRefresh, NeedsRefresh, Shape, Fields
<1>4. Mine(calls[c], a) /\ Of(cookie, a)
  BY DEF OneAccount, MineHere, Open
<1>5. Stays(c, a)
  BY <1>1, <1>3, <1>4 DEF Stays, Mine, Of, server
<1>6. \A d \in Calls \ {c} : Stays(d, a)
  BY <1>1 DEF Only, Stays
<1> QED
  BY <1>1, <1>2, <1>5, <1>6 DEF server

\* The pair of a refresh is of the account, so what waited is sent again for it.
LEMMA ReplayOne ==
    ASSUME Shape, Placed, NEW a, OneAccount(a), NEW c \in Calls, calls[c].pc = "refreshed", ReplayAll(c)
    PROVE  MineHere(a)' /\ (\A d \in Calls : Stays(d, a)) /\ UNCHANGED <<owner, muddled>>
<1> DEFINE k == calls[c].pair
<1>1. UNCHANGED <<owner, saved, user, muddled>> /\ cookie' = k /\ stored' = k
  BY DEF ReplayAll, server, history
<1>2. k = None \/ owner[k] = a
  BY DEF Placed, Refreshes, OneAccount, Open, Mine, Of
<1>3. MineHere(a)'
  BY <1>1, <1>2 DEF OneAccount, MineHere, Of
<1>4. ASSUME NEW d \in Calls
      PROVE  Stays(d, a)
  <2>1. CASE d \notin Waiting(c)
    BY <2>1, ReplayParts DEF Stays
  <2>2. CASE d \in Waiting(c)
    <3>1. Mine(calls[d], a)
      BY <2>2 DEF Waiting, Queued, OpenIn, OneAccount, Open
    <3>2. calls[d].kind # "login" => calls[d].ranAs \in {Nobody, a}
      BY <3>1 DEF Mine
    <3>3. calls'[d] = [calls[d] EXCEPT !.pc = "sent", !.token = k, !.code = "none", !.pair = None,
                                      !.cookie = IF calls[d].kind = "api" THEN None ELSE k]
      BY <2>2 DEF ReplayAll
    <3>4. /\ calls'[d].token = k /\ calls'[d].cookie \in {None, k} /\ calls'[d].pair = None
          /\ calls'[d].kind = calls[d].kind /\ calls'[d].tab = calls[d].tab
          /\ calls'[d].as = calls[d].as /\ calls'[d].ranAs = calls[d].ranAs
      BY <3>3 DEF Shape, Fields
    <3> QED
      BY <1>1, <1>2, <3>1, <3>2, <3>4 DEF Stays, Mine, Of
  <2> QED
    BY <2>1, <2>2
<1> QED
  BY <1>1, <1>3, <1>4

\* A refresh that failed ends the session in the browser.
LEMMA RejectOne ==
    ASSUME Shape, Typed, NEW a, OneAccount(a), NEW c \in Calls, RejectAll(c)
    PROVE  MineHere(a)' /\ (\A d \in Calls : Stays(d, a)) /\ UNCHANGED <<owner, muddled>>
<1>1. /\ UNCHANGED <<owner, cookie, muddled>> /\ stored' = None /\ saved' = Nobody
      /\ user' \in {user, [user EXCEPT ![calls[c].tab] = Nobody]}
  BY DEF RejectAll, server, history
<1>2. MineHere(a)'
  BY <1>1 DEF OneAccount, MineHere, Of, Typed
<1>3. ASSUME NEW d \in Calls
      PROVE  Stays(d, a)
  <2>1. calls'[d] = IF d \in Waiting(c) THEN Settled(calls[d], "error") ELSE calls[d]
    BY RejectParts
  <2>2. /\ Settled(calls[d], "error").pc = "done" /\ Settled(calls[d], "error").kind = calls[d].kind
        /\ Settled(calls[d], "error").tab = calls[d].tab /\ Settled(calls[d], "error").as = calls[d].as
        /\ Settled(calls[d], "error").ranAs = calls[d].ranAs
    BY DEF Settled, New
  <2> QED
    BY <2>1, <2>2 DEF Stays, Open
<1> QED
  BY <1>1, <1>2, <1>3

\* An answer that reaches the cookie jar of a page that is gone muddles the tabs.
LEMMA IgnoreOne ==
    ASSUME Shape, NEW a, OneAccount(a), NEW c \in Calls, Ignore(c), muddled' # Tabs
    PROVE  MineHere(a)' /\ (\A d \in Calls : Stays(d, a)) /\ UNCHANGED <<owner, muddled>>
<1>1. Settle(c, "gone") /\ UNCHANGED <<server, stored, saved, tabs>>
  BY DEF Ignore
<1>2. cookie' = cookie /\ muddled' = muddled
  BY DEF Ignore
<1>3. MineHere(a)'
  BY <1>1, <1>2 DEF OneAccount, MineHere, Of, server, tabs
<1> QED
  BY <1>1, <1>2, <1>3, SettleOne DEF server

\* A page that is loaded again shows the user of localStorage.
LEMMA ReloadOne ==
    ASSUME Shape, Typed, NEW a, OneAccount(a), NEW t \in Tabs, Reload(t)
    PROVE  MineHere(a)' /\ (\A d \in Calls : Stays(d, a)) /\ UNCHANGED <<owner, muddled>>
<1>1. UNCHANGED <<owner, cookie, stored, saved, muddled>> /\ user' = [user EXCEPT ![t] = saved]
  BY DEF Reload, server, browser, history
<1>2. MineHere(a)'
  BY <1>1 DEF OneAccount, MineHere, Of, Typed
<1>3. PICK hydrate \in SUBSET {c \in Calls : calls[c] = New} :
         calls' = [c \in Calls |->
                IF c \in hydrate THEN Request("me", t)
                ELSE IF c \in Queued(t) THEN Settled(calls[c], "gone")
                ELSE IF c \in OpenIn(t) THEN [calls[c] EXCEPT !.live = FALSE]
                ELSE calls[c]]
  BY DEF Reload
<1>4. ASSUME NEW d \in Calls
      PROVE  Stays(d, a)
  <2>1. CASE d \in hydrate
    <3>1. calls'[d] = Request("me", t)
      BY <1>3, <2>1
    <3>2. /\ calls'[d].token = stored /\ calls'[d].cookie \in {None, cookie} /\ calls'[d].pair = None
          /\ calls'[d].kind = "me" /\ calls'[d].ranAs = Nobody
      BY <3>1 DEF Request, New
    <3> QED
      BY <1>1, <3>2 DEF Stays, Mine, Of, OneAccount, MineHere
  <2>2. CASE d \notin hydrate /\ d \in Queued(t)
    <3>1. calls'[d] = Settled(calls[d], "gone")
      BY <1>3, <2>2
    <3> QED
      BY <3>1 DEF Settled, New, Stays, Open
  <2>3. CASE d \notin hydrate /\ d \notin Queued(t) /\ d \in OpenIn(t)
    <3>1. calls'[d] = [calls[d] EXCEPT !.live = FALSE]
      BY <1>3, <2>3
    <3>2. /\ calls'[d].token = calls[d].token /\ calls'[d].cookie = calls[d].cookie
          /\ calls'[d].pair = calls[d].pair /\ calls'[d].kind = calls[d].kind
          /\ calls'[d].tab = calls[d].tab /\ calls'[d].as = calls[d].as
          /\ calls'[d].ranAs = calls[d].ranAs
      BY <3>1 DEF Shape, Fields
    <3>3. Mine(calls[d], a)
      BY <2>3 DEF OpenIn, OneAccount
    <3> QED
      BY <1>1, <3>2, <3>3 DEF Stays, Mine, Of
  <2>4. CASE d \notin hydrate /\ d \notin Queued(t) /\ d \notin OpenIn(t)
    BY <1>3, <2>4 DEF Stays
  <2> QED
    BY <2>1, <2>2, <2>3, <2>4
<1> QED
  BY <1>1, <1>2, <1>4

\* Every step keeps one account, or starts over with another, or muddles all tabs.
LEMMA NextOneSession ==
    Shape /\ Placed /\ Placed' /\ Typed /\ OneSession /\ [Next]_vars => OneSession'
<1> SUFFICES ASSUME Shape, Placed, Placed', Typed, OneSession, [Next]_vars, muddled' # Tabs
             PROVE  OneSession'
  BY AllMuddled
<1>1. PICK a \in Accounts : OneAccount(a)
  BY MuddledStays DEF OneSession
<1>2. ASSUME MineHere(a)', \A d \in Calls : Stays(d, a), UNCHANGED <<owner, muddled>>
      PROVE  OneSession'
  <2>1. \A k \in 0..Len(owner) : Of(k, a) => Of(k, a)'
    BY <1>2 DEF Of
  <2> QED
    BY <1>1, <1>2, <2>1, StaysOne
<1>3. ASSUME NEW c \in Calls, Receive(c)
      PROVE  OneSession'
  <2>1. CASE calls[c].pc = "reply" /\ ReceiveOk(c)
    BY <1>1, <1>2, <2>1, SignInOne, ReceiveOkOne
  <2>2. CASE ReceiveError(c)
    BY <1>1, <1>2, <2>2, ReceiveErrorOne
  <2>3. CASE calls[c].pc = "reply" /\ (Enqueue(c) \/ StartRefresh(c))
    BY <1>1, <1>2, <2>3, WaitOne
  <2>4. CASE calls[c].pc = "refreshed" /\ ReplayAll(c)
    BY <1>1, <1>2, <2>4, ReplayOne
  <2>5. CASE RejectAll(c)
    BY <1>1, <1>2, <2>5, RejectOne
  <2>6. CASE Ignore(c)
    BY <1>1, <1>2, <2>6, IgnoreOne
  <2> QED
    BY <1>3, <2>1, <2>2, <2>3, <2>4, <2>5, <2>6 DEF Receive
<1>4. ASSUME NEW c \in Calls, Serve(c)
      PROVE  OneSession'
  <2>1. muddled' = muddled
    BY <1>4 DEF Serve
  <2> QED
    BY <1>1, <1>4, <2>1, ServeOne, StaysOne
<1>5. ASSUME NEW c \in Calls, NEW kind \in {"api", "login", "logout"}, NEW t \in Tabs, Send(c, kind, t)
      PROVE  OneSession'
  <2>1. UNCHANGED <<owner, muddled>>
    BY <1>5 DEF Send, server
  <2> QED
    BY <1>1, <1>2, <1>5, <2>1, SendOne
<1>6. ASSUME NEW t \in Tabs, Reload(t)
      PROVE  OneSession'
  BY <1>1, <1>2, <1>6, ReloadOne
<1>7. CASE UNCHANGED <<owner, browser, user, calls, muddled>>
  <2>1. MineHere(a)'
    BY <1>1, <1>7 DEF OneAccount, MineHere, Of, browser
  <2>2. \A d \in Calls : Stays(d, a)
    BY <1>7 DEF Stays
  <2> QED
    BY <1>2, <1>7, <2>1, <2>2
<1>8. (UNCHANGED vars) \/ (\E k \in Pairs : Expire(k)) => UNCHANGED <<owner, browser, user, calls, muddled>>
  BY DEF Expire, vars, server, tabs, history
<1> QED
  BY <1>3, <1>4, <1>5, <1>6, <1>7, <1>8 DEF Next

\* axios.js:16-69, AuthContext.jsx: whichever tab refreshes, reloads, signs out
\* or has its requests replayed with a token that came later, a request is run
\* as the user its page showed when it was made, in every tab that was not left
\* from an earlier session.
THEOREM RequestsRunAsShown == Spec => []RunsAsShown
<1>1. Init => Shape /\ Placed /\ Typed /\ OneSession
  BY InitShape, InitPlaced, InitTyped, InitOneSession
<1>2. /\ Shape /\ Placed /\ Typed /\ OneSession
      /\ [Next]_vars
      => (Shape /\ Placed /\ Typed /\ OneSession)'
  BY NextShape, NextPlaced, NextTyped, NextOneSession
<1>3. OneSession => RunsAsShown
  BY DEF OneSession
<1> QED
  BY <1>1, <1>2, <1>3, PTL DEF Spec
=============================================================================

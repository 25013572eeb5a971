------------------------------ MODULE AlarmProofs ------------------------------
(***************************************************************************)
(* Why an honest browser sets off the reuse alarm, for every number of     *)
(* tabs, requests and sign-ins: a proof of AlarmsExplained.                *)
(***************************************************************************)
EXTENDS SessionProofs

-----------------------------------------------------------------------------
(* The invariant. *)

\* The account of token k was signed out by an alarm that had a cause.
Sour(k) == \E j \in alarms \cap (shared \cup evicted) : owner[j] = owner[k]

\* If k is taken for reused, that has a cause.
Good(k) == k \in listed \cup shared \cup evicted \/ Sour(k)

\* d was answered with what replaces the token it was sent with.
Replaces(d) ==
    /\ calls[d].code = "ok"
    /\ calls[d].pc = "refreshed" \/ (calls[d].kind = "logout" /\ calls[d].pc = "reply")

\* d changes, or has changed, what becomes of the token it was sent with.
Holds(d) == Refreshes(d) \/ (Open(d) /\ calls[d].kind = "logout")

\* Every token anybody holds was issued.
Known ==
    /\ alarms \subseteq 1..Len(owner) /\ cookie \in 0..Len(owner)
    /\ \A c \in Calls : calls[c].cookie \in 0..Len(owner) /\ calls[c].pair \in 0..Len(owner)

\* The token in the jar is good, or its replacement is on its way.
JarGood ==
    cookie # None => Good(cookie) \/ \E d \in Calls : Replaces(d) /\ calls[d].cookie = cookie

\* So is a token sent to be refreshed.
RefreshGood ==
    \A c \in Calls : calls[c].pc = "refreshing" /\ calls[c].cookie # None => Good(calls[c].cookie)

\* A refresh and another request decide about one token.
Clash(c, d) ==
    c # d /\ Refreshes(c) /\ Holds(d) /\ calls[c].cookie = calls[d].cookie /\ calls[c].cookie # None

\* The history records every clash.
SharingSeen == \A c, d \in Calls : Clash(c, d) => calls[c].cookie \in shared

\* A token on its way to the browser is good and nobody has it.
PairsFresh ==
    \A c \in Calls : calls[c].pair # None =>
        /\ Good(calls[c].pair) /\ cookie # calls[c].pair
        /\ \A d \in Calls : calls[d].cookie # calls[c].pair /\ (d # c => calls[d].pair # calls[c].pair)

\* The inductive invariant.
Honest == Known /\ JarGood /\ RefreshGood /\ SharingSeen /\ PairsFresh /\ AlarmsExplained

\* One token in the database and nothing on its way.
LEMMA InitHonest == Init => Honest
<1> SUFFICES ASSUME Init PROVE Honest
  OBVIOUS
<1>1. PICK a \in Accounts : owner = <<a>>
  BY DEF Init
<1>2. Len(owner) = 1 /\ cookie = 1 /\ listed = {1} /\ alarms = {}
  BY <1>1 DEF Init
<1>3. \A c \in Calls : calls[c] = New
  BY DEF Init
<1>4. New.cookie = 0 /\ New.pair = 0 /\ New.pc = "new"
  BY DEF New, None
<1> QED
  BY <1>2, <1>3, <1>4 DEF Honest, Known, JarGood, RefreshGood, SharingSeen, PairsFresh,
     AlarmsExplained, Good, Clash, Refreshes, None

-----------------------------------------------------------------------------
(* Steps that leave good tokens good. *)

\* No good token goes bad, and no sharing is forgotten.
Gentle ==
    /\ \A k \in 1..Len(owner) : Good(k) => Good(k)'
    /\ shared \subseteq shared' /\ evicted \subseteq evicted'
    /\ Known' /\ AlarmsExplained'

\* The database is not touched.
LEMMA QuietGentle ==
    ASSUME Honest, UNCHANGED <<owner, listed, alarms, evicted>>, shared \subseteq shared', Known'
    PROVE  Gentle
<1>1. \A k \in 1..Len(owner) : Good(k) => Good(k)'
  BY DEF Good, Sour
<1>2. AlarmsExplained'
  BY DEF Honest, AlarmsExplained
<1> QED
  BY <1>1, <1>2 DEF Gentle

\* A step of request c that does not deliver a token.
LEMMA OneHonest ==
    ASSUME Honest, NEW c \in Calls, Only(c), Gentle, UNCHANGED cookie,
           Replaces(c) /\ calls[c].cookie = cookie => cookie = None \/ Good(cookie)',
           calls'[c].pc = "refreshing" /\ calls'[c].cookie # None => Good(calls[c].cookie)',
           \A d \in Calls : Clash(c, d)' \/ Clash(d, c)' => calls'[c].cookie \in shared',
           calls'[c].pair \in {None, calls[c].pair},
           calls'[c].cookie \in {None, cookie, calls[c].cookie}
    PROVE  Honest'
<1>1. \A d \in Calls \ {c} : calls'[d] = calls[d]
  BY DEF Only
<1>2. JarGood'
  <2> SUFFICES ASSUME cookie # None
               PROVE  Good(cookie)' \/ \E d \in Calls : Replaces(d)' /\ calls'[d].cookie = cookie
    BY DEF JarGood
  <2>1. CASE Good(cookie)
    BY <2>1 DEF Gentle, Honest, Known, None
  <2>2. ASSUME NEW d \in Calls, Replaces(d), calls[d].cookie = cookie
        PROVE  Good(cookie)' \/ (Replaces(d)' /\ calls'[d].cookie = cookie)
    <3>1. CASE d = c
      BY <2>2, <3>1
    <3>2. CASE d # c
      BY <1>1, <2>2, <3>2 DEF Replaces
    <3> QED
      BY <3>1, <3>2
  <2> QED
    BY <2>1, <2>2 DEF Honest, JarGood
<1>3. RefreshGood'
  <2> SUFFICES ASSUME NEW d \in Calls, calls'[d].pc = "refreshing", calls'[d].cookie # None
               PROVE  Good(calls[d].cookie)'
    BY DEF RefreshGood
  <2>1. CASE d # c
    <3>1. calls'[d] = calls[d]
      BY <1>1, <2>1
    <3>2. Good(calls[d].cookie) /\ calls[d].cookie \in 1..Len(owner)
      BY <3>1 DEF Honest, RefreshGood, Known, None
    <3> QED
      BY <3>1, <3>2 DEF Gentle
  <2> QED
    BY <2>1
<1>4. SharingSeen'
  <2> SUFFICES ASSUME NEW d \in Calls, NEW e \in Calls, Clash(d, e)'
               PROVE  calls'[d].cookie \in shared'
    BY DEF SharingSeen
  <2>1. CASE d # c /\ e # c
    <3>1. Clash(d, e) /\ calls'[d] = calls[d]
      BY <1>1, <2>1 DEF Clash, Refreshes, Holds, Open
    <3> QED
      BY <3>1 DEF Honest, SharingSeen, Gentle
  <2>2. calls'[d].cookie = calls'[e].cookie
    BY DEF Clash
  <2> QED
    BY <2>1, <2>2
<1>5. PairsFresh'
  <2> SUFFICES ASSUME NEW d \in Calls, calls'[d].pair # None
               PROVE  /\ Good(calls[d].pair)' /\ cookie # calls'[d].pair
                      /\ \A e \in Calls : /\ calls'[e].cookie # calls'[d].pair
                                          /\ e # d => calls'[e].pair # calls'[d].pair
    BY DEF PairsFresh
  <2>1. calls'[d].pair = calls[d].pair
    BY <1>1
  <2>2. /\ Good(calls[d].pair) /\ cookie # calls[d].pair
        /\ \A e \in Calls : calls[e].cookie # calls[d].pair /\ (e # d => calls[e].pair # calls[d].pair)
    BY <2>1 DEF Honest, PairsFresh
  <2>3. calls[d].pair \in 1..Len(owner)
    BY <2>1 DEF Honest, Known, None
  <2>4. Good(calls[d].pair)'
    BY <2>1, <2>2, <2>3 DEF Gentle
  <2>5. ASSUME NEW e \in Calls
        PROVE  calls'[e].cookie # calls'[d].pair /\ (e # d => calls'[e].pair # calls'[d].pair)
    BY <1>1, <2>1, <2>2
  <2> QED
    BY <2>1, <2>2, <2>4, <2>5
<1> QED
  BY <1>2, <1>3, <1>4, <1>5 DEF Honest, Gentle

-----------------------------------------------------------------------------
(* The steps of the browser. *)

\* Shares is what the history looks at.
LEMMA SharesSays ==
    ASSUME NEW c \in Calls, NEW k
    PROVE  Shares(c, k) <=> \E d \in Calls \ {c} : Holds(d) /\ calls[d].cookie = k
  BY DEF Shares, Holds, Open, Refreshes

\* A new request has nothing to refresh; a logout may clash.
LEMMA SendHonest ==
    ASSUME Shape, Honest, NEW c \in Calls, NEW kind, NEW t, Send(c, kind, t)
    PROVE  Honest'
<1>1. Only(c) /\ calls[c] = New /\ calls'[c] = Request(kind, t)
  BY SendParts
<1>2. UNCHANGED <<owner, listed, alarms, evicted, cookie>>
  BY DEF Send, server, browser
<1>3. shared' = IF kind = "logout" /\ Shares(c, cookie) THEN shared \cup {cookie} ELSE shared
  BY DEF Send
<1>4. /\ calls'[c].pc = "sent" /\ calls'[c].kind = kind /\ calls'[c].pair = None
      /\ calls'[c].cookie \in {None, cookie}
      /\ kind = "logout" => calls'[c].cookie = cookie
  BY <1>1 DEF Request, New
<1>5. calls[c].pc = "new"
  BY <1>1 DEF New
<1>6. Known'
  BY <1>1, <1>2, <1>4 DEF Honest, Known, Only, None
<1>7. Gentle
  BY <1>2, <1>3, <1>6, QuietGentle
<1>8. ASSUME NEW d \in Calls, Clash(c, d)' \/ Clash(d, c)'
      PROVE  calls'[c].cookie \in shared'
  <2>1. ~Refreshes(c)' /\ (Holds(c)' => kind = "logout")
    BY <1>4 DEF Refreshes, Holds
  <2>2. d # c /\ Refreshes(d)' /\ kind = "logout" /\ calls'[d].cookie = calls'[c].cookie
    BY <1>8, <2>1 DEF Clash
  <2>3. Holds(d) /\ calls[d].cookie = cookie
    BY <1>1, <1>4, <2>2 DEF Only, Holds, Refreshes
  <2> QED
    BY <1>3, <1>4, <2>2, <2>3, SharesSays
<1>9. ~Replaces(c)
  BY <1>5 DEF Replaces
<1> QED
  BY <1>1, <1>2, <1>4, <1>7, <1>8, <1>9, OneHonest

\* A request that is over and does not replace the token in the jar.
LEMMA SettleHonest ==
    ASSUME Shape, Honest, UNCHANGED <<owner, listed, alarms, evicted, shared, cookie>>,
           NEW c \in Calls, NEW code, Settle(c, code), ~Replaces(c)
    PROVE  Honest'
<1>1. Only(c) /\ calls'[c] = Settled(calls[c], code)
  BY SettleParts
<1>2. calls'[c].pc = "done" /\ calls'[c].cookie = None /\ calls'[c].pair = None
  BY <1>1 DEF Settled, New
<1>3. Known'
  BY <1>1, <1>2 DEF Honest, Known, Only, None
<1>4. Gentle
  BY <1>3, QuietGentle
<1>5. \A d \in Calls : ~Clash(c, d)' /\ ~Clash(d, c)'
  BY <1>2 DEF Clash, Holds, Refreshes, Open
<1> QED
  BY <1>1, <1>2, <1>4, <1>5, OneHonest

\* A request that is over and brought the browser a token, or none.
LEMMA DeliverHonest ==
    ASSUME Shape, Honest, UNCHANGED <<owner, listed, alarms, evicted, shared>>,
           NEW c \in Calls, NEW code, Settle(c, code), cookie' \in {None, calls[c].pair}
    PROVE  Honest'
<1>1. Only(c) /\ calls'[c] = Settled(calls[c], code)
  BY SettleParts
<1>2. calls'[c].pc = "done" /\ calls'[c].cookie = None /\ calls'[c].pair = None
  BY <1>1 DEF Settled, New
<1>3. \A d \in Calls \ {c} : calls'[d] = calls[d]
  BY <1>1 DEF Only
<1>4. Known'
  BY <1>2, <1>3 DEF Honest, Known, None
<1>5. \A k \in 1..Len(owner) : Good(k) => Good(k)'
  BY QuietGentle, <1>4 DEF Gentle
<1>6. JarGood'
  <2> SUFFICES ASSUME cookie' # None
               PROVE  Good(cookie)'
    BY DEF JarGood
  <2>1. cookie' = calls[c].pair /\ Good(calls[c].pair) /\ calls[c].pair \in 1..Len(owner)
    BY DEF Honest, PairsFresh, Known, None
  <2> QED
    BY <1>5, <2>1
<1>7. RefreshGood'
  <2> SUFFICES ASSUME NEW d \in Calls, calls'[d].pc = "refreshing", calls'[d].cookie # None
               PROVE  Good(calls[d].cookie)'
    BY DEF RefreshGood
  <2>1. calls'[d] = calls[d]
    BY <1>2, <1>3
  <2>2. Good(calls[d].cookie) /\ calls[d].cookie \in 1..Len(owner)
    BY <2>1 DEF Honest, RefreshGood, Known, None
  <2> QED
    BY <1>5, <2>1, <2>2
<1>8. SharingSeen'
  <2> SUFFICES ASSUME NEW d \in Calls, NEW e \in Calls, Clash(d, e)'
               PROVE  calls'[d].cookie \in shared'
    BY DEF SharingSeen
  <2>1. d # c /\ e # c
    BY <1>2 DEF Clash, Refreshes, Holds, Open
  <2>2. Clash(d, e) /\ calls'[d] = calls[d]
    BY <1>3, <2>1 DEF Clash, Refreshes, Holds, Open
  <2> QED
    BY <2>2 DEF Honest, SharingSeen
<1>9. PairsFresh'
  <2> SUFFICES ASSUME NEW d \in Calls, calls'[d].pair # None
               PROVE  /\ Good(calls[d].pair)' /\ cookie' # calls'[d].pair
                      /\ \A e \in Calls : /\ calls'[e].cookie # calls'[d].pair
                                          /\ e # d => calls'[e].pair # calls'[d].pair
    BY DEF PairsFresh
  <2>1. d # c /\ calls'[d].pair = calls[d].pair
    BY <1>2, <1>3
  <2>2. /\ Good(calls[d].pair) /\ calls[d].pair \in 1..Len(owner)
        /\ \A e \in Calls : calls[e].cookie # calls[d].pair /\ (e # d => calls[e].pair # calls[d].pair)
    BY <2>1 DEF Honest, PairsFresh, Known, None
  <2>3. Good(calls[d].pair)'
    BY <1>5, <2>1, <2>2
  <2>4. cookie' # calls'[d].pair
    BY <2>1, <2>2
  <2>5. \A e \in Calls : calls'[e].cookie # calls'[d].pair /\ (e # d => calls'[e].pair # calls'[d].pair)
    BY <1>2, <1>3, <2>1, <2>2
  <2> QED
    BY <2>3, <2>4, <2>5
<1>10. AlarmsExplained'
  BY DEF Honest, AlarmsExplained
<1> QED
  BY <1>4, <1>6, <1>7, <1>8, <1>9, <1>10 DEF Honest

\* Requests that only give up what they hold.
LEMMA ManyHonest ==
    ASSUME Honest, UNCHANGED <<owner, listed, alarms, evicted, shared, cookie>>,
           \A d \in Calls :
              /\ calls'[d].pc = "refreshing" => calls[d].pc = "refreshing"
              /\ Refreshes(d)' => Refreshes(d)
              /\ Holds(d)' => Holds(d)
              /\ Replaces(d) => Replaces(d)'
              /\ Holds(d)' \/ Replaces(d) => calls'[d].cookie = calls[d].cookie
              /\ calls'[d].pair \in {None, calls[d].pair}
              /\ calls'[d].cookie \in {None, cookie, calls[d].cookie}
    PROVE  Honest'
<1>1. Known'
  BY DEF Honest, Known, None
<1>2. \A k \in 1..Len(owner) : Good(k) => Good(k)'
  BY <1>1, QuietGentle DEF Gentle
<1>3. JarGood'
  <2> SUFFICES ASSUME cookie # None
               PROVE  Good(cookie)' \/ \E d \in Calls : Replaces(d)' /\ calls'[d].cookie = cookie
    BY DEF JarGood
  <2>1. CASE Good(cookie)
    BY <1>2, <2>1 DEF Honest, Known, None
  <2> QED
    BY <2>1 DEF Honest, JarGood
<1>4. RefreshGood'
  <2> SUFFICES ASSUME NEW d \in Calls, calls'[d].pc = "refreshing", calls'[d].cookie # None
               PROVE  Good(calls[d].cookie)'
    BY DEF RefreshGood
  <2>1. calls'[d].cookie = calls[d].cookie /\ calls[d].pc = "refreshing"
    BY DEF Holds, Refreshes
  <2>2. Good(calls[d].cookie) /\ calls[d].cookie \in 1..Len(owner)
    BY <2>1 DEF Honest, RefreshGood, Known, None
  <2> QED
    BY <1>2, <2>1, <2>2
<1>5. SharingSeen'
  <2> SUFFICES ASSUME NEW d \in Calls, NEW e \in Calls, Clash(d, e)'
               PROVE  calls'[d].cookie \in shared'
    BY DEF SharingSeen
  <2>1. Holds(d)'
    BY DEF Clash, Holds
  <2>2. Clash(d, e) /\ calls'[d].cookie = calls[d].cookie
    BY <2>1 DEF Clash
  <2> QED
    BY <2>2 DEF Honest, SharingSeen
<1>6. PairsFresh'
  <2> SUFFICES ASSUME NEW d \in Calls, calls'[d].pair # None
               PROVE  /\ Good(calls[d].pair)' /\ cookie # calls'[d].pair
                      /\ \A e \in Calls : /\ calls'[e].cookie # calls'[d].pair
                                          /\ e # d => calls'[e].pair # calls'[d].pair
    BY DEF PairsFresh
  <2>1. calls'[d].pair = calls[d].pair
    OBVIOUS
  <2>2. /\ Good(calls[d].pair) /\ calls[d].pair \in 1..Len(owner) /\ cookie # calls[d].pair
        /\ \A e \in Calls : calls[e].cookie # calls[d].pair /\ (e # d => calls[e].pair # calls[d].pair)
    BY <2>1 DEF Honest, PairsFresh, Known, None
  <2>3. Good(calls[d].pair)'
    BY <1>2, <2>1, <2>2
  <2>4. ASSUME NEW e \in Calls
        PROVE  calls'[e].cookie # calls'[d].pair /\ (e # d => calls'[e].pair # calls'[d].pair)
    <3>1. calls'[e].pair \in {None, calls[e].pair} /\ calls'[e].cookie \in {None, cookie, calls[e].cookie}
      OBVIOUS
    <3> QED
      BY <2>1, <2>2, <3>1
  <2> QED
    BY <2>1, <2>2, <2>3, <2>4
<1>7. AlarmsExplained'
  BY DEF Honest, AlarmsExplained
<1> QED
  BY <1>1, <1>3, <1>4, <1>5, <1>6, <1>7 DEF Honest

\* A failed refresh replaces nothing.
LEMMA RejectHonest ==
    ASSUME Shape, Honest, NEW c \in Calls, RejectAll(c)
    PROVE  Honest'
<1>1. UNCHANGED <<owner, listed, alarms, evicted, shared, cookie>>
  BY DEF RejectAll, server, history
<1>2. calls[c].code # "ok"
  BY DEF RejectAll
<1>3. ASSUME NEW d \in Calls
      PROVE  \/ calls'[d] = calls[d]
             \/ calls'[d].pc = "done" /\ calls'[d].cookie = None /\ calls'[d].pair = None
                /\ ~Replaces(d)
  <2>1. CASE d \in Waiting(c)
    <3>1. calls'[d] = Settled(calls[d], "error")
      BY <2>1, RejectParts
    <3>2. ~Replaces(d)
      BY <1>2, <2>1 DEF Waiting, Queued, Replaces
    <3> QED
      BY <3>1, <3>2 DEF Settled, New
  <2>2. CASE d \notin Waiting(c)
    BY <2>2, RejectParts
  <2> QED
    BY <2>1, <2>2
<1>4. ASSUME NEW d \in Calls
      PROVE  /\ calls'[d].pc = "refreshing" => calls[d].pc = "refreshing"
             /\ Refreshes(d)' => Refreshes(d)
             /\ Holds(d)' => Holds(d)
             /\ Replaces(d) => Replaces(d)'
             /\ Holds(d)' \/ Replaces(d) => calls'[d].cookie = calls[d].cookie
             /\ calls'[d].pair \in {None, calls[d].pair}
             /\ calls'[d].cookie \in {None, cookie, calls[d].cookie}
  BY <1>3 DEF Refreshes, Holds, Open, Replaces
<1> QED
  BY <1>1, <1>4, ManyHonest

\* A page that is loaded again forgets its queue; its answers are still on
\* their way.
LEMMA ReloadHonest ==
    ASSUME Shape, Honest, NEW t \in Tabs, Reload(t)
    PROVE  Honest'
<1>1. UNCHANGED <<owner, listed, alarms, evicted, shared, cookie>>
  BY DEF Reload, server, browser, history
<1>2. PICK hydrate \in SUBSET {c \in Calls : calls[c] = New} : Reloaded(t, hydrate)
  BY ReloadParts
<1>3. ASSUME NEW d \in Calls
      PROVE  \/ /\ calls'[d].pc = calls[d].pc /\ calls'[d].kind = calls[d].kind
                /\ calls'[d].code = calls[d].code /\ calls'[d].cookie = calls[d].cookie
                /\ calls'[d].pair = calls[d].pair
             \/ /\ calls'[d].pc = "done" \/ (calls'[d].pc = "sent" /\ calls'[d].kind = "me")
                /\ ~Replaces(d)
                /\ calls'[d].pair = None /\ calls'[d].cookie \in {None, cookie}
  <2>1. CASE d \in hydrate
    <3>1. calls'[d] = Request("me", t) /\ calls[d] = New
      BY <1>2, <2>1 DEF Reloaded
    <3>2. calls[d].pc = "new"
      BY <3>1 DEF New
    <3>3. /\ calls'[d].pc = "sent" /\ calls'[d].kind = "me" /\ calls'[d].pair = None
          /\ calls'[d].cookie \in {None, cookie}
      BY <3>1 DEF Request, New
    <3> QED
      BY <3>2, <3>3 DEF Replaces
  <2>2. CASE d \notin hydrate /\ d \in Queued(t)
    <3>1. calls'[d] = Settled(calls[d], "gone") /\ calls[d].pc = "queued"
      BY <1>2, <2>2 DEF Reloaded, Queued
    <3> QED
      BY <3>1 DEF Settled, New, Replaces
  <2>3. CASE d \notin hydrate /\ d \in OpenIn(t) \ Queued(t)
    BY <1>2, <2>3 DEF Reloaded
  <2>4. CASE d \notin hydrate \cup OpenIn(t)
    BY <1>2, <2>4 DEF Reloaded
  <2> QED
    BY <2>1, <2>2, <2>3, <2>4 DEF Queued
<1>4. ASSUME NEW d \in Calls
      PROVE  /\ calls'[d].pc = "refreshing" => calls[d].pc = "refreshing"
             /\ Refreshes(d)' => Refreshes(d)
             /\ Holds(d)' => Holds(d)
             /\ Replaces(d) => Replaces(d)'
             /\ Holds(d)' \/ Replaces(d) => calls'[d].cookie = calls[d].cookie
             /\ calls'[d].pair \in {None, calls[d].pair}
             /\ calls'[d].cookie \in {None, cookie, calls[d].cookie}
  BY <1>3 DEF Refreshes, Holds, Open, Replaces
<1> QED
  BY <1>1, <1>4, ManyHonest

\* Waiting for the refresh of another changes nothing.
LEMMA EnqueueHonest ==
    ASSUME Shape, Honest, NEW c \in Calls, calls[c].pc = "reply", Enqueue(c)
    PROVE  Honest'
<1>1. UNCHANGED <<owner, listed, alarms, evicted, shared, cookie>>
  BY DEF Enqueue, server, browser, history
<1>2. calls[c].code # "ok"
  BY DEF Enqueue, NeedsRefresh
<1>3. /\ Only(c) /\ calls'[c].pc = "queued" /\ calls'[c].kind = calls[c].kind
      /\ calls'[c].cookie = calls[c].cookie /\ calls'[c].pair = calls[c].pair
  BY EnqueueParts
<1>4. ASSUME NEW d \in Calls
      PROVE  /\ calls'[d].pc = "refreshing" => calls[d].pc = "refreshing"
             /\ Refreshes(d)' => Refreshes(d)
             /\ Holds(d)' => Holds(d)
             /\ Replaces(d) => Replaces(d)'
             /\ Holds(d)' \/ Replaces(d) => calls'[d].cookie = calls[d].cookie
             /\ calls'[d].pair \in {None, calls[d].pair}
             /\ calls'[d].cookie \in {None, cookie, calls[d].cookie}
  <2>1. CASE d = c
    BY <1>2, <1>3, <2>1 DEF Refreshes, Holds, Open, Replaces
  <2>2. CASE d # c
    <3>1. calls'[d] = calls[d]
      BY <1>3, <2>2 DEF Only
    <3> QED
      BY <3>1 DEF Refreshes, Holds, Open, Replaces
  <2> QED
    BY <2>1, <2>2
<1> QED
  BY <1>1, <1>4, ManyHonest

\* A refresh takes the token in the jar.  If that is not good, the request
\* whose answer replaces it holds it too.
LEMMA StartRefreshHonest ==
    ASSUME Shape, Honest, NEW c \in Calls, calls[c].pc = "reply", StartRefresh(c)
    PROVE  Honest'
<1>1. UNCHANGED <<owner, listed, alarms, evicted, cookie>>
  BY DEF StartRefresh, server, browser
<1>2. shared' = IF Shares(c, cookie) THEN shared \cup {cookie} ELSE shared
  BY DEF StartRefresh
<1>3. calls[c].code # "ok"
  BY DEF StartRefresh, NeedsRefresh
<1>4. /\ Only(c) /\ calls'[c].pc = "refreshing" /\ calls'[c].cookie = cookie
      /\ calls'[c].pair = calls[c].pair
  BY StartRefreshParts
<1>5. Known'
  BY <1>1, <1>4 DEF Honest, Known, Only
<1>6. Gentle
  BY <1>1, <1>2, <1>5, QuietGentle
<1>7. ASSUME NEW d \in Calls \ {c}, Holds(d), calls[d].cookie = cookie
      PROVE  cookie \in shared'
  BY <1>2, <1>7, SharesSays
<1>8. ASSUME cookie # None
      PROVE  Good(cookie)'
  <2>1. CASE Good(cookie)
    BY <1>1, <1>6, <1>8, <2>1 DEF Gentle, Honest, Known, None
  <2>2. ASSUME NEW d \in Calls, Replaces(d), calls[d].cookie = cookie
        PROVE  Good(cookie)'
    <3>1. d # c /\ Holds(d)
      BY <1>3, <2>2 DEF Replaces, Holds, Refreshes, Open
    <3> QED
      BY <1>1, <1>7, <2>2, <3>1 DEF Good
  <2> QED
    BY <1>8, <2>1, <2>2 DEF Honest, JarGood
<1>9. ASSUME NEW d \in Calls, Clash(c, d)' \/ Clash(d, c)'
      PROVE  calls'[c].cookie \in shared'
  <2>1. d # c /\ Holds(d)' /\ calls'[d].cookie = cookie
    BY <1>4, <1>9 DEF Clash, Holds
  <2>2. calls'[d] = calls[d]
    BY <1>4, <2>1 DEF Only
  <2>3. Holds(d)
    BY <2>1, <2>2 DEF Holds, Refreshes, Open
  <2> QED
    BY <1>4, <1>7, <2>1, <2>2, <2>3
<1>10. Good(calls[c].cookie)' \/ calls'[c].cookie = None
  BY <1>1, <1>4, <1>8
<1>11. ~Replaces(c)
  BY <1>3 DEF Replaces
<1> QED
  BY <1>1, <1>4, <1>6, <1>9, <1>10, <1>11, OneHonest

\* A refresh brings a token to the jar and to the requests that waited.
LEMMA ReplayHonest ==
    ASSUME Shape, Honest, NEW c \in Calls, ReplayAll(c)
    PROVE  Honest'
<1> DEFINE k == calls[c].pair
<1>1. UNCHANGED <<owner, listed, alarms, evicted, shared>> /\ cookie' = k
  BY DEF ReplayAll, server, history
<1>2. ASSUME NEW d \in Calls
      PROVE  \/ d # c /\ calls'[d] = calls[d]
             \/ /\ calls'[d].pc = "sent" /\ calls'[d].pair = None
                /\ calls'[d].cookie \in {None, k}
  BY ReplayParts DEF Waiting
<1>3. k # None => /\ Good(k) /\ k \in 1..Len(owner)
                  /\ \A d \in Calls : calls[d].cookie # k /\ (d # c => calls[d].pair # k)
  BY DEF Honest, PairsFresh, Known, None
<1>4. k \in 0..Len(owner)
  BY DEF Honest, Known
<1> HIDE DEF k
<1>5. Known'
  <2>1. ASSUME NEW d \in Calls
        PROVE  calls'[d].cookie \in 0..Len(owner) /\ calls'[d].pair \in 0..Len(owner)
    <3>1. calls[d].cookie \in 0..Len(owner) /\ calls[d].pair \in 0..Len(owner)
      BY DEF Honest, Known
    <3>2. None \in 0..Len(owner)
      BY <1>4 DEF None
    <3> QED
      BY <1>2, <1>4, <3>1, <3>2
  <2> QED
    BY <1>1, <1>4, <2>1 DEF Honest, Known
<1>6. \A j \in 1..Len(owner) : Good(j) => Good(j)'
  BY <1>1, <1>5, QuietGentle DEF Gentle
<1>7. JarGood'
  BY <1>1, <1>3, <1>6 DEF JarGood
<1>8. RefreshGood'
  <2> SUFFICES ASSUME NEW d \in Calls, calls'[d].pc = "refreshing", calls'[d].cookie # None
               PROVE  Good(calls[d].cookie)'
    BY DEF RefreshGood
  <2>1. calls'[d] = calls[d]
    BY <1>2
  <2>2. Good(calls[d].cookie) /\ calls[d].cookie \in 1..Len(owner)
    BY <2>1 DEF Honest, RefreshGood, Known, None
  <2> QED
    BY <1>6, <2>1, <2>2
<1>9. SharingSeen'
  <2> SUFFICES ASSUME NEW d \in Calls, NEW e \in Calls, Clash(d, e)'
               PROVE  calls'[d].cookie \in shared'
    BY DEF SharingSeen
  <2>1. Refreshes(d)' /\ calls'[d].cookie = calls'[e].cookie /\ calls'[d].cookie # None
    BY DEF Clash
  <2>2. calls'[d] = calls[d]
    BY <1>2, <2>1 DEF Refreshes
  <2>3. calls'[e].cookie # k
    BY <1>3, <2>1, <2>2
  <2>4. calls'[e] = calls[e]
    BY <1>2, <2>1, <2>3
  <2>5. Clash(d, e)
    BY <2>2, <2>4 DEF Clash, Holds, Refreshes, Open
  <2> QED
    BY <1>1, <2>2, <2>5 DEF Honest, SharingSeen
<1>10. PairsFresh'
  <2> SUFFICES ASSUME NEW d \in Calls, calls'[d].pair # None
               PROVE  /\ Good(calls[d].pair)' /\ cookie' # calls'[d].pair
                      /\ \A e \in Calls : /\ calls'[e].cookie # calls'[d].pair
                                          /\ e # d => calls'[e].pair # calls'[d].pair
    BY DEF PairsFresh
  <2>1. d # c /\ calls'[d] = calls[d]
    BY <1>2
  <2>2. /\ Good(calls[d].pair) /\ calls[d].pair \in 1..Len(owner)
        /\ \A e \in Calls : calls[e].cookie # calls[d].pair /\ (e # d => calls[e].pair # calls[d].pair)
    BY <2>1 DEF Honest, PairsFresh, Known, None
  <2>3. Good(calls[d].pair)'
    BY <1>6, <2>1, <2>2
  <2>4. k # calls[d].pair
    BY <2>1, <2>2 DEF k
  <2>5. ASSUME NEW e \in Calls
        PROVE  calls'[e].cookie # calls'[d].pair /\ (e # d => calls'[e].pair # calls'[d].pair)
    BY <1>2, <2>1, <2>2, <2>4
  <2> QED
    BY <1>1, <2>1, <2>3, <2>4, <2>5
<1>11. AlarmsExplained'
  BY <1>1 DEF Honest, AlarmsExplained
<1> QED
  BY <1>5, <1>7, <1>8, <1>9, <1>10, <1>11 DEF Honest

\* The end of a request at its page.
LEMMA AnswerHonest ==
    ASSUME Shape, Honest, NEW c \in Calls, calls[c].pc = "reply", ReceiveOk(c) \/ ReceiveError(c)
    PROVE  Honest'
<1>1. UNCHANGED <<owner, listed, alarms, evicted, shared>> /\ \E code : Settle(c, code)
  BY DEF ReceiveOk, ReceiveError, server, history
<1>2. CASE ReceiveOk(c) /\ (SignedIn(c) \/ SignedOut(c))
  <2>1. cookie' \in {None, calls[c].pair}
    BY <1>2 DEF SignedIn, SignedOut
  <2> QED
    BY <1>1, <2>1, DeliverHonest
<1>3. CASE ReceiveOk(c) /\ (Fetched(c) \/ Hydrated(c))
  <2>1. UNCHANGED cookie /\ calls[c].kind # "logout"
    BY <1>3 DEF Fetched, Hydrated, browser
  <2> QED
    BY <1>1, <2>1, SettleHonest DEF Replaces
<1>4. CASE ReceiveError(c)
  <2>1. UNCHANGED cookie /\ calls[c].code # "ok"
    BY <1>4 DEF ReceiveError, browser
  <2> QED
    BY <1>1, <2>1, SettleHonest DEF Replaces
<1> QED
  BY <1>2, <1>3, <1>4 DEF ReceiveOk

\* An answer to a page that is gone reaches the jar, or the history records
\* its loss.
LEMMA IgnoreHonest ==
    ASSUME Shape, Honest, NEW c \in Calls, calls[c].pc \in {"reply", "refreshed"}, Ignore(c)
    PROVE  Honest'
<1>1. UNCHANGED <<owner, listed, alarms, evicted>> /\ Settle(c, "gone")
  BY DEF Ignore, server
<1> DEFINE sets == calls[c].code = "ok" /\ (calls[c].kind \in {"login", "logout"} \/ calls[c].pc = "refreshed")
<1>2. \/ cookie' = (IF sets THEN calls[c].pair ELSE cookie) /\ UNCHANGED shared
      \/ shared' = shared \cup ({calls[c].cookie} \ {None}) /\ UNCHANGED cookie
  BY DEF Ignore
<1>3. Replaces(c) => sets
  BY DEF Replaces
<1> HIDE DEF sets
<1>4. CASE cookie' = (IF sets THEN calls[c].pair ELSE cookie) /\ UNCHANGED shared
  <2>1. CASE sets
    BY <1>1, <1>4, <2>1, DeliverHonest
  <2>2. CASE ~sets
    BY <1>1, <1>3, <1>4, <2>2, SettleHonest
  <2> QED
    BY <2>1, <2>2
<1>5. CASE shared' = shared \cup ({calls[c].cookie} \ {None}) /\ UNCHANGED cookie
  <2>1. Only(c) /\ calls'[c] = Settled(calls[c], "gone")
    BY <1>1, SettleParts
  <2>2. calls'[c].pc = "done" /\ calls'[c].cookie = None /\ calls'[c].pair = None
    BY <2>1 DEF Settled, New
  <2>3. Known'
    BY <1>1, <1>5, <2>1, <2>2 DEF Honest, Known, Only, None
  <2>4. Gentle
    BY <1>1, <1>5, <2>3, QuietGentle
  <2>5. \A d \in Calls : ~Clash(c, d)' /\ ~Clash(d, c)'
    BY <2>2 DEF Clash, Holds, Refreshes, Open
  <2>6. calls[c].cookie = cookie => cookie = None \/ Good(cookie)'
    BY <1>5 DEF Good
  <2> QED
    BY <1>5, <2>1, <2>2, <2>4, <2>5, <2>6, OneHonest
<1> QED
  BY <1>2, <1>4, <1>5

-----------------------------------------------------------------------------
(* The steps of the API. *)

\* What an answer leaves of the request.
LEMMA RepliedParts ==
    ASSUME Shape, NEW c \in Calls, NEW q, DOMAIN q = Fields, q.pc = calls[c].pc,
           calls[c].pc \in {"sent", "refreshing"}, Replied(c, q)
    PROVE  /\ Only(c)
           /\ calls'[c].pc = IF calls[c].pc = "refreshing" THEN "refreshed" ELSE "reply"
           /\ calls'[c].kind = q.kind /\ calls'[c].code = q.code
           /\ calls'[c].cookie = q.cookie /\ calls'[c].pair = q.pair
  BY DEF Shape, Fields, Replied, Only

\* An answer that issues no pair: what it answers is not a replacement unless
\* it is that of a logout.
Plain(c) ==
    /\ Only(c) /\ calls[c].pc \in {"sent", "refreshing"}
    /\ calls'[c].pc = IF calls[c].pc = "refreshing" THEN "refreshed" ELSE "reply"
    /\ calls'[c].kind = calls[c].kind
    /\ calls'[c].cookie = calls[c].cookie /\ calls'[c].pair = calls[c].pair

\* It clashes with nothing that it did not clash with before.
LEMMA PlainHonest ==
    ASSUME Honest, NEW c \in Calls, Plain(c), Gentle, UNCHANGED cookie
    PROVE  Honest'
<1>1. ~Replaces(c) /\ calls'[c].pc # "refreshing"
  BY DEF Plain, Replaces
<1>2. (Refreshes(c)' <=> Refreshes(c)) /\ (Holds(c)' <=> Holds(c))
  BY DEF Plain, Refreshes, Holds, Open
<1>3. ASSUME NEW d \in Calls, Clash(c, d)' \/ Clash(d, c)'
      PROVE  calls'[c].cookie \in shared'
  <2>1. d # c /\ calls'[d] = calls[d]
    BY <1>3 DEF Clash, Plain, Only
  <2>2. (Refreshes(d)' <=> Refreshes(d)) /\ (Holds(d)' <=> Holds(d))
    BY <2>1 DEF Refreshes, Holds, Open
  <2>3. calls'[c].cookie = calls[c].cookie
    BY DEF Plain
  <2>4. Clash(c, d) \/ Clash(d, c)
    BY <1>2, <1>3, <2>1, <2>2, <2>3 DEF Clash
  <2>5. calls[c].cookie \in shared
    BY <2>4 DEF Honest, SharingSeen, Clash
  <2> QED
    BY <2>3, <2>5 DEF Gentle
<1> QED
  BY <1>1, <1>3, OneHonest DEF Plain

\* Nor does it hold a token that was not issued.
LEMMA PlainKnown ==
    ASSUME Honest, NEW c \in Calls, Plain(c), UNCHANGED <<owner, cookie>>, alarms' \subseteq 1..Len(owner)
    PROVE  Known'
  BY DEF Honest, Known, Plain, Only

\* A refusal.
LEMMA RefuseHonest ==
    ASSUME Shape, Honest, NEW c \in Calls, Unauthorized(c) \/ Refuse(c), UNCHANGED cookie
    PROVE  Honest'
<1>1. PICK code : Replied(c, [calls[c] EXCEPT !.code = code])
  BY DEF Unauthorized, Refuse
<1>2. calls[c].pc \in {"sent", "refreshing"} /\ UNCHANGED <<owner, listed, alarms, evicted, shared>>
  BY DEF Unauthorized, Refuse, server
<1> DEFINE q == [calls[c] EXCEPT !.code = code]
<1>3. DOMAIN q = Fields /\ q.pc = calls[c].pc /\ q.kind = calls[c].kind
      /\ q.cookie = calls[c].cookie /\ q.pair = calls[c].pair
  BY DEF Shape, Fields
<1> HIDE DEF q
<1>4. Replied(c, q)
  BY <1>1 DEF q
<1>5. Plain(c)
  BY <1>2, <1>3, <1>4, RepliedParts DEF Plain
<1>6. Known'
  BY <1>2, <1>5, PlainKnown DEF Honest, Known
<1> QED
  BY <1>2, <1>5, <1>6, QuietGentle, PlainHonest

\* An alarm: the token was not good for no reason, and the tokens that are
\* revoked are the account's.
LEMMA AlarmHonest ==
    ASSUME Shape, Honest, NEW c \in Calls, RaiseAlarm(c), UNCHANGED cookie
    PROVE  Honest'
<1> DEFINE k == calls[c].cookie
           q == [calls[c] EXCEPT !.code = "unauthorized"]
<1>1. /\ calls[c].pc = "refreshing" /\ k \in Pairs \ listed
      /\ listed' = {j \in listed : owner[j] # owner[k]}
      /\ alarms' = alarms \cup {k} /\ UNCHANGED <<owner, shared, evicted>>
      /\ Replied(c, q)
  BY DEF RaiseAlarm
<1>2. DOMAIN q = Fields /\ q.pc = calls[c].pc /\ q.kind = calls[c].kind
      /\ q.cookie = calls[c].cookie /\ q.pair = calls[c].pair
  BY DEF Shape, Fields
<1> HIDE DEF q
<1>3. Plain(c)
  BY <1>1, <1>2, RepliedParts DEF Plain
<1> HIDE DEF k
<1>4. k = calls[c].cookie
  BY DEF k
<1>5. k \in 0..Len(owner)
  BY <1>4 DEF Honest, Known
<1>6. k # None /\ k \in 1..Len(owner)
  BY <1>1, <1>5 DEF Pairs, None
<1>7. Known'
  BY <1>1, <1>3, <1>6, PlainKnown DEF Honest, Known
<1>8. Good(k)
  BY <1>1, <1>4, <1>6 DEF Honest, RefreshGood
<1>9. \E j \in alarms' \cap (shared' \cup evicted') : owner[j] = owner[k]
  BY <1>1, <1>8 DEF Good, Sour
<1>10. ASSUME NEW i \in 1..Len(owner), Good(i)
       PROVE  Good(i)'
  <2>1. CASE owner[i] = owner[k]
    BY <1>1, <1>9, <2>1 DEF Good, Sour
  <2>2. CASE owner[i] # owner[k]
    BY <1>1, <1>10, <2>2 DEF Good, Sour
  <2> QED
    BY <2>1, <2>2
<1>11. AlarmsExplained'
  <2> SUFFICES ASSUME NEW i \in alarms'
               PROVE  \E j \in alarms' \cap (shared' \cup evicted') : owner'[j] = owner'[i]
    BY DEF AlarmsExplained
  <2>1. CASE i \in alarms
    BY <1>1, <2>1 DEF Honest, AlarmsExplained
  <2>2. CASE i = k
    BY <1>1, <1>9, <2>2
  <2> QED
    BY <1>1, <2>1, <2>2
<1>12. Gentle
  BY <1>1, <1>7, <1>10, <1>11 DEF Gentle
<1> QED
  BY <1>3, <1>12, PlainHonest

\* A handler that issues a pair, or takes the token of the request off the
\* list: a refresh or a logout then, whose answer replaces the token unless it
\* is lost, and whose clashes the history records.
LEMMA IssueHonest ==
    ASSUME Honest, Len(owner) \in Nat, NEW c \in Calls, Only(c),
           calls[c].pc \in {"sent", "refreshing"},
           calls'[c].pc = IF calls[c].pc = "refreshing" THEN "refreshed" ELSE "reply",
           calls'[c].kind = calls[c].kind, calls'[c].cookie = calls[c].cookie,
           UNCHANGED <<cookie, alarms>>, shared \subseteq shared', evicted \subseteq evicted',
           Len(owner') \in Nat, Len(owner) <= Len(owner'),
           \A j \in 1..Len(owner) : owner'[j] = owner[j],
           listed \ {calls[c].cookie} \subseteq listed' \cup evicted',
           listed \subseteq listed' \cup evicted' \/ (Holds(c) /\ (calls[c].cookie \in shared' \/ Replaces(c)')),
           calls'[c].pair = calls[c].pair \/
              (/\ calls'[c].pair = Len(owner) + 1 /\ Len(owner') = Len(owner) + 1
               /\ calls'[c].pair \in listed')
    PROVE  Honest'
<1> DEFINE k == calls[c].cookie
<1>1. \A d \in Calls \ {c} : calls'[d] = calls[d]
  BY DEF Only
<1>2. \A i \in alarms \cap (shared \cup evicted) :
         i \in alarms' \cap (shared' \cup evicted') /\ i \in 1..Len(owner) /\ owner'[i] = owner[i]
  BY DEF Honest, Known
<1>3. ASSUME NEW j \in 1..Len(owner), Sour(j)
      PROVE  Sour(j)'
  BY <1>2, <1>3 DEF Sour
<1>4. ASSUME NEW j \in 1..Len(owner), j # k, Good(j)
      PROVE  Good(j)'
  BY <1>3, <1>4 DEF Good
<1>5. ASSUME k \in 1..Len(owner), Good(k)
      PROVE  Good(k)' \/ (Holds(c) /\ Replaces(c)')
  BY <1>3, <1>5 DEF Good
<1>6. Known'
  <2>1. ASSUME NEW d \in Calls
        PROVE  calls'[d].cookie \in 0..Len(owner') /\ calls'[d].pair \in 0..Len(owner')
    <3>1. calls[d].cookie \in 0..Len(owner) /\ calls[d].pair \in 0..Len(owner)
      BY DEF Honest, Known
    <3>2. CASE d = c
      BY <3>1, <3>2
    <3>3. CASE d # c
      BY <1>1, <3>1, <3>3
    <3> QED
      BY <3>2, <3>3
  <2>2. alarms' \subseteq 1..Len(owner') /\ cookie' \in 0..Len(owner')
    BY DEF Honest, Known
  <2> QED
    BY <2>1, <2>2 DEF Known
<1>7. JarGood'
  <2> SUFFICES ASSUME cookie # None
               PROVE  Good(cookie)' \/ \E d \in Calls : Replaces(d)' /\ calls'[d].cookie = cookie
    BY DEF JarGood
  <2>1. cookie \in 1..Len(owner)
    BY DEF Honest, Known, None
  <2>2. CASE Good(cookie) /\ cookie # k
    <3>1. Good(cookie)'
      BY <1>4, <2>1, <2>2
    <3> QED
      BY <3>1
  <2>3. CASE Good(cookie) /\ cookie = k
    BY <1>5, <2>1, <2>3
  <2>4. ASSUME NEW d \in Calls, Replaces(d), calls[d].cookie = cookie
        PROVE  Replaces(d)' /\ calls'[d].cookie = cookie
    <3>1. d # c
      BY <2>4 DEF Replaces
    <3> QED
      BY <1>1, <2>4, <3>1 DEF Replaces
  <2> QED
    BY <2>2, <2>3, <2>4 DEF Honest, JarGood
<1>8. RefreshGood'
  <2> SUFFICES ASSUME NEW d \in Calls, calls'[d].pc = "refreshing", calls'[d].cookie # None
               PROVE  Good(calls[d].cookie)'
    BY DEF RefreshGood
  <2>1. d # c /\ calls'[d] = calls[d]
    BY <1>1
  <2>2. Good(calls[d].cookie) /\ calls[d].cookie \in 1..Len(owner)
    BY <2>1 DEF Honest, RefreshGood, Known, None
  <2>3. CASE calls[d].cookie # k
    BY <1>4, <2>1, <2>2, <2>3
  <2>4. CASE calls[d].cookie = k /\ Holds(c)
    <3>1. Clash(d, c)
      BY <2>1, <2>4 DEF Clash, Refreshes
    <3>2. calls[d].cookie \in shared'
      BY <3>1 DEF Honest, SharingSeen
    <3> QED
      BY <2>1, <3>2 DEF Good
  <2>5. CASE calls[d].cookie = k /\ ~Holds(c)
    BY <1>5, <2>1, <2>2, <2>5
  <2> QED
    BY <2>3, <2>4, <2>5
<1>9. SharingSeen'
  <2> SUFFICES ASSUME NEW d \in Calls, NEW e \in Calls, Clash(d, e)'
               PROVE  calls'[d].cookie \in shared'
    BY DEF SharingSeen
  <2>1. ASSUME NEW f \in Calls
        PROVE  /\ Refreshes(f)' <=> Refreshes(f)
               /\ Holds(f)' <=> Holds(f)
               /\ calls'[f].cookie = calls[f].cookie
    <3>1. CASE f = c
      BY <3>1 DEF Refreshes, Holds, Open
    <3>2. CASE f # c
      <4>1. calls'[f] = calls[f]
        BY <1>1, <3>2
      <4> QED
        BY <4>1 DEF Refreshes, Holds, Open
    <3> QED
      BY <3>1, <3>2
  <2>2. Clash(d, e)
    BY <2>1 DEF Clash
  <2> QED
    BY <2>1, <2>2 DEF Honest, SharingSeen
<1>10. PairsFresh'
  <2> SUFFICES ASSUME NEW d \in Calls, calls'[d].pair # None
               PROVE  /\ Good(calls[d].pair)' /\ cookie # calls'[d].pair
                      /\ \A e \in Calls : /\ calls'[e].cookie # calls'[d].pair
                                          /\ e # d => calls'[e].pair # calls'[d].pair
    BY DEF PairsFresh
  <2>1. \A e \in Calls : calls'[e].cookie = calls[e].cookie
    BY <1>1
  <2>2. \A e \in Calls : calls[e].cookie \in 0..Len(owner) /\ calls[e].pair \in 0..Len(owner)
    BY DEF Honest, Known
  <2>3. CASE calls'[d].pair = calls[d].pair
    <3>1. /\ Good(calls[d].pair) /\ cookie # calls[d].pair
          /\ \A e \in Calls : calls[e].cookie # calls[d].pair /\ (e # d => calls[e].pair # calls[d].pair)
      BY <2>3 DEF Honest, PairsFresh
    <3>2. calls[d].pair \in 1..Len(owner) /\ calls[d].pair # k
      BY <2>2, <2>3, <3>1 DEF None
    <3>3. Good(calls[d].pair)'
      BY <1>4, <2>3, <3>1, <3>2
    <3>4. ASSUME NEW e \in Calls, e # d
          PROVE  calls'[e].pair # calls'[d].pair
      <4>1. calls'[e].pair = calls[e].pair \/ calls'[e].pair = Len(owner) + 1
        BY <1>1
      <4> QED
        BY <2>3, <3>1, <3>2, <3>4, <4>1
    <3> QED
      BY <2>1, <2>3, <3>1, <3>3, <3>4
  <2>4. CASE calls'[d].pair # calls[d].pair
    <3>1. d = c /\ calls'[c].pair = Len(owner) + 1 /\ calls'[c].pair \in listed'
      BY <1>1, <2>4
    <3>2. Good(calls[d].pair)'
      BY <3>1 DEF Good
    <3>3. cookie # Len(owner) + 1
      BY DEF Honest, Known
    <3>4. ASSUME NEW e \in Calls
          PROVE  calls'[e].cookie # Len(owner) + 1 /\ (e # d => calls'[e].pair # Len(owner) + 1)
      BY <1>1, <2>1, <2>2, <3>1
    <3> QED
      BY <3>1, <3>2, <3>3, <3>4
  <2> QED
    BY <2>3, <2>4
<1>11. AlarmsExplained'
  <2> SUFFICES ASSUME NEW i \in alarms'
               PROVE  \E j \in alarms' \cap (shared' \cup evicted') : owner'[j] = owner'[i]
    BY DEF AlarmsExplained
  <2>1. i \in 1..Len(owner) /\ Sour(i)
    BY DEF Honest, Known, AlarmsExplained, Sour
  <2> QED
    BY <1>3, <2>1 DEF Sour
<1> QED
  BY <1>6, <1>7, <1>8, <1>9, <1>10, <1>11 DEF Honest

\* A handler behind authenticate: only a logout has to do with the list.
LEMMA HandleHonest ==
    ASSUME Shape, Issued, Honest, NEW c \in Calls, Handle(c), UNCHANGED cookie
    PROVE  Honest'
<1> DEFINE k == calls[c].cookie
           mine == {j \in {k} \cap Pairs : owner[j] = owner[calls[c].token]}
<1>1. /\ calls[c].pc = "sent" /\ UNCHANGED <<owner, alarms, evicted>>
      /\ listed' = IF calls[c].kind = "logout" THEN listed \ mine ELSE listed
  BY DEF Handle
<1>2. PICK o \in Outcomes :
         /\ Replied(c, [calls[c] EXCEPT !.code = o, !.ran = o, !.ranAs = owner[calls[c].token]])
         /\ shared' = IF calls[c].kind = "logout" /\ o = "failed" THEN shared \cup mine ELSE shared
  BY DEF Handle
<1> DEFINE q == [calls[c] EXCEPT !.code = o, !.ran = o, !.ranAs = owner[calls[c].token]]
<1>3. DOMAIN q = Fields /\ q.pc = calls[c].pc /\ q.kind = calls[c].kind
      /\ q.cookie = calls[c].cookie /\ q.pair = calls[c].pair /\ q.code = o
  BY DEF Shape, Fields
<1> HIDE DEF q
<1>4. Replied(c, q)
  BY <1>2 DEF q
<1>5. /\ Only(c) /\ calls'[c].pc = "reply" /\ calls'[c].kind = calls[c].kind
      /\ calls'[c].cookie = k /\ calls'[c].pair = calls[c].pair /\ calls'[c].code = o
  BY <1>1, <1>3, <1>4, RepliedParts
<1>6. mine \subseteq {k} /\ o \in {"ok", "failed"}
  BY DEF Outcomes
<1>7. listed \ {k} \subseteq listed' /\ shared \subseteq shared' /\ evicted \subseteq evicted'
  BY <1>1, <1>2, <1>6
<1>8. listed \subseteq listed' \/ (Holds(c) /\ (k \in shared' \/ Replaces(c)'))
  <2>1. CASE calls[c].kind = "logout" /\ k \in mine
    <3>1. Holds(c)
      BY <1>1, <2>1 DEF Holds, Open
    <3>2. CASE o = "failed"
      BY <1>2, <2>1, <3>1, <3>2
    <3>3. CASE o = "ok"
      BY <1>5, <2>1, <3>1, <3>3 DEF Replaces
    <3> QED
      BY <1>6, <3>2, <3>3
  <2>2. CASE calls[c].kind # "logout" \/ k \notin mine
    BY <1>1, <1>6, <2>2
  <2> QED
    BY <2>1, <2>2
<1>9. /\ Len(owner) \in Nat /\ Len(owner') \in Nat /\ Len(owner) <= Len(owner')
      /\ \A j \in 1..Len(owner) : owner'[j] = owner[j]
  BY <1>1 DEF Issued
<1>10. UNCHANGED <<cookie, alarms>>
  BY <1>1
<1> HIDE DEF mine
<1> QED
  BY <1>1, <1>5, <1>7, <1>8, <1>9, <1>10, IssueHonest

\* A login adds a pair that nobody has seen.
LEMMA LoginHonest ==
    ASSUME Shape, Issued, Honest, NEW c \in Calls, Login(c), UNCHANGED cookie
    PROVE  Honest'
<1> DEFINE next == Len(owner) + 1
<1>1. PICK a \in Accounts, o \in Outcomes :
         /\ Issue(a)
         /\ Replied(c, [calls[c] EXCEPT !.code = o, !.ran = o, !.ranAs = a, !.pair = next])
  BY DEF Login
<1>2. /\ calls[c].pc = "sent" /\ UNCHANGED <<alarms, shared>>
      /\ listed \cup {next} \subseteq listed' \cup evicted' /\ evicted \subseteq evicted'
      /\ next \in listed'
  BY DEF Login, AddRefreshToken
<1> DEFINE q == [calls[c] EXCEPT !.code = o, !.ran = o, !.ranAs = a, !.pair = next]
<1>3. DOMAIN q = Fields /\ q.pc = calls[c].pc /\ q.kind = calls[c].kind
      /\ q.cookie = calls[c].cookie /\ q.pair = next
  BY DEF Shape, Fields
<1> HIDE DEF q
<1>4. Replied(c, q)
  BY <1>1 DEF q
<1>5. /\ Only(c) /\ calls'[c].pc = "reply" /\ calls'[c].kind = calls[c].kind
      /\ calls'[c].cookie = calls[c].cookie /\ calls'[c].pair = next
  BY <1>2, <1>3, <1>4, RepliedParts
<1>6. /\ Len(owner') = next /\ Len(owner) \in Nat
      /\ \A j \in 1..Len(owner) : owner'[j] = owner[j]
  BY <1>1, IssueKeeps DEF Issue
<1> QED
  BY <1>2, <1>5, <1>6, IssueHonest

\* A refresh puts a new pair in the place of the token it was sent with.
LEMMA RotateHonest ==
    ASSUME Shape, Issued, Honest, NEW c \in Calls, RotateTokens(c), UNCHANGED cookie
    PROVE  Honest'
<1> DEFINE next == Len(owner) + 1
           k == calls[c].cookie
<1>1. /\ calls[c].pc = "refreshing" /\ k \in listed /\ Issue(owner[k])
      /\ listed \ {k} \subseteq listed' \cup evicted' /\ next \in listed'
      /\ evicted \subseteq evicted' /\ UNCHANGED alarms
  BY DEF RotateTokens, AddRefreshToken
<1>2. PICK o \in Outcomes :
         /\ Replied(c, [calls[c] EXCEPT !.code = o, !.pair = next])
         /\ shared' = IF o = "failed" THEN shared \cup {k} ELSE shared
  BY DEF RotateTokens
<1> DEFINE q == [calls[c] EXCEPT !.code = o, !.pair = next]
<1>3. DOMAIN q = Fields /\ q.pc = calls[c].pc /\ q.kind = calls[c].kind
      /\ q.cookie = k /\ q.pair = next /\ q.code = o
  BY DEF Shape, Fields
<1> HIDE DEF q
<1>4. Replied(c, q)
  BY <1>2 DEF q
<1>5. /\ Only(c) /\ calls'[c].pc = "refreshed" /\ calls'[c].kind = calls[c].kind
      /\ calls'[c].cookie = k /\ calls'[c].pair = next /\ calls'[c].code = o
  BY <1>1, <1>3, <1>4, RepliedParts
<1>6. owner[k] \in Accounts
  <2>1. owner \in Seq(Accounts) /\ k \in 1..Len(owner)
    BY <1>1 DEF Issued
  <2> HIDE DEF k
  <2> QED
    BY <2>1
<1>7. /\ Len(owner') = next /\ Len(owner) \in Nat
      /\ \A j \in 1..Len(owner) : owner'[j] = owner[j]
  BY <1>1, <1>6, IssueKeeps DEF Issue
<1>8. Holds(c) /\ (k \in shared' \/ Replaces(c)')
  BY <1>1, <1>2, <1>5 DEF Holds, Refreshes, Replaces, Outcomes
<1>9. shared \subseteq shared'
  BY <1>1, <1>2
<1> QED
  BY <1>1, <1>5, <1>7, <1>8, <1>9, IssueHonest

\* Every step keeps the browser honest.
LEMMA NextHonest == Shape /\ Issued /\ Honest /\ [Next]_vars => Honest'
<1> SUFFICES ASSUME Shape, Issued, Honest, [Next]_vars
             PROVE  Honest'
  OBVIOUS
<1>1. ASSUME NEW c \in Calls, Serve(c)
      PROVE  Honest'
  <2>1. UNCHANGED cookie
    BY <1>1 DEF Serve, browser
  <2> QED
    BY <1>1, <2>1, RefuseHonest, AlarmHonest, HandleHonest, LoginHonest, RotateHonest DEF Serve
<1>2. ASSUME NEW c \in Calls, Receive(c)
      PROVE  Honest'
  BY <1>2, AnswerHonest, EnqueueHonest, StartRefreshHonest, ReplayHonest, RejectHonest, IgnoreHonest
     DEF Receive
<1>3. ASSUME UNCHANGED <<owner, listed, browser, calls, history>>
      PROVE  Honest'
  <2>1. UNCHANGED <<owner, listed, alarms, evicted, shared, cookie, calls>>
    BY <1>3 DEF browser, history
  <2>2. \A d \in Calls :
           /\ Refreshes(d)' <=> Refreshes(d)
           /\ Holds(d)' <=> Holds(d)
           /\ Replaces(d)' <=> Replaces(d)
    BY <2>1 DEF Refreshes, Holds, Open, Replaces
  <2> QED
    BY <2>1, <2>2, ManyHonest
<1>4. ASSUME NEW k \in Pairs, Expire(k)
      PROVE  Honest'
  BY <1>3, <1>4 DEF Expire
<1>5. CASE UNCHANGED vars
  BY <1>3, <1>5 DEF vars, server
<1> QED
  BY <1>1, <1>2, <1>4, <1>5, SendHonest, ReloadHonest DEF Next

\* auth.service.js:62-75, User.js:59-65, axios.js:36-71: the reuse alarm goes off
\* for an honest browser only if two requests held a token of the account at one
\* time, the answer that replaced it was lost, or newer tokens pushed it out of the
\* list, for every limit of the list and every number of tabs, requests and
\* sign-ins.
THEOREM AlarmsHaveCause == Spec => []AlarmsExplained
<1>1. Init => Shape /\ Issued /\ Honest
  BY InitShape, InitIssued, InitHonest
<1>2. Shape /\ Issued /\ Honest /\ [Next]_vars => Shape' /\ Issued' /\ Honest'
  BY NextShape, NextIssued, NextHonest
<1>3. Honest => AlarmsExplained
  BY DEF Honest
<1> QED
  BY <1>1, <1>2, <1>3, PTL DEF Spec
===============================================================================

---------------------------- MODULE ServerProofs ----------------------------
(***************************************************************************)
(* Proofs about the API process, for every number of connections, keys,    *)
(* routes and accounts: how it ends, who gets past its checks, what the    *)
(* seed script leaves, and how often the limiters let a key through.       *)
(***************************************************************************)
EXTENDS Server, FiniteSetTheorems, TLAPS

-----------------------------------------------------------------------------
(* The shape of the requests and of the accounts. *)

Requests(n) ==
    [pc : {"idle", "refused", "checking", "running"}, route : Routes \cup {"none"},
     id : 0..n, known : BOOLEAN]

Shape ==
    /\ conns \in [Connections -> [open : BOOLEAN, req : Requests(Len(accounts))]]
    /\ accounts \in Seq([email : Emails, role : {"admin", "user"}])
    /\ present \in SUBSET (1..Len(accounts))

\* At the start no connection is open and no account exists.
LEMMA InitShape == Init => Shape
  BY DEF Init, Shape, Requests, Closed, Idle

\* More accounts do not change the type of a request.
LEMMA RequestsGrow ==
    ASSUME Shape, NEW n \in Nat, Len(accounts) <= n
    PROVE  conns \in [Connections -> [open : BOOLEAN, req : Requests(n)]]
<1>1. Len(accounts) \in Nat
  BY DEF Shape
<1>2. \A i \in 0..Len(accounts) : i \in 0..n
  BY <1>1
<1> QED
  BY <1>2 DEF Shape, Requests

\* A new account has a number of its own.
LEMMA CreateShape ==
    ASSUME Shape, NEW e \in Emails, NEW r \in {"admin", "user"}, Create(e, r)
    PROVE  /\ accounts' \in Seq([email : Emails, role : {"admin", "user"}])
           /\ Len(accounts') = Len(accounts) + 1 /\ Len(accounts) \in Nat
           /\ present' = present \cup {Len(accounts')}
           /\ present' \in SUBSET (1..Len(accounts'))
           /\ accounts'[Len(accounts')] = [email |-> e, role |-> r]
           /\ \A i \in 1..Len(accounts) : accounts'[i] = accounts[i]
<1>1. /\ accounts \in Seq([email : Emails, role : {"admin", "user"}])
      /\ Len(accounts) \in Nat /\ present \in SUBSET (1..Len(accounts))
  BY DEF Shape
<1>2. [email |-> e, role |-> r] \in [email : Emails, role : {"admin", "user"}]
  OBVIOUS
<1> QED
  BY <1>1, <1>2 DEF Create

\* The accounts are the same, or one was created, or all were removed.
LEMMA AccountSteps ==
    ASSUME Shape, [Next]_vars
    PROVE  \/ UNCHANGED database
           \/ \E e \in Emails, r \in {"admin", "user"} : Create(e, r)
           \/ present' = {} /\ UNCHANGED accounts
<1>1. ASSUME NEW s \in Seeders, SeedStep(s)
      PROVE  \/ UNCHANGED database
             \/ \E e \in Emails, r \in {"admin", "user"} : Create(e, r)
  BY <1>1 DEF SeedStep, Emails
<1>2. ASSUME NEW s \in Seeders, StartSeed(s) \/ FailSeed(s)
      PROVE  UNCHANGED database \/ (present' = {} /\ UNCHANGED accounts)
  BY <1>2 DEF StartSeed, FailSeed
<1>3. ASSUME NEW c \in Connections, Finish(c)
      PROVE  UNCHANGED database \/ \E e \in Emails : Create(e, "user")
  BY <1>3 DEF Finish
<1>4. ASSUME NEW c \in Connections,
             \/ \E k \in Keys, route \in Routes, id \in 0..Len(accounts) : Arrive(c, k, route, id)
             \/ Uncounted(c) \/ Refuse(c) \/ Check(c) \/ Disconnect(c)
      PROVE  UNCHANGED database
  BY <1>4 DEF Arrive, Uncounted, Refuse, Check, Disconnect
<1>5. CASE \/ Signal \/ Reject \/ Throw \/ LeaveServer \/ LeaveDatabase \/ Start
           \/ Tick \/ UNCHANGED vars
  BY <1>5 DEF Signal, Reject, Throw, LeaveServer, LeaveDatabase, Start, Tick, vars
<1> QED
  BY <1>1, <1>2, <1>3, <1>4, <1>5 DEF Next

\* What a request becomes: nothing, the next one, or one whose handler runs.
LEMMA RequestSteps ==
    ASSUME Shape, [Next]_vars, NEW c \in Connections
    PROVE  \/ conns'[c].req = conns[c].req
           \/ conns'[c].req \in {Idle, Refused}
           \/ /\ conns[c].req = Idle
              /\ \E route \in Routes, id \in 0..Len(accounts) :
                    conns'[c].req =
                       [pc |-> IF route \in Protected THEN "checking" ELSE "running",
                        route |-> route, id |-> id, known |-> id \in present]
           \/ /\ conns[c].req.pc = "checking" /\ conns[c].req.id \in present
              /\ conns'[c].req = [conns[c].req EXCEPT !.pc = "running", !.id = 0]
<1> DEFINE Goal ==
           \/ conns'[c].req = conns[c].req
           \/ conns'[c].req \in {Idle, Refused}
           \/ /\ conns[c].req = Idle
              /\ \E route \in Routes, id \in 0..Len(accounts) :
                    conns'[c].req =
                       [pc |-> IF route \in Protected THEN "checking" ELSE "running",
                        route |-> route, id |-> id, known |-> id \in present]
           \/ /\ conns[c].req.pc = "checking" /\ conns[c].req.id \in present
              /\ conns'[c].req = [conns[c].req EXCEPT !.pc = "running", !.id = 0]
<1>0. conns \in [Connections -> [open : BOOLEAN, req : Requests(Len(accounts))]]
  BY DEF Shape
<1>1. ASSUME NEW d \in Connections, NEW k \in Keys, NEW route \in Routes,
             NEW id \in 0..Len(accounts), Arrive(d, k, route, id)
      PROVE  Goal
  <2> DEFINE taken == [pc |-> IF route \in Protected THEN "checking" ELSE "running",
                       route |-> route, id |-> id, known |-> id \in present]
  <2>1. /\ conns[d].req = Idle
        /\ \/ conns' = [conns EXCEPT ![d] = [open |-> TRUE, req |-> Refused]]
           \/ conns' = [conns EXCEPT ![d] = [open |-> TRUE, req |-> taken]]
    BY <1>1 DEF Arrive, Reachable
  <2>2. CASE c = d
    <3>1. conns'[c].req = Refused \/ conns'[c].req = taken
      BY <1>0, <2>1, <2>2
    <3> QED
      BY <2>1, <2>2, <3>1
  <2>3. CASE c # d
    BY <1>0, <2>1, <2>3
  <2> QED
    BY <2>2, <2>3
<1>2. ASSUME NEW d \in Connections, Uncounted(d) \/ Refuse(d) \/ Disconnect(d)
      PROVE  Goal
  BY <1>0, <1>2 DEF Uncounted, Refuse, Answered, Disconnect
<1>3. ASSUME NEW d \in Connections, Check(d)
      PROVE  Goal
  <2>1. /\ conns[d].req.pc = "checking"
        /\ \/ conns' = [conns EXCEPT ![d].req = Idle]
           \/ /\ conns[d].req.id \in present
              /\ conns' = [conns EXCEPT ![d].req.pc = "running", ![d].req.id = 0]
    BY <1>3 DEF Check, Answered, MayRun
  <2>2. CASE c = d
    <3>1. CASE conns' = [conns EXCEPT ![d].req = Idle]
      BY <1>0, <2>2, <3>1
    <3>2. CASE /\ conns[d].req.id \in present
               /\ conns' = [conns EXCEPT ![d].req.pc = "running", ![d].req.id = 0]
      <4>1. conns'[c].req = [conns[c].req EXCEPT !.pc = "running", !.id = 0]
        BY <1>0, <2>2, <3>2
      <4> QED
        BY <2>1, <2>2, <3>2, <4>1
    <3> QED
      BY <2>1, <3>1, <3>2
  <2>3. CASE c # d
    BY <1>0, <2>1, <2>3
  <2> QED
    BY <2>2, <2>3
<1>4. ASSUME NEW d \in Connections, Finish(d)
      PROVE  Goal
  BY <1>0, <1>4 DEF Finish, Answered
<1>5. CASE Signal \/ Reject \/ Throw \/ LeaveServer \/ LeaveDatabase
  BY <1>0, <1>5 DEF Signal, Reject, Throw, LeaveServer, LeaveDatabase, CloseServer, End, Closed
<1>6. ASSUME Start \/ Tick \/ UNCHANGED vars \/ \E s \in Seeders : StartSeed(s) \/ SeedStep(s) \/ FailSeed(s)
      PROVE  conns' = conns
  BY <1>6 DEF Start, StartSeed, SeedStep, FailSeed, Tick, vars
<1> QED
  BY <1>1, <1>2, <1>3, <1>4, <1>5, <1>6 DEF Next

\* A request keeps its type when its look-up is over.
LEMMA RequestParts ==
    ASSUME NEW n \in Nat, NEW q \in Requests(n)
    PROVE  [q EXCEPT !.pc = "running"] \in Requests(n) /\ [q EXCEPT !.id = 0] \in Requests(n)
  BY DEF Requests

\* Every step leaves connections, with requests of the accounts there are.
LEMMA ConnsShape ==
    ASSUME Shape, [Next]_vars
    PROVE  conns' \in [Connections -> [open : BOOLEAN, req : Requests(Len(accounts))]]
<1>0. /\ conns \in [Connections -> [open : BOOLEAN, req : Requests(Len(accounts))]]
      /\ Len(accounts) \in Nat
  BY DEF Shape
<1>1. /\ Idle \in Requests(Len(accounts)) /\ Refused \in Requests(Len(accounts))
      /\ Closed \in [open : BOOLEAN, req : Requests(Len(accounts))]
  BY <1>0 DEF Idle, Refused, Closed, Requests
<1>2. ASSUME NEW d \in Connections, NEW k \in Keys, NEW route \in Routes,
             NEW id \in 0..Len(accounts), Arrive(d, k, route, id)
      PROVE  conns' \in [Connections -> [open : BOOLEAN, req : Requests(Len(accounts))]]
  <2> DEFINE taken == [pc |-> IF route \in Protected THEN "checking" ELSE "running",
                       route |-> route, id |-> id, known |-> id \in present]
  <2>1. taken \in Requests(Len(accounts))
    BY DEF Requests
  <2>2. \/ conns' = [conns EXCEPT ![d] = [open |-> TRUE, req |-> Refused]]
        \/ conns' = [conns EXCEPT ![d] = [open |-> TRUE, req |-> taken]]
    BY <1>2 DEF Arrive
  <2> HIDE DEF taken
  <2>3. \A q \in Requests(Len(accounts)) :
           [open |-> TRUE, req |-> q] \in [open : BOOLEAN, req : Requests(Len(accounts))]
    OBVIOUS
  <2>4. /\ [open |-> TRUE, req |-> Refused] \in [open : BOOLEAN, req : Requests(Len(accounts))]
        /\ [open |-> TRUE, req |-> taken] \in [open : BOOLEAN, req : Requests(Len(accounts))]
    BY <1>1, <2>1, <2>3
  <2> QED
    BY <1>0, <2>2, <2>4
<1>3. ASSUME NEW d \in Connections, Uncounted(d) \/ Disconnect(d)
      PROVE  conns' \in [Connections -> [open : BOOLEAN, req : Requests(Len(accounts))]]
  <2>1. [open |-> TRUE, req |-> Refused] \in [open : BOOLEAN, req : Requests(Len(accounts))]
    BY <1>1
  <2>2. [conns[d] EXCEPT !.open = FALSE] \in [open : BOOLEAN, req : Requests(Len(accounts))]
    BY <1>0
  <2> QED
    BY <1>0, <1>3, <2>1, <2>2 DEF Uncounted, Disconnect
<1>4. ASSUME NEW d \in Connections, Check(d)
      PROVE  conns' \in [Connections -> [open : BOOLEAN, req : Requests(Len(accounts))]]
  <2>1. CASE Answered(d)
    BY <1>0, <1>1, <2>1 DEF Answered
  <2>2. CASE conns' = [conns EXCEPT ![d].req.pc = "running", ![d].req.id = 0]
    <3> DEFINE q == conns[d].req
               r == [q EXCEPT !.pc = "running", !.id = 0]
    <3>1. q \in Requests(Len(accounts))
      BY <1>0
    <3>2. r \in Requests(Len(accounts))
      <4>1. [q EXCEPT !.pc = "running"] \in Requests(Len(accounts))
        BY <1>0, <3>1, RequestParts
      <4>2. [[q EXCEPT !.pc = "running"] EXCEPT !.id = 0] \in Requests(Len(accounts))
        BY <1>0, <4>1, RequestParts
      <4> QED
        BY <4>2
    <3>3. conns' = [conns EXCEPT ![d] = [@ EXCEPT !.req = r]]
      BY <1>0, <2>2
    <3> QED
      BY <1>0, <3>2, <3>3
  <2> QED
    BY <1>4, <2>1, <2>2 DEF Check
<1>5. ASSUME NEW d \in Connections, Finish(d) \/ Refuse(d)
      PROVE  conns' \in [Connections -> [open : BOOLEAN, req : Requests(Len(accounts))]]
  BY <1>0, <1>1, <1>5 DEF Finish, Refuse, Answered
<1>6. ASSUME CloseServer
      PROVE  conns' \in [Connections -> [open : BOOLEAN, req : Requests(Len(accounts))]]
  <2>1. ASSUME NEW c \in Connections
        PROVE  [conns[c] EXCEPT !.open = @ /\ conns[c].req # Idle]
                  \in [open : BOOLEAN, req : Requests(Len(accounts))]
    BY <1>0
  <2> QED
    BY <1>0, <1>6, <2>1 DEF CloseServer
<1>7. ASSUME NEW code, End(code)
      PROVE  conns' \in [Connections -> [open : BOOLEAN, req : Requests(Len(accounts))]]
  BY <1>1, <1>7 DEF End
<1>8. CASE Signal \/ Reject \/ Throw \/ LeaveServer \/ LeaveDatabase
  BY <1>0, <1>6, <1>7, <1>8 DEF Signal, Reject, Throw, LeaveServer, LeaveDatabase
<1>9. ASSUME Start \/ Tick \/ UNCHANGED vars \/ \E s \in Seeders : StartSeed(s) \/ SeedStep(s) \/ FailSeed(s)
      PROVE  conns' = conns
  BY <1>9 DEF Start, StartSeed, SeedStep, FailSeed, Tick, vars
<1> QED
  BY <1>0, <1>2, <1>3, <1>4, <1>5, <1>8, <1>9 DEF Next

\* So does every step.
LEMMA NextShape == Shape /\ [Next]_vars => Shape'
<1> SUFFICES ASSUME Shape, [Next]_vars PROVE Shape'
  OBVIOUS
<1>1. conns' \in [Connections -> [open : BOOLEAN, req : Requests(Len(accounts))]]
  BY ConnsShape
<1>2. CASE UNCHANGED database
  BY <1>1, <1>2 DEF Shape, database
<1>3. ASSUME NEW e \in Emails, NEW r \in {"admin", "user"}, Create(e, r)
      PROVE  Shape'
  <2>1. /\ accounts' \in Seq([email : Emails, role : {"admin", "user"}])
        /\ Len(accounts') = Len(accounts) + 1 /\ Len(accounts) \in Nat
        /\ present' \in SUBSET (1..Len(accounts'))
    BY <1>3, CreateShape
  <2>2. \A i \in 0..Len(accounts) : i \in 0..Len(accounts')
    BY <2>1
  <2>3. Requests(Len(accounts)) \subseteq Requests(Len(accounts'))
    BY <2>2 DEF Requests
  <2>4. conns' \in [Connections -> [open : BOOLEAN, req : Requests(Len(accounts'))]]
    BY <1>1, <2>3
  <2> QED
    BY <2>1, <2>4 DEF Shape
<1>4. CASE present' = {} /\ UNCHANGED accounts
  BY <1>1, <1>4 DEF Shape
<1> QED
  BY <1>2, <1>3, <1>4, AccountSteps

\* The types of the process and of the runs of the seed script.
Plain ==
    /\ life \in {"up", "draining", "leaving", "down"}
    /\ doomed \in BOOLEAN
    /\ exit \in {"none", "clean", "rejected", "thrown"} /\ cut \in SUBSET Connections
    /\ seeds \in [Seeders -> {"idle", "events", "done"} \cup Emails]
    /\ emptied \in SUBSET Seeders

\* At the start they hold.
LEMMA InitPlain == Init => Plain
BY DEF Init, Plain

\* Every step keeps the plain types.
LEMMA NextPlain == Plain /\ [Next]_vars => Plain'
<1> SUFFICES ASSUME Plain, [Next]_vars PROVE Plain'
  OBVIOUS
<1>1. ASSUME NEW c \in Connections,
             \/ \E k \in Keys, route \in Routes, id \in 0..Len(accounts) : Arrive(c, k, route, id)
             \/ Uncounted(c) \/ Refuse(c) \/ Check(c) \/ Finish(c) \/ Disconnect(c)
      PROVE  Plain'
  BY <1>1 DEF Arrive, Uncounted, Refuse, Check, Finish, Disconnect, process, seeding, Plain
<1>2. CASE Signal \/ Reject
  BY <1>2 DEF Signal, Reject, CloseServer, End, seeding, Plain
<1>3. CASE Throw \/ LeaveServer \/ LeaveDatabase \/ Start
  BY <1>3 DEF Throw, LeaveServer, LeaveDatabase, Start, End, seeding, Plain
<1>4. ASSUME NEW s \in Seeders, StartSeed(s) \/ SeedStep(s) \/ FailSeed(s)
      PROVE  Plain'
  BY <1>4 DEF StartSeed, SeedStep, FailSeed, process, Plain, Emails
<1>5. CASE Tick \/ UNCHANGED vars
  BY <1>5 DEF Tick, vars, process, seeding, Plain
<1> QED
  BY <1>1, <1>2, <1>3, <1>4, <1>5 DEF Next

-----------------------------------------------------------------------------
(* The checks. *)

\* An account that is found was there when its request came: numbers are not
\* used again.
CheckInv ==
    /\ \A c \in Connections :
          conns[c].req.pc = "checking" /\ conns[c].req.id \in present => conns[c].req.known
    /\ StrangersOut

\* Every step keeps what is known of the access checks.
LEMMA NextCheck == Shape /\ CheckInv /\ [Next]_vars => CheckInv'
<1> SUFFICES ASSUME Shape, CheckInv, [Next]_vars, NEW c \in Connections
             PROVE  /\ conns'[c].req.pc = "checking" /\ conns'[c].req.id \in present'
                          => conns'[c].req.known
                    /\ conns'[c].req.pc = "running" /\ conns'[c].req.route \in Protected
                          => conns'[c].req.known
  BY DEF CheckInv, StrangersOut
<1>0. conns[c].req \in Requests(Len(accounts)) /\ Len(accounts) \in Nat
  BY DEF Shape
<1>1. \A id \in 0..Len(accounts) : id \in present' => id \in present
  <2>1. ASSUME NEW e \in Emails, NEW r \in {"admin", "user"}, Create(e, r)
        PROVE  \A id \in 0..Len(accounts) : id \in present' => id \in present
    <3>1. present' = present \cup {Len(accounts) + 1}
      BY <2>1 DEF Create
    <3> QED
      BY <1>0, <3>1
  <2> QED
    BY <2>1, AccountSteps DEF database
<1>2. CASE conns'[c].req = conns[c].req
  BY <1>0, <1>1, <1>2 DEF CheckInv, StrangersOut, Requests
<1>3. CASE conns'[c].req \in {Idle, Refused}
  BY <1>3 DEF Idle, Refused
<1>4. ASSUME NEW route \in Routes, NEW id \in 0..Len(accounts),
             conns'[c].req = [pc |-> IF route \in Protected THEN "checking" ELSE "running",
                              route |-> route, id |-> id, known |-> id \in present]
      PROVE  /\ conns'[c].req.pc = "checking" /\ conns'[c].req.id \in present'
                   => conns'[c].req.known
             /\ conns'[c].req.pc = "running" /\ conns'[c].req.route \in Protected
                   => conns'[c].req.known
  <2>1. /\ conns'[c].req.pc = IF route \in Protected THEN "checking" ELSE "running"
        /\ conns'[c].req.route = route /\ conns'[c].req.id = id
        /\ conns'[c].req.known = (id \in present)
    BY <1>4
  <2>2. id \in present' => id \in present
    BY <1>1
  <2> QED
    BY <2>1, <2>2
<1>5. CASE /\ conns[c].req.pc = "checking" /\ conns[c].req.id \in present
           /\ conns'[c].req = [conns[c].req EXCEPT !.pc = "running", !.id = 0]
  <2>1. conns'[c].req.pc = "running" /\ conns'[c].req.known = conns[c].req.known
    BY <1>0, <1>5 DEF Requests
  <2> QED
    BY <1>5, <2>1 DEF CheckInv
<1> QED
  BY <1>2, <1>3, <1>4, <1>5, RequestSteps

\* No handler behind authenticate runs for an account that was gone when its
\* request came, however often the seed script replaces the accounts.
THEOREM NoStrangers == Spec => []StrangersOut
<1>1. Init => CheckInv
  BY DEF Init, CheckInv, StrangersOut, Closed, Idle
<1>2. Spec => [](Shape /\ CheckInv)
  BY <1>1, InitShape, NextShape, NextCheck, PTL DEF Spec
<1>3. CheckInv => StrangersOut
  BY DEF CheckInv
<1> QED
  BY <1>2, <1>3, PTL

-----------------------------------------------------------------------------
(* The seed script. *)

\* The admin of a run is there from its creation until another run empties the
\* collection.
SeedInv ==
    \A s \in Seeders : seeds[s] \in {"demo", "events", "done"} /\ s \notin emptied =>
        \E i \in present : accounts[i] = Admin

\* An account is removed by an emptying only.
LEMMA AdminStays ==
    ASSUME Shape, UNCHANGED database \/ \E e \in Emails, r \in {"admin", "user"} : Create(e, r),
           \E i \in present : accounts[i] = Admin
    PROVE  \E i \in present' : accounts'[i] = Admin
<1>1. PICK i \in present : accounts[i] = Admin
  OBVIOUS
<1>2. i \in 1..Len(accounts)
  BY DEF Shape
<1>3. i \in present' /\ accounts'[i] = accounts[i]
  BY <1>2, CreateShape DEF database
<1> QED
  BY <1>1, <1>3

\* Every step keeps what is known of the runs of the seed script.
LEMMA NextSeed == Shape /\ Plain /\ SeedInv /\ [Next]_vars => SeedInv'
<1> SUFFICES ASSUME Shape, Plain, SeedInv, [Next]_vars, NEW s \in Seeders,
                    seeds'[s] \in {"demo", "events", "done"}, s \notin emptied'
             PROVE  \E i \in present' : accounts'[i] = Admin
  BY DEF SeedInv
<1>0. seeds \in [Seeders -> {"idle", "events", "done"} \cup Emails]
  BY DEF Plain
<1>1. ASSUME NEW r \in Seeders, StartSeed(r)
      PROVE  FALSE
  <2>1. r # s /\ seeds'[s] = seeds[s]
    BY <1>0, <1>1 DEF StartSeed
  <2> QED
    BY <1>1, <2>1 DEF StartSeed
<1>2. ASSUME NEW r \in Seeders, SeedStep(r)
      PROVE  \E i \in present' : accounts'[i] = Admin
  <2>1. emptied' = emptied /\ (UNCHANGED database \/ \E e \in Emails, t \in {"admin", "user"} : Create(e, t))
    BY <1>2 DEF SeedStep, Emails
  <2>2. CASE seeds[s] \in {"demo", "events", "done"}
    BY <2>1, <2>2, AdminStays DEF SeedInv
  <2>3. CASE seeds[s] \notin {"demo", "events", "done"}
    <3>1. r = s
      BY <1>0, <1>2, <2>3 DEF SeedStep
    <3>2. Create("admin", "admin")
      BY <1>2, <2>3, <3>1 DEF SeedStep
    <3> QED
      BY <3>2, CreateShape DEF Emails, Admin
  <2> QED
    BY <2>2, <2>3
<1>3. ASSUME NEW r \in Seeders, FailSeed(r)
      PROVE  \E i \in present' : accounts'[i] = Admin
  <2>1. UNCHANGED database /\ emptied' = emptied /\ seeds'[s] = seeds[s]
    BY <1>0, <1>3 DEF FailSeed
  <2> QED
    BY <2>1, AdminStays DEF SeedInv
<1>4. CASE UNCHANGED seeding /\ (UNCHANGED database \/ \E e \in Emails, r \in {"admin", "user"} : Create(e, r))
  BY <1>4, AdminStays DEF SeedInv, seeding
<1>5. ASSUME NEW c \in Connections, Finish(c)
      PROVE  \E i \in present' : accounts'[i] = Admin
  <2>1. UNCHANGED seeding /\ (UNCHANGED database \/ \E e \in Emails : Create(e, "user"))
    BY <1>5 DEF Finish
  <2> QED
    BY <1>4, <2>1
<1>6. ASSUME NEW c \in Connections,
             \/ \E k \in Keys, route \in Routes, id \in 0..Len(accounts) : Arrive(c, k, route, id)
             \/ Uncounted(c) \/ Refuse(c) \/ Check(c) \/ Disconnect(c)
      PROVE  \E i \in present' : accounts'[i] = Admin
  <2>1. UNCHANGED <<database, seeding>>
    BY <1>6 DEF Arrive, Uncounted, Refuse, Check, Disconnect
  <2> QED
    BY <1>4, <2>1
<1>7. CASE \/ Signal \/ Reject \/ Throw \/ LeaveServer \/ LeaveDatabase \/ Start
           \/ Tick \/ UNCHANGED vars
  <2>1. UNCHANGED <<database, seeding>>
    BY <1>7 DEF Signal, Reject, Throw, LeaveServer, LeaveDatabase, Start, Tick, vars
  <2> QED
    BY <1>4, <2>1
<1> QED
  BY <1>1, <1>2, <1>3, <1>5, <1>6, <1>7 DEF Next

\* A run of the seed script that reports success has left an admin, whoever
\* registered while it ran and however many other runs there were, unless one of
\* them has emptied the collection since.
THEOREM SeededAdmin == Spec => []SeedGivesAdmin
<1>1. Init => SeedInv
  BY DEF Init, SeedInv
<1>2. Spec => [](Shape /\ Plain /\ SeedInv)
  BY <1>1, InitShape, InitPlain, NextShape, NextPlain, NextSeed, PTL DEF Spec
<1>3. SeedInv => SeedGivesAdmin
  BY DEF SeedInv, SeedGivesAdmin
<1> QED
  BY <1>2, <1>3, PTL

-----------------------------------------------------------------------------
(* The end of the process. *)

\* A process that only waits for the database has no connections, and no promise
\* was rejected.
EndInv ==
    /\ life = "leaving" => ~doomed /\ \A c \in Connections : ~conns[c].open
    /\ NobodyCutOff
    /\ CleanExit

\* Every step keeps what is known of the end of the process.
LEMMA NextEnd == Shape /\ EndInv /\ [Next]_vars => EndInv'
<1> SUFFICES ASSUME Shape, EndInv, [Next]_vars PROVE EndInv'
  OBVIOUS
<1>1. ASSUME NEW c \in Connections,
             \/ \E k \in Keys, route \in Routes, id \in 0..Len(accounts) : Arrive(c, k, route, id)
             \/ Uncounted(c)
      PROVE  EndInv'
  <2>1. life # "leaving" /\ UNCHANGED process
    BY <1>1 DEF Arrive, Uncounted, Reachable
  <2> QED
    BY <2>1 DEF process, EndInv, NobodyCutOff, CleanExit
<1>2. ASSUME NEW c \in Connections, Refuse(c) \/ Check(c) \/ Finish(c) \/ Disconnect(c)
      PROVE  EndInv'
  <2>1. \A d \in Connections : conns'[d].open => conns[d].open
    <3>1. conns \in [Connections -> [open : BOOLEAN, req : Requests(Len(accounts))]]
      BY DEF Shape
    <3> QED
      BY <1>2, <3>1 DEF Refuse, Check, Finish, Disconnect, Answered
  <2>2. UNCHANGED process
    BY <1>2 DEF Refuse, Check, Finish, Disconnect
  <2> QED
    BY <2>1, <2>2 DEF process, EndInv, NobodyCutOff, CleanExit
<1>3. CASE Signal
  BY <1>3 DEF Signal, CloseServer, EndInv, NobodyCutOff, CleanExit
<1>4. CASE Reject
  <2>1. CASE life = "leaving"
    <3>1. cut' = {} /\ exit' = "rejected" /\ life' = "down"
      BY <1>4, <2>1 DEF Reject, End, Waiting, EndInv
    <3> QED
      BY <3>1 DEF EndInv, NobodyCutOff, CleanExit
  <2>2. CASE life # "leaving"
    BY <1>4, <2>2 DEF Reject, CloseServer, EndInv, NobodyCutOff, CleanExit
  <2> QED
    BY <2>1, <2>2
<1>5. CASE Throw
  BY <1>5 DEF Throw, End, EndInv, NobodyCutOff, CleanExit
<1>6. CASE LeaveServer
  <2>1. \A c \in Connections : ~conns[c].open
    BY <1>6 DEF LeaveServer, Drained
  <2>2. CASE doomed
    BY <1>6, <2>1, <2>2 DEF LeaveServer, End, Waiting, EndInv, NobodyCutOff, CleanExit
  <2>3. CASE ~doomed
    BY <1>6, <2>1, <2>3 DEF LeaveServer, EndInv, NobodyCutOff, CleanExit
  <2> QED
    BY <2>2, <2>3
<1>7. CASE LeaveDatabase
  BY <1>7 DEF LeaveDatabase, End, Waiting, EndInv, NobodyCutOff, CleanExit
<1>8. CASE Start
  BY <1>8 DEF Start, EndInv, NobodyCutOff, CleanExit
<1>9. ASSUME Tick \/ UNCHANGED vars \/ \E s \in Seeders : StartSeed(s) \/ SeedStep(s) \/ FailSeed(s)
      PROVE  EndInv'
  <2>1. UNCHANGED <<process, conns>>
    BY <1>9 DEF StartSeed, SeedStep, FailSeed, Tick, vars
  <2> QED
    BY <2>1 DEF process, EndInv, NobodyCutOff, CleanExit
<1> QED
  BY <1>1, <1>2, <1>3, <1>4, <1>5, <1>6, <1>7, <1>8, <1>9 DEF Next

\* So it holds in every state.
LEMMA EndHolds == Spec => []EndInv
<1>1. Init => EndInv
  BY DEF Init, EndInv, NobodyCutOff, CleanExit
<1> QED
  BY <1>1, InitShape, NextShape, NextEnd, PTL DEF Spec

\* Signals and rejections in any order cut nobody off, on any number of
\* connections.
THEOREM EverybodyAnswered == Spec => []NobodyCutOff
<1>1. EndInv => NobodyCutOff
  BY DEF EndInv
<1> QED
  BY <1>1, EndHolds, PTL

\* The exit code 0 is given only when no promise was rejected.
THEOREM CleanMeansClean == Spec => []CleanExit
<1>1. EndInv => CleanExit
  BY DEF EndInv
<1> QED
  BY <1>1, EndHolds, PTL

-----------------------------------------------------------------------------
(* The limiters. *)

InOrder(s) == \A i, j \in DOMAIN s : i <= j => s[i] <= s[j]

\* A set of numbers that contains what is below its members starts at 1.
LEMMA LowSet ==
    ASSUME NEW n \in Nat, NEW I \in SUBSET (1..n),
           \A i \in I, j \in 1..n : j <= i => j \in I
    PROVE  Cardinality(I) \in 0..n /\ I = 1..Cardinality(I)
<1> DEFINE d == Cardinality(I)
<1>1. IsFiniteSet(I) /\ d \in 0..n
  <2>1. IsFiniteSet(1..n) /\ Cardinality(1..n) = n
    BY FS_Interval
  <2>2. IsFiniteSet(I) /\ Cardinality(I) \in Nat /\ Cardinality(I) <= n
    BY <2>1, FS_Subset, FS_CardinalityType
  <2> QED
    BY <2>2
<1>2. ASSUME NEW i \in I
      PROVE  i \in 1..d
  <2>1. IsFiniteSet(1..i) /\ Cardinality(1..i) = i
    BY FS_Interval
  <2>2. 1..i \in SUBSET I
    OBVIOUS
  <2>3. i <= d
    BY <1>1, <2>1, <2>2, FS_Subset
  <2> QED
    BY <1>1, <2>3
<1>3. I \in SUBSET (1..d)
  BY <1>2
<1>4. IsFiniteSet(1..d) /\ Cardinality(1..d) = d
  BY <1>1, FS_Interval
<1>5. I = 1..d
  BY <1>3, <1>4, FS_Subset
<1> QED
  BY <1>1, <1>5

\* What is left of an ordered list of times.
LEMMA AfterSays ==
    ASSUME NEW s \in Seq(Nat), InOrder(s), NEW at \in Int
    PROVE  \E d \in 0..Len(s) :
              /\ After(s, at) \in Seq(Nat)
              /\ Len(After(s, at)) = Len(s) - d
              /\ \A i \in 1..(Len(s) - d) : After(s, at)[i] = s[d + i]
              /\ \A i \in 1..Len(s) : i <= d <=> s[i] <= at
<1> DEFINE I == {i \in DOMAIN s : s[i] <= at}
           d == Cardinality(I)
<1>1. Len(s) \in Nat /\ DOMAIN s = 1..Len(s) /\ \A i \in 1..Len(s) : s[i] \in Nat
  OBVIOUS
<1>2. ASSUME NEW i \in I, NEW j \in 1..Len(s), j <= i
      PROVE  j \in I
  <2>1. s[j] <= s[i] /\ s[i] <= at /\ s[j] \in Nat /\ s[i] \in Nat
    BY <1>1, <1>2 DEF InOrder
  <2> QED
    BY <1>1, <2>1
<1>3. d \in 0..Len(s) /\ I = 1..d
  <2>1. I \in SUBSET (1..Len(s))
    BY <1>1
  <2> HIDE DEF I
  <2> QED
    BY <1>1, <1>2, <2>1, LowSet
<1>4. After(s, at) = SubSeq(s, d + 1, Len(s))
  BY DEF After
<1>5. \A i \in 1..Len(s) : i <= d <=> s[i] <= at
  <2>1. \A i \in 1..Len(s) : i \in I <=> s[i] <= at
    BY <1>1
  <2> HIDE DEF I
  <2> QED
    BY <1>3, <2>1
<1> HIDE DEF d
<1>6. /\ SubSeq(s, d + 1, Len(s)) \in Seq(Nat)
      /\ Len(SubSeq(s, d + 1, Len(s))) = Len(s) - d
      /\ \A i \in 1..(Len(s) - d) : SubSeq(s, d + 1, Len(s))[i] = s[d + i]
  <2>0. d \in Nat /\ d <= Len(s)
    BY <1>3
  <2>1. CASE d < Len(s)
    BY <2>0, <2>1
  <2>2. CASE d = Len(s)
    <3>1. SubSeq(s, d + 1, Len(s)) = <<>>
      BY <2>0, <2>2
    <3> QED
      BY <2>0, <2>2, <3>1
  <2> QED
    BY <2>0, <2>1, <2>2
<1> QED
  BY <1>3, <1>4, <1>5, <1>6

\* One counter h, of which m are let through in a window of length w, and the times s of
\* those let through, at the time t.  While a window is open, the first j of
\* them are of earlier windows: fewer than m, as the request that opened the
\* last of those has been forgotten.  The next one opened this window.
Kept(h, s, w, m, t) ==
    /\ s \in Seq(Nat) /\ InOrder(s)
    /\ \A i \in DOMAIN s : t - w < s[i] /\ s[i] <= t
    /\ \/ h = NoHits /\ Len(s) < m
       \/ /\ h \in [n : 1..(m + 1), until : Nat]
          /\ t < h.until /\ h.until <= t + w
          /\ \E j \in 0..(m - 1) :
                /\ j < Len(s)
                /\ Len(s) - j = Least(h.n, m)
                /\ s[j + 1] = h.until - w
                /\ \A i \in 1..j : s[i] <= h.until - w

\* A time at the end of an ordered list that is not before the others.
LEMMA AppendInOrder ==
    ASSUME NEW s \in Seq(Nat), InOrder(s), NEW t \in Nat, \A i \in DOMAIN s : s[i] <= t
    PROVE  /\ Append(s, t) \in Seq(Nat) /\ InOrder(Append(s, t))
           /\ Len(Append(s, t)) = Len(s) + 1 /\ Append(s, t)[Len(s) + 1] = t
           /\ \A i \in 1..Len(s) : Append(s, t)[i] = s[i]
<1>1. /\ Append(s, t) \in Seq(Nat)
      /\ Len(Append(s, t)) = Len(s) + 1 /\ Append(s, t)[Len(s) + 1] = t
      /\ \A i \in 1..Len(s) : Append(s, t)[i] = s[i]
  OBVIOUS
<1>2. Len(s) \in Nat /\ DOMAIN s = 1..Len(s) /\ DOMAIN Append(s, t) = 1..(Len(s) + 1)
  BY <1>1
<1>3. ASSUME NEW i \in 1..(Len(s) + 1), NEW j \in 1..(Len(s) + 1), i <= j
      PROVE  Append(s, t)[i] <= Append(s, t)[j]
  <2>1. CASE j \in 1..Len(s)
    BY <1>1, <1>2, <1>3, <2>1 DEF InOrder
  <2>2. CASE j = Len(s) + 1 /\ i \in 1..Len(s)
    BY <1>1, <1>2, <2>2
  <2>3. CASE i = Len(s) + 1
    BY <1>1, <1>2, <1>3, <2>3
  <2> QED
    BY <1>2, <2>1, <2>2, <2>3
<1> QED
  BY <1>1, <1>2, <1>3 DEF InOrder

\* A request is counted, and let through if the count allows it.
LEMMA KeptByCount ==
    ASSUME NEW h, NEW s, NEW w \in Nat \ {0}, NEW m \in Nat \ {0}, NEW t \in Nat, Kept(h, s, w, m, t), NEW g,
           g = IF h = NoHits THEN [n |-> 1, until |-> t + w]
               ELSE [h EXCEPT !.n = Least(@ + 1, m + 1)]
    PROVE  Kept(g, IF g.n <= m THEN Append(s, t) ELSE s, w, m, t)
<1>0. /\ s \in Seq(Nat) /\ InOrder(s) /\ Len(s) \in Nat /\ DOMAIN s = 1..Len(s)
      /\ \A i \in DOMAIN s : t - w < s[i] /\ s[i] <= t
      /\ w \in Nat \ {0}
  BY DEF Kept
<1>1. /\ Append(s, t) \in Seq(Nat) /\ InOrder(Append(s, t))
      /\ Len(Append(s, t)) = Len(s) + 1 /\ Append(s, t)[Len(s) + 1] = t
      /\ \A i \in 1..Len(s) : Append(s, t)[i] = s[i]
  BY <1>0, AppendInOrder
<1>2. \A i \in DOMAIN Append(s, t) : t - w < Append(s, t)[i] /\ Append(s, t)[i] <= t
  <2>1. DOMAIN Append(s, t) = 1..(Len(s) + 1)
    BY <1>1
  <2>2. ASSUME NEW i \in 1..(Len(s) + 1)
        PROVE  t - w < Append(s, t)[i] /\ Append(s, t)[i] <= t
    <3>1. CASE i \in 1..Len(s)
      BY <1>0, <1>1, <3>1
    <3>2. CASE i = Len(s) + 1
      BY <1>0, <1>1, <3>2
    <3> QED
      BY <1>0, <3>1, <3>2
  <2> QED
    BY <2>1, <2>2
<1>3. CASE h = NoHits
  <2>1. g = [n |-> 1, until |-> t + w]
    BY <1>3
  <2>2. g \in [n : 1..(m + 1), until : Nat] /\ g.n = 1 /\ g.until = t + w /\ g.n <= m
    BY <1>0, <2>1
  <2>3. Len(s) < m
    BY <1>3 DEF Kept, NoHits
  <2>4. /\ Len(s) \in 0..(m - 1) /\ Len(s) < Len(Append(s, t))
        /\ Len(Append(s, t)) - Len(s) = Least(g.n, m)
        /\ Append(s, t)[Len(s) + 1] = g.until - w
        /\ \A i \in 1..Len(s) : Append(s, t)[i] <= g.until - w
    BY <1>0, <1>1, <2>2, <2>3 DEF Least
  <2>5. t < g.until /\ g.until <= t + w
    BY <1>0, <2>2
  <2> QED
    BY <1>1, <1>2, <2>2, <2>4, <2>5 DEF Kept
<1>4. CASE h # NoHits
  <2>1. /\ h \in [n : 1..(m + 1), until : Nat]
        /\ t < h.until /\ h.until <= t + w
    BY <1>4 DEF Kept
  <2>2. PICK j \in 0..(m - 1) :
           /\ j < Len(s)
           /\ Len(s) - j = Least(h.n, m)
           /\ s[j + 1] = h.until - w
           /\ \A i \in 1..j : s[i] <= h.until - w
    BY <1>4 DEF Kept
  <2>3. g = [h EXCEPT !.n = Least(h.n + 1, m + 1)]
    BY <1>4
  <2>4. /\ g \in [n : 1..(m + 1), until : Nat]
        /\ g.n = Least(h.n + 1, m + 1) /\ g.until = h.until
    BY <2>1, <2>3 DEF Least
  <2>5. CASE g.n <= m
    <3>1. h.n + 1 <= m /\ g.n = h.n + 1
      BY <2>1, <2>4, <2>5 DEF Least
    <3>2. Len(Append(s, t)) - j = Least(g.n, m) /\ j < Len(Append(s, t))
      <4>1. Least(h.n, m) = h.n /\ Least(g.n, m) = h.n + 1
        BY <2>1, <3>1 DEF Least
      <4>2. Len(s) - j = h.n /\ j < Len(s) /\ Len(Append(s, t)) = Len(s) + 1
        BY <1>1, <2>2, <4>1
      <4> QED
        BY <1>0, <2>1, <4>1, <4>2
    <3>3. /\ j + 1 \in 1..Len(s)
          /\ \A i \in 1..j : i \in 1..Len(s)
      BY <1>0, <2>2
    <3>4. /\ Append(s, t)[j + 1] = g.until - w
          /\ \A i \in 1..j : Append(s, t)[i] <= g.until - w
      BY <1>1, <2>2, <2>4, <3>3
    <3> QED
      BY <1>1, <1>2, <2>1, <2>4, <2>5, <3>2, <3>4 DEF Kept
  <2>6. CASE ~(g.n <= m)
    <3>0. h.n \in Nat /\ ~(h.n < m) /\ g.n \in Nat /\ ~(g.n < m)
      BY <2>1, <2>4, <2>6 DEF Least
    <3>1. Len(s) - j = Least(g.n, m)
      BY <2>2, <3>0 DEF Least
    <3> QED
      BY <1>0, <2>1, <2>2, <2>4, <2>6, <3>1 DEF Kept
  <2> QED
    BY <2>5, <2>6
<1> QED
  BY <1>3, <1>4

\* A second passes, from t to u.
LEMMA KeptByTick ==
    ASSUME NEW h, NEW s, NEW w \in Nat \ {0}, NEW m \in Nat \ {0}, NEW t \in Nat, Kept(h, s, w, m, t),
           NEW u \in Nat, u = t + 1
    PROVE  Kept(IF h.until <= u THEN NoHits ELSE h, After(s, u - w), w, m, u)
<1> DEFINE at == u - w
           r == After(s, at)
<1>0. /\ s \in Seq(Nat) /\ InOrder(s) /\ Len(s) \in Nat /\ DOMAIN s = 1..Len(s)
      /\ \A i \in 1..Len(s) : t - w < s[i] /\ s[i] <= t /\ s[i] \in Nat
      /\ w \in Nat \ {0} /\ at \in Int
  BY DEF Kept
<1>1. PICK d \in 0..Len(s) :
         /\ r \in Seq(Nat)
         /\ Len(r) = Len(s) - d
         /\ \A i \in 1..(Len(s) - d) : r[i] = s[d + i]
         /\ \A i \in 1..Len(s) : i <= d <=> s[i] <= at
  BY <1>0, AfterSays
<1> HIDE DEF r
<1>2. DOMAIN r = 1..(Len(s) - d) /\ \A i \in 1..(Len(s) - d) : d + i \in 1..Len(s) /\ d + i > d
  BY <1>0, <1>1
<1>3. InOrder(r)
  <2>1. ASSUME NEW i \in 1..(Len(s) - d), NEW k \in 1..(Len(s) - d), i <= k
        PROVE  r[i] <= r[k]
    <3>1. d + i <= d + k /\ d + i \in DOMAIN s /\ d + k \in DOMAIN s
      BY <1>0, <1>2, <2>1
    <3> QED
      BY <1>1, <3>1, <1>0 DEF InOrder
  <2> QED
    BY <1>2, <2>1 DEF InOrder
<1>4. \A i \in DOMAIN r : u - w < r[i] /\ r[i] <= u
  <2>1. ASSUME NEW i \in 1..(Len(s) - d)
        PROVE  u - w < r[i] /\ r[i] <= u
    <3>1. d + i \in 1..Len(s) /\ ~(d + i <= d) /\ r[i] = s[d + i]
      BY <1>0, <1>1, <1>2
    <3>2. ~(s[d + i] <= at) /\ s[d + i] <= t /\ s[d + i] \in Nat
      BY <1>0, <1>1, <3>1
    <3> QED
      BY <1>0, <3>1, <3>2
  <2> QED
    BY <1>2, <2>1
<1>5. r \in Seq(Nat)
  BY <1>1
<1>6. CASE h = NoHits
  <2>1. Len(s) < m /\ Len(r) <= Len(s) /\ Len(r) \in Nat
    BY <1>0, <1>1, <1>6 DEF Kept, NoHits
  <2>2. Kept(NoHits, r, w, m, u)
    BY <1>3, <1>4, <1>5, <2>1 DEF Kept
  <2> QED
    BY <1>6, <2>2 DEF r
<1>7. CASE h # NoHits
  <2>1. /\ h \in [n : 1..(m + 1), until : Nat]
        /\ t < h.until /\ h.until <= t + w
    BY <1>7 DEF Kept
  <2>2. PICK j \in 0..(m - 1) :
           /\ j < Len(s)
           /\ Len(s) - j = Least(h.n, m)
           /\ s[j + 1] = h.until - w
           /\ \A i \in 1..j : s[i] <= h.until - w
    BY <1>7 DEF Kept
  <2>3. j + 1 \in 1..Len(s)
    BY <1>0, <2>2
  <2>4. CASE h.until <= u
    <3>1. j + 1 <= d
      <4>1. h.until - w <= at
        BY <1>0, <2>1, <2>4
      <4> QED
        BY <1>1, <2>2, <2>3, <4>1
    <3>2. Len(r) < m
      <4>1. Least(h.n, m) <= m /\ Least(h.n, m) \in Int
        BY <2>1 DEF Least
      <4>2. Len(r) = Len(s) - d
        BY <1>1
      <4> QED
        BY <1>0, <2>2, <3>1, <4>1, <4>2
    <3>3. Kept(NoHits, r, w, m, u)
      BY <1>3, <1>4, <1>5, <3>2 DEF Kept
    <3> QED
      BY <2>4, <3>3 DEF r
  <2>5. CASE ~(h.until <= u)
    <3>1. ~(j + 1 <= d)
      <4>1. ~(h.until - w <= at)
        BY <1>0, <2>1, <2>5
      <4> QED
        BY <1>1, <2>2, <2>3, <4>1
    <3> DEFINE k == j - d
    <3>2. k \in 0..(m - 1) /\ k < Len(r) /\ Len(r) - k = Len(s) - j /\ d + (k + 1) = j + 1
          /\ k + 1 \in 1..(Len(s) - d)
      BY <1>0, <1>1, <2>2, <3>1
    <3>3. r[k + 1] = h.until - w
      BY <1>1, <2>2, <3>2
    <3>4. ASSUME NEW i \in 1..k
          PROVE  r[i] <= h.until - w
      <4>1. i \in 1..(Len(s) - d) /\ d + i \in 1..j
        BY <1>0, <1>1, <2>2, <3>2
      <4> QED
        BY <1>1, <2>2, <4>1
    <3>5. u < h.until /\ h.until <= u + w
      BY <1>0, <2>1, <2>5
    <3> HIDE DEF k
    <3>6. \E i \in 0..(m - 1) :
             /\ i < Len(r)
             /\ Len(r) - i = Least(h.n, m)
             /\ r[i + 1] = h.until - w
             /\ \A x \in 1..i : r[x] <= h.until - w
      BY <2>2, <3>2, <3>3, <3>4
    <3>7. Kept(h, r, w, m, u)
      BY <1>3, <1>4, <1>5, <2>1, <3>5, <3>6 DEF Kept
    <3> QED
      BY <2>5, <3>7 DEF r
  <2> QED
    BY <2>4, <2>5
<1> QED
  BY <1>6, <1>7

\* Every counter of every limiter is kept so.
LimitInv ==
    /\ now \in 0..MaxTime
    /\ \A l \in Limiters :
          /\ hits[l] \in [Keys -> [n : Nat, until : Nat]]
          /\ admitted[l] \in [Keys -> Seq(Nat)]
          /\ \A k \in Keys : Kept(hits[l][k], admitted[l][k], Window[l], Max[l], now)

\* Every limiter admits somebody, and its windows pass.
LEMMA MaxPositive == \A l \in Limiters : Max[l] \in Nat \ {0} /\ Window[l] \in Nat \ {0}
BY ServerAssumption DEF Limiters, Max, Window

\* A counter that has been reset, or was never used.
LEMMA KeptAtFirst ==
    ASSUME NEW w, NEW m \in Nat \ {0}, NEW t
    PROVE  Kept(NoHits, <<>>, w, m, t)
BY DEF Kept, InOrder

\* The counters are as they were, or all reset, or time passes, or a request of
\* one key is counted in some of the limiters.
LEMMA LimiterSteps ==
    ASSUME [Next]_vars
    PROVE  \/ UNCHANGED <<now, limiters>>
           \/ /\ now' = now
              /\ hits' = [l \in Limiters |-> [k \in Keys |-> NoHits]]
              /\ admitted' = [l \in Limiters |-> [k \in Keys |-> <<>>]]
           \/ Tick
           \/ now' = now /\ \E k \in Keys : \E S : CountIn(S, k)
<1>1. ASSUME NEW c \in Connections, NEW k \in Keys, NEW route \in Routes, NEW id,
             Arrive(c, k, route, id)
      PROVE  now' = now /\ CountIn(Seen(route, k), k)
  BY <1>1 DEF Arrive
<1>2. ASSUME NEW c \in Connections, Uncounted(c) \/ Refuse(c) \/ Check(c) \/ Finish(c) \/ Disconnect(c)
      PROVE  UNCHANGED <<now, limiters>>
  BY <1>2 DEF Uncounted, Refuse, Check, Finish, Disconnect
<1>3. ASSUME \/ Signal \/ Reject \/ Throw \/ LeaveServer \/ LeaveDatabase \/ UNCHANGED vars
             \/ \E s \in Seeders : StartSeed(s) \/ SeedStep(s) \/ FailSeed(s)
      PROVE  UNCHANGED <<now, limiters>>
  BY <1>3 DEF Signal, Reject, Throw, LeaveServer, LeaveDatabase, StartSeed, SeedStep, FailSeed, vars
<1>4. CASE Start
  BY <1>4 DEF Start
<1> QED
  BY <1>1, <1>2, <1>3, <1>4 DEF Next

\* At the start the limiters have counted nothing.
LEMMA InitLimits == Init => LimitInv
<1> SUFFICES ASSUME Init PROVE LimitInv
  OBVIOUS
<1>1. now \in 0..MaxTime
  BY ServerAssumption DEF Init
<1>2. \A l \in Limiters, k \in Keys : hits[l][k] = NoHits /\ admitted[l][k] = <<>>
  BY DEF Init
<1>3. \A l \in Limiters : /\ hits[l] \in [Keys -> [n : Nat, until : Nat]]
                          /\ admitted[l] \in [Keys -> Seq(Nat)]
  BY DEF Init, NoHits
<1> QED
  BY <1>1, <1>2, <1>3, MaxPositive, KeptAtFirst DEF LimitInv

\* Counting a request, limiter by limiter.
LEMMA CountKeeps ==
    ASSUME LimitInv, NEW k \in Keys, NEW S, CountIn(S, k), now' = now,
           NEW l \in Limiters
    PROVE  /\ hits'[l] \in [Keys -> [n : Nat, until : Nat]]
           /\ admitted'[l] \in [Keys -> Seq(Nat)]
           /\ \A x \in Keys : Kept(hits'[l][x], admitted'[l][x], Window[l], Max[l], now)
<1> DEFINE h == hits[l][k]
           s == admitted[l][k]
           g == Counted(l, k)
<1>0. /\ hits[l] \in [Keys -> [n : Nat, until : Nat]] /\ admitted[l] \in [Keys -> Seq(Nat)]
      /\ \A x \in Keys : Kept(hits[l][x], admitted[l][x], Window[l], Max[l], now)
      /\ now \in Nat /\ Max[l] \in Nat \ {0} /\ Window[l] \in Nat \ {0}
  BY MaxPositive, ServerAssumption DEF LimitInv
<1>1. /\ hits'[l] = IF l \in S THEN [hits[l] EXCEPT ![k] = g] ELSE hits[l]
      /\ admitted'[l] = IF l \in S /\ g.n <= Max[l]
                        THEN [admitted[l] EXCEPT ![k] = Append(s, now)] ELSE admitted[l]
  BY DEF CountIn, Admits
<1>2. g = IF h = NoHits THEN [n |-> 1, until |-> now + Window[l]]
          ELSE [h EXCEPT !.n = Least(@ + 1, Max[l] + 1)]
  BY DEF Counted
<1>3. Kept(g, IF g.n <= Max[l] THEN Append(s, now) ELSE s, Window[l], Max[l], now)
  BY <1>0, <1>2, KeptByCount
<1>4. g \in [n : Nat, until : Nat]
  <2>1. h \in [n : Nat, until : Nat]
    BY <1>0
  <2>2. Least(h.n + 1, Max[l] + 1) \in Nat
    BY <1>0, <2>1 DEF Least
  <2>3. now + Window[l] \in Nat
    BY <1>0
  <2> HIDE DEF h, g
  <2>4. CASE h = NoHits
    BY <1>2, <2>3, <2>4
  <2>5. CASE h # NoHits
    <3>1. g = [h EXCEPT !.n = Least(h.n + 1, Max[l] + 1)]
      BY <1>2, <2>5
    <3> QED
      BY <2>1, <2>2, <3>1
  <2> QED
    BY <2>4, <2>5
<1>5. Append(s, now) \in Seq(Nat)
  BY <1>0
<1> HIDE DEF g, h, s
<1>6. /\ hits'[l] \in [Keys -> [n : Nat, until : Nat]]
      /\ admitted'[l] \in [Keys -> Seq(Nat)]
  BY <1>0, <1>1, <1>4, <1>5
<1>7. ASSUME NEW x \in Keys
      PROVE  Kept(hits'[l][x], admitted'[l][x], Window[l], Max[l], now)
  <2>1. CASE l \in S /\ x = k
    <3>1. hits'[l][x] = g /\ admitted'[l][x] = IF g.n <= Max[l] THEN Append(s, now) ELSE s
      BY <1>0, <1>1, <2>1 DEF s
    <3> QED
      BY <1>3, <3>1
  <2>2. CASE ~(l \in S /\ x = k)
    <3>1. hits'[l][x] = hits[l][x] /\ admitted'[l][x] = admitted[l][x]
      BY <1>0, <1>1, <2>2
    <3> QED
      BY <1>0, <3>1
  <2> QED
    BY <2>1, <2>2
<1> QED
  BY <1>6, <1>7

\* Every step keeps the books of the limiters.
LEMMA NextLimits == LimitInv /\ [Next]_vars => LimitInv'
<1> SUFFICES ASSUME LimitInv, [Next]_vars PROVE LimitInv'
  OBVIOUS
<1>1. CASE UNCHANGED <<now, limiters>>
  BY <1>1 DEF LimitInv, limiters
<1>2. CASE /\ now' = now
           /\ hits' = [l \in Limiters |-> [k \in Keys |-> NoHits]]
           /\ admitted' = [l \in Limiters |-> [k \in Keys |-> <<>>]]
  <2>1. \A l \in Limiters, k \in Keys : hits'[l][k] = NoHits /\ admitted'[l][k] = <<>>
    BY <1>2
  <2>2. \A l \in Limiters : /\ hits'[l] \in [Keys -> [n : Nat, until : Nat]]
                            /\ admitted'[l] \in [Keys -> Seq(Nat)]
    BY <1>2 DEF NoHits
  <2>3. \A l \in Limiters, k \in Keys : Kept(hits'[l][k], admitted'[l][k], Window[l], Max[l], now)
    BY <2>1, MaxPositive, KeptAtFirst
  <2> QED
    BY <1>2, <2>2, <2>3 DEF LimitInv
<1>3. ASSUME NEW k \in Keys, NEW S, CountIn(S, k), now' = now
      PROVE  LimitInv'
  <2>1. \A l \in Limiters :
           /\ hits'[l] \in [Keys -> [n : Nat, until : Nat]]
           /\ admitted'[l] \in [Keys -> Seq(Nat)]
           /\ \A x \in Keys : Kept(hits'[l][x], admitted'[l][x], Window[l], Max[l], now)
    BY <1>3, CountKeeps
  <2> QED
    BY <1>3, <2>1 DEF LimitInv
<1>4. CASE Tick
  <2>1. now \in Nat /\ now' = now + 1 /\ now' \in 0..MaxTime /\ now' \in Nat
    BY <1>4, ServerAssumption DEF Tick, LimitInv
  <2>2. ASSUME NEW l \in Limiters, NEW k \in Keys
        PROVE  /\ hits'[l][k] = IF hits[l][k].until <= now' THEN NoHits ELSE hits[l][k]
               /\ admitted'[l][k] = After(admitted[l][k], now' - Window[l])
               /\ hits'[l][k] \in [n : Nat, until : Nat]
               /\ admitted'[l][k] \in Seq(Nat)
               /\ Kept(hits'[l][k], admitted'[l][k], Window[l], Max[l], now')
    <3>1. /\ hits'[l][k] = IF hits[l][k].until <= now' THEN NoHits ELSE hits[l][k]
          /\ admitted'[l][k] = After(admitted[l][k], now' - Window[l])
      BY <1>4 DEF Tick
    <3>2. Kept(hits[l][k], admitted[l][k], Window[l], Max[l], now)
      BY DEF LimitInv
    <3>3. Kept(IF hits[l][k].until <= now' THEN NoHits ELSE hits[l][k],
               After(admitted[l][k], now' - Window[l]), Window[l], Max[l], now')
      BY <2>1, <3>2, MaxPositive, KeptByTick
    <3>4. Kept(hits'[l][k], admitted'[l][k], Window[l], Max[l], now')
      BY <3>1, <3>3
    <3>5. admitted'[l][k] \in Seq(Nat)
      BY <3>4 DEF Kept
    <3>6. hits'[l][k] \in [n : Nat, until : Nat]
      BY <3>1 DEF LimitInv, NoHits
    <3> QED
      BY <3>1, <3>4, <3>5, <3>6
  <2>3. \A l \in Limiters :
           /\ hits'[l] = [k \in Keys |-> hits'[l][k]]
           /\ admitted'[l] = [k \in Keys |-> admitted'[l][k]]
    BY <1>4 DEF Tick
  <2>4. \A l \in Limiters :
           /\ hits'[l] \in [Keys -> [n : Nat, until : Nat]]
           /\ admitted'[l] \in [Keys -> Seq(Nat)]
    BY <2>2, <2>3
  <2> QED
    BY <2>1, <2>2, <2>4 DEF LimitInv
<1> QED
  BY <1>1, <1>2, <1>3, <1>4, LimiterSteps

\* rateLimiter.js: between two restarts a key is let through less than twice as
\* often as the limit says within any time as long as a window.
THEOREM AdmissionsAreBounded == Spec => []AdmissionsBounded
<1>1. LimitInv => AdmissionsBounded
  <2> SUFFICES ASSUME LimitInv, NEW l \in Limiters, NEW k \in Keys
               PROVE  Len(admitted[l][k]) < 2 * Max[l]
    BY DEF AdmissionsBounded
  <2>1. /\ Kept(hits[l][k], admitted[l][k], Window[l], Max[l], now) /\ Max[l] \in Nat \ {0}
        /\ Len(admitted[l][k]) \in Nat
    BY MaxPositive DEF LimitInv
  <2>2. CASE Len(admitted[l][k]) < Max[l]
    BY <2>1, <2>2
  <2>3. ASSUME NEW j \in 0..(Max[l] - 1), NEW n \in Nat,
               Len(admitted[l][k]) - j = Least(n, Max[l])
        PROVE  Len(admitted[l][k]) < 2 * Max[l]
    <3>1. Least(n, Max[l]) <= Max[l] /\ Least(n, Max[l]) \in Nat
      BY <2>1 DEF Least
    <3> QED
      BY <2>1, <2>3, <3>1
  <2>4. Max[l] + 1 \in Nat /\ \A n \in 1..(Max[l] + 1) : n \in Nat
    BY <2>1
  <2> QED
    BY <2>1, <2>2, <2>3, <2>4 DEF Kept
<1> QED
  BY <1>1, InitLimits, NextLimits, PTL DEF Spec

-----------------------------------------------------------------------------
(* Types. *)

\* The process, the limiters and the accounts keep their types.
THEOREM ServerTypes == Spec => []TypeOK
<1>1. Init => Plain
  BY InitPlain
<1>2. Shape /\ LimitInv /\ Plain => TypeOK
  <2> SUFFICES ASSUME Shape, LimitInv, Plain PROVE TypeOK
    OBVIOUS
  <2>1. now \in 0..MaxTime /\ now \in Nat /\ \A l \in Limiters : Window[l] \in Nat
    BY MaxPositive, ServerAssumption DEF LimitInv
  <2>2. ASSUME NEW l \in Limiters, NEW k \in Keys
        PROVE  /\ hits[l][k] \in [n : 0..(Max[l] + 1), until : 0..(now + Window[l])]
               /\ admitted[l][k] \in Seq(0..now)
    <3>1. Kept(hits[l][k], admitted[l][k], Window[l], Max[l], now) /\ Max[l] \in Nat
      BY MaxPositive DEF LimitInv
    <3>2. hits[l][k] \in [n : 0..(Max[l] + 1), until : 0..(now + Window[l])]
      <4>1. CASE hits[l][k] = NoHits
        BY <2>1, <3>1, <4>1 DEF NoHits
      <4>2. CASE /\ hits[l][k] \in [n : 1..(Max[l] + 1), until : Nat]
                 /\ hits[l][k].until <= now + Window[l]
        BY <2>1, <3>1, <4>2
      <4> QED
        BY <3>1, <4>1, <4>2 DEF Kept
    <3>3. /\ admitted[l][k] \in Seq(Nat)
          /\ \A i \in DOMAIN admitted[l][k] : admitted[l][k][i] <= now
      BY <3>1 DEF Kept
    <3>4. admitted[l][k] \in Seq(0..now)
      BY <2>1, <3>3
    <3> QED
      BY <3>2, <3>4
  <2>3. \A l \in Limiters :
           /\ hits[l] \in [Keys -> [n : 0..(Max[l] + 1), until : 0..(now + Window[l])]]
           /\ admitted[l] \in [Keys -> Seq(0..now)]
    BY <2>2 DEF LimitInv
  <2>4. {0} \cup DOMAIN accounts = 0..Len(accounts) /\ present \in SUBSET DOMAIN accounts
    BY DEF Shape
  <2>5. conns \in [Connections -> [open : BOOLEAN,
           req : [pc : {"idle", "refused", "checking", "running"}, route : Routes \cup {"none"},
                  id : {0} \cup DOMAIN accounts, known : BOOLEAN]]]
    BY <2>4 DEF Shape, Requests
  <2> QED
    BY <2>1, <2>3, <2>4, <2>5 DEF TypeOK, Shape, Plain
<1> QED
  BY <1>1, <1>2, InitShape, NextShape, InitLimits, NextLimits, NextPlain, PTL DEF Spec
=============================================================================

------------------------------- MODULE Server -------------------------------
(***************************************************************************)
(* The API process between the network and the handlers: the rate          *)
(* limiters, the checks in front of a handler, and how the process starts, *)
(* drains and ends; beside it runs of the seed script, which replaces the  *)
(* accounts the checks look up.                                            *)
(*                                                                         *)
(* What a handler does is in the other modules; here it only takes time,   *)
(* and registering adds an account.  An account is the number of its       *)
(* document: one that is created again with the same email is another.     *)
(***************************************************************************)
EXTENDS Integers, FiniteSets, Sequences

CONSTANTS
    Connections,  \* connections the server can hold
    Routes,       \* kinds of requests that are made
    Keys,         \* addresses the limiters tell apart
    Seeders,      \* runs of the seed script that may overlap
    WindowApi,    \* length of a limiter's window, RATE_LIMIT_WINDOW_MS in the code
    WindowAuth,   \* that of the limiter of register and log in, 15 minutes in the code
    MaxApi,       \* requests per window and key, 100 in the code
    MaxAuth,      \* of them to register or log in, 10 in the code
    MaxTime,      \* bound on the clock
    MaxAccounts,  \* bound on the accounts created
    Faults        \* may handlers, the database and the process fail?

ASSUME ServerAssumption ==
    /\ Routes \subseteq {"events", "register", "bookings", "admin"}
    /\ WindowApi \in Nat \ {0} /\ WindowAuth \in Nat \ {0}
    /\ MaxApi \in Nat \ {0} /\ MaxAuth \in Nat \ {0}
    /\ MaxTime \in Nat /\ MaxAccounts \in Nat
    /\ Faults \in BOOLEAN

VARIABLES
    now,       \* the clock
    hits,      \* limiter -> key -> the requests counted and the end of their window
    admitted,  \* history: limiter -> key -> times of the requests let through
               \*   in the last window's length
    life,      \* the process: up, draining, leaving the database, or down
    doomed,    \* has the handler of an unhandled rejection asked for exit code 1?
    exit,      \* how the process ended last
    cut,       \* history: connections that were waiting for an answer then
    conns,     \* connection -> the request on it
    accounts,  \* every account created, in order
    present,   \* those in the database
    seeds,     \* run of the seed script -> its next step, or whether it succeeded
    emptied    \* history: the runs whose admin another run has removed

limiters == <<hits, admitted>>
process == <<life, doomed, exit, cut>>
database == <<accounts, present>>
seeding == <<seeds, emptied>>
vars == <<now, limiters, process, conns, database, seeding>>

-----------------------------------------------------------------------------
Limiters == {"api", "auth"}
Max == [api |-> MaxApi, auth |-> MaxAuth]
Window == [api |-> WindowApi, auth |-> WindowAuth]

\* The routers: what stands in front of their handlers.
Protected == {"bookings", "admin"}
Limits(route) == IF route = "register" THEN <<"api", "auth">> ELSE <<"api">>

Emails == {"admin", "demo"}

NoHits == [n |-> 0, until |-> 0]

Idle == [pc |-> "idle", route |-> "none", id |-> 0, known |-> FALSE]
Refused == [pc |-> "refused", route |-> "none", id |-> 0, known |-> FALSE]
Closed == [open |-> FALSE, req |-> Idle]
Waiting(c) == conns[c].open /\ conns[c].req # Idle

Init ==
    /\ now = 0
    /\ hits = [l \in Limiters |-> [k \in Keys |-> NoHits]]
    /\ admitted = [l \in Limiters |-> [k \in Keys |-> <<>>]]
    /\ life = "up" /\ doomed = FALSE /\ exit = "none" /\ cut = {}
    /\ conns = [c \in Connections |-> Closed]
    /\ accounts = <<>> /\ present = {}
    /\ seeds = [s \in Seeders |-> "idle"] /\ emptied = {}

-----------------------------------------------------------------------------
(* The limiters. *)

Least(m, n) == IF m < n THEN m ELSE n

\* Mutant of Counted: every request prolongs the window.
Counted_Prolongs(l, k) ==
    LET h == hits[l][k]
    IN  IF h = NoHits THEN [n |-> 1, until |-> now + Window[l]]
        ELSE [n |-> Least(h.n + 1, Max[l] + 1), until |-> h.until + Window[l]]

\* The window starts with the first request after the last one has ended; the
\* requests that are refused count too.
Counted(l, k) ==
    LET h == hits[l][k]
    IN  IF h = NoHits THEN [n |-> 1, until |-> now + Window[l]]
        ELSE [h EXCEPT !.n = Least(@ + 1, Max[l] + 1)]

\* Mutant of Admits: one more.
Admits_OneMore(l, k) == Counted(l, k).n <= Max[l] + 1

Admits(l, k) == Counted(l, k).n <= Max[l]

\* The limiters of a route that see the request: the second one does if the
\* first one lets it through.
Seen(route, k) == {Limits(route)[i] : i \in {j \in DOMAIN Limits(route) :
                       \A m \in 1..(j - 1) : Admits(Limits(route)[m], k)}}

CountIn(S, k) ==
    /\ hits' = [l \in Limiters |-> IF l \in S THEN [hits[l] EXCEPT ![k] = Counted(l, k)] ELSE hits[l]]
    /\ admitted' = [l \in Limiters |->
           IF l \in S /\ Admits(l, k)
           THEN [admitted[l] EXCEPT ![k] = Append(@, now)] ELSE admitted[l]]

-----------------------------------------------------------------------------
(* Requests. *)

\* A connection is accepted while the server listens; one that was busy when
\* the signal came stays open for the next request.
Reachable(c) ==
    \/ life = "up" /\ conns[c].req = Idle
    \/ life = "draining" /\ conns[c].open /\ conns[c].req = Idle

\* What does not parse, or is not below /api, is answered before it is counted.
Uncounted(c) ==
    /\ Reachable(c)
    /\ conns' = [conns EXCEPT ![c] = [open |-> TRUE, req |-> Refused]]
    /\ UNCHANGED <<now, limiters, process, database, seeding>>

\* A request is counted and then refused, for the limit, for its token or for its
\* fields, or it goes on to the look-up of its account or to its handler.
Arrive(c, k, route, id) ==
    LET taken == [pc |-> IF route \in Protected THEN "checking" ELSE "running",
                  route |-> route, id |-> id, known |-> id \in present]
    IN  /\ Reachable(c)
        /\ id \in (IF route \in Protected THEN DOMAIN accounts ELSE {0})
        /\ CountIn(Seen(route, k), k)
        /\ \/ conns' = [conns EXCEPT ![c] = [open |-> TRUE, req |-> Refused]]
           \/ /\ \A i \in DOMAIN Limits(route) : Admits(Limits(route)[i], k)
              /\ conns' = [conns EXCEPT ![c] = [open |-> TRUE, req |-> taken]]
        /\ UNCHANGED <<now, process, database, seeding>>

Answered(c) == conns' = [conns EXCEPT ![c].req = Idle]

\* The answer to a request that was refused is on its way until now.
Refuse(c) ==
    /\ life # "down" /\ conns[c].req.pc = "refused"
    /\ Answered(c)
    /\ UNCHANGED <<now, limiters, process, database, seeding>>

\* authorize goes by the role in the token, which no handler changes.
Permitted(q) == q.route = "admin" => accounts[q.id].role = "admin"

\* Mutant of MayRun: authenticate trusts the token.
MayRun_Token(q) == Permitted(q)

\* authenticate finds the account.
MayRun(q) == q.id \in present /\ Permitted(q)

\* The look-up answers; the fields are validated next.
Check(c) ==
    /\ life # "down" /\ conns[c].req.pc = "checking"
    /\ \/ Answered(c)
       \/ /\ MayRun(conns[c].req)
          /\ conns' = [conns EXCEPT ![c].req.pc = "running", ![c].req.id = 0]
    /\ UNCHANGED <<now, limiters, process, database, seeding>>

\* The email is unique.
Taken(email) == \E i \in present : accounts[i].email = email

Create(email, role) ==
    /\ Len(accounts) < MaxAccounts
    /\ accounts' = Append(accounts, [email |-> email, role |-> role])
    /\ present' = present \cup {Len(accounts) + 1}

\* Mutant of Finish: a registration that fails is not answered.
Finish_Unanswered(c) ==
    /\ life # "down" /\ conns[c].req.pc = "running"
    /\ Answered(c)
    /\ \/ /\ conns[c].req.route = "register"
          /\ \E e \in Emails : ~Taken(e) /\ Create(e, "user")
       \/ conns[c].req.route # "register" /\ UNCHANGED database
    /\ UNCHANGED <<now, limiters, process, seeding>>

\* A handler ends; of those that are modelled here, registering succeeds.
Finish(c) ==
    /\ life # "down" /\ conns[c].req.pc = "running"
    /\ Answered(c)
    /\ \/ /\ conns[c].req.route = "register"
          /\ \E e \in Emails : ~Taken(e) /\ Create(e, "user")
       \/ UNCHANGED database
    /\ UNCHANGED <<now, limiters, process, seeding>>

\* The client goes, or keepAliveTimeout has passed between two requests.  A
\* handler that is running is not told.
Disconnect(c) ==
    /\ conns[c].open
    /\ conns' = [conns EXCEPT ![c].open = FALSE]
    /\ UNCHANGED <<now, limiters, process, database, seeding>>

-----------------------------------------------------------------------------
(* The process. *)

\* server.close(): nobody is accepted any more, and idle connections are closed.
CloseServer ==
    /\ life' = IF life = "up" THEN "draining" ELSE life
    /\ conns' = IF life # "up" THEN conns
                ELSE [c \in Connections |-> [conns[c] EXCEPT !.open = @ /\ conns[c].req # Idle]]

\* SIGTERM or SIGINT, once or more often.
Signal ==
    /\ life = "up"
    /\ CloseServer
    /\ UNCHANGED <<now, limiters, doomed, exit, cut, database, seeding>>

\* process.exit(): all connections are gone.
End(code) ==
    /\ life' = "down"
    /\ exit' = code
    /\ cut' = {c \in Connections : Waiting(c)}
    /\ conns' = [c \in Connections |-> Closed]

\* Mutant of Reject: once the server is closed it has no effect.
Reject_TooLate ==
    /\ Faults
    /\ life # "down"
    /\ doomed' = TRUE
    /\ CloseServer
    /\ UNCHANGED <<now, limiters, exit, cut, database, seeding>>

\* unhandledRejection: the callback of its server.close() ends the process as
\* soon as the server is closed, which it may be already.
Reject ==
    /\ Faults
    /\ life # "down"
    /\ doomed' = TRUE
    /\ IF life = "leaving" THEN End("rejected")
       ELSE CloseServer /\ UNCHANGED <<exit, cut>>
    /\ UNCHANGED <<now, limiters, database, seeding>>

Throw ==
    /\ Faults
    /\ life # "down"
    /\ End("thrown")
    /\ UNCHANGED <<now, limiters, doomed, database, seeding>>

\* Mutant of Drained: the connections are not waited for.
Drained_AtOnce == life = "draining"

Drained == life = "draining" /\ \A c \in Connections : ~conns[c].open

\* The server is closed.  All callbacks run: that of a signal waits for the
\* database to be closed, that of a rejection does not wait.
LeaveServer ==
    /\ Drained
    /\ IF doomed THEN End("rejected")
       ELSE life' = "leaving" /\ UNCHANGED <<conns, exit, cut>>
    /\ UNCHANGED <<now, limiters, doomed, database, seeding>>

LeaveDatabase ==
    /\ life = "leaving"
    /\ End("clean")
    /\ UNCHANGED <<now, limiters, doomed, database, seeding>>

\* The container is started again; the counters of the limiters are new.
Start ==
    /\ life = "down"
    /\ life' = "up" /\ doomed' = FALSE /\ exit' = "none" /\ cut' = {}
    /\ hits' = [l \in Limiters |-> [k \in Keys |-> NoHits]]
    /\ admitted' = [l \in Limiters |-> [k \in Keys |-> <<>>]]
    /\ UNCHANGED <<now, conns, database, seeding>>

-----------------------------------------------------------------------------
(* The seed script. *)

Admin == [email |-> "admin", role |-> "admin"]

\* The script empties the collection.  Nothing keeps it from being run twice at
\* the same time: what an earlier run has created is gone too.
StartSeed(s) ==
    /\ seeds[s] \in {"idle", "done"}
    /\ present' = {}
    /\ seeds' = [seeds EXCEPT ![s] = "admin"]
    /\ emptied' = {r \in Seeders \ {s} : seeds[r] \in {"demo", "events", "done"}}
    /\ UNCHANGED <<now, limiters, process, conns, accounts>>

\* Mutant of SeedStep: an email that is taken is passed over.
SeedStep_Lenient(s) ==
    /\ \/ seeds[s] = "admin" /\ ~Taken("admin") /\ Create("admin", "admin") /\ seeds' = [seeds EXCEPT ![s] = "demo"]
       \/ seeds[s] = "demo" /\ ~Taken("demo") /\ Create("demo", "user") /\ seeds' = [seeds EXCEPT ![s] = "events"]
       \/ seeds[s] \in Emails /\ Taken(seeds[s]) /\ seeds' = [seeds EXCEPT ![s] = "events"] /\ UNCHANGED database
       \/ seeds[s] = "events" /\ seeds' = [seeds EXCEPT ![s] = "done"] /\ UNCHANGED database
    /\ UNCHANGED <<now, limiters, process, conns, emptied>>

\* It creates two accounts and then the events.
SeedStep(s) ==
    /\ \/ seeds[s] = "admin" /\ ~Taken("admin") /\ Create("admin", "admin") /\ seeds' = [seeds EXCEPT ![s] = "demo"]
       \/ seeds[s] = "demo" /\ ~Taken("demo") /\ Create("demo", "user") /\ seeds' = [seeds EXCEPT ![s] = "events"]
       \/ seeds[s] = "events" /\ seeds' = [seeds EXCEPT ![s] = "done"] /\ UNCHANGED database
    /\ UNCHANGED <<now, limiters, process, conns, emptied>>

\* An email that is taken ends it, as any error does.
FailSeed(s) ==
    /\ \/ seeds[s] \in Emails /\ Taken(seeds[s])
       \/ seeds[s] \in Emails \cup {"events"} /\ Faults
    /\ seeds' = [seeds EXCEPT ![s] = "idle"]
    /\ UNCHANGED <<now, limiters, process, conns, database, emptied>>

\* The times after at, of a list of times in their order.
After(s, at) == SubSeq(s, Cardinality({i \in DOMAIN s : s[i] <= at}) + 1, Len(s))

\* What has been counted is forgotten when its window ends.
Tick ==
    /\ now < MaxTime
    /\ now' = now + 1
    /\ hits' = [l \in Limiters |-> [k \in Keys |->
           IF hits[l][k].until <= now' THEN NoHits ELSE hits[l][k]]]
    /\ admitted' = [l \in Limiters |-> [k \in Keys |-> After(admitted[l][k], now' - Window[l])]]
    /\ UNCHANGED <<process, conns, database, seeding>>

-----------------------------------------------------------------------------
Next ==
    \/ \E c \in Connections :
          \/ \E k \in Keys, route \in Routes, id \in 0..Len(accounts) : Arrive(c, k, route, id)
          \/ Uncounted(c) \/ Refuse(c) \/ Check(c) \/ Finish(c) \/ Disconnect(c)
    \/ Signal \/ Reject \/ Throw \/ LeaveServer \/ LeaveDatabase \/ Start
    \/ \E s \in Seeders : StartSeed(s) \/ SeedStep(s) \/ FailSeed(s)
    \/ Tick

Spec == Init /\ [][Next]_vars

\* The database answers, the process runs what it has been told, and
\* keepAliveTimeout ends a connection on which no request comes any more.  Nothing
\* is assumed of the clients: one may keep its connection busy for ever.
Fairness ==
    /\ \A c \in Connections :
          /\ WF_vars(Refuse(c) \/ Check(c) \/ Finish(c))
          /\ WF_vars(conns[c].req = Idle /\ Disconnect(c))
    /\ WF_vars(LeaveServer \/ LeaveDatabase)

FairSpec == Spec /\ Fairness

-----------------------------------------------------------------------------
\* The types of the variables; the window of every count is one that is open or
\* over.
TypeOK ==
    /\ now \in 0..MaxTime
    /\ \A l \in Limiters :
          /\ hits[l] \in [Keys -> [n : 0..(Max[l] + 1), until : 0..(now + Window[l])]]
          /\ admitted[l] \in [Keys -> Seq(0..now)]
    /\ life \in {"up", "draining", "leaving", "down"}
    /\ doomed \in BOOLEAN
    /\ exit \in {"none", "clean", "rejected", "thrown"} /\ cut \in SUBSET Connections
    /\ conns \in [Connections -> [open : BOOLEAN,
          req : [pc : {"idle", "refused", "checking", "running"}, route : Routes \cup {"none"},
                 id : {0} \cup DOMAIN accounts, known : BOOLEAN]]]
    /\ accounts \in Seq([email : Emails, role : {"admin", "user"}])
    /\ present \in SUBSET DOMAIN accounts
    /\ seeds \in [Seeders -> {"idle", "events", "done"} \cup Emails]
    /\ emptied \in SUBSET Seeders

\* Between two restarts a key is let through less than twice as often as the
\* limit says in any time as long as a window, although the windows do not
\* slide: the requests at the end of one may join those at the start of the next.
AdmissionsBounded ==
    \A l \in Limiters, k \in Keys : Len(admitted[l][k]) < 2 * Max[l]

\* A client that is still there gets its answer however the process is stopped,
\* by signals or by a rejected promise or both, in any order; only an exception
\* cuts it off.
NobodyCutOff == cut # {} => exit = "thrown"

\* The exit code 0 says that no promise was rejected, also not while the
\* database was being closed.
CleanExit == life = "down" /\ exit = "clean" => ~doomed

\* A handler behind authenticate runs for an account that was in the database
\* when the request came: what the seed script has removed, and created again
\* with the same email, opens nothing.
StrangersOut ==
    \A c \in Connections :
        LET q == conns[c].req
        IN  q.pc = "running" /\ q.route \in Protected => q.known

\* A run of the seed script that reports success has left an admin to sign in as,
\* whatever earlier runs left, whoever registered meanwhile and whichever other
\* run came between two of its steps, unless another run has emptied the
\* collection after it had created the admin.
SeedGivesAdmin ==
    \A s \in Seeders : seeds[s] = "done" /\ s \notin emptied =>
        \E i \in present : accounts[i] = Admin

\* From some time on no request comes any more.
ClientsFallSilent ==
    <>[][\A c \in Connections : conns[c].req = Idle => conns'[c].req = Idle]_conns

\* A process that is told to stop does stop if the clients fall silent: no request
\* that came before is left without an answer that would hold its connection open,
\* whatever fails meanwhile.
ShutdownEnds == ClientsFallSilent => (life \in {"draining", "leaving"} ~> life = "down")
=============================================================================

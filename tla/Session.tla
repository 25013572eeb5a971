------------------------------- MODULE Session -------------------------------
(***************************************************************************)
(* The frontend's session: the axios interceptor that refreshes an expired *)
(* access token and replays what waited for it, the signed-in user of      *)
(* AuthContext, and the API's side of both.  The tabs of a browser share   *)
(* the cookie and localStorage; isRefreshing, failedQueue and the user are *)
(* a tab's own.                                                            *)
(*                                                                         *)
(* A pair of tokens is a number, the order of issue: its access token is   *)
(* what localStorage holds, its refresh token what the cookie holds.       *)
(* AuthService shows that a refresh acts on the list of refresh tokens as  *)
(* one step, so it is one step here; two tokens of one second that are     *)
(* equal, also there, are different pairs here.  Signing in on another     *)
(* device acts on the list as a sign-in here whose answer is lost.         *)
(***************************************************************************)
EXTENDS Integers, Sequences, FiniteSets, TLC

CONSTANTS
    Tabs,       \* tabs of one browser
    Calls,      \* the requests made, each at most once
    Accounts,   \* users who sign in in this browser
    Limit,      \* refresh tokens in a user document, 5 in the code
    Faults      \* may requests be refused or lost, and pages be reloaded?

ASSUME SessionAssumption == Limit \in Nat \ {0} /\ Faults \in BOOLEAN

VARIABLES
    owner,       \* account of every pair issued so far
    listed,      \* pairs whose refresh token is in its user document
    stale,       \* pairs whose access token has expired
    cookie,      \* pair in the cookie jar
    stored,      \* pair in localStorage
    saved,       \* user in localStorage
    user,        \* tab -> user of AuthContext
    refreshing,  \* tabs with isRefreshing
    leaving,     \* tabs on their way to /login
    calls,       \* call -> request; those at "queued" are failedQueue
    alarms,      \* history: pairs taken for reused
    evicted,     \* history: pairs that newer ones have pushed out of the list
    shared,      \* history: pairs two requests held at a time, or whose answer got lost
    signedOut,   \* history: signed out with no refresh under way
    muddled      \* history: tabs left from an earlier session when somebody signed in

server == <<owner, listed, stale>>
browser == <<cookie, stored, saved>>
tabs == <<user, refreshing, leaving>>
history == <<alarms, evicted, shared, signedOut, muddled>>
vars == <<server, browser, tabs, calls, history>>

-----------------------------------------------------------------------------
None == 0
Nobody == "nobody"
Nowhere == "nowhere"

Pairs == DOMAIN owner

New ==
    [pc |-> "new", kind |-> "none", tab |-> Nowhere, live |-> FALSE, retry |-> FALSE,
     token |-> None, cookie |-> None, as |-> Nobody, code |-> "none", pair |-> None,
     ran |-> "nothing", ranAs |-> Nobody]

\* A request of tab t, with the headers it carries.  The cookie is scoped to
\* /api/auth.
Request(kind, t) ==
    [New EXCEPT !.pc = "sent", !.kind = kind, !.tab = t, !.live = TRUE, !.as = user[t],
                !.token = stored, !.cookie = IF kind = "api" THEN None ELSE cookie]

\* Only what the properties look at is kept of a request that is over.
Settled(q, code) ==
    [New EXCEPT !.pc = "done", !.code = code, !.as = q.as, !.kind = q.kind,
                !.tab = q.tab, !.ran = q.ran, !.ranAs = q.ranAs]

Settle(c, code) == calls' = [calls EXCEPT ![c] = Settled(@, code)]

Open(c) == calls[c].pc \notin {"new", "done"}
OpenIn(t) == {c \in Calls : Open(c) /\ calls[c].tab = t /\ calls[c].live}

\* c has posted a refresh and has not heard of it.
Refreshes(c) == calls[c].pc \in {"refreshing", "refreshed"}
Queued(t) == {c \in OpenIn(t) : calls[c].pc = "queued"}

\* Requests of c and of another that change what becomes of refresh token k.
Shares(c, k) ==
    \E d \in Calls \ {c} :
        Open(d) /\ calls[d].cookie = k /\ (Refreshes(d) \/ calls[d].kind = "logout")

Init ==
    /\ \E a \in Accounts : owner = <<a>> /\ saved = a /\ user = [t \in Tabs |-> a]
    /\ listed = {1} /\ stale = {}
    /\ cookie = 1 /\ stored = 1
    /\ refreshing = {} /\ leaving = {}
    /\ calls = [c \in Calls |-> New]
    /\ alarms = {} /\ evicted = {} /\ shared = {} /\ signedOut = FALSE /\ muddled = {}

-----------------------------------------------------------------------------
(* The pages send requests. *)

\* Nothing but the spinner is shown until hydrate has an answer; the buttons
\* that sign in and out are disabled while they wait.  /login is open to
\* everybody.
MaySend(kind, t) ==
    /\ t \notin leaving
    /\ \A c \in OpenIn(t) : calls[c].kind \notin {"me", kind} \ {"api"}
    /\ kind = "login" \/ user[t] # Nobody

Send(c, kind, t) ==
    /\ calls[c] = New
    /\ MaySend(kind, t)
    /\ calls' = [calls EXCEPT ![c] = Request(kind, t)]
    /\ shared' = IF kind = "logout" /\ Shares(c, cookie) THEN shared \cup {cookie} ELSE shared
    /\ UNCHANGED <<server, browser, tabs, alarms, evicted, signedOut, muddled>>

\* The page of tab t is loaded again: its state is gone, and what the API has
\* not answered is answered to nobody.  AuthContext reads localStorage, and
\* hydrate asks for the profile if there is a token.
Reload(t) ==
    /\ t \in leaving \/ Faults
    /\ user' = [user EXCEPT ![t] = saved]
    /\ refreshing' = refreshing \ {t}
    /\ leaving' = leaving \ {t}
    /\ \E hydrate \in SUBSET {c \in Calls : calls[c] = New} :
          /\ Cardinality(hydrate) = IF stored = None THEN 0 ELSE 1
          /\ calls' = [c \in Calls |->
                IF c \in hydrate THEN Request("me", t)
                ELSE IF c \in Queued(t) THEN Settled(calls[c], "gone")
                ELSE IF c \in OpenIn(t) THEN [calls[c] EXCEPT !.live = FALSE]
                ELSE calls[c]]
    /\ UNCHANGED <<server, browser, history>>

-----------------------------------------------------------------------------
(* The API. *)

\* The answer of a handler that has run may get lost.
Outcomes == IF Faults THEN {"ok", "failed"} ELSE {"ok"}

Replied(c, q) ==
    calls' = [calls EXCEPT ![c] = [q EXCEPT !.pc = IF @ = "refreshing" THEN "refreshed" ELSE "reply"]]

Issue(a) == owner' = Append(owner, a) /\ UNCHANGED stale

\* addRefreshToken keeps the newest: the pairs of L that go when another pair of
\* account a is added to them.
Oldest(a, L) ==
    {k \in L : owner[k] = a /\ Cardinality({j \in L : owner[j] = a /\ j > k}) + 1 >= Limit}

AddRefreshToken(L, out) ==
    /\ listed' = (L \ out) \cup {Len(owner) + 1}
    /\ evicted' = evicted \cup out

\* authenticate refuses a request, or login a password, or the refresh finds
\* no cookie.
Unauthorized(c) ==
    LET q == calls[c]
    IN  /\ \/ q.pc = "sent" /\ q.kind # "login" /\ q.token \in stale \cup {None}
           \/ q.pc = "sent" /\ q.kind = "login"
           \/ q.pc = "refreshing" /\ q.cookie = None
        /\ Replied(c, [q EXCEPT !.code = "unauthorized"])
        /\ UNCHANGED <<server, alarms, evicted, shared>>

\* A handler behind authenticate; logout removes the token it is given from
\* the list of the account it authenticates.
Handle(c) ==
    LET q == calls[c]
        mine == {k \in {q.cookie} \cap Pairs : owner[k] = owner[q.token]}
    IN  /\ q.pc = "sent" /\ q.kind # "login" /\ q.token \in Pairs \ stale
        /\ \E o \in Outcomes :
              /\ Replied(c, [q EXCEPT !.code = o, !.ran = o, !.ranAs = owner[q.token]])
              /\ shared' = IF q.kind = "logout" /\ o = "failed" THEN shared \cup mine ELSE shared
        /\ listed' = IF q.kind = "logout" THEN listed \ mine ELSE listed
        /\ UNCHANGED <<owner, stale, alarms, evicted>>

\* A login that overlaps another one may not have seen that the list is full.
Login(c) ==
    LET next == Len(owner) + 1
    IN  /\ calls[c].pc = "sent" /\ calls[c].kind = "login"
        /\ \E a \in Accounts, o \in Outcomes :
              /\ Issue(a)
              /\ Replied(c, [calls[c] EXCEPT !.code = o, !.ran = o, !.ranAs = a, !.pair = next])
              /\ \E out \in {{}, Oldest(a, listed)} : AddRefreshToken(listed, out)
        /\ UNCHANGED <<alarms, shared>>

\* Mutant of RotateTokens: the list is not saved.
RotateTokens_Unsaved(c) ==
    LET q == calls[c]
        next == Len(owner) + 1
    IN  /\ q.pc = "refreshing" /\ q.cookie \in listed
        /\ Issue(owner[q.cookie])
        /\ UNCHANGED <<listed, alarms, evicted>>
        /\ \E o \in Outcomes :
              /\ Replied(c, [q EXCEPT !.code = o, !.pair = next])
              /\ shared' = IF o = "failed" THEN shared \cup {q.cookie} ELSE shared

\* Mutant of RotateTokens: the pair that is answered is not the one that is saved.
RotateTokens_Other(c) ==
    LET q == calls[c]
        next == Len(owner) + 1
        rest == listed \ {q.cookie}
    IN  /\ q.pc = "refreshing" /\ q.cookie \in listed
        /\ Issue(owner[q.cookie])
        /\ AddRefreshToken(rest, Oldest(owner[q.cookie], rest))
        /\ \E o \in Outcomes :
              /\ Replied(c, [q EXCEPT !.code = o, !.pair = next + 1])
              /\ shared' = IF o = "failed" THEN shared \cup {q.cookie} ELSE shared
        /\ UNCHANGED alarms

RotateTokens(c) ==
    LET q == calls[c]
        next == Len(owner) + 1
        rest == listed \ {q.cookie}
    IN  /\ q.pc = "refreshing" /\ q.cookie \in listed
        /\ Issue(owner[q.cookie])
        /\ AddRefreshToken(rest, Oldest(owner[q.cookie], rest))
        /\ \E o \in Outcomes :
              /\ Replied(c, [q EXCEPT !.code = o, !.pair = next])
              /\ shared' = IF o = "failed" THEN shared \cup {q.cookie} ELSE shared
        /\ UNCHANGED alarms

\* Reuse: every refresh token of the account is revoked.
RaiseAlarm(c) ==
    LET q == calls[c]
    IN  /\ q.pc = "refreshing" /\ q.cookie \in Pairs \ listed
        /\ listed' = {k \in listed : owner[k] # owner[q.cookie]}
        /\ alarms' = alarms \cup {q.cookie}
        /\ Replied(c, [q EXCEPT !.code = "unauthorized"])
        /\ UNCHANGED <<owner, stale, evicted, shared>>

\* The request does not reach its handler: the network or the rate limiter.
Refuse(c) ==
    /\ Faults
    /\ calls[c].pc \in {"sent", "refreshing"}
    /\ Replied(c, [calls[c] EXCEPT !.code = "failed"])
    /\ UNCHANGED <<server, alarms, evicted, shared>>

Serve(c) ==
    /\ Unauthorized(c) \/ Handle(c) \/ Login(c) \/ RotateTokens(c) \/ RaiseAlarm(c) \/ Refuse(c)
    /\ UNCHANGED <<browser, tabs, signedOut, muddled>>

Expire(k) ==
    /\ k \notin stale
    /\ stale' = stale \cup {k}
    /\ UNCHANGED <<owner, listed, browser, tabs, calls, history>>

-----------------------------------------------------------------------------
(* The answers arrive. *)

\* clearAuth, and the catch block of hydrate.
clearAuth(t) ==
    /\ stored' = None
    /\ saved' = Nobody
    /\ user' = [user EXCEPT ![t] = Nobody]

\* Mutant of setAuth: the access token is not stored.
setAuth_NoToken(t, k) ==
    /\ UNCHANGED stored
    /\ saved' = owner[k]
    /\ user' = [user EXCEPT ![t] = owner[k]]

setAuth(t, k) ==
    /\ stored' = k
    /\ saved' = owner[k]
    /\ user' = [user EXCEPT ![t] = owner[k]]

Fetched(c) ==
    /\ calls[c].kind = "api"
    /\ UNCHANGED <<browser, user, signedOut, muddled>>

Hydrated(c) ==
    /\ calls[c].kind = "me"
    /\ saved' = calls[c].ranAs
    /\ user' = [user EXCEPT ![calls[c].tab] = calls[c].ranAs]
    /\ UNCHANGED <<cookie, stored, signedOut, muddled>>

SignedIn(c) ==
    /\ calls[c].kind = "login"
    /\ cookie' = calls[c].pair
    /\ setAuth(calls[c].tab, calls[c].pair)
    /\ signedOut' = FALSE
    /\ muddled' = IF \E d \in Calls \ {c} : Open(d) THEN Tabs
                  ELSE muddled \cup {s \in Tabs \ {calls[c].tab} : user[s] # Nobody}

\* Mutant of SignedOut: the cookie is not cleared.
SignedOut_KeepsCookie(c) ==
    /\ calls[c].kind = "logout"
    /\ clearAuth(calls[c].tab)
    /\ signedOut' = ~\E d \in Calls : Refreshes(d)
    /\ UNCHANGED <<cookie, muddled>>

SignedOut(c) ==
    /\ calls[c].kind = "logout"
    /\ cookie' = None
    /\ clearAuth(calls[c].tab)
    /\ signedOut' = ~\E d \in Calls : Refreshes(d)
    /\ UNCHANGED muddled

ReceiveOk(c) ==
    /\ calls[c].code = "ok"
    /\ Settle(c, "ok")
    /\ Fetched(c) \/ Hydrated(c) \/ SignedIn(c) \/ SignedOut(c)
    /\ UNCHANGED <<server, refreshing, leaving, alarms, evicted, shared>>

\* Mutant of NeedsRefresh: any error is taken for an expired token.
NeedsRefresh_AnyError(q) == q.code # "ok" /\ ~q.retry /\ q.kind # "login"

NeedsRefresh(q) == q.code = "unauthorized" /\ ~q.retry /\ q.kind # "login"

\* The caller sees the error.  onSettled of logout and the catch block of
\* hydrate end the session in this browser whatever the error was.
ReceiveError(c) ==
    LET q == calls[c]
    IN  /\ q.code # "ok" /\ ~NeedsRefresh(q)
        /\ Settle(c, "error")
        /\ IF q.kind \in {"me", "logout"}
           THEN clearAuth(q.tab) /\ UNCHANGED cookie
           ELSE UNCHANGED <<browser, user>>
        /\ UNCHANGED <<server, refreshing, leaving, history>>

\* A refresh is under way in this tab: wait for it.
Enqueue(c) ==
    /\ NeedsRefresh(calls[c])
    /\ calls[c].tab \in refreshing
    /\ calls' = [calls EXCEPT ![c].pc = "queued"]
    /\ UNCHANGED <<server, browser, tabs, history>>

\* None is: post one.
StartRefresh(c) ==
    /\ NeedsRefresh(calls[c])
    /\ calls[c].tab \notin refreshing
    /\ calls' = [calls EXCEPT ![c].pc = "refreshing", ![c].retry = TRUE, ![c].cookie = cookie]
    /\ refreshing' = refreshing \cup {calls[c].tab}
    /\ shared' = IF Shares(c, cookie) THEN shared \cup {cookie} ELSE shared
    /\ UNCHANGED <<server, browser, user, leaving, alarms, evicted, signedOut, muddled>>

\* The tab's requests that a refresh by c decides about.
Waiting(c) == {c} \cup Queued(calls[c].tab)

\* Mutant of ReplayAll: processQueue is not called.
ReplayAll_LeavesQueue(c) ==
    LET k == calls[c].pair
    IN  /\ calls[c].code = "ok"
        /\ cookie' = k
        /\ stored' = k
        /\ refreshing' = refreshing \ {calls[c].tab}
        /\ calls' = [calls EXCEPT ![c] =
               [@ EXCEPT !.pc = "sent", !.token = k, !.code = "none", !.pair = None,
                         !.cookie = IF calls[c].kind = "api" THEN None ELSE k]]
        /\ UNCHANGED <<server, saved, user, leaving, history>>

\* processQueue(null, newToken) and return api(original).
ReplayAll(c) ==
    LET k == calls[c].pair
    IN  /\ calls[c].code = "ok"
        /\ cookie' = k
        /\ stored' = k
        /\ refreshing' = refreshing \ {calls[c].tab}
        /\ calls' = [d \in Calls |->
               IF d \notin Waiting(c) THEN calls[d]
               ELSE [calls[d] EXCEPT !.pc = "sent", !.token = k, !.code = "none", !.pair = None,
                                     !.cookie = IF calls[d].kind = "api" THEN None ELSE k]]
        /\ UNCHANGED <<server, saved, user, leaving, history>>

\* Mutant of RejectAll: isRefreshing is not reset.
RejectAll_StillRefreshing(c) ==
    LET t == calls[c].tab
    IN  /\ calls[c].code # "ok"
        /\ calls' = [d \in Calls |->
               IF d \in Waiting(c) THEN Settled(calls[d], "error") ELSE calls[d]]
        /\ stored' = None
        /\ saved' = Nobody
        /\ user' = IF \E d \in Waiting(c) : calls[d].kind \in {"me", "logout"}
                   THEN [user EXCEPT ![t] = Nobody] ELSE user
        /\ leaving' = leaving \cup {t}
        /\ UNCHANGED <<server, cookie, refreshing, history>>

\* processQueue(refreshError): everybody is rejected and the page moves to
\* /login.
RejectAll(c) ==
    LET t == calls[c].tab
    IN  /\ calls[c].code # "ok"
        /\ calls' = [d \in Calls |->
               IF d \in Waiting(c) THEN Settled(calls[d], "error") ELSE calls[d]]
        /\ stored' = None
        /\ saved' = Nobody
        /\ user' = IF \E d \in Waiting(c) : calls[d].kind \in {"me", "logout"}
                   THEN [user EXCEPT ![t] = Nobody] ELSE user
        /\ refreshing' = refreshing \ {t}
        /\ leaving' = leaving \cup {t}
        /\ UNCHANGED <<server, cookie, history>>

\* An answer to a page that is gone; it may still reach the cookie jar.
Ignore(c) ==
    LET q == calls[c]
        sets == q.code = "ok" /\ (q.kind \in {"login", "logout"} \/ q.pc = "refreshed")
    IN  /\ Settle(c, "gone")
        /\ \/ /\ cookie' = IF sets THEN q.pair ELSE cookie
              /\ signedOut' = (signedOut /\ cookie' = None)
              /\ muddled' = IF cookie' = cookie THEN muddled ELSE Tabs
              /\ UNCHANGED shared
           \/ /\ sets
              /\ shared' = shared \cup ({q.cookie} \ {None})
              /\ UNCHANGED <<cookie, signedOut, muddled>>
        /\ UNCHANGED <<server, stored, saved, tabs, alarms, evicted>>

Receive(c) ==
    \/ calls[c].live /\ calls[c].pc = "reply"
          /\ (ReceiveOk(c) \/ ReceiveError(c) \/ Enqueue(c) \/ StartRefresh(c))
    \/ calls[c].live /\ calls[c].pc = "refreshed" /\ (ReplayAll(c) \/ RejectAll(c))
    \/ ~calls[c].live /\ calls[c].pc \in {"reply", "refreshed"} /\ Ignore(c)

-----------------------------------------------------------------------------
Next ==
    \/ \E c \in Calls :
          \/ \E t \in Tabs, kind \in {"api", "login", "logout"} : Send(c, kind, t)
          \/ Serve(c)
          \/ Receive(c)
    \/ \E t \in Tabs : Reload(t)
    \/ \E k \in Pairs : Expire(k)

Spec == Init /\ [][Next]_vars

\* The API answers or the connection fails, and the browser runs what it has
\* been answered.
Fairness == \A c \in Calls : WF_vars(Serve(c)) /\ WF_vars(Receive(c))

FairSpec == Spec /\ Fairness

-----------------------------------------------------------------------------
Records ==
    [pc : {"new", "sent", "reply", "queued", "refreshing", "refreshed", "done"},
     kind : {"none", "api", "me", "login", "logout"},
     tab : Tabs \cup {Nowhere}, live : BOOLEAN, retry : BOOLEAN,
     token : Pairs \cup {None}, cookie : Pairs \cup {None}, pair : Pairs \cup {None},
     as : Accounts \cup {Nobody}, ranAs : Accounts \cup {Nobody},
     code : {"none", "ok", "failed", "unauthorized", "error", "gone"},
     ran : {"nothing", "ok", "failed"}]

\* The types of the variables: every token anybody holds was issued.
TypeOK ==
    /\ owner \in Seq(Accounts)
    /\ listed \in SUBSET Pairs /\ stale \in SUBSET Pairs
    /\ alarms \in SUBSET Pairs /\ evicted \in SUBSET Pairs
    /\ shared \in SUBSET (Pairs \cup {None})
    /\ cookie \in Pairs \cup {None} /\ stored \in Pairs \cup {None}
    /\ saved \in Accounts \cup {Nobody}
    /\ user \in [Tabs -> Accounts \cup {Nobody}]
    /\ refreshing \in SUBSET Tabs /\ leaving \in SUBSET Tabs
    /\ calls \in [Calls -> Records]
    /\ signedOut \in BOOLEAN /\ muddled \in SUBSET Tabs

\* A tab with isRefreshing waits for exactly one refresh, a tab without for
\* none, and failedQueue holds requests only while one is awaited: no request
\* is left in a queue that nobody will process, and no second refresh is
\* posted beside the first one.
QueueIsServed ==
    \A t \in Tabs :
        LET leaders == {c \in OpenIn(t) : Refreshes(c)}
        IN  /\ t \in refreshing <=> leaders # {}
            /\ \A c, d \in leaders : c = d
            /\ Queued(t) # {} => t \in refreshing

\* The reuse alarm, which signs the account out of every device, goes off for
\* an honest browser only if one of three things happened to a token of the
\* account before: two tabs, or a refresh and a logout, held it at the same time,
\* the answer that replaced it was lost, or so many newer tokens were issued that
\* it was pushed out of the list.
AlarmsExplained ==
    \A k \in alarms : \E j \in alarms \cap (shared \cup evicted) : owner[j] = owner[k]

\* After a logout that met no refresh in flight, no late answer and no reload
\* brings a token back into the browser until somebody signs in.
StaysSignedOut == signedOut => stored = None /\ cookie = None

\* A request is run as the user its page showed when it was made, also when it
\* is replayed with a token that came later.  The exception are the tabs that
\* were left from an earlier session when somebody signed in, or all of them if
\* requests were under way: localStorage mixes them with the new session.
RunsAsShown ==
    \A c \in Calls :
        calls[c].kind \in {"api", "logout"} /\ calls[c].tab \notin muddled =>
            calls[c].ranAs \in {Nobody, calls[c].as}

\* Every request a page makes is settled: the wait for a refresh ends too.
EveryCallSettles == \A c \in Calls : Open(c) ~> calls[c].pc = "done"

Book == INSTANCE RequestBook WITH
    page <- [c \in Calls |->
                IF calls[c].pc = "new" THEN "new"
                ELSE IF calls[c].pc = "done" THEN calls[c].code
                ELSE IF calls[c].live THEN "waiting" ELSE "gone"],
    ran <- [c \in Calls |-> calls[c].ran]

\* The interceptor keeps what RequestBook promises: replaying a request never
\* runs it twice, and its page hears of success exactly when it succeeded.
ImplementsRequestBook == Book!Spec
=============================================================================

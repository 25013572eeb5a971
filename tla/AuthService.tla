----------------------------- MODULE AuthService -----------------------------
(***************************************************************************)
(* Register, login, refresh and logout of one account: the requests that   *)
(* change the refresh tokens in its user document.  Accounts share nothing.*)
(*                                                                         *)
(* A handler reads the document, changes its copy and saves it.  Mongoose  *)
(* saves a copy that was only pushed to as a $push, without a condition,   *)
(* and a copy whose array was assigned as a $set of the whole array on     *)
(* condition that __v is still the one read; both increment __v.  Instead  *)
(* of __v a request keeps whether it still has the value it read.          *)
(*                                                                         *)
(* A refresh token is a signature over the account and the second it is    *)
(* issued in, so a token IS its second here: two tokens of one second are  *)
(* equal.                                                                  *)
(***************************************************************************)
EXTENDS Integers, FiniteSets, SequencesExt, Lists

CONSTANTS
    Logins,     \* slots for concurrent register and login requests
    Sessions,   \* slots for concurrent refresh and logout requests
    Limit,      \* tokens kept, 5 in the code
    Lifetime,   \* seconds until a token expires
    MaxTime,    \* bound on the clock
    Faults      \* may requests fail and answers be lost?

ASSUME AuthAssumption ==
    /\ IsFiniteSet(Logins)
    /\ Logins \cap Sessions = {}
    /\ Limit \in Nat \ {0}
    /\ Lifetime \in Nat
    /\ MaxTime \in Nat \ {0}
    /\ Faults \in BOOLEAN

VARIABLES
    now,        \* the clock, in seconds
    account,    \* "none" or "user"
    tokens,     \* refreshTokens of the account, oldest first
    requests,   \* slot -> request
    issued,     \* tokens that clients have received
    retired,    \* history: tokens that have left the list
    twins       \* history: tokens added when they had been in the list before

vars == <<now, account, tokens, requests, issued, retired, twins>>
history == <<retired, twins>>

-----------------------------------------------------------------------------
Tokens == 1..MaxTime
NoToken == 0

Slots == Logins \cup Sessions

Idle == [pc |-> "idle"]

Request ==
    [op: {"register", "login", "refresh", "revoke", "logout"},
     pc: {"create", "load", "compare", "save"},
     old: Tokens \cup {NoToken},    \* the token to remove
     new: Tokens \cup {NoToken},    \* the token to add
     copy: Seq(Tokens),             \* refreshTokens as read
     current: BOOLEAN]              \* does __v still have the value read?

Free(r) == requests[r].pc = "idle"

\* The request is answered; with which status code is said at each use.
Answer(r) == requests' = [requests EXCEPT ![r] = Idle]

\* The request has read the document and goes on at pc.
Loaded(op, pc, old, new) ==
    [op |-> op, pc |-> pc, old |-> old, new |-> new, copy |-> tokens, current |-> TRUE]

TypeOK ==
    /\ now \in Tokens
    /\ account \in {"none", "user"}
    /\ tokens \in Seq(Tokens)
    /\ requests \in [Slots -> Request \cup {Idle}]
    /\ issued \subseteq Tokens
    /\ retired \subseteq Tokens
    /\ twins \subseteq Tokens

Init ==
    /\ now = 1
    /\ account = "none"
    /\ tokens = <<>>
    /\ requests = [r \in Slots |-> Idle]
    /\ issued = {}
    /\ retired = {}
    /\ twins = {}

-----------------------------------------------------------------------------
(* register *)

CheckEmail(r) ==
    /\ Free(r)
    /\ IF account = "user"
       THEN Answer(r) \* 409
       ELSE requests' = [requests EXCEPT ![r] =
                [op |-> "register", pc |-> "create", old |-> NoToken,
                 new |-> NoToken, copy |-> <<>>, current |-> FALSE]]
    /\ UNCHANGED <<now, account, tokens, issued, history>>

\* The unique index on email refuses a second account.  The token is made as
\* soon as the account exists.
CreateAccount(r) ==
    /\ requests[r].pc = "create"
    /\ IF account = "user"
       THEN Answer(r) \* 409
       ELSE requests' = [requests EXCEPT ![r].pc = "load", ![r].new = now]
    /\ account' = "user"
    /\ UNCHANGED <<now, tokens, issued, history>>

\* Mutant of LoadAccount: the token made before the read is forgotten.
LoadAccount_NoToken(r) ==
    /\ requests[r].pc = "load"
    /\ requests' = [requests EXCEPT ![r] = Loaded("register", "save", NoToken, NoToken)]
    /\ UNCHANGED <<now, account, tokens, issued, history>>

\* The document is read again, with its tokens.
LoadAccount(r) ==
    /\ requests[r].pc = "load"
    /\ requests' = [requests EXCEPT
           ![r] = Loaded("register", "save", NoToken, requests[r].new)]
    /\ UNCHANGED <<now, account, tokens, issued, history>>

-----------------------------------------------------------------------------
(* login *)

FindByEmail(r) ==
    /\ Free(r)
    /\ IF account = "none"
       THEN Answer(r) \* 401
       ELSE requests' = [requests EXCEPT
                ![r] = Loaded("login", "compare", NoToken, NoToken)]
    /\ UNCHANGED <<now, account, tokens, issued, history>>

ComparePassword(r) ==
    /\ requests[r].pc = "compare"
    /\ \/ Answer(r) \* 401
       \/ requests' = [requests EXCEPT ![r].pc = "save", ![r].new = now]
    /\ UNCHANGED <<now, account, tokens, issued, history>>

-----------------------------------------------------------------------------
(* refreshTokens and logout, up to the save *)

\* Clearing an empty list changes nothing, so nothing is saved.
FindForRefresh(r, t) ==
    LET valid == now < t + Lifetime
        listed == Contains(tokens, t)
    IN  /\ Free(r)
        /\ \/ ~valid /\ Answer(r) \* 401
           \/ valid /\ tokens = <<>> /\ Answer(r) \* 401
           \/ /\ valid /\ ~listed /\ tokens # <<>>
              /\ requests' = [requests EXCEPT ![r] = Loaded("revoke", "save", t, NoToken)]
           \/ /\ valid /\ listed
              /\ requests' = [requests EXCEPT ![r] = Loaded("refresh", "save", t, now)]
        /\ UNCHANGED <<now, account, tokens, issued, history>>

\* Removing a token that is not in the list changes nothing, so nothing is
\* saved.
FindForLogout(r, t) ==
    /\ Free(r)
    /\ account = "user"
    /\ IF Contains(tokens, t)
       THEN requests' = [requests EXCEPT ![r] = Loaded("logout", "save", t, NoToken)]
       ELSE Answer(r) \* 200
    /\ UNCHANGED <<now, account, tokens, issued, history>>

\* No cookie and no body: nothing equals undefined, nothing is saved.
LogoutWithoutToken(r) ==
    /\ Free(r)
    /\ account = "user"
    /\ Answer(r) \* 200
    /\ UNCHANGED <<now, account, tokens, issued, history>>

-----------------------------------------------------------------------------
(* user.save() *)

\* Mutant of Newest: the list is not trimmed.
Newest_All(s) == s

\* slice(-5)
Newest(s) == IF Len(s) > Limit THEN SubSeq(s, Len(s) - Limit + 1, Len(s)) ELSE s

\* addRefreshToken only pushed.
Appends(q) == q.op \in {"login", "register"} /\ Len(q.copy) < Limit

\* The copy after addRefreshToken, removeRefreshToken or clearRefreshTokens.
Changed(q) ==
    CASE q.op \in {"login", "register"} -> Newest(Append(q.copy, q.new))
      [] q.op = "refresh" -> Newest(Append(Without(q.copy, q.old), q.new))
      [] q.op = "logout"  -> Without(q.copy, q.old)
      [] q.op = "revoke"  -> <<>>

Overtaken(q) == IF q = Idle THEN q ELSE [q EXCEPT !.current = FALSE]

\* The save is applied and r is answered; with a fault the answer is lost.
Applied(r, list) ==
    LET q == requests[r]
        added == {q.new} \ {NoToken}
    IN  /\ tokens' = list
        /\ requests' = [x \in Slots |-> IF x = r THEN Idle ELSE Overtaken(requests[x])]
        /\ \/ issued' = issued \cup added
           \/ Faults /\ issued' = issued
        /\ retired' = retired \cup (ToSet(tokens) \ ToSet(list))
        /\ twins' = twins \cup (added \cap (retired \cup ToSet(tokens)))
        /\ UNCHANGED <<now, account>>

\* Mutant of Save: the array is replaced whatever has happened since the read.
Save_Unchecked(r) ==
    LET q == requests[r]
    IN  /\ q.pc = "save"
        /\ Applied(r, IF Appends(q) THEN Append(tokens, q.new) ELSE Changed(q))

\* A $set whose __v has changed is a VersionError, which no handler catches.
Save(r) ==
    LET q == requests[r]
    IN  /\ q.pc = "save"
        /\ \/ Appends(q) /\ Applied(r, Append(tokens, q.new))
           \/ ~Appends(q) /\ q.current /\ Applied(r, Changed(q))
           \/ /\ ~Appends(q) /\ ~q.current
              /\ Answer(r) \* 500
              /\ UNCHANGED <<now, account, tokens, issued, history>>

-----------------------------------------------------------------------------
\* A command of the request fails, or the process dies before sending it.
Fail(r) ==
    /\ Faults
    /\ ~Free(r)
    /\ Answer(r) \* 500
    /\ UNCHANGED <<now, account, tokens, issued, history>>

Tick ==
    /\ now < MaxTime
    /\ now' = now + 1
    /\ UNCHANGED <<account, tokens, requests, issued, history>>

Next ==
    \/ \E r \in Logins :
          CheckEmail(r) \/ CreateAccount(r) \/ LoadAccount(r)
            \/ FindByEmail(r) \/ ComparePassword(r)
    \/ \E r \in Sessions :
          \/ \E t \in issued : FindForRefresh(r, t) \/ FindForLogout(r, t)
          \/ LogoutWithoutToken(r)
    \/ \E r \in Slots : Save(r) \/ Fail(r)
    \/ Tick

Spec == Init /\ [][Next]_vars

-----------------------------------------------------------------------------
(* Properties. *)

\* user.save() of a stale copy never brings a token back: a token that has left
\* the list is in it again only if it was issued a second time.
RetiredStaysOut == retired \cap ToSet(tokens) \subseteq twins

\* addRefreshToken trims the copy and not the list: concurrent logins exceed
\* the limit, but never by more than there are of them beyond the first.
ListBounded == Len(tokens) < Limit + Cardinality(Logins)

\* Although every handler works on a copy, the list changes as if each of them
\* were one step on the list itself.
List == INSTANCE TokenList WITH list <- tokens

ImplementsTokenList == List!Spec
=============================================================================

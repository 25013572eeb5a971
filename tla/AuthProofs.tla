------------------------------ MODULE AuthProofs ------------------------------
(***************************************************************************)
(* Proofs, for every set of slots and every limit, lifetime and clock,     *)
(* that AuthService implements TokenList, that it keeps its types, that no *)
(* save brings a token back and that the list stays bounded.               *)
(***************************************************************************)
EXTENDS AuthService, FiniteSetTheorems, FunctionTheorems, TLAPS

-----------------------------------------------------------------------------
(* Filtering a list. *)

\* Counting the members of a finite set of numbers from below numbers them.
LEMMA PlacesFilled ==
    ASSUME NEW n \in Nat, NEW I \in SUBSET (1..n), NEW k \in 1..Cardinality(I)
    PROVE  \E i \in I : Cardinality({j \in I : j <= i}) = k
<1> DEFINE below(i) == {j \in I : j <= i}
           place == [i \in I |-> Cardinality(below(i))]
<1>1. IsFiniteSet(I) /\ Cardinality(I) \in Nat /\ Cardinality(I) <= n
  <2>1. IsFiniteSet(1..n) /\ Cardinality(1..n) = n
    BY FS_Interval
  <2> QED
    BY <2>1, FS_Subset, FS_CardinalityType
<1>2. ASSUME NEW i \in I
      PROVE  /\ IsFiniteSet(below(i))
             /\ Cardinality(below(i)) \in 1..Cardinality(I)
  <2>1. IsFiniteSet(below(i)) /\ Cardinality(below(i)) <= Cardinality(I)
    BY <1>1, FS_Subset
  <2>2. i \in below(i)
    OBVIOUS
  <2>3. Cardinality(below(i)) \in Nat /\ Cardinality(below(i)) # 0
    BY <2>1, <2>2, FS_EmptySet, FS_CardinalityType
  <2> QED
    BY <1>1, <2>1, <2>3
<1>3. ASSUME NEW i \in I, NEW h \in I, i < h
      PROVE  Cardinality(below(i)) # Cardinality(below(h))
  <2>0. \A j \in I : j \in Int
    OBVIOUS
  <2>1. \A j \in I : j <= i => j <= h
    BY <1>3, <2>0
  <2>2. below(i) \in SUBSET below(h)
    BY <2>1
  <2>3. h \in below(h) /\ h \notin below(i)
    BY <1>3, <2>0
  <2> QED
    BY <1>2, <2>2, <2>3, FS_Subset
<1>4. place \in Injection(I, 1..Cardinality(I))
  <2>1. place \in [I -> 1..Cardinality(I)]
    BY <1>2
  <2>2. ASSUME NEW i \in I, NEW h \in I, i # h
        PROVE  place[i] # place[h]
    <3>1. i < h \/ h < i
      BY <2>2
    <3> QED
      BY <1>3, <3>1
  <2> QED
    BY <2>1, <2>2, Fun_IsInj
<1>5. IsFiniteSet(1..Cardinality(I)) /\ Cardinality(1..Cardinality(I)) = Cardinality(I)
  BY <1>1, FS_Interval
<1>6. place \in Surjection(I, 1..Cardinality(I))
  BY <1>4, <1>5, FS_Injection
<1> QED
  BY <1>6 DEF Surjection

\* What filtering a list returns.
LEMMA WithoutSays ==
    ASSUME NEW S, NEW s \in Seq(S), NEW x
    PROVE  /\ Without(s, x) \in Seq(S)
           /\ Len(Without(s, x)) <= Len(s)
           /\ Contains(s, x) => Len(Without(s, x)) < Len(s)
           /\ ToSet(Without(s, x)) \subseteq ToSet(s)
<1> DEFINE kept == {i \in DOMAIN s : s[i] # x}
           at(k) == CHOOSE i \in kept : Cardinality({j \in kept : j <= i}) = k
           m == Cardinality(kept)
           w == [k \in 1..m |-> s[at(k)]]
<1>1. Without(s, x) = IF kept = DOMAIN s THEN s ELSE w
  BY DEF Without
<1>2. Len(s) \in Nat /\ DOMAIN s = 1..Len(s) /\ \A i \in DOMAIN s : s[i] \in S
  OBVIOUS
<1>3. kept \in SUBSET (1..Len(s))
  BY <1>2
<1>4. /\ IsFiniteSet(1..Len(s)) /\ Cardinality(1..Len(s)) = Len(s)
      /\ m \in Nat /\ m <= Len(s)
      /\ m = Len(s) => kept = 1..Len(s)
  <2>1. IsFiniteSet(1..Len(s)) /\ Cardinality(1..Len(s)) = Len(s)
    BY <1>2, FS_Interval
  <2> QED
    BY <1>3, <2>1, FS_Subset, FS_CardinalityType
<1>5. \A k \in 1..m : at(k) \in kept
  BY <1>2, <1>3, PlacesFilled
<1>6. \A k \in 1..m : s[at(k)] \in S
  BY <1>2, <1>5
<1>7. w \in Seq(S) /\ Len(w) = m
  <2>1. w \in [1..m -> S]
    BY <1>6
  <2> HIDE DEF w, m
  <2> QED
    BY <1>4, <2>1
<1>8. Contains(s, x) => m < Len(s)
  BY <1>2, <1>4 DEF Contains
<1>9. ToSet(w) \subseteq ToSet(s)
  BY <1>5 DEF ToSet
<1>10. CASE kept = DOMAIN s
  <2>1. Without(s, x) = s
    BY <1>1, <1>10
  <2>2. ~Contains(s, x)
    BY <1>2, <1>10 DEF Contains
  <2> QED
    BY <1>2, <2>1, <2>2
<1>11. CASE kept # DOMAIN s
  <2>1. Without(s, x) = w
    BY <1>1, <1>11
  <2> HIDE DEF w, m
  <2> QED
    BY <1>4, <1>7, <1>8, <1>9, <2>1
<1> QED
  BY <1>10, <1>11

-----------------------------------------------------------------------------
(* The inductive invariant. *)

\* What a request carries when it is about to be saved.
SaveReady(q) ==
    /\ q.op \in {"register", "login", "refresh", "revoke", "logout"}
    /\ q.op \in {"register", "login", "refresh"} => q.new \in Tokens
    /\ q.op \in {"revoke", "logout"} => q.new = NoToken
    /\ q.op \in {"refresh", "logout"} => q.old \in Tokens
    /\ q.op \in {"refresh", "logout"} => Contains(q.copy, q.old)

\* A request in flight: as long as __v has not changed since it read the list,
\* neither has the list.
RequestOK(q) ==
    \/ q = Idle
    \/ /\ q.pc = "create"
       /\ q.op = "register"
       /\ q.current = FALSE
    \/ /\ q.pc = "load"
       /\ q.op = "register"
       /\ q.current = FALSE
       /\ q.new \in Tokens
    \/ /\ q.pc = "compare"
       /\ q.op = "login"
       /\ q.current => q.copy = tokens
    \/ /\ q.pc = "save"
       /\ SaveReady(q)
       /\ q.current => q.copy = tokens

CopiesCurrent ==
    /\ now \in Tokens
    /\ issued \subseteq Tokens
    /\ requests = [r \in Slots |-> requests[r]]
    /\ \A r \in Slots : RequestOK(requests[r])

\* No request is in flight at first.
LEMMA InitCopies == Init => CopiesCurrent
BY AuthAssumption DEF Init, CopiesCurrent, RequestOK, Idle, Tokens

\* A step that only moves one request to a state that is allowed keeps the
\* invariant.
LEMMA OneMoves ==
    ASSUME CopiesCurrent, NEW r \in Slots, NEW q, RequestOK(q),
           requests' = [requests EXCEPT ![r] = q],
           UNCHANGED <<now, tokens, issued>>
    PROVE  CopiesCurrent'
<1>1. requests' = [x \in Slots |-> IF x = r THEN q ELSE requests[x]]
  BY DEF CopiesCurrent
<1>2. \A x \in Slots : requests'[x] = IF x = r THEN q ELSE requests[x]
  BY <1>1
<1>3. requests' = [x \in Slots |-> requests'[x]]
  BY <1>1, <1>2
<1>4. ASSUME NEW x \in Slots
      PROVE  RequestOK(requests[x])'
  <2>1. RequestOK(requests[x])
    BY DEF CopiesCurrent
  <2> QED
    BY <1>2, <2>1 DEF RequestOK
<1> QED
  BY <1>3, <1>4 DEF CopiesCurrent

\* An answered request is idle.
LEMMA AnswerMoves ==
    ASSUME CopiesCurrent, NEW r \in Slots, Answer(r),
           UNCHANGED <<now, tokens, issued>>
    PROVE  CopiesCurrent'
BY OneMoves DEF Answer, RequestOK

\* A save that is applied makes the copies of all other requests old.
LEMMA AppliedMoves ==
    ASSUME CopiesCurrent, NEW r \in Slots, NEW list, Applied(r, list),
           requests[r].pc = "save"
    PROVE  CopiesCurrent'
<1>1. requests' = [x \in Slots |-> IF x = r THEN Idle ELSE Overtaken(requests[x])]
  BY DEF Applied
<1>2. ASSUME NEW x \in Slots
      PROVE  RequestOK(requests[x])'
  <2>1. requests'[x] = IF x = r THEN Idle ELSE Overtaken(requests[x])
    BY <1>1
  <2>2. CASE x = r \/ requests[x] = Idle
    BY <2>1, <2>2 DEF RequestOK, Overtaken
  <2>3. CASE x # r /\ requests[x] # Idle
    <3>1. RequestOK(requests[x])
      BY DEF CopiesCurrent
    <3>2. requests'[x] = [requests[x] EXCEPT !.current = FALSE]
      BY <2>1, <2>3 DEF Overtaken
    <3> QED
      BY <2>3, <3>1, <3>2 DEF RequestOK, SaveReady
  <2> QED
    BY <2>2, <2>3
<1>3. requests' = [x \in Slots |-> requests'[x]]
  BY <1>1
<1>4. issued' \subseteq Tokens /\ now' \in Tokens
  <2>1. RequestOK(requests[r])
    BY DEF CopiesCurrent
  <2> QED
    BY <2>1 DEF Applied, CopiesCurrent, RequestOK, SaveReady, Idle
<1> QED
  BY <1>2, <1>3, <1>4 DEF CopiesCurrent

\* The steps of a register or login request before its save.
LEMMA LoginMoves ==
    ASSUME CopiesCurrent, NEW r \in Logins,
           \/ CheckEmail(r) \/ CreateAccount(r) \/ LoadAccount(r)
           \/ FindByEmail(r) \/ ComparePassword(r)
    PROVE  CopiesCurrent'
<1> r \in Slots
  BY DEF Slots
<1>0. RequestOK(requests[r]) /\ now \in Tokens
  BY DEF CopiesCurrent
<1>1. CASE CheckEmail(r)
  <2> DEFINE q == [op |-> "register", pc |-> "create", old |-> NoToken,
                   new |-> NoToken, copy |-> <<>>, current |-> FALSE]
  <2>1. RequestOK(q)
    BY DEF RequestOK
  <2>2. UNCHANGED <<now, tokens, issued>>
    BY <1>1 DEF CheckEmail
  <2>3. Answer(r) \/ requests' = [requests EXCEPT ![r] = q]
    BY <1>1 DEF CheckEmail
  <2> QED
    BY <2>1, <2>2, <2>3, OneMoves, AnswerMoves
<1>2. CASE CreateAccount(r)
  <2> DEFINE q == [requests[r] EXCEPT !.pc = "load", !.new = now]
  <2>1. RequestOK(q)
    BY <1>0, <1>2 DEF RequestOK, CreateAccount, Idle
  <2>2. UNCHANGED <<now, tokens, issued>>
    BY <1>2 DEF CreateAccount
  <2>3. Answer(r) \/ requests' = [requests EXCEPT ![r] = q]
    BY <1>2 DEF CreateAccount, CopiesCurrent
  <2> QED
    BY <2>1, <2>2, <2>3, OneMoves, AnswerMoves
<1>3. CASE LoadAccount(r)
  <2> DEFINE q == Loaded("register", "save", NoToken, requests[r].new)
  <2>1. RequestOK(q)
    BY <1>0, <1>3 DEF RequestOK, SaveReady, Loaded, LoadAccount, Idle
  <2>2. UNCHANGED <<now, tokens, issued>> /\ requests' = [requests EXCEPT ![r] = q]
    BY <1>3 DEF LoadAccount
  <2> QED
    BY <2>1, <2>2, OneMoves
<1>4. CASE FindByEmail(r)
  <2> DEFINE q == Loaded("login", "compare", NoToken, NoToken)
  <2>1. RequestOK(q)
    BY DEF RequestOK, Loaded
  <2>2. UNCHANGED <<now, tokens, issued>>
    BY <1>4 DEF FindByEmail
  <2>3. Answer(r) \/ requests' = [requests EXCEPT ![r] = q]
    BY <1>4 DEF FindByEmail
  <2> QED
    BY <2>1, <2>2, <2>3, OneMoves, AnswerMoves
<1>5. CASE ComparePassword(r)
  <2> DEFINE q == [requests[r] EXCEPT !.pc = "save", !.new = now]
  <2>1. RequestOK(q)
    BY <1>0, <1>5 DEF RequestOK, SaveReady, ComparePassword, Idle
  <2>2. UNCHANGED <<now, tokens, issued>>
    BY <1>5 DEF ComparePassword
  <2>3. Answer(r) \/ requests' = [requests EXCEPT ![r] = q]
    BY <1>5 DEF ComparePassword, CopiesCurrent
  <2> QED
    BY <2>1, <2>2, <2>3, OneMoves, AnswerMoves
<1> QED
  BY <1>1, <1>2, <1>3, <1>4, <1>5

\* A refresh before its save.
LEMMA RefreshMoves ==
    ASSUME CopiesCurrent, NEW r \in Slots, NEW t \in issued, FindForRefresh(r, t)
    PROVE  CopiesCurrent'
<1> DEFINE revoke == Loaded("revoke", "save", t, NoToken)
           refresh == Loaded("refresh", "save", t, now)
<1>1. t \in Tokens /\ now \in Tokens
  BY DEF CopiesCurrent
<1>2. UNCHANGED <<now, tokens, issued>>
  BY DEF FindForRefresh
<1>3. CASE Answer(r)
  BY <1>2, <1>3, AnswerMoves
<1>4. CASE requests' = [requests EXCEPT ![r] = revoke]
  <2>1. RequestOK(revoke)
    BY DEF RequestOK, SaveReady, Loaded
  <2> QED
    BY <1>2, <1>4, <2>1, OneMoves
<1>5. CASE Contains(tokens, t) /\ requests' = [requests EXCEPT ![r] = refresh]
  <2>1. RequestOK(refresh)
    BY <1>1, <1>5 DEF RequestOK, SaveReady, Loaded
  <2> QED
    BY <1>2, <1>5, <2>1, OneMoves
<1> QED
  BY <1>3, <1>4, <1>5 DEF FindForRefresh

\* A logout before its save.
LEMMA LogoutMoves ==
    ASSUME CopiesCurrent, NEW r \in Slots, NEW t \in issued, FindForLogout(r, t)
    PROVE  CopiesCurrent'
<1> DEFINE logout == Loaded("logout", "save", t, NoToken)
<1>1. UNCHANGED <<now, tokens, issued>>
  BY DEF FindForLogout
<1>2. CASE Answer(r)
  BY <1>1, <1>2, AnswerMoves
<1>3. CASE Contains(tokens, t) /\ requests' = [requests EXCEPT ![r] = logout]
  <2>1. RequestOK(logout)
    BY <1>3 DEF RequestOK, SaveReady, Loaded, CopiesCurrent
  <2> QED
    BY <1>1, <1>3, <2>1, OneMoves
<1> QED
  BY <1>2, <1>3 DEF FindForLogout

\* Every step keeps the invariant.
LEMMA NextCopies == CopiesCurrent /\ [Next]_vars => CopiesCurrent'
<1> SUFFICES ASSUME CopiesCurrent, [Next]_vars PROVE CopiesCurrent'
  OBVIOUS
<1>1. ASSUME NEW r \in Logins,
             \/ CheckEmail(r) \/ CreateAccount(r) \/ LoadAccount(r)
             \/ FindByEmail(r) \/ ComparePassword(r)
      PROVE  CopiesCurrent'
  BY <1>1, LoginMoves
<1>2. ASSUME NEW r \in Sessions, NEW t \in issued,
             FindForRefresh(r, t) \/ FindForLogout(r, t)
      PROVE  CopiesCurrent'
  BY <1>2, RefreshMoves, LogoutMoves DEF Slots
<1>3. ASSUME NEW r \in Sessions, LogoutWithoutToken(r)
      PROVE  CopiesCurrent'
  BY <1>3, AnswerMoves DEF Slots, LogoutWithoutToken
<1>4. ASSUME NEW r \in Slots, Save(r)
      PROVE  CopiesCurrent'
  <2>1. requests[r].pc = "save"
    BY <1>4 DEF Save
  <2>2. \/ \E list : Applied(r, list)
        \/ Answer(r) /\ UNCHANGED <<now, tokens, issued>>
    BY <1>4 DEF Save
  <2> QED
    BY <2>1, <2>2, AppliedMoves, AnswerMoves
<1>5. ASSUME NEW r \in Slots, Fail(r)
      PROVE  CopiesCurrent'
  BY <1>5, AnswerMoves DEF Fail
<1>6. CASE Tick
  <2>1. now' \in Tokens
    BY <1>6, AuthAssumption DEF Tick, Tokens, CopiesCurrent
  <2>2. UNCHANGED <<tokens, requests, issued>>
    BY <1>6 DEF Tick
  <2> QED
    BY <2>1, <2>2 DEF CopiesCurrent, RequestOK
<1>7. CASE UNCHANGED vars
  BY <1>7 DEF vars, CopiesCurrent, RequestOK
<1> QED
  BY <1>1, <1>2, <1>3, <1>4, <1>5, <1>6, <1>7 DEF Next

-----------------------------------------------------------------------------
(* Refinement. *)

\* A save on a copy is one step on the list.
LEMMA SaveMaps ==
    ASSUME CopiesCurrent, NEW r \in Slots, Save(r)
    PROVE  List!Next \/ UNCHANGED tokens
<1> DEFINE q == requests[r]
<1>0. SaveReady(q) /\ (q.current => q.copy = tokens)
  BY DEF CopiesCurrent, RequestOK, Save, Idle
<1>1. CASE UNCHANGED tokens
  BY <1>1
<1>2. CASE Appends(q) /\ tokens' = Append(tokens, q.new)
  <2>1. q.new \in Tokens
    BY <1>0, <1>2 DEF SaveReady, Appends
  <2> QED
    BY <1>2, <2>1 DEF List!Next, List!Grant
<1>3. CASE q.copy = tokens /\ tokens' = Changed(q)
  <2>1. CASE q.op \in {"login", "register"}
    <3>1. tokens' = List!Newest(Append(tokens, q.new)) /\ q.new \in Tokens
      BY <1>0, <1>3, <2>1 DEF SaveReady, Changed, Newest, List!Newest
    <3> QED
      BY <3>1 DEF List!Next, List!Grant
  <2>2. CASE q.op = "refresh"
    <3>1. tokens' = List!Newest(Append(Without(tokens, q.old), q.new))
      BY <1>3, <2>2 DEF Changed, Newest, List!Newest
    <3>2. q.old \in Tokens /\ q.new \in Tokens /\ Contains(tokens, q.old)
      BY <1>0, <1>3, <2>2 DEF SaveReady
    <3> QED
      BY <3>1, <3>2 DEF List!Next, List!Exchange, List!Without, Without, List!Cardinality, Cardinality, List!Contains, Contains
  <2>3. CASE q.op = "logout"
    <3>1. tokens' = Without(tokens, q.old) /\ q.old \in Tokens /\ Contains(tokens, q.old)
      BY <1>0, <1>3, <2>3 DEF SaveReady, Changed
    <3> QED
      BY <3>1 DEF List!Next, List!Withdraw, List!Contains, Contains, List!Without, Without, List!Cardinality, Cardinality
  <2>4. CASE q.op = "revoke"
    BY <1>3, <2>4 DEF Changed, List!Next, List!WithdrawAll
  <2> QED
    BY <1>0, <2>1, <2>2, <2>3, <2>4 DEF SaveReady
<1> QED
  BY <1>0, <1>1, <1>2, <1>3 DEF Save, Applied

\* auth.service.js, User.js: although register, login, refresh and logout work
\* on copies of the token list, the list changes as if each were one step.
THEOREM ListImplemented == Spec => ImplementsTokenList
<1>1. Init => List!Init
  BY DEF Init, List!Init
<1>2. CopiesCurrent /\ [Next]_vars => [List!Next]_tokens
  <2> SUFFICES ASSUME CopiesCurrent, [Next]_vars
               PROVE  List!Next \/ UNCHANGED tokens
    OBVIOUS
  <2>1. CASE \E r \in Slots : Save(r)
    BY <2>1, SaveMaps
  <2>2. CASE ~ \E r \in Slots : Save(r)
    BY <2>2 DEF Next, vars, CheckEmail, CreateAccount, LoadAccount, FindByEmail,
       ComparePassword, FindForRefresh, FindForLogout, LogoutWithoutToken, Fail, Tick
  <2> QED
    BY <2>1, <2>2
<1> QED
  BY <1>1, <1>2, InitCopies, NextCopies, PTL DEF Spec, ImplementsTokenList, List!Spec

-----------------------------------------------------------------------------
(* Types. *)

\* slice(-Limit) of a list.
LEMMA NewestSays ==
    ASSUME NEW S, NEW s \in Seq(S)
    PROVE  /\ Newest(s) \in Seq(S)
           /\ Len(Newest(s)) <= Len(s) /\ Len(Newest(s)) <= Limit
           /\ ToSet(Newest(s)) \subseteq ToSet(s)
<1>1. Limit \in Nat /\ Len(s) \in Nat /\ DOMAIN s = 1..Len(s)
  BY AuthAssumption
<1>2. CASE Len(s) <= Limit
  BY <1>1, <1>2 DEF Newest
<1>3. CASE Len(s) > Limit
  <2> DEFINE d == Len(s) - Limit
  <2>1. d \in Nat /\ d < Len(s)
    BY <1>1, <1>3, AuthAssumption
  <2>2. Newest(s) = SubSeq(s, d + 1, Len(s))
    BY <1>3 DEF Newest
  <2>3. /\ SubSeq(s, d + 1, Len(s)) \in Seq(S)
        /\ Len(SubSeq(s, d + 1, Len(s))) = Limit
        /\ \A i \in 1..Limit : SubSeq(s, d + 1, Len(s))[i] = s[d + i]
    BY <1>1, <2>1
  <2>4. \A i \in 1..Limit : d + i \in DOMAIN s
    BY <1>1, <2>1
  <2>5. ToSet(Newest(s)) \subseteq ToSet(s)
    BY <2>2, <2>3, <2>4 DEF ToSet
  <2> QED
    BY <1>1, <1>3, <2>2, <2>3, <2>5
<1> QED
  BY <1>1, <1>2, <1>3

\* Appending a token.
LEMMA AppendSays ==
    ASSUME NEW S, NEW s \in Seq(S), NEW x \in S
    PROVE  /\ Append(s, x) \in Seq(S)
           /\ Len(Append(s, x)) = Len(s) + 1
           /\ ToSet(Append(s, x)) = ToSet(s) \cup {x}
<1>1. /\ Append(s, x) \in Seq(S) /\ Len(Append(s, x)) = Len(s) + 1
      /\ Append(s, x)[Len(s) + 1] = x
      /\ \A i \in 1..Len(s) : Append(s, x)[i] = s[i]
  OBVIOUS
<1>2. DOMAIN s = 1..Len(s) /\ DOMAIN Append(s, x) = 1..(Len(s) + 1) /\ Len(s) \in Nat
  BY <1>1
<1>3. \A i \in 1..(Len(s) + 1) : i \in 1..Len(s) \/ i = Len(s) + 1
  BY <1>2
<1> QED
  BY <1>1, <1>2, <1>3 DEF ToSet

\* What a request would replace the list by: it adds no token but its own and,
\* unless it only pushes, makes the list no longer than its copy.
LEMMA ChangedSays ==
    ASSUME NEW q, SaveReady(q), q.copy \in Seq(Tokens)
    PROVE  /\ Changed(q) \in Seq(Tokens)
           /\ ToSet(Changed(q)) \subseteq ToSet(q.copy) \cup ({q.new} \ {NoToken})
           /\ ~Appends(q) => Len(Changed(q)) <= Len(q.copy)
<1>0. Limit \in Nat /\ Len(q.copy) \in Nat /\ \A t \in Tokens : t # NoToken
  BY AuthAssumption DEF Tokens, NoToken
<1>1. CASE q.op \in {"login", "register"}
  <2>1. q.new \in Tokens /\ Changed(q) = Newest(Append(q.copy, q.new))
    BY <1>1 DEF SaveReady, Changed
  <2>2. ~Appends(q) => Limit <= Len(q.copy)
    BY <1>0, <1>1 DEF Appends
  <2>3. /\ Append(q.copy, q.new) \in Seq(Tokens)
        /\ ToSet(Append(q.copy, q.new)) = ToSet(q.copy) \cup {q.new}
    BY <2>1, AppendSays
  <2>4. /\ Changed(q) \in Seq(Tokens) /\ Len(Changed(q)) <= Limit
        /\ ToSet(Changed(q)) \subseteq ToSet(q.copy) \cup {q.new}
    BY <2>1, <2>3, NewestSays
  <2> QED
    BY <1>0, <2>1, <2>2, <2>4
<1>2. CASE q.op = "refresh"
  <2> DEFINE rest == Without(q.copy, q.old)
  <2>1. /\ q.new \in Tokens /\ Changed(q) = Newest(Append(rest, q.new))
        /\ Contains(q.copy, q.old)
    BY <1>2 DEF SaveReady, Changed
  <2>2. rest \in Seq(Tokens) /\ Len(rest) < Len(q.copy) /\ ToSet(rest) \subseteq ToSet(q.copy)
    BY <2>1, WithoutSays
  <2> HIDE DEF rest
  <2>3. /\ Append(rest, q.new) \in Seq(Tokens) /\ Len(Append(rest, q.new)) = Len(rest) + 1
        /\ ToSet(Append(rest, q.new)) = ToSet(rest) \cup {q.new}
    BY <2>1, <2>2, AppendSays
  <2>4. /\ Changed(q) \in Seq(Tokens) /\ Len(Changed(q)) <= Len(rest) + 1
        /\ ToSet(Changed(q)) \subseteq ToSet(rest) \cup {q.new}
    BY <2>1, <2>3, NewestSays
  <2>5. Len(Changed(q)) <= Len(q.copy)
    BY <1>0, <2>2, <2>4
  <2> QED
    BY <1>0, <2>1, <2>2, <2>4, <2>5
<1>3. CASE q.op = "logout"
  BY <1>3, WithoutSays DEF Changed
<1>4. CASE q.op = "revoke"
  BY <1>0, <1>4 DEF Changed, ToSet
<1> QED
  BY <1>1, <1>2, <1>3, <1>4 DEF SaveReady

\* What an applied save leaves behind.
LEMMA AppliedTyped ==
    ASSUME TypeOK, NEW r \in Slots, NEW list \in Seq(Tokens), Applied(r, list),
           requests[r].new \in Tokens \cup {NoToken}
    PROVE  TypeOK'
<1>1. ToSet(tokens) \subseteq Tokens /\ ToSet(list) \subseteq Tokens
  BY DEF TypeOK, ToSet
<1>2. {requests[r].new} \ {NoToken} \subseteq Tokens
  OBVIOUS
<1>3. ASSUME NEW x \in Slots
      PROVE  Overtaken(requests[x]) \in Request \cup {Idle}
  <2>1. requests[x] \in Request \cup {Idle}
    BY DEF TypeOK
  <2> QED
    BY <2>1 DEF Overtaken, Request
<1>4. requests' \in [Slots -> Request \cup {Idle}]
  BY <1>3 DEF Applied
<1>5. tokens' = list /\ now' = now /\ account' = account
  BY DEF Applied
<1>6. issued' \subseteq Tokens /\ retired' \subseteq Tokens /\ twins' \subseteq Tokens
  BY <1>1, <1>2 DEF Applied, TypeOK
<1> QED
  BY <1>4, <1>5, <1>6 DEF TypeOK

\* One request, and possibly the account, has moved on.
Moved(r, q) ==
    /\ requests' = [requests EXCEPT ![r] = q]
    /\ account' \in {"none", "user"}
    /\ UNCHANGED <<now, tokens, issued, history>>

\* What a register or login request can become: the copy is the list itself,
\* or the one the request has had since it compared the password.
PushMove(r, q) ==
    \/ q = Idle
    \/ /\ q \in Request
       /\ q.op \in {"register", "login"}
       /\ \/ q.pc \in {"create", "load"}
          \/ q.copy = tokens
          \/ requests[r].pc = "compare" /\ q.copy = requests[r].copy

\* What a refresh or logout request can become.
PullMove(q) ==
    \/ q = Idle
    \/ q \in Request /\ q.op \in {"refresh", "revoke", "logout"}

\* A request that has loaded its account is one of the requests.
LEMMA LoadedTyped ==
    ASSUME TypeOK, NEW op \in {"register", "login", "refresh", "revoke", "logout"},
           NEW pc \in {"load", "compare", "save"},
           NEW old \in Tokens \cup {NoToken}, NEW new \in Tokens \cup {NoToken}
    PROVE  /\ Loaded(op, pc, old, new) \in Request
           /\ Loaded(op, pc, old, new).op = op
           /\ Loaded(op, pc, old, new).copy = tokens
BY DEF TypeOK, Loaded, Request

\* A request that is not idle has its fields.
LEMMA RequestTyped ==
    ASSUME TypeOK, NEW r \in Slots, requests[r].pc # "idle"
    PROVE  requests[r] \in Request
BY DEF TypeOK, Idle

\* The first steps of a login or a registration change its own request only.
LEMMA LoginSteps ==
    ASSUME CopiesCurrent, TypeOK, NEW r \in Logins,
           \/ CheckEmail(r) \/ CreateAccount(r) \/ LoadAccount(r)
           \/ FindByEmail(r) \/ ComparePassword(r)
    PROVE  \E q : Moved(r, q) /\ PushMove(r, q)
<1>0. r \in Slots /\ account \in {"none", "user"} /\ now \in Tokens
  BY DEF Slots, TypeOK
<1>1. RequestOK(requests[r])
  BY <1>0 DEF CopiesCurrent
<1>2. CASE Answer(r)
  <2>1. Moved(r, Idle)
    BY <1>0, <1>2 DEF Answer, Moved, CheckEmail, CreateAccount, LoadAccount, FindByEmail, ComparePassword
  <2> QED
    BY <2>1 DEF PushMove
<1>3. CASE ~Answer(r) /\ CheckEmail(r)
  <2> DEFINE q == [op |-> "register", pc |-> "create", old |-> NoToken,
                   new |-> NoToken, copy |-> <<>>, current |-> FALSE]
  <2>1. q \in Request
    BY DEF Request
  <2>2. Moved(r, q)
    BY <1>0, <1>3 DEF CheckEmail, Moved
  <2> QED
    BY <2>1, <2>2 DEF PushMove
<1>4. CASE ~Answer(r) /\ CreateAccount(r)
  <2> DEFINE q == [requests[r] EXCEPT !.pc = "load", !.new = now]
  <2>1. requests[r] \in Request /\ requests[r].op = "register"
    BY <1>0, <1>1, <1>4, RequestTyped DEF CreateAccount, RequestOK, Idle
  <2>2. q \in Request /\ q.op = "register" /\ q.pc = "load"
    BY <1>0, <2>1 DEF Request
  <2>3. Moved(r, q)
    BY <1>0, <1>4 DEF CreateAccount, Moved, TypeOK
  <2> QED
    BY <2>2, <2>3 DEF PushMove
<1>5. CASE LoadAccount(r)
  <2>1. requests[r].new \in Tokens
    BY <1>1, <1>5 DEF LoadAccount, RequestOK, Idle
  <2> DEFINE q == Loaded("register", "save", NoToken, requests[r].new)
  <2>2. q \in Request /\ q.op = "register" /\ q.copy = tokens
    BY <2>1, LoadedTyped
  <2>3. Moved(r, q)
    BY <1>0, <1>5 DEF LoadAccount, Moved
  <2> QED
    BY <2>2, <2>3 DEF PushMove
<1>6. CASE ~Answer(r) /\ FindByEmail(r)
  <2> DEFINE q == Loaded("login", "compare", NoToken, NoToken)
  <2>1. q \in Request /\ q.op = "login" /\ q.copy = tokens
    BY LoadedTyped
  <2>2. Moved(r, q)
    BY <1>0, <1>6 DEF FindByEmail, Moved
  <2> QED
    BY <2>1, <2>2 DEF PushMove
<1>7. CASE ~Answer(r) /\ ComparePassword(r)
  <2> DEFINE q == [requests[r] EXCEPT !.pc = "save", !.new = now]
  <2>1. requests[r] \in Request /\ requests[r].op = "login" /\ requests[r].pc = "compare"
    BY <1>0, <1>1, <1>7, RequestTyped DEF ComparePassword, RequestOK, Idle
  <2>2. q \in Request /\ q.op = "login" /\ q.copy = requests[r].copy
    BY <1>0, <2>1 DEF Request
  <2>3. Moved(r, q)
    BY <1>0, <1>7 DEF ComparePassword, Moved, TypeOK
  <2> QED
    BY <2>1, <2>2, <2>3 DEF PushMove
<1> QED
  BY <1>2, <1>3, <1>4, <1>5, <1>6, <1>7

\* So do those of a refresh or a logout.
LEMMA SessionSteps ==
    ASSUME CopiesCurrent, TypeOK, NEW r \in Sessions,
           \/ \E t \in issued : FindForRefresh(r, t) \/ FindForLogout(r, t)
           \/ LogoutWithoutToken(r)
    PROVE  \E q : Moved(r, q) /\ PullMove(q)
<1>0. r \in Slots /\ account \in {"none", "user"} /\ now \in Tokens
  BY DEF Slots, TypeOK
<1>1. CASE Answer(r)
  <2>1. Moved(r, Idle)
    BY <1>0, <1>1 DEF Answer, Moved, FindForRefresh, FindForLogout, LogoutWithoutToken
  <2> QED
    BY <2>1 DEF PullMove
<1>2. ASSUME NEW t \in issued, ~Answer(r), FindForRefresh(r, t)
      PROVE  \E q : Moved(r, q) /\ PullMove(q)
  <2> DEFINE revoke == Loaded("revoke", "save", t, NoToken)
             refresh == Loaded("refresh", "save", t, now)
  <2>1. t \in Tokens
    BY DEF TypeOK
  <2>2. PullMove(revoke) /\ PullMove(refresh)
    BY <1>0, <2>1, LoadedTyped DEF PullMove
  <2>3. Moved(r, revoke) \/ Moved(r, refresh)
    BY <1>0, <1>2 DEF FindForRefresh, Moved
  <2> QED
    BY <2>2, <2>3
<1>3. ASSUME NEW t \in issued, ~Answer(r), FindForLogout(r, t)
      PROVE  \E q : Moved(r, q) /\ PullMove(q)
  <2> DEFINE logout == Loaded("logout", "save", t, NoToken)
  <2>1. t \in Tokens
    BY DEF TypeOK
  <2>2. PullMove(logout)
    BY <2>1, LoadedTyped DEF PullMove
  <2>3. Moved(r, logout)
    BY <1>0, <1>3 DEF FindForLogout, Moved
  <2> QED
    BY <2>2, <2>3
<1>4. LogoutWithoutToken(r) => Answer(r)
  BY DEF LogoutWithoutToken
<1> QED
  BY <1>1, <1>2, <1>3, <1>4

\* Every step moves one request, applies one save, or only lets time pass.
LEMMA StepKinds ==
    ASSUME CopiesCurrent, TypeOK, [Next]_vars
    PROVE  \/ \E r \in Logins : \E q : Moved(r, q) /\ PushMove(r, q)
           \/ \E r \in Sessions : \E q : Moved(r, q) /\ PullMove(q)
           \/ \E r \in Slots :
                 /\ requests[r].pc = "save"
                 /\ \/ Appends(requests[r]) /\ Applied(r, Append(tokens, requests[r].new))
                    \/ /\ ~Appends(requests[r]) /\ requests[r].current
                       /\ Applied(r, Changed(requests[r]))
           \/ /\ now' \in {now, now + 1} /\ now' \in Tokens
              /\ UNCHANGED <<account, tokens, requests, issued, history>>
<1>0. now \in Tokens /\ account \in {"none", "user"}
  BY DEF TypeOK
<1>1. ASSUME NEW r \in Slots, Answer(r), UNCHANGED <<now, account, tokens, issued, history>>
      PROVE  \/ \E s \in Logins : \E q : Moved(s, q) /\ PushMove(s, q)
             \/ \E s \in Sessions : \E q : Moved(s, q) /\ PullMove(q)
  <2>1. Moved(r, Idle) /\ PushMove(r, Idle) /\ PullMove(Idle)
    BY <1>0, <1>1 DEF Answer, Moved, PushMove, PullMove
  <2> QED
    BY <2>1 DEF Slots
<1>2. CASE Tick
  BY <1>0, <1>2, AuthAssumption DEF Tick, Tokens
<1>3. CASE UNCHANGED vars
  BY <1>0, <1>3 DEF vars, history
<1>4. ASSUME NEW r \in Slots, Save(r)
      PROVE  \/ /\ requests[r].pc = "save"
                /\ \/ Appends(requests[r]) /\ Applied(r, Append(tokens, requests[r].new))
                   \/ /\ ~Appends(requests[r]) /\ requests[r].current
                      /\ Applied(r, Changed(requests[r]))
             \/ Answer(r) /\ UNCHANGED <<now, account, tokens, issued, history>>
  BY <1>4 DEF Save
<1>5. ASSUME NEW r \in Slots, Fail(r)
      PROVE  Answer(r) /\ UNCHANGED <<now, account, tokens, issued, history>>
  BY <1>5 DEF Fail
<1>6. \/ \E r \in Logins :
            CheckEmail(r) \/ CreateAccount(r) \/ LoadAccount(r)
              \/ FindByEmail(r) \/ ComparePassword(r)
      \/ \E r \in Sessions :
            \/ \E t \in issued : FindForRefresh(r, t) \/ FindForLogout(r, t)
            \/ LogoutWithoutToken(r)
      \/ \E r \in Slots : Save(r)
      \/ \E r \in Slots : Fail(r)
      \/ Tick
      \/ UNCHANGED vars
  BY DEF Next
<1> QED
  BY <1>1, <1>2, <1>3, <1>4, <1>5, <1>6, LoginSteps, SessionSteps

\* A save that is applied replaces the list by one that is typed, holds no
\* token but the listed ones and its own and, unless it only pushed, is no
\* longer.
LEMMA AppliedSays ==
    ASSUME CopiesCurrent, TypeOK, NEW r \in Slots, requests[r].pc = "save",
           \/ Appends(requests[r]) /\ Applied(r, Append(tokens, requests[r].new))
           \/ /\ ~Appends(requests[r]) /\ requests[r].current
              /\ Applied(r, Changed(requests[r]))
    PROVE  \E list \in Seq(Tokens) :
              /\ Applied(r, list)
              /\ requests[r].new \in Tokens \cup {NoToken}
              /\ ToSet(list) \subseteq ToSet(tokens) \cup ({requests[r].new} \ {NoToken})
              /\ \/ Appends(requests[r]) /\ Len(list) = Len(tokens) + 1
                 \/ Len(list) <= Len(tokens)
<1> DEFINE q == requests[r]
<1>1. SaveReady(q) /\ (q.current => q.copy = tokens)
  BY DEF CopiesCurrent, RequestOK, Idle
<1>2. tokens \in Seq(Tokens) /\ q.new \in Tokens \cup {NoToken} /\ NoToken \notin Tokens
  BY <1>1 DEF TypeOK, SaveReady, Tokens, NoToken
<1>3. CASE Appends(q) /\ Applied(r, Append(tokens, q.new))
  <2>1. q.new \in Tokens
    BY <1>1, <1>3 DEF SaveReady, Appends
  <2>2. /\ Append(tokens, q.new) \in Seq(Tokens)
        /\ Len(Append(tokens, q.new)) = Len(tokens) + 1
        /\ ToSet(Append(tokens, q.new)) = ToSet(tokens) \cup {q.new}
    BY <1>2, <2>1, AppendSays
  <2> QED
    BY <1>2, <1>3, <2>1, <2>2
<1>4. CASE ~Appends(q) /\ q.current /\ Applied(r, Changed(q))
  <2>1. q.copy = tokens
    BY <1>1, <1>4
  <2>2. /\ Changed(q) \in Seq(Tokens)
        /\ ToSet(Changed(q)) \subseteq ToSet(tokens) \cup ({q.new} \ {NoToken})
        /\ Len(Changed(q)) <= Len(tokens)
    BY <1>1, <1>2, <1>4, <2>1, ChangedSays
  <2> QED
    BY <1>2, <1>4, <2>2
<1> QED
  BY <1>3, <1>4

\* At the start no list holds a token.
LEMMA InitTyped == Init => TypeOK
BY AuthAssumption DEF Init, TypeOK, Tokens

\* Every step keeps the types.
LEMMA NextTyped == CopiesCurrent /\ TypeOK /\ [Next]_vars => TypeOK'
<1> SUFFICES ASSUME CopiesCurrent, TypeOK, [Next]_vars PROVE TypeOK'
  OBVIOUS
<1>1. ASSUME NEW r \in Slots, NEW q \in Request \cup {Idle}, Moved(r, q)
      PROVE  TypeOK'
  <2>1. requests' \in [Slots -> Request \cup {Idle}]
    BY <1>1 DEF Moved, TypeOK
  <2> QED
    BY <1>1, <2>1 DEF Moved, TypeOK, history
<1>2. CASE \E r \in Logins : \E q : Moved(r, q) /\ PushMove(r, q)
  BY <1>1, <1>2 DEF PushMove, Slots
<1>3. CASE \E r \in Sessions : \E q : Moved(r, q) /\ PullMove(q)
  BY <1>1, <1>3 DEF PullMove, Slots
<1>4. ASSUME NEW r \in Slots, requests[r].pc = "save",
             \/ Appends(requests[r]) /\ Applied(r, Append(tokens, requests[r].new))
             \/ /\ ~Appends(requests[r]) /\ requests[r].current
                /\ Applied(r, Changed(requests[r]))
      PROVE  TypeOK'
  BY <1>4, AppliedSays, AppliedTyped
<1>5. CASE now' \in Tokens /\ UNCHANGED <<account, tokens, requests, issued, history>>
  BY <1>5 DEF TypeOK, history
<1> QED
  BY <1>2, <1>3, <1>4, <1>5, StepKinds

\* auth.service.js, User.js: the token list and the requests keep their types.
THEOREM AuthTypes == Spec => []TypeOK
<1>1. CopiesCurrent /\ TypeOK /\ [Next]_vars => (CopiesCurrent /\ TypeOK)'
  BY NextCopies, NextTyped
<1> QED
  BY <1>1, InitCopies, InitTyped, PTL DEF Spec

-----------------------------------------------------------------------------
(* Retired tokens. *)

\* A token that the save brings back is counted among the twins.
LEMMA NextRetired ==
    CopiesCurrent /\ TypeOK /\ RetiredStaysOut /\ [Next]_vars => RetiredStaysOut'
<1> SUFFICES ASSUME CopiesCurrent, TypeOK, RetiredStaysOut, [Next]_vars
             PROVE  RetiredStaysOut'
  OBVIOUS
<1>1. ASSUME NEW r \in Slots, NEW list, Applied(r, list),
             ToSet(list) \subseteq ToSet(tokens) \cup ({requests[r].new} \ {NoToken})
      PROVE  RetiredStaysOut'
  <2> DEFINE added == {requests[r].new} \ {NoToken}
  <2>1. /\ tokens' = list
        /\ retired' = retired \cup (ToSet(tokens) \ ToSet(list))
        /\ twins' = twins \cup (added \cap (retired \cup ToSet(tokens)))
    BY <1>1 DEF Applied
  <2>2. ASSUME NEW t \in retired', t \in ToSet(list)
        PROVE  t \in twins'
    <3>1. t \in retired
      BY <2>1, <2>2
    <3>2. CASE t \in ToSet(tokens)
      BY <2>1, <3>1, <3>2 DEF RetiredStaysOut
    <3>3. CASE t \in added
      BY <2>1, <3>1, <3>3
    <3> QED
      BY <1>1, <2>2, <3>2, <3>3
  <2>3. retired' \cap ToSet(list) \subseteq twins'
    BY <2>2
  <2> QED
    BY <2>1, <2>3 DEF RetiredStaysOut
<1>2. CASE UNCHANGED <<tokens, history>>
  BY <1>2 DEF RetiredStaysOut, history
<1> QED
  BY <1>1, <1>2, StepKinds, AppliedSays DEF Moved

\* auth.service.js, User.js: a save of a stale copy never brings a token back.
THEOREM RetiredTokensStayOut == Spec => []RetiredStaysOut
<1>1. Init => RetiredStaysOut
  BY DEF Init, RetiredStaysOut
<1>2. CopiesCurrent /\ TypeOK /\ RetiredStaysOut /\ [Next]_vars
        => (CopiesCurrent /\ TypeOK /\ RetiredStaysOut)'
  BY NextCopies, NextTyped, NextRetired
<1> QED
  BY <1>1, <1>2, InitCopies, InitTyped, PTL DEF Spec

-----------------------------------------------------------------------------
(* The length of the list. *)

\* The requests of logins are registers and logins, those of sessions are not.
RightSlots ==
    \A r \in Slots :
        requests[r] # Idle =>
            (r \in Logins <=> requests[r].op \in {"register", "login"})

\* The logins whose copy has room, which will not trim the list.
Pushing ==
    {r \in Logins : /\ requests[r].pc \in {"compare", "save"}
                    /\ Len(requests[r].copy) < Limit}

\* There is room for all of them.  When the first one reads, the list is below
\* the limit, and it is as long as the limit only after one of them has saved.
RoomLeft == Len(tokens) + Cardinality(Pushing) < Limit + Cardinality(Logins)

LoginsInv == CopiesCurrent /\ TypeOK /\ RightSlots /\ RoomLeft

\* The logins that are about to push a token are finitely many.
LEMMA PushingFinite ==
    /\ IsFiniteSet(Pushing) /\ Cardinality(Pushing) \in Nat
    /\ Cardinality(Pushing) <= Cardinality(Logins) /\ Cardinality(Logins) \in Nat
<1>1. Pushing \in SUBSET Logins /\ IsFiniteSet(Logins)
  BY AuthAssumption DEF Pushing
<1> QED
  BY <1>1, FS_Subset, FS_CardinalityType

\* Room is kept when the list is no longer and no login joins those pushing.
LEMMA RoomKept ==
    ASSUME TypeOK, TypeOK', RoomLeft, Pushing' \subseteq Pushing,
           Len(tokens') <= Len(tokens)
    PROVE  RoomLeft'
<1>1. /\ Cardinality(Pushing') <= Cardinality(Pushing)
      /\ Cardinality(Pushing') \in Nat /\ Cardinality(Pushing) \in Nat
      /\ Cardinality(Logins) \in Nat
  BY PushingFinite, FS_Subset, FS_CardinalityType
<1>2. Len(tokens) \in Nat /\ Len(tokens') \in Nat /\ Limit \in Nat
  BY AuthAssumption DEF TypeOK
<1> QED
  BY <1>1, <1>2 DEF RoomLeft

\* A login that reads the list joins those pushing only if there is room.
LEMMA RoomOnPush ==
    ASSUME LoginsInv, TypeOK', NEW r \in Logins, NEW q, Moved(r, q), PushMove(r, q)
    PROVE  RoomLeft'
<1>1. r \in Slots /\ requests' = [requests EXCEPT ![r] = q] /\ tokens' = tokens
  BY DEF Slots, Moved
<1>2. \A x \in Slots : requests'[x] = IF x = r THEN q ELSE requests[x]
  BY <1>1 DEF LoginsInv, TypeOK
<1>3. \A x \in Logins : x \in Slots
  BY DEF Slots
<1>4. CASE q = Idle \/ q.pc \in {"create", "load"}
           \/ (requests[r].pc = "compare" /\ q.copy = requests[r].copy)
  <2>1. Pushing' \subseteq Pushing
    BY <1>2, <1>3, <1>4 DEF Pushing, Idle
  <2> QED
    BY <1>1, <2>1, RoomKept DEF LoginsInv, TypeOK
<1>5. CASE q.copy = tokens /\ Len(tokens) >= Limit
  <2>1. Pushing' \subseteq Pushing
    BY <1>2, <1>3, <1>5, AuthAssumption DEF Pushing, LoginsInv, TypeOK
  <2> QED
    BY <1>1, <2>1, RoomKept DEF LoginsInv, TypeOK
<1>6. CASE Len(tokens) < Limit
  <2>1. Pushing' \in SUBSET Logins /\ IsFiniteSet(Logins)
    BY AuthAssumption DEF Pushing
  <2>2. /\ Cardinality(Pushing') <= Cardinality(Logins)
        /\ Cardinality(Pushing') \in Nat /\ Cardinality(Logins) \in Nat
    BY <2>1, FS_Subset, FS_CardinalityType
  <2>3. Len(tokens) \in Nat /\ Limit \in Nat
    BY AuthAssumption DEF LoginsInv, TypeOK
  <2> QED
    BY <1>1, <1>6, <2>2, <2>3 DEF RoomLeft
<1>7. Len(tokens) \in Nat /\ Limit \in Nat
  BY AuthAssumption DEF LoginsInv, TypeOK
<1> QED
  BY <1>4, <1>5, <1>6, <1>7 DEF PushMove

\* A login that has pushed its token has left those pushing.
LEMMA RoomOnSave ==
    ASSUME LoginsInv, TypeOK', NEW r \in Slots, requests[r].pc = "save",
           \/ Appends(requests[r]) /\ Applied(r, Append(tokens, requests[r].new))
           \/ /\ ~Appends(requests[r]) /\ requests[r].current
              /\ Applied(r, Changed(requests[r]))
    PROVE  RightSlots' /\ RoomLeft'
<1>0. PICK list \in Seq(Tokens) :
              /\ Applied(r, list)
              /\ \/ Appends(requests[r]) /\ Len(list) = Len(tokens) + 1
                 \/ Len(list) <= Len(tokens)
  BY AppliedSays DEF LoginsInv
<1>1. /\ tokens' = list
      /\ requests' = [x \in Slots |-> IF x = r THEN Idle ELSE Overtaken(requests[x])]
  BY <1>0 DEF Applied
<1>2. ASSUME NEW x \in Slots
      PROVE  /\ requests'[x].pc \in {"idle", requests[x].pc}
             /\ requests'[x] # Idle => /\ requests[x] # Idle
                                       /\ requests'[x].op = requests[x].op
                                       /\ requests'[x].copy = requests[x].copy
  <2>1. requests[x] \in Request \cup {Idle}
    BY DEF LoginsInv, TypeOK
  <2> QED
    BY <1>1, <2>1 DEF Overtaken, Idle, Request
<1>3. RightSlots'
  BY <1>2 DEF LoginsInv, RightSlots
<1>4. Pushing' \subseteq Pushing \ {r}
  <2>1. ASSUME NEW x \in Pushing' PROVE x \in Pushing \ {r}
    <3>1. x \in Slots /\ x \in Logins /\ requests'[x].pc \in {"compare", "save"}
          /\ Len(requests'[x].copy) < Limit
      BY <2>1 DEF Pushing, Slots
    <3>2. requests'[x] # Idle
      BY <3>1 DEF Idle
    <3>3. x # r
      BY <1>1, <3>2
    <3>4. requests'[x].pc = requests[x].pc /\ requests'[x].copy = requests[x].copy
      BY <1>2, <3>1, <3>2
    <3> QED
      BY <3>1, <3>3, <3>4 DEF Pushing
  <2> QED
    BY <2>1
<1>5. CASE Len(list) <= Len(tokens)
  BY <1>1, <1>3, <1>4, <1>5, RoomKept DEF LoginsInv
<1>6. CASE Appends(requests[r]) /\ Len(list) = Len(tokens) + 1
  <2>1. requests[r] # Idle
    BY DEF Idle
  <2>2. r \in Logins
    BY <1>6, <2>1 DEF LoginsInv, RightSlots, Appends
  <2>3. r \in Pushing
    BY <1>6, <2>2 DEF Appends, Pushing
  <2>4. /\ IsFiniteSet(Pushing \ {r})
        /\ Cardinality(Pushing \ {r}) = Cardinality(Pushing) - 1
    BY <2>3, PushingFinite, FS_RemoveElement
  <2>5. Cardinality(Pushing') <= Cardinality(Pushing) - 1 /\ Cardinality(Pushing') \in Nat
    BY <1>4, <2>4, FS_Subset, FS_CardinalityType
  <2>6. /\ Len(tokens) \in Nat /\ Limit \in Nat
        /\ Cardinality(Pushing) \in Nat /\ Cardinality(Logins) \in Nat
    BY AuthAssumption, PushingFinite DEF LoginsInv, TypeOK
  <2> QED
    BY <1>1, <1>3, <1>6, <2>5, <2>6 DEF LoginsInv, RoomLeft
<1> QED
  BY <1>0, <1>3, <1>5, <1>6

\* A request that moves stays one of its slot's.
LEMMA SlotKept ==
    ASSUME LoginsInv, NEW r \in Slots, NEW q, Moved(r, q),
           q # Idle => (r \in Logins <=> q.op \in {"register", "login"})
    PROVE  RightSlots'
BY DEF Moved, LoginsInv, TypeOK, RightSlots

\* Every step leaves room for the logins that have not pushed yet.
LEMMA NextRoom == LoginsInv /\ [Next]_vars => LoginsInv'
<1> SUFFICES ASSUME LoginsInv, [Next]_vars PROVE RightSlots' /\ RoomLeft'
  BY NextCopies, NextTyped DEF LoginsInv
<1>0. TypeOK' /\ tokens \in Seq(Tokens) /\ Len(tokens) \in Nat
  BY NextTyped DEF LoginsInv, TypeOK
<1>1. ASSUME NEW r \in Logins, NEW q, Moved(r, q), PushMove(r, q)
      PROVE  RightSlots' /\ RoomLeft'
  <2>1. RoomLeft'
    BY <1>0, <1>1, RoomOnPush
  <2>2. r \in Slots /\ (q # Idle => q.op \in {"register", "login"})
    BY <1>1 DEF PushMove, Slots
  <2>3. RightSlots'
    BY <1>1, <2>2, SlotKept
  <2> QED
    BY <2>1, <2>3
<1>2. ASSUME NEW r \in Sessions, NEW q, Moved(r, q), PullMove(q)
      PROVE  RightSlots' /\ RoomLeft'
  <2>1. r \in Slots /\ r \notin Logins
    BY AuthAssumption DEF Slots
  <2>2. RightSlots'
    BY <1>2, <2>1, SlotKept DEF PullMove
  <2>3. \A x \in Logins : requests'[x] = requests[x]
    BY <1>2, <2>1 DEF Moved, LoginsInv, TypeOK, Slots
  <2>4. Pushing' \subseteq Pushing
    BY <2>3 DEF Pushing
  <2>5. tokens' = tokens
    BY <1>2 DEF Moved
  <2> QED
    BY <1>0, <2>2, <2>4, <2>5, RoomKept DEF LoginsInv
<1>3. ASSUME NEW r \in Slots, requests[r].pc = "save",
             \/ Appends(requests[r]) /\ Applied(r, Append(tokens, requests[r].new))
             \/ /\ ~Appends(requests[r]) /\ requests[r].current
                /\ Applied(r, Changed(requests[r]))
      PROVE  RightSlots' /\ RoomLeft'
  BY <1>0, <1>3, RoomOnSave
<1>4. CASE UNCHANGED <<account, tokens, requests, issued, history>>
  BY <1>4 DEF LoginsInv, RightSlots, RoomLeft, Pushing
<1>5. CopiesCurrent /\ TypeOK
  BY DEF LoginsInv
<1> QED
  BY <1>1, <1>2, <1>3, <1>4, <1>5, StepKinds

\* At the start there is room for all of them.
LEMMA InitRoom == Init => LoginsInv
<1> SUFFICES ASSUME Init PROVE LoginsInv
  OBVIOUS
<1>1. Pushing = {}
  BY DEF Init, Pushing, Idle, Slots
<1>2. Cardinality(Pushing) = 0 /\ Len(tokens) = 0 /\ Cardinality(Logins) \in Nat
  BY <1>1, FS_EmptySet, PushingFinite DEF Init
<1>3. RoomLeft
  BY <1>2, AuthAssumption DEF RoomLeft
<1>4. RightSlots
  BY DEF Init, RightSlots
<1> QED
  BY <1>3, <1>4, InitCopies, InitTyped DEF LoginsInv

\* auth.service.js, User.js: concurrent logins exceed the limit, but never by
\* more than there are of them beyond the first.
THEOREM ListNeverLonger == Spec => []ListBounded
<1>1. LoginsInv => ListBounded
  <2> SUFFICES ASSUME LoginsInv PROVE ListBounded
    OBVIOUS
  <2>1. Len(tokens) \in Nat /\ Limit \in Nat
    BY AuthAssumption DEF LoginsInv, TypeOK
  <2> QED
    BY <2>1, PushingFinite DEF LoginsInv, RoomLeft, ListBounded
<1> QED
  BY <1>1, InitRoom, NextRoom, PTL DEF Spec
=============================================================================

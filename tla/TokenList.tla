------------------------------ MODULE TokenList ------------------------------
(***************************************************************************)
(* What the authentication service promises of one account's refresh      *)
(* tokens: a list on which every operation is a single step.  There are no *)
(* requests, no copies of the list and no versions here.                   *)
(***************************************************************************)
EXTENDS Integers, SequencesExt, Lists

CONSTANTS
    Tokens,   \* refresh tokens
    Limit     \* how many of them an operation that trims the list keeps

VARIABLE list    \* the tokens that may be exchanged, oldest first

Newest(s) == IF Len(s) > Limit THEN SubSeq(s, Len(s) - Limit + 1, Len(s)) ELSE s

Init == list = <<>>

\* A login adds a token; it may or may not trim the list.
Grant(t) == list' \in {Append(list, t), Newest(Append(list, t))}

\* A refresh replaces a token of the list by the one it issues.  Within a second
\* that is the same token again, which is then listed as before.
Exchange(old, t) ==
    /\ Contains(list, old)
    /\ list' = Newest(Append(Without(list, old), t))

\* A logout.
Withdraw(t) == list' = Without(list, t)

\* The answer to a token that is not in the list.
WithdrawAll == list' = <<>>

Next ==
    \/ \E t \in Tokens : Grant(t) \/ Withdraw(t)
    \/ \E old, t \in Tokens : Exchange(old, t)
    \/ WithdrawAll

Spec == Init /\ [][Next]_list
=============================================================================

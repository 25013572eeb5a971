----------------------------- MODULE RequestBook -----------------------------
(***************************************************************************)
(* What the frontend promises of the requests its pages make: a request is *)
(* run by the API at most once and its page learns how that run went.      *)
(* There are no tokens, no refresh and no queue here.                      *)
(***************************************************************************)
CONSTANT Calls

VARIABLES
    page,   \* what the page knows of a call: new, waiting, ok, error or gone
    ran     \* what the API has done for it: nothing, ok or failed

vars == <<page, ran>>

Init ==
    /\ page = [c \in Calls |-> "new"]
    /\ ran = [c \in Calls |-> "nothing"]

Begin(c) ==
    /\ page[c] = "new"
    /\ page' = [page EXCEPT ![c] = "waiting"]
    /\ UNCHANGED ran

\* The only time the API runs c.
Run(c) ==
    /\ page[c] \in {"waiting", "gone"}
    /\ ran[c] = "nothing"
    /\ \E r \in {"ok", "failed"} : ran' = [ran EXCEPT ![c] = r]
    /\ UNCHANGED page

\* The page learns of a success if and only if the API reported one.
Settle(S) ==
    /\ \A c \in S : page[c] = "waiting"
    /\ page' = [c \in Calls |-> IF c \notin S THEN page[c]
                                ELSE IF ran[c] = "ok" THEN "ok" ELSE "error"]
    /\ UNCHANGED ran

\* The page is reloaded; what it had asked for may still be run.
Leave(S) ==
    /\ \A c \in S : page[c] = "waiting"
    /\ \E b \in SUBSET {c \in Calls : page[c] = "new"} :
          page' = [c \in Calls |-> IF c \in S THEN "gone"
                                   ELSE IF c \in b THEN "waiting" ELSE page[c]]
    /\ UNCHANGED ran

Next ==
    \/ \E c \in Calls : Begin(c) \/ Run(c)
    \/ \E S \in SUBSET Calls : Settle(S) \/ Leave(S)

Spec == Init /\ [][Next]_vars
=============================================================================

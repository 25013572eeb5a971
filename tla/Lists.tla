-------------------------------- MODULE Lists --------------------------------
(***************************************************************************)
(* Array.prototype.filter as the token list uses it.                       *)
(*                                                                         *)
(* Remove of SequencesExt says the same, which MCAuth checks, but by way   *)
(* of an operator that takes an operator, about which nothing is proved.   *)
(***************************************************************************)
EXTENDS Integers, Sequences, FiniteSets

\* s without the elements equal to x, in their order.
Without(s, x) ==
    LET kept == {i \in DOMAIN s : s[i] # x}
        place(i) == Cardinality({j \in kept : j <= i})
    IN  IF kept = DOMAIN s THEN s
        ELSE [k \in 1..Cardinality(kept) |-> s[CHOOSE i \in kept : place(i) = k]]
=============================================================================

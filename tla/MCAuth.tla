-------------------------------- MODULE MCAuth --------------------------------
(* Instances of AuthService for TLC. *)
EXTENDS AuthService

\* Without is Remove of SequencesExt on every short list.
ASSUME WithoutIsRemove ==
    \A n \in 0..4 : \A s \in [1..n -> 1..3], x \in 1..3 : Without(s, x) = Remove(s, x)

\* Identical slots.
Symmetry == Permutations(Logins) \cup Permutations(Sessions)
=============================================================================

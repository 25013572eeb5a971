-------------------------------- MODULE MCHub --------------------------------
(* Instances of EventHub for TLC: identical slots and identifiers. *)
EXTENDS EventHub, TLC

Symmetry ==
    Permutations(Bookings) \cup Permutations(Bookers)
      \cup Permutations(Cancellers) \cup Permutations(Editors)
=============================================================================

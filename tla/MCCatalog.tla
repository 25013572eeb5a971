------------------------------ MODULE MCCatalog ------------------------------
(***************************************************************************)
(* Paging through two events, one of which may be deleted or to which a    *)
(* third may be added.                                                     *)
(***************************************************************************)
EXTENDS Catalog

Ranks == [e \in Events |-> e]
Two == {{1, 2}}
=============================================================================

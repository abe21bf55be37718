----------------------------- MODULE MCSegStore -----------------------------
(***************************************************************************)
(* Small instances of SegStore.  Ids and items are interchangeable: no     *)
(* definition of SegStore orders or names them.                            *)
(***************************************************************************)
EXTENDS SegStoreImplements, SegStoreInvariant, TLC

Symmetry == Permutations(Ids) \cup Permutations(Items)

=============================================================================

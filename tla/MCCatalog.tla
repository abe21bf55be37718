----------------------------- MODULE MCCatalog -----------------------------
(* Small instances of Catalog.                                             *)
EXTENDS Catalog, TLC

Symmetry == Permutations(Ids) \cup Permutations(Items)

=============================================================================

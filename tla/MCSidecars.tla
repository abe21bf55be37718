----------------------------- MODULE MCSidecars -----------------------------
(* Small instances of Sidecars.                                            *)
EXTENDS Sidecars, TLC

Symmetry == Permutations(Ids) \cup Permutations(Items)

=============================================================================

--------------------------- MODULE MCDamagedFiles ---------------------------
(* Ids and payloads can be renamed freely. *)
EXTENDS DamagedFiles, OracleInvariant, TLC

Symmetry == Permutations(Ids) \cup Permutations(Items)

=============================================================================

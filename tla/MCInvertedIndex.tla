-------------------------- MODULE MCInvertedIndex --------------------------
(* Two documents, one term of which is the second one's only. *)
EXTENDS InvertedIndex, TLC

CONSTANTS v, w, x, y

OneAndBoth == v :> {x} @@ w :> {x, y}

Symmetry == Permutations(Ids)

=============================================================================

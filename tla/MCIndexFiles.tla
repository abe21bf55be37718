---------------------------- MODULE MCIndexFiles ----------------------------
(* Two documents, one term of which is the second one's only. *)
EXTENDS IndexFiles, TLC

CONSTANTS a, v, w, x, y

OneAndBoth == v :> {x} @@ w :> {x, y}

=============================================================================

------------------------------- MODULE OpLog -------------------------------
(***************************************************************************)
(* What a log of add and delete records makes of a map, last write wins.   *)
(* A map gives each id the set of its items: one, or none.                 *)
(***************************************************************************)
EXTENDS Integers, Sequences

CONSTANT Deleted   \* the payload of a delete record

\* The first n records of log that are about id i.
Touching(log, n, i) == {k \in 1 .. n : log[k].id = i}

\* The item of id i once the first n records of log ran over its items in base.
After(base, log, n, i) ==
  IF Touching(log, n, i) = {}
    THEN base
    ELSE LET last == CHOOSE k \in Touching(log, n, i) :
                       \A j \in Touching(log, n, i) : j <= k
         IN {log[last].item} \ {Deleted}

=============================================================================

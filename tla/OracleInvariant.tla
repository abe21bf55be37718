--------------------------- MODULE OracleInvariant ---------------------------
(***************************************************************************)
(* The inductive invariant of the store beside its oracle.                 *)
(***************************************************************************)
EXTENDS Oracle, SegStoreInvariant

\* An id with a sealed copy in a catalog, or with any copy in the memory.
SealedIn(c, payloads, i) == \E s \in c.segment_ids : i \in IdsOf(payloads[s])
Held(m, i) == i \in IdsOf(m.buffer) \/ SealedIn(m, m.segments, i)

Adds(op, i) == op.id = i /\ op.item # Deleted

\* No commit is in doubt, no write refused: the oracle knows what was taken.
NothingInDoubt == manifest = prior /\ ~poisoned /\ ~wal_failed

\* The oracle has the map of the manifest, and the operations of its WAL.
OracleInStep ==
  /\ taken = wals[manifest.epoch]
  /\ \A i \in Ids : Unique(i) => ReadsOnOpen(manifest, files, i) = base[i]

\* Where ids are not listed: every copy and every record is of an id that was
\* added.  An id added only once has one record or copies in the manifest, not
\* both, and its record is not replayed over a copy of it.
AddedOnce ==
  ~TracksIds =>
    /\ \A i \in Ids : SealedIn(manifest, files, i) \/ Held(mem, i) => i \in added
    /\ \A i \in Ids, k \in 1 .. Len(taken) : Adds(taken[k], i) =>
         /\ i \in added
         /\ i \notin readded =>
              /\ ~SealedIn(manifest, files, i)
              /\ \A j \in 1 .. Len(taken) : Adds(taken[j], i) => j = k
    /\ phase = "replay" =>
         \A i \in Ids : Held(mem, i) =>
           \/ SealedIn(manifest, files, i)
           \/ \E k \in 1 .. applied : Adds(taken[k], i)

OracleInv ==
  /\ NothingInDoubt
  /\ OracleInStep
  /\ AddedOnce
  /\ WriterMatchesModel

=============================================================================

------------------------------- MODULE Oracle -------------------------------
(***************************************************************************)
(* The model-based tests of the repository (the conformance suite, the     *)
(* in-crate random-operation tests and the fuzz target `ops'), with every  *)
(* sequence of operations in the place of a random one: the store runs     *)
(* beside a plain map, and may stop and be opened again at any step.       *)
(*                                                                         *)
(* The map is kept as what the last commit held and the operations taken   *)
(* since, so that a crash can take the end of an extend that was not       *)
(* synced, or a power loss what was only flushed, out of it again.         *)
(* Modules DamagedFiles and InvertedIndex run what is here.                *)
(***************************************************************************)
EXTENDS SegStore

\* Calls that fail in the WAL or the manifest, after which the caller knows
\* less, are the business of module SegStoreImplements.
ASSUME OracleAssumption == Faults \subseteq {"segment"}

VARIABLES
  base,      \* the map at the last commit: the items of each id
  taken,     \* the operations taken since
  added,     \* the ids that were added, where ids are not listed
  readded    \* those of them that were added again

oracle == <<base, taken, added, readded>>
oVars == <<vars, oracle>>

OInit ==
  /\ Init
  /\ base = [i \in Ids |-> {}]
  /\ taken = <<>>
  /\ added = {}
  /\ readded = {}

\* The map now.
Latest(i) == After(base[i], taken, Len(taken), i)

\* A store that does not list ids replaces no sealed copy: the tests of one add
\* unique ids, and for others the map is not exact.
Unique(i) == TracksIds \/ i \notin readded

NoteAdd(op) ==
  IF TracksIds \/ op.item = Deleted
    THEN UNCHANGED <<added, readded>>
    ELSE /\ added' = added \cup {op.id}
         /\ readded' = readded \cup ({op.id} \cap added)

\* add, delete, or one item of extend, of the store and of the map.
OWrite(op) ==
  /\ Write(op) \/ ExtendItem(op)
  /\ taken' = Append(taken, op)
  /\ NoteAdd(op)
  /\ UNCHANGED base

\* The rest of extend, checkpoint, and the merging calls.
OMaintain ==
  /\ \/ ExtendSync
     \/ FlushOnly
     \/ \E group \in SUBSET SegIds : Merge(group)
     \/ Compact
     \/ CheckpointStart \/ PersistNext \/ RotateAndGc \/ Republish
  /\ UNCHANGED oracle

\* The commit point of a checkpoint.
OCommit ==
  /\ WriteManifest
  /\ base' = [i \in Ids |-> Latest(i)]
  /\ taken' = <<>>
  /\ UNCHANGED <<added, readded>>

OOpen ==
  /\ OpenLoad \/ Replay \/ OpenDone
  /\ UNCHANGED oracle

\* The store is dropped, its process dies, or the machine: the operations whose
\* records the log lost by that are not taken.
OStop ==
  /\ ProcessCrash \/ PowerLoss
  /\ LET lost == Len(wals[manifest.epoch]) - Len(wals'[manifest.epoch])
     IN  taken' = SubSeq(taken, 1, Len(taken) - lost)
  /\ UNCHANGED <<base, added, readded>>

-----------------------------------------------------------------------------
(* What is asserted after each operation.                                  *)

\* "Last-write-wins under random re-adds, deletes, checkpoints, merges, and
\* reopens" (lib.rs:5775): through the writer each id is found by its last
\* document and by no other, however its copies were sealed, merged, collected
\* and recovered; where ids are not listed, each id that was added once.  Inside
\* open, what is found is what the operations replayed so far make of the last
\* commit, "a consistent contiguous prefix" (lib.rs:5214).
WriterMatchesModel ==
  phase # "down" =>
    \A i \in Ids : Unique(i) =>
      Reads(mem, i) =
        IF phase = "replay" THEN After(base[i], taken, applied, i) ELSE Latest(i)

\* Readers, in this process and in another, see the map of the last checkpoint:
\* no write since, also after a reopen replayed it, and no document that was
\* replaced or deleted before.
ReadersMatchCheckpoint ==
  phase \notin {"down", "rotate", "publish"} =>
    \A i \in Ids : Unique(i) =>
      /\ LiveItems(published, published.segments, i) = base[i]
      /\ LiveItems(manifest, files, i) = base[i]

=============================================================================

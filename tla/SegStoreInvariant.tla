-------------------------- MODULE SegStoreInvariant --------------------------
(***************************************************************************)
(* The inductive invariant of SegStore.                                    *)
(***************************************************************************)
EXTENDS SegStore, SegMemoryInvariant

\* The id source is ahead of every id a manifest, a segment or persisted_ids
\* knows, so the file of a fresh segment is nobody's.
IdsAhead ==
  /\ manifest.next_seg_id <= mem.next_seg_id
  /\ prior.next_seg_id <= mem.next_seg_id
  /\ \A s \in persisted_ids : s < mem.next_seg_id

\* A persisted segment is in its file, and one that is not has an id that
\* neither manifest has accounted for.
SegmentsPlaced ==
  \A s \in mem.segment_ids :
    IF s \in persisted_ids
      THEN files[s] = mem.segments[s]
      ELSE manifest.next_seg_id <= s /\ prior.next_seg_id <= s

StoreInv ==
  /\ TypeOK
  /\ MemInv(mem)
  /\ DiskInv(manifest, files)
  /\ DiskInv(prior, files)
  /\ phase # "down" => IdsAhead /\ SegmentsPlaced
  /\ phase \in {"persist", "rotate"} => epoch < MaxEpoch
  /\ phase = "rotate" =>
       prior = manifest /\ manifest.segment_ids = mem.segment_ids

\* A store's own manifests leave open no copy to mark.  That of an old store,
\* which StoreInv allows, may.
ManifestsMarked == CopiesMarked(manifest, files) /\ CopiesMarked(prior, files)

\* Where ids are listed, no older copy is live in place of a newer one.
NewestInv ==
  TracksIds =>
    NewestOwned(mem) /\ NewestLive(manifest, files) /\ NewestLive(prior, files)

-----------------------------------------------------------------------------
(* What goes with it about the log and the contents of the manifests.      *)

\* Two manifests differ only after a failed manifest write, and then by one
\* generation; the WAL in use is the one that goes with prior.
ManifestsInStep ==
  /\ manifest = prior \/ manifest.epoch = prior.epoch + 1
  /\ phase # "down" =>
       /\ prior.epoch = IF phase = "rotate" THEN epoch + 1 ELSE epoch
       /\ poisoned \/ manifest = prior
  /\ phase \in {"replay", "extend", "persist", "rotate", "publish"} => ~poisoned

\* A generation that no commit has started has no record, nor has the one that
\* a commit just started.
FreshLogsEmpty ==
  \A e \in Epochs :
    e > prior.epoch \/ (e = prior.epoch /\ phase \in {"rotate", "publish"}) =>
      wals[e] = <<>> /\ synced[e] = 0

\* Every record of the WAL in use is applied, but for one whose append failed.
RecordsApplied ==
  /\ applied <= Len(Log)
  /\ phase \in {"replay", "extend", "publish"} => ~wal_failed
  /\ phase \notin {"down", "replay", "rotate"} /\ ~wal_failed => applied = Len(Log)

\* From the seal a checkpoint starts with up to its end nothing is buffered, and
\* from the commit on the manifest has what the writer reads.
CommitComplete ==
  /\ phase \in {"persist", "rotate", "publish"} => mem.buffer = {}
  /\ phase \in {"rotate", "publish"} =>
       \A i \in Ids : ReadsOnOpen(prior, files, i) = Reads(mem, i)

\* Outside a commit, readers see the contents of the manifest in use.
PublishedCommitted ==
  phase \notin {"down", "rotate", "publish"} =>
    \A i \in Ids :
      LiveItems(published, published.segments, i) = ReadsOnOpen(prior, files, i)

LogInv ==
  /\ ManifestsInStep
  /\ FreshLogsEmpty
  /\ RecordsApplied
  /\ CommitComplete
  /\ PublishedCommitted

=============================================================================

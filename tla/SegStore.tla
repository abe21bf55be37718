------------------------------ MODULE SegStore ------------------------------
(***************************************************************************)
(* One segstore directory and the process that has it open: the writer     *)
(* (add, delete, extend, the merges, checkpoint), the files it leaves, a   *)
(* crash between any two of its steps, open, and the snapshot readers see. *)
(*                                                                         *)
(* checkpoint and open are several steps, because each file operation is a *)
(* point where the process can die; phase says which comes next.  Within   *)
(* one call no other call of the writer runs (they take &mut self, and     *)
(* segstore.lock keeps other writers out), while readers may look at       *)
(* `published' at any point.                                               *)
(*                                                                         *)
(* An atomic file write succeeds, fails without a trace, or fails after    *)
(* the new file became visible (rename done, directory sync failed).       *)
(***************************************************************************)
EXTENDS SegMemory, FiniteSets

CONSTANTS
  FlushThreshold, \* Options::flush_threshold
  Sync,           \* Options::sync: "Flush" or "Fsync"
  Faults,         \* the file operations that may fail: see FaultKinds
  MaxEpoch,       \* bound: the last WAL generation a checkpoint starts
  MaxWal          \* bound: records in one WAL generation

\* An append or sync of the WAL, a write of a segment file or of the manifest,
\* the deletion of one file (or the process dies before it).
FaultKinds == {"wal", "segment", "manifest", "delete"}

ASSUME StoreAssumption ==
  /\ FlushThreshold \in Nat
  /\ Sync \in {"Flush", "Fsync"}
  /\ Faults \subseteq FaultKinds
  /\ MaxEpoch \in Nat
  /\ MaxWal \in Nat

Epochs == 0 .. MaxEpoch

VARIABLES
  \* The process.
  mem,            \* buffer, segments, liveness sets, id source (SegMemory)
  persisted_ids,  \* segments known to have their file on disk
  epoch,          \* WAL generation being appended to
  poisoned,       \* a manifest write failed
  wal_failed,     \* the WAL writer failed, and refuses until it is replaced
  applied,        \* records of the WAL generation `epoch' applied to mem
  phase,          \* what the process is in the middle of
  published,      \* the readers' snapshot
  \* The directory.
  manifest,       \* segstore.manifest; absent and empty are the same to open
  prior,          \* the manifest a power loss may bring back
  files,          \* segstore.seg.<id>, {} when absent
  wals,           \* segstore.wal.<epoch>, <<>> when absent
  synced          \* records of each WAL that the last sync_wal covered

process == <<mem, persisted_ids, epoch, poisoned, wal_failed, applied>>
disk    == <<manifest, prior, files, wals, synced>>
vars    == <<process, phase, published, disk>>

Phases == {"down", "replay", "open", "extend", "merged", "purged",
           "persist", "rotate", "publish"}

Manifests ==
  [ epoch       : Epochs,
    next_seg_id : 0 .. MaxSegId + 1,
    segment_ids : SUBSET SegIds,
    tombstones  : SUBSET Ids,
    superseded  : Supersessions ]

Snapshots ==
  [ segment_ids : SUBSET SegIds,
    segments    : Payloads,
    tombstones  : SUBSET Ids,
    superseded  : Supersessions ]

NoManifest ==
  [ epoch |-> 0, next_seg_id |-> 0, segment_ids |-> {}, tombstones |-> {},
    superseded |-> NoSupersessions ]

\* Slip: the superseded marks are not published.
SnapshotUnmarked(m) ==
  [ segment_ids |-> m.segment_ids, segments |-> m.segments,
    tombstones |-> m.tombstones, superseded |-> NoSupersessions ]

Snapshot(m) ==
  [ segment_ids |-> m.segment_ids, segments |-> m.segments,
    tombstones |-> m.tombstones, superseded |-> m.superseded ]

Init ==
  /\ mem = EmptyMemory
  /\ persisted_ids = {}
  /\ epoch = 0
  /\ poisoned = FALSE
  /\ wal_failed = FALSE
  /\ applied = 0
  /\ phase = "down"
  /\ published = Snapshot(EmptyMemory)
  /\ manifest = NoManifest
  /\ prior = NoManifest
  /\ files = NoPayloads
  /\ wals = [e \in Epochs |-> <<>>]
  /\ synced = [e \in Epochs |-> 0]

-----------------------------------------------------------------------------
(* Writes.                                                                 *)

Log == wals[epoch]

SealIfFull(m) ==
  IF Cardinality(m.buffer) >= FlushThreshold THEN FlushBuffer(m) ELSE m

\* add and extend seal a full buffer.  delete never does, but a delete only
\* shrinks the buffer, which was left below the threshold.
Applied(m, op) == SealIfFull(Apply(m, op))

\* Slip: a poisoned writer still takes writes.
CanWritePoisoned ==
  /\ ~wal_failed
  /\ Len(Log) < MaxWal
  /\ HasRoom(mem)

\* The writer takes a write: not poisoned, and its WAL still accepts records.
\* (The rest are bounds.)
CanWrite ==
  /\ ~poisoned
  /\ ~wal_failed
  /\ Len(Log) < MaxWal
  /\ HasRoom(mem)

AppendRecord(op) == wals' = [wals EXCEPT ![epoch] = Append(@, op)]

\* add or delete: append, sync, apply.
Write(op) ==
  /\ phase = "open"
  /\ CanWrite
  /\ AppendRecord(op)
  /\ synced' = [synced EXCEPT ![epoch] = Len(Log) + 1]
  /\ mem' = Applied(mem, op)
  /\ applied' = Len(Log) + 1
  /\ UNCHANGED <<persisted_ids, epoch, poisoned, wal_failed, phase, published,
                 manifest, prior, files>>

\* Slip: the WAL writer goes on after an error.
WriteFailsAndGoesOn(op) ==
  /\ "wal" \in Faults
  /\ phase \in {"open", "extend"}
  /\ CanWrite
  /\ AppendRecord(op) \/ UNCHANGED wals
  /\ phase' = "open"
  /\ UNCHANGED <<mem, persisted_ids, epoch, poisoned, wal_failed, applied,
                 published, manifest, prior, files, synced>>

\* The append or the sync failed: the record may be in the file all the same,
\* and the operation is not applied.
WriteFails(op) ==
  /\ "wal" \in Faults
  /\ phase \in {"open", "extend"}
  /\ CanWrite
  /\ AppendRecord(op) \/ UNCHANGED wals
  /\ wal_failed' = TRUE
  /\ phase' = "open"
  /\ UNCHANGED <<mem, persisted_ids, epoch, poisoned, applied, published,
                 manifest, prior, files, synced>>

\* One item of extend's loop: appended and applied, not synced yet.
ExtendItem(op) ==
  /\ phase \in {"open", "extend"}
  /\ CanWrite
  /\ op.item # Deleted
  /\ AppendRecord(op)
  /\ mem' = Applied(mem, op)
  /\ applied' = Len(Log) + 1
  /\ phase' = "extend"
  /\ UNCHANGED <<persisted_ids, epoch, poisoned, wal_failed, published,
                 manifest, prior, files, synced>>

\* extend's one sync, also the one it makes before an automatic merge.
ExtendSync ==
  /\ phase = "extend"
  /\ phase' = "open"
  /\ \/ /\ synced' = [synced EXCEPT ![epoch] = Len(Log)]
        /\ UNCHANGED wal_failed
     \/ /\ "wal" \in Faults
        /\ wal_failed' = TRUE
        /\ UNCHANGED synced
  /\ UNCHANGED <<mem, persisted_ids, epoch, poisoned, applied, published,
                 manifest, prior, files, wals>>

-----------------------------------------------------------------------------
(* Merges.  Which group is merged is the business of module Tiering; here  *)
(* any group may be.                                                       *)

\* The effect on files and persisted_ids of persisting segment s.
PersistSegment(s, copies) ==
  /\ files' = [files EXCEPT ![s] = copies]
  /\ persisted_ids' = persisted_ids \cup {s}

\* Slip: the id is recorded as persisted before the write is known to be done.
PersistSegmentFailsMarked(s, copies) ==
  /\ "segment" \in Faults
  /\ files' \in {files, [files EXCEPT ![s] = copies]}
  /\ persisted_ids' = persisted_ids \cup {s}

\* persist_segment returned an error, before or after the file was visible.
PersistSegmentFails(s, copies) ==
  /\ "segment" \in Faults
  /\ files' \in {files, [files EXCEPT ![s] = copies]}
  /\ UNCHANGED persisted_ids

\* merge_group's one file: nothing is written when no copy is live.
PersistMerged(m, group) ==
  IF MergedCopies(m, group) = {}
    THEN UNCHANGED <<files, persisted_ids>>
    ELSE PersistSegment(m.next_seg_id, MergedCopies(m, group))

\* A merge that cannot write its output has changed nothing but the id source.
MergeFails(m, group) ==
  /\ MergedCopies(m, group) # {}
  /\ PersistSegmentFails(m.next_seg_id, MergedCopies(m, group))
  /\ mem' = BurnId(m)
  /\ phase' = "open"

MergeFrame ==
  UNCHANGED <<epoch, poisoned, wal_failed, applied, published, manifest, prior,
              wals, synced>>

\* Bounds: flushing a non-empty buffer draws an id, and a merge needs one and
\* the generation its checkpoint starts.
RoomToFlush == mem.buffer = {} \/ HasRoom(mem)

RoomToMerge ==
  /\ RoomToFlush
  /\ HasRoom(FlushBuffer(mem))
  /\ poisoned \/ epoch < MaxEpoch

\* compact_tiers, force_merge_to and reclaim_tombstones flush the buffer first
\* and return when no group qualifies.
FlushOnly ==
  /\ phase = "open"
  /\ mem.buffer # {}
  /\ HasRoom(mem)
  /\ mem' = FlushBuffer(mem)
  /\ UNCHANGED <<persisted_ids, phase, files>>
  /\ MergeFrame

\* One merge of compact_tiers, force_merge_to or reclaim_tombstones, the first
\* one of the call (phase "open") or a further one ("merged").
Merge(group) ==
  LET m == FlushBuffer(mem) IN
  /\ phase \in {"open", "merged"}
  /\ RoomToMerge
  /\ group # {}
  /\ group \subseteq m.segment_ids
  /\ \/ /\ PersistMerged(m, group)
        /\ mem' = MergeGroup(m, group)
        /\ phase' = "merged"
     \/ MergeFails(m, group)
  /\ MergeFrame

\* compact, up to its checkpoint.
Compact ==
  LET m == FlushBuffer(mem)
      all == m.segment_ids
  IN
  /\ phase = "open"
  /\ RoomToMerge
  /\ \/ /\ CompactMerges(m)
        /\ PersistMerged(m, all)
        /\ mem' = Purged(MergeGroup(m, all))
        /\ phase' = "purged"
     \/ /\ CompactMerges(m)
        /\ MergeFails(m, all)
     \/ /\ ~CompactMerges(m)
        /\ mem' = Purged(m)
        /\ phase' = "purged"
        /\ UNCHANGED <<persisted_ids, files>>
  /\ MergeFrame

-----------------------------------------------------------------------------
(* checkpoint.                                                             *)

\* A merging call that finds the writer poisoned gets its error here, with the
\* merge already done.
CheckpointRefused ==
  /\ phase \in {"merged", "purged"}
  /\ poisoned
  /\ phase' = "open"
  /\ UNCHANGED <<process, published, disk>>

CheckpointStart ==
  /\ phase \in {"open", "merged", "purged"}
  /\ ~poisoned
  /\ epoch < MaxEpoch /\ RoomToFlush
  /\ mem' = FlushBuffer(mem)
  /\ phase' = "persist"
  /\ UNCHANGED <<persisted_ids, epoch, poisoned, wal_failed, applied, published,
                 disk>>

Unpersisted == mem.segment_ids \ persisted_ids

\* Step 1: the segment files, in list order.
PersistNext ==
  /\ phase = "persist"
  /\ \E s \in Unpersisted :
       /\ \A t \in Unpersisted : s <= t
       /\ \/ /\ PersistSegment(s, mem.segments[s])
             /\ UNCHANGED phase
          \/ /\ PersistSegmentFails(s, mem.segments[s])
             /\ phase' = "open"
  /\ UNCHANGED <<mem, epoch, poisoned, wal_failed, applied, published, manifest,
                 prior, wals, synced>>

\* Superseded marks of segments that are gone are not kept.
Retained(m) ==
  [m EXCEPT !.superseded =
     [s \in SegIds |-> IF s \in m.segment_ids THEN m.superseded[s] ELSE {}]]

\* Slip: the id source is not persisted.
NewManifestOldIds(m) ==
  [ epoch |-> epoch + 1, next_seg_id |-> manifest.next_seg_id,
    segment_ids |-> m.segment_ids, tombstones |-> m.tombstones,
    superseded |-> m.superseded ]

\* Slip: the manifest keeps the epoch of the one before.
NewManifestOldEpoch(m) ==
  [ epoch |-> epoch, next_seg_id |-> m.next_seg_id,
    segment_ids |-> m.segment_ids, tombstones |-> m.tombstones,
    superseded |-> m.superseded ]

NewManifest(m) ==
  [ epoch |-> epoch + 1, next_seg_id |-> m.next_seg_id,
    segment_ids |-> m.segment_ids, tombstones |-> m.tombstones,
    superseded |-> m.superseded ]

\* Step 2: the manifest, the commit point.  A failed write poisons the writer.
WriteManifest ==
  /\ phase = "persist"
  /\ Unpersisted = {}
  /\ mem' = Retained(mem)
  /\ \/ /\ manifest' = NewManifest(mem')
        /\ prior' = manifest'
        /\ phase' = "rotate"
        /\ UNCHANGED poisoned
     \/ /\ "manifest" \in Faults
        /\ manifest' \in {manifest, NewManifest(mem')}
        /\ poisoned' = TRUE
        /\ phase' = "open"
        /\ UNCHANGED prior
  /\ UNCHANGED <<persisted_ids, epoch, wal_failed, applied, published, files,
                 wals, synced>>

\* What may be left after deleting garbage: every delete is best effort.
LeftOf(garbage) == IF "delete" \in Faults THEN SUBSET garbage ELSE {{}}

\* The directory after the segment files of the ids in garbage and the WALs of
\* the generations in stale were deleted.
Collect(garbage, stale) ==
  /\ \E left \in LeftOf({s \in garbage : files[s] # {}}) :
       files' = [s \in SegIds |-> IF s \in garbage \ left THEN {} ELSE files[s]]
  /\ \E left \in LeftOf({e \in stale : wals[e] # <<>>}) :
       /\ wals' = [e \in Epochs |-> IF e \in stale \ left THEN <<>> ELSE wals[e]]
       /\ synced' = [e \in Epochs |-> IF e \in stale \ left THEN 0 ELSE synced[e]]

\* Steps 3 and 4: the next WAL generation with a fresh writer, then the files
\* the new manifest does not name and the old WAL.
RotateAndGc ==
  /\ phase = "rotate"
  /\ epoch' = epoch + 1
  /\ wal_failed' = FALSE
  /\ applied' = 0
  /\ persisted_ids' = persisted_ids \cap mem.segment_ids
  /\ Collect(SegIds \ mem.segment_ids, {epoch})
  /\ phase' = "publish"
  /\ UNCHANGED <<mem, poisoned, published, manifest, prior>>

\* Step 5.
Republish ==
  /\ phase = "publish"
  /\ published' = Snapshot(mem)
  /\ phase' = "open"
  /\ UNCHANGED <<process, disk>>

-----------------------------------------------------------------------------
(* open, and the end of the process.                                       *)

\* What open reads is taken to be on stable storage from then on.
OpenLoad ==
  /\ phase = "down"
  /\ CanLoad(manifest, files)
  /\ mem' = Load(manifest, files)
  /\ published' = Snapshot(mem')
  /\ persisted_ids' = manifest.segment_ids
  /\ epoch' = manifest.epoch
  /\ poisoned' = FALSE
  /\ wal_failed' = FALSE
  /\ applied' = 0
  /\ Collect(SegIds \ manifest.segment_ids, Epochs \ {manifest.epoch})
  /\ phase' = "replay"
  /\ prior' = manifest
  /\ UNCHANGED manifest

Replay ==
  /\ phase = "replay"
  /\ applied < Len(Log)
  /\ HasRoom(mem)
  /\ mem' = Applied(mem, Log[applied + 1])
  /\ applied' = applied + 1
  /\ UNCHANGED <<persisted_ids, epoch, poisoned, wal_failed, phase, published,
                 disk>>

OpenDone ==
  /\ phase = "replay"
  /\ applied = Len(Log)
  /\ phase' = "open"
  /\ UNCHANGED <<process, published, disk>>

\* The WAL in use loses a tail of its records from number `from' on.
LoseTail(from) ==
  LET e == prior.epoch IN
  \E k \in from .. Len(wals[e]) :
    /\ wals' = [wals EXCEPT ![e] = SubSeq(@, 1, k)]
    /\ synced' = [synced EXCEPT ![e] = IF k < @ THEN k ELSE @]

Stop ==
  /\ phase' = "down"
  /\ mem' = EmptyMemory
  /\ persisted_ids' = {}
  /\ epoch' = 0
  /\ poisoned' = FALSE
  /\ wal_failed' = FALSE
  /\ applied' = 0
  /\ published' = Snapshot(EmptyMemory)
  /\ UNCHANGED files

\* The process dies, or drops the store: what sync_wal handed over survives.
ProcessCrash ==
  /\ phase # "down"
  /\ Stop
  /\ LoseTail(synced[prior.epoch])
  /\ UNCHANGED <<manifest, prior>>

\* The machine dies: what was only flushed may be lost, and a manifest whose
\* write reported failure may be gone again.
PowerLoss ==
  /\ Stop
  /\ LoseTail(IF Sync = "Fsync" THEN synced[prior.epoch] ELSE 0)
  /\ manifest' \in {manifest, prior}
  /\ prior' = manifest'

-----------------------------------------------------------------------------

WriterNext ==
  \/ \E op \in Ops : Write(op) \/ WriteFails(op) \/ ExtendItem(op)
  \/ ExtendSync
  \/ FlushOnly
  \/ \E group \in SUBSET SegIds : Merge(group)
  \/ Compact
  \/ CheckpointRefused
  \/ CheckpointStart
  \/ PersistNext
  \/ WriteManifest
  \/ RotateAndGc
  \/ Republish

Next ==
  \/ WriterNext
  \/ OpenLoad
  \/ Replay
  \/ OpenDone
  \/ ProcessCrash
  \/ PowerLoss

Spec == Init /\ [][Next]_vars

\* A call that has begun runs on until it returns, or the process stops:
\* nothing it does waits for another thread.
CallStep ==
  \/ ExtendSync
  \/ CheckpointRefused
  \/ (phase # "open" /\ CheckpointStart)
  \/ PersistNext
  \/ WriteManifest
  \/ RotateAndGc
  \/ Republish
  \/ OpenLoad
  \/ Replay
  \/ OpenDone

\* extend's item list and a call's merges end too, which the bounds see to.
FairSpec == Spec /\ WF_vars(CallStep)

-----------------------------------------------------------------------------
(* Correctness.                                                            *)

\* Every variable stays in the range its code gives it.
TypeOK ==
  /\ mem \in Memory
  /\ persisted_ids \subseteq SegIds
  /\ epoch \in Epochs
  /\ poisoned \in BOOLEAN
  /\ wal_failed \in BOOLEAN
  /\ applied \in Nat
  /\ phase \in Phases
  /\ published \in Snapshots
  /\ manifest \in Manifests
  /\ prior \in Manifests
  /\ files \in Payloads
  /\ wals \in [Epochs -> Seq(Ops)]
  /\ synced \in [Epochs -> Nat]

\* Where a live sealed copy of id i is.
LiveIn(m, i) == {s \in m.segment_ids : i \in IdsOf(LiveCopies(m, s))}

\* is_live_in's promise, "at most one copy of an id passes this check", however
\* re-adds, deletes, seals, merges, crashes and replays interleave: the live
\* sealed copy of an id is in the segment owners names and in no other, there
\* is none beside a buffered copy, and the copies read agree on one item.
OneLiveCopy ==
  TracksIds =>
    \A i \in Ids :
      /\ LiveIn(mem, i) = IF mem.owners[i] = NoSeg THEN {} ELSE {mem.owners[i]}
      /\ i \in IdsOf(mem.buffer) => mem.owners[i] = NoSeg
      /\ \A v, w \in Reads(mem, i) : v = w

\* Whatever the crash, open finds every segment file the manifest names, under
\* the manifest a power loss may bring back too.
Reopenable == CanLoad(manifest, files) /\ CanLoad(prior, files)

\* What open and replay give for id i from manifest c, when of the WAL in use
\* no record is lost that was applied.
Recovered(c, i) ==
  After(ReadsOnOpen(c, files, i), wals[c.epoch],
        IF c.epoch = epoch THEN applied ELSE 0, i)

\* Every write the store has taken is in the manifest or in the WAL that goes
\* with it, at each step of a write, merge or checkpoint: also after a failed
\* manifest write, whichever of the two manifests the next open finds.
NoWriteLost ==
  TracksIds /\ phase # "down" =>
    \A c \in {manifest, prior}, i \in Ids : Recovered(c, i) = Reads(mem, i)

\* Once the process is no longer stopped, open gets through to a store that
\* takes calls, and every call on it ends, whatever fails in it: a crash has
\* left nothing that open trips over, and no write error wedges the writer.
CallsEnd ==
  <>[][~(ProcessCrash \/ PowerLoss)]_vars => []<>(phase = "open")

\* A segment file the manifest names or has accounted for (its id is below the
\* manifest's next_seg_id) is deleted at most: it is never written again, so a
\* reader that holds its id never gets another payload.
CommittedFilesFrozen ==
  [][\A s \in SegIds :
       s \in manifest.segment_ids \/ s < manifest.next_seg_id =>
         files'[s] \in {files[s], {}}]_vars

=============================================================================

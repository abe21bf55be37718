--------------------------- MODULE RecoveryProofs ---------------------------
(***************************************************************************)
(* Recovery of SegStore, for every value of the constants: what goes with  *)
(* what among the log, the two manifests and the snapshot (LogInv), from   *)
(* it that no write the store has taken is ever lost, and from both that   *)
(* the store implements DurableMap.  Last, the same on a directory that an *)
(* old store left.                                                         *)
(***************************************************************************)
EXTENDS SegStoreImplements, LegacyStore, SegStoreProofs, FiniteSetTheorems

USE DEF SegIds

-----------------------------------------------------------------------------
(* What a step does to the contents of the manifests.                      *)

\* While a manifest is one of the two, so is what it makes of its files.
LEMMA ContentsKept ==
  ASSUME StoreInv, Next, NEW c \in {manifest, prior}, c \in {manifest', prior'},
         NEW i
  PROVE  ReadsOnOpen(c, files', i) = ReadsOnOpen(c, files, i)
BY FilesKept, ReadsOnOpenSame

\* A manifest of the memory holds what is read, once nothing is buffered and
\* every segment is in its file.
LEMMA NewManifestContents ==
  ASSUME mem \in Memory, MemInv(mem), mem.buffer = {}, files \in Payloads,
         \A s \in mem.segment_ids : files[s] = mem.segments[s], NEW i
  PROVE  ReadsOnOpen(NewManifest(mem), files, i) = Reads(mem, i)
<1> DEFINE c == NewManifest(mem)
<1>1. /\ c.segment_ids = mem.segment_ids /\ c.tombstones = mem.tombstones
      /\ c.superseded = mem.superseded /\ c.next_seg_id = mem.next_seg_id
      /\ c.segment_ids \in SUBSET SegIds
  BY DEF NewManifest, Memory
<1> HIDE DEF c
<1>2. ReadsOnOpen(c, files, i) = LiveItems(mem, mem.segments, i)
  <2>1. CopiesMarked(c, files)
    BY <1>1, DiskInvFromMemory
  <2> QED  BY <1>1, <2>1, MarkedReads, LiveItemsSame
<1>3. ReadsOnOpen(c, files, i) = Reads(mem, i)
  BY <1>2 DEF Reads
<1> QED  BY <1>3 DEF c

-----------------------------------------------------------------------------
(* What a step does to what the writer reads.                              *)

\* A write or a replayed record, and the seal it may bring about.
LEMMA AppliedReads ==
  ASSUME NEW m \in Memory, MemInv(m), HasRoom(m), NEW op \in Ops, NEW i \in Ids,
         \/ TracksIds \/ op.item = Deleted \/ i # op.id
         \/ \A s \in m.segment_ids : op.id \notin IdsOf(m.segments[s])
  PROVE  Reads(Applied(m, op), i) = Overwritten(Reads(m, i), op, i)
<1> DEFINE a == Apply(m, op)
<1>1. a \in Memory /\ MemInv(a)
  BY ApplyType, ApplyInv
<1>2. a.next_seg_id = m.next_seg_id
  BY ApplyGrows
<1>3. Reads(a, i) = Overwritten(Reads(m, i), op, i)
  BY ApplyReads DEF Overwritten
<1> HIDE DEF a
<1>4. HasRoom(a)
  BY <1>2 DEF HasRoom
<1>5. Reads(FlushBuffer(a), i) = Reads(a, i)
  BY <1>1, <1>4, FlushReads
<1> QED  BY <1>3, <1>5 DEF Applied, SealIfFull, a

\* The steps between two writes: seals, merges and the steps of a checkpoint.
Maintenance ==
  \/ FlushOnly
  \/ \E group \in SUBSET SegIds : Merge(group)
  \/ Compact
  \/ CheckpointRefused
  \/ CheckpointStart
  \/ PersistNext
  \/ WriteManifest
  \/ RotateAndGc
  \/ Republish

\* The loss of the id that a failed merge drew is no change to what is read.
LEMMA BurnIdReads ==
  ASSUME NEW m \in Memory, NEW i
  PROVE  Reads(BurnId(m), i) = Reads(m, i)
BY DEF BurnId, Memory, Reads, LiveItems

\* None of them changes anything that is read.
LEMMA MaintenanceReads ==
  ASSUME StoreInv, Maintenance, NEW i \in Ids
  PROVE  Reads(mem', i) = Reads(mem, i)
<1>1. mem \in Memory /\ MemInv(mem)
  BY DEF StoreInv, TypeOK
<1> DEFINE m == FlushBuffer(mem)
<1>2. ASSUME mem.buffer = {} \/ HasRoom(mem)
      PROVE  Reads(m, i) = Reads(mem, i)
  BY <1>1, <1>2, FlushReads
<1>3. ASSUME RoomToMerge
      PROVE  /\ m \in Memory /\ MemInv(m) /\ HasRoom(m)
             /\ Reads(m, i) = Reads(mem, i)
  BY <1>2, <1>3, SealedForMerge DEF RoomToMerge, RoomToFlush
<1>4. CASE FlushOnly
  BY <1>2, <1>4 DEF FlushOnly
<1>5. CASE CheckpointStart
  BY <1>2, <1>5 DEF CheckpointStart, RoomToFlush
<1>6. CASE \E group \in SUBSET SegIds : Merge(group)
  <2>1. PICK group \in SUBSET SegIds : Merge(group)
    BY <1>6
  <2>2. RoomToMerge /\ group \in SUBSET m.segment_ids
    BY <2>1 DEF Merge
  <2>3. mem' = MergeGroup(m, group) \/ mem' = BurnId(m)
    BY <2>1 DEF Merge, MergeFails
  <2> HIDE DEF m
  <2> QED  BY <1>3, <2>2, <2>3, MergeReads, BurnIdReads
<1>7. CASE Compact
  <2> DEFINE n == MergeGroup(m, m.segment_ids)
  <2>1. RoomToMerge
    BY <1>7 DEF Compact
  <2>2. \/ mem' = Purged(n)
        \/ mem' = BurnId(m)
        \/ ~CompactMerges(m) /\ mem' = Purged(m)
    BY <1>7 DEF Compact, MergeFails
  <2> HIDE DEF m
  <2>3. m \in Memory /\ MemInv(m) /\ HasRoom(m) /\ Reads(m, i) = Reads(mem, i)
    BY <1>3, <2>1
  <2>4. m.segment_ids \in SUBSET m.segment_ids /\ m.segment_ids \in SUBSET SegIds
    BY <2>3 DEF Memory
  <2>5. n \in Memory /\ AllLive(n) /\ Reads(n, i) = Reads(m, i)
    BY <2>3, <2>4, MergeGroupType, MergeAllLive, MergeReads
  <2> HIDE DEF n
  <2>6. CASE mem' = Purged(n)
    BY <2>3, <2>5, <2>6, PurgedReads
  <2>7. CASE mem' = BurnId(m)
    BY <2>3, <2>7, BurnIdReads
  <2>8. CASE ~CompactMerges(m) /\ mem' = Purged(m)
    BY <2>3, <2>8, NothingDeadLive, PurgedReads
  <2> QED  BY <2>2, <2>6, <2>7, <2>8
<1>8. CASE WriteManifest
  BY <1>1, <1>8, RetainedSame DEF WriteManifest
<1>9. CASE CheckpointRefused \/ PersistNext \/ RotateAndGc \/ Republish
  BY <1>9 DEF CheckpointRefused, PersistNext, RotateAndGc, Republish, process
<1> QED
  BY <1>4, <1>5, <1>6, <1>7, <1>8, <1>9 DEF Maintenance

\* A store that was just opened reads what its manifest holds.
LEMMA OpenLoadReads ==
  ASSUME StoreInv, OpenLoad, NEW i \in Ids
  PROVE  Reads(mem', i) = ReadsOnOpen(manifest, files, i)
BY LoadReads DEF OpenLoad, StoreInv, TypeOK, Manifests

-----------------------------------------------------------------------------
(* LogInv, action by action.                                               *)

\* The types the steps need.
LEMMA LogTypes ==
  ASSUME StoreInv
  PROVE  /\ epoch \in Epochs /\ epoch \in Int /\ applied \in Nat
         /\ wals \in [Epochs -> Seq(Ops)] /\ synced \in [Epochs -> Nat]
         /\ manifest \in Manifests /\ prior \in Manifests
         /\ manifest.epoch \in Epochs /\ manifest.epoch \in Int
         /\ prior.epoch \in Epochs /\ prior.epoch \in Int
         /\ \A e \in Epochs : e \in Int
         /\ Log \in Seq(Ops) /\ Len(Log) \in Nat
<1>1. /\ epoch \in Epochs /\ applied \in Nat
      /\ wals \in [Epochs -> Seq(Ops)] /\ synced \in [Epochs -> Nat]
      /\ manifest \in Manifests /\ prior \in Manifests
      /\ manifest.epoch \in Epochs /\ prior.epoch \in Epochs
  BY DEF StoreInv, TypeOK, Manifests
<1>2. \A e \in Epochs : e \in Int
  BY DEF Epochs
<1>3. Log \in Seq(Ops) /\ Len(Log) \in Nat
  BY <1>1 DEF Log
<1> QED  BY <1>1, <1>2, <1>3

\* A step that touches neither the log nor the control of the process: seals,
\* merges, and the parts of a checkpoint before its commit.
LEMMA QuietLog ==
  ASSUME StoreInv, LogInv,
         UNCHANGED <<epoch, poisoned, wal_failed, applied, published, manifest,
                     prior, wals, synced>>,
         \A s \in prior.segment_ids : files'[s] = files[s],
         phase \in {"open", "extend", "merged", "purged", "persist"},
         phase' \in {"open", "merged", "purged", "persist"},
         phase' = "persist" => ~poisoned /\ mem'.buffer = {}
  PROVE  LogInv'
<1>1. ManifestsInStep'
  BY DEF LogInv, ManifestsInStep
<1>2. FreshLogsEmpty'
  BY DEF LogInv, FreshLogsEmpty
<1>3. RecordsApplied'
  BY DEF LogInv, RecordsApplied, Log
<1>4. CommitComplete'
  BY DEF CommitComplete
<1>5. PublishedCommitted'
  <2>1. \A i \in Ids : ReadsOnOpen(prior, files', i) = ReadsOnOpen(prior, files, i)
    BY ReadsOnOpenSame
  <2> QED  BY <2>1 DEF LogInv, PublishedCommitted
<1> QED  BY <1>1, <1>2, <1>3, <1>4, <1>5 DEF LogInv

\* add, delete and an item of extend: the record is applied as it is appended.
LEMMA WriteLog ==
  ASSUME StoreInv, LogInv, NEW op \in Ops, Write(op) \/ ExtendItem(op)
  PROVE  LogInv'
<1>1. /\ phase \in {"open", "extend"} /\ phase' \in {"open", "extend"}
      /\ ~poisoned /\ ~wal_failed
      /\ wals' = [wals EXCEPT ![epoch] = Append(@, op)]
      /\ synced' \in {synced, [synced EXCEPT ![epoch] = Len(Log) + 1]}
      /\ applied' = Len(Log) + 1
      /\ UNCHANGED <<epoch, poisoned, wal_failed, published, manifest, prior,
                     files>>
  BY DEF Write, ExtendItem, CanWrite, AppendRecord
<1>2. prior.epoch = epoch /\ manifest = prior
  BY <1>1 DEF LogInv, ManifestsInStep
<1>3. Log' = Append(Log, op) /\ Len(Log') = Len(Log) + 1
  BY <1>1, LogTypes DEF Log
<1>4. ManifestsInStep'
  BY <1>1, <1>2 DEF LogInv, ManifestsInStep
<1>5. FreshLogsEmpty'
  BY <1>1, <1>2, LogTypes DEF LogInv, FreshLogsEmpty
<1>6. RecordsApplied'
  BY <1>1, <1>3, LogTypes DEF RecordsApplied
<1>7. CommitComplete' /\ PublishedCommitted'
  BY <1>1 DEF LogInv, CommitComplete, PublishedCommitted
<1> QED  BY <1>4, <1>5, <1>6, <1>7 DEF LogInv

\* A write that failed: its record may be in the log, behind those applied.
LEMMA WriteFailsLog ==
  ASSUME StoreInv, LogInv, NEW op \in Ops, WriteFails(op)
  PROVE  LogInv'
<1>1. /\ phase \in {"open", "extend"} /\ phase' = "open"
      /\ ~poisoned /\ wal_failed'
      /\ wals' \in {wals, [wals EXCEPT ![epoch] = Append(@, op)]}
      /\ UNCHANGED <<epoch, poisoned, applied, published, manifest, prior,
                     files, synced>>
  BY DEF WriteFails, CanWrite, AppendRecord
<1>2. prior.epoch = epoch /\ manifest = prior
  BY <1>1 DEF LogInv, ManifestsInStep
<1>3. Len(Log) <= Len(Log') /\ Len(Log') \in Nat
  BY <1>1, LogTypes DEF Log
<1>4. ManifestsInStep'
  BY <1>1, <1>2 DEF LogInv, ManifestsInStep
<1>5. FreshLogsEmpty'
  BY <1>1, <1>2, LogTypes DEF LogInv, FreshLogsEmpty
<1>6. RecordsApplied'
  BY <1>1, <1>3, LogTypes DEF LogInv, RecordsApplied
<1>7. CommitComplete' /\ PublishedCommitted'
  BY <1>1 DEF LogInv, CommitComplete, PublishedCommitted
<1> QED  BY <1>4, <1>5, <1>6, <1>7 DEF LogInv

\* The sync that ends extend, or its failure.
LEMMA ExtendSyncLog ==
  ASSUME StoreInv, LogInv, ExtendSync
  PROVE  LogInv'
<1>1. /\ phase = "extend" /\ phase' = "open"
      /\ synced' \in {synced, [synced EXCEPT ![epoch] = Len(Log)]}
      /\ wal_failed' \in {wal_failed, TRUE}
      /\ UNCHANGED <<epoch, poisoned, applied, published, manifest, prior,
                     files, wals>>
  BY DEF ExtendSync
<1>2. prior.epoch = epoch /\ manifest = prior
  BY <1>1 DEF LogInv, ManifestsInStep
<1>4. ManifestsInStep'
  BY <1>1, <1>2 DEF LogInv, ManifestsInStep
<1>5. FreshLogsEmpty'
  BY <1>1, <1>2, LogTypes DEF LogInv, FreshLogsEmpty
<1>6. RecordsApplied'
  BY <1>1 DEF LogInv, RecordsApplied, Log
<1>7. CommitComplete' /\ PublishedCommitted'
  BY <1>1 DEF LogInv, CommitComplete, PublishedCommitted
<1> QED  BY <1>4, <1>5, <1>6, <1>7 DEF LogInv

\* Seals, merges, and the parts of a checkpoint before its commit.
LEMMA BeforeCommitLog ==
  ASSUME StoreInv, LogInv,
         \/ FlushOnly \/ (\E group \in SUBSET SegIds : Merge(group)) \/ Compact
         \/ CheckpointRefused \/ CheckpointStart \/ PersistNext
  PROVE  LogInv'
<1>1. Next
  BY DEF Next, WriterNext
<1>2. UNCHANGED <<epoch, poisoned, wal_failed, applied, published, manifest,
                  prior, wals, synced>>
  BY DEF FlushOnly, Merge, Compact, MergeFrame, CheckpointRefused,
         CheckpointStart, PersistNext, process, disk
<1>3. \A s \in prior.segment_ids : files'[s] = files[s]
  BY <1>1, <1>2, FilesKept
<1>4. /\ phase \in {"open", "extend", "merged", "purged", "persist"}
      /\ phase' \in {"open", "merged", "purged", "persist"}
  BY DEF FlushOnly, Merge, MergeFails, Compact, CheckpointRefused,
         CheckpointStart, PersistNext
<1>5. phase' = "persist" => ~poisoned /\ mem'.buffer = {}
  <2>1. CASE CheckpointStart
    <3>1. mem \in Memory /\ (mem.buffer = {} \/ HasRoom(mem))
      BY <2>1 DEF StoreInv, TypeOK, CheckpointStart, RoomToFlush
    <3>2. FlushBuffer(mem).buffer = {}
      <4>1. mem.buffer # {} => Push(mem, mem.buffer) \in Memory
        BY <3>1, PushType DEF Memory
      <4> QED  BY <4>1 DEF FlushBuffer, Memory
    <3> QED  BY <2>1, <3>2 DEF CheckpointStart
  <2>2. CASE PersistNext
    BY <2>2 DEF PersistNext, LogInv, ManifestsInStep, CommitComplete
  <2>3. CASE \/ FlushOnly \/ (\E group \in SUBSET SegIds : Merge(group))
             \/ Compact \/ CheckpointRefused
    BY <2>3 DEF FlushOnly, Merge, MergeFails, Compact, CheckpointRefused
  <2> QED  BY <2>1, <2>2, <2>3
<1> QED  BY <1>2, <1>3, <1>4, <1>5, QuietLog

\* The commit: the new manifest starts a generation nobody has written to.
LEMMA WriteManifestLog ==
  ASSUME StoreInv, LogInv, WriteManifest
  PROVE  LogInv'
<1> DEFINE new == NewManifest(mem)
<1>1. /\ phase = "persist" /\ Unpersisted = {} /\ SegmentsPlaced
      /\ mem \in Memory /\ MemInv(mem) /\ epoch < MaxEpoch
  BY DEF StoreInv, TypeOK, WriteManifest
<1>2. mem' = mem
  BY <1>1, RetainedSame DEF WriteManifest
<1>3. UNCHANGED <<epoch, wal_failed, applied, published, files, wals, synced>>
  BY DEF WriteManifest
<1>4. \/ /\ manifest' = new /\ prior' = new /\ phase' = "rotate"
         /\ poisoned' = poisoned
      \/ /\ manifest' \in {manifest, new} /\ prior' = prior
         /\ phase' = "open" /\ poisoned' = TRUE
  BY <1>2, <1>3 DEF WriteManifest, NewManifest
<1>5. /\ ~poisoned /\ manifest = prior /\ prior.epoch = epoch
      /\ mem.buffer = {}
  BY <1>1 DEF LogInv, ManifestsInStep, CommitComplete
<1>6. new.epoch = epoch + 1
  BY DEF NewManifest
<1>7. \A i \in Ids : ReadsOnOpen(new, files, i) = Reads(mem, i)
  <2>1. /\ \A s \in mem.segment_ids : files[s] = mem.segments[s]
        /\ files \in Payloads /\ MemInv(mem)
    BY <1>1 DEF Unpersisted, SegmentsPlaced, StoreInv, TypeOK
  <2> QED  BY <1>1, <1>5, <2>1, NewManifestContents
<1> HIDE DEF new
<1>8. ManifestsInStep'
  BY <1>3, <1>4, <1>5, <1>6 DEF ManifestsInStep
<1>9. FreshLogsEmpty'
  BY <1>1, <1>3, <1>4, <1>5, <1>6, LogTypes DEF LogInv, FreshLogsEmpty
<1>10. RecordsApplied'
  BY <1>1, <1>3, <1>4 DEF LogInv, RecordsApplied, Log
<1>11. CommitComplete'
  BY <1>2, <1>3, <1>4, <1>5, <1>7 DEF CommitComplete
<1>12. PublishedCommitted'
  BY <1>1, <1>3, <1>4 DEF LogInv, PublishedCommitted
<1> QED  BY <1>8, <1>9, <1>10, <1>11, <1>12 DEF LogInv

\* What collection does to the logs: it empties some generations.
LEMMA CollectLogs ==
  ASSUME StoreInv, NEW garbage, NEW stale, Collect(garbage, stale)
  PROVE  \A e \in Epochs :
           /\ \/ wals'[e] = wals[e] /\ synced'[e] = synced[e]
              \/ e \in stale /\ wals'[e] = <<>> /\ synced'[e] = 0
           /\ wals[e] = <<>> /\ synced[e] = 0 =>
                wals'[e] = <<>> /\ synced'[e] = 0
<1>1. PICK left :
        /\ wals' = [e \in Epochs |-> IF e \in stale \ left THEN <<>> ELSE wals[e]]
        /\ synced' = [e \in Epochs |-> IF e \in stale \ left THEN 0 ELSE synced[e]]
  BY DEF Collect
<1> SUFFICES ASSUME NEW e \in Epochs
             PROVE  \/ wals'[e] = wals[e] /\ synced'[e] = synced[e]
                    \/ e \in stale /\ wals'[e] = <<>> /\ synced'[e] = 0
  OBVIOUS
<1>2. CASE e \in stale \ left
  <2>1. wals'[e] = <<>> /\ synced'[e] = 0
    BY <1>1, <1>2, Zenon
  <2> QED  BY <1>2, <2>1
<1>3. CASE e \notin stale \ left
  <2>1. wals'[e] = wals[e] /\ synced'[e] = synced[e]
    BY <1>1, <1>3, Zenon
  <2> QED  BY <2>1
<1> QED  BY <1>2, <1>3

\* The rotation takes up the generation of the new manifest.
LEMMA RotateLog ==
  ASSUME StoreInv, LogInv, RotateAndGc
  PROVE  LogInv'
<1>1. /\ phase = "rotate" /\ phase' = "publish"
      /\ epoch' = epoch + 1 /\ wal_failed' = FALSE /\ applied' = 0
      /\ Collect(SegIds \ mem.segment_ids, {epoch})
      /\ UNCHANGED <<mem, poisoned, published, manifest, prior>>
  BY DEF RotateAndGc
<1>2. ~poisoned /\ manifest = prior /\ prior.epoch = epoch + 1
  BY <1>1 DEF LogInv, ManifestsInStep
<1>3. \A e \in Epochs :
        wals[e] = <<>> /\ synced[e] = 0 => wals'[e] = <<>> /\ synced'[e] = 0
  BY <1>1, CollectLogs
<1>4. ManifestsInStep'
  BY <1>1, <1>2 DEF ManifestsInStep
<1>5. FreshLogsEmpty'
  BY <1>1, <1>3 DEF LogInv, FreshLogsEmpty
<1>6. RecordsApplied'
  <2>1. Log' = <<>>
    BY <1>1, <1>2, <1>5, LogTypes DEF FreshLogsEmpty, Log
  <2> QED  BY <1>1, <2>1 DEF RecordsApplied
<1>7. CommitComplete'
  <2>1. \A i \in Ids : ReadsOnOpen(prior, files', i) = ReadsOnOpen(prior, files, i)
    <3>1. Next
      BY DEF Next, WriterNext
    <3> QED  BY <1>1, <3>1, ContentsKept
  <2> QED  BY <1>1, <2>1 DEF LogInv, CommitComplete
<1>8. PublishedCommitted'
  BY <1>1 DEF PublishedCommitted
<1> QED  BY <1>4, <1>5, <1>6, <1>7, <1>8 DEF LogInv

\* What a snapshot of the memory shows.
LEMMA SnapshotReads ==
  ASSUME NEW m, m.buffer = {}, NEW i
  PROVE  LiveItems(Snapshot(m), Snapshot(m).segments, i) = Reads(m, i)
BY DEF Snapshot, LiveItems, Reads

\* The publication ends a checkpoint.
LEMMA RepublishLog ==
  ASSUME StoreInv, LogInv, Republish
  PROVE  LogInv'
<1>1. /\ phase = "publish" /\ phase' = "open" /\ published' = Snapshot(mem)
      /\ UNCHANGED <<process, disk>>
  BY DEF Republish
<1>2. UNCHANGED <<mem, epoch, poisoned, wal_failed, applied, manifest, prior,
                  files, wals, synced>>
  BY <1>1 DEF process, disk
<1>3. ManifestsInStep'
  BY <1>1, <1>2 DEF LogInv, ManifestsInStep
<1>4. FreshLogsEmpty'
  BY <1>1, <1>2 DEF LogInv, FreshLogsEmpty
<1>5. RecordsApplied'
  BY <1>1, <1>2 DEF LogInv, RecordsApplied, Log
<1>6. CommitComplete'
  BY <1>1 DEF CommitComplete
<1>7. PublishedCommitted'
  <2>1. \A i \in Ids : /\ LiveItems(Snapshot(mem), Snapshot(mem).segments, i)
                            = Reads(mem, i)
                       /\ ReadsOnOpen(prior, files, i) = Reads(mem, i)
    BY <1>1, SnapshotReads DEF LogInv, CommitComplete
  <2> QED  BY <1>1, <1>2, <2>1 DEF PublishedCommitted
<1> QED  BY <1>3, <1>4, <1>5, <1>6, <1>7 DEF LogInv

\* open takes the manifest it finds for good, and none of its records yet.
LEMMA OpenLoadLog ==
  ASSUME StoreInv, LogInv, OpenLoad
  PROVE  LogInv'
<1>1. /\ phase = "down" /\ phase' = "replay"
      /\ mem' = Load(manifest, files) /\ published' = Snapshot(mem')
      /\ epoch' = manifest.epoch /\ poisoned' = FALSE /\ wal_failed' = FALSE
      /\ applied' = 0 /\ prior' = manifest /\ manifest' = manifest
      /\ Collect(SegIds \ manifest.segment_ids, Epochs \ {manifest.epoch})
  BY DEF OpenLoad
<1>2. manifest.epoch >= prior.epoch
  BY LogTypes DEF LogInv, ManifestsInStep
<1>3. \A e \in Epochs :
        wals[e] = <<>> /\ synced[e] = 0 => wals'[e] = <<>> /\ synced'[e] = 0
  BY <1>1, CollectLogs
<1>4. ManifestsInStep'
  BY <1>1 DEF ManifestsInStep
<1>5. FreshLogsEmpty'
  <2>1. \A e \in Epochs : e > manifest.epoch => e > prior.epoch
    BY <1>2, LogTypes
  <2> QED  BY <1>1, <1>3, <2>1 DEF LogInv, FreshLogsEmpty
<1>6. RecordsApplied'
  <2>1. Len(Log)' \in Nat
    BY NextInv, LogTypes DEF Next, StoreInv, TypeOK, Log
  <2> QED  BY <1>1, <2>1 DEF RecordsApplied
<1>7. CommitComplete'
  BY <1>1 DEF CommitComplete
<1>8. PublishedCommitted'
  <2>1. \A i \in Ids : Reads(mem', i) = ReadsOnOpen(manifest, files, i)
    BY OpenLoadReads
  <2>2. mem'.buffer = {}
    BY <1>1 DEF Load
  <2>3. \A i \in Ids : LiveItems(published', published'.segments, i) = Reads(mem', i)
    BY <1>1, <2>2, SnapshotReads
  <2>4. \A i \in Ids : ReadsOnOpen(manifest, files', i) = ReadsOnOpen(manifest, files, i)
    <3>1. Next
      BY DEF Next
    <3> QED  BY <1>1, <3>1, ContentsKept
  <2> QED  BY <1>1, <2>1, <2>3, <2>4 DEF PublishedCommitted
<1> QED  BY <1>4, <1>5, <1>6, <1>7, <1>8 DEF LogInv

\* A replayed record.
LEMMA ReplayLog ==
  ASSUME StoreInv, LogInv, Replay
  PROVE  LogInv'
<1>1. /\ phase = "replay" /\ phase' = "replay" /\ applied < Len(Log)
      /\ applied' = applied + 1
      /\ UNCHANGED <<epoch, poisoned, wal_failed, published, manifest, prior,
                     files, wals, synced>>
  BY DEF Replay, disk
<1>2. ManifestsInStep' /\ FreshLogsEmpty'
  BY <1>1 DEF LogInv, ManifestsInStep, FreshLogsEmpty
<1>3. RecordsApplied'
  BY <1>1, LogTypes DEF LogInv, RecordsApplied, Log
<1>4. CommitComplete' /\ PublishedCommitted'
  BY <1>1 DEF LogInv, CommitComplete, PublishedCommitted
<1> QED  BY <1>2, <1>3, <1>4 DEF LogInv

\* The end of the replay.
LEMMA OpenDoneLog ==
  ASSUME StoreInv, LogInv, OpenDone
  PROVE  LogInv'
<1>1. /\ phase = "replay" /\ phase' = "open" /\ applied = Len(Log)
      /\ UNCHANGED <<mem, epoch, poisoned, wal_failed, applied, published,
                     manifest, prior, files, wals, synced>>
  BY DEF OpenDone, process, disk
<1>2. ManifestsInStep' /\ FreshLogsEmpty'
  BY <1>1 DEF LogInv, ManifestsInStep, FreshLogsEmpty
<1>3. RecordsApplied'
  BY <1>1 DEF LogInv, RecordsApplied, Log
<1>4. CommitComplete' /\ PublishedCommitted'
  BY <1>1 DEF LogInv, CommitComplete, PublishedCommitted
<1> QED  BY <1>2, <1>3, <1>4 DEF LogInv

\* What a log that loses its tail is left with.
LEMMA LoseTailFacts ==
  ASSUME StoreInv, NEW from \in Nat, LoseTail(from)
  PROVE  \E k \in from .. Len(wals[prior.epoch]) :
           /\ wals'[prior.epoch] = SubSeq(wals[prior.epoch], 1, k)
           /\ Len(wals'[prior.epoch]) = k
           /\ synced'[prior.epoch] = IF k < synced[prior.epoch]
                                       THEN k ELSE synced[prior.epoch]
           /\ \A e \in Epochs : e # prior.epoch =>
                wals'[e] = wals[e] /\ synced'[e] = synced[e]
<1>1. PICK k \in from .. Len(wals[prior.epoch]) :
        /\ wals' = [wals EXCEPT ![prior.epoch] = SubSeq(@, 1, k)]
        /\ synced' = [synced EXCEPT ![prior.epoch] = IF k < @ THEN k ELSE @]
  BY DEF LoseTail
<1>2. /\ k \in Nat /\ wals[prior.epoch] \in Seq(Ops)
      /\ k <= Len(wals[prior.epoch])
  BY <1>1, LogTypes
<1>3. Len(SubSeq(wals[prior.epoch], 1, k)) = k
  BY <1>2
<1> QED  BY <1>1, <1>3, LogTypes

\* A crash: no generation comes to have a record by it.
LEMMA StopLog ==
  ASSUME StoreInv, LogInv, ProcessCrash \/ PowerLoss
  PROVE  LogInv'
<1>1. /\ phase' = "down" /\ epoch' = 0 /\ applied' = 0 /\ poisoned' = FALSE
      /\ wal_failed' = FALSE /\ files' = files
  BY DEF ProcessCrash, PowerLoss, Stop
<1>2. \/ manifest' = manifest /\ prior' = prior
      \/ manifest' \in {manifest, prior} /\ prior' = manifest'
  BY DEF ProcessCrash, PowerLoss
<1>3. PICK from \in Nat : LoseTail(from)
  BY LogTypes DEF ProcessCrash, PowerLoss
<1>4. \A e \in Epochs : e > prior.epoch =>
        wals'[e] = wals[e] /\ synced'[e] = synced[e]
  BY <1>3, LoseTailFacts, LogTypes
<1>5. ManifestsInStep'
  BY <1>1, <1>2 DEF LogInv, ManifestsInStep
<1>6. FreshLogsEmpty'
  <2>1. \A e \in Epochs : e > prior'.epoch => e > prior.epoch
    BY <1>2, LogTypes DEF LogInv, ManifestsInStep
  <2> QED  BY <1>1, <1>4, <2>1 DEF LogInv, FreshLogsEmpty
<1>7. RecordsApplied'
  <2>1. Len(Log)' \in Nat
    BY NextInv, LogTypes DEF Next, StoreInv, TypeOK, Log
  <2> QED  BY <1>1, <2>1 DEF RecordsApplied
<1>8. CommitComplete' /\ PublishedCommitted'
  BY <1>1 DEF CommitComplete, PublishedCommitted
<1> QED  BY <1>5, <1>6, <1>7, <1>8 DEF LogInv

\* Before the first open there is nothing.
LEMMA LogInit == Init => LogInv
<1> SUFFICES ASSUME Init PROVE LogInv
  OBVIOUS
<1>1. /\ phase = "down" /\ manifest = prior /\ applied = 0
      /\ wals = [e \in Epochs |-> <<>>] /\ synced = [e \in Epochs |-> 0]
      /\ prior.epoch = 0 /\ epoch = 0 /\ 0 \in Epochs
  BY StoreAssumption DEF Init, NoManifest, Epochs
<1>2. ManifestsInStep /\ FreshLogsEmpty /\ CommitComplete /\ PublishedCommitted
  BY <1>1 DEF ManifestsInStep, FreshLogsEmpty, CommitComplete,
              PublishedCommitted
<1>3. Log = <<>> /\ RecordsApplied
  BY <1>1 DEF RecordsApplied, Log
<1> QED  BY <1>2, <1>3 DEF LogInv

\* Every step keeps LogInv.
LEMMA LogNextInv == StoreInv /\ LogInv /\ [Next]_vars => LogInv'
<1> SUFFICES ASSUME StoreInv, LogInv, [Next]_vars
             PROVE  LogInv'
  OBVIOUS
<1>1. CASE \E op \in Ops : Write(op) \/ WriteFails(op) \/ ExtendItem(op)
  BY <1>1, WriteLog, WriteFailsLog
<1>2. CASE ExtendSync
  BY <1>2, ExtendSyncLog
<1>3. CASE \/ FlushOnly \/ (\E group \in SUBSET SegIds : Merge(group)) \/ Compact
           \/ CheckpointRefused \/ CheckpointStart \/ PersistNext
  BY <1>3, BeforeCommitLog
<1>4. CASE WriteManifest
  BY <1>4, WriteManifestLog
<1>5. CASE RotateAndGc
  BY <1>5, RotateLog
<1>6. CASE Republish
  BY <1>6, RepublishLog
<1>7. CASE OpenLoad
  BY <1>7, OpenLoadLog
<1>8. CASE Replay
  BY <1>8, ReplayLog
<1>9. CASE OpenDone
  BY <1>9, OpenDoneLog
<1>10. CASE ProcessCrash \/ PowerLoss
  BY <1>10, StopLog
<1>11. CASE UNCHANGED vars
  BY <1>11 DEF vars, process, disk, LogInv, ManifestsInStep, FreshLogsEmpty,
               RecordsApplied, Log, CommitComplete, PublishedCommitted
<1> QED
  BY <1>1, <1>2, <1>3, <1>4, <1>5, <1>6, <1>7, <1>8, <1>9, <1>10, <1>11
     DEF Next, WriterNext

\* In every reachable state the log, the two manifests and the snapshot go with
\* one another as LogInv says, whatever failed or crashed on the way.
THEOREM LogAlwaysInStep == Spec => []LogInv
<1>1. Init => StoreInv /\ LogInv
  BY InitInv, LogInit
<1>2. StoreInv /\ LogInv /\ [Next]_vars => StoreInv' /\ LogInv'
  BY NextInv, LogNextInv
<1> QED  BY <1>1, <1>2, PTL DEF Spec

-----------------------------------------------------------------------------
(* NoWriteLost.                                                            *)

\* The manifest a write goes on top of.
LEMMA WriteRecovers ==
  ASSUME StoreInv, LogInv, NoWriteLost, TracksIds,
         NEW op \in Ops, Write(op) \/ ExtendItem(op)
  PROVE  \A i \in Ids :
           Reads(mem', i) =
             After(ReadsOnOpen(prior, files, i), wals'[epoch], Len(Log) + 1, i)
<1>1. /\ phase \in {"open", "extend"} /\ ~poisoned /\ ~wal_failed
      /\ mem' = Applied(mem, op) /\ HasRoom(mem)
      /\ wals' = [wals EXCEPT ![epoch] = Append(@, op)]
  BY DEF Write, ExtendItem, CanWrite, AppendRecord
<1>2. /\ mem \in Memory /\ MemInv(mem)
      /\ prior.epoch = epoch /\ applied = Len(Log)
  BY <1>1 DEF StoreInv, TypeOK, LogInv, ManifestsInStep, RecordsApplied
<1> SUFFICES ASSUME NEW i \in Ids
             PROVE  Reads(mem', i) = After(ReadsOnOpen(prior, files, i),
                                           wals'[epoch], Len(Log) + 1, i)
  OBVIOUS
<1>3. Reads(mem', i) = Overwritten(Reads(mem, i), op, i)
  BY <1>1, <1>2, AppliedReads
<1>4. Reads(mem, i) = After(ReadsOnOpen(prior, files, i), Log, Len(Log), i)
  BY <1>1, <1>2 DEF NoWriteLost, Recovered, Log
<1>5. wals'[epoch] = Append(Log, op) /\ Log \in Seq(Ops)
  BY <1>1, LogTypes DEF Log
<1>6. After(ReadsOnOpen(prior, files, i), Append(Log, op), Len(Log) + 1, i) =
        Overwritten(After(ReadsOnOpen(prior, files, i), Log, Len(Log), i), op, i)
  <2>1. PICK log \in Seq(Ops) : log = Log
    BY <1>5
  <2>2. PICK base : base = ReadsOnOpen(prior, files, i)
    OBVIOUS
  <2>3. After(base, Append(log, op), Len(log) + 1, i) =
          Overwritten(After(base, log, Len(log), i), op, i)
    BY AfterAppend
  <2> QED  BY <2>1, <2>2, <2>3
<1> QED  BY <1>3, <1>4, <1>5, <1>6

\* A taken write is recovered from the record it appended.
LEMMA WriteKeeps ==
  ASSUME StoreInv, LogInv, NoWriteLost, TracksIds,
         NEW op \in Ops, Write(op) \/ ExtendItem(op)
  PROVE  NoWriteLost'
<1>1. /\ phase \in {"open", "extend"} /\ ~poisoned
      /\ applied' = Len(Log) + 1
      /\ UNCHANGED <<epoch, manifest, prior, files>>
  BY DEF Write, ExtendItem, CanWrite
<1>2. manifest = prior /\ prior.epoch = epoch
  BY <1>1 DEF LogInv, ManifestsInStep
<1>3. \A i \in Ids : Recovered(prior, i)' = Reads(mem', i)
  BY <1>1, <1>2, WriteRecovers DEF Recovered
<1> QED  BY <1>1, <1>2, <1>3 DEF NoWriteLost

\* The record of a refused write is behind those that recovery is about.
LEMMA WriteFailsKeeps ==
  ASSUME StoreInv, LogInv, NoWriteLost, TracksIds,
         NEW op \in Ops, WriteFails(op)
  PROVE  NoWriteLost'
<1>1. /\ phase \in {"open", "extend"} /\ ~poisoned
      /\ wals' \in {wals, [wals EXCEPT ![epoch] = Append(@, op)]}
      /\ UNCHANGED <<mem, epoch, applied, manifest, prior, files>>
  BY DEF WriteFails, CanWrite, AppendRecord
<1>2. manifest = prior /\ prior.epoch = epoch /\ applied \in 0 .. Len(Log)
  BY <1>1, LogTypes DEF LogInv, ManifestsInStep, RecordsApplied
<1>3. ASSUME NEW i \in Ids
      PROVE  Recovered(prior, i)' = Recovered(prior, i)
  <2>1. \/ wals'[epoch] = Log
        \/ wals'[epoch] = Append(Log, op)
    BY <1>1, LogTypes DEF Log
  <2>2. After(ReadsOnOpen(prior, files, i), Append(Log, op), applied, i) =
          After(ReadsOnOpen(prior, files, i), Log, applied, i)
    <3>0. PICK log \in Seq(Ops) : log = Log
      BY LogTypes
    <3>1. PICK base : base = ReadsOnOpen(prior, files, i)
      OBVIOUS
    <3>2. \A n \in 0 .. Len(log) :
            After(base, Append(log, op), n, i) = After(base, log, n, i)
      BY AfterAppend
    <3> QED  BY <1>2, <3>0, <3>1, <3>2
  <2> QED  BY <1>1, <1>2, <2>1, <2>2 DEF Recovered, Log
<1> QED  BY <1>1, <1>2, <1>3 DEF NoWriteLost

\* A step that changes neither what is read nor what recovery starts from.
LEMMA QuietKeeps ==
  ASSUME StoreInv, LogInv, NoWriteLost, Next, TracksIds, phase # "down",
         UNCHANGED <<epoch, applied, manifest, prior, wals>>,
         \A i \in Ids : Reads(mem', i) = Reads(mem, i)
  PROVE  NoWriteLost'
<1>1. \A c \in {manifest, prior}, i \in Ids :
        ReadsOnOpen(c, files', i) = ReadsOnOpen(c, files, i)
  BY ContentsKept
<1>2. \A c \in {manifest, prior}, i \in Ids : Recovered(c, i)' = Recovered(c, i)
  BY <1>1 DEF Recovered
<1> QED  BY <1>2 DEF NoWriteLost

\* The new manifest holds all there was to recover.
LEMMA WriteManifestKeeps ==
  ASSUME StoreInv, LogInv, NoWriteLost, TracksIds, WriteManifest
  PROVE  NoWriteLost'
<1>0. PICK new : new = NewManifest(mem)
  OBVIOUS
<1>1. /\ phase = "persist" /\ Unpersisted = {} /\ SegmentsPlaced
      /\ mem \in Memory /\ MemInv(mem)
      /\ UNCHANGED <<epoch, applied, files, wals>>
  BY DEF StoreInv, TypeOK, WriteManifest
<1>2. mem' = mem
  BY <1>1, RetainedSame DEF WriteManifest
<1>3. manifest' \in {manifest, new} /\ prior' \in {prior, new}
  BY <1>0, <1>1, <1>2 DEF WriteManifest, NewManifest
<1>4. mem.buffer = {} /\ new.epoch = epoch + 1
  BY <1>1, <1>0 DEF LogInv, CommitComplete, NewManifest
<1>5. \A i \in Ids : ReadsOnOpen(new, files, i) = Reads(mem, i)
  <2>1. /\ \A s \in mem.segment_ids : files[s] = mem.segments[s]
        /\ files \in Payloads /\ MemInv(mem)
    BY <1>1 DEF Unpersisted, SegmentsPlaced, StoreInv, TypeOK
  <2> QED  BY <1>0, <1>1, <1>4, <2>1, NewManifestContents
<1>6. \A i \in Ids : Recovered(new, i)' = Reads(mem, i)
  <2>1. new.epoch # epoch
    BY <1>4, LogTypes
  <2>2. ASSUME NEW i \in Ids
        PROVE  Recovered(new, i)' = After(ReadsOnOpen(new, files, i), wals[new.epoch], 0, i)
    BY <1>1, <2>1 DEF Recovered
  <2> QED  BY <1>5, <2>2, AfterStart
<1>7. \A c \in {manifest, prior}, i \in Ids : Recovered(c, i)' = Reads(mem, i)
  <2>1. \A c \in {manifest, prior}, i \in Ids : Recovered(c, i) = Reads(mem, i)
    BY <1>1 DEF NoWriteLost
  <2>2. \A c \in {manifest, prior}, i \in Ids : Recovered(c, i)' = Recovered(c, i)
    BY <1>1 DEF Recovered
  <2> QED  BY <2>1, <2>2
<1> QED  BY <1>2, <1>3, <1>6, <1>7 DEF NoWriteLost

\* The rotation starts the log of the new manifest, of which nothing is applied.
LEMMA RotateKeeps ==
  ASSUME StoreInv, LogInv, NoWriteLost, TracksIds, RotateAndGc
  PROVE  NoWriteLost'
<1>1. /\ phase = "rotate" /\ epoch' = epoch + 1 /\ applied' = 0
      /\ UNCHANGED <<mem, manifest, prior>>
  BY DEF RotateAndGc
<1>2. manifest = prior
  BY <1>1 DEF LogInv, ManifestsInStep
<1>3. \A i \in Ids : ReadsOnOpen(prior, files', i) = Reads(mem, i)
  <2>1. Next
    BY DEF Next, WriterNext
  <2> QED  BY <1>1, <2>1, ContentsKept DEF LogInv, CommitComplete
<1>4. \A i \in Ids : Recovered(prior, i)' = Reads(mem, i)
  BY <1>1, <1>3, AfterStart DEF Recovered
<1> QED  BY <1>1, <1>2, <1>4 DEF NoWriteLost

\* open starts from the manifest alone.
LEMMA OpenLoadKeeps ==
  ASSUME StoreInv, LogInv, TracksIds, OpenLoad
  PROVE  NoWriteLost'
<1>1. /\ epoch' = manifest.epoch /\ applied' = 0
      /\ manifest' = manifest /\ prior' = manifest
  BY DEF OpenLoad
<1>2. \A i \in Ids : ReadsOnOpen(manifest, files', i) = ReadsOnOpen(manifest, files, i)
  <2>1. Next
    BY DEF Next
  <2> QED  BY <1>1, <2>1, ContentsKept
<1>3. \A i \in Ids : Recovered(manifest, i)' = Reads(mem', i)
  BY <1>1, <1>2, OpenLoadReads, AfterStart DEF Recovered
<1> QED  BY <1>1, <1>3 DEF NoWriteLost

\* A record is replayed over what the records before it gave.
LEMMA ReplayKeeps ==
  ASSUME StoreInv, LogInv, NoWriteLost, TracksIds, Replay
  PROVE  NoWriteLost'
<1>1. /\ phase = "replay" /\ applied < Len(Log) /\ HasRoom(mem)
      /\ mem' = Applied(mem, Log[applied + 1]) /\ applied' = applied + 1
      /\ UNCHANGED <<epoch, manifest, prior, files, wals>>
  BY DEF Replay, disk
<1>2. /\ manifest = prior /\ prior.epoch = epoch
      /\ mem \in Memory /\ MemInv(mem)
      /\ Log[applied + 1] \in Ops
  BY <1>1, LogTypes DEF LogInv, ManifestsInStep, StoreInv, TypeOK
<1>3. PICK op \in Ops : op = Log[applied + 1]
  BY <1>2
<1>4. ASSUME NEW i \in Ids
      PROVE  Recovered(prior, i)' = Reads(mem', i)
  <2>1. Reads(mem', i) = Overwritten(Reads(mem, i), op, i)
    BY <1>1, <1>2, <1>3, AppliedReads
  <2>2. Reads(mem, i) = After(ReadsOnOpen(prior, files, i), Log, applied, i)
    BY <1>1, <1>2 DEF NoWriteLost, Recovered, Log
  <2>3. After(ReadsOnOpen(prior, files, i), Log, applied + 1, i) =
          Overwritten(After(ReadsOnOpen(prior, files, i), Log, applied, i), op, i)
    BY <1>3, LogTypes, AfterNext
  <2> QED  BY <1>1, <1>2, <2>1, <2>2, <2>3 DEF Recovered, Log
<1> QED  BY <1>1, <1>2, <1>4 DEF NoWriteLost

\* Every step keeps NoWriteLost.
LEMMA NextKeeps ==
  StoreInv /\ LogInv /\ NoWriteLost /\ [Next]_vars => NoWriteLost'
<1> SUFFICES ASSUME StoreInv, LogInv, NoWriteLost, [Next]_vars, TracksIds
             PROVE  NoWriteLost'
  BY DEF NoWriteLost
<1>1. CASE \E op \in Ops : Write(op) \/ ExtendItem(op)
  BY <1>1, WriteKeeps
<1>2. CASE \E op \in Ops : WriteFails(op)
  BY <1>2, WriteFailsKeeps
<1>3. CASE ExtendSync
  <2>1. /\ phase # "down"
        /\ UNCHANGED <<mem, epoch, applied, manifest, prior, wals>>
    BY <1>3 DEF ExtendSync
  <2> QED  BY <1>3, <2>1, QuietKeeps DEF Next, WriterNext
<1>4. CASE \/ FlushOnly \/ (\E group \in SUBSET SegIds : Merge(group)) \/ Compact
           \/ CheckpointRefused \/ CheckpointStart \/ PersistNext \/ Republish
  <2>1. /\ phase # "down"
        /\ UNCHANGED <<epoch, applied, manifest, prior, wals>>
    BY <1>4 DEF FlushOnly, Merge, Compact, MergeFrame, CheckpointRefused,
                CheckpointStart, PersistNext, Republish, process, disk
  <2>2. \A i \in Ids : Reads(mem', i) = Reads(mem, i)
    BY <1>4, MaintenanceReads DEF Maintenance
  <2>3. Next
    BY <1>4 DEF Next, WriterNext
  <2> QED  BY <2>1, <2>2, <2>3, QuietKeeps
<1>5. CASE WriteManifest
  BY <1>5, WriteManifestKeeps
<1>6. CASE RotateAndGc
  BY <1>6, RotateKeeps
<1>7. CASE OpenLoad
  BY <1>7, OpenLoadKeeps
<1>8. CASE Replay
  BY <1>8, ReplayKeeps
<1>9. CASE OpenDone
  <2>1. /\ phase # "down"
        /\ UNCHANGED <<mem, epoch, applied, manifest, prior, wals>>
    BY <1>9 DEF OpenDone, process, disk
  <2> QED  BY <1>9, <2>1, QuietKeeps DEF Next
<1>10. CASE ProcessCrash \/ PowerLoss
  BY <1>10 DEF ProcessCrash, PowerLoss, Stop, NoWriteLost
<1>11. CASE UNCHANGED vars
  BY <1>11 DEF vars, process, disk, NoWriteLost, Recovered
<1> QED
  BY <1>1, <1>2, <1>3, <1>4, <1>5, <1>6, <1>7, <1>8, <1>9, <1>10, <1>11
     DEF Next, WriterNext

\* No write the store has taken is ever missing from the manifest and the WAL
\* that the next open reads, whichever of the two manifests that is.
THEOREM WritesNeverLost == Spec => []NoWriteLost
<1>1. Init => StoreInv /\ LogInv /\ NoWriteLost
  BY InitInv, LogInit DEF Init, NoWriteLost
<1>2. StoreInv /\ LogInv /\ NoWriteLost /\ [Next]_vars
        => StoreInv' /\ LogInv' /\ NoWriteLost'
  BY NextInv, LogNextInv, NextKeeps
<1> QED  BY <1>1, <1>2, PTL DEF Spec

-----------------------------------------------------------------------------
(* SegStore implements DurableMap.                                         *)

\* The log reads the same in both specifications.
LEMMA SameAfter ==
  ASSUME NEW b, NEW l, NEW n, NEW i
  PROVE  Map!After(b, l, n, i) = After(b, l, n, i)
BY DEF Map!After, Map!Touching, After, Touching

\* No map is Nothing.
LEMMA MapsAreMaps ==
  /\ \A c : ContentsOf(c) # Nothing
  /\ \A m : [i \in Ids |-> Reads(m, i)] # Nothing
<1>1. \A m, i : Reads(m, i) \in SUBSET Items
  BY DEF Reads, LiveItems
<1>2. \A c, i : ReadsOnOpen(c, files, i) \in SUBSET Items
  BY DEF ReadsOnOpen
<1>3. \A c : ContentsOf(c) \in [Ids -> SUBSET Items]
  BY <1>2 DEF ContentsOf
<1>4. \A m : [i \in Ids |-> Reads(m, i)] \in [Ids -> SUBSET Items]
  BY <1>1
<1> QED  BY <1>3, <1>4, NothingAssumption

\* The map the log makes of the committed one.
LEMMA ContentsRead ==
  ASSUME NoWriteLost, TracksIds, phase # "down",
         prior.epoch = epoch, TakenRecords = applied
  PROVE  Map!Contents = [i \in Ids |-> Reads(mem, i)]
<1>1. \A i \in Ids : Recovered(prior, i) = Reads(mem, i)
  BY DEF NoWriteLost
<1>2. \A i \in Ids :
        Map!After(ContentsOf(prior)[i], wals[prior.epoch], TakenRecords, i)
          = Reads(mem, i)
  BY <1>1, SameAfter DEF Recovered, ContentsOf
<1> QED  BY <1>2 DEF Map!Contents, Map!MapAfter

\* A state in which the writer may write is one in which the map may be written.
LEMMA MayWriteFacts ==
  ASSUME StoreInv, LogInv, phase \in {"open", "extend"}, ~poisoned, ~wal_failed
  PROVE  /\ manifest = prior /\ prior.epoch = epoch
         /\ applied = Len(Log) /\ TakenRecords = applied /\ Map!MayWrite
<1>1. /\ manifest = prior /\ prior.epoch = epoch /\ applied = Len(Log)
  BY DEF LogInv, ManifestsInStep, RecordsApplied
<1>2. TakenRecords = applied
  BY DEF TakenRecords, Serving
<1>3. Serving /\ WriterMap # Nothing
  BY MapsAreMaps DEF Serving, WriterMap
<1> QED  BY <1>1, <1>2, <1>3 DEF Map!MayWrite, DoubtfulMap, Log

\* add, delete and the items of extend.
LEMMA WriteImplements ==
  ASSUME StoreInv, LogInv, NoWriteLost, TracksIds, NEW op \in Ops,
         Write(op) \/ ExtendItem(op)
  PROVE  Map!Write(op) \/ Map!WriteLazily(op)
<1>1. /\ phase \in {"open", "extend"} /\ phase' \in {"open", "extend"}
      /\ ~poisoned /\ ~wal_failed
      /\ wals' = [wals EXCEPT ![epoch] = Append(@, op)]
      /\ applied' = Len(Log) + 1
      /\ UNCHANGED <<epoch, poisoned, published, manifest, prior, files>>
  BY DEF Write, ExtendItem, CanWrite, AppendRecord
<1>2. /\ manifest = prior /\ prior.epoch = epoch
      /\ applied = Len(Log) /\ TakenRecords = applied /\ Map!MayWrite
  BY <1>1, MayWriteFacts
<1>3. Serving' /\ TakenRecords' = TakenRecords + 1
  BY <1>1, <1>2 DEF TakenRecords, Serving
<1>4. (wals[prior.epoch])' = Append(wals[prior.epoch], op)
  BY <1>1, <1>2, LogTypes
<1>5. UNCHANGED <<ContentsOf(prior), DoubtfulMap, ReaderMap>>
  BY <1>1, <1>2 DEF ContentsOf, DoubtfulMap, ReaderMap
<1>6. WriterMap' = [i \in Ids |-> Map!After(ContentsOf(prior)[i],
                                            (wals[prior.epoch])', TakenRecords', i)]
  <2>1. ASSUME NEW i \in Ids
        PROVE  Reads(mem', i) = Map!After(ContentsOf(prior)[i],
                                          (wals[prior.epoch])', TakenRecords', i)
    <3>1. Reads(mem', i) =
            After(ReadsOnOpen(prior, files, i), wals'[epoch], Len(Log) + 1, i)
      BY WriteRecovers
    <3> QED  BY <1>1, <1>2, <1>3, <3>1, SameAfter DEF ContentsOf
  <2> QED  BY <1>3, <2>1 DEF WriterMap
<1>7. Map!TakeRecord(op)
  BY <1>2, <1>3, <1>4, <1>5, <1>6 DEF Map!TakeRecord
<1>8. \/ (synced[prior.epoch])' = TakenRecords'
      \/ UNCHANGED synced[prior.epoch]
  <2>1. \/ synced' = [synced EXCEPT ![epoch] = Len(Log) + 1]
        \/ UNCHANGED synced
    BY DEF Write, ExtendItem
  <2> QED  BY <1>1, <1>2, <1>3, <2>1, LogTypes
<1> QED  BY <1>7, <1>8 DEF Map!Write, Map!WriteLazily

\* A refused write, whose record may be in the log.
LEMMA WriteFailsImplements ==
  ASSUME StoreInv, LogInv, NEW op \in Ops, WriteFails(op)
  PROVE  Map!Refuse(op) \/ UNCHANGED Map!dmVars
<1>1. /\ phase \in {"open", "extend"} /\ phase' = "open"
      /\ ~poisoned /\ ~wal_failed
      /\ wals' \in {wals, [wals EXCEPT ![epoch] = Append(@, op)]}
      /\ UNCHANGED <<mem, epoch, applied, published, manifest, prior, files, synced>>
  BY DEF WriteFails, CanWrite, AppendRecord
<1>2. /\ prior.epoch = epoch /\ TakenRecords = applied /\ Map!MayWrite
  BY <1>1, MayWriteFacts
<1>3. \/ (wals[prior.epoch])' = Append(wals[prior.epoch], op)
      \/ UNCHANGED wals[prior.epoch]
  BY <1>1, <1>2, LogTypes
<1>4. UNCHANGED TakenRecords
  BY <1>1, <1>2 DEF TakenRecords, Serving
<1>5. UNCHANGED <<ContentsOf(prior), synced[prior.epoch], DoubtfulMap, WriterMap,
                  ReaderMap>>
  BY <1>1 DEF ContentsOf, DoubtfulMap, WriterMap, ReaderMap, Serving
<1> QED  BY <1>2, <1>3, <1>4, <1>5 DEF Map!Refuse, Map!dmVars

\* The sync that ends extend.
LEMMA ExtendSyncImplements ==
  ASSUME StoreInv, LogInv, ExtendSync
  PROVE  Map!Acknowledge \/ UNCHANGED Map!dmVars
<1>1. /\ phase = "extend" /\ phase' = "open"
      /\ \/ synced' = [synced EXCEPT ![epoch] = Len(Log)]
         \/ UNCHANGED synced
      /\ UNCHANGED <<mem, epoch, applied, published, manifest, prior, files, wals>>
  BY DEF ExtendSync
<1>2. ~poisoned /\ ~wal_failed
  BY <1>1 DEF LogInv, ManifestsInStep, RecordsApplied
<1>3. /\ prior.epoch = epoch /\ applied = Len(Log) /\ TakenRecords = applied
      /\ Map!MayWrite
  BY <1>1, <1>2, MayWriteFacts
<1>4. \/ (synced[prior.epoch])' = TakenRecords
      \/ UNCHANGED synced[prior.epoch]
  BY <1>1, <1>3, LogTypes
<1>5. UNCHANGED <<ContentsOf(prior), wals[prior.epoch], TakenRecords, DoubtfulMap,
                  WriterMap, ReaderMap>>
  BY <1>1 DEF ContentsOf, TakenRecords, DoubtfulMap, WriterMap, ReaderMap, Serving
<1> QED  BY <1>3, <1>4, <1>5 DEF Map!Acknowledge, Map!dmVars

\* Seals, merges, and what a checkpoint does before its commit: nothing that
\* the map knows of.
LEMMA BeforeCommitImplements ==
  ASSUME StoreInv,
         \/ FlushOnly \/ (\E group \in SUBSET SegIds : Merge(group)) \/ Compact
         \/ CheckpointRefused \/ CheckpointStart \/ PersistNext
  PROVE  UNCHANGED Map!dmVars
<1>1. Next /\ Maintenance
  BY DEF Next, WriterNext, Maintenance
<1>2. UNCHANGED <<epoch, applied, published, manifest, prior, wals, synced>>
  BY DEF FlushOnly, Merge, Compact, MergeFrame, CheckpointRefused,
         CheckpointStart, PersistNext, process, disk
<1>3. /\ phase \in {"open", "merged", "purged", "persist"}
      /\ phase' \in {"open", "merged", "purged", "persist"}
  BY DEF FlushOnly, Merge, MergeFails, Compact, CheckpointRefused,
         CheckpointStart, PersistNext
<1>4. UNCHANGED <<ContentsOf(prior), ContentsOf(manifest)>>
  <2>1. \A c \in {manifest, prior}, i \in Ids :
          ReadsOnOpen(c, files', i) = ReadsOnOpen(c, files, i)
    BY <1>1, <1>2, ContentsKept
  <2> QED  BY <1>2, <2>1 DEF ContentsOf
<1>5. UNCHANGED DoubtfulMap
  BY <1>2, <1>4 DEF DoubtfulMap
<1>6. UNCHANGED WriterMap
  <2>1. \A i \in Ids : Reads(mem', i) = Reads(mem, i)
    BY <1>1, MaintenanceReads
  <2> QED  BY <1>3, <2>1 DEF WriterMap, Serving
<1>7. UNCHANGED <<wals[prior.epoch], synced[prior.epoch], TakenRecords, ReaderMap>>
  BY <1>2, <1>3 DEF TakenRecords, Serving, ReaderMap
<1> QED  BY <1>4, <1>5, <1>6, <1>7 DEF Map!dmVars

\* The manifest write: a commit, one in doubt, or none.
LEMMA WriteManifestImplements ==
  ASSUME StoreInv, LogInv, NoWriteLost, TracksIds, WriteManifest
  PROVE  Map!Commit \/ Map!CommitInDoubt \/ UNCHANGED Map!dmVars
<1>0. PICK new : new = NewManifest(mem)
  OBVIOUS
<1>1. /\ phase = "persist" /\ Unpersisted = {} /\ SegmentsPlaced
      /\ mem \in Memory /\ MemInv(mem) /\ epoch < MaxEpoch
      /\ UNCHANGED <<epoch, applied, published, files, wals, synced>>
  BY DEF StoreInv, TypeOK, WriteManifest
<1>2. mem' = mem
  BY <1>1, RetainedSame DEF WriteManifest
<1>3. \/ manifest' = new /\ prior' = new /\ phase' = "rotate"
      \/ manifest' = new /\ prior' = prior /\ phase' = "open"
      \/ manifest' = manifest /\ prior' = prior /\ phase' = "open"
  BY <1>0, <1>1, <1>2 DEF WriteManifest, NewManifest
<1>4. /\ manifest = prior /\ prior.epoch = epoch /\ mem.buffer = {}
      /\ new.epoch = epoch + 1
  BY <1>0, <1>1 DEF LogInv, ManifestsInStep, CommitComplete, NewManifest
<1>5. /\ new # prior /\ new.epoch \in Epochs /\ new.epoch > prior.epoch
  <2>1. epoch \in 0 .. MaxEpoch /\ epoch < MaxEpoch /\ MaxEpoch \in Nat
    BY <1>1, LogTypes, StoreAssumption DEF Epochs
  <2>2. epoch + 1 \in 0 .. MaxEpoch /\ epoch + 1 > epoch
    BY <2>1
  <2> QED  BY <1>4, <2>2 DEF Epochs
<1>6. TakenRecords = applied /\ Serving
  BY <1>1 DEF TakenRecords, Serving
<1>7. Map!Contents = [i \in Ids |-> Reads(mem, i)]
  BY <1>1, <1>4, <1>6, ContentsRead
<1>8. ContentsOf(new) = [i \in Ids |-> Reads(mem, i)]
  <2>1. /\ \A s \in mem.segment_ids : files[s] = mem.segments[s]
        /\ files \in Payloads /\ MemInv(mem)
    BY <1>1 DEF Unpersisted, SegmentsPlaced, StoreInv, TypeOK
  <2>2. \A i \in Ids : ReadsOnOpen(new, files, i) = Reads(mem, i)
    BY <1>0, <1>1, <1>4, <2>1, NewManifestContents
  <2> QED  BY <2>2 DEF ContentsOf
<1>9. /\ WriterMap # Nothing /\ DoubtfulMap = Nothing
      /\ UNCHANGED <<WriterMap, ReaderMap>>
  <2>1. Serving'
    BY <1>3 DEF Serving
  <2> QED
    BY <1>1, <1>2, <1>4, <1>6, <2>1, MapsAreMaps
       DEF WriterMap, ReaderMap, DoubtfulMap
<1>10. CASE manifest' = new /\ prior' = new /\ phase' = "rotate"
  <2>1. ContentsOf(prior)' = Map!Contents
    <3>1. ContentsOf(prior)' = ContentsOf(new)
      BY <1>1, <1>10 DEF ContentsOf
    <3> QED  BY <1>7, <1>8, <3>1
  <2>2. (wals[prior.epoch])' = <<>> /\ (synced[prior.epoch])' = 0
    <3>1. wals[new.epoch] = <<>> /\ synced[new.epoch] = 0
      BY <1>5 DEF LogInv, FreshLogsEmpty
    <3> QED  BY <1>1, <1>10, <3>1
  <2>3. TakenRecords' = 0 /\ DoubtfulMap' = Nothing
    BY <1>10 DEF TakenRecords, Serving, DoubtfulMap
  <2>4. Map!Commit
    BY <1>9, <2>1, <2>2, <2>3 DEF Map!Commit, Map!CommitTo
  <2> QED  BY <2>4
<1>11. CASE prior' = prior /\ phase' = "open"
  <2>1. UNCHANGED <<ContentsOf(prior), wals[prior.epoch], synced[prior.epoch],
                    TakenRecords>>
    BY <1>1, <1>6, <1>11 DEF ContentsOf, TakenRecords, Serving
  <2>2. CASE manifest' = new
    <3>1. DoubtfulMap' = Map!Contents
      <4>1. ContentsOf(manifest)' = ContentsOf(new)
        BY <1>1, <2>2 DEF ContentsOf
      <4> QED  BY <1>5, <1>7, <1>8, <1>11, <2>2, <4>1 DEF DoubtfulMap
    <3> QED  BY <1>9, <2>1, <3>1 DEF Map!CommitInDoubt
  <2>3. CASE manifest' = manifest
    <3>1. UNCHANGED DoubtfulMap
      BY <1>4, <1>11, <2>3 DEF DoubtfulMap
    <3> QED  BY <1>9, <2>1, <3>1 DEF Map!dmVars
  <2> QED  BY <1>3, <1>11, <2>2, <2>3
<1> QED  BY <1>3, <1>10, <1>11

\* The rotation changes no more than which log the writer goes on with.
LEMMA RotateImplements ==
  ASSUME StoreInv, LogInv, LogInv', RotateAndGc
  PROVE  UNCHANGED Map!dmVars
<1>1. /\ phase = "rotate" /\ phase' = "publish"
      /\ epoch' = epoch + 1 /\ applied' = 0
      /\ UNCHANGED <<mem, published, manifest, prior>>
  BY DEF RotateAndGc
<1>2. manifest = prior /\ prior.epoch \in Epochs
  BY <1>1, LogTypes DEF LogInv, ManifestsInStep
<1>3. UNCHANGED ContentsOf(prior)
  <2>1. Next
    BY DEF Next, WriterNext
  <2>2. \A i \in Ids : ReadsOnOpen(prior, files', i) = ReadsOnOpen(prior, files, i)
    BY <1>1, <2>1, ContentsKept
  <2> QED  BY <1>1, <2>2 DEF ContentsOf
<1>4. UNCHANGED <<wals[prior.epoch], synced[prior.epoch]>>
  <2>1. wals[prior.epoch] = <<>> /\ synced[prior.epoch] = 0
    BY <1>1, <1>2 DEF LogInv, FreshLogsEmpty
  <2>2. (wals[prior.epoch])' = <<>> /\ (synced[prior.epoch])' = 0
    BY <1>1, <1>2 DEF LogInv, FreshLogsEmpty
  <2> QED  BY <2>1, <2>2
<1>5. UNCHANGED <<TakenRecords, DoubtfulMap, WriterMap, ReaderMap>>
  BY <1>1, <1>2 DEF TakenRecords, DoubtfulMap, WriterMap, ReaderMap, Serving
<1> QED  BY <1>3, <1>4, <1>5 DEF Map!dmVars

\* The publication shows readers the committed map.
LEMMA RepublishImplements ==
  ASSUME StoreInv, LogInv, Republish
  PROVE  Map!Publish
<1>1. /\ phase = "publish" /\ phase' = "open" /\ published' = Snapshot(mem)
      /\ UNCHANGED <<process, disk>>
  BY DEF Republish
<1>2. UNCHANGED <<mem, applied, manifest, prior, files, wals, synced>>
  BY <1>1 DEF process, disk
<1>3. ReaderMap' = ContentsOf(prior)
  <2>1. \A i \in Ids : LiveItems(Snapshot(mem), Snapshot(mem).segments, i)
                         = ReadsOnOpen(prior, files, i)
    BY <1>1, SnapshotReads DEF LogInv, CommitComplete
  <2> QED  BY <1>1, <2>1 DEF ReaderMap, ContentsOf
<1>4. /\ WriterMap # Nothing
      /\ UNCHANGED <<ContentsOf(prior), TakenRecords, DoubtfulMap, WriterMap>>
  BY <1>1, <1>2, MapsAreMaps
     DEF ContentsOf, TakenRecords, DoubtfulMap, WriterMap, Serving
<1> QED  BY <1>2, <1>3, <1>4 DEF Map!Publish

\* open finds the manifest it finds, a doubtful one too.
LEMMA OpenLoadImplements ==
  ASSUME StoreInv, LogInv, OpenLoad
  PROVE  Map!Load
<1>1. /\ phase = "down" /\ phase' = "replay"
      /\ mem' = Load(manifest, files) /\ published' = Snapshot(mem')
      /\ prior' = manifest /\ manifest' = manifest
      /\ Collect(SegIds \ manifest.segment_ids, Epochs \ {manifest.epoch})
  BY DEF OpenLoad
<1>2. \A i \in Ids : ReadsOnOpen(manifest, files', i) = ReadsOnOpen(manifest, files, i)
  <2>1. Next
    BY DEF Next
  <2> QED  BY <1>1, <2>1, ContentsKept
<1>3. ContentsOf(prior)' = ContentsOf(manifest)
  BY <1>1, <1>2 DEF ContentsOf
<1>4. ReaderMap' = ContentsOf(prior)'
  <2>1. mem'.buffer = {}
    BY <1>1 DEF Load
  <2>2. \A i \in Ids : LiveItems(published', published'.segments, i)
                         = ReadsOnOpen(manifest, files', i)
    BY <1>1, <1>2, <2>1, OpenLoadReads, SnapshotReads
  <2> QED  BY <1>1, <2>2 DEF ReaderMap, ContentsOf
<1>5. /\ WriterMap = Nothing /\ UNCHANGED WriterMap /\ DoubtfulMap' = Nothing
  BY <1>1 DEF WriterMap, Serving, DoubtfulMap
<1>6. TakenRecords' = (Len(wals[prior.epoch]))'
  BY <1>1 DEF TakenRecords, Serving
<1>7. CASE manifest = prior
  <2>1. UNCHANGED <<wals[prior.epoch], synced[prior.epoch]>>
    BY <1>1, <1>7, CollectLogs, LogTypes
  <2>2. UNCHANGED <<ContentsOf(prior), TakenRecords>>
    BY <1>1, <1>3, <1>6, <1>7, <2>1 DEF TakenRecords, Serving
  <2>3. DoubtfulMap = Nothing
    BY <1>7 DEF DoubtfulMap
  <2> QED  BY <1>4, <1>5, <2>1, <2>2, <2>3 DEF Map!Load
<1>8. CASE manifest # prior
  <2>1. manifest.epoch \in Epochs /\ manifest.epoch > prior.epoch
    BY <1>8, LogTypes DEF LogInv, ManifestsInStep
  <2>2. wals[manifest.epoch] = <<>> /\ synced[manifest.epoch] = 0
    BY <2>1 DEF LogInv, FreshLogsEmpty
  <2>3. (wals[prior.epoch])' = <<>> /\ (synced[prior.epoch])' = 0
    BY <1>1, <2>1, <2>2, CollectLogs
  <2>4. TakenRecords' = 0
    BY <1>6, <2>3
  <2>5. DoubtfulMap = ContentsOf(manifest) /\ DoubtfulMap # Nothing
    BY <1>8, MapsAreMaps DEF DoubtfulMap
  <2>6. Map!CommitTo(DoubtfulMap)
    BY <1>3, <2>3, <2>4, <2>5 DEF Map!CommitTo
  <2> QED  BY <1>4, <1>5, <2>5, <2>6 DEF Map!Load
<1> QED  BY <1>7, <1>8

\* Nobody sees the replay.
LEMMA ReplayImplements ==
  ASSUME Replay
  PROVE  UNCHANGED Map!dmVars
<1>1. /\ phase = "replay" /\ phase' = "replay"
      /\ UNCHANGED <<published, manifest, prior, files, wals, synced>>
  BY DEF Replay, disk
<1> QED
  BY <1>1 DEF Map!dmVars, ContentsOf, TakenRecords, DoubtfulMap, WriterMap,
              ReaderMap, Serving

\* The replay over, the writer reads the committed map and its log.
LEMMA OpenDoneImplements ==
  ASSUME StoreInv, LogInv, NoWriteLost, TracksIds, OpenDone
  PROVE  Map!Serve
<1>1. /\ phase = "replay" /\ phase' = "open" /\ applied = Len(Log)
      /\ UNCHANGED <<mem, epoch, applied, published, manifest, prior, files,
                     wals, synced>>
  BY DEF OpenDone, process, disk
<1>2. manifest = prior /\ prior.epoch = epoch
  BY <1>1 DEF LogInv, ManifestsInStep
<1>3. TakenRecords = applied /\ UNCHANGED TakenRecords
  BY <1>1, <1>2 DEF TakenRecords, Serving, Log
<1>4. WriterMap = Nothing /\ WriterMap' = Map!Contents
  <2>1. Map!Contents = [i \in Ids |-> Reads(mem, i)]
    BY <1>1, <1>2, <1>3, ContentsRead
  <2> QED  BY <1>1, <2>1 DEF WriterMap, Serving
<1>5. ReaderMap = ContentsOf(prior)
  BY <1>1 DEF LogInv, PublishedCommitted, ReaderMap, ContentsOf
<1>6. UNCHANGED <<ContentsOf(prior), DoubtfulMap, ReaderMap>>
  BY <1>1 DEF ContentsOf, DoubtfulMap, ReaderMap
<1> QED  BY <1>1, <1>3, <1>4, <1>5, <1>6 DEF Map!Serve

\* What any stop of the process leaves of the map.
LEMMA StopImplements ==
  ASSUME Stop
  PROVE  /\ Map!Stopped /\ TakenRecords' = (Len(wals[prior.epoch]))'
<1>1. phase' = "down" /\ published' = Snapshot(EmptyMemory)
  BY DEF Stop
<1>2. WriterMap' = Nothing /\ TakenRecords' = (Len(wals[prior.epoch]))'
  BY <1>1 DEF WriterMap, TakenRecords, Serving
<1>3. ReaderMap' = [i \in Ids |-> {}]
  <2>1. \A i \in Ids :
          LiveItems(Snapshot(EmptyMemory), Snapshot(EmptyMemory).segments, i) = {}
    BY DEF Snapshot, EmptyMemory, LiveItems
  <2> QED  BY <1>1, <2>1 DEF ReaderMap
<1> QED  BY <1>2, <1>3 DEF Map!Stopped, Map!EmptyMap

\* The tail that the log loses with it.
LEMMA LoseTailImplements ==
  ASSUME StoreInv, Stop, NEW from \in Nat, LoseTail(from), UNCHANGED prior
  PROVE  Map!LoseTail(from)
<1>1. PICK k \in from .. Len(wals[prior.epoch]) :
        /\ wals'[prior.epoch] = SubSeq(wals[prior.epoch], 1, k)
        /\ Len(wals'[prior.epoch]) = k
        /\ synced'[prior.epoch] = IF k < synced[prior.epoch]
                                    THEN k ELSE synced[prior.epoch]
  BY LoseTailFacts
<1>2. UNCHANGED ContentsOf(prior)
  BY DEF Stop, ContentsOf
<1>3. TakenRecords' = k
  BY <1>1, StopImplements
<1>4. /\ (wals[prior.epoch])' = SubSeq(wals[prior.epoch], 1, k)
      /\ (synced[prior.epoch])' = IF k < synced[prior.epoch]
                                    THEN k ELSE synced[prior.epoch]
  BY <1>1
<1> QED  BY <1>2, <1>3, <1>4 DEF Map!LoseTail

\* The process dies.
LEMMA ProcessCrashImplements ==
  ASSUME StoreInv, ProcessCrash
  PROVE  Map!Crash
<1>1. /\ Stop /\ LoseTail(synced[prior.epoch]) /\ UNCHANGED <<manifest, prior>>
      /\ files' = files
  BY DEF ProcessCrash, Stop
<1>2. synced[prior.epoch] \in Nat
  BY LogTypes
<1>3. Map!LoseTail(synced[prior.epoch]) /\ Map!Stopped
  BY <1>1, <1>2, LoseTailImplements, StopImplements
<1>4. UNCHANGED DoubtfulMap
  BY <1>1 DEF DoubtfulMap, ContentsOf
<1> QED  BY <1>3, <1>4 DEF Map!Crash

\* The machine dies, and takes a doubtful manifest with it or leaves it.
LEMMA PowerLossImplements ==
  ASSUME StoreInv, LogInv, PowerLoss
  PROVE  Map!PowerLoss
<1>1. PICK from \in Nat :
        /\ from = IF Sync = "Fsync" THEN synced[prior.epoch] ELSE 0
        /\ LoseTail(from)
  BY LogTypes DEF PowerLoss
<1>2. /\ Stop /\ files' = files
      /\ manifest' \in {manifest, prior} /\ prior' = manifest'
  BY DEF PowerLoss, Stop
<1>3. DoubtfulMap' = Nothing /\ Map!Stopped
  BY <1>2, StopImplements DEF DoubtfulMap
<1>4. CASE manifest' = prior
  <2>1. Map!LoseTail(from)
    BY <1>1, <1>2, <1>4, LoseTailImplements
  <2> QED  BY <1>1, <1>3, <2>1 DEF Map!PowerLoss
<1>5. CASE manifest' = manifest /\ manifest # prior
  <2>1. manifest.epoch \in Epochs /\ manifest.epoch > prior.epoch
    BY <1>5, LogTypes DEF LogInv, ManifestsInStep
  <2>2. wals[manifest.epoch] = <<>> /\ synced[manifest.epoch] = 0
    BY <2>1 DEF LogInv, FreshLogsEmpty
  <2>3. (wals[prior.epoch])' = <<>> /\ (synced[prior.epoch])' = 0
    <3>1. /\ wals'[manifest.epoch] = wals[manifest.epoch]
          /\ synced'[manifest.epoch] = synced[manifest.epoch]
      BY <1>1, <2>1, LoseTailFacts, LogTypes
    <3> QED  BY <1>2, <1>5, <2>2, <3>1
  <2>4. TakenRecords' = 0
    BY <1>2, <2>3, StopImplements
  <2>5. DoubtfulMap = ContentsOf(manifest) /\ DoubtfulMap # Nothing
    BY <1>5, MapsAreMaps DEF DoubtfulMap
  <2>6. ContentsOf(prior)' = DoubtfulMap
    BY <1>2, <1>5, <2>5 DEF ContentsOf
  <2> QED  BY <1>3, <2>3, <2>4, <2>5, <2>6 DEF Map!PowerLoss, Map!CommitTo
<1> QED  BY <1>2, <1>4, <1>5

\* The empty directory is the empty map.
LEMMA InitImplements == Init => Map!Init
<1> SUFFICES ASSUME Init PROVE Map!Init
  OBVIOUS
<1>1. /\ phase = "down" /\ prior = NoManifest /\ manifest = NoManifest
      /\ published = Snapshot(EmptyMemory)
      /\ wals[prior.epoch] = <<>> /\ synced[prior.epoch] = 0
  BY StoreAssumption DEF Init, NoManifest, Epochs
<1>2. ContentsOf(prior) = [i \in Ids |-> {}] /\ ReaderMap = [i \in Ids |-> {}]
  BY <1>1, NothingOnOpen
     DEF ContentsOf, ReaderMap, LiveItems, NoManifest, Snapshot, EmptyMemory
<1>3. TakenRecords = 0 /\ DoubtfulMap = Nothing /\ WriterMap = Nothing
  BY <1>1 DEF TakenRecords, Serving, DoubtfulMap, WriterMap
<1> QED  BY <1>1, <1>2, <1>3 DEF Map!Init, Map!EmptyMap

\* Every step of the store is a step of the map, or none.
LEMMA StepImplements ==
  ASSUME StoreInv, LogInv, LogInv', NoWriteLost, TracksIds, [Next]_vars
  PROVE  [Map!Next]_(Map!dmVars)
<1>1. CASE \E op \in Ops : Write(op) \/ ExtendItem(op)
  BY <1>1, WriteImplements DEF Map!Next, Ops
<1>2. CASE \E op \in Ops : WriteFails(op)
  BY <1>2, WriteFailsImplements DEF Map!Next, Ops
<1>3. CASE ExtendSync
  BY <1>3, ExtendSyncImplements DEF Map!Next
<1>4. CASE \/ FlushOnly \/ (\E group \in SUBSET SegIds : Merge(group)) \/ Compact
           \/ CheckpointRefused \/ CheckpointStart \/ PersistNext
  BY <1>4, BeforeCommitImplements
<1>5. CASE WriteManifest
  BY <1>5, WriteManifestImplements DEF Map!Next
<1>6. CASE RotateAndGc
  BY <1>6, RotateImplements
<1>7. CASE Republish
  BY <1>7, RepublishImplements DEF Map!Next
<1>8. CASE OpenLoad
  BY <1>8, OpenLoadImplements DEF Map!Next
<1>9. CASE Replay
  BY <1>9, ReplayImplements
<1>10. CASE OpenDone
  BY <1>10, OpenDoneImplements DEF Map!Next
<1>11. CASE ProcessCrash
  BY <1>11, ProcessCrashImplements DEF Map!Next
<1>12. CASE PowerLoss
  BY <1>12, PowerLossImplements DEF Map!Next
<1>13. CASE UNCHANGED vars
  BY <1>13 DEF vars, process, disk, Map!dmVars, ContentsOf, TakenRecords,
               DoubtfulMap, WriterMap, ReaderMap, Serving
<1> QED
  BY <1>1, <1>2, <1>3, <1>4, <1>5, <1>6, <1>7, <1>8, <1>9, <1>10, <1>11, <1>12,
     <1>13 DEF Next, WriterNext

\* A store whose ids are tracked implements the durable map: every step of it,
\* crashes and recoveries included, is one the map allows, so an acknowledged or
\* committed write is never lost, a refused one never taken twice, and readers
\* see committed maps only.
THEOREM StoreImplementsMap ==
  ASSUME TracksIds
  PROVE  Spec => ImplementsDurableMap
<1>1. Init => Map!Init
  BY InitImplements
<1>2. StoreInv /\ LogInv /\ LogInv' /\ NoWriteLost /\ [Next]_vars
        => [Map!Next]_(Map!dmVars)
  BY StepImplements
<1>3. Spec => []StoreInv
  BY InitInv, NextInv, PTL DEF Spec
<1>4. Spec => []LogInv
  BY LogAlwaysInStep
<1>5. Spec => []NoWriteLost
  BY WritesNeverLost
<1> QED
  BY <1>1, <1>2, <1>3, <1>4, <1>5, PTL DEF Spec, ImplementsDurableMap, Map!Spec

-----------------------------------------------------------------------------
(* No older copy is live in place of a newer one.  The operations of the   *)
(* memory first.                                                           *)

\* apply says nothing of the copies of other ids, and its own id is deleted or
\* buffered then.
LEMMA ApplyNewest ==
  ASSUME NEW m \in Memory, NEW op \in Ops, MemInv(m), NewestOwned(m)
  PROVE  NewestOwned(Apply(m, op))
<1> DEFINE n == SupersedeSealedCopy(m, op.id)
           r == Apply(m, op)
<1>1. op.id \in Ids
  BY DEF Ops
<1>2. n \in Memory /\ n.owners = [m.owners EXCEPT ![op.id] = NoSeg]
  BY <1>1, SupersedeType, SupersedeFields
<1>3. r.owners = n.owners
  <2> HIDE DEF n
  <2>1. /\ ApplyDelete(m, op.id).owners = n.owners
        /\ ApplyAdd(m, op.id, op.item).owners = n.owners
    BY <1>2 DEF ApplyDelete, ApplyAdd, Memory, n
  <2> QED  BY <2>1 DEF Apply
<1>4. /\ r.segment_ids = m.segment_ids
      /\ r.segments = m.segments
      /\ r.tombstones = IF op.item = Deleted THEN m.tombstones \cup {op.id}
                                             ELSE m.tombstones \ {op.id}
      /\ r.buffer = Without(m.buffer, op.id) \cup
                      (IF op.item = Deleted THEN {} ELSE {<<op.id, op.item>>})
  BY ApplyFields
<1>5. MemInv(r)
  BY ApplyInv
<1> HIDE DEF n, r
<1>6. r.buffer_ids = IdsOf(r.buffer) /\ m.buffer_ids = IdsOf(m.buffer)
  BY <1>5 DEF MemInv
<1>7. op.id \in r.tombstones \cup r.buffer_ids
  <2>1. op.item # Deleted => <<op.id, op.item>> \in r.buffer
    BY <1>4
  <2>2. op.item # Deleted => op.id \in IdsOf(r.buffer)
    BY <2>1 DEF IdsOf
  <2> QED  BY <1>4, <1>6, <2>2
<1>8. ASSUME NEW i \in Ids, i # op.id, i \in m.buffer_ids
      PROVE  i \in r.buffer_ids
  <2>1. PICK c \in m.buffer : c[1] = i
    BY <1>6, <1>8 DEF IdsOf
  <2>2. c \in r.buffer
    BY <1>4, <1>8, <2>1 DEF Without
  <2> QED  BY <1>6, <2>1, <2>2 DEF IdsOf
<1>9. ASSUME NEW i \in Ids \ (r.tombstones \cup r.buffer_ids),
             NEW s \in r.segment_ids, i \in IdsOf(r.segments[s])
      PROVE  r.owners[i] # NoSeg /\ s <= r.owners[i]
  <2>1. i # op.id /\ i \notin m.tombstones /\ i \notin m.buffer_ids
    BY <1>4, <1>7, <1>8
  <2>2. m.owners[i] # NoSeg /\ s <= m.owners[i]
    BY <1>4, <1>9, <2>1 DEF NewestOwned
  <2>3. r.owners[i] = m.owners[i]
    BY <1>2, <1>3, <2>1 DEF Memory
  <2> QED  BY <2>2, <2>3
<1>10. NewestOwned(r)
  BY <1>9 DEF NewestOwned
<1> QED  BY <1>10 DEF r

\* The ids of a fresh segment have it as their owner, and no segment is newer.
LEMMA PushNewest ==
  ASSUME TracksIds, NEW d \in Memory, NEW copies \in SUBSET Copies, HasRoom(d),
         \A s \in d.segment_ids : s < d.next_seg_id,
         NEW i \in Ids, NEW s \in Push(d, copies).segment_ids,
         i \in IdsOf(Push(d, copies).segments[s]),
         i \notin IdsOf(copies) /\ s \in d.segment_ids /\ i \in IdsOf(d.segments[s])
           => d.owners[i] # NoSeg /\ s <= d.owners[i]
  PROVE  /\ Push(d, copies).owners[i] # NoSeg
         /\ s <= Push(d, copies).owners[i]
<1> DEFINE r == Push(d, copies)
<1>1. /\ r.segment_ids = d.segment_ids \cup {d.next_seg_id}
      /\ r.segments = [d.segments EXCEPT ![d.next_seg_id] = copies]
  BY PushGrows
<1>2. r.owners[i] = IF i \in IdsOf(copies) THEN d.next_seg_id ELSE d.owners[i]
  BY DEF Push, OwnersMovedTo, Memory
<1>3. /\ d.next_seg_id \in SegIds /\ d.next_seg_id # NoSeg
      /\ d.segment_ids \subseteq SegIds
  BY SegIdsAreSegments DEF HasRoom, Memory
<1>4. d.segments \in [SegIds -> SUBSET Copies]
  BY DEF Memory, Payloads
<1> HIDE DEF r
<1>5. s \in r.segment_ids /\ i \in IdsOf(r.segments[s])
  BY DEF r
<1>6. CASE i \in IdsOf(copies)
  <2>1. s \in SegIds /\ s <= d.next_seg_id
    BY <1>1, <1>3, <1>5
  <2> QED  BY <1>2, <1>3, <1>6, <2>1 DEF r
<1>7. CASE i \notin IdsOf(copies)
  <2>1. s # d.next_seg_id
    BY <1>1, <1>3, <1>4, <1>5, <1>7
  <2>2. s \in d.segment_ids /\ i \in IdsOf(d.segments[s])
    BY <1>1, <1>3, <1>4, <1>5, <2>1
  <2> QED  BY <1>2, <1>7, <2>2 DEF r
<1> QED  BY <1>6, <1>7

\* So sealing the buffer keeps the newest copy the live one.
LEMMA FlushNewest ==
  ASSUME TracksIds, NEW m \in Memory, MemInv(m), NewestOwned(m),
         m.buffer = {} \/ HasRoom(m)
  PROVE  NewestOwned(FlushBuffer(m))
<1>1. CASE m.buffer = {}
  BY <1>1 DEF FlushBuffer
<1>2. CASE m.buffer # {}
  <2> DEFINE p == Push(m, m.buffer)
             r == FlushBuffer(m)
  <2>1. /\ r.tombstones = m.tombstones
        /\ r.segment_ids = p.segment_ids /\ r.segments = p.segments
        /\ r.owners = p.owners
    BY <1>2 DEF FlushBuffer, Push, Memory
  <2>2. HasRoom(m) /\ m.buffer \in SUBSET Copies /\ m.buffer_ids = IdsOf(m.buffer)
        /\ \A s \in m.segment_ids : s < m.next_seg_id
    BY <1>2 DEF Memory, MemInv
  <2> HIDE DEF r
  <2>3. ASSUME NEW i \in Ids \ (r.tombstones \cup r.buffer_ids),
               NEW s \in r.segment_ids, i \in IdsOf(r.segments[s])
        PROVE  r.owners[i] # NoSeg /\ s <= r.owners[i]
    <3>1. /\ i \notin IdsOf(m.buffer)
          /\ s \in m.segment_ids
          /\ i \in IdsOf(m.segments[s])
          => m.owners[i] # NoSeg /\ s <= m.owners[i]
      BY <2>1, <2>2, <2>3 DEF NewestOwned
    <3>2. s \in p.segment_ids /\ i \in IdsOf(p.segments[s])
      BY <2>1, <2>3
    <3>3. p.owners[i] # NoSeg /\ s <= p.owners[i]
      BY <2>2, <3>1, <3>2, PushNewest
    <3> QED  BY <2>1, <3>3
  <2>4. NewestOwned(r)
    BY <2>3 DEF NewestOwned
  <2> QED  BY <2>4 DEF r
<1> QED  BY <1>1, <1>2

\* Of an id whose owner a merge takes in, the copy goes to the merge's output; of
\* another, no input had the live copy.
LEMMA MergeNewest ==
  ASSUME TracksIds, NEW m \in Memory, MemInv(m), NewestOwned(m), HasRoom(m),
         NEW group \in SUBSET m.segment_ids
  PROVE  NewestOwned(MergeGroup(m, group))
<1> DEFINE d == Drop(m, group)
           copies == MergedCopies(m, group)
           r == MergeGroup(m, group)
<1>0. group \in SUBSET SegIds /\ m.segment_ids \subseteq SegIds
  BY DEF Memory
<1>1. d \in Memory /\ copies \in SUBSET Copies
  BY <1>0, DropType, MergedCopiesType
<1>2. /\ d.buffer_ids = m.buffer_ids
      /\ d.segment_ids = m.segment_ids \ group
      /\ d.tombstones = m.tombstones
      /\ d.owners = m.owners
      /\ d.next_seg_id = m.next_seg_id
      /\ \A s \in SegIds :
           d.segments[s] = IF s \in group THEN {} ELSE m.segments[s]
  <2>1. /\ d.buffer_ids = m.buffer_ids
        /\ d.tombstones = m.tombstones
        /\ d.owners = m.owners
    BY <1>0, DropFields
  <2>2. /\ d.segment_ids = m.segment_ids \ group
        /\ d.next_seg_id = m.next_seg_id
        /\ \A s \in SegIds :
             d.segments[s] = IF s \in group THEN {} ELSE m.segments[s]
    BY <1>0, DropFields
  <2> QED  BY <2>1, <2>2
<1>3. \A i \in Ids : m.owners[i] \in group <=> i \in IdsOf(copies)
  <2>1. \A i \in Ids : m.owners[i] \in group => i \in IdsOf(copies)
    BY MergedIds
  <2>2. \A c \in copies : m.owners[c[1]] \in group
    BY MergedIds
  <2> QED  BY <2>1, <2>2 DEF IdsOf
<1>4. \A s \in d.segment_ids : s < d.next_seg_id
  BY <1>2 DEF MemInv
<1> HIDE DEF d, copies
<1>5. ASSUME NEW i \in Ids \ (m.tombstones \cup m.buffer_ids),
             NEW s \in d.segment_ids, i \in IdsOf(d.segments[s])
      PROVE  d.owners[i] # NoSeg /\ s <= d.owners[i]
  <2>1. s \in m.segment_ids /\ i \in IdsOf(m.segments[s])
    BY <1>0, <1>2, <1>5
  <2> QED  BY <1>2, <2>1 DEF NewestOwned
<1>6. CASE copies = {}
  <2>1. r = d
    BY <1>6 DEF MergeGroup, d, copies
  <2> HIDE DEF r
  <2>2. NewestOwned(d)
    BY <1>2, <1>5 DEF NewestOwned
  <2> QED  BY <2>1, <2>2 DEF r
<1>7. CASE copies # {}
  <2>1. r = Push(d, copies)
    BY <1>7 DEF MergeGroup, d, copies
  <2>2. HasRoom(d)
    BY <1>2 DEF HasRoom
  <2> HIDE DEF r
  <2>3. r.tombstones = m.tombstones /\ r.buffer_ids = m.buffer_ids
    BY <1>1, <1>2, <2>1 DEF Push, Memory
  <2>4. ASSUME NEW i \in Ids \ (r.tombstones \cup r.buffer_ids),
               NEW s \in r.segment_ids, i \in IdsOf(r.segments[s])
        PROVE  r.owners[i] # NoSeg /\ s <= r.owners[i]
    <3>1. s \in d.segment_ids /\ i \in IdsOf(d.segments[s])
            => d.owners[i] # NoSeg /\ s <= d.owners[i]
      BY <1>5, <2>3
    <3>2. /\ s \in Push(d, copies).segment_ids
          /\ i \in IdsOf(Push(d, copies).segments[s])
      BY <2>1, <2>4
    <3>3. /\ Push(d, copies).owners[i] # NoSeg
          /\ s <= Push(d, copies).owners[i]
      BY <1>1, <1>4, <2>2, <3>1, <3>2, PushNewest
    <3> QED  BY <2>1, <3>3
  <2>5. NewestOwned(r)
    BY <2>4 DEF NewestOwned
  <2> QED  BY <2>5 DEF r
<1> QED  BY <1>6, <1>7

\* Where every copy is owned, none is newer.
LEMMA AllOwnedNewest ==
  ASSUME NEW m \in Memory,
         \A s \in m.segment_ids : \A c \in m.segments[s] : m.owners[c[1]] = s
  PROVE  NewestOwned(Purged(m))
<1> DEFINE r == Purged(m)
<1>1. r.segment_ids = m.segment_ids /\ r.segments = m.segments /\ r.owners = m.owners
  BY DEF Purged, Memory
<1> HIDE DEF r
<1>2. ASSUME NEW i \in Ids, NEW s \in r.segment_ids, i \in IdsOf(r.segments[s])
      PROVE  r.owners[i] # NoSeg /\ s <= r.owners[i]
  <2>1. r.owners[i] = s
    BY <1>1, <1>2 DEF IdsOf
  <2>2. s \in SegIds /\ s # NoSeg
    BY <1>1, SegIdsAreSegments DEF Memory
  <2> QED  BY <2>1, <2>2
<1>3. NewestOwned(r)
  BY <1>2 DEF NewestOwned
<1> QED  BY <1>3 DEF r

\* The owner that open gives an id is the newest of its live copies, so of all.
LEMMA LoadNewest ==
  ASSUME TracksIds, NEW c \in Manifests, NEW payloads \in Payloads,
         NewestLive(c, payloads)
  PROVE  NewestOwned(Load(c, payloads))
<1> DEFINE r == Load(c, payloads)
<1>1. /\ r.segment_ids = c.segment_ids /\ r.tombstones = c.tombstones
      /\ \A s \in c.segment_ids : r.segments[s] = payloads[s]
      /\ c.segment_ids \subseteq SegIds
  BY DEF Load, MarkedOnOpen, Manifests
<1>2. ASSUME NEW i \in Ids, NEW t \in SegIds, IsOwner(c, payloads, t, i)
      PROVE  r.owners[i] = t
  BY <1>2, LoadOwner
<1> HIDE DEF r
<1>3. ASSUME NEW i \in Ids \ r.tombstones, NEW s \in r.segment_ids,
             i \in IdsOf(r.segments[s])
      PROVE  r.owners[i] # NoSeg /\ s <= r.owners[i]
  <2>1. PICK t \in c.segment_ids : s <= t /\ HoldsLive(c, payloads, t, i)
    BY <1>1, <1>3 DEF NewestLive
  <2>2. PICK u \in SegIds : IsOwner(c, payloads, u, i)
    BY <1>1, <2>1, OwnerExists
  <2>3. s \in SegIds /\ t \in SegIds /\ t <= u
    BY <1>1, <2>1, <2>2 DEF IsOwner
  <2>4. s <= u /\ u # NoSeg
    BY <2>1, <2>2, <2>3, SegIdsAreSegments
  <2> QED  BY <1>2, <2>2, <2>4
<1>4. NewestOwned(r)
  BY <1>3 DEF NewestOwned
<1> QED  BY <1>4 DEF r

\* A manifest written from such a memory, once nothing is buffered.
LEMMA NewestFromMemory ==
  ASSUME TracksIds, NEW m \in Memory, MemInv(m), NewestOwned(m), m.buffer = {},
         NEW c, NEW payloads, c.segment_ids = m.segment_ids,
         c.tombstones = m.tombstones, c.superseded = m.superseded,
         \A s \in m.segment_ids : payloads[s] = m.segments[s]
  PROVE  NewestLive(c, payloads)
<1> SUFFICES ASSUME NEW i \in Ids \ c.tombstones, NEW s \in c.segment_ids,
                    i \in IdsOf(payloads[s])
             PROVE  \E t \in c.segment_ids : s <= t /\ HoldsLive(c, payloads, t, i)
  BY DEF NewestLive
<1>1. m.buffer_ids = {}
  BY DEF MemInv, IdsOf
<1>2. m.owners[i] # NoSeg /\ s <= m.owners[i]
  BY <1>1 DEF NewestOwned
<1>3. /\ m.owners[i] \in m.segment_ids
      /\ i \in IdsOf(m.segments[m.owners[i]])
      /\ CopyIsLive(m.tombstones, m.superseded, m.owners[i], i)
  BY <1>2 DEF MemInv, Tracked, OwnersLive
<1>4. HoldsLive(c, payloads, m.owners[i], i)
  BY <1>3 DEF HoldsLive, CopyIsLive
<1> QED  BY <1>2, <1>3, <1>4

\* It only depends on the files the manifest names.
LEMMA NewestLiveKept ==
  ASSUME NEW c, NEW p, NEW q, NewestLive(c, p),
         \A s \in c.segment_ids : q[s] = p[s]
  PROVE  NewestLive(c, q)
BY DEF NewestLive, HoldsLive

\* The memory keeps its newest copies live.
LEMMA NextNewestOwned ==
  ASSUME TracksIds, StoreInv, NewestInv, Next
  PROVE  NewestOwned(mem')
<1>1. mem \in Memory /\ MemInv(mem) /\ NewestOwned(mem)
  BY DEF StoreInv, TypeOK, NewestInv
<1>2. CASE WriterNext \/ Replay \/ OpenDone
  <2>1. ASSUME HasRoom(mem), NEW op \in Ops, mem' = Applied(mem, op)
        PROVE  NewestOwned(mem')
    <3> DEFINE a == Apply(mem, op)
    <3>1. a \in Memory /\ MemInv(a) /\ NewestOwned(a) /\ HasRoom(a)
      BY <1>1, <2>1, ApplyType, ApplyInv, ApplyNewest, ApplyGrows DEF HasRoom
    <3> HIDE DEF a
    <3>2. NewestOwned(FlushBuffer(a))
      BY <3>1, FlushNewest
    <3> QED  BY <2>1, <3>1, <3>2 DEF Applied, SealIfFull, a
  <2>2. ASSUME RoomToFlush, mem' = FlushBuffer(mem)
        PROVE  NewestOwned(mem')
    BY <1>1, <2>2, FlushNewest DEF RoomToFlush
  <2>3. ASSUME NEW m \in {FlushBuffer(mem)}, RoomToMerge,
               NEW group \in SUBSET m.segment_ids,
               \/ mem' = MergeGroup(m, group) \/ mem' = BurnId(m)
               \/ group = m.segment_ids /\ mem' = Purged(MergeGroup(m, group))
               \/ ~CompactMerges(m) /\ mem' = Purged(m)
        PROVE  NewestOwned(mem')
    <3>1. m \in Memory /\ MemInv(m) /\ HasRoom(m)
      BY <2>3, SealedForMerge
    <3>2. NewestOwned(m)
      BY <1>1, <2>3, FlushNewest DEF RoomToMerge, RoomToFlush
    <3>3. group \in SUBSET SegIds
      BY <3>1 DEF Memory
    <3>4. CASE mem' = MergeGroup(m, group)
      BY <3>1, <3>2, <3>4, MergeNewest
    <3>5. CASE mem' = BurnId(m)
      <4>1. /\ mem'.segment_ids = m.segment_ids /\ mem'.segments = m.segments
            /\ mem'.tombstones = m.tombstones /\ mem'.buffer_ids = m.buffer_ids
            /\ mem'.owners = m.owners
        BY <3>1, <3>5 DEF BurnId, Memory
      <4> QED  BY <3>2, <4>1 DEF NewestOwned
    <3>6. CASE group = m.segment_ids /\ mem' = Purged(MergeGroup(m, group))
      <4> DEFINE n == MergeGroup(m, m.segment_ids)
      <4>1. n \in Memory
        BY <3>1, <3>3, <3>6, MergeGroupType
      <4>2. \A s \in n.segment_ids : \A c \in n.segments[s] : n.owners[c[1]] = s
        BY <3>1, MergeAllOwned
      <4>3. mem' = Purged(n)
        BY <3>6
      <4> HIDE DEF n
      <4> QED  BY <4>1, <4>2, <4>3, AllOwnedNewest
    <3>7. CASE ~CompactMerges(m) /\ mem' = Purged(m)
      <4>1. \A s \in m.segment_ids : \A c \in m.segments[s] : m.owners[c[1]] = s
        BY <3>1, <3>7, NothingDeadOwned
      <4> QED  BY <3>1, <3>7, <4>1, AllOwnedNewest
    <3> QED  BY <2>3, <3>4, <3>5, <3>6, <3>7
  <2> QED  BY <1>1, <1>2, <2>1, <2>2, <2>3, WriterMemory
<1>3. CASE OpenLoad
  <2>1. /\ manifest \in Manifests /\ files \in Payloads
        /\ NewestLive(manifest, files) /\ mem' = Load(manifest, files)
    BY <1>3 DEF StoreInv, TypeOK, NewestInv, OpenLoad
  <2> QED  BY <2>1, LoadNewest
<1>4. CASE ProcessCrash \/ PowerLoss
  <2>1. mem'.segment_ids = {}
    BY <1>4 DEF ProcessCrash, PowerLoss, Stop, EmptyMemory
  <2> QED  BY <2>1 DEF NewestOwned
<1> QED  BY <1>2, <1>3, <1>4 DEF Next

\* So does what the manifests hold: a checkpoint writes one with nothing
\* buffered, from segments that are in their files.
LEMMA NextNewest ==
  ASSUME TracksIds, StoreInv, LogInv, NewestInv, Next
  PROVE  NewestInv'
<1>1. ASSUME NEW c \in {manifest, prior}, c \in {manifest', prior'}
      PROVE  NewestLive(c, files')
  <2>1. NewestLive(c, files)
    BY DEF NewestInv
  <2>2. \A s \in c.segment_ids : files'[s] = files[s]
    BY <1>1, FilesKept
  <2> QED  BY <2>1, <2>2, NewestLiveKept
<1>2. NewestLive(manifest', files') /\ NewestLive(prior', files')
  <2>1. CASE WriteManifest
    <3>1. /\ mem \in Memory /\ MemInv(mem) /\ Unpersisted = {} /\ SegmentsPlaced
          /\ mem' = mem /\ files' = files
      BY <2>1, RetainedSame DEF StoreInv, TypeOK, WriteManifest
    <3>2. mem.buffer = {} /\ NewestOwned(mem)
      BY <2>1 DEF WriteManifest, LogInv, CommitComplete, NewestInv
    <3>3. PICK new : new = NewManifest(mem)
      OBVIOUS
    <3>4. /\ new.segment_ids = mem.segment_ids /\ new.tombstones = mem.tombstones
          /\ new.superseded = mem.superseded
      BY <3>3 DEF NewManifest
    <3>5. \A s \in mem.segment_ids : files'[s] = mem.segments[s]
      BY <3>1 DEF Unpersisted, SegmentsPlaced
    <3>6. NewestLive(new, files')
      BY <3>1, <3>2, <3>4, <3>5, NewestFromMemory
    <3>7. manifest' \in {manifest, new} /\ prior' \in {prior, manifest'}
      BY <2>1, <3>1, <3>3 DEF WriteManifest, NewManifest
    <3> QED  BY <1>1, <3>6, <3>7
  <2>2. CASE ~WriteManifest
    <3>1. manifest' \in {manifest, prior} /\ prior' \in {manifest, prior}
      BY <2>2 DEF Next, WriterNext, Write, WriteFails, ExtendItem, ExtendSync,
         FlushOnly, Merge, Compact, MergeFrame, CheckpointRefused, CheckpointStart,
         PersistNext, RotateAndGc, Republish, OpenLoad, Replay, OpenDone,
         ProcessCrash, PowerLoss, disk
    <3> QED  BY <1>1, <3>1
  <2> QED  BY <2>1, <2>2
<1>3. NewestOwned(mem')
  BY NextNewestOwned
<1> QED  BY <1>2, <1>3 DEF NewestInv

-----------------------------------------------------------------------------
(* A directory an old store left.                                          *)

\* The old store had no mark to tell that a copy's id was deleted: this is what
\* a directory must not need it for.
NoCopyDeleted ==
  \A s \in manifest.segment_ids : IdsOf(files[s]) \cap manifest.tombstones = {}

\* Of one that has no copy of a deleted id, open makes a memory like any other:
\* it marks all but the newest copies.
LEMMA LegacyInitInv ==
  ASSUME LegacyInit, NoCopyDeleted
  PROVE  StoreInv /\ LogInv /\ NoWriteLost
<1>1. PICK n \in 0 .. MaxSegId, dead \in SUBSET MaybeDead,
           f \in [SegIds -> LegacySegments] :
        /\ files = [s \in SegIds |-> IF s < n THEN f[s] ELSE {}]
        /\ manifest = [NoManifest EXCEPT !.next_seg_id = n,
                                         !.segment_ids = 0 .. n - 1,
                                         !.tombstones = dead]
  BY DEF LegacyInit
<1>2. /\ prior = manifest /\ mem = EmptyMemory /\ persisted_ids = {} /\ epoch = 0
      /\ poisoned = FALSE /\ wal_failed = FALSE /\ applied = 0 /\ phase = "down"
      /\ published = Snapshot(EmptyMemory)
      /\ wals = [e \in Epochs |-> <<>>] /\ synced = [e \in Epochs |-> 0]
  BY DEF LegacyInit
<1>3. /\ manifest.epoch = 0 /\ manifest.next_seg_id = n
      /\ manifest.segment_ids = 0 .. n - 1 /\ manifest.tombstones = dead
      /\ manifest.superseded = NoSupersessions
  BY <1>1 DEF NoManifest
<1>4. MaxSegId \in Nat /\ 0 .. n - 1 \subseteq SegIds /\ \A s \in 0 .. n - 1 : s < n
  BY ConstantsAssumption DEF SegIds
<1>5. manifest \in Manifests
  <2>1. n \in 0 .. MaxSegId + 1 /\ dead \subseteq Ids
    BY <1>4, LegacyAssumption
  <2>2. NoSupersessions \in Supersessions /\ 0 \in Epochs
    BY StoreAssumption DEF NoSupersessions, Supersessions, Epochs
  <2> QED  BY <1>1, <1>4, <2>1, <2>2 DEF NoManifest, Manifests
<1>6. /\ files \in Payloads
      /\ \A s \in manifest.segment_ids : files[s] # {} /\ UniqueIds(files[s])
  BY <1>1, <1>3, <1>4 DEF Payloads, LegacySegments, UniqueIds
<1>7. DiskInv(manifest, files)
  <2>1. DeletedMarked(manifest, files)
    BY DEF NoCopyDeleted, DeletedMarked, IdsOf
  <2> QED  BY <1>3, <1>4, <1>6, <2>1 DEF DiskInv, NoSupersessions
<1>8. StoreInv
  <2>1. Snapshot(EmptyMemory) \in Snapshots
    BY EmptyMemoryType, SnapshotType
  <2>2. 0 \in Epochs
    BY StoreAssumption DEF Epochs
  <2>3. /\ wals \in [Epochs -> Seq(Ops)] /\ synced \in [Epochs -> Nat]
        /\ epoch \in Epochs /\ applied \in Nat
    BY <1>2, <2>2
  <2>4. phase \in Phases /\ persisted_ids \subseteq SegIds
        /\ poisoned \in BOOLEAN /\ wal_failed \in BOOLEAN
    BY <1>2 DEF Phases
  <2>5. mem \in Memory /\ published \in Snapshots
        /\ manifest \in Manifests /\ prior \in Manifests /\ files \in Payloads
    BY <1>2, <1>5, <1>6, <2>1, EmptyMemoryType
  <2>6. TypeOK
    BY <2>3, <2>4, <2>5 DEF TypeOK
  <2> QED  BY <1>2, <1>7, <2>6, EmptyMemoryInv DEF StoreInv
<1>9. LogInv
  <2>1. 0 \in Epochs
    BY StoreAssumption DEF Epochs
  <2>2. ManifestsInStep /\ FreshLogsEmpty /\ CommitComplete /\ PublishedCommitted
    BY <1>2, <1>3, <2>1 DEF ManifestsInStep, FreshLogsEmpty, CommitComplete,
                            PublishedCommitted
  <2>3. Log = <<>> /\ RecordsApplied
    BY <1>2, <2>1 DEF RecordsApplied, Log
  <2> QED  BY <2>2, <2>3 DEF LogInv
<1> QED  BY <1>2, <1>8, <1>9 DEF NoWriteLost

\* What is_live_in lets through, counted.
LEMMA InvOnePasses ==
  ASSUME TracksIds, StoreInv
  PROVE  AtMostOneCopyPasses
<1> SUFFICES ASSUME NEW i \in Ids
             PROVE  Cardinality(LiveIn(mem, i))
                      + Cardinality({c \in mem.buffer : c[1] = i}) <= 1
  BY DEF AtMostOneCopyPasses
<1>1. /\ LiveIn(mem, i) = IF mem.owners[i] = NoSeg THEN {} ELSE {mem.owners[i]}
      /\ i \in IdsOf(mem.buffer) => mem.owners[i] = NoSeg
  BY InvOneLive DEF OneLiveCopy
<1>2. UniqueIds(mem.buffer)
  BY DEF StoreInv, MemInv, Tracked
<1> DEFINE buffered == {c \in mem.buffer : c[1] = i}
<1>3. Cardinality({}) = 0 /\ \A x : Cardinality({x}) = 1
  BY FS_EmptySet, FS_Singleton
<1>4. CASE buffered = {}
  <2>1. Cardinality(LiveIn(mem, i)) \in {0, 1}
    BY <1>1, <1>3
  <2>2. Cardinality(buffered) = 0
    BY <1>3, <1>4
  <2> QED  BY <2>1, <2>2
<1>5. CASE buffered # {}
  <2>1. PICK c \in mem.buffer : c[1] = i
    BY <1>5
  <2>2. buffered = {c}
    BY <1>2, <2>1 DEF UniqueIds
  <2>3. LiveIn(mem, i) = {}
    BY <1>1, <2>1 DEF IdsOf
  <2> QED  BY <1>3, <2>2, <2>3
<1> QED  BY <1>4, <1>5

\* A directory without marks, none of whose copies is of a deleted id.
LEMMA LegacyInitNewest ==
  ASSUME LegacyInit
  PROVE  NewestInv
<1>1. /\ manifest.superseded = NoSupersessions /\ prior = manifest
      /\ mem.segment_ids = {} /\ manifest.segment_ids \subseteq SegIds
  <2>1. PICK n \in 0 .. MaxSegId, dead \in SUBSET MaybeDead :
          manifest = [NoManifest EXCEPT !.next_seg_id = n,
                                        !.segment_ids = 0 .. n - 1,
                                        !.tombstones = dead]
    BY DEF LegacyInit
  <2>2. 0 .. n - 1 \subseteq SegIds
    BY ConstantsAssumption
  <2> QED  BY <2>1, <2>2 DEF LegacyInit, NoManifest, EmptyMemory
<1>2. NewestLive(manifest, files)
  <2> SUFFICES ASSUME NEW i \in Ids \ manifest.tombstones,
                      NEW s \in manifest.segment_ids, i \in IdsOf(files[s])
               PROVE  s <= s /\ HoldsLive(manifest, files, s, i)
    BY DEF NewestLive
  <2>1. s \in SegIds
    BY <1>1
  <2> QED  BY <1>1, <2>1 DEF HoldsLive, CopyIsLive, NoSupersessions
<1> QED  BY <1>1, <1>2 DEF NewestInv, NewestOwned

\* Where no older copy is live in place of a newer one, what open reads is the
\* copy in the last segment that has one.
LEMMA NewestOnOpen ==
  ASSUME TracksIds, NEW c \in Manifests, NEW payloads \in Payloads,
         NewestLive(c, payloads), NEW i \in Ids, i \notin c.tombstones,
         NEW s \in c.segment_ids, NEW v, <<i, v>> \in payloads[s],
         UniqueIds(payloads[s]),
         \A t \in c.segment_ids : i \in IdsOf(payloads[t]) => t <= s
  PROVE  ReadsOnOpen(c, payloads, i) = {v}
<1>1. c.segment_ids \subseteq SegIds /\ s \in SegIds
  BY DEF Manifests
<1>2. v \in Items
  BY <1>1 DEF Payloads, Copies
<1>3. \A t \in SegIds : HoldsLive(c, payloads, t, i) => t <= s
  BY DEF HoldsLive
<1>4. i \in IdsOf(payloads[s])
  BY DEF IdsOf
<1>5. IsOwner(c, payloads, s, i)
  <2>1. PICK t \in c.segment_ids : s <= t /\ HoldsLive(c, payloads, t, i)
    BY <1>4 DEF NewestLive
  <2>2. t \in SegIds /\ t <= s
    BY <1>1, <1>3, <2>1
  <2>3. t = s
    BY <1>1, <2>1, <2>2
  <2> QED  BY <1>3, <2>1, <2>3 DEF IsOwner
<1>6. \A t \in SegIds : IsOwner(c, payloads, t, i) => t = s
  BY <1>1, <1>5 DEF IsOwner, SegIds
<1>7. \A x, t : <<i, x>> \in payloads[t] => i \in IdsOf(payloads[t])
  BY DEF IdsOf
<1>8. \A x : <<i, x>> \in payloads[s] => x = v
  <2> SUFFICES ASSUME NEW x, <<i, x>> \in payloads[s]
               PROVE  x = v
    OBVIOUS
  <2>1. <<i, x>>[1] = <<i, v>>[1] => <<i, x>> = <<i, v>>
    BY DEF UniqueIds
  <2> QED  BY <2>1
<1> QED  BY <1>1, <1>2, <1>5, <1>6, <1>7, <1>8 DEF ReadsOnOpen

\* What is read is the manifest's and the log's, and the log says nothing of i.
LEMMA KeptNewestRead ==
  ASSUME TracksIds, StoreInv, NoWriteLost, NewestInv
  PROVE  NewestCopyRead
<1> SUFFICES ASSUME phase # "down", NEW i \in Ids,
                    i \notin manifest.tombstones,
                    Touching(Log, applied, i) = {},
                    NEW s \in manifest.segment_ids, NEW c \in files[s], c[1] = i,
                    \A t \in manifest.segment_ids : i \in IdsOf(files[t]) => t <= s
             PROVE  Reads(mem, i) = {c[2]}
  BY DEF NewestCopyRead
<1>1. /\ manifest \in Manifests /\ files \in Payloads
      /\ UniqueIds(files[s]) /\ s \in SegIds
  BY DEF StoreInv, TypeOK, DiskInv, Manifests
<1>2. c = <<i, c[2]>>
  BY <1>1 DEF Payloads, Copies
<1>3. ReadsOnOpen(manifest, files, i) = {c[2]}
  BY <1>1, <1>2, NewestOnOpen DEF NewestInv
<1>4. Reads(mem, i) = Recovered(manifest, i)
  BY DEF NoWriteLost
<1>5. Recovered(manifest, i) = ReadsOnOpen(manifest, files, i)
  <2>1. CASE manifest.epoch = epoch
    BY <2>1 DEF Recovered, After, Log
  <2>2. CASE manifest.epoch # epoch
    BY <2>2, AfterStart DEF Recovered
  <2> QED  BY <2>1, <2>2
<1> QED  BY <1>3, <1>4, <1>5

\* The invariants of the store hold from such a directory on.
LEMMA LegacyInvariant ==
  ASSUME TracksIds
  PROVE  LegacySpec /\ NoCopyDeleted => [](StoreInv /\ NoWriteLost /\ NewestInv)
<1>1. LegacyInit /\ NoCopyDeleted => StoreInv /\ LogInv /\ NoWriteLost /\ NewestInv
  BY LegacyInitInv, LegacyInitNewest
<1>2. StoreInv /\ LogInv /\ NoWriteLost /\ NewestInv /\ [Next]_vars
        => StoreInv' /\ LogInv' /\ NoWriteLost' /\ NewestInv'
  <2> SUFFICES ASSUME StoreInv, LogInv, NoWriteLost, NewestInv, [Next]_vars
               PROVE  StoreInv' /\ LogInv' /\ NoWriteLost' /\ NewestInv'
    OBVIOUS
  <2>1. StoreInv' /\ LogInv' /\ NoWriteLost'
    BY NextInv, LogNextInv, NextKeeps
  <2>2. UNCHANGED vars => NewestInv'
    BY DEF NewestInv, vars, process, disk
  <2> QED  BY <2>1, <2>2, NextNewest
<1> QED  BY <1>1, <1>2, PTL DEF LegacySpec

\* On a directory of an old store that has no copy of a deleted id, at most one
\* copy of an id passes is_live_in, whatever the new store does with it.
THEOREM LegacyOneCopyPasses ==
  TracksIds => (LegacySpec /\ NoCopyDeleted => []AtMostOneCopyPasses)
<1> SUFFICES ASSUME TracksIds
             PROVE  LegacySpec /\ NoCopyDeleted => []AtMostOneCopyPasses
  OBVIOUS
<1>1. StoreInv => AtMostOneCopyPasses
  BY InvOnePasses
<1> QED  BY <1>1, LegacyInvariant, PTL

\* And it is the newest one that is read, through merges, checkpoints and
\* crashes, until the id is written again.
THEOREM LegacyNewestRead ==
  TracksIds => (LegacySpec /\ NoCopyDeleted => []NewestCopyRead)
<1> SUFFICES ASSUME TracksIds
             PROVE  LegacySpec /\ NoCopyDeleted => []NewestCopyRead
  OBVIOUS
<1>1. StoreInv /\ NoWriteLost /\ NewestInv => NewestCopyRead
  BY KeptNewestRead
<1> QED  BY <1>1, LegacyInvariant, PTL

=============================================================================

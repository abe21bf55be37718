---------------------------- MODULE OracleProofs ----------------------------
(***************************************************************************)
(* The store beside its oracle, for every value of the constants: what the *)
(* writer finds is what the applied writes left, what readers find is what *)
(* the last checkpoint had.  Then the two modules that run beside it: on a *)
(* disk that damages files, and with segments that are inverted indexes.   *)
(***************************************************************************)
EXTENDS OracleInvariant, DamagedFiles, InvertedIndex, RecoveryProofs

USE DEF SegIds

-----------------------------------------------------------------------------
(* What is held, whatever is done with it.                                 *)

LEMMA PushHeld ==
  ASSUME NEW m \in Memory, NEW copies \in SUBSET Copies, HasRoom(m), NEW i,
         SealedIn(Push(m, copies), Push(m, copies).segments, i)
  PROVE  SealedIn(m, m.segments, i) \/ i \in IdsOf(copies)
<1> DEFINE r == Push(m, copies)
           k == m.next_seg_id
<1>1. /\ r.segment_ids = m.segment_ids \cup {k}
      /\ r.segments[k] = copies
      /\ \A s \in SegIds : s # k => r.segments[s] = m.segments[s]
      /\ m.segment_ids \subseteq SegIds
  BY DEF Push, Memory, Payloads, HasRoom
<1> HIDE DEF r, k
<1>2. SealedIn(r, r.segments, i)
  BY DEF r
<1> QED  BY <1>1, <1>2 DEF SealedIn

\* A seal moves copies and makes none.
LEMMA FlushHeld ==
  ASSUME NEW m \in Memory, m.buffer = {} \/ HasRoom(m), NEW i,
         Held(FlushBuffer(m), i)
  PROVE  Held(m, i)
<1>1. CASE m.buffer = {}
  BY <1>1 DEF FlushBuffer
<1>2. CASE m.buffer # {}
  <2> DEFINE p == Push(m, m.buffer)
             r == FlushBuffer(m)
  <2>1. /\ r.buffer = {} /\ r.segment_ids = p.segment_ids
        /\ r.segments = p.segments
    <3>1. m.buffer \in SUBSET Copies
      BY DEF Memory
    <3>2. p \in Memory
      BY <1>2, <3>1, PushType
    <3> QED  BY <1>2, <3>2 DEF FlushBuffer, Memory
  <2>2. SealedIn(p, p.segments, i)
    <3> HIDE DEF p
    <3>1. Held(r, i)
      OBVIOUS
    <3> HIDE DEF r
    <3> QED  BY <2>1, <3>1 DEF Held, SealedIn, IdsOf
  <2>3. m.buffer \in SUBSET Copies
    BY DEF Memory
  <2> QED  BY <1>2, <2>2, <2>3, PushHeld DEF Held
<1> QED  BY <1>1, <1>2

\* apply brings in one copy at most, of the id added.
LEMMA ApplyHeld ==
  ASSUME NEW m \in Memory, NEW op \in Ops, MemInv(m), NEW i, Held(Apply(m, op), i)
  PROVE  Held(m, i) \/ Adds(op, i)
<1> DEFINE r == Apply(m, op)
<1>1. /\ r.segment_ids = m.segment_ids
      /\ r.segments = m.segments
      /\ r.buffer = Without(m.buffer, op.id) \cup
                      (IF op.item = Deleted THEN {} ELSE {<<op.id, op.item>>})
  BY ApplyFields
<1>2. Held(r, i)
  OBVIOUS
<1> HIDE DEF r
<1>3. CASE SealedIn(r, r.segments, i)
  BY <1>1, <1>3 DEF SealedIn, Held
<1>4. CASE i \in IdsOf(r.buffer)
  <2>1. PICK c \in r.buffer : c[1] = i
    BY <1>4 DEF IdsOf
  <2>2. c \in m.buffer \/ (op.item # Deleted /\ c = <<op.id, op.item>>)
    BY <1>1, <2>1 DEF Without
  <2> QED  BY <2>1, <2>2 DEF Held, IdsOf, Adds
<1> QED  BY <1>2, <1>3, <1>4 DEF Held

\* And so does the seal it may bring about.
LEMMA AppliedHeld ==
  ASSUME NEW m \in Memory, NEW op \in Ops, MemInv(m), HasRoom(m), NEW i,
         Held(Applied(m, op), i)
  PROVE  Held(m, i) \/ Adds(op, i)
<1> DEFINE a == Apply(m, op)
<1>1. a \in Memory
  BY ApplyType
<1>2. a.next_seg_id = m.next_seg_id
  BY ApplyGrows
<1>3. HasRoom(a)
  BY <1>2 DEF HasRoom
<1>4. Held(a, i) => Held(m, i) \/ Adds(op, i)
  BY ApplyHeld
<1>5. Held(a, i) \/ Held(FlushBuffer(a), i)
  BY DEF Applied, SealIfFull
<1> HIDE DEF a
<1> QED  BY <1>1, <1>3, <1>4, <1>5, FlushHeld

\* A merge makes no copy either.
LEMMA MergeHeld ==
  ASSUME NEW m \in Memory, HasRoom(m), NEW group \in SUBSET m.segment_ids, NEW i,
         Held(MergeGroup(m, group), i)
  PROVE  Held(m, i)
<1> DEFINE d == Drop(m, group)
           copies == MergedCopies(m, group)
           r == MergeGroup(m, group)
<1>1. d \in Memory /\ copies \in SUBSET Copies
  BY DropType, MergedCopiesType DEF Memory
<1>2. /\ d.segment_ids = m.segment_ids \ group
      /\ \A s \in SegIds : s \notin group => d.segments[s] = m.segments[s]
      /\ d.buffer = m.buffer /\ d.next_seg_id = m.next_seg_id
      /\ m.segment_ids \subseteq SegIds
  BY DEF Drop, Memory
<1>3. i \in IdsOf(copies) => Held(m, i)
  BY DEF MergedCopies, LiveCopies, IdsOf, Held, SealedIn
<1>4. Held(d, i) => Held(m, i)
  <2> HIDE DEF d
  <2> QED  BY <1>2 DEF Held, SealedIn
<1>5. r = d \/ r = Push(d, copies)
  BY DEF MergeGroup
<1>6. CASE r = Push(d, copies)
  <2>1. HasRoom(d)
    BY <1>2 DEF HasRoom
  <2>2. Push(d, copies).buffer = d.buffer
    BY <1>1 DEF Push, Memory
  <2>3. Held(Push(d, copies), i)
    BY <1>6
  <2> HIDE DEF d, copies
  <2>4. CASE SealedIn(Push(d, copies), Push(d, copies).segments, i)
    BY <1>1, <1>3, <1>4, <2>1, <2>4, PushHeld DEF Held
  <2>5. CASE i \in IdsOf(Push(d, copies).buffer)
    BY <1>4, <2>2, <2>5 DEF Held
  <2> QED  BY <2>3, <2>4, <2>5 DEF Held
<1> QED  BY <1>4, <1>5, <1>6

\* Nothing between two writes adds an id to what is held.
LEMMA MaintenanceHeld ==
  ASSUME StoreInv, Maintenance, NEW i, Held(mem', i)
  PROVE  Held(mem, i)
<1>1. mem \in Memory /\ MemInv(mem)
  BY DEF StoreInv, TypeOK
<1> DEFINE m == FlushBuffer(mem)
<1>2. ASSUME RoomToFlush, Held(m, i)
      PROVE  Held(mem, i)
  BY <1>1, <1>2, FlushHeld DEF RoomToFlush
<1>3. ASSUME RoomToMerge
      PROVE  m \in Memory /\ HasRoom(m) /\ RoomToFlush
  BY <1>3, SealedForMerge DEF RoomToMerge, RoomToFlush
<1>4. \A n \in Memory : /\ Held(BurnId(n), i) => Held(n, i)
                        /\ Held(Purged(n), i) => Held(n, i)
  BY DEF BurnId, Purged, Memory, Held, SealedIn
<1>5. CASE FlushOnly \/ CheckpointStart
  BY <1>2, <1>5 DEF FlushOnly, CheckpointStart, RoomToFlush
<1>6. CASE \E group \in SUBSET SegIds : Merge(group)
  <2>1. PICK group \in SUBSET SegIds : Merge(group)
    BY <1>6
  <2>2. RoomToMerge /\ group \in SUBSET m.segment_ids
    BY <2>1 DEF Merge
  <2>3. mem' = MergeGroup(m, group) \/ mem' = BurnId(m)
    BY <2>1 DEF Merge, MergeFails
  <2> HIDE DEF m
  <2> QED  BY <1>2, <1>3, <1>4, <2>2, <2>3, MergeHeld
<1>7. CASE Compact
  <2> DEFINE n == MergeGroup(m, m.segment_ids)
  <2>1. RoomToMerge
    BY <1>7 DEF Compact
  <2>2. \/ mem' = Purged(n)
        \/ mem' = BurnId(m)
        \/ mem' = Purged(m)
    BY <1>7 DEF Compact, MergeFails
  <2> HIDE DEF m
  <2>3. m \in Memory /\ HasRoom(m) /\ RoomToFlush
    BY <1>3, <2>1
  <2>4. /\ m.segment_ids \in SUBSET m.segment_ids
        /\ m.segment_ids \in SUBSET SegIds
    BY <2>3 DEF Memory
  <2>5. n \in Memory /\ (Held(n, i) => Held(m, i))
    BY <2>3, <2>4, MergeGroupType, MergeHeld
  <2> HIDE DEF n
  <2> QED  BY <1>2, <1>4, <2>2, <2>3, <2>5
<1>8. CASE WriteManifest
  BY <1>1, <1>8, RetainedSame DEF WriteManifest
<1>9. CASE CheckpointRefused \/ PersistNext \/ RotateAndGc \/ Republish
  BY <1>9 DEF CheckpointRefused, PersistNext, RotateAndGc, Republish, process
<1> QED
  BY <1>5, <1>6, <1>7, <1>8, <1>9 DEF Maintenance

-----------------------------------------------------------------------------
(* The store beside its oracle, action by action.                          *)

LEMMA OracleTypes ==
  ASSUME StoreInv, OracleInv
  PROVE  /\ manifest = prior /\ ~poisoned /\ ~wal_failed
         /\ taken = wals[manifest.epoch] /\ taken \in Seq(Ops)
         /\ Len(taken) \in Nat
         /\ manifest.epoch \in Epochs
<1>1. /\ manifest = prior /\ ~poisoned /\ ~wal_failed /\ taken = wals[manifest.epoch]
  BY DEF OracleInv, NothingInDoubt, OracleInStep
<1>2. wals[manifest.epoch] \in Seq(Ops) /\ manifest.epoch \in Epochs
  BY LogTypes
<1> QED  BY <1>1, <1>2

\* What a write is written to.
LEMMA OWriteFacts ==
  ASSUME StoreInv, LogInv, OracleInv, NEW op \in Ops, OWrite(op)
  PROVE  /\ phase \in {"open", "extend"} /\ phase' \in {"open", "extend"}
         /\ mem \in Memory /\ MemInv(mem) /\ HasRoom(mem)
         /\ mem' = Applied(mem, op)
         /\ taken' = Append(taken, op) /\ taken' = (wals[manifest.epoch])'
         /\ UNCHANGED <<poisoned, wal_failed, manifest, prior, files, base>>
         /\ NoteAdd(op)
<1>1. Write(op) \/ ExtendItem(op)
  BY DEF OWrite
<1>2. /\ phase \in {"open", "extend"} /\ phase' \in {"open", "extend"}
      /\ mem' = Applied(mem, op) /\ HasRoom(mem)
      /\ wals' = [wals EXCEPT ![epoch] = Append(@, op)]
      /\ UNCHANGED <<poisoned, wal_failed, manifest, prior, files>>
  BY <1>1 DEF Write, ExtendItem, CanWrite, AppendRecord
<1>3. mem \in Memory /\ MemInv(mem)
  BY DEF StoreInv, TypeOK
<1>4. manifest.epoch = epoch
  BY <1>2, OracleTypes DEF LogInv, ManifestsInStep
<1>5. taken' = Append(taken, op) /\ NoteAdd(op) /\ base' = base
  BY DEF OWrite
<1>6. (wals[manifest.epoch])' = Append(taken, op)
  BY <1>2, <1>4, OracleTypes, LogTypes
<1> QED  BY <1>2, <1>3, <1>5, <1>6

\* An id that becomes known is no longer unique when it is added again.
LEMMA NoteAddFacts ==
  ASSUME NEW op \in Ops, NoteAdd(op)
  PROVE  /\ added \subseteq added' /\ readded \subseteq readded'
         /\ ~TracksIds /\ op.item # Deleted =>
              /\ op.id \in added'
              /\ op.id \in added => op.id \in readded'
BY DEF NoteAdd

LEMMA OWriteAddedOnce ==
  ASSUME StoreInv, LogInv, OracleInv, NEW op \in Ops, OWrite(op)
  PROVE  AddedOnce'
<1> SUFFICES ASSUME ~TracksIds PROVE AddedOnce'
  BY DEF AddedOnce
<1>1. /\ phase' # "replay"
      /\ mem \in Memory /\ MemInv(mem) /\ HasRoom(mem)
      /\ mem' = Applied(mem, op) /\ taken' = Append(taken, op)
      /\ UNCHANGED <<manifest, files>>
  BY OWriteFacts
<1>2. /\ added \subseteq added' /\ readded \subseteq readded'
      /\ \A i : Adds(op, i) =>
           i \in added' /\ (i \in added => i \in readded')
  BY NoteAddFacts, OWriteFacts DEF Adds
<1>3. PICK n \in Nat : n = Len(taken)
  BY OracleTypes
<1>4. /\ Len(taken') = n + 1 /\ taken'[n + 1] = op
      /\ \A k \in 1 .. n : taken'[k] = taken[k]
  BY <1>1, <1>3, OracleTypes
<1>5. /\ \A i \in Ids : SealedIn(manifest, files, i) \/ Held(mem, i) => i \in added
      /\ \A i \in Ids, k \in 1 .. n : Adds(taken[k], i) =>
           /\ i \in added
           /\ i \notin readded =>
                /\ ~SealedIn(manifest, files, i)
                /\ \A j \in 1 .. n : Adds(taken[j], i) => j = k
  BY <1>3 DEF OracleInv, AddedOnce
<1>6. \A i \in Ids : SealedIn(manifest', files', i) \/ Held(mem', i) => i \in added'
  <2>1. \A i \in Ids : Held(mem', i) => Held(mem, i) \/ Adds(op, i)
    BY <1>1, AppliedHeld
  <2> QED  BY <1>1, <1>2, <1>5, <2>1
<1>7. ASSUME NEW i \in Ids, NEW k \in 1 .. n + 1, Adds(taken'[k], i)
      PROVE  /\ i \in added'
             /\ i \notin readded' =>
                  /\ ~SealedIn(manifest', files', i)
                  /\ \A j \in 1 .. n + 1 : Adds(taken'[j], i) => j = k
  <2>1. \A j \in 1 .. n + 1 : j \in 1 .. n \/ j = n + 1
    OBVIOUS
  <2>2. CASE k \in 1 .. n
    <3>1. Adds(taken[k], i) /\ i \in added
      BY <1>4, <1>5, <1>7, <2>2
    <3>2. i \notin readded' => ~Adds(op, i) /\ i \notin readded
      BY <1>2, <3>1
    <3> QED  BY <1>1, <1>2, <1>4, <1>5, <2>1, <2>2, <3>1, <3>2
  <2>3. CASE k = n + 1
    <3>1. Adds(op, i)
      BY <1>4, <1>7, <2>3
    <3>2. i \notin readded' => i \notin added
      BY <1>2, <3>1
    <3> QED  BY <1>1, <1>2, <1>4, <1>5, <2>1, <2>3, <3>1, <3>2
  <2> QED  BY <2>1, <2>2, <2>3
<1> QED  BY <1>1, <1>4, <1>6, <1>7 DEF AddedOnce

\* A write: the store and the map make the same of it.
LEMMA OWriteInv ==
  ASSUME StoreInv, LogInv, OracleInv, NEW op \in Ops, OWrite(op)
  PROVE  OracleInv'
<1>1. /\ phase \in {"open", "extend"} /\ phase' \in {"open", "extend"}
      /\ mem \in Memory /\ MemInv(mem) /\ HasRoom(mem)
      /\ mem' = Applied(mem, op)
      /\ taken' = Append(taken, op) /\ taken' = (wals[manifest.epoch])'
      /\ UNCHANGED <<poisoned, wal_failed, manifest, prior, files, base>>
  BY OWriteFacts
<1>2. added \subseteq added' /\ readded \subseteq readded'
  BY NoteAddFacts, OWriteFacts
<1>3. NothingInDoubt'
  BY <1>1 DEF OracleInv, NothingInDoubt
<1>4. OracleInStep'
  BY <1>1, <1>2 DEF OracleInv, OracleInStep, Unique
<1>5. ASSUME NEW i \in Ids, Unique(i)'
      PROVE  Reads(mem', i) = Latest(i)'
  <2>1. \/ TracksIds \/ op.item = Deleted \/ i # op.id
        \/ \A s \in mem.segment_ids : op.id \notin IdsOf(mem.segments[s])
    <3> SUFFICES ASSUME ~TracksIds, op.item # Deleted, i = op.id
                 PROVE  ~SealedIn(mem, mem.segments, i)
      BY DEF SealedIn
    <3>1. i \notin added
      BY <1>5, NoteAddFacts, OWriteFacts DEF Unique
    <3> QED  BY <3>1 DEF OracleInv, AddedOnce, Held
  <2>2. Reads(mem', i) = Overwritten(Reads(mem, i), op, i)
    BY <1>1, <2>1, AppliedReads
  <2>3. Reads(mem, i) = After(base[i], taken, Len(taken), i)
    BY <1>1, <1>2, <1>5 DEF OracleInv, WriterMatchesModel, Latest, Unique
  <2>4. PICK log \in Seq(Ops) : log = taken
    BY OracleTypes
  <2>5. PICK held : held = base[i]
    OBVIOUS
  <2>6. After(held, Append(log, op), Len(log) + 1, i) =
          Overwritten(After(held, log, Len(log), i), op, i)
    BY AfterAppend
  <2>7. Latest(i)' = After(held, Append(log, op), Len(log) + 1, i)
    <3>1. Len(Append(log, op)) = Len(log) + 1
      OBVIOUS
    <3> QED  BY <1>1, <2>4, <2>5, <3>1 DEF Latest
  <2> QED  BY <2>2, <2>3, <2>4, <2>5, <2>6, <2>7
<1>6. WriterMatchesModel'
  BY <1>1, <1>5 DEF WriterMatchesModel
<1> QED  BY <1>3, <1>4, <1>6, OWriteAddedOnce DEF OracleInv

\* What the steps between two writes leave alone, but for the commit.
LEMMA OMaintainFacts ==
  ASSUME StoreInv, LogInv, OracleInv, OMaintain
  PROVE  /\ Next /\ (ExtendSync \/ Maintenance)
         /\ phase \notin {"down", "replay"} /\ phase' \notin {"down", "replay"}
         /\ UNCHANGED <<poisoned, manifest, prior, base, taken, added, readded>>
         /\ wal_failed' = FALSE
         /\ \A s \in manifest.segment_ids : files'[s] = files[s]
         /\ \A i \in Ids :
              /\ ReadsOnOpen(manifest, files', i) = ReadsOnOpen(manifest, files, i)
              /\ Reads(mem', i) = Reads(mem, i)
<1>1. Next /\ (ExtendSync \/ Maintenance)
  BY DEF OMaintain, Next, WriterNext, Maintenance
<1>2. /\ phase \notin {"down", "replay"} /\ phase' \notin {"down", "replay"}
      /\ UNCHANGED <<poisoned, manifest, prior, base, taken, added, readded>>
  BY DEF OMaintain, oracle, ExtendSync, FlushOnly, Merge, MergeFails, Compact,
         MergeFrame, CheckpointStart, PersistNext, RotateAndGc, Republish,
         process, disk
<1>3. wal_failed' = FALSE
  BY OracleTypes, OracleAssumption
     DEF OMaintain, ExtendSync, FlushOnly, Merge, Compact, MergeFrame,
         CheckpointStart, PersistNext, RotateAndGc, Republish, process
<1>4. \A s \in manifest.segment_ids : files'[s] = files[s]
  BY <1>1, <1>2, FilesKept
<1>5. \A i \in Ids : ReadsOnOpen(manifest, files', i) = ReadsOnOpen(manifest, files, i)
  BY <1>4, ReadsOnOpenSame
<1>6. \A i \in Ids : Reads(mem', i) = Reads(mem, i)
  <2>1. ExtendSync => mem' = mem
    BY DEF ExtendSync
  <2> QED  BY <1>1, <2>1, MaintenanceReads
<1> QED  BY <1>1, <1>2, <1>3, <1>4, <1>5, <1>6

LEMMA OMaintainInv ==
  ASSUME StoreInv, LogInv, LogInv', OracleInv, OMaintain
  PROVE  OracleInv'
<1>1. Next /\ (ExtendSync \/ Maintenance)
  BY OMaintainFacts
<1>2. /\ phase \notin {"down", "replay"} /\ phase' \notin {"down", "replay"}
      /\ UNCHANGED <<poisoned, manifest, prior, base, taken, added, readded>>
      /\ wal_failed' = FALSE
  BY OMaintainFacts
<1>4. UNCHANGED wals[manifest.epoch]
  <2>1. CASE RotateAndGc
    <3>1. phase = "rotate" /\ phase' = "publish"
      BY <2>1 DEF RotateAndGc
    <3> QED
      BY <1>2, <3>1, OracleTypes DEF LogInv, FreshLogsEmpty
  <2>2. CASE ~RotateAndGc
    <3>1. UNCHANGED wals
      BY <2>2 DEF OMaintain, ExtendSync, FlushOnly, Merge, Compact, MergeFrame,
                  CheckpointStart, PersistNext, Republish, disk
    <3> QED  BY <1>2, <3>1
  <2> QED  BY <2>1, <2>2
<1>5. \A s \in manifest.segment_ids : files'[s] = files[s]
  BY OMaintainFacts
<1>6. \A i \in Ids : ReadsOnOpen(manifest, files', i) = ReadsOnOpen(manifest, files, i)
  BY OMaintainFacts
<1>7. \A i \in Ids : Reads(mem', i) = Reads(mem, i)
  BY OMaintainFacts
<1>8. \A i \in Ids : Held(mem', i) => Held(mem, i)
  <2>1. ExtendSync => mem' = mem
    BY DEF ExtendSync
  <2> QED  BY <1>1, <2>1, MaintenanceHeld
<1>9. NothingInDoubt'
  BY <1>2 DEF OracleInv, NothingInDoubt
<1>10. OracleInStep'
  BY <1>2, <1>4, <1>6 DEF OracleInv, OracleInStep, Unique
<1>11. AddedOnce'
  <2>1. \A i \in Ids : SealedIn(manifest', files', i) = SealedIn(manifest, files, i)
    BY <1>2, <1>5 DEF SealedIn
  <2> QED  BY <1>2, <1>8, <2>1 DEF OracleInv, AddedOnce
<1>12. WriterMatchesModel'
  BY <1>2, <1>7 DEF OracleInv, WriterMatchesModel, Latest, Unique
<1> QED  BY <1>9, <1>10, <1>11, <1>12 DEF OracleInv

\* The commit: the map of the manifest is the map now.
LEMMA OCommitFacts ==
  ASSUME StoreInv, LogInv, OracleInv, OCommit
  PROVE  /\ phase = "persist" /\ phase' = "rotate" /\ ~poisoned'
         /\ UNCHANGED <<mem, wal_failed, files, wals, added, readded>>
         /\ base' = [i \in Ids |-> Latest(i)] /\ taken' = <<>>
         /\ \E new \in {NewManifest(mem)} :
              /\ manifest' = new /\ prior' = new /\ wals[new.epoch] = <<>>
              /\ \A i \in Ids : ReadsOnOpen(new, files, i) = Reads(mem, i)
              /\ new.segment_ids = mem.segment_ids
         /\ \A s \in mem.segment_ids : files[s] = mem.segments[s]
         /\ \A i \in Ids : Latest(i)' = Latest(i)
<1>0. PICK new : new = NewManifest(mem)
  OBVIOUS
<1>1. /\ phase = "persist" /\ Unpersisted = {} /\ SegmentsPlaced
      /\ mem \in Memory /\ MemInv(mem) /\ epoch < MaxEpoch
      /\ UNCHANGED <<epoch, wal_failed, files, wals>>
      /\ base' = [i \in Ids |-> Latest(i)] /\ taken' = <<>>
      /\ UNCHANGED <<added, readded>>
  BY DEF StoreInv, TypeOK, OCommit, WriteManifest
<1>2. mem' = mem
  BY <1>1, RetainedSame DEF OCommit, WriteManifest
<1>3. /\ manifest' = new /\ prior' = new /\ phase' = "rotate" /\ ~poisoned'
  BY <1>0, <1>1, <1>2, OracleAssumption, OracleTypes
     DEF OCommit, WriteManifest, NewManifest
<1>4. /\ mem.buffer = {} /\ new.epoch = epoch + 1 /\ prior.epoch = epoch
      /\ new.segment_ids = mem.segment_ids
  BY <1>0, <1>1 DEF LogInv, ManifestsInStep, CommitComplete, NewManifest
<1>5. wals[new.epoch] = <<>>
  <2>1. epoch \in 0 .. MaxEpoch /\ MaxEpoch \in Nat
    BY LogTypes, StoreAssumption DEF Epochs
  <2>2. epoch + 1 \in 0 .. MaxEpoch /\ epoch + 1 > epoch
    BY <1>1, <2>1
  <2> QED  BY <1>4, <2>2 DEF LogInv, FreshLogsEmpty, Epochs
<1>6. \A s \in mem.segment_ids : files[s] = mem.segments[s]
  BY <1>1 DEF Unpersisted, SegmentsPlaced
<1>7. \A i \in Ids : ReadsOnOpen(new, files, i) = Reads(mem, i)
  <2> files \in Payloads
    BY DEF StoreInv, TypeOK
  <2> QED  BY <1>0, <1>1, <1>4, <1>6, NewManifestContents
<1>8. ASSUME NEW i \in Ids
      PROVE  Latest(i)' = Latest(i)
  <2>1. Latest(i)' = After(base'[i], <<>>, 0, i) /\ base'[i] = Latest(i)
    BY <1>1 DEF Latest
  <2> QED  BY <2>1, AfterStart
<1> QED  BY <1>0, <1>1, <1>2, <1>3, <1>4, <1>5, <1>6, <1>7, <1>8

LEMMA OCommitInv ==
  ASSUME StoreInv, LogInv, OracleInv, OCommit
  PROVE  OracleInv'
<1>1. /\ phase = "persist" /\ phase' = "rotate" /\ ~poisoned'
      /\ UNCHANGED <<mem, wal_failed, files, wals, added, readded>>
      /\ base' = [i \in Ids |-> Latest(i)] /\ taken' = <<>>
      /\ \A s \in mem.segment_ids : files[s] = mem.segments[s]
      /\ \A i \in Ids : Latest(i)' = Latest(i)
  BY OCommitFacts
<1>2. PICK new : /\ manifest' = new /\ prior' = new /\ wals[new.epoch] = <<>>
                 /\ \A i \in Ids : ReadsOnOpen(new, files, i) = Reads(mem, i)
                 /\ new.segment_ids = mem.segment_ids
  BY OCommitFacts
<1>8. \A i \in Ids : Unique(i) => Reads(mem, i) = Latest(i)
  BY <1>1 DEF OracleInv, WriterMatchesModel
<1>9. NothingInDoubt'
  BY <1>1, <1>2, OracleTypes DEF NothingInDoubt
<1>10. OracleInStep'
  BY <1>1, <1>2, <1>8 DEF OracleInStep, Unique
<1>11. AddedOnce'
  <2>1. \A i : SealedIn(new, files, i) => Held(mem, i)
    BY <1>1, <1>2 DEF SealedIn, Held
  <2> QED  BY <1>1, <1>2, <2>1 DEF OracleInv, AddedOnce
<1>12. WriterMatchesModel'
  BY <1>1, <1>8 DEF WriterMatchesModel, Unique
<1> QED  BY <1>9, <1>10, <1>11, <1>12 DEF OracleInv

\* open starts from the map of the manifest.
LEMMA OOpenLoadInv ==
  ASSUME StoreInv, OracleInv, OpenLoad, UNCHANGED oracle
  PROVE  OracleInv'
<1>1. /\ phase' = "replay" /\ applied' = 0 /\ ~poisoned' /\ ~wal_failed'
      /\ mem' = Load(manifest, files) /\ prior' = manifest /\ manifest' = manifest
      /\ Collect(SegIds \ manifest.segment_ids, Epochs \ {manifest.epoch})
      /\ UNCHANGED <<base, taken, added, readded>>
  BY DEF OpenLoad, oracle
<1>2. \A s \in manifest.segment_ids : files'[s] = files[s]
  <2>1. Next
    BY DEF Next
  <2> QED  BY <1>1, <2>1, FilesKept
<1>3. \A i \in Ids : ReadsOnOpen(manifest, files', i) = ReadsOnOpen(manifest, files, i)
  BY <1>2, ReadsOnOpenSame
<1>4. (wals[manifest.epoch])' = wals[manifest.epoch]
  BY <1>1, CollectLogs, OracleTypes
<1>5. NothingInDoubt'
  BY <1>1 DEF NothingInDoubt
<1>6. OracleInStep'
  BY <1>1, <1>3, <1>4 DEF OracleInv, OracleInStep, Unique
<1>7. AddedOnce'
  <2>1. \A i : Held(mem', i) => SealedIn(manifest, files, i)
    <3>1. /\ mem'.buffer = {} /\ mem'.segment_ids = manifest.segment_ids
          /\ \A s \in SegIds : s \in manifest.segment_ids =>
               mem'.segments[s] = files[s]
          /\ manifest.segment_ids \subseteq SegIds
      BY <1>1 DEF Load, StoreInv, TypeOK, Manifests
    <3> QED  BY <3>1 DEF Held, SealedIn, IdsOf
  <2>2. \A i : SealedIn(manifest', files', i) = SealedIn(manifest, files, i)
    BY <1>1, <1>2 DEF SealedIn
  <2> QED  BY <1>1, <2>1, <2>2 DEF OracleInv, AddedOnce
<1>8. WriterMatchesModel'
  <2>1. ASSUME NEW i \in Ids, Unique(i)
        PROVE  Reads(mem', i) = After(base[i], taken, 0, i)
    <3>1. Reads(mem', i) = ReadsOnOpen(manifest, files, i)
      BY OpenLoadReads
    <3>2. ReadsOnOpen(manifest, files, i) = base[i]
      BY <2>1 DEF OracleInv, OracleInStep
    <3> QED  BY <3>1, <3>2, AfterStart
  <2> QED  BY <1>1, <2>1 DEF WriterMatchesModel, Unique
<1> QED  BY <1>5, <1>6, <1>7, <1>8 DEF OracleInv

\* What a replayed record is.
LEMMA OReplayFacts ==
  ASSUME StoreInv, LogInv, OracleInv, Replay, UNCHANGED oracle
  PROVE  /\ phase = "replay" /\ phase' = "replay"
         /\ mem \in Memory /\ MemInv(mem) /\ HasRoom(mem)
         /\ UNCHANGED <<epoch, poisoned, wal_failed, manifest, prior, files, wals,
                        base, taken, added, readded>>
         /\ \E n \in Nat, op \in Ops :
              /\ n = applied /\ applied' = n + 1
              /\ n + 1 \in 1 .. Len(taken) /\ op = taken[n + 1]
              /\ op = Log[applied + 1] /\ mem' = Applied(mem, op)
<1>1. /\ phase = "replay" /\ phase' = "replay" /\ applied < Len(Log)
      /\ HasRoom(mem) /\ mem' = Applied(mem, Log[applied + 1])
      /\ applied' = applied + 1
      /\ UNCHANGED <<epoch, poisoned, wal_failed, manifest, prior, files, wals,
                     base, taken, added, readded>>
  BY DEF Replay, disk, oracle
<1>2. /\ mem \in Memory /\ MemInv(mem) /\ Log = taken
  BY <1>1, OracleTypes DEF StoreInv, TypeOK, LogInv, ManifestsInStep, Log
<1>3. PICK n \in Nat : n = applied
  BY LogTypes
<1>4. /\ n + 1 \in 1 .. Len(taken) /\ taken[n + 1] \in Ops
  BY <1>1, <1>2, <1>3, OracleTypes
<1>5. PICK op \in Ops : op = taken[n + 1]
  BY <1>4
<1>6. mem' = Applied(mem, op) /\ op = Log[applied + 1]
  BY <1>1, <1>2, <1>3, <1>5
<1> QED  BY <1>1, <1>2, <1>3, <1>4, <1>5, <1>6

\* A replayed record: the map makes of the last commit what the store does.
LEMMA OReplayInv ==
  ASSUME StoreInv, LogInv, OracleInv, Replay, UNCHANGED oracle
  PROVE  OracleInv'
<1>1. /\ phase = "replay" /\ phase' = "replay" /\ HasRoom(mem)
      /\ UNCHANGED <<epoch, poisoned, wal_failed, manifest, prior, files, wals,
                     base, taken, added, readded>>
  BY OReplayFacts
<1>2. /\ mem \in Memory /\ MemInv(mem)
  BY OReplayFacts
<1>3. PICK n \in Nat, op \in Ops :
        /\ n = applied /\ applied' = n + 1
        /\ n + 1 \in 1 .. Len(taken) /\ op = taken[n + 1]
        /\ mem' = Applied(mem, op)
  BY OReplayFacts
<1>4. /\ n + 1 \in 1 .. Len(taken)
  BY <1>3
<1>5. op = taken[n + 1]
  BY <1>3
<1>6. mem' = Applied(mem, op)
  BY <1>3
<1>7. ASSUME ~TracksIds, NEW i \in Ids, i \notin readded, Adds(op, i)
      PROVE  ~Held(mem, i)
  <2>1. /\ ~SealedIn(manifest, files, i)
        /\ \A j \in 1 .. Len(taken) : Adds(taken[j], i) => j = n + 1
    BY <1>4, <1>5, <1>7 DEF OracleInv, AddedOnce
  <2>2. \A k \in 1 .. n : k \in 1 .. Len(taken) /\ k # n + 1
    BY <1>4, OracleTypes
  <2>3. ~\E k \in 1 .. n : Adds(taken[k], i)
    BY <2>1, <2>2
  <2> QED  BY <1>1, <1>3, <1>7, <2>1, <2>3 DEF OracleInv, AddedOnce
<1>8. NothingInDoubt' /\ OracleInStep'
  BY <1>1 DEF OracleInv, NothingInDoubt, OracleInStep, Unique
<1>9. AddedOnce'
  <2> SUFFICES ASSUME ~TracksIds PROVE AddedOnce'
    BY DEF AddedOnce
  <2>1. \A i \in Ids : Held(mem', i) => Held(mem, i) \/ Adds(op, i)
    BY <1>1, <1>2, <1>6, AppliedHeld
  <2>2. \A i \in Ids : Adds(op, i) => i \in added
    BY <1>4, <1>5 DEF OracleInv, AddedOnce
  <2>3. n + 1 \in 1 .. n + 1 /\ \A k \in 1 .. n : k \in 1 .. n + 1
    OBVIOUS
  <2>4. \A i \in Ids : Held(mem', i) =>
          \/ SealedIn(manifest, files, i)
          \/ \E k \in 1 .. n + 1 : Adds(taken[k], i)
    BY <1>1, <1>3, <1>5, <2>1, <2>3 DEF OracleInv, AddedOnce
  <2> QED  BY <1>1, <1>3, <2>1, <2>2, <2>4 DEF OracleInv, AddedOnce
<1>10. WriterMatchesModel'
  <2>1. ASSUME NEW i \in Ids, Unique(i)
        PROVE  Reads(mem', i) = After(base[i], taken, n + 1, i)
    <3>1. \/ TracksIds \/ op.item = Deleted \/ i # op.id
          \/ \A s \in mem.segment_ids : op.id \notin IdsOf(mem.segments[s])
      BY <1>7, <2>1 DEF Unique, Adds, Held, SealedIn
    <3>2. Reads(mem', i) = Overwritten(Reads(mem, i), op, i)
      <4>1. mem \in Memory /\ MemInv(mem) /\ HasRoom(mem)
        BY <1>1, <1>2
      <4>2. Reads(Applied(mem, op), i) = Overwritten(Reads(mem, i), op, i)
        BY <3>1, <4>1, AppliedReads
      <4> QED  BY <1>6, <4>2
    <3>3. Reads(mem, i) = After(base[i], taken, n, i)
      BY <1>1, <1>3, <2>1 DEF OracleInv, WriterMatchesModel
    <3>4. After(base[i], taken, n + 1, i) =
            Overwritten(After(base[i], taken, n, i), taken[n + 1], i)
      BY AfterNext
    <3> QED  BY <1>5, <3>2, <3>3, <3>4
  <2> QED  BY <1>1, <1>3, <2>1 DEF WriterMatchesModel, Unique
<1> QED  BY <1>8, <1>9, <1>10 DEF OracleInv

\* The end of open: all records are replayed.
LEMMA OOpenDoneInv ==
  ASSUME StoreInv, LogInv, OracleInv, OpenDone, UNCHANGED oracle
  PROVE  OracleInv'
<1>1. /\ phase = "replay" /\ phase' = "open" /\ applied = Len(Log)
      /\ UNCHANGED <<mem, poisoned, wal_failed, manifest, prior, files, wals,
                     base, taken, added, readded>>
  BY DEF OpenDone, process, disk, oracle
<1>2. Log = taken
  BY <1>1, OracleTypes DEF LogInv, ManifestsInStep, Log
<1>3. NothingInDoubt' /\ OracleInStep' /\ AddedOnce'
  BY <1>1 DEF OracleInv, NothingInDoubt, OracleInStep, AddedOnce, Unique
<1>4. WriterMatchesModel'
  BY <1>1, <1>2 DEF OracleInv, WriterMatchesModel, Latest, Unique
<1> QED  BY <1>3, <1>4 DEF OracleInv

\* Whatever shortens the log shortens the list of operations with it.
LEMMA ShortenedInv ==
  ASSUME StoreInv, OracleInv, NEW k \in 0 .. Len(taken),
         taken' = SubSeq(taken, 1, k), taken' = (wals[manifest.epoch])',
         manifest' = manifest, prior' = prior, files' = files, ~poisoned',
         ~wal_failed', phase' = "down", mem' = mem \/ mem' = EmptyMemory,
         UNCHANGED <<base, added, readded>>
  PROVE  OracleInv'
<1>1. NothingInDoubt' /\ OracleInStep' /\ WriterMatchesModel'
  BY DEF OracleInv, NothingInDoubt, OracleInStep, WriterMatchesModel, Unique
<1>2. AddedOnce'
  <2>1. /\ Len(taken') = k /\ \A j \in 1 .. k : taken'[j] = taken[j]
        /\ \A j \in 1 .. k : j \in 1 .. Len(taken)
    BY OracleTypes
  <2>2. \A i : Held(mem', i) => Held(mem, i)
    BY DEF Held, SealedIn, EmptyMemory, IdsOf
  <2> QED  BY <2>1, <2>2 DEF OracleInv, AddedOnce
<1> QED  BY <1>1, <1>2 DEF OracleInv

\* A stop takes out of the map what it took out of the log.
LEMMA OStopInv ==
  ASSUME StoreInv, OracleInv, OStop
  PROVE  OracleInv'
<1>1. /\ Stop /\ manifest' = manifest /\ prior' = prior
  BY OracleTypes DEF OStop, ProcessCrash, PowerLoss
<1>2. PICK from \in Nat : LoseTail(from)
  BY LogTypes DEF OStop, ProcessCrash, PowerLoss
<1>3. PICK k \in from .. Len(wals[prior.epoch]) :
        /\ wals'[prior.epoch] = SubSeq(wals[prior.epoch], 1, k)
        /\ Len(wals'[prior.epoch]) = k
  BY <1>2, LoseTailFacts
<1>4. wals'[manifest.epoch] = SubSeq(taken, 1, k)
  BY <1>3, OracleTypes
<1>5. taken' = SubSeq(taken, 1, k)
  <2>1. Len(taken) - (Len(taken) - k) = k
    BY <1>3, OracleTypes
  <2>2. Len(wals[manifest.epoch]) = Len(taken) /\ Len(wals'[manifest.epoch]) = k
    BY <1>3, OracleTypes
  <2> QED  BY <2>1, <2>2 DEF OStop
<1>6. k \in 0 .. Len(taken)
  BY <1>3, OracleTypes
<1>7. /\ ~poisoned' /\ ~wal_failed' /\ phase' = "down" /\ mem' = EmptyMemory
      /\ files' = files /\ UNCHANGED <<base, added, readded>>
  BY <1>1 DEF Stop, OStop
<1> QED  BY <1>1, <1>4, <1>5, <1>6, <1>7, ShortenedInv

\* Every step of the store that the oracle follows.
OStep ==
  \/ \E op \in Ops : OWrite(op)
  \/ OMaintain
  \/ OCommit
  \/ OOpen
  \/ OStop

LEMMA OStepNext == OStep => Next
BY DEF OStep, OWrite, OMaintain, OCommit, OOpen, OStop, Next, WriterNext

LEMMA OStepInv ==
  ASSUME StoreInv, LogInv, OracleInv, OStep
  PROVE  StoreInv' /\ LogInv' /\ OracleInv'
<1>1. StoreInv' /\ LogInv'
  BY OStepNext, NextInv, LogNextInv
<1>2. OracleInv'
  BY <1>1, OWriteInv, OMaintainInv, OCommitInv, OOpenLoadInv, OReplayInv,
     OOpenDoneInv, OStopInv DEF OStep, OOpen
<1> QED  BY <1>1, <1>2

\* What readers see follows from what the writer has committed.
LEMMA OracleReaders ==
  StoreInv /\ LogInv /\ OracleInv /\ ManifestsMarked => ReadersMatchCheckpoint
<1> SUFFICES ASSUME StoreInv, LogInv, OracleInv, ManifestsMarked,
                    phase \notin {"down", "rotate", "publish"},
                    NEW i \in Ids, Unique(i)
             PROVE  /\ LiveItems(published, published.segments, i) = base[i]
                    /\ LiveItems(manifest, files, i) = base[i]
  BY DEF ReadersMatchCheckpoint
<1>1. manifest = prior /\ ReadsOnOpen(manifest, files, i) = base[i]
  BY OracleTypes DEF OracleInv, OracleInStep
<1>2. LiveItems(published, published.segments, i) = ReadsOnOpen(prior, files, i)
  BY DEF LogInv, PublishedCommitted
<1>3. ReadsOnOpen(manifest, files, i) = LiveItems(manifest, files, i)
  <2>1. manifest.segment_ids \in SUBSET SegIds /\ files \in Payloads
    BY DEF StoreInv, TypeOK, Manifests
  <2> QED  BY <2>1, MarkedReads DEF ManifestsMarked
<1> QED  BY <1>1, <1>2, <1>3

LEMMA OracleInitInv == OInit => StoreInv /\ LogInv /\ OracleInv
<1> SUFFICES ASSUME OInit PROVE StoreInv /\ LogInv /\ OracleInv
  OBVIOUS
<1>1. StoreInv /\ LogInv
  BY InitInv, LogInit DEF OInit
<1>2. /\ phase = "down" /\ manifest = prior /\ manifest = NoManifest
      /\ mem = EmptyMemory /\ ~poisoned /\ ~wal_failed
      /\ wals[manifest.epoch] = <<>> /\ taken = <<>>
      /\ base = [i \in Ids |-> {}]
  BY StoreAssumption DEF OInit, Init, NoManifest, Epochs
<1>3. NothingInDoubt /\ OracleInStep /\ WriterMatchesModel
  BY <1>2, NothingOnOpen
     DEF NothingInDoubt, OracleInStep, WriterMatchesModel, NoManifest
<1>4. AddedOnce
  <2>1. \A i : ~SealedIn(manifest, files, i) /\ ~Held(mem, i)
    BY <1>2 DEF SealedIn, Held, NoManifest, EmptyMemory, IdsOf
  <2>2. 1 .. Len(taken) = {}
    BY <1>2
  <2> QED  BY <2>1, <2>2 DEF AddedOnce
<1> QED  BY <1>1, <1>3, <1>4 DEF OracleInv

-----------------------------------------------------------------------------
(* On a disk that damages files.                                           *)

\* Damage waits in the log, at a record there is, until open finds it.
DamageInv ==
  /\ intact \in Nat
  /\ intact < Whole => phase = "down" /\ intact < Len(wals[manifest.epoch])
  /\ phase = "down" => applied = 0

DInv == StoreInv /\ LogInv /\ OracleInv /\ ManifestsMarked /\ DamageInv

LEMMA ReadDamagedLogInv ==
  ASSUME DInv, ReadDamagedLog
  PROVE  DInv'
<1> DEFINE e == manifest.epoch
<1>1. PICK left : left = SubSeq(wals[e], 1, intact)
  OBVIOUS
<1>2. /\ phase = "down" /\ phase' = "down" /\ intact < Whole /\ intact' = Whole
      /\ wals' = [wals EXCEPT ![e] = left]
      /\ synced' = [synced EXCEPT ![e] = Len(left)]
      /\ taken' = SubSeq(taken, 1, Len(left))
      /\ UNCHANGED <<process, published, manifest, prior, files, base, added,
                     readded>>
  BY <1>1 DEF ReadDamagedLog
<1>3. /\ manifest = prior /\ ~poisoned /\ ~wal_failed /\ taken = wals[e]
      /\ taken \in Seq(Ops) /\ Len(taken) \in Nat /\ e \in Epochs
  BY OracleTypes DEF DInv
<1>4. intact \in 0 .. Len(taken)
  BY <1>2, <1>3 DEF DInv, DamageInv
<1>5. left \in Seq(Ops) /\ Len(left) = intact /\ left = SubSeq(taken, 1, intact)
  BY <1>1, <1>3, <1>4
<1>6. /\ wals' \in [Epochs -> Seq(Ops)] /\ synced' \in [Epochs -> Nat]
      /\ wals'[e] = left
      /\ \A d \in Epochs : d # e => wals'[d] = wals[d] /\ synced'[d] = synced[d]
  BY <1>2, <1>3, <1>4, <1>5, LogTypes DEF DInv
<1>7. StoreInv'
  BY <1>2, <1>6 DEF DInv, StoreInv, TypeOK, process, IdsAhead, SegmentsPlaced
<1>8. LogInv'
  <2>1. ManifestsInStep'
    BY <1>2 DEF DInv, LogInv, ManifestsInStep, process
  <2>2. FreshLogsEmpty'
    <3>1. \A d \in Epochs : d > prior.epoch => d # e
      BY <1>3, LogTypes DEF DInv
    <3> QED  BY <1>2, <1>6, <3>1 DEF DInv, LogInv, FreshLogsEmpty
  <2>3. RecordsApplied'
    <3>1. applied' = applied /\ epoch' = epoch
      BY <1>2 DEF process
    <3>2. applied = 0
      BY <1>2 DEF DInv, DamageInv
    <3>3. Len(Log') \in Nat
      <4>1. epoch \in Epochs
        BY LogTypes DEF DInv
      <4> QED  BY <1>6, <3>1, <4>1 DEF Log
    <3> QED  BY <1>2, <3>1, <3>2, <3>3 DEF RecordsApplied
  <2>4. CommitComplete' /\ PublishedCommitted'
    BY <1>2 DEF CommitComplete, PublishedCommitted
  <2> QED  BY <2>1, <2>2, <2>3, <2>4 DEF LogInv
<1>9. OracleInv'
  BY <1>2, <1>3, <1>4, <1>5, <1>6, ShortenedInv DEF DInv, process
<1>10. DamageInv'
  BY <1>2, StoreAssumption DEF DamageInv, DInv, Whole, process
<1>11. ManifestsMarked'
  BY <1>2 DEF DInv, ManifestsMarked
<1> QED  BY <1>7, <1>8, <1>9, <1>10, <1>11 DEF DInv

\* The steps of the store keep to a log that is whole.
LEMMA DStepInv ==
  ASSUME DInv, DOpen \/ DStep
  PROVE  DInv'
<1>1. OStep
  BY DEF DOpen, DStep, OStep, OOpen
<1>2. StoreInv' /\ LogInv' /\ OracleInv'
  BY <1>1, OStepInv DEF DInv
<1>3. intact' = intact
  BY DEF DOpen, DStep
<1>4. phase' = "down" => applied' = 0
  <2>1. phase' = "down" => OStop \/ UNCHANGED phase
    BY DEF DOpen, DStep, OpenLoad, OWrite, Write, ExtendItem, OMaintain,
           ExtendSync, FlushOnly, Merge, MergeFails, Compact, CheckpointStart,
           PersistNext, RotateAndGc, Republish, OCommit, WriteManifest, OOpen,
           Replay, OpenDone
  <2>2. OStop => applied' = 0
    BY DEF OStop, ProcessCrash, PowerLoss, Stop
  <2>3. phase = "down" /\ ~OStop => phase' # "down"
    BY DEF DOpen, DStep, OpenLoad, OWrite, Write, ExtendItem, OMaintain,
           ExtendSync, FlushOnly, Merge, Compact, CheckpointStart,
           PersistNext, RotateAndGc, Republish, OCommit, WriteManifest
  <2> QED  BY <2>1, <2>2, <2>3
<1>5. intact >= Whole
  <2>1. CASE DOpen
    BY <2>1, StoreAssumption DEF DOpen, Whole
  <2>2. CASE DStep
    <3>1. phase # "down"
      BY <2>2 DEF DStep, OWrite, Write, ExtendItem, OMaintain, ExtendSync,
                  FlushOnly, Merge, Compact, CheckpointStart, PersistNext,
                  RotateAndGc, Republish, OCommit, WriteManifest
    <3> QED  BY <3>1, StoreAssumption DEF DInv, DamageInv, Whole
  <2> QED  BY <2>1, <2>2
<1>6. DamageInv'
  BY <1>3, <1>4, <1>5, StoreAssumption DEF DInv, DamageInv, Whole
<1>7. ManifestsMarked'
  BY <1>1, OStepNext, NextMarked DEF DInv
<1> QED  BY <1>2, <1>6, <1>7 DEF DInv

\* What is said of the store and its oracle is said of their variables.
LEMMA StutterInv ==
  ASSUME StoreInv, LogInv, OracleInv, UNCHANGED <<vars, oracle>>
  PROVE  /\ StoreInv' /\ LogInv' /\ OracleInv'
         /\ ManifestsMarked' = ManifestsMarked
<1>1. StoreInv' /\ LogInv'
  BY NextInv, LogNextInv
<1>2. /\ UNCHANGED <<mem, poisoned, wal_failed, applied, phase, manifest, prior,
                     files, wals>>
      /\ UNCHANGED <<base, taken, added, readded>>
  BY DEF vars, process, disk, oracle
<1>3. NothingInDoubt' /\ OracleInStep' /\ AddedOnce'
  BY <1>2 DEF OracleInv, NothingInDoubt, OracleInStep, AddedOnce, Unique
<1>4. WriterMatchesModel'
  BY <1>2 DEF OracleInv, WriterMatchesModel, Latest, Unique
<1>5. ManifestsMarked' = ManifestsMarked
  BY <1>2 DEF ManifestsMarked
<1> QED  BY <1>1, <1>3, <1>4, <1>5 DEF OracleInv

\* Damage changes nothing until it is read.
LEMMA DamageFileInv ==
  ASSUME DInv, NEW f, DamageFile(f)
  PROVE  DInv'
<1>1. UNCHANGED <<vars, oracle>> /\ intact' = intact
  BY DEF DamageFile, oVars
<1> QED  BY <1>1, StutterInv DEF DInv, DamageInv, vars, process, disk, Whole

\* Nor does the damage to a record, which is one of the log.
LEMMA DamageLogInv ==
  ASSUME DInv, NEW k \in 1 .. MaxWal, DamageLog(k)
  PROVE  DInv'
<1>1. /\ phase = "down" /\ k <= Len(wals[manifest.epoch]) /\ intact' = k - 1
      /\ UNCHANGED <<vars, oracle>>
  BY DEF DamageLog, oVars
<1>2. Len(wals[manifest.epoch]) \in Nat
  BY OracleTypes DEF DInv
<1>3. UNCHANGED <<phase, applied, manifest, wals>>
  BY <1>1 DEF vars, process, disk
<1>4. DamageInv'
  <2>1. k - 1 \in Nat /\ k - 1 < Len(wals[manifest.epoch])
    BY <1>1, <1>2
  <2> QED  BY <1>1, <1>3, <2>1 DEF DInv, DamageInv
<1> QED  BY <1>1, <1>4, StutterInv DEF DInv

LEMMA DInitInv == DInit => DInv
<1> SUFFICES ASSUME DInit PROVE DInv
  OBVIOUS
<1>1. StoreInv /\ LogInv /\ OracleInv /\ ManifestsMarked
  BY OracleInitInv, InitMarked DEF DInit, OInit
<1>2. DamageInv
  BY StoreAssumption DEF DInit, OInit, Init, DamageInv, Whole
<1> QED  BY <1>1, <1>2 DEF DInv

\* Every step keeps DInv.
LEMMA DNextInv == DInv /\ [DNext]_dVars => DInv'
<1> SUFFICES ASSUME DInv, [DNext]_dVars PROVE DInv'
  OBVIOUS
<1>1. CASE \E f \in SegIds \cup {ManifestFile} : DamageFile(f)
  BY <1>1, DamageFileInv
<1>2. CASE \E k \in 1 .. MaxWal : DamageLog(k)
  BY <1>2, DamageLogInv
<1>3. CASE ReadDamagedLog
  BY <1>3, ReadDamagedLogInv
<1>4. CASE DOpen \/ DStep
  BY <1>4, DStepInv
<1>5. CASE UNCHANGED dVars
  <2>1. UNCHANGED <<vars, oracle>> /\ intact' = intact
    BY <1>5 DEF dVars, oVars
  <2> QED  BY <2>1, StutterInv DEF DInv, DamageInv, vars, process, disk, Whole
<1> QED  BY <1>1, <1>2, <1>3, <1>4, <1>5 DEF DNext

\* DInv in every reachable state.
LEMMA DInvAlways == DSpec => []DInv
BY DInitInv, DNextInv, PTL DEF DSpec

\* Beside any sequence of writes, merges, checkpoints, stops, reopens and damage,
\* the writer finds each id by its last document and by no other.
THEOREM WriterAlwaysMatches == DSpec => []WriterMatchesModel
<1>1. DInv => WriterMatchesModel
  BY DEF DInv, OracleInv
<1> QED  BY <1>1, DInvAlways, PTL

\* And readers see the map of the last checkpoint, in this process and in
\* another one.
THEOREM ReadersAlwaysMatch == DSpec => []ReadersMatchCheckpoint
<1>1. DInv => ReadersMatchCheckpoint
  BY OracleReaders DEF DInv
<1> QED  BY <1>1, DInvAlways, PTL

\* On the disk that damages files too, every variable keeps to its type.
THEOREM DamagedTypesKept == DSpec => []TypeOK
<1>1. DInv => TypeOK
  BY DEF DInv, StoreInv
<1> QED  BY <1>1, DInvAlways, PTL

\* And no id has two live copies.
THEOREM DamagedOneLiveCopy == DSpec => []OneLiveCopy
<1>1. DInv => OneLiveCopy
  BY InvOneLive DEF DInv
<1> QED  BY <1>1, DInvAlways, PTL

-----------------------------------------------------------------------------
(* Segments that are inverted indexes: what the callbacks make.            *)

\* The callbacks keep under a term the ids of the documents that have it.
LEMMA UnderBuilt ==
  ASSUME NEW batch, NEW t
  PROVE  IdsUnder(BuildSegment(batch), t) = IdsOf({c \in batch : t \in TermsOf[c[2]]})
<1>1. CASE t \in DOMAIN BuildSegment(batch)
  BY <1>1 DEF IdsUnder, BuildSegment
<1>2. CASE t \notin DOMAIN BuildSegment(batch)
  <2>1. {c \in batch : t \in TermsOf[c[2]]} = {}
    BY <1>2 DEF BuildSegment
  <2> QED  BY <1>2, <2>1 DEF IdsUnder, IdsOf
<1> QED  BY <1>1, <1>2

\* A document has a term, so its id is under one.
LEMMA BuiltLen ==
  ASSUME NEW batch \in SUBSET Copies
  PROVE  SegmentLen(BuildSegment(batch)) = Cardinality(IdsOf(batch))
<1> DEFINE p == BuildSegment(batch)
<1>1. ASSUME NEW i, i \in IdsOf(batch)
      PROVE  \E t \in DOMAIN p : i \in p[t]
  <2>1. PICK c \in batch : c[1] = i
    BY <1>1 DEF IdsOf
  <2>2. TermsOf[c[2]] # {}
    BY <2>1, IndexAssumption DEF Copies
  <2>3. PICK t : t \in TermsOf[c[2]]
    BY <2>2
  <2>4. t \in DOMAIN p /\ i \in p[t]
    BY <2>1, <2>3 DEF BuildSegment, IdsOf
  <2> QED  BY <2>4
<1>2. \A t \in DOMAIN p : p[t] \subseteq IdsOf(batch)
  BY DEF BuildSegment, IdsOf
<1>3. UNION {p[t] : t \in DOMAIN p} = IdsOf(batch)
  <2> HIDE DEF p
  <2> QED  BY <1>1, <1>2
<1> QED  BY <1>3 DEF SegmentLen

\* q has, for each segment of m, what build_segment makes of its copies.
Told(q, m) == \A s \in m.segment_ids : q[s] = BuildSegment(m.segments[s])

\* What a merge leaves under a term: the ids of the live copies that have it.
LEMMA LiveUnderGroup ==
  ASSUME NEW m \in Memory, m.superseded = NoSupersessions,
         m.tombstones = mem.tombstones,
         NEW group \in SUBSET m.segment_ids, NEW q, Told(q, m), NEW t
  PROVE  LiveUnder({q[s] : s \in group}, t) =
           IdsOf({c \in MergedCopies(m, group) : t \in TermsOf[c[2]]})
<1> DEFINE left == LiveUnder({q[s] : s \in group}, t)
           live == IdsOf({c \in MergedCopies(m, group) : t \in TermsOf[c[2]]})
<1>1. \A s \in group : s \in m.segment_ids /\ s \in SegIds
  BY DEF Memory
<1>2. \A s \in group :
        IdsUnder(q[s], t) = IdsOf({c \in m.segments[s] : t \in TermsOf[c[2]]})
  BY <1>1, UnderBuilt DEF Told
<1>3. \A i : i \in left <=>
        (\E s \in group : i \in IdsUnder(q[s], t)) /\ i \notin m.tombstones
  BY DEF LiveUnder
<1>4. \A i : i \in live <=>
        \E s \in group : \E c \in m.segments[s] :
          c[1] = i /\ t \in TermsOf[c[2]] /\ c[1] \notin m.tombstones
  BY <1>1 DEF MergedCopies, LiveCopies, CopyIsLive, IdsOf, NoSupersessions
<1>5. \A i : i \in left <=> i \in live
  <2>1. \A s \in group : \A i : i \in IdsUnder(q[s], t) <=>
          \E c \in m.segments[s] : c[1] = i /\ t \in TermsOf[c[2]]
    BY <1>2 DEF IdsOf
  <2> HIDE DEF left, live
  <2>2. ASSUME NEW i, i \in left
        PROVE  i \in live
    <3>1. PICK s \in group : i \in IdsUnder(q[s], t)
      BY <1>3, <2>2
    <3>2. PICK c \in m.segments[s] : c[1] = i /\ t \in TermsOf[c[2]]
      BY <2>1, <3>1
    <3>3. c[1] \notin m.tombstones
      BY <1>3, <2>2, <3>2
    <3> QED  BY <1>4, <3>2, <3>3
  <2>3. ASSUME NEW i, i \in live
        PROVE  i \in left
    <3>1. PICK s \in group : \E c \in m.segments[s] :
            c[1] = i /\ t \in TermsOf[c[2]] /\ c[1] \notin m.tombstones
      BY <1>4, <2>3
    <3>2. i \in IdsUnder(q[s], t) /\ i \notin m.tombstones
      BY <2>1, <3>1
    <3> QED  BY <1>3, <3>2
  <2> QED  BY <2>2, <2>3
<1> QED  BY <1>5

\* So merge_segments makes what build_segment makes of the live copies.
LEMMA MergeBuilt ==
  ASSUME NEW m \in Memory, m.superseded = NoSupersessions,
         m.tombstones = mem.tombstones,
         NEW group \in SUBSET m.segment_ids, NEW q, Told(q, m)
  PROVE  LET out == MergeSegments({q[s] : s \in group}) IN
         /\ out = BuildSegment(MergedCopies(m, group))
         /\ DOMAIN out = {} <=> MergedCopies(m, group) = {}
<1> DEFINE inputs == {q[s] : s \in group}
           copies == MergedCopies(m, group)
           out == MergeSegments(inputs)
           built == BuildSegment(copies)
<1>1. \A t : LiveUnder(inputs, t) = IdsOf({c \in copies : t \in TermsOf[c[2]]})
  BY LiveUnderGroup
<1>2. DOMAIN out = {t \in UNION {DOMAIN p : p \in inputs} : LiveUnder(inputs, t) # {}}
  BY DEF MergeSegments
<1>3. DOMAIN built = UNION {TermsOf[c[2]] : c \in copies}
  BY DEF BuildSegment
<1>4. \A t : LiveUnder(inputs, t) # {} => t \in UNION {DOMAIN p : p \in inputs}
  BY DEF LiveUnder, IdsUnder
<1>5. ASSUME NEW t
      PROVE  t \in DOMAIN built <=> LiveUnder(inputs, t) # {}
  <2>1. t \in DOMAIN built <=> \E c \in copies : t \in TermsOf[c[2]]
    <3> HIDE DEF copies, built
    <3> QED  BY <1>3
  <2>2. IdsOf({c \in copies : t \in TermsOf[c[2]]}) # {} <=>
          \E c \in copies : t \in TermsOf[c[2]]
    <3> HIDE DEF copies
    <3> QED  BY DEF IdsOf
  <2> QED  BY <1>1, <2>1, <2>2
<1>6. DOMAIN out = DOMAIN built
  <2>1. \A t : t \in DOMAIN out <=> t \in DOMAIN built
    BY <1>2, <1>4, <1>5
  <2> QED  BY <2>1
<1>7. /\ out = [t \in DOMAIN out |-> LiveUnder(inputs, t)]
      /\ built = [t \in DOMAIN built |-> IdsOf({c \in copies : t \in TermsOf[c[2]]})]
  BY <1>2, <1>3 DEF MergeSegments, BuildSegment
<1>8. out = built
  <2> HIDE DEF out, built, inputs, copies
  <2> QED  BY <1>1, <1>6, <1>7
<1>9. copies \in SUBSET Copies
  BY MergedCopiesType DEF Memory
<1>10. DOMAIN built = {} <=> copies = {}
  <2>1. \A c \in copies : TermsOf[c[2]] # {}
    BY <1>9, IndexAssumption DEF Copies
  <2> QED  BY <1>3, <2>1
<1> QED  BY <1>8, <1>10

-----------------------------------------------------------------------------
(* What is sealed and merged.                                              *)

LEMMA SealedTold ==
  ASSUME NEW m \in Memory, MemInv(m), m.buffer = {} \/ HasRoom(m),
         DOMAIN postings = SegIds, Told(postings, m)
  PROVE  /\ DOMAIN Sealed(m) = SegIds
         /\ \A s \in SegIds : s < m.next_seg_id => Sealed(m)[s] = postings[s]
         /\ Told(Sealed(m), FlushBuffer(m))
<1>1. CASE m.buffer = {}
  BY <1>1 DEF Sealed, FlushBuffer
<1>2. CASE m.buffer # {}
  <2> DEFINE k == m.next_seg_id
             r == FlushBuffer(m)
             q == Sealed(m)
  <2>1. k \in SegIds
    BY <1>2 DEF HasRoom
  <2>2. /\ r.segment_ids = m.segment_ids \cup {k}
        /\ r.segments[k] = m.buffer
        /\ \A s \in SegIds : s # k => r.segments[s] = m.segments[s]
        /\ m.segment_ids \subseteq SegIds
    BY <1>2, <2>1 DEF FlushBuffer, Push, Memory, Payloads
  <2>3. /\ DOMAIN q = SegIds
        /\ q[k] = BuildSegment(m.buffer)
        /\ \A s \in SegIds : s # k => q[s] = postings[s]
    BY <1>2, <2>1 DEF Sealed
  <2>4. /\ \A s \in SegIds : s < k => s # k
        /\ \A s \in m.segment_ids : s # k
    BY <2>1 DEF MemInv, Memory
  <2> HIDE DEF k, r, q
  <2>5. Told(q, r)
    BY <2>2, <2>3, <2>4 DEF Told
  <2>6. \A s \in SegIds : s < k => q[s] = postings[s]
    BY <2>3, <2>4
  <2> QED  BY <2>3, <2>5, <2>6 DEF k, r, q
<1> QED  BY <1>1, <1>2

LEMMA MergedTold ==
  ASSUME StoreInv, RoomToMerge, mem.superseded = NoSupersessions,
         DOMAIN postings = SegIds, Told(postings, mem),
         NEW group \in SUBSET FlushBuffer(mem).segment_ids
  PROVE  /\ DOMAIN Merged(group) = SegIds
         /\ \A s \in SegIds : s < mem.next_seg_id => Merged(group)[s] = postings[s]
         /\ Told(Merged(group), MergeGroup(FlushBuffer(mem), group))
<1> DEFINE m == FlushBuffer(mem)
           q == Sealed(mem)
           k == m.next_seg_id
           copies == MergedCopies(m, group)
           inputs == {q[s] : s \in group}
           out == MergeSegments(inputs)
           r == MergeGroup(m, group)
           p == Merged(group)
           d == Drop(m, group)
<1>1. /\ mem \in Memory /\ MemInv(mem) /\ (mem.buffer = {} \/ HasRoom(mem))
      /\ m \in Memory /\ MemInv(m) /\ HasRoom(m)
      /\ mem.next_seg_id <= k
  BY SealedForMerge DEF StoreInv, TypeOK, RoomToMerge, RoomToFlush, Grown
<1>2. m.superseded = NoSupersessions /\ m.tombstones = mem.tombstones
  <2>1. m.superseded = NoSupersessions
    BY <1>1, FlushMarksNone
  <2>2. m.tombstones = mem.tombstones
    BY <1>1 DEF FlushBuffer, Push, Memory
  <2> QED  BY <2>1, <2>2
<1>3. /\ DOMAIN q = SegIds /\ Told(q, m)
      /\ \A s \in SegIds : s < mem.next_seg_id => q[s] = postings[s]
  BY <1>1, SealedTold
<1>4. out = BuildSegment(copies) /\ (DOMAIN out = {} <=> copies = {})
  BY <1>1, <1>2, <1>3, MergeBuilt
<1>5. p = IF DOMAIN out = {} THEN q ELSE [q EXCEPT ![k] = out]
  BY DEF Merged
<1>6. /\ d.segment_ids = m.segment_ids \ group
      /\ \A s \in SegIds : s \notin group => d.segments[s] = m.segments[s]
      /\ d.next_seg_id = k
      /\ m.segment_ids \subseteq SegIds
  BY <1>1 DEF Drop, Memory
<1>7. d \in Memory /\ copies \in SUBSET Copies
  <2>1. group \in SUBSET SegIds
    BY <1>6
  <2> QED  BY <1>1, <2>1, DropType, MergedCopiesType DEF Memory
<1>8. r = IF copies = {} THEN d ELSE Push(d, copies)
  BY DEF MergeGroup
<1>9. Told(q, d)
  <2> HIDE DEF q, m, d
  <2> QED  BY <1>3, <1>6 DEF Told
<1>10. k \in SegIds /\ mem.next_seg_id \in Int
  BY <1>1 DEF HasRoom, Memory
<1>11. \A s \in m.segment_ids : s < k
  BY <1>1 DEF MemInv
<1>12. CASE copies = {}
  BY <1>3, <1>4, <1>5, <1>8, <1>9, <1>12
<1>13. CASE copies # {}
  <2>1. /\ r.segment_ids = d.segment_ids \cup {k}
        /\ r.segments[k] = copies
        /\ \A s \in SegIds : s # k => r.segments[s] = d.segments[s]
    <3> HIDE DEF d, copies, k, r
    <3> QED  BY <1>6, <1>7, <1>8, <1>10, <1>13 DEF Push, Memory, Payloads
  <2>2. /\ DOMAIN p = SegIds /\ p[k] = BuildSegment(copies)
        /\ \A s \in SegIds : s # k => p[s] = q[s]
    <3> HIDE DEF p, q, k, out, copies
    <3> QED  BY <1>3, <1>4, <1>5, <1>10, <1>13
  <2>3. \A s \in SegIds : s < mem.next_seg_id => s # k
    <3> HIDE DEF k
    <3> QED  BY <1>1, <1>10
  <2>4. d.segment_ids \subseteq SegIds
    BY <1>6
  <2> HIDE DEF d, copies, k, r, p, q, m
  <2>5. Told(p, r)
    BY <1>9, <2>1, <2>2, <2>4 DEF Told
  <2>6. \A s \in SegIds : s < mem.next_seg_id => p[s] = postings[s]
    BY <1>3, <2>2, <2>3
  <2> QED  BY <2>2, <2>5, <2>6 DEF r, p, m
<1> QED  BY <1>12, <1>13

\* So is what apply brings about, which makes no segment but by a seal.
LEMMA AppliedTold ==
  ASSUME NEW m \in Memory, MemInv(m), HasRoom(m), NEW op \in Ops,
         DOMAIN postings = SegIds, Told(postings, m)
  PROVE  LET p == SealedIfFull(Apply(m, op)) IN
         /\ DOMAIN p = SegIds
         /\ \A s \in SegIds : s < m.next_seg_id => p[s] = postings[s]
         /\ Told(p, Applied(m, op))
<1> DEFINE a == Apply(m, op)
<1>1. a \in Memory /\ MemInv(a)
  BY ApplyType, ApplyInv
<1>2. /\ a.next_seg_id = m.next_seg_id
      /\ a.segment_ids = m.segment_ids /\ a.segments = m.segments
  BY ApplyGrows
<1>3. Told(postings, a) /\ HasRoom(a)
  <2> HIDE DEF a
  <2> QED  BY <1>2 DEF Told, HasRoom
<1>4. /\ DOMAIN Sealed(a) = SegIds
      /\ \A s \in SegIds : s < m.next_seg_id => Sealed(a)[s] = postings[s]
      /\ Told(Sealed(a), FlushBuffer(a))
  <2> HIDE DEF a
  <2> QED  BY <1>1, <1>2, <1>3, SealedTold
<1> HIDE DEF a
<1>5. Applied(m, op) = SealIfFull(a)
  BY DEF Applied, a
<1> QED  BY <1>3, <1>4, <1>5 DEF SealedIfFull, SealIfFull, a

\* postings agrees with the segments in memory and in the manifest's files.
SegmentsTold ==
  /\ DOMAIN postings = SegIds
  /\ Told(postings, mem)
  /\ \A s \in manifest.segment_ids : postings[s] = BuildSegment(files[s])

LEMMA KeptTold ==
  ASSUME StoreInv', NEW p, DOMAIN p = SegIds, postings' = Kept(p), Told(p, mem'),
         \A s \in manifest'.segment_ids : p[s] = BuildSegment(files'[s])
  PROVE  SegmentsTold'
<1>1. /\ mem'.segment_ids \subseteq SegIds
      /\ manifest'.segment_ids \subseteq SegIds
      /\ \A s \in manifest'.segment_ids : files'[s] # {}
  BY DEF StoreInv, TypeOK, Memory, Manifests, DiskInv
<1>2. /\ DOMAIN postings' = SegIds
      /\ \A s \in SegIds : s \in mem'.segment_ids \/ files'[s] # {} =>
           postings'[s] = p[s]
  BY DEF Kept
<1>3. Told(postings', mem')
  BY <1>1, <1>2 DEF Told
<1>4. \A s \in manifest'.segment_ids : postings'[s] = BuildSegment(files'[s])
  BY <1>1, <1>2
<1> QED  BY <1>2, <1>3, <1>4 DEF SegmentsTold

\* The files a manifest names stay as they are until the next one.
LEMMA KeptFilesTold ==
  ASSUME StoreInv, StoreInv', SegmentsTold, Next,
         manifest' = manifest, NEW p, DOMAIN p = SegIds,
         postings' = Kept(p), Told(p, mem'),
         \/ p = postings
         \/ phase # "down" /\ \A s \in SegIds : s < mem.next_seg_id => p[s] = postings[s]
  PROVE  SegmentsTold'
<1>1. \A s \in manifest.segment_ids : files'[s] = files[s]
  BY FilesKept
<1>2. \A s \in manifest.segment_ids : p[s] = postings[s]
  <2>1. CASE p = postings
    BY <2>1
  <2>2. CASE phase # "down" /\ \A s \in SegIds : s < mem.next_seg_id => p[s] = postings[s]
    <3>1. /\ manifest.next_seg_id <= mem.next_seg_id
          /\ manifest.next_seg_id \in Int /\ mem.next_seg_id \in Int
          /\ manifest.segment_ids \subseteq SegIds
          /\ \A s \in manifest.segment_ids : s < manifest.next_seg_id
      <4>1. mem \in Memory /\ manifest \in Manifests /\ IdsAhead /\ DiskInv(manifest, files)
        BY <2>2 DEF StoreInv, TypeOK
      <4>2. manifest.next_seg_id \in Int /\ mem.next_seg_id \in Int
        BY <4>1, ConstantsAssumption DEF Memory, Manifests
      <4> QED  BY <4>1, <4>2 DEF IdsAhead, DiskInv, Manifests
    <3>2. \A s \in manifest.segment_ids : s < mem.next_seg_id
      BY <3>1
    <3> QED  BY <2>2, <3>1, <3>2
  <2> QED  BY <2>1, <2>2
<1>3. \A s \in manifest'.segment_ids : p[s] = BuildSegment(files'[s])
  BY <1>1, <1>2 DEF SegmentsTold
<1> QED  BY <1>3, KeptTold

\* The steps of the store and its oracle that INext takes.
LEMMA INextOracle == INext => OStep
<1> SUFFICES ASSUME INext PROVE OStep
  OBVIOUS
<1>1. CASE \E op \in Ops : IWrite(op)
  BY <1>1 DEF IWrite, OStep
<1>2. CASE \E group \in SUBSET SegIds : IMerge(group)
  BY <1>2 DEF IMerge, OStep, OMaintain
<1>3. CASE ICompact
  BY <1>3 DEF ICompact, OStep, OMaintain
<1>4. CASE IFlush
  BY <1>4 DEF IFlush, OStep, OMaintain
<1>5. CASE IReplay
  BY <1>5 DEF IReplay, OStep, OOpen
<1>6. CASE IOther
  BY <1>6 DEF IOther, OStep, OMaintain, OOpen
<1> QED  BY <1>1, <1>2, <1>3, <1>4, <1>5, <1>6 DEF INext

\* What each of these steps starts from.
PostingsCore ==
  /\ StoreInv /\ LogInv /\ OracleInv
  /\ Unmarked
  /\ SegmentsTold

LEMMA IWriteTold ==
  ASSUME PostingsCore, StoreInv', NEW op \in Ops, IWrite(op)
  PROVE  SegmentsTold'
<1> DEFINE p == SealedIfFull(Apply(mem, op))
<1>1. /\ phase # "down" /\ mem \in Memory /\ MemInv(mem) /\ HasRoom(mem)
      /\ mem' = Applied(mem, op) /\ manifest' = manifest
  BY OWriteFacts DEF PostingsCore, IWrite
<1>2. /\ DOMAIN p = SegIds
      /\ \A s \in SegIds : s < mem.next_seg_id => p[s] = postings[s]
      /\ Told(p, mem')
  BY <1>1, AppliedTold DEF PostingsCore, SegmentsTold
<1>3. postings' = Kept(p)
  BY DEF IWrite
<1>4. Next
  BY OStepNext DEF IWrite, OStep
<1> HIDE DEF p
<1> QED  BY <1>1, <1>2, <1>3, <1>4, KeptFilesTold DEF PostingsCore

LEMMA IReplayTold ==
  ASSUME PostingsCore, StoreInv', IReplay
  PROVE  SegmentsTold'
<1>1. /\ phase # "down" /\ mem \in Memory /\ MemInv(mem) /\ HasRoom(mem)
      /\ manifest' = manifest
  BY OReplayFacts DEF PostingsCore, IReplay
<1>2. PICK op \in Ops : op = Log[applied + 1] /\ mem' = Applied(mem, op)
  BY OReplayFacts DEF PostingsCore, IReplay
<1> DEFINE p == SealedIfFull(Apply(mem, op))
<1>3. /\ DOMAIN p = SegIds
      /\ \A s \in SegIds : s < mem.next_seg_id => p[s] = postings[s]
      /\ Told(p, mem')
  BY <1>1, <1>2, AppliedTold DEF PostingsCore, SegmentsTold
<1>4. postings' = Kept(p)
  BY <1>2 DEF IReplay
<1>5. Next
  BY DEF IReplay, Next
<1> HIDE DEF p
<1> QED  BY <1>1, <1>3, <1>4, <1>5, KeptFilesTold DEF PostingsCore

\* What a flush before a merge or a checkpoint leaves.
LEMMA FlushedTold ==
  ASSUME PostingsCore, RoomToFlush
  PROVE  /\ DOMAIN Sealed(mem) = SegIds
         /\ \A s \in SegIds : s < mem.next_seg_id => Sealed(mem)[s] = postings[s]
         /\ Told(Sealed(mem), FlushBuffer(mem))
<1>1. mem \in Memory /\ MemInv(mem) /\ (mem.buffer = {} \/ HasRoom(mem))
  BY DEF PostingsCore, StoreInv, TypeOK, RoomToFlush
<1> QED  BY <1>1, SealedTold DEF PostingsCore, SegmentsTold

LEMMA IFlushTold ==
  ASSUME PostingsCore, StoreInv', IFlush
  PROVE  SegmentsTold'
<1>1. /\ phase # "down" /\ RoomToFlush /\ mem' = FlushBuffer(mem)
      /\ manifest' = manifest /\ postings' = Kept(Sealed(mem)) /\ Next
  BY DEF IFlush, FlushOnly, CheckpointStart, RoomToFlush, MergeFrame, disk, Next,
         WriterNext
<1> QED  BY <1>1, FlushedTold, KeptFilesTold DEF PostingsCore

\* Neither an id that is burnt nor the purge of compact makes a segment.
LEMMA ToldToo ==
  ASSUME NEW m \in Memory, NEW q, Told(q, m)
  PROVE  Told(q, BurnId(m)) /\ Told(q, Purged(m))
BY DEF Told, BurnId, Purged, Memory

LEMMA IMergeTold ==
  ASSUME PostingsCore, StoreInv', NEW group \in SUBSET SegIds, IMerge(group)
  PROVE  SegmentsTold'
<1> DEFINE m == FlushBuffer(mem)
<1>1. /\ RoomToMerge /\ phase # "down" /\ manifest' = manifest /\ Next
      /\ group \in SUBSET m.segment_ids
  BY DEF IMerge, Merge, MergeFrame, Next, WriterNext
<1>2. m \in Memory /\ RoomToFlush
  BY <1>1, SealedForMerge DEF PostingsCore, RoomToMerge
<1>3. CASE phase' = "merged"
  <2>1. mem' = MergeGroup(m, group) /\ postings' = Kept(Merged(group))
    BY <1>3 DEF IMerge, Merge, MergeFails
  <2>2. /\ DOMAIN Merged(group) = SegIds
        /\ \A s \in SegIds : s < mem.next_seg_id => Merged(group)[s] = postings[s]
        /\ Told(Merged(group), mem')
    BY <1>1, <2>1, MergedTold DEF PostingsCore, SegmentsTold, Unmarked
  <2> QED  BY <1>1, <2>1, <2>2, KeptFilesTold DEF PostingsCore
<1>4. CASE phase' # "merged"
  <2>1. mem' = BurnId(m) /\ postings' = Kept(Sealed(mem))
    BY <1>4 DEF IMerge, Merge, MergeFails
  <2>2. /\ DOMAIN Sealed(mem) = SegIds
        /\ \A s \in SegIds : s < mem.next_seg_id => Sealed(mem)[s] = postings[s]
        /\ Told(Sealed(mem), mem')
    BY <1>2, <2>1, FlushedTold, ToldToo
  <2> QED  BY <1>1, <2>1, <2>2, KeptFilesTold DEF PostingsCore
<1> QED  BY <1>3, <1>4

LEMMA ICompactTold ==
  ASSUME PostingsCore, StoreInv', ICompact
  PROVE  SegmentsTold'
<1> DEFINE m == FlushBuffer(mem)
           all == m.segment_ids
<1>1. RoomToMerge /\ phase # "down" /\ manifest' = manifest /\ Next
  BY DEF ICompact, Compact, MergeFrame, Next, WriterNext
<1>2. m \in Memory /\ HasRoom(m) /\ RoomToFlush
  BY <1>1, SealedForMerge DEF PostingsCore, RoomToMerge
<1>3. CASE phase' = "purged" /\ CompactMerges(m)
  <2>1. mem' = Purged(MergeGroup(m, all)) /\ postings' = Kept(Merged(all))
    BY <1>3 DEF ICompact, Compact, MergeFails
  <2>2. /\ DOMAIN Merged(all) = SegIds
        /\ \A s \in SegIds : s < mem.next_seg_id => Merged(all)[s] = postings[s]
        /\ Told(Merged(all), MergeGroup(m, all))
    BY <1>1, MergedTold DEF PostingsCore, SegmentsTold, Unmarked
  <2>3. MergeGroup(m, all) \in Memory
    <3>1. all \in SUBSET SegIds
      BY <1>2 DEF Memory
    <3> QED  BY <1>2, <3>1, MergeGroupType
  <2>4. Told(Merged(all), mem')
    BY <2>1, <2>2, <2>3, ToldToo
  <2> QED  BY <1>1, <2>1, <2>2, <2>4, KeptFilesTold DEF PostingsCore
<1>4. CASE ~(phase' = "purged" /\ CompactMerges(m))
  <2>1. /\ mem' = BurnId(m) \/ mem' = Purged(m)
        /\ postings' = Kept(Sealed(mem))
    BY <1>4 DEF ICompact, Compact, MergeFails
  <2>2. /\ DOMAIN Sealed(mem) = SegIds
        /\ \A s \in SegIds : s < mem.next_seg_id => Sealed(mem)[s] = postings[s]
        /\ Told(Sealed(mem), mem')
    BY <1>2, <2>1, FlushedTold, ToldToo
  <2> QED  BY <1>1, <2>1, <2>2, KeptFilesTold DEF PostingsCore
<1> QED  BY <1>3, <1>4

LEMMA IOtherTold ==
  ASSUME PostingsCore, StoreInv', IOther
  PROVE  SegmentsTold'
<1>1. /\ postings' = Kept(postings) /\ DOMAIN postings = SegIds
      /\ Told(postings, mem)
  BY DEF IOther, PostingsCore, SegmentsTold
<1>2. Next
  BY DEF IOther, OCommit, OStop, Next, WriterNext
<1>3. CASE OCommit
  <2>1. /\ mem' = mem /\ files' = files
        /\ \A s \in mem.segment_ids : files[s] = mem.segments[s]
    BY <1>3, OCommitFacts DEF PostingsCore
  <2>2. manifest'.segment_ids = mem.segment_ids
    BY <1>3, OCommitFacts DEF PostingsCore
  <2>3. \A s \in manifest'.segment_ids : postings[s] = BuildSegment(files'[s])
    BY <1>1, <2>1, <2>2 DEF Told
  <2> QED  BY <1>1, <2>1, <2>3, KeptTold
<1>4. CASE ~OCommit
  <2>1. manifest' = manifest
    BY <1>4, OracleTypes
       DEF IOther, ExtendSync, PersistNext, RotateAndGc, Republish, OpenLoad,
           OpenDone, OStop, ProcessCrash, PowerLoss, PostingsCore, disk
  <2>2. Told(postings, mem')
    <3>1. CASE mem' = mem
      BY <1>1, <3>1
    <3>2. CASE OpenLoad
      <4>1. manifest.segment_ids \subseteq SegIds
        BY DEF PostingsCore, StoreInv, TypeOK, Manifests
      <4>2. mem' = Load(manifest, files)
        BY <3>2 DEF OpenLoad
      <4> QED
        BY <4>1, <4>2 DEF PostingsCore, SegmentsTold, Told, Load
    <3>3. CASE OStop
      BY <3>3 DEF OStop, ProcessCrash, PowerLoss, Stop, Told, EmptyMemory
    <3>4. mem' = mem \/ OpenLoad \/ OStop
      BY <1>4 DEF IOther, ExtendSync, PersistNext, RotateAndGc, Republish, OpenDone,
                  process
    <3> QED  BY <3>1, <3>2, <3>3, <3>4
  <2> QED  BY <1>1, <1>2, <2>1, <2>2, KeptFilesTold DEF PostingsCore
<1> QED  BY <1>3, <1>4

LEMMA INextTold ==
  ASSUME PostingsCore, StoreInv', INext
  PROVE  SegmentsTold'
BY IWriteTold, IMergeTold, ICompactTold, IFlushTold, IReplayTold, IOtherTold DEF INext

-----------------------------------------------------------------------------
(* What the map has is found, and what it has lost is not.                 *)

\* Of an id in the map what is found has its last document, of one that is not
\* nothing is found.
Covers(items, found) == items \subseteq found /\ (items = {} => found = {})

LatestCovered ==
  /\ \A i \in Ids : Covers(base[i], ReadsOnOpen(manifest, files, i))
  /\ phase # "down" =>
       \A i \in Ids :
         Covers(IF phase = "replay" THEN After(base[i], taken, applied, i)
                                    ELSE Latest(i),
                Reads(mem, i))

\* An operation leaves the document it adds, or none.
LEMMA AppliedCovers ==
  ASSUME NEW m \in Memory, MemInv(m), HasRoom(m), NEW op \in Ops, NEW i \in Ids,
         NEW items, Covers(items, Reads(m, i))
  PROVE  Covers(Overwritten(items, op, i), Reads(Applied(m, op), i))
<1>1. CASE op.item = Deleted \/ i # op.id
  <2>1. Reads(Applied(m, op), i) = Overwritten(Reads(m, i), op, i)
    BY <1>1, AppliedReads
  <2> QED  BY <1>1, <2>1 DEF Covers, Overwritten
<1>2. CASE op.item # Deleted /\ i = op.id
  <2> DEFINE a == Apply(m, op)
  <2>1. a \in Memory /\ MemInv(a) /\ HasRoom(a)
    BY ApplyType, ApplyInv, ApplyGrows DEF HasRoom
  <2>2. op.item \in Items /\ <<i, op.item>> \in a.buffer
    <3>1. a.buffer = Without(m.buffer, op.id) \cup
                       (IF op.item = Deleted THEN {} ELSE {<<op.id, op.item>>})
      BY ApplyFields
    <3> HIDE DEF a
    <3>2. op.item \in Items
      BY <1>2 DEF Ops
    <3> QED  BY <1>2, <3>1, <3>2
  <2>3. op.item \in Reads(a, i)
    BY <2>2 DEF Reads
  <2>4. Applied(m, op) = a \/ Applied(m, op) = FlushBuffer(a)
    BY DEF Applied, SealIfFull
  <2> HIDE DEF a
  <2>5. op.item \in Reads(Applied(m, op), i)
    BY <2>1, <2>3, <2>4, FlushReads
  <2> QED  BY <1>2, <2>2, <2>5, ConstantsAssumption DEF Covers, Overwritten
<1> QED  BY <1>1, <1>2

LEMMA OStepCovers ==
  ASSUME StoreInv, LogInv, OracleInv, LatestCovered, OStep
  PROVE  LatestCovered'
<1>1. CASE \E op \in Ops : OWrite(op)
  <2>1. PICK op \in Ops : OWrite(op)
    BY <1>1
  <2>2. /\ phase \notin {"down", "replay"} /\ phase' \notin {"down", "replay"}
        /\ mem \in Memory /\ MemInv(mem) /\ HasRoom(mem)
        /\ mem' = Applied(mem, op) /\ taken' = Append(taken, op)
        /\ UNCHANGED <<manifest, files, base>>
    BY <2>1, OWriteFacts
  <2>3. ASSUME NEW i \in Ids
        PROVE  Covers(Latest(i)', Reads(mem', i))
    <3>1. PICK log \in Seq(Ops) : log = taken
      BY OracleTypes
    <3>2. PICK held : held = base[i]
      OBVIOUS
    <3>3. After(held, Append(log, op), Len(log) + 1, i) =
            Overwritten(After(held, log, Len(log), i), op, i)
      BY AfterAppend
    <3>4. Latest(i) = After(held, log, Len(log), i)
      BY <3>1, <3>2 DEF Latest
    <3>5. Latest(i)' = After(held, Append(log, op), Len(log) + 1, i)
      <4>1. Len(Append(log, op)) = Len(log) + 1
        OBVIOUS
      <4> QED  BY <2>2, <3>1, <3>2, <4>1 DEF Latest
    <3>6. Covers(Latest(i), Reads(mem, i))
      BY <2>2 DEF LatestCovered
    <3>7. Covers(Overwritten(Latest(i), op, i), Reads(Applied(mem, op), i))
      BY <2>2, <3>6, AppliedCovers
    <3> QED  BY <2>2, <3>3, <3>4, <3>5, <3>7
  <2> QED  BY <2>2, <2>3 DEF LatestCovered
<1>2. CASE OMaintain
  <2>1. /\ phase \notin {"down", "replay"} /\ phase' \notin {"down", "replay"}
        /\ UNCHANGED <<manifest, base, taken>>
        /\ \A i \in Ids :
             /\ ReadsOnOpen(manifest, files', i) = ReadsOnOpen(manifest, files, i)
             /\ Reads(mem', i) = Reads(mem, i)
    BY <1>2, OMaintainFacts
  <2> QED  BY <2>1 DEF LatestCovered, Latest
<1>3. CASE OCommit
  <2>1. /\ phase = "persist" /\ phase' = "rotate"
        /\ mem' = mem /\ files' = files
        /\ base' = [i \in Ids |-> Latest(i)]
        /\ \A i \in Ids : Latest(i)' = Latest(i)
    BY <1>3, OCommitFacts
  <2>2. \A i \in Ids : ReadsOnOpen(manifest', files, i) = Reads(mem, i)
    BY <1>3, OCommitFacts
  <2>3. \A i \in Ids : base'[i] = Latest(i)
    BY <2>1
  <2> QED  BY <2>1, <2>2, <2>3 DEF LatestCovered
<1>4. CASE OpenLoad /\ UNCHANGED oracle
  <2>1. /\ phase' = "replay" /\ applied' = 0 /\ manifest' = manifest
        /\ UNCHANGED <<base, taken>> /\ Next
    BY <1>4 DEF OpenLoad, oracle, Next
  <2>2. \A s \in manifest.segment_ids : files'[s] = files[s]
    BY <2>1, FilesKept
  <2>3. \A i \in Ids : ReadsOnOpen(manifest, files', i) = ReadsOnOpen(manifest, files, i)
    BY <2>2, ReadsOnOpenSame
  <2>4. \A i \in Ids : Reads(mem', i) = ReadsOnOpen(manifest, files, i)
    BY <1>4, OpenLoadReads
  <2>5. \A i \in Ids : After(base[i], taken, 0, i) = base[i]
    BY AfterStart
  <2> QED  BY <2>1, <2>3, <2>4, <2>5 DEF LatestCovered
<1>5. CASE Replay /\ UNCHANGED oracle
  <2>1. /\ phase = "replay" /\ phase' = "replay"
        /\ mem \in Memory /\ MemInv(mem) /\ HasRoom(mem)
        /\ UNCHANGED <<manifest, files, base, taken>>
    BY <1>5, OReplayFacts
  <2>2. PICK n \in Nat, op \in Ops :
          /\ n = applied /\ applied' = n + 1
          /\ op = taken[n + 1] /\ mem' = Applied(mem, op)
    BY <1>5, OReplayFacts
  <2>3. ASSUME NEW i \in Ids
        PROVE  Covers(After(base[i], taken, n + 1, i), Reads(mem', i))
    <3>1. Covers(After(base[i], taken, n, i), Reads(mem, i))
      BY <2>1, <2>2 DEF LatestCovered
    <3>2. Covers(Overwritten(After(base[i], taken, n, i), op, i),
                 Reads(Applied(mem, op), i))
      BY <2>1, <3>1, AppliedCovers
    <3>3. After(base[i], taken, n + 1, i) =
            Overwritten(After(base[i], taken, n, i), taken[n + 1], i)
      BY AfterNext
    <3> QED  BY <2>2, <3>2, <3>3
  <2> QED  BY <2>1, <2>2, <2>3 DEF LatestCovered
<1>6. CASE OpenDone /\ UNCHANGED oracle
  <2>1. /\ phase = "replay" /\ phase' = "open" /\ applied = Len(Log)
        /\ UNCHANGED <<mem, manifest, files, base, taken>>
    BY <1>6 DEF OpenDone, process, disk, oracle
  <2>2. Log = taken
    BY <2>1, OracleTypes DEF LogInv, ManifestsInStep, Log
  <2> QED  BY <2>1, <2>2 DEF LatestCovered, Latest
<1>7. CASE OStop
  <2>1. /\ phase' = "down" /\ manifest' = manifest
        /\ UNCHANGED <<files, base>>
    BY <1>7, OracleTypes DEF OStop, ProcessCrash, PowerLoss, Stop
  <2> QED  BY <2>1 DEF LatestCovered
<1> QED  BY <1>1, <1>2, <1>3, <1>4, <1>5, <1>6, <1>7 DEF OStep, OOpen

-----------------------------------------------------------------------------
(* The inverted index, whose store lists no ids.                           *)

PostingsInv == PostingsCore /\ LatestCovered

LEMMA IInitInv == IInit => PostingsInv
<1> SUFFICES ASSUME IInit PROVE PostingsInv
  OBVIOUS
<1>1. StoreInv /\ LogInv /\ OracleInv
  BY OracleInitInv DEF IInit
<1>2. /\ mem = EmptyMemory /\ manifest = NoManifest /\ prior = NoManifest
      /\ phase = "down" /\ base = [i \in Ids |-> {}]
      /\ postings = [s \in SegIds |-> NoTerms]
  BY DEF IInit, OInit, Init
<1>3. Unmarked
  BY <1>2 DEF Unmarked, EmptyMemory, NoManifest
<1>4. SegmentsTold
  BY <1>2 DEF SegmentsTold, Told, EmptyMemory, NoManifest
<1>5. LatestCovered
  BY <1>2, NothingOnOpen DEF LatestCovered, Covers, NoManifest
<1> QED  BY <1>1, <1>3, <1>4, <1>5 DEF PostingsInv, PostingsCore

LEMMA INextInv ==
  ASSUME ~TracksIds, PostingsInv, [INext]_iVars
  PROVE  PostingsInv'
<1>1. CASE INext
  <2>1. OStep /\ Next
    BY <1>1, INextOracle, OStepNext
  <2>2. StoreInv' /\ LogInv' /\ OracleInv'
    BY <2>1, OStepInv DEF PostingsInv, PostingsCore
  <2>3. Unmarked'
    BY <2>1, NextUnmarked DEF PostingsInv, PostingsCore
  <2>4. SegmentsTold'
    BY <1>1, <2>2, INextTold DEF PostingsInv
  <2>5. LatestCovered'
    BY <2>1, OStepCovers DEF PostingsInv, PostingsCore
  <2> QED  BY <2>2, <2>3, <2>4, <2>5 DEF PostingsInv, PostingsCore
<1>2. CASE UNCHANGED iVars
  <2>1. UNCHANGED <<vars, oracle>> /\ postings' = postings
    BY <1>2 DEF iVars, oVars
  <2>2. StoreInv' /\ LogInv' /\ OracleInv'
    BY <2>1, StutterInv DEF PostingsInv, PostingsCore
  <2>3. UNCHANGED <<mem, manifest, prior, files, phase, base, taken, applied>>
    BY <2>1 DEF vars, process, disk, oracle
  <2>4. Unmarked' /\ SegmentsTold'
    BY <2>1, <2>3
       DEF PostingsInv, PostingsCore, Unmarked, SegmentsTold, Told
  <2>5. LatestCovered'
    BY <2>3 DEF PostingsInv, LatestCovered, Latest
  <2> QED  BY <2>2, <2>4, <2>5 DEF PostingsInv, PostingsCore
<1> QED  BY <1>1, <1>2

LEMMA PostingsAlways == ~TracksIds => (ISpec => []PostingsInv)
<1> SUFFICES ASSUME ~TracksIds PROVE ISpec => []PostingsInv
  OBVIOUS
<1>1. PostingsInv /\ [INext]_iVars => PostingsInv'
  BY INextInv
<1> QED  BY <1>1, IInitInv, PTL DEF ISpec

LEMMA PostingsSegments == PostingsInv => SegmentsAreTheirDocuments
<1> SUFFICES ASSUME PostingsInv, NEW s \in mem.segment_ids
             PROVE  /\ postings[s] = BuildSegment(mem.segments[s])
                    /\ SegmentLen(postings[s]) = Cardinality(IdsOf(mem.segments[s]))
  BY DEF SegmentsAreTheirDocuments
<1>1. postings[s] = BuildSegment(mem.segments[s])
  BY DEF PostingsInv, PostingsCore, SegmentsTold, Told
<1>2. mem.segments[s] \in SUBSET Copies
  BY DEF PostingsInv, PostingsCore, StoreInv, TypeOK, Memory, Payloads
<1> QED  BY <1>1, <1>2, BuiltLen

\* A term finds the ids of which a document that has it is read.
LEMMA QueryReads ==
  ASSUME PostingsInv, NEW t, NEW i \in Ids
  PROVE  i \in Query(t) <=> \E v \in Reads(mem, i) : t \in TermsOf[v]
<1>1. /\ mem \in Memory /\ MemInv(mem)
      /\ mem.superseded = NoSupersessions /\ Told(postings, mem)
  BY DEF PostingsInv, PostingsCore, StoreInv, TypeOK, Unmarked, SegmentsTold
<1>2. /\ mem.segment_ids \subseteq SegIds
      /\ \A s \in SegIds : mem.segments[s] \in SUBSET (Ids \X Items)
      /\ mem.buffer \in SUBSET (Ids \X Items)
  BY <1>1 DEF Memory, Payloads, Copies
<1>3. \A s \in mem.segment_ids :
        i \in IdsUnder(postings[s], t) <=>
          \E c \in mem.segments[s] : c[1] = i /\ t \in TermsOf[c[2]]
  <2>1. \A s \in mem.segment_ids :
          IdsUnder(postings[s], t) =
            IdsOf({c \in mem.segments[s] : t \in TermsOf[c[2]]})
    BY <1>1, UnderBuilt DEF Told
  <2> QED  BY <2>1 DEF IdsOf
<1>4. i \in Query(t) <=>
        \/ /\ i \notin mem.tombstones
           /\ \E s \in mem.segment_ids : i \in IdsUnder(postings[s], t)
        \/ \E c \in mem.buffer : c[1] = i /\ t \in TermsOf[c[2]]
  BY DEF Query, IdsOf
<1>5. \A v : v \in Reads(mem, i) <=>
        /\ v \in Items
        /\ \/ /\ i \notin mem.tombstones
              /\ \E s \in mem.segment_ids : <<i, v>> \in mem.segments[s]
           \/ <<i, v>> \in mem.buffer
  BY <1>1, <1>2 DEF Reads, LiveItems, CopyIsLive, NoSupersessions
<1>6. ASSUME i \in Query(t)
      PROVE  \E v \in Reads(mem, i) : t \in TermsOf[v]
  <2>1. CASE i \notin mem.tombstones /\ \E s \in mem.segment_ids : i \in IdsUnder(postings[s], t)
    <3>1. PICK s \in mem.segment_ids : i \in IdsUnder(postings[s], t)
      BY <2>1
    <3>2. PICK c \in mem.segments[s] : c[1] = i /\ t \in TermsOf[c[2]]
      BY <1>3, <3>1
    <3>3. c = <<i, c[2]>> /\ c[2] \in Items
      BY <1>2, <3>2
    <3>4. c[2] \in Reads(mem, i)
      BY <1>5, <2>1, <3>2, <3>3
    <3> QED  BY <3>2, <3>4
  <2>2. CASE \E c \in mem.buffer : c[1] = i /\ t \in TermsOf[c[2]]
    <3>1. PICK c \in mem.buffer : c[1] = i /\ t \in TermsOf[c[2]]
      BY <2>2
    <3>2. c = <<i, c[2]>> /\ c[2] \in Items
      BY <1>2, <3>1
    <3>3. c[2] \in Reads(mem, i)
      BY <1>5, <3>1, <3>2
    <3> QED  BY <3>1, <3>3
  <2> QED  BY <1>4, <1>6, <2>1, <2>2
<1>7. ASSUME NEW v \in Reads(mem, i), t \in TermsOf[v]
      PROVE  i \in Query(t)
  <2> DEFINE c == <<i, v>>
  <2>1. c[1] = i /\ c[2] = v
    OBVIOUS
  <2>2. CASE i \notin mem.tombstones /\ \E s \in mem.segment_ids : c \in mem.segments[s]
    BY <1>3, <1>4, <1>7, <2>1, <2>2
  <2>3. CASE c \in mem.buffer
    BY <1>4, <1>7, <2>1, <2>3
  <2> QED  BY <1>5, <2>2, <2>3
<1> QED  BY <1>6, <1>7

LEMMA PostingsQuery == PostingsInv => QueryFindsLive
<1> SUFFICES ASSUME PostingsInv, phase \notin {"down", "replay"},
                    NEW t \in Terms, NEW i \in Ids
             PROVE  LET has == \E v \in Latest(i) : t \in TermsOf[v]
                    IN  /\ has => i \in Query(t)
                        /\ i \in Query(t) /\ (Unique(i) \/ Latest(i) = {}) => has
  BY DEF QueryFindsLive
<1>1. Covers(Latest(i), Reads(mem, i))
  BY DEF PostingsInv, LatestCovered
<1>2. Unique(i) => Reads(mem, i) = Latest(i)
  BY DEF PostingsInv, PostingsCore, OracleInv, WriterMatchesModel
<1>3. i \in Query(t) <=> \E v \in Reads(mem, i) : t \in TermsOf[v]
  BY QueryReads
<1> QED  BY <1>1, <1>2, <1>3 DEF Covers

\* Where no ids are listed, as in the example: every segment is the index of the
\* documents it stands for, and is as long as they are many.
THEOREM SegmentsAlwaysTheirDocuments == ~TracksIds => (ISpec => []SegmentsAreTheirDocuments)
BY PostingsAlways, PostingsSegments, PTL

\* And every term finds the documents that have it and are not deleted.
THEOREM QueryAlwaysFinds == ~TracksIds => (ISpec => []QueryFindsLive)
BY PostingsAlways, PostingsQuery, PTL

=============================================================================

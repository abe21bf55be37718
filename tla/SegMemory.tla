----------------------------- MODULE SegMemory -----------------------------
(***************************************************************************)
(* The writer's in-memory state of segstore (struct SegmentedStore in      *)
(* src/src/lib.rs) and the pure steps every operation is built from:       *)
(* apply, flush_buffer, merge_group and the rebuild of ownership on open.  *)
(*                                                                         *)
(* A sealed segment and the buffer are sets of copies <<id, item>>: the    *)
(* order of the items inside a segment decides nothing here.  segment_ids  *)
(* is a set because the code keeps its Vec in ascending id order (an id is *)
(* pushed right after alloc_id drew it, and removals keep the order), so   *)
(* list order is numeric order; module Tiering keeps the Vec.              *)
(***************************************************************************)
EXTENDS OpLog

CONSTANTS
  Ids,            \* item identities (Store::Id)
  Items,          \* payloads (Store::Item)
  NoSeg,          \* "no segment": an id without an entry in owners
  TracksIds,      \* whether Store::item_ids returns Some
  MaxSegId        \* bound: the largest segment id the model allocates

ASSUME ConstantsAssumption ==
  /\ Deleted \notin Items
  /\ NoSeg \notin Int
  /\ TracksIds \in BOOLEAN
  /\ MaxSegId \in Nat

SegIds == 0 .. MaxSegId

Copies == Ids \X Items

\* One WAL record: Op::Add(id, item), or Op::Delete(id) when item = Deleted.
Ops == [id : Ids, item : Items \cup {Deleted}]

\* Per segment, the ids whose copy there was superseded (absent key: {}).
Supersessions == [SegIds -> SUBSET Ids]

\* Segment payloads by id; {} for an id that names no segment, which no
\* segment shares: flush_buffer and merge_group never make an empty one.
Payloads == [SegIds -> SUBSET Copies]

Memory ==
  [ buffer      : SUBSET Copies,
    buffer_ids  : SUBSET Ids,
    segment_ids : SUBSET SegIds,
    segments    : Payloads,
    tombstones  : SUBSET Ids,
    superseded  : Supersessions,
    owners      : [Ids -> SegIds \cup {NoSeg}],
    next_seg_id : 0 .. MaxSegId + 1 ]

NoPayloads == [s \in SegIds |-> {}]
NoSupersessions == [s \in SegIds |-> {}]

EmptyMemory ==
  [ buffer |-> {}, buffer_ids |-> {}, segment_ids |-> {},
    segments |-> NoPayloads, tombstones |-> {},
    superseded |-> NoSupersessions, owners |-> [i \in Ids |-> NoSeg],
    next_seg_id |-> 0 ]

IdsOf(copies) == {c[1] : c \in copies}

\* The copies that remain once those of id i are taken out (Vec::retain).
Without(copies, i) == {c \in copies : c[1] # i}

\* The store can still allocate a segment id within the model's bound.
HasRoom(m) == m.next_seg_id \in SegIds

-----------------------------------------------------------------------------
(* Liveness of copies.                                                     *)

CopyIsLive(tombstones, superseded, s, i) ==
  i \notin tombstones /\ i \notin superseded[s]

LiveCopies(m, s) ==
  {c \in m.segments[s] : CopyIsLive(m.tombstones, m.superseded, s, c[1])}

\* The items of id i that catalog c (the writer's, a manifest or a published
\* snapshot: segment_ids, tombstones, superseded) leaves live in the payloads.
LiveItems(c, payloads, i) ==
  {v \in Items : \E s \in c.segment_ids :
     /\ <<i, v>> \in payloads[s]
     /\ CopyIsLive(c.tombstones, c.superseded, s, i)}

\* What a consumer of the writer reads for id i, buffered items included.
Reads(m, i) ==
  LiveItems(m, m.segments, i) \cup {v \in Items : <<i, v>> \in m.buffer}

-----------------------------------------------------------------------------
(* apply: one operation, from a live write or from WAL replay.             *)

\* Slip: the owner is forgotten and its copy not marked.
ForgetSealedCopy(m, i) == [m EXCEPT !.owners[i] = NoSeg]

SupersedeSealedCopy(m, i) ==
  IF m.owners[i] = NoSeg
    THEN m
    ELSE [m EXCEPT !.superseded[m.owners[i]] = @ \cup {i},
                   !.owners[i] = NoSeg]

\* The buffer is scanned for an older copy only when buffer_ids lists the id.
Unbuffer(m, i) ==
  IF i \in m.buffer_ids THEN Without(m.buffer, i) ELSE m.buffer

ApplyAdd(m, i, item) ==
  [SupersedeSealedCopy(m, i) EXCEPT
     !.tombstones = @ \ {i},
     !.buffer     = Unbuffer(m, i) \cup {<<i, item>>},
     !.buffer_ids = @ \cup {i}]

ApplyDelete(m, i) ==
  [SupersedeSealedCopy(m, i) EXCEPT
     !.tombstones = @ \cup {i},
     !.buffer     = Unbuffer(m, i),
     !.buffer_ids = @ \ {i}]

Apply(m, op) ==
  IF op.item = Deleted THEN ApplyDelete(m, op.id)
                       ELSE ApplyAdd(m, op.id, op.item)

-----------------------------------------------------------------------------
(* Sealing and merging.                                                    *)

\* owners after every id of copies got its live copy in segment s.
OwnersMovedTo(m, copies, s) ==
  IF TracksIds
    THEN [i \in Ids |-> IF i \in IdsOf(copies) THEN s ELSE m.owners[i]]
    ELSE m.owners

\* m with a fresh segment holding copies pushed at the end of the list.
Push(m, copies) ==
  LET s == m.next_seg_id IN
  [m EXCEPT !.segment_ids = @ \cup {s},
            !.segments[s] = copies,
            !.owners      = OwnersMovedTo(m, copies, s),
            !.next_seg_id = s + 1]

\* Slip: an empty buffer is sealed too.
FlushEvenEmpty(m) == [Push(m, m.buffer) EXCEPT !.buffer = {}, !.buffer_ids = {}]

FlushBuffer(m) ==
  IF m.buffer = {}
    THEN m
    ELSE [Push(m, m.buffer) EXCEPT !.buffer = {}, !.buffer_ids = {}]

\* Each input is filtered with its own liveness predicate.  The code's other
\* branch filters by tombstones only, when no input has superseded copies:
\* the two then agree.
MergedCopies(m, group) == UNION {LiveCopies(m, s) : s \in group}

\* m without the merge's inputs, whose superseded entries go with them.
Drop(m, group) ==
  [m EXCEPT
     !.segment_ids = @ \ group,
     !.segments    = [s \in SegIds |-> IF s \in group THEN {} ELSE @[s]],
     !.superseded  = [s \in SegIds |-> IF s \in group THEN {} ELSE @[s]]]

\* A fully dead group leaves no segment behind and allocates no id.
MergeGroup(m, group) ==
  IF MergedCopies(m, group) = {}
    THEN Drop(m, group)
    ELSE Push(Drop(m, group), MergedCopies(m, group))

\* A merge whose output could not be written burns the id it allocated.
BurnId(m) == [m EXCEPT !.next_seg_id = @ + 1]

\* compact() rewrites unless there are 0 segments, or 1 with nothing dead.
HasDead(m) == m.tombstones # {} \/ m.superseded # NoSupersessions

CompactMerges(m) ==
  /\ m.segment_ids # {}
  /\ HasDead(m) \/ \A s \in m.segment_ids : m.segment_ids # {s}

Purged(m) == [m EXCEPT !.tombstones = {}, !.superseded = NoSupersessions]

-----------------------------------------------------------------------------
(* Opening: the writer's memory from a manifest c and its segment files.   *)

HoldsLive(c, files, s, i) ==
  /\ s \in c.segment_ids
  /\ i \in IdsOf(files[s])
  /\ CopyIsLive(c.tombstones, c.superseded, s, i)

\* The segments are scanned in list order: the last one with a live copy of i
\* becomes its owner, and marks the copy of every earlier one superseded.
IsOwner(c, files, s, i) ==
  /\ HoldsLive(c, files, s, i)
  /\ \A t \in SegIds : HoldsLive(c, files, t, i) => t <= s

\* Slip: what the manifest says is taken as it is.
MarkedAsStored(c, files) == c.superseded

MarkedOnOpen(c, files) ==
  [s \in SegIds |-> c.superseded[s] \cup
     IF TracksIds
       THEN {i \in Ids : HoldsLive(c, files, s, i) /\ ~IsOwner(c, files, s, i)}
       ELSE {}]

Load(c, files) ==
  [ buffer |-> {}, buffer_ids |-> {},
    segment_ids |-> c.segment_ids,
    segments    |-> [s \in SegIds |->
                       IF s \in c.segment_ids THEN files[s] ELSE {}],
    tombstones  |-> c.tombstones,
    superseded  |-> MarkedOnOpen(c, files),
    owners      |-> [i \in Ids |->
                       IF TracksIds /\ \E s \in SegIds : IsOwner(c, files, s, i)
                         THEN CHOOSE s \in SegIds : IsOwner(c, files, s, i)
                         ELSE NoSeg],
    next_seg_id |-> c.next_seg_id ]

\* What is read for id i once open has loaded manifest c: where ids are listed,
\* the item of the owner's copy.
ReadsOnOpen(c, payloads, i) ==
  {v \in Items : \E s \in c.segment_ids :
     /\ <<i, v>> \in payloads[s]
     /\ IF TracksIds THEN IsOwner(c, payloads, s, i)
                     ELSE CopyIsLive(c.tombstones, c.superseded, s, i)}

\* open succeeds: every named segment file is there, and, where ids are listed,
\* no segment holds two live copies of one id.
CanLoad(c, files) ==
  \A s \in c.segment_ids :
    /\ files[s] # {}
    /\ TracksIds =>
         \A a, b \in files[s] :
           a[1] = b[1] /\ CopyIsLive(c.tombstones, c.superseded, s, a[1])
             => a = b

=============================================================================

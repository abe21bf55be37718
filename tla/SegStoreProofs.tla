--------------------------- MODULE SegStoreProofs ---------------------------
(***************************************************************************)
(* What the operations of SegMemory return and preserve; StoreInv is an    *)
(* inductive invariant of SegStore, and what follows from it for every     *)
(* number of ids, items, segments, records and generations.                *)
(***************************************************************************)
EXTENDS SegStoreInvariant, WellFoundedInduction, TLAPS

USE DEF SegIds

-----------------------------------------------------------------------------
(* Types.                                                                  *)

\* A segment id is not "no segment".
LEMMA SegIdsAreSegments == \A s \in SegIds : s # NoSeg
BY ConstantsAssumption

\* The ids of copies are ids.
LEMMA IdsOfType ==
  ASSUME NEW copies \in SUBSET Copies
  PROVE  IdsOf(copies) \subseteq Ids
BY DEF IdsOf, Copies

\* So are those of the copies in a segment.
LEMMA SegmentType ==
  ASSUME NEW m \in Memory, NEW s \in SegIds
  PROVE  /\ m.segments[s] \in SUBSET Copies
         /\ \A c \in m.segments[s] : c[1] \in Ids
<1>1. m.segments[s] \in SUBSET Copies
  BY DEF Memory, Payloads
<1>2. \A c \in Copies : c[1] \in Ids
  BY DEF Copies
<1> QED  BY <1>1, <1>2

\* supersede_sealed_copy keeps the memory well formed.
LEMMA SupersedeType ==
  ASSUME NEW m \in Memory, NEW i \in Ids
  PROVE  SupersedeSealedCopy(m, i) \in Memory
BY ConstantsAssumption
   DEF SupersedeSealedCopy, Memory, Supersessions

\* apply keeps the memory well formed.
LEMMA ApplyType ==
  ASSUME NEW m \in Memory, NEW op \in Ops
  PROVE  Apply(m, op) \in Memory
<1>1. op.id \in Ids /\ (op.item # Deleted => op.item \in Items)
  BY DEF Ops
<1>2. SupersedeSealedCopy(m, op.id) \in Memory
  BY <1>1, SupersedeType
<1>3. Unbuffer(m, op.id) \in SUBSET Copies
  BY DEF Unbuffer, Without, Memory
<1>4. ApplyDelete(m, op.id) \in Memory
  BY <1>1, <1>2, <1>3 DEF ApplyDelete, Memory
<1>5. CASE op.item # Deleted
  <2>1. <<op.id, op.item>> \in Copies
    BY <1>1, <1>5 DEF Copies
  <2>2. ApplyAdd(m, op.id, op.item) \in Memory
    BY <1>1, <1>2, <1>3, <2>1 DEF ApplyAdd, Memory
  <2> QED  BY <1>5, <2>2 DEF Apply
<1> QED  BY <1>4, <1>5 DEF Apply

\* A fresh segment fits where there is room for its id.
LEMMA PushType ==
  ASSUME NEW m \in Memory, NEW copies \in SUBSET Copies, HasRoom(m)
  PROVE  Push(m, copies) \in Memory
<1>1. OwnersMovedTo(m, copies, m.next_seg_id) \in [Ids -> SegIds \cup {NoSeg}]
  BY DEF OwnersMovedTo, Memory, HasRoom
<1>2. m.next_seg_id + 1 \in 0 .. MaxSegId + 1
  BY ConstantsAssumption DEF HasRoom
<1>3. [m.segments EXCEPT ![m.next_seg_id] = copies] \in Payloads
  BY DEF Memory, Payloads
<1> QED
  BY <1>1, <1>2, <1>3 DEF Push, Memory, HasRoom

\* So does sealing the buffer.
LEMMA FlushBufferType ==
  ASSUME NEW m \in Memory, m.buffer = {} \/ HasRoom(m)
  PROVE  FlushBuffer(m) \in Memory
<1>1. CASE m.buffer = {}
  BY <1>1 DEF FlushBuffer
<1>2. CASE m.buffer # {}
  <2>1. Push(m, m.buffer) \in Memory
    BY <1>2, PushType DEF Memory
  <2> QED  BY <1>2, <2>1 DEF FlushBuffer, Memory
<1> QED  BY <1>1, <1>2

\* Dropping a merge's inputs keeps the memory well formed.
LEMMA DropType ==
  ASSUME NEW m \in Memory, NEW group \in SUBSET SegIds
  PROVE  Drop(m, group) \in Memory
BY DEF Drop, Memory, Payloads, Supersessions

\* A merge's output is a set of copies.
LEMMA MergedCopiesType ==
  ASSUME NEW m \in Memory, NEW group \in SUBSET SegIds
  PROVE  MergedCopies(m, group) \in SUBSET Copies
BY DEF MergedCopies, LiveCopies, Memory, Payloads

\* A merge keeps the memory well formed.
LEMMA MergeGroupType ==
  ASSUME NEW m \in Memory, NEW group \in SUBSET SegIds, HasRoom(m)
  PROVE  MergeGroup(m, group) \in Memory
<1>1. Drop(m, group) \in Memory
  BY DropType
<1>2. Drop(m, group).next_seg_id = m.next_seg_id
  BY DEF Drop, Memory
<1> QED
  BY <1>1, <1>2, PushType, MergedCopiesType DEF MergeGroup, HasRoom

\* So does compact's purge.
LEMMA PurgedType ==
  ASSUME NEW m \in Memory
  PROVE  Purged(m) \in Memory
BY DEF Purged, Memory, NoSupersessions, Supersessions

\* So does the failed merge's lost id.
LEMMA BurnIdType ==
  ASSUME NEW m \in Memory, HasRoom(m)
  PROVE  BurnId(m) \in Memory
BY ConstantsAssumption DEF BurnId, Memory, HasRoom

\* A new store's memory is well formed.
LEMMA EmptyMemoryType == EmptyMemory \in Memory
BY ConstantsAssumption
   DEF EmptyMemory, Memory, NoPayloads, NoSupersessions, Payloads,
       Supersessions

\* What open builds from a manifest and its files is well formed.
LEMMA LoadType ==
  ASSUME NEW c, NEW payloads \in Payloads,
         c.segment_ids \in SUBSET SegIds, c.tombstones \in SUBSET Ids,
         c.superseded \in Supersessions,
         c.next_seg_id \in 0 .. MaxSegId + 1
  PROVE  Load(c, payloads) \in Memory
<1>1. Load(c, payloads).segments \in Payloads
  BY DEF Load, MarkedOnOpen, Payloads
<1>2. Load(c, payloads).superseded \in Supersessions
  BY DEF Load, MarkedOnOpen, Supersessions
<1>3. Load(c, payloads).owners \in [Ids -> SegIds \cup {NoSeg}]
  BY DEF Load, MarkedOnOpen
<1> QED  BY <1>1, <1>2, <1>3 DEF Load, MarkedOnOpen, Memory

-----------------------------------------------------------------------------
(* The invariant.                                                          *)

\* A new store's memory satisfies the invariant.
LEMMA EmptyMemoryInv == MemInv(EmptyMemory)
BY DEF EmptyMemory, MemInv, Tracked, UniqueIds, CopiesOwned, OwnersLive,
       IdsOf, NoSupersessions

\* No copy of id i is left in Without(copies, i), and every other copy is.
LEMMA WithoutIds ==
  ASSUME NEW copies \in SUBSET Copies, NEW i \in Ids
  PROVE  IdsOf(Without(copies, i)) = IdsOf(copies) \ {i}
BY DEF IdsOf, Without, Copies

\* What apply does to the buffer before the new copy goes in.
LEMMA UnbufferIds ==
  ASSUME NEW m \in Memory, NEW i \in Ids, m.buffer_ids = IdsOf(m.buffer)
  PROVE  /\ Unbuffer(m, i) = Without(m.buffer, i)
         /\ IdsOf(Unbuffer(m, i)) = m.buffer_ids \ {i}
<1>1. m.buffer \in SUBSET Copies
  BY DEF Memory
<1>2. i \notin m.buffer_ids => Without(m.buffer, i) = m.buffer
  BY DEF IdsOf, Without
<1> QED  BY <1>1, <1>2, WithoutIds DEF Unbuffer

\* The fields supersede_sealed_copy sets.
LEMMA SupersedeFields ==
  ASSUME NEW m \in Memory, NEW i \in Ids
  PROVE  LET n == SupersedeSealedCopy(m, i) IN
         /\ n.buffer = m.buffer
         /\ n.buffer_ids = m.buffer_ids
         /\ n.segment_ids = m.segment_ids
         /\ n.segments = m.segments
         /\ n.tombstones = m.tombstones
         /\ n.next_seg_id = m.next_seg_id
         /\ n.owners = [m.owners EXCEPT ![i] = NoSeg]
         /\ \A s \in SegIds :
              n.superseded[s] = m.superseded[s] \cup
                                (IF s = m.owners[i] THEN {i} ELSE {})
BY ConstantsAssumption DEF SupersedeSealedCopy, Memory, Supersessions

\* It preserves the invariant, and then every sealed copy of the id is marked
\* and no owner names it.
LEMMA SupersedeInv ==
  ASSUME NEW m \in Memory, NEW i \in Ids, MemInv(m)
  PROVE  /\ MemInv(SupersedeSealedCopy(m, i))
         /\ SupersedeSealedCopy(m, i).owners[i] = NoSeg
<1> DEFINE n == SupersedeSealedCopy(m, i)
<1>0. m.owners \in [Ids -> SegIds \cup {NoSeg}] /\ m.segment_ids \subseteq SegIds
  BY DEF Memory
<1>1. /\ n.buffer = m.buffer
      /\ n.buffer_ids = m.buffer_ids
      /\ n.segment_ids = m.segment_ids
      /\ n.segments = m.segments
      /\ n.tombstones = m.tombstones
      /\ n.next_seg_id = m.next_seg_id
      /\ n.owners = [m.owners EXCEPT ![i] = NoSeg]
      /\ \A s \in SegIds :
           n.superseded[s] = m.superseded[s] \cup
                             (IF s = m.owners[i] THEN {i} ELSE {})
  BY SupersedeFields
<1> HIDE DEF n
<1>2. n.owners[i] = NoSeg
  BY <1>0, <1>1
<1>3. \A s \in SegIds : s \notin n.segment_ids => n.superseded[s] = {}
  <2> SUFFICES ASSUME NEW s \in SegIds, s \notin n.segment_ids
               PROVE  n.superseded[s] = {}
    OBVIOUS
  <2>1. m.superseded[s] = {}
    BY <1>1 DEF MemInv
  <2>2. s # m.owners[i]
    BY <1>1, ConstantsAssumption DEF MemInv, Tracked, OwnersLive
  <2> QED  BY <1>1, <2>1, <2>2
<1>4. ASSUME TracksIds
      PROVE  Tracked(n)
  <2>1. CopiesOwned(m) /\ OwnersLive(m)
    BY <1>4 DEF MemInv, Tracked
  <2>2. CopiesOwned(n)
    <3> SUFFICES ASSUME NEW s \in n.segment_ids, NEW c \in n.segments[s]
                 PROVE  c[1] \in n.superseded[s] \/ n.owners[c[1]] = s
      BY DEF CopiesOwned
    <3>1. s \in SegIds /\ c[1] \in Ids
      BY <1>0, <1>1, SegmentType
    <3>2. c[1] \in m.superseded[s] \/ m.owners[c[1]] = s
      BY <1>1, <2>1 DEF CopiesOwned
    <3> QED  BY <1>0, <1>1, <3>1, <3>2
  <2>3. OwnersLive(n)
    <3> SUFFICES ASSUME NEW j \in Ids, n.owners[j] # NoSeg
                 PROVE  /\ n.owners[j] \in n.segment_ids
                        /\ j \in IdsOf(n.segments[n.owners[j]])
                        /\ CopyIsLive(n.tombstones, n.superseded, n.owners[j], j)
                        /\ j \notin n.buffer_ids
      BY DEF OwnersLive
    <3>1. j # i /\ n.owners[j] = m.owners[j]
      BY <1>0, <1>1
    <3>2. /\ m.owners[j] \in m.segment_ids
          /\ j \in IdsOf(m.segments[m.owners[j]])
          /\ CopyIsLive(m.tombstones, m.superseded, m.owners[j], j)
          /\ j \notin m.buffer_ids
      BY <2>1, <3>1 DEF OwnersLive
    <3> QED  BY <1>0, <1>1, <3>1, <3>2 DEF CopyIsLive
  <2> QED  BY <1>1, <1>4, <2>2, <2>3 DEF MemInv, Tracked
<1>5. ASSUME ~TracksIds, NEW j \in Ids
      PROVE  n.owners[j] = NoSeg
  BY <1>0, <1>1, <1>5 DEF MemInv
<1>6. MemInv(n)
  BY <1>1, <1>3, <1>4, <1>5 DEF MemInv
<1> QED  BY <1>2, <1>6 DEF n

\* What apply does to the rest once the sealed copy of id i is superseded:
\* take the buffered copy out, put the new one (if any) in, and set the
\* tombstone or clear it.
LEMMA RebufferInv ==
  ASSUME NEW n \in Memory, NEW r \in Memory, NEW i \in Ids, MemInv(n),
         n.owners[i] = NoSeg, NEW new \in SUBSET Copies,
         UniqueIds(new), IdsOf(new) \subseteq {i},
         r.buffer = Without(n.buffer, i) \cup new,
         r.buffer_ids = IdsOf(r.buffer),
         IF new = {} THEN r.tombstones = n.tombstones \cup {i}
                     ELSE r.tombstones = n.tombstones \ {i},
         r.segment_ids = n.segment_ids, r.segments = n.segments,
         r.superseded = n.superseded, r.owners = n.owners,
         r.next_seg_id = n.next_seg_id
  PROVE  MemInv(r)
<1>1. IdsOf(r.buffer) = (n.buffer_ids \ {i}) \cup IdsOf(new)
  <2>1. IdsOf(r.buffer) = IdsOf(Without(n.buffer, i)) \cup IdsOf(new)
    BY DEF IdsOf
  <2>2. IdsOf(Without(n.buffer, i)) = n.buffer_ids \ {i}
    BY WithoutIds DEF MemInv, Memory
  <2> QED  BY <2>1, <2>2
<1>2. r.tombstones \cap r.buffer_ids = {}
  <2>1. CASE new = {}
    <3>1. IdsOf(new) = {}
      BY <2>1 DEF IdsOf
    <3> QED  BY <1>1, <2>1, <3>1 DEF MemInv
  <2>2. CASE new # {}
    BY <1>1, <2>2 DEF MemInv
  <2> QED  BY <2>1, <2>2
<1>3. ASSUME TracksIds
      PROVE  Tracked(r)
  <2>1. Tracked(n)
    BY <1>3 DEF MemInv
  <2>2. UniqueIds(r.buffer)
    <3> SUFFICES ASSUME NEW c \in r.buffer, NEW d \in r.buffer, c[1] = d[1]
                 PROVE  c = d
      BY DEF UniqueIds
    <3>1. c[1] = i <=> c \in new
      BY DEF Without, IdsOf
    <3>2. d[1] = i <=> d \in new
      BY DEF Without, IdsOf
    <3>3. c \in new \/ c \in n.buffer
      BY DEF Without
    <3>4. d \in new \/ d \in n.buffer
      BY DEF Without
    <3> QED  BY <2>1, <3>1, <3>2, <3>3, <3>4 DEF Tracked, UniqueIds
  <2>3. CopiesOwned(r)
    BY <2>1 DEF Tracked, CopiesOwned
  <2>4. OwnersLive(r)
    <3> SUFFICES ASSUME NEW j \in Ids, r.owners[j] # NoSeg
                 PROVE  /\ r.owners[j] \in r.segment_ids
                        /\ j \in IdsOf(r.segments[r.owners[j]])
                        /\ CopyIsLive(r.tombstones, r.superseded, r.owners[j], j)
                        /\ j \notin r.buffer_ids
      BY DEF OwnersLive
    <3>1. j # i
      OBVIOUS
    <3>2. /\ n.owners[j] \in n.segment_ids
          /\ j \in IdsOf(n.segments[n.owners[j]])
          /\ CopyIsLive(n.tombstones, n.superseded, n.owners[j], j)
          /\ j \notin n.buffer_ids
      BY <2>1 DEF Tracked, OwnersLive
    <3>3. j \notin r.buffer_ids
      BY <1>1, <3>1, <3>2
    <3>4. j \notin r.tombstones
      BY <3>1, <3>2 DEF CopyIsLive
    <3> QED  BY <3>2, <3>3, <3>4 DEF CopyIsLive
  <2> QED  BY <2>1, <2>2, <2>3, <2>4 DEF Tracked
<1> QED  BY <1>2, <1>3 DEF MemInv

\* A delete keeps the invariant.
LEMMA ApplyDeleteInv ==
  ASSUME NEW m \in Memory, NEW i \in Ids, MemInv(m), ApplyDelete(m, i) \in Memory
  PROVE  MemInv(ApplyDelete(m, i))
<1> DEFINE n == SupersedeSealedCopy(m, i)
           r == ApplyDelete(m, i)
<1>1. n \in Memory /\ MemInv(n) /\ n.owners[i] = NoSeg
  BY SupersedeType, SupersedeInv
<1>2. n.buffer = m.buffer /\ n.buffer_ids = m.buffer_ids
  BY SupersedeFields
<1>3. /\ Unbuffer(m, i) = Without(m.buffer, i)
      /\ IdsOf(Unbuffer(m, i)) = m.buffer_ids \ {i}
  BY UnbufferIds DEF MemInv
<1>4. /\ r.buffer = Unbuffer(m, i)
      /\ r.buffer_ids = n.buffer_ids \ {i}
      /\ r.tombstones = n.tombstones \cup {i}
      /\ r.segment_ids = n.segment_ids
      /\ r.segments = n.segments
      /\ r.superseded = n.superseded
      /\ r.owners = n.owners
      /\ r.next_seg_id = n.next_seg_id
  BY <1>1 DEF ApplyDelete, Memory
<1>5. UniqueIds({}) /\ IdsOf({}) = {}
  BY DEF UniqueIds, IdsOf
<1> HIDE DEF n, r
<1>6. /\ r.buffer = Without(n.buffer, i) \cup {}
      /\ r.buffer_ids = IdsOf(r.buffer)
  BY <1>2, <1>3, <1>4
<1>7. r \in Memory
  BY DEF r
<1>8. MemInv(r)
  BY <1>1, <1>4, <1>5, <1>6, <1>7, RebufferInv
<1> QED  BY <1>8 DEF r

\* An add keeps the invariant.
LEMMA ApplyAddInv ==
  ASSUME NEW m \in Memory, NEW i \in Ids, NEW item \in Items, MemInv(m),
         ApplyAdd(m, i, item) \in Memory
  PROVE  MemInv(ApplyAdd(m, i, item))
<1> DEFINE n == SupersedeSealedCopy(m, i)
           r == ApplyAdd(m, i, item)
           new == {<<i, item>>}
<1>1. n \in Memory /\ MemInv(n) /\ n.owners[i] = NoSeg
  BY SupersedeType, SupersedeInv
<1>2. n.buffer = m.buffer /\ n.buffer_ids = m.buffer_ids
  BY SupersedeFields
<1>3. /\ Unbuffer(m, i) = Without(m.buffer, i)
      /\ IdsOf(Unbuffer(m, i)) = m.buffer_ids \ {i}
  BY UnbufferIds DEF MemInv
<1>4. /\ r.buffer = Unbuffer(m, i) \cup new
      /\ r.buffer_ids = n.buffer_ids \cup {i}
      /\ r.tombstones = n.tombstones \ {i}
      /\ r.segment_ids = n.segment_ids
      /\ r.segments = n.segments
      /\ r.superseded = n.superseded
      /\ r.owners = n.owners
      /\ r.next_seg_id = n.next_seg_id
  BY <1>1 DEF ApplyAdd, Memory
<1>5. /\ UniqueIds(new) /\ IdsOf(new) = {i} /\ new # {}
      /\ new \in SUBSET Copies
  BY DEF UniqueIds, IdsOf, Copies
<1> HIDE DEF n, r, new
<1>6. r.buffer_ids = IdsOf(r.buffer)
  <2>1. IdsOf(r.buffer) = IdsOf(Unbuffer(m, i)) \cup IdsOf(new)
    BY <1>4 DEF IdsOf
  <2> QED  BY <1>2, <1>3, <1>4, <1>5, <2>1
<1>7. r \in Memory /\ r.buffer = Without(n.buffer, i) \cup new
  BY <1>2, <1>3, <1>4 DEF r
<1>8. MemInv(r)
  BY <1>1, <1>4, <1>5, <1>6, <1>7, RebufferInv
<1> QED  BY <1>8 DEF r

\* apply preserves the invariant.
LEMMA ApplyInv ==
  ASSUME NEW m \in Memory, NEW op \in Ops, MemInv(m)
  PROVE  MemInv(Apply(m, op))
<1>1. op.id \in Ids /\ (op.item # Deleted => op.item \in Items)
  BY DEF Ops
<1>2. Apply(m, op) \in Memory
  BY ApplyType
<1>3. CASE op.item = Deleted
  BY <1>1, <1>2, <1>3, ApplyDeleteInv DEF Apply
<1>4. CASE op.item # Deleted
  BY <1>1, <1>2, <1>4, ApplyAddInv DEF Apply
<1> QED  BY <1>3, <1>4

-----------------------------------------------------------------------------
(* Sealing and merging preserve the invariant.                             *)

\* r is m with a pushed segment of copies, whose ids have no live copy in the
\* buffer or in the other segments.
LEMMA PushInv ==
  ASSUME NEW m \in Memory, NEW r \in Memory, NEW copies \in SUBSET Copies,
         HasRoom(m), copies # {},
         \A s \in m.segment_ids : s < m.next_seg_id /\ m.segments[s] # {},
         \A s \in SegIds : s \notin m.segment_ids => m.superseded[s] = {},
         m.owners \in [Ids -> SegIds \cup {NoSeg}],
         r.segment_ids = m.segment_ids \cup {m.next_seg_id},
         r.segments = [m.segments EXCEPT ![m.next_seg_id] = copies],
         r.owners = OwnersMovedTo(m, copies, m.next_seg_id),
         r.next_seg_id = m.next_seg_id + 1,
         r.superseded = m.superseded, r.tombstones = m.tombstones,
         r.buffer_ids = IdsOf(r.buffer),
         r.tombstones \cap r.buffer_ids = {},
         r.tombstones \cap IdsOf(copies) = {},
         IF TracksIds
           THEN /\ UniqueIds(r.buffer) /\ UniqueIds(copies)
                /\ r.buffer_ids \cap IdsOf(copies) = {}
                /\ \A s \in m.segment_ids : UniqueIds(m.segments[s])
                /\ \A s \in m.segment_ids : \A c \in m.segments[s] :
                     \/ c[1] \in m.superseded[s]
                     \/ m.owners[c[1]] = s /\ c[1] \notin IdsOf(copies)
                /\ \A i \in Ids : m.owners[i] # NoSeg /\ i \notin IdsOf(copies) =>
                     /\ m.owners[i] \in m.segment_ids
                     /\ i \in IdsOf(m.segments[m.owners[i]])
                     /\ CopyIsLive(m.tombstones, m.superseded, m.owners[i], i)
                     /\ i \notin r.buffer_ids
           ELSE \A i \in Ids : m.owners[i] = NoSeg
  PROVE  MemInv(r)
<1> DEFINE k == m.next_seg_id
<1>0. /\ k \in SegIds /\ k \in Int /\ m.segment_ids \subseteq SegIds
      /\ k \notin m.segment_ids
      /\ m.segments \in [SegIds -> SUBSET Copies]
  BY DEF HasRoom, Memory, Payloads
<1>1. \A s \in r.segment_ids : s < r.next_seg_id /\ r.segments[s] # {}
  <2> SUFFICES ASSUME NEW s \in r.segment_ids
               PROVE  s < r.next_seg_id /\ r.segments[s] # {}
    OBVIOUS
  <2>1. CASE s = k
    <3>1. r.segments[k] = copies
      BY <1>0
    <3>2. r.next_seg_id = k + 1 /\ k \in Int
      BY <1>0
    <3>3. k < r.next_seg_id
      BY <3>2
    <3> QED  BY <2>1, <3>1, <3>3
  <2>2. CASE s # k
    <3>1. s \in m.segment_ids /\ s \in Int
      BY <1>0, <2>2
    <3>2. r.segments[s] = m.segments[s]
      BY <1>0, <2>2, <3>1
    <3>3. s < k
      BY <3>1
    <3>4. s < k + 1
      BY <1>0, <3>1, <3>3
    <3> QED  BY <3>1, <3>2, <3>4
  <2> QED  BY <2>1, <2>2
<1>2. \A s \in SegIds : s \notin r.segment_ids => r.superseded[s] = {}
  OBVIOUS
<1>3. ASSUME TracksIds
      PROVE  Tracked(r)
  <2>1. r.owners = [i \in Ids |-> IF i \in IdsOf(copies) THEN k ELSE m.owners[i]]
    BY <1>3 DEF OwnersMovedTo
  <2>2. \A s \in r.segment_ids : UniqueIds(r.segments[s])
    <3> SUFFICES ASSUME NEW s \in r.segment_ids
                 PROVE  UniqueIds(r.segments[s])
      OBVIOUS
    <3>1. CASE s = k
      <4>1. r.segments[s] = copies
        BY <1>0, <3>1
      <4> QED  BY <1>3, <4>1
    <3>2. CASE s # k
      <4>1. s \in m.segment_ids /\ r.segments[s] = m.segments[s]
        BY <1>0, <3>2
      <4> QED  BY <1>3, <4>1
    <3> QED  BY <3>1, <3>2
  <2>3. CopiesOwned(r)
    <3> SUFFICES ASSUME NEW s \in r.segment_ids, NEW c \in r.segments[s]
                 PROVE  c[1] \in r.superseded[s] \/ r.owners[c[1]] = s
      BY DEF CopiesOwned
    <3>1. c[1] \in Ids
      BY <1>0, SegmentType
    <3>2. CASE s = k
      <4>1. c \in copies
        BY <1>0, <3>2
      <4>2. c[1] \in IdsOf(copies)
        BY <4>1 DEF IdsOf
      <4> QED  BY <2>1, <3>1, <3>2, <4>2
    <3>3. CASE s # k
      <4>1. s \in m.segment_ids /\ c \in m.segments[s]
        BY <1>0, <3>3
      <4>2. \/ c[1] \in m.superseded[s]
            \/ m.owners[c[1]] = s /\ c[1] \notin IdsOf(copies)
        BY <1>3, <4>1
      <4> QED  BY <2>1, <3>1, <4>2
    <3> QED  BY <3>2, <3>3
  <2>4. OwnersLive(r)
    <3> SUFFICES ASSUME NEW i \in Ids, r.owners[i] # NoSeg
                 PROVE  /\ r.owners[i] \in r.segment_ids
                        /\ i \in IdsOf(r.segments[r.owners[i]])
                        /\ CopyIsLive(r.tombstones, r.superseded, r.owners[i], i)
                        /\ i \notin r.buffer_ids
      BY DEF OwnersLive
    <3>1. CASE i \in IdsOf(copies)
      <4>1. r.owners[i] = k /\ r.segments[k] = copies
        BY <1>0, <2>1, <3>1
      <4>2. m.superseded[k] = {}
        BY <1>0
      <4>3. i \notin r.tombstones /\ i \notin r.buffer_ids
        BY <1>3, <3>1
      <4> QED  BY <3>1, <4>1, <4>2, <4>3 DEF CopyIsLive
    <3>2. CASE i \notin IdsOf(copies)
      <4>1. r.owners[i] = m.owners[i]
        BY <2>1, <3>2
      <4>2. /\ m.owners[i] \in m.segment_ids
            /\ i \in IdsOf(m.segments[m.owners[i]])
            /\ CopyIsLive(m.tombstones, m.superseded, m.owners[i], i)
            /\ i \notin r.buffer_ids
        BY <1>3, <3>2, <4>1
      <4>3. r.segments[m.owners[i]] = m.segments[m.owners[i]]
        BY <1>0, <4>2
      <4> QED  BY <4>1, <4>2, <4>3
    <3> QED  BY <3>1, <3>2
  <2> QED  BY <1>3, <2>2, <2>3, <2>4 DEF Tracked
<1>4. ASSUME ~TracksIds, NEW i \in Ids
      PROVE  r.owners[i] = NoSeg
  BY <1>4 DEF OwnersMovedTo
<1> QED  BY <1>1, <1>2, <1>3, <1>4 DEF MemInv

\* flush_buffer preserves the invariant.
LEMMA FlushBufferInv ==
  ASSUME NEW m \in Memory, MemInv(m), m.buffer = {} \/ HasRoom(m)
  PROVE  MemInv(FlushBuffer(m))
<1> DEFINE r == FlushBuffer(m)
<1>1. CASE m.buffer = {}
  BY <1>1 DEF FlushBuffer
<1>2. CASE m.buffer # {}
  <2>1. /\ r.segment_ids = m.segment_ids \cup {m.next_seg_id}
        /\ r.segments = [m.segments EXCEPT ![m.next_seg_id] = m.buffer]
        /\ r.owners = OwnersMovedTo(m, m.buffer, m.next_seg_id)
        /\ r.next_seg_id = m.next_seg_id + 1
        /\ r.superseded = m.superseded
        /\ r.tombstones = m.tombstones
        /\ r.buffer = {}
        /\ r.buffer_ids = {}
    BY <1>2 DEF FlushBuffer, Push, Memory
  <2>2. r \in Memory
    BY <1>2, FlushBufferType
  <2> HIDE DEF r
  <2>3. HasRoom(m) /\ m.buffer \in SUBSET Copies
    BY <1>2 DEF Memory
  <2>4. IdsOf({}) = {} /\ UniqueIds({})
    BY DEF IdsOf, UniqueIds
  <2>5. m.tombstones \cap IdsOf(m.buffer) = {}
    BY DEF MemInv
  <2>6. ASSUME TracksIds
        PROVE  /\ UniqueIds(m.buffer)
               /\ \A s \in m.segment_ids : UniqueIds(m.segments[s])
               /\ \A s \in m.segment_ids : \A c \in m.segments[s] :
                    \/ c[1] \in m.superseded[s]
                    \/ m.owners[c[1]] = s /\ c[1] \notin IdsOf(m.buffer)
               /\ \A i \in Ids : m.owners[i] # NoSeg =>
                    /\ m.owners[i] \in m.segment_ids
                    /\ i \in IdsOf(m.segments[m.owners[i]])
                    /\ CopyIsLive(m.tombstones, m.superseded, m.owners[i], i)
    <3>1. Tracked(m) /\ m.buffer_ids = IdsOf(m.buffer)
      BY <2>6 DEF MemInv
    <3>2. ASSUME NEW s \in m.segment_ids, NEW c \in m.segments[s],
                 c[1] \notin m.superseded[s]
          PROVE  m.owners[c[1]] = s /\ c[1] \notin IdsOf(m.buffer)
      <4>1. m.owners[c[1]] = s
        BY <3>1, <3>2 DEF Tracked, CopiesOwned
      <4>2. c[1] \in Ids /\ s \in SegIds
        BY SegmentType DEF Memory
      <4> QED  BY <3>1, <4>1, <4>2, ConstantsAssumption DEF Tracked, OwnersLive
    <3> QED  BY <3>1, <3>2 DEF Tracked, OwnersLive
  <2>7. IF TracksIds
          THEN /\ UniqueIds(r.buffer) /\ UniqueIds(m.buffer)
               /\ r.buffer_ids \cap IdsOf(m.buffer) = {}
               /\ \A s \in m.segment_ids : UniqueIds(m.segments[s])
               /\ \A s \in m.segment_ids : \A c \in m.segments[s] :
                    \/ c[1] \in m.superseded[s]
                    \/ m.owners[c[1]] = s /\ c[1] \notin IdsOf(m.buffer)
               /\ \A i \in Ids : m.owners[i] # NoSeg /\ i \notin IdsOf(m.buffer) =>
                    /\ m.owners[i] \in m.segment_ids
                    /\ i \in IdsOf(m.segments[m.owners[i]])
                    /\ CopyIsLive(m.tombstones, m.superseded, m.owners[i], i)
                    /\ i \notin r.buffer_ids
          ELSE \A i \in Ids : m.owners[i] = NoSeg
    <3>1. CASE TracksIds
      BY <2>1, <2>4, <2>6, <3>1
    <3>2. CASE ~TracksIds
      BY <3>2 DEF MemInv
    <3> QED  BY <3>1, <3>2
  <2>8. /\ \A s \in m.segment_ids : s < m.next_seg_id /\ m.segments[s] # {}
        /\ \A s \in SegIds : s \notin m.segment_ids => m.superseded[s] = {}
    BY DEF MemInv
  <2>9. /\ r.buffer_ids = IdsOf(r.buffer)
        /\ r.tombstones \cap r.buffer_ids = {}
        /\ r.tombstones \cap IdsOf(m.buffer) = {}
    BY <2>1, <2>4, <2>5
  <2>10. m.owners \in [Ids -> SegIds \cup {NoSeg}]
    BY DEF Memory
  <2>11. MemInv(r)
    BY <1>2, <2>1, <2>2, <2>3, <2>7, <2>8, <2>9, <2>10, PushInv
  <2> QED  BY <2>11 DEF r
<1> QED  BY <1>1, <1>2

\* An id with a live copy in the group of a merge has its owner there, and is
\* neither deleted nor buffered.
LEMMA MergedIds ==
  ASSUME NEW m \in Memory, MemInv(m), TracksIds,
         NEW group \in SUBSET m.segment_ids
  PROVE  /\ \A c \in MergedCopies(m, group) :
              /\ m.owners[c[1]] \in group
              /\ c \in m.segments[m.owners[c[1]]]
         /\ UniqueIds(MergedCopies(m, group))
         /\ \A i \in Ids :
              m.owners[i] \in group => i \in IdsOf(MergedCopies(m, group))
<1>0. group \subseteq SegIds /\ Tracked(m)
  BY DEF Memory, MemInv
<1>1. ASSUME NEW c \in MergedCopies(m, group)
      PROVE  /\ m.owners[c[1]] \in group
             /\ c \in m.segments[m.owners[c[1]]]
  <2>1. PICK s \in group : c \in LiveCopies(m, s)
    BY DEF MergedCopies
  <2>2. c \in m.segments[s] /\ c[1] \notin m.superseded[s]
    BY <2>1 DEF LiveCopies, CopyIsLive
  <2>3. m.owners[c[1]] = s
    BY <1>0, <2>2 DEF Tracked, CopiesOwned
  <2> QED  BY <2>2, <2>3
<1>2. UniqueIds(MergedCopies(m, group))
  <2> SUFFICES ASSUME NEW c \in MergedCopies(m, group),
                      NEW d \in MergedCopies(m, group), c[1] = d[1]
               PROVE  c = d
    BY DEF UniqueIds
  <2>1. /\ m.owners[c[1]] \in m.segment_ids
        /\ c \in m.segments[m.owners[c[1]]]
        /\ d \in m.segments[m.owners[c[1]]]
    BY <1>1
  <2> QED  BY <1>0, <2>1 DEF Tracked, UniqueIds
<1>3. ASSUME NEW i \in Ids, m.owners[i] \in group
      PROVE  i \in IdsOf(MergedCopies(m, group))
  <2>1. m.owners[i] # NoSeg
    <3>1. m.owners[i] \in SegIds
      BY <1>0, <1>3
    <3> QED  BY <3>1, SegIdsAreSegments
  <2>2. /\ i \in IdsOf(m.segments[m.owners[i]])
        /\ CopyIsLive(m.tombstones, m.superseded, m.owners[i], i)
    BY <1>0, <1>3, <2>1 DEF Tracked, OwnersLive
  <2>3. PICK c \in m.segments[m.owners[i]] : c[1] = i
    BY <2>2 DEF IdsOf
  <2>4. c \in LiveCopies(m, m.owners[i])
    BY <2>2, <2>3 DEF LiveCopies
  <2>5. c \in MergedCopies(m, group)
    BY <1>3, <2>4 DEF MergedCopies
  <2> QED  BY <2>3, <2>5 DEF IdsOf
<1> QED  BY <1>1, <1>2, <1>3

\* A copy that a merge keeps is of an id that is not deleted.
LEMMA MergedNotDeleted ==
  ASSUME NEW m \in Memory, NEW group \in SUBSET SegIds
  PROVE  m.tombstones \cap IdsOf(MergedCopies(m, group)) = {}
BY DEF MergedCopies, LiveCopies, CopyIsLive, IdsOf

\* The fields of m without the merge's inputs.
LEMMA DropFields ==
  ASSUME NEW m \in Memory, NEW group \in SUBSET SegIds
  PROVE  LET d == Drop(m, group) IN
         /\ d.buffer = m.buffer
         /\ d.buffer_ids = m.buffer_ids
         /\ d.segment_ids = m.segment_ids \ group
         /\ d.tombstones = m.tombstones
         /\ d.owners = m.owners
         /\ d.next_seg_id = m.next_seg_id
         /\ \A s \in SegIds :
              /\ d.segments[s] = IF s \in group THEN {} ELSE m.segments[s]
              /\ d.superseded[s] = IF s \in group THEN {} ELSE m.superseded[s]
BY DEF Drop, Memory

\* What is left beside a merge's output, as PushInv wants it.
LEMMA DropInv ==
  ASSUME NEW m \in Memory, MemInv(m), NEW group \in SUBSET m.segment_ids,
         TracksIds
  PROVE  LET d == Drop(m, group)
             copies == MergedCopies(m, group)
         IN
         /\ UniqueIds(d.buffer)
         /\ \A s \in d.segment_ids : UniqueIds(d.segments[s])
         /\ \A s \in d.segment_ids : \A c \in d.segments[s] :
              \/ c[1] \in d.superseded[s]
              \/ d.owners[c[1]] = s /\ c[1] \notin IdsOf(copies)
         /\ \A i \in Ids : d.owners[i] # NoSeg /\ i \notin IdsOf(copies) =>
              /\ d.owners[i] \in d.segment_ids
              /\ i \in IdsOf(d.segments[d.owners[i]])
              /\ CopyIsLive(d.tombstones, d.superseded, d.owners[i], i)
              /\ i \notin d.buffer_ids
<1> DEFINE d == Drop(m, group)
           copies == MergedCopies(m, group)
<1>0. m.segment_ids \subseteq SegIds /\ group \in SUBSET SegIds /\ Tracked(m)
  BY DEF Memory, MemInv
<1>1. /\ d.buffer = m.buffer
      /\ d.buffer_ids = m.buffer_ids
      /\ d.segment_ids = m.segment_ids \ group
      /\ d.tombstones = m.tombstones
      /\ d.owners = m.owners
      /\ \A s \in d.segment_ids :
           /\ s \in m.segment_ids /\ s \notin group
           /\ d.segments[s] = m.segments[s]
           /\ d.superseded[s] = m.superseded[s]
  BY <1>0, DropFields
<1>2. \A c \in copies : m.owners[c[1]] \in group
  BY MergedIds
<1>3. \A i \in Ids : m.owners[i] \in group => i \in IdsOf(copies)
  BY MergedIds
<1> HIDE DEF d, copies
<1>4. ASSUME NEW s \in d.segment_ids, NEW c \in d.segments[s],
             c[1] \notin d.superseded[s]
      PROVE  d.owners[c[1]] = s /\ c[1] \notin IdsOf(copies)
  <2>1. s \in m.segment_ids /\ s \notin group /\ c \in m.segments[s]
    BY <1>1
  <2>2. m.owners[c[1]] = s
    BY <1>0, <1>1, <1>4, <2>1 DEF Tracked, CopiesOwned
  <2>3. c[1] \notin IdsOf(copies)
    BY <1>2, <2>1, <2>2 DEF IdsOf
  <2> QED  BY <1>1, <2>2, <2>3
<1>5. ASSUME NEW i \in Ids, d.owners[i] # NoSeg, i \notin IdsOf(copies)
      PROVE  /\ d.owners[i] \in d.segment_ids
             /\ i \in IdsOf(d.segments[d.owners[i]])
             /\ CopyIsLive(d.tombstones, d.superseded, d.owners[i], i)
             /\ i \notin d.buffer_ids
  <2>1. m.owners[i] \notin group
    BY <1>3, <1>5
  <2>2. /\ m.owners[i] \in m.segment_ids
        /\ i \in IdsOf(m.segments[m.owners[i]])
        /\ CopyIsLive(m.tombstones, m.superseded, m.owners[i], i)
        /\ i \notin m.buffer_ids
    BY <1>0, <1>1, <1>5 DEF Tracked, OwnersLive
  <2> QED  BY <1>1, <2>1, <2>2 DEF CopyIsLive
<1>6. UniqueIds(d.buffer) /\ \A s \in d.segment_ids : UniqueIds(d.segments[s])
  BY <1>0, <1>1 DEF Tracked
<1> QED  BY <1>4, <1>5, <1>6 DEF d, copies

\* merge_group preserves the invariant.
LEMMA MergeGroupInv ==
  ASSUME NEW m \in Memory, MemInv(m), HasRoom(m),
         NEW group \in SUBSET m.segment_ids
  PROVE  MemInv(MergeGroup(m, group))
<1> DEFINE d == Drop(m, group)
           copies == MergedCopies(m, group)
           r == MergeGroup(m, group)
<1>0. m.segment_ids \subseteq SegIds /\ group \in SUBSET SegIds
  BY DEF Memory
<1>1. d \in Memory /\ r \in Memory /\ copies \in SUBSET Copies
  BY <1>0, DropType, MergeGroupType, MergedCopiesType
<1>2. /\ d.buffer = m.buffer
      /\ d.buffer_ids = m.buffer_ids
      /\ d.segment_ids = m.segment_ids \ group
      /\ d.tombstones = m.tombstones
      /\ d.owners = m.owners
      /\ d.next_seg_id = m.next_seg_id
      /\ \A s \in SegIds :
           /\ d.segments[s] = IF s \in group THEN {} ELSE m.segments[s]
           /\ d.superseded[s] = IF s \in group THEN {} ELSE m.superseded[s]
  BY <1>0 DEF Drop, Memory
<1>3. /\ \A s \in d.segment_ids : s < d.next_seg_id /\ d.segments[s] # {}
      /\ \A s \in SegIds : s \notin d.segment_ids => d.superseded[s] = {}
      /\ d.buffer_ids = IdsOf(d.buffer)
      /\ d.tombstones \cap d.buffer_ids = {}
  BY <1>0, <1>2 DEF MemInv
<1>4. IF TracksIds
        THEN /\ UniqueIds(d.buffer)
             /\ \A s \in d.segment_ids : UniqueIds(d.segments[s])
             /\ \A s \in d.segment_ids : \A c \in d.segments[s] :
                  \/ c[1] \in d.superseded[s]
                  \/ d.owners[c[1]] = s /\ c[1] \notin IdsOf(copies)
             /\ \A i \in Ids : d.owners[i] # NoSeg /\ i \notin IdsOf(copies) =>
                  /\ d.owners[i] \in d.segment_ids
                  /\ i \in IdsOf(d.segments[d.owners[i]])
                  /\ CopyIsLive(d.tombstones, d.superseded, d.owners[i], i)
                  /\ i \notin d.buffer_ids
        ELSE \A i \in Ids : d.owners[i] = NoSeg
  <2>1. CASE TracksIds
    BY <2>1, DropInv
  <2>2. CASE ~TracksIds
    BY <1>2, <2>2 DEF MemInv
  <2> QED  BY <2>1, <2>2
<1>5. CASE copies = {}
  <2>1. r = d
    BY <1>5 DEF MergeGroup
  <2>2. IdsOf(copies) = {}
    BY <1>5 DEF IdsOf
  <2> HIDE DEF d, copies, r
  <2>3. ASSUME TracksIds
        PROVE  Tracked(d)
    BY <1>4, <2>2, <2>3 DEF Tracked, CopiesOwned, OwnersLive
  <2>4. MemInv(d)
    BY <1>3, <1>4, <2>3 DEF MemInv
  <2> QED  BY <2>1, <2>4 DEF r
<1>6. CASE copies # {}
  <2>1. r = Push(d, copies)
    BY <1>6 DEF MergeGroup
  <2>2. /\ r.segment_ids = d.segment_ids \cup {d.next_seg_id}
        /\ r.segments = [d.segments EXCEPT ![d.next_seg_id] = copies]
        /\ r.owners = OwnersMovedTo(d, copies, d.next_seg_id)
        /\ r.next_seg_id = d.next_seg_id + 1
        /\ r.superseded = d.superseded
        /\ r.tombstones = d.tombstones
        /\ r.buffer = d.buffer
        /\ r.buffer_ids = d.buffer_ids
    <3> HIDE DEF d, copies, r
    <3> QED  BY <1>1, <2>1 DEF Push, Memory
  <2>3. HasRoom(d)
    BY <1>2 DEF HasRoom
  <2>4. r.tombstones \cap IdsOf(copies) = {}
    BY <1>0, <1>2, <2>2, MergedNotDeleted
  <2> HIDE DEF d, copies, r
  <2>5. ASSUME TracksIds
        PROVE  /\ r.buffer_ids \cap IdsOf(copies) = {}
               /\ UniqueIds(copies)
    <3>1. UniqueIds(copies) /\ \A c \in copies : m.owners[c[1]] \in group
      BY <2>5, MergedIds DEF copies
    <3>2. ASSUME NEW i \in IdsOf(copies)
          PROVE  i \notin r.buffer_ids
      <4>1. m.owners[i] \in group /\ i \in Ids
        BY <1>1, <3>1, IdsOfType DEF IdsOf
      <4>2. m.owners[i] # NoSeg
        BY <1>0, <4>1, SegIdsAreSegments
      <4>3. i \notin m.buffer_ids
        BY <2>5, <4>1, <4>2 DEF MemInv, Tracked, OwnersLive
      <4> QED  BY <1>2, <2>2, <4>3
    <3> QED  BY <3>1, <3>2
  <2>6. IF TracksIds
          THEN /\ UniqueIds(r.buffer) /\ UniqueIds(copies)
               /\ r.buffer_ids \cap IdsOf(copies) = {}
               /\ \A s \in d.segment_ids : UniqueIds(d.segments[s])
               /\ \A s \in d.segment_ids : \A c \in d.segments[s] :
                    \/ c[1] \in d.superseded[s]
                    \/ d.owners[c[1]] = s /\ c[1] \notin IdsOf(copies)
               /\ \A i \in Ids : d.owners[i] # NoSeg /\ i \notin IdsOf(copies) =>
                    /\ d.owners[i] \in d.segment_ids
                    /\ i \in IdsOf(d.segments[d.owners[i]])
                    /\ CopyIsLive(d.tombstones, d.superseded, d.owners[i], i)
                    /\ i \notin r.buffer_ids
          ELSE \A i \in Ids : d.owners[i] = NoSeg
    BY <1>4, <2>2, <2>5
  <2>7. /\ r.buffer_ids = IdsOf(r.buffer)
        /\ r.tombstones \cap r.buffer_ids = {}
    BY <1>3, <2>2
  <2>8. d.owners \in [Ids -> SegIds \cup {NoSeg}]
    BY <1>1 DEF Memory
  <2>9. MemInv(r)
    BY <1>1, <1>3, <1>6, <2>2, <2>3, <2>4, <2>6, <2>7, <2>8, PushInv
  <2> QED  BY <2>9 DEF r
<1> QED  BY <1>5, <1>6

\* Burning an id preserves the invariant.
LEMMA BurnIdInv ==
  ASSUME NEW m \in Memory, MemInv(m), HasRoom(m)
  PROVE  MemInv(BurnId(m))
<1> DEFINE r == BurnId(m)
<1>1. /\ r.buffer = m.buffer
      /\ r.buffer_ids = m.buffer_ids
      /\ r.segment_ids = m.segment_ids
      /\ r.segments = m.segments
      /\ r.tombstones = m.tombstones
      /\ r.superseded = m.superseded
      /\ r.owners = m.owners
      /\ r.next_seg_id = m.next_seg_id + 1
  BY DEF BurnId, Memory
<1> HIDE DEF r
<1>2. ASSUME NEW s \in m.segment_ids
      PROVE  s < r.next_seg_id
  <2>1. s \in Int /\ m.next_seg_id \in Int /\ s < m.next_seg_id
    BY DEF MemInv, Memory
  <2> QED  BY <1>1, <2>1
<1>3. Tracked(m) => Tracked(r)
  BY <1>1 DEF Tracked, CopiesOwned, OwnersLive
<1>4. MemInv(r)
  BY <1>1, <1>2, <1>3 DEF MemInv
<1> QED  BY <1>4 DEF r

\* Purging is sound once every sealed copy is its id's live one.
LEMMA PurgedInv ==
  ASSUME NEW m \in Memory, MemInv(m),
         TracksIds => \A s \in m.segment_ids : \A c \in m.segments[s] :
                        m.owners[c[1]] = s
  PROVE  MemInv(Purged(m))
<1> DEFINE r == Purged(m)
<1>0. m.segment_ids \subseteq SegIds /\ m.owners \in [Ids -> SegIds \cup {NoSeg}]
  BY DEF Memory
<1>1. /\ r.buffer = m.buffer
      /\ r.buffer_ids = m.buffer_ids
      /\ r.segment_ids = m.segment_ids
      /\ r.segments = m.segments
      /\ r.tombstones = {}
      /\ \A s \in SegIds : r.superseded[s] = {}
      /\ r.owners = m.owners
      /\ r.next_seg_id = m.next_seg_id
  BY DEF Purged, Memory, NoSupersessions
<1> HIDE DEF r
<1>2. ASSUME TracksIds
      PROVE  Tracked(r)
  <2>1. Tracked(m)
    BY <1>2 DEF MemInv
  <2>2. CopiesOwned(r)
    BY <1>1, <1>2 DEF CopiesOwned
  <2>3. OwnersLive(r)
    BY <1>0, <1>1, <2>1 DEF Tracked, OwnersLive, CopyIsLive
  <2> QED  BY <1>1, <2>1, <2>2, <2>3 DEF Tracked
<1>3. MemInv(r)
  BY <1>1, <1>2 DEF MemInv
<1> QED  BY <1>3 DEF r

\* compact's merge of every segment leaves only live copies.
LEMMA MergeAllOwned ==
  ASSUME NEW m \in Memory, MemInv(m), HasRoom(m), TracksIds
  PROVE  LET r == MergeGroup(m, m.segment_ids) IN
         \A s \in r.segment_ids : \A c \in r.segments[s] : r.owners[c[1]] = s
<1> DEFINE d == Drop(m, m.segment_ids)
           copies == MergedCopies(m, m.segment_ids)
           r == MergeGroup(m, m.segment_ids)
<1>1. m.segment_ids \in SUBSET SegIds /\ d \in Memory /\ copies \in SUBSET Copies
  BY DropType, MergedCopiesType DEF Memory
<1>2. d.segment_ids = {} /\ d.next_seg_id = m.next_seg_id
  BY <1>1, DropFields
<1>3. CASE copies = {}
  BY <1>2, <1>3 DEF MergeGroup
<1>4. CASE copies # {}
  <2>1. r = Push(d, copies)
    BY <1>4 DEF MergeGroup
  <2> HIDE DEF d, copies, r
  <2>2. /\ r.segment_ids = d.segment_ids \cup {d.next_seg_id}
        /\ r.segments = [d.segments EXCEPT ![d.next_seg_id] = copies]
        /\ r.owners = OwnersMovedTo(d, copies, d.next_seg_id)
    BY <1>1, <2>1 DEF Push, Memory
  <2>3. r.segment_ids = {m.next_seg_id} /\ m.next_seg_id \in SegIds
    BY <1>2, <2>2 DEF HasRoom
  <2>4. r.segments[m.next_seg_id] = copies
    BY <1>1, <1>2, <2>2, <2>3 DEF Memory, Payloads
  <2>5. \A c \in copies : c[1] \in Ids /\ c[1] \in IdsOf(copies)
    BY <1>1, IdsOfType DEF IdsOf
  <2>6. \A c \in copies : r.owners[c[1]] = m.next_seg_id
    BY <1>2, <2>2, <2>5 DEF OwnersMovedTo
  <2>7. \A s \in r.segment_ids : \A c \in r.segments[s] : r.owners[c[1]] = s
    BY <2>3, <2>4, <2>6
  <2> QED  BY <2>7 DEF r
<1> QED  BY <1>3, <1>4

\* compact purges without merging only when no copy is dead.
LEMMA NothingDeadOwned ==
  ASSUME NEW m \in Memory, MemInv(m), TracksIds, ~CompactMerges(m)
  PROVE  \A s \in m.segment_ids : \A c \in m.segments[s] : m.owners[c[1]] = s
<1> SUFFICES ASSUME NEW s \in m.segment_ids, NEW c \in m.segments[s]
             PROVE  m.owners[c[1]] = s
  OBVIOUS
<1>1. m.superseded = NoSupersessions /\ s \in SegIds
  BY DEF CompactMerges, HasDead, Memory
<1>2. m.superseded[s] = {}
  BY <1>1 DEF NoSupersessions
<1> QED  BY <1>2 DEF MemInv, Tracked, CopiesOwned

-----------------------------------------------------------------------------
(* Opening.                                                                *)

\* A set of naturals has a least element.
LEMMA LeastElement ==
  ASSUME NEW T \in SUBSET Nat, T # {}
  PROVE  \E x \in T : \A y \in T : x <= y
<1> DEFINE less == {ss \in Nat \X Nat : ss[1] < ss[2]}
<1>1. \A x, y \in Nat : <<x, y>> \in less <=> x < y
  OBVIOUS
<1>2. IsWellFoundedOn(less, Nat)
  BY NatLessThanWellFounded, Zenon DEF OpToRel
<1> HIDE DEF less
<1>3. PICK x \in T : \A y \in T : ~(<<y, x>> \in less)
  BY <1>2, WFMin
<1>4. \A t \in T : t \in Nat
  OBVIOUS
<1>5. ASSUME NEW y \in T
      PROVE  x <= y
  <2>1. x \in Nat /\ y \in Nat /\ ~(y < x)
    BY <1>1, <1>3, <1>4
  <2> QED  BY <2>1
<1> QED  BY <1>5

\* A set of naturals below a bound has a greatest element.
LEMMA GreatestElement ==
  ASSUME NEW n \in Nat, NEW T \in SUBSET (0 .. n), T # {}
  PROVE  \E x \in T : \A y \in T : y <= x
<1> DEFINE flipped == {n - t : t \in T}
<1>0. \A t \in T : t \in 0 .. n
  OBVIOUS
<1>1. flipped \in SUBSET Nat /\ flipped # {}
  <2>1. \A t \in T : n - t \in Nat
    BY <1>0
  <2> QED  BY <2>1
<1> HIDE DEF flipped
<1>2. PICK f \in flipped : \A g \in flipped : f <= g
  BY <1>1, LeastElement
<1>3. PICK x \in T : f = n - x
  BY DEF flipped
<1>4. ASSUME NEW y \in T
      PROVE  y <= x
  <2>1. n - y \in flipped
    BY DEF flipped
  <2> QED  BY <1>0, <1>2, <1>3, <2>1
<1> QED  BY <1>4

\* Of the segments with a live copy of an id, one is the last.
LEMMA OwnerExists ==
  ASSUME NEW c, NEW payloads, NEW i, NEW s \in SegIds, HoldsLive(c, payloads, s, i)
  PROVE  \E t \in SegIds : IsOwner(c, payloads, t, i)
<1> DEFINE holders == {t \in SegIds : HoldsLive(c, payloads, t, i)}
<1>1. holders # {} /\ \A t \in holders : t \in SegIds /\ HoldsLive(c, payloads, t, i)
  OBVIOUS
<1>2. holders \in SUBSET (0 .. MaxSegId)
  BY ConstantsAssumption DEF SegIds
<1>3. \A t \in SegIds : HoldsLive(c, payloads, t, i) => t \in holders
  OBVIOUS
<1> HIDE DEF holders
<1>4. MaxSegId \in Nat
  BY ConstantsAssumption
<1>5. PICK t \in holders : \A u \in holders : u <= t
  BY <1>1, <1>2, <1>4, GreatestElement
<1> QED  BY <1>1, <1>3, <1>5 DEF IsOwner

\* That one is the owner in the memory open makes.
LEMMA LoadOwner ==
  ASSUME NEW c, NEW payloads, TracksIds, NEW i \in Ids,
         NEW s \in SegIds, IsOwner(c, payloads, s, i)
  PROVE  Load(c, payloads).owners[i] = s
<1>1. Load(c, payloads).owners[i] = CHOOSE t \in SegIds : IsOwner(c, payloads, t, i)
  BY DEF Load, MarkedOnOpen
<1>2. PICK t \in SegIds :
        Load(c, payloads).owners[i] = t /\ IsOwner(c, payloads, t, i)
  BY <1>1
<1>3. s <= t /\ t <= s
  BY <1>2 DEF IsOwner
<1> QED  BY <1>2, <1>3 DEF SegIds

\* open finds the writer's invariant where deleted copies are marked: the other
\* copies are of live ids, and of these it marks all but the last.
LEMMA LoadInv ==
  ASSUME NEW c, NEW payloads \in Payloads,
         c.segment_ids \in SUBSET SegIds, c.tombstones \in SUBSET Ids,
         c.superseded \in Supersessions, DiskInv(c, payloads)
  PROVE  MemInv(Load(c, payloads))
<1> DEFINE r == Load(c, payloads)
<1>1. /\ r.buffer = {}
      /\ r.buffer_ids = {}
      /\ r.segment_ids = c.segment_ids
      /\ \A s \in c.segment_ids : r.segments[s] = payloads[s]
      /\ r.tombstones = c.tombstones
      /\ r.superseded = MarkedOnOpen(c, payloads)
      /\ r.next_seg_id = c.next_seg_id
  BY DEF Load, MarkedOnOpen
<1>2. ASSUME TracksIds
      PROVE  Tracked(r)
  <2>1. /\ \A s \in c.segment_ids : UniqueIds(payloads[s])
        /\ DeletedMarked(c, payloads)
    BY <1>2 DEF DiskInv
  <2>2. ASSUME NEW i \in Ids, NEW s \in SegIds
        PROVE  IsOwner(c, payloads, s, i) => r.owners[i] = s
    BY <1>2, LoadOwner
  <2>3. ASSUME NEW i \in Ids, r.owners[i] # NoSeg
        PROVE  r.owners[i] \in SegIds /\ IsOwner(c, payloads, r.owners[i], i)
    <3>1. /\ \E s \in SegIds : IsOwner(c, payloads, s, i)
          /\ r.owners[i] = CHOOSE t \in SegIds : IsOwner(c, payloads, t, i)
      BY <2>3 DEF Load, MarkedOnOpen
    <3> QED  BY <3>1
  <2>4. \A s \in SegIds, i \in Ids :
          i \in MarkedOnOpen(c, payloads)[s] <=>
            \/ i \in c.superseded[s]
            \/ HoldsLive(c, payloads, s, i) /\ ~IsOwner(c, payloads, s, i)
    BY <1>2 DEF MarkedOnOpen
  <2> HIDE DEF r
  <2>5. UniqueIds(r.buffer) /\ \A s \in r.segment_ids : UniqueIds(r.segments[s])
    BY <1>1, <2>1 DEF UniqueIds
  <2>6. CopiesOwned(r)
    <3> SUFFICES ASSUME NEW s \in r.segment_ids, NEW a \in r.segments[s],
                        a[1] \notin r.superseded[s]
                 PROVE  r.owners[a[1]] = s
      BY DEF CopiesOwned
    <3>1. s \in c.segment_ids /\ s \in SegIds /\ a \in payloads[s]
      BY <1>1
    <3>2. a[1] \in Ids /\ a[1] \in IdsOf(payloads[s])
      BY <3>1 DEF Payloads, Copies, IdsOf
    <3>3. /\ a[1] \notin c.superseded[s]
          /\ HoldsLive(c, payloads, s, a[1]) => IsOwner(c, payloads, s, a[1])
      BY <1>1, <2>4, <3>1, <3>2
    <3>4. a[1] \notin c.tombstones
      BY <2>1, <3>1, <3>3 DEF DeletedMarked
    <3>5. HoldsLive(c, payloads, s, a[1])
      BY <3>1, <3>2, <3>3, <3>4 DEF HoldsLive, CopyIsLive
    <3> QED  BY <2>2, <3>1, <3>2, <3>3, <3>5
  <2>7. OwnersLive(r)
    <3> SUFFICES ASSUME NEW i \in Ids, r.owners[i] # NoSeg
                 PROVE  /\ r.owners[i] \in r.segment_ids
                        /\ i \in IdsOf(r.segments[r.owners[i]])
                        /\ CopyIsLive(r.tombstones, r.superseded, r.owners[i], i)
                        /\ i \notin r.buffer_ids
      BY DEF OwnersLive
    <3>1. PICK s \in SegIds : r.owners[i] = s /\ IsOwner(c, payloads, s, i)
      BY <2>3
    <3>2. s \in c.segment_ids /\ i \in IdsOf(payloads[s]) /\ i \notin c.tombstones
          /\ i \notin r.superseded[s]
      BY <1>1, <2>4, <3>1 DEF IsOwner, HoldsLive, CopyIsLive
    <3> QED  BY <1>1, <3>1, <3>2 DEF CopyIsLive
  <2> QED  BY <2>5, <2>6, <2>7 DEF Tracked
<1>3. ASSUME ~TracksIds, NEW i \in Ids
      PROVE  r.owners[i] = NoSeg
  BY <1>3 DEF Load, MarkedOnOpen
<1>4. \A s \in SegIds : s \notin r.segment_ids => r.superseded[s] = {}
  BY DEF Load, MarkedOnOpen, DiskInv, HoldsLive
<1>5. \A s \in r.segment_ids : s < r.next_seg_id /\ r.segments[s] # {}
  BY <1>1 DEF DiskInv
<1> HIDE DEF r
<1>6. r.buffer_ids = IdsOf(r.buffer) /\ r.tombstones \cap r.buffer_ids = {}
  BY <1>1 DEF IdsOf
<1>7. MemInv(r)
  BY <1>2, <1>3, <1>4, <1>5, <1>6 DEF MemInv
<1> QED  BY <1>7 DEF r

\* A manifest written from a memory whose segments are in their files.
LEMMA DiskInvFromMemory ==
  ASSUME NEW m \in Memory, MemInv(m), NEW c, NEW payloads \in Payloads,
         c.segment_ids = m.segment_ids, c.next_seg_id = m.next_seg_id,
         c.tombstones = m.tombstones, c.superseded = m.superseded,
         \A s \in m.segment_ids : payloads[s] = m.segments[s]
  PROVE  DiskInv(c, payloads) /\ CopiesMarked(c, payloads)
<1>1. \A s \in c.segment_ids : s < c.next_seg_id /\ payloads[s] # {}
  BY DEF MemInv
<1>2. \A s \in SegIds : s \notin c.segment_ids => c.superseded[s] = {}
  BY DEF MemInv
<1>3. ASSUME TracksIds
      PROVE  /\ \A s \in c.segment_ids : UniqueIds(payloads[s])
             /\ DeletedMarked(c, payloads)
             /\ CopiesMarked(c, payloads)
  <2>1. Tracked(m)
    BY <1>3 DEF MemInv
  <2>2. ASSUME NEW s \in c.segment_ids, NEW a \in payloads[s],
               a[1] \notin c.superseded[s]
        PROVE  /\ m.owners[a[1]] = s
               /\ a[1] \notin c.tombstones
    <3>1. s \in SegIds /\ a \in m.segments[s] /\ a[1] \in Ids
      BY SegmentType DEF Memory
    <3>2. m.owners[a[1]] = s /\ s # NoSeg
      BY <2>1, <2>2, <3>1, SegIdsAreSegments DEF Tracked, CopiesOwned
    <3> QED  BY <2>1, <3>1, <3>2 DEF Tracked, OwnersLive, CopyIsLive
  <2>3. DeletedMarked(c, payloads)
    BY <2>2 DEF DeletedMarked
  <2>4. ASSUME NEW s \in c.segment_ids, NEW t \in c.segment_ids,
               NEW i \in IdsOf(payloads[s]) \cap IdsOf(payloads[t]), s # t
        PROVE  i \in c.superseded[s] \cup c.superseded[t]
    <3>1. PICK a \in payloads[s], b \in payloads[t] : a[1] = i /\ b[1] = i
      BY DEF IdsOf
    <3> QED  BY <2>2, <2>4, <3>1
  <2> QED  BY <2>1, <2>3, <2>4 DEF Tracked, CopiesMarked
<1> QED  BY <1>1, <1>2, <1>3 DEF DiskInv, CopiesMarked

\* Both only depend on the files the manifest names.
LEMMA DiskInvKept ==
  ASSUME NEW c, NEW p, NEW q, DiskInv(c, p),
         c.segment_ids \in SUBSET SegIds,
         \A s \in c.segment_ids : q[s] = p[s]
  PROVE  DiskInv(c, q)
BY DEF DiskInv, DeletedMarked

LEMMA CopiesMarkedKept ==
  ASSUME NEW c, NEW p, NEW q, CopiesMarked(c, p),
         \A s \in c.segment_ids : q[s] = p[s]
  PROVE  CopiesMarked(c, q)
BY DEF CopiesMarked

\* open succeeds under DiskInv.
LEMMA DiskInvCanLoad ==
  ASSUME NEW c, NEW payloads, DiskInv(c, payloads)
  PROVE  CanLoad(c, payloads)
BY DEF DiskInv, CanLoad, UniqueIds

-----------------------------------------------------------------------------
(* The log.                                                                *)

\* No record: the map is as it was.
LEMMA AfterStart ==
  ASSUME NEW base, NEW log, NEW i
  PROVE  After(base, log, 0, i) = base
<1>1. Touching(log, 0, i) = {}
  BY DEF Touching
<1> QED  BY <1>1 DEF After

\* What a record leaves of the items of an id.
Overwritten(items, op, i) == IF op.id = i THEN {op.item} \ {Deleted} ELSE items

\* One record more: the last record about an id decides.
LEMMA AfterNext ==
  ASSUME NEW base, NEW log, NEW n \in Nat, NEW i
  PROVE  After(base, log, n + 1, i) =
           Overwritten(After(base, log, n, i), log[n + 1], i)
<1>1. Touching(log, n + 1, i) =
        Touching(log, n, i) \cup (IF log[n + 1].id = i THEN {n + 1} ELSE {})
  BY DEF Touching
<1>2. CASE log[n + 1].id = i
  <2> DEFINE last == CHOOSE k \in Touching(log, n + 1, i) :
                       \A j \in Touching(log, n + 1, i) : j <= k
  <2>1. n + 1 \in Touching(log, n + 1, i)
    BY <1>1, <1>2
  <2>2. \A j \in Touching(log, n + 1, i) : j \in Int /\ j <= n + 1
    BY DEF Touching
  <2>3. \E k \in Touching(log, n + 1, i) :
          \A j \in Touching(log, n + 1, i) : j <= k
    BY <2>1, <2>2
  <2>4. /\ last \in Touching(log, n + 1, i)
        /\ \A j \in Touching(log, n + 1, i) : j <= last
    BY <2>3
  <2>5. n + 1 <= last /\ last <= n + 1 /\ last \in Int
    BY <2>1, <2>2, <2>4
  <2> HIDE DEF last
  <2>6. last = n + 1
    BY <2>5
  <2>7. After(base, log, n + 1, i) = {log[last].item} \ {Deleted}
    BY <2>1 DEF After, last
  <2> QED  BY <1>2, <2>6, <2>7 DEF Overwritten
<1>3. CASE log[n + 1].id # i
  <2>1. After(base, log, n + 1, i) = After(base, log, n, i)
    BY <1>1, <1>3 DEF After
  <2> QED  BY <1>3, <2>1 DEF Overwritten
<1> QED  BY <1>2, <1>3

\* Only the records counted matter.
LEMMA AfterPrefix ==
  ASSUME NEW base, NEW log, NEW longer, NEW n \in Nat, NEW i,
         \A k \in 1 .. n : longer[k] = log[k]
  PROVE  After(base, longer, n, i) = After(base, log, n, i)
<1>1. Touching(longer, n, i) = Touching(log, n, i)
  BY DEF Touching
<1>2. CASE Touching(log, n, i) = {}
  BY <1>1, <1>2 DEF After
<1>3. CASE Touching(log, n, i) # {}
  <2> DEFINE last == CHOOSE k \in Touching(log, n, i) :
                       \A j \in Touching(log, n, i) : j <= k
  <2>1. /\ After(base, longer, n, i) = {longer[last].item} \ {Deleted}
        /\ After(base, log, n, i) = {log[last].item} \ {Deleted}
    BY <1>1, <1>3 DEF After
  <2>2. last \in 1 .. n
    <3>1. Touching(log, n, i) \in SUBSET (1 .. n)
      BY DEF Touching
    <3>2. Touching(log, n, i) \in SUBSET (0 .. n)
      BY <3>1
    <3>3. \E k \in Touching(log, n, i) :
            \A j \in Touching(log, n, i) : j <= k
      BY <1>3, <3>2, GreatestElement
    <3>4. last \in Touching(log, n, i)
      BY <3>3
    <3> QED  BY <3>1, <3>4
  <2> QED  BY <2>1, <2>2
<1> QED  BY <1>2, <1>3

\* A record appended.
LEMMA AfterAppend ==
  ASSUME NEW base, NEW log \in Seq(Ops), NEW op \in Ops, NEW i
  PROVE  /\ After(base, Append(log, op), Len(log) + 1, i) =
              Overwritten(After(base, log, Len(log), i), op, i)
         /\ \A n \in 0 .. Len(log) :
              After(base, Append(log, op), n, i) = After(base, log, n, i)
<1>1. PICK longer : longer = Append(log, op)
  OBVIOUS
<1>2. PICK n \in Nat : n = Len(log)
  OBVIOUS
<1>3. longer[n + 1] = op /\ \A k \in 1 .. n : longer[k] = log[k]
  BY <1>1, <1>2
<1>4. ASSUME NEW k \in 0 .. n
      PROVE  After(base, longer, k, i) = After(base, log, k, i)
  <2>1. k \in Nat /\ \A j \in 1 .. k : longer[j] = log[j]
    BY <1>3
  <2> QED  BY <2>1, AfterPrefix
<1>5. After(base, longer, n + 1, i) =
        Overwritten(After(base, longer, n, i), longer[n + 1], i)
  BY AfterNext
<1>6. After(base, longer, n + 1, i) = Overwritten(After(base, log, n, i), op, i)
  BY <1>3, <1>4, <1>5
<1> QED  BY <1>1, <1>2, <1>4, <1>6

-----------------------------------------------------------------------------
(* What is read.                                                           *)

\* What a catalog leaves live depends on its marks and the files it names.
LEMMA LiveItemsSame ==
  ASSUME NEW c, NEW d, NEW p, NEW q, NEW i,
         d.segment_ids = c.segment_ids, d.tombstones = c.tombstones,
         \A s \in c.segment_ids :
           d.superseded[s] = c.superseded[s] /\ q[s] = p[s]
  PROVE  LiveItems(d, q, i) = LiveItems(c, p, i)
BY DEF LiveItems, CopyIsLive

\* The fields apply sets.
LEMMA ApplyFields ==
  ASSUME NEW m \in Memory, NEW op \in Ops, MemInv(m)
  PROVE  LET r == Apply(m, op) IN
         /\ r.segment_ids = m.segment_ids
         /\ r.segments = m.segments
         /\ r.tombstones = IF op.item = Deleted THEN m.tombstones \cup {op.id}
                                                ELSE m.tombstones \ {op.id}
         /\ r.buffer = Without(m.buffer, op.id) \cup
                         (IF op.item = Deleted THEN {} ELSE {<<op.id, op.item>>})
         /\ \A s \in SegIds :
              r.superseded[s] = m.superseded[s] \cup
                                (IF s = m.owners[op.id] THEN {op.id} ELSE {})
<1> DEFINE n == SupersedeSealedCopy(m, op.id)
<1>1. op.id \in Ids
  BY DEF Ops
<1>2. n \in Memory
  BY <1>1, SupersedeType
<1>3. /\ n.segment_ids = m.segment_ids
      /\ n.segments = m.segments
      /\ n.tombstones = m.tombstones
      /\ \A s \in SegIds :
           n.superseded[s] = m.superseded[s] \cup
                             (IF s = m.owners[op.id] THEN {op.id} ELSE {})
  BY <1>1, SupersedeFields
<1>4. Unbuffer(m, op.id) = Without(m.buffer, op.id)
  BY <1>1, UnbufferIds DEF MemInv
<1>5. /\ ApplyDelete(m, op.id).segment_ids = n.segment_ids
      /\ ApplyDelete(m, op.id).segments = n.segments
      /\ ApplyDelete(m, op.id).tombstones = n.tombstones \cup {op.id}
      /\ ApplyDelete(m, op.id).buffer = Unbuffer(m, op.id)
      /\ ApplyDelete(m, op.id).superseded = n.superseded
  BY <1>2 DEF ApplyDelete, Memory
<1>6. /\ ApplyAdd(m, op.id, op.item).segment_ids = n.segment_ids
      /\ ApplyAdd(m, op.id, op.item).segments = n.segments
      /\ ApplyAdd(m, op.id, op.item).tombstones = n.tombstones \ {op.id}
      /\ ApplyAdd(m, op.id, op.item).buffer =
           Unbuffer(m, op.id) \cup {<<op.id, op.item>>}
      /\ ApplyAdd(m, op.id, op.item).superseded = n.superseded
  BY <1>2 DEF ApplyAdd, Memory
<1> HIDE DEF n
<1>7. CASE op.item = Deleted
  BY <1>3, <1>4, <1>5, <1>7 DEF Apply
<1>8. CASE op.item # Deleted
  BY <1>3, <1>4, <1>6, <1>8 DEF Apply
<1> QED  BY <1>7, <1>8

\* apply: its id reads as the record says, and no other id reads otherwise than
\* before.  A store that lists no ids does not find the sealed copy that an add
\* replaces, so there must be none.
LEMMA ApplyReads ==
  ASSUME NEW m \in Memory, NEW op \in Ops, MemInv(m), NEW i \in Ids,
         \/ TracksIds \/ op.item = Deleted \/ i # op.id
         \/ \A s \in m.segment_ids : op.id \notin IdsOf(m.segments[s])
  PROVE  Reads(Apply(m, op), i) =
           IF op.id = i THEN {op.item} \ {Deleted} ELSE Reads(m, i)
<1> DEFINE r == Apply(m, op)
<1>0. /\ op.id \in Ids /\ op.item \in Items \cup {Deleted}
      /\ m.segment_ids \subseteq SegIds /\ m.buffer \subseteq Copies
  BY DEF Ops, Memory
<1>1. /\ r.segment_ids = m.segment_ids
      /\ r.segments = m.segments
      /\ r.tombstones = IF op.item = Deleted THEN m.tombstones \cup {op.id}
                                             ELSE m.tombstones \ {op.id}
      /\ r.buffer = Without(m.buffer, op.id) \cup
                      (IF op.item = Deleted THEN {} ELSE {<<op.id, op.item>>})
      /\ \A s \in SegIds :
           r.superseded[s] = m.superseded[s] \cup
                             (IF s = m.owners[op.id] THEN {op.id} ELSE {})
  BY ApplyFields
<1> HIDE DEF r
<1>2. CASE op.id # i
  <2>1. \A s \in m.segment_ids :
          CopyIsLive(r.tombstones, r.superseded, s, i)
            <=> CopyIsLive(m.tombstones, m.superseded, s, i)
    BY <1>0, <1>1, <1>2 DEF CopyIsLive
  <2>2. LiveItems(r, r.segments, i) = LiveItems(m, m.segments, i)
    BY <1>1, <2>1 DEF LiveItems
  <2>3. \A v : <<i, v>> \in r.buffer <=> <<i, v>> \in m.buffer
    BY <1>1, <1>2 DEF Without
  <2>4. Reads(r, i) = Reads(m, i)
    BY <2>2, <2>3 DEF Reads
  <2> QED  BY <1>2, <2>4 DEF r
<1>3. CASE op.id = i
  <2>1. LiveItems(r, r.segments, i) = {}
    <3> SUFFICES ASSUME NEW s \in m.segment_ids, NEW v \in Items,
                        <<i, v>> \in m.segments[s]
                 PROVE  ~CopyIsLive(r.tombstones, r.superseded, s, i)
      BY <1>1 DEF LiveItems
    <3>1. CASE op.item = Deleted
      BY <1>1, <1>3, <3>1 DEF CopyIsLive
    <3>2. CASE TracksIds
      <4>1. <<i, v>>[1] \in m.superseded[s] \/ m.owners[<<i, v>>[1]] = s
        BY <3>2 DEF MemInv, Tracked, CopiesOwned
      <4>2. i \in m.superseded[s] \/ m.owners[i] = s
        BY <4>1
      <4>3. i \in r.superseded[s]
        BY <1>0, <1>1, <1>3, <4>2
      <4> QED  BY <4>3 DEF CopyIsLive
    <3>3. CASE \A t \in m.segment_ids : op.id \notin IdsOf(m.segments[t])
      BY <1>3, <3>3 DEF IdsOf
    <3> QED  BY <1>3, <3>1, <3>2, <3>3
  <2>2. \A v : <<i, v>> \in r.buffer <=> op.item # Deleted /\ v = op.item
    BY <1>1, <1>3 DEF Without
  <2>3. Reads(r, i) = {v \in Items : op.item # Deleted /\ v = op.item}
    BY <2>1, <2>2 DEF Reads
  <2>4. Reads(r, i) = {op.item} \ {Deleted}
    BY <1>0, <2>3, ConstantsAssumption
  <2> QED  BY <1>3, <2>4 DEF r
<1> QED  BY <1>2, <1>3

\* A pushed segment adds its copies to what is live, when no mark is on them.
LEMMA PushLive ==
  ASSUME NEW m \in Memory, NEW copies \in SUBSET Copies, HasRoom(m),
         \A s \in m.segment_ids : s < m.next_seg_id,
         m.superseded[m.next_seg_id] = {},
         m.tombstones \cap IdsOf(copies) = {}, NEW i \in Ids
  PROVE  LiveItems(Push(m, copies), Push(m, copies).segments, i) =
           LiveItems(m, m.segments, i) \cup {v \in Items : <<i, v>> \in copies}
<1> DEFINE r == Push(m, copies)
           k == m.next_seg_id
<1>1. /\ r.segment_ids = m.segment_ids \cup {k}
      /\ r.segments = [m.segments EXCEPT ![k] = copies]
      /\ r.tombstones = m.tombstones
      /\ r.superseded = m.superseded
  BY DEF Push, Memory
<1>2. /\ k \in SegIds /\ m.segment_ids \subseteq SegIds
      /\ m.segments \in [SegIds -> SUBSET Copies]
      /\ \A s \in m.segment_ids : s # k
  BY DEF HasRoom, Memory, Payloads
<1> HIDE DEF r, k
<1>3. r.segments[k] = copies /\ \A s \in m.segment_ids : r.segments[s] = m.segments[s]
  BY <1>1, <1>2
<1>4. ASSUME NEW v \in Items, <<i, v>> \in copies
      PROVE  CopyIsLive(r.tombstones, r.superseded, k, i)
  <2>1. i \in IdsOf(copies)
    BY <1>4 DEF IdsOf
  <2> QED  BY <1>1, <2>1 DEF CopyIsLive, k
<1>5. LiveItems(r, r.segments, i) =
        LiveItems(m, m.segments, i) \cup {v \in Items : <<i, v>> \in copies}
  BY <1>1, <1>3, <1>4 DEF LiveItems
<1> QED  BY <1>5 DEF r

\* Sealing the buffer changes nothing that is read.
LEMMA FlushReads ==
  ASSUME NEW m \in Memory, MemInv(m), m.buffer = {} \/ HasRoom(m), NEW i \in Ids
  PROVE  Reads(FlushBuffer(m), i) = Reads(m, i)
<1>1. CASE m.buffer = {}
  BY <1>1 DEF FlushBuffer
<1>2. CASE m.buffer # {}
  <2> DEFINE p == Push(m, m.buffer)
             r == FlushBuffer(m)
  <2>1. m.buffer \in SUBSET Copies /\ p \in Memory
    BY <1>2, PushType DEF Memory
  <2>2. /\ r.segment_ids = p.segment_ids /\ r.segments = p.segments
        /\ r.tombstones = p.tombstones /\ r.superseded = p.superseded
        /\ r.buffer = {}
    BY <1>2, <2>1 DEF FlushBuffer, Memory
  <2>3. /\ \A s \in m.segment_ids : s < m.next_seg_id
        /\ m.tombstones \cap IdsOf(m.buffer) = {}
        /\ m.next_seg_id \notin m.segment_ids
    BY DEF MemInv, Memory
  <2>4. m.superseded[m.next_seg_id] = {}
    BY <1>2, <2>3 DEF MemInv, HasRoom
  <2>5. LiveItems(p, p.segments, i) =
          LiveItems(m, m.segments, i) \cup {v \in Items : <<i, v>> \in m.buffer}
    BY <1>2, <2>1, <2>3, <2>4, PushLive
  <2> HIDE DEF p, r
  <2>6. LiveItems(r, r.segments, i) = LiveItems(p, p.segments, i)
    BY <2>2, LiveItemsSame
  <2>7. Reads(r, i) = Reads(m, i)
    BY <2>2, <2>5, <2>6 DEF Reads
  <2> QED  BY <2>7 DEF r
<1> QED  BY <1>1, <1>2

\* Without a merge's inputs, and with the copies that it keeps, the same is live.
LEMMA DropLive ==
  ASSUME NEW m \in Memory, NEW group \in SUBSET m.segment_ids, NEW i \in Ids
  PROVE  LiveItems(m, m.segments, i) =
           LiveItems(Drop(m, group), Drop(m, group).segments, i)
             \cup {v \in Items : <<i, v>> \in MergedCopies(m, group)}
<1> DEFINE d == Drop(m, group)
<1>0. group \in SUBSET SegIds /\ m.segment_ids \subseteq SegIds
  BY DEF Memory
<1>1. /\ d.segment_ids = m.segment_ids \ group
      /\ d.tombstones = m.tombstones
      /\ \A s \in SegIds :
           /\ d.segments[s] = IF s \in group THEN {} ELSE m.segments[s]
           /\ d.superseded[s] = IF s \in group THEN {} ELSE m.superseded[s]
  BY <1>0, DropFields
<1> HIDE DEF d
<1>2. ASSUME NEW v
      PROVE  <<i, v>> \in MergedCopies(m, group) <=>
               \E s \in group : /\ <<i, v>> \in m.segments[s]
                                /\ CopyIsLive(m.tombstones, m.superseded, s, i)
  BY DEF MergedCopies, LiveCopies
<1>3. ASSUME NEW s \in m.segment_ids, s \notin group
      PROVE  /\ d.segments[s] = m.segments[s]
             /\ CopyIsLive(d.tombstones, d.superseded, s, i)
                  <=> CopyIsLive(m.tombstones, m.superseded, s, i)
  BY <1>0, <1>1, <1>3 DEF CopyIsLive
<1>4. LiveItems(m, m.segments, i) =
        LiveItems(d, d.segments, i)
          \cup {v \in Items : <<i, v>> \in MergedCopies(m, group)}
  BY <1>1, <1>2, <1>3 DEF LiveItems
<1> QED  BY <1>4 DEF d

\* A merge changes nothing that is read.
LEMMA MergeReads ==
  ASSUME NEW m \in Memory, MemInv(m), HasRoom(m),
         NEW group \in SUBSET m.segment_ids, NEW i \in Ids
  PROVE  Reads(MergeGroup(m, group), i) = Reads(m, i)
<1> DEFINE d == Drop(m, group)
           copies == MergedCopies(m, group)
           r == MergeGroup(m, group)
<1>0. group \in SUBSET SegIds
  BY DEF Memory
<1>1. d \in Memory /\ copies \in SUBSET Copies
  BY <1>0, DropType, MergedCopiesType
<1>2. /\ d.buffer = m.buffer
      /\ d.segment_ids = m.segment_ids \ group
      /\ d.tombstones = m.tombstones
      /\ d.next_seg_id = m.next_seg_id
      /\ \A s \in SegIds :
           d.superseded[s] = IF s \in group THEN {} ELSE m.superseded[s]
  BY <1>0, DropFields
<1>3. LiveItems(m, m.segments, i) =
        LiveItems(d, d.segments, i) \cup {v \in Items : <<i, v>> \in copies}
  BY DropLive
<1>4. m.tombstones \cap IdsOf(copies) = {}
  BY <1>0, MergedNotDeleted
<1>5. CASE copies = {}
  <2>1. r = d
    BY <1>5 DEF MergeGroup
  <2> QED  BY <1>2, <1>3, <1>5, <2>1 DEF Reads
<1>6. CASE copies # {}
  <2>1. r = Push(d, copies)
    BY <1>6 DEF MergeGroup
  <2> HIDE DEF d, copies, r
  <2>2. r.buffer = d.buffer
    BY <1>1, <2>1 DEF Push, Memory
  <2>3. /\ HasRoom(d)
        /\ \A s \in d.segment_ids : s < d.next_seg_id
        /\ d.superseded[d.next_seg_id] = {}
    <3>1. m.next_seg_id \in SegIds /\ m.next_seg_id \in Int
      BY DEF HasRoom
    <3>2. \A s \in m.segment_ids : s < m.next_seg_id
      BY DEF MemInv
    <3>3. m.next_seg_id \notin m.segment_ids
      BY <3>1, <3>2
    <3> QED  BY <1>2, <3>1, <3>2, <3>3 DEF HasRoom, MemInv
  <2>4. LiveItems(r, r.segments, i) =
          LiveItems(d, d.segments, i) \cup {v \in Items : <<i, v>> \in copies}
    BY <1>1, <1>2, <1>4, <2>1, <2>3, PushLive
  <2>5. Reads(r, i) = Reads(m, i)
    BY <1>2, <1>3, <2>2, <2>4 DEF Reads
  <2> QED  BY <2>5 DEF r
<1> QED  BY <1>5, <1>6

\* Every sealed copy of m is live.
AllLive(m) ==
  \A s \in m.segment_ids : \A c \in m.segments[s] :
    CopyIsLive(m.tombstones, m.superseded, s, c[1])

\* Purging the marks changes nothing that is read when no copy is dead.
LEMMA PurgedReads ==
  ASSUME NEW m \in Memory, AllLive(m), NEW i \in Ids
  PROVE  Reads(Purged(m), i) = Reads(m, i)
<1> DEFINE r == Purged(m)
<1>1. /\ r.buffer = m.buffer
      /\ r.segment_ids = m.segment_ids
      /\ r.segments = m.segments
      /\ r.tombstones = {}
      /\ \A s \in SegIds : r.superseded[s] = {}
      /\ m.segment_ids \subseteq SegIds
  BY DEF Purged, Memory, NoSupersessions
<1> HIDE DEF r
<1>2. ASSUME NEW s \in m.segment_ids, NEW v, <<i, v>> \in m.segments[s]
      PROVE  /\ CopyIsLive(m.tombstones, m.superseded, s, i)
             /\ CopyIsLive(r.tombstones, r.superseded, s, i)
  <2>1. CopyIsLive(m.tombstones, m.superseded, s, <<i, v>>[1])
    BY <1>2 DEF AllLive
  <2> QED  BY <1>1, <2>1 DEF CopyIsLive
<1>3. LiveItems(r, r.segments, i) = LiveItems(m, m.segments, i)
  BY <1>1, <1>2 DEF LiveItems
<1>4. Reads(r, i) = Reads(m, i)
  BY <1>1, <1>3 DEF Reads
<1> QED  BY <1>4 DEF r

\* compact's merge of every segment leaves live copies only.
LEMMA MergeAllLive ==
  ASSUME NEW m \in Memory, MemInv(m), HasRoom(m)
  PROVE  AllLive(MergeGroup(m, m.segment_ids))
<1> DEFINE d == Drop(m, m.segment_ids)
           copies == MergedCopies(m, m.segment_ids)
           r == MergeGroup(m, m.segment_ids)
<1>1. m.segment_ids \in SUBSET SegIds /\ d \in Memory /\ copies \in SUBSET Copies
  BY DropType, MergedCopiesType DEF Memory
<1>2. /\ d.segment_ids = {} /\ d.next_seg_id = m.next_seg_id
      /\ d.tombstones = m.tombstones
      /\ \A s \in SegIds :
           d.superseded[s] = IF s \in m.segment_ids THEN {} ELSE m.superseded[s]
  BY <1>1, DropFields
<1>3. m.tombstones \cap IdsOf(copies) = {}
  BY <1>1, MergedNotDeleted
<1>4. CASE copies = {}
  BY <1>2, <1>4 DEF MergeGroup, AllLive
<1>5. CASE copies # {}
  <2>1. r = Push(d, copies)
    BY <1>5 DEF MergeGroup
  <2> HIDE DEF d, copies, r
  <2>2. /\ r.segment_ids = d.segment_ids \cup {d.next_seg_id}
        /\ r.segments = [d.segments EXCEPT ![d.next_seg_id] = copies]
        /\ r.tombstones = d.tombstones
        /\ r.superseded = d.superseded
    BY <1>1, <2>1 DEF Push, Memory
  <2>3. /\ r.segment_ids = {m.next_seg_id} /\ m.next_seg_id \in SegIds
        /\ r.segments[m.next_seg_id] = copies
    BY <1>1, <1>2, <2>2 DEF HasRoom, Memory, Payloads
  <2>4. r.superseded[m.next_seg_id] = {}
    BY <1>2, <2>2, <2>3 DEF MemInv
  <2>5. \A c \in copies : c[1] \notin r.tombstones
    BY <1>2, <1>3, <2>2 DEF IdsOf
  <2>6. AllLive(r)
    BY <2>3, <2>4, <2>5 DEF AllLive, CopyIsLive
  <2> QED  BY <2>6 DEF r
<1> QED  BY <1>4, <1>5

\* compact purges without a merge only when no copy is dead.
LEMMA NothingDeadLive ==
  ASSUME NEW m \in Memory, ~CompactMerges(m)
  PROVE  AllLive(m)
<1> SUFFICES ASSUME NEW s \in m.segment_ids, NEW c \in m.segments[s]
             PROVE  CopyIsLive(m.tombstones, m.superseded, s, c[1])
  BY DEF AllLive
<1>1. m.tombstones = {} /\ m.superseded = NoSupersessions /\ s \in SegIds
  BY DEF CompactMerges, HasDead, Memory
<1> QED  BY <1>1 DEF CopyIsLive, NoSupersessions

\* The memory open makes reads the owner's copy of each id.
LEMMA LoadReads ==
  ASSUME NEW c, NEW payloads \in Payloads, c.segment_ids \in SUBSET SegIds,
         NEW i \in Ids
  PROVE  Reads(Load(c, payloads), i) = ReadsOnOpen(c, payloads, i)
<1> DEFINE r == Load(c, payloads)
           Read(s) == IF TracksIds THEN IsOwner(c, payloads, s, i)
                                   ELSE CopyIsLive(c.tombstones, c.superseded, s, i)
<1>1. /\ r.buffer = {}
      /\ r.segment_ids = c.segment_ids
      /\ r.tombstones = c.tombstones
      /\ \A s \in c.segment_ids : /\ r.superseded[s] = MarkedOnOpen(c, payloads)[s]
                                  /\ r.segments[s] = payloads[s]
  BY DEF Load
<1> HIDE DEF r
<1>2. ASSUME NEW s \in c.segment_ids, NEW v, <<i, v>> \in payloads[s]
      PROVE  CopyIsLive(r.tombstones, r.superseded, s, i) <=> Read(s)
  <2>1. i \in IdsOf(payloads[s]) /\ s \in SegIds
    BY <1>2 DEF IdsOf
  <2>2. HoldsLive(c, payloads, s, i) <=>
          i \notin c.tombstones /\ i \notin c.superseded[s]
    BY <2>1 DEF HoldsLive, CopyIsLive
  <2>3. IsOwner(c, payloads, s, i) => HoldsLive(c, payloads, s, i)
    BY DEF IsOwner
  <2>4. i \in r.superseded[s] <=>
          \/ i \in c.superseded[s]
          \/ TracksIds /\ HoldsLive(c, payloads, s, i) /\ ~IsOwner(c, payloads, s, i)
    BY <1>1, <2>1 DEF MarkedOnOpen
  <2> QED  BY <1>1, <2>2, <2>3, <2>4 DEF CopyIsLive
<1>3. LiveItems(r, r.segments, i) = ReadsOnOpen(c, payloads, i)
  BY <1>1, <1>2 DEF LiveItems, ReadsOnOpen
<1>4. Reads(r, i) = ReadsOnOpen(c, payloads, i)
  BY <1>1, <1>3 DEF Reads
<1> QED  BY <1>4 DEF r

\* Where older copies are marked, that is the copy the manifest leaves live.
LEMMA MarkedReads ==
  ASSUME NEW c, NEW payloads \in Payloads, CopiesMarked(c, payloads),
         c.segment_ids \in SUBSET SegIds, NEW i
  PROVE  ReadsOnOpen(c, payloads, i) = LiveItems(c, payloads, i)
<1>1. CASE ~TracksIds
  BY <1>1 DEF ReadsOnOpen, LiveItems
<1>2. CASE TracksIds
  <2>1. ASSUME NEW s \in c.segment_ids, i \in IdsOf(payloads[s])
        PROVE  IsOwner(c, payloads, s, i) <=>
                 CopyIsLive(c.tombstones, c.superseded, s, i)
    <3>1. s \in SegIds /\ s <= s
      OBVIOUS
    <3>2. HoldsLive(c, payloads, s, i) <=>
            CopyIsLive(c.tombstones, c.superseded, s, i)
      BY <2>1 DEF HoldsLive
    <3>3. ASSUME HoldsLive(c, payloads, s, i),
                 NEW t \in SegIds, HoldsLive(c, payloads, t, i)
          PROVE  t = s
      BY <1>2, <2>1, <3>3 DEF CopiesMarked, HoldsLive, CopyIsLive
    <3> QED  BY <3>1, <3>2, <3>3 DEF IsOwner
  <2>2. \A s, v : <<i, v>> \in payloads[s] => i \in IdsOf(payloads[s])
    BY DEF IdsOf
  <2> QED  BY <1>2, <2>1, <2>2 DEF ReadsOnOpen, LiveItems
<1> QED  BY <1>1, <1>2

\* What is read on open only depends on the files the manifest names.
LEMMA ReadsOnOpenSame ==
  ASSUME NEW c, NEW p, NEW q, \A s \in c.segment_ids : q[s] = p[s], NEW i
  PROVE  ReadsOnOpen(c, q, i) = ReadsOnOpen(c, p, i)
<1>1. \A s, x : HoldsLive(c, q, s, x) <=> HoldsLive(c, p, s, x)
  BY DEF HoldsLive
<1>2. \A s, x : IsOwner(c, q, s, x) <=> IsOwner(c, p, s, x)
  BY <1>1 DEF IsOwner
<1> QED  BY <1>2 DEF ReadsOnOpen

\* Without segments nothing is.
LEMMA NothingOnOpen ==
  ASSUME NEW c, c.segment_ids = {}, NEW payloads, NEW i
  PROVE  ReadsOnOpen(c, payloads, i) = {}
BY DEF ReadsOnOpen

-----------------------------------------------------------------------------
(* Growth.                                                                 *)

\* n comes from m by operations that only add segments with fresh ids.
Grown(m, n) ==
  /\ m.next_seg_id <= n.next_seg_id
  /\ \A s \in n.segment_ids :
       \/ s \in m.segment_ids /\ n.segments[s] = m.segments[s]
       \/ m.next_seg_id <= s

-----------------------------------------------------------------------------
(* How the operations on memory grow it.                                   *)

\* apply touches neither the segments nor the id source.
LEMMA ApplyGrows ==
  ASSUME NEW m \in Memory, NEW op \in Ops
  PROVE  /\ Apply(m, op).next_seg_id = m.next_seg_id
         /\ Apply(m, op).segment_ids = m.segment_ids
         /\ Apply(m, op).segments = m.segments
<1>1. op.id \in Ids
  BY DEF Ops
<1> DEFINE n == SupersedeSealedCopy(m, op.id)
<1>2. /\ n \in Memory
      /\ n.segment_ids = m.segment_ids
      /\ n.segments = m.segments
      /\ n.next_seg_id = m.next_seg_id
  BY <1>1, SupersedeType, SupersedeFields
<1> HIDE DEF n
<1>3. /\ ApplyDelete(m, op.id).next_seg_id = n.next_seg_id
      /\ ApplyDelete(m, op.id).segment_ids = n.segment_ids
      /\ ApplyDelete(m, op.id).segments = n.segments
  BY <1>2 DEF ApplyDelete, Memory, n
<1>4. /\ ApplyAdd(m, op.id, op.item).next_seg_id = n.next_seg_id
      /\ ApplyAdd(m, op.id, op.item).segment_ids = n.segment_ids
      /\ ApplyAdd(m, op.id, op.item).segments = n.segments
  BY <1>2 DEF ApplyAdd, Memory, n
<1> QED  BY <1>2, <1>3, <1>4 DEF Apply

\* The fields of m with a fresh segment pushed.
LEMMA PushGrows ==
  ASSUME NEW m \in Memory, NEW copies \in SUBSET Copies, HasRoom(m)
  PROVE  LET n == Push(m, copies) IN
         /\ n.next_seg_id = m.next_seg_id + 1
         /\ n.segment_ids = m.segment_ids \cup {m.next_seg_id}
         /\ n.segments = [m.segments EXCEPT ![m.next_seg_id] = copies]
BY DEF Push, Memory

\* Sealing the buffer grows the memory by one fresh segment at most.
LEMMA FlushGrows ==
  ASSUME NEW m \in Memory, MemInv(m), m.buffer = {} \/ HasRoom(m)
  PROVE  Grown(m, FlushBuffer(m))
<1>1. CASE m.buffer = {}
  BY <1>1 DEF FlushBuffer, Grown, Memory
<1>2. CASE m.buffer # {}
  <2> DEFINE n == FlushBuffer(m)
  <2>1. /\ n.next_seg_id = m.next_seg_id + 1
        /\ n.segment_ids = m.segment_ids \cup {m.next_seg_id}
        /\ n.segments = [m.segments EXCEPT ![m.next_seg_id] = m.buffer]
    BY <1>2, PushGrows DEF FlushBuffer, Push, Memory
  <2> HIDE DEF n
  <2>2. m.next_seg_id \in Int
    BY DEF Memory
  <2>3. ASSUME NEW s \in m.segment_ids
        PROVE  n.segments[s] = m.segments[s]
    <3>1. s # m.next_seg_id /\ s \in SegIds
      BY <2>2 DEF MemInv, Memory
    <3> QED  BY <2>1, <3>1 DEF Memory, Payloads
  <2>4. Grown(m, n)
    BY <2>1, <2>2, <2>3 DEF Grown
  <2> QED  BY <2>4 DEF n
<1> QED  BY <1>1, <1>2

\* A merge that has an output also puts it in its segment.
LEMMA MergeGrows ==
  ASSUME NEW m \in Memory, MemInv(m), HasRoom(m),
         NEW group \in SUBSET m.segment_ids
  PROVE  LET n == MergeGroup(m, group)
             copies == MergedCopies(m, group)
         IN
         /\ n.next_seg_id = m.next_seg_id + (IF copies = {} THEN 0 ELSE 1)
         /\ \A s \in n.segment_ids :
              \/ s \in m.segment_ids /\ n.segments[s] = m.segments[s]
              \/ copies # {} /\ s = m.next_seg_id /\ n.segments[s] = copies
<1> DEFINE d == Drop(m, group)
           copies == MergedCopies(m, group)
           n == MergeGroup(m, group)
<1>0. group \in SUBSET SegIds /\ m.segment_ids \subseteq SegIds
  BY DEF Memory
<1>a. d \in Memory /\ copies \in SUBSET Copies
  BY <1>0, DropType, MergedCopiesType
<1>b. /\ d.next_seg_id = m.next_seg_id
      /\ d.segment_ids = m.segment_ids \ group
      /\ \A s \in SegIds :
           d.segments[s] = IF s \in group THEN {} ELSE m.segments[s]
  BY <1>0, DropFields
<1>1. /\ d \in Memory /\ copies \in SUBSET Copies
      /\ d.next_seg_id = m.next_seg_id
      /\ d.segment_ids = m.segment_ids \ group
      /\ \A s \in SegIds :
           d.segments[s] = IF s \in group THEN {} ELSE m.segments[s]
  BY <1>a, <1>b
<1>2. m.next_seg_id \in SegIds /\ m.next_seg_id \in Int
  BY DEF HasRoom
<1>3. CASE copies = {}
  <2>1. n = d
    BY <1>3 DEF MergeGroup
  <2> QED  BY <1>0, <1>1, <1>2, <1>3, <2>1
<1>4. CASE copies # {}
  <2>1. n = Push(d, copies)
    BY <1>4 DEF MergeGroup
  <2> HIDE DEF d, copies, n
  <2>2. /\ n.next_seg_id = m.next_seg_id + 1
        /\ n.segment_ids = d.segment_ids \cup {m.next_seg_id}
        /\ n.segments = [d.segments EXCEPT ![m.next_seg_id] = copies]
    BY <1>1, <1>2, <2>1, PushGrows DEF HasRoom
  <2>3. ASSUME NEW s \in n.segment_ids
        PROVE  \/ s \in m.segment_ids /\ n.segments[s] = m.segments[s]
               \/ s = m.next_seg_id /\ n.segments[s] = copies
    <3>0. d.segments \in [SegIds -> SUBSET Copies]
      BY <1>1 DEF Memory, Payloads
    <3>1. CASE s = m.next_seg_id
      BY <1>2, <2>2, <3>0, <3>1
    <3>2. CASE s # m.next_seg_id
      <4>1. s \in m.segment_ids /\ s \notin group /\ s \in SegIds
        BY <1>0, <1>1, <2>2, <3>2
      <4> QED  BY <1>1, <2>2, <3>0, <3>2, <4>1
    <3> QED  BY <3>1, <3>2
  <2>4. /\ n.next_seg_id = m.next_seg_id + (IF copies = {} THEN 0 ELSE 1)
        /\ \A s \in n.segment_ids :
             \/ s \in m.segment_ids /\ n.segments[s] = m.segments[s]
             \/ copies # {} /\ s = m.next_seg_id /\ n.segments[s] = copies
    BY <1>4, <2>2, <2>3
  <2> QED  BY <2>4 DEF n, copies
<1> QED  BY <1>3, <1>4

\* add, delete and replay: one operation, and the seal it may bring about.
LEMMA AppliedInv ==
  ASSUME NEW m \in Memory, MemInv(m), HasRoom(m), NEW op \in Ops
  PROVE  /\ Applied(m, op) \in Memory
         /\ MemInv(Applied(m, op))
         /\ Grown(m, Applied(m, op))
<1> DEFINE a == Apply(m, op)
<1>1. a \in Memory /\ MemInv(a)
  BY ApplyType, ApplyInv
<1>2. /\ a.next_seg_id = m.next_seg_id
      /\ a.segment_ids = m.segment_ids
      /\ a.segments = m.segments
  BY ApplyGrows
<1> HIDE DEF a
<1>3. HasRoom(a) /\ Grown(m, a)
  BY <1>2 DEF HasRoom, Grown, Memory
<1>4. /\ FlushBuffer(a) \in Memory
      /\ MemInv(FlushBuffer(a))
      /\ Grown(a, FlushBuffer(a))
  BY <1>1, <1>3, FlushBufferType, FlushBufferInv, FlushGrows
<1>5. Grown(m, FlushBuffer(a))
  BY <1>2, <1>4 DEF Grown
<1> QED  BY <1>1, <1>3, <1>4, <1>5 DEF Applied, SealIfFull, a

-----------------------------------------------------------------------------
(* What a step has to show.                                                *)

\* An absent manifest reads as a manifest.
LEMMA NoManifestType == NoManifest \in Manifests
BY ConstantsAssumption, StoreAssumption
   DEF NoManifest, Manifests, Epochs, Supersessions, NoSupersessions

\* What is published is a snapshot.
LEMMA SnapshotType ==
  ASSUME NEW m \in Memory
  PROVE  Snapshot(m) \in Snapshots
BY DEF Snapshot, Snapshots, Memory

\* The initial state satisfies the invariant.
LEMMA InitInv == Init => StoreInv
<1> SUFFICES ASSUME Init
             PROVE  StoreInv
  OBVIOUS
<1> USE DEF Init
<1>1. Snapshot(EmptyMemory) \in Snapshots
  BY EmptyMemoryType, SnapshotType
<1>2. NoPayloads \in Payloads
  BY DEF NoPayloads, Payloads
<1>3. 0 \in Epochs
  BY StoreAssumption DEF Epochs
<1>4. TypeOK
  BY <1>1, <1>2, <1>3, EmptyMemoryType, NoManifestType DEF TypeOK, Phases
<1>5. DiskInv(NoManifest, files)
  BY DEF DiskInv, NoManifest, NoSupersessions, DeletedMarked
<1> QED  BY <1>4, <1>5, EmptyMemoryInv DEF StoreInv

\* A step on memory alone: the files stay right for what grew.
LEMMA GrowthPlaced ==
  ASSUME StoreInv, phase # "down", mem' \in Memory, Grown(mem, mem'),
         UNCHANGED <<persisted_ids, manifest, prior, files>>
  PROVE  IdsAhead' /\ SegmentsPlaced'
<1>1. /\ IdsAhead /\ SegmentsPlaced
      /\ mem \in Memory /\ persisted_ids \subseteq SegIds
      /\ manifest \in Manifests /\ prior \in Manifests
  BY DEF StoreInv, TypeOK
<1>2. /\ mem.next_seg_id \in Int /\ mem'.next_seg_id \in Int
      /\ manifest.next_seg_id \in Int /\ prior.next_seg_id \in Int
      /\ mem'.segment_ids \subseteq SegIds
  BY <1>1 DEF Memory, Manifests
<1>3. IdsAhead'
  BY <1>1, <1>2 DEF IdsAhead, Grown
<1>4. ASSUME NEW s \in mem'.segment_ids
      PROVE  IF s \in persisted_ids
               THEN files[s] = mem'.segments[s]
               ELSE manifest.next_seg_id <= s /\ prior.next_seg_id <= s
  <2>1. CASE s \in mem.segment_ids /\ mem'.segments[s] = mem.segments[s]
    BY <1>1, <2>1 DEF SegmentsPlaced
  <2>2. CASE mem.next_seg_id <= s
    <3>1. s \notin persisted_ids
      BY <1>1, <1>2, <2>2 DEF IdsAhead
    <3>2. manifest.next_seg_id <= s /\ prior.next_seg_id <= s
      BY <1>1, <1>2, <2>2 DEF IdsAhead
    <3> QED  BY <3>1, <3>2
  <2> QED  BY <2>1, <2>2 DEF Grown
<1> QED  BY <1>3, <1>4 DEF SegmentsPlaced

\* An append keeps every WAL a sequence of records.
LEMMA AppendType ==
  ASSUME TypeOK, NEW op \in Ops, AppendRecord(op)
  PROVE  wals' \in [Epochs -> Seq(Ops)]
BY DEF TypeOK, AppendRecord

-----------------------------------------------------------------------------
(* One lemma for each action.                                              *)

\* add, delete and an item of extend keep the invariant.
LEMMA WriteInv ==
  ASSUME StoreInv, NEW op \in Ops, Write(op) \/ ExtendItem(op)
  PROVE  StoreInv'
<1> USE DEF Write, ExtendItem
<1>1. /\ TypeOK /\ HasRoom(mem) /\ MemInv(mem) /\ mem \in Memory
      /\ phase \in {"open", "extend"}
      /\ mem' = Applied(mem, op)
      /\ AppendRecord(op)
      /\ UNCHANGED <<persisted_ids, epoch, poisoned, wal_failed, published,
                     manifest, prior, files>>
  BY DEF StoreInv, TypeOK, CanWrite
<1>2. mem' \in Memory /\ MemInv(mem') /\ Grown(mem, mem')
  BY <1>1, AppliedInv
<1>3. /\ applied' \in Nat /\ phase' \in {"open", "extend"}
      /\ synced' \in [Epochs -> Nat]
  <2>1. Len(Log) \in Nat
    BY <1>1 DEF TypeOK, Log
  <2> QED  BY <1>1, <2>1 DEF TypeOK
<1>4. TypeOK'
  BY <1>1, <1>2, <1>3, AppendType DEF TypeOK, Phases
<1>5. IdsAhead' /\ SegmentsPlaced'
  BY <1>1, <1>2, GrowthPlaced
<1>6. DiskInv(manifest, files)' /\ DiskInv(prior, files)'
  BY <1>1 DEF StoreInv
<1>7. MemInv(mem)'
  BY <1>2
<1> QED  BY <1>3, <1>4, <1>5, <1>6, <1>7 DEF StoreInv

\* What a step that leaves memory, manifests and files alone has to show.
LEMMA StillInv ==
  ASSUME StoreInv, UNCHANGED <<mem, persisted_ids, epoch, manifest, prior, files>>,
         TypeOK', phase # "down" \/ phase' = "down",
         phase' \in {"persist", "rotate"} => phase' = phase
  PROVE  StoreInv'
<1>1. MemInv(mem)' /\ DiskInv(manifest, files)' /\ DiskInv(prior, files)'
  BY DEF StoreInv
<1>2. phase' # "down" => IdsAhead' /\ SegmentsPlaced'
  BY DEF StoreInv, IdsAhead, SegmentsPlaced
<1>3. phase' \in {"persist", "rotate"} => epoch' < MaxEpoch
  BY DEF StoreInv
<1>4. phase' = "rotate" =>
        prior' = manifest' /\ manifest'.segment_ids = mem'.segment_ids
  BY DEF StoreInv
<1> QED  BY <1>1, <1>2, <1>3, <1>4 DEF StoreInv

\* So does a write whose append or sync failed.
LEMMA WriteFailsInv ==
  ASSUME StoreInv, NEW op \in Ops, WriteFails(op)
  PROVE  StoreInv'
<1>1. TypeOK
  BY DEF StoreInv
<1>2. wals' \in [Epochs -> Seq(Ops)]
  BY <1>1, AppendType DEF WriteFails, TypeOK
<1>3. TypeOK'
  BY <1>1, <1>2 DEF WriteFails, TypeOK, Phases
<1> QED  BY <1>3, StillInv DEF WriteFails

\* So does the sync that ends extend.
LEMMA ExtendSyncInv ==
  ASSUME StoreInv, ExtendSync
  PROVE  StoreInv'
<1>1. TypeOK
  BY DEF StoreInv
<1>2. synced' \in [Epochs -> Nat]
  <2>1. Len(Log) \in Nat
    BY <1>1 DEF TypeOK, Log
  <2> QED  BY <1>1, <2>1 DEF ExtendSync, TypeOK
<1>3. TypeOK'
  BY <1>1, <1>2 DEF ExtendSync, TypeOK, Phases
<1> QED  BY <1>3, StillInv DEF ExtendSync

\* A refused checkpoint changes nothing the invariant is about.
LEMMA CheckpointRefusedInv ==
  ASSUME StoreInv, CheckpointRefused
  PROVE  StoreInv'
<1>1. TypeOK'
  BY DEF StoreInv, CheckpointRefused, TypeOK, Phases, process, disk
<1> QED  BY <1>1, StillInv DEF CheckpointRefused, process, disk

\* Nor does the publication of a snapshot.
LEMMA RepublishInv ==
  ASSUME StoreInv, Republish
  PROVE  StoreInv'
<1>1. Snapshot(mem) \in Snapshots
  BY SnapshotType DEF StoreInv, TypeOK
<1>2. TypeOK'
  BY <1>1 DEF StoreInv, Republish, TypeOK, Phases, process, disk
<1> QED  BY <1>2, StillInv DEF Republish, process, disk

\* Nor does the end of the replay.
LEMMA OpenDoneInv ==
  ASSUME StoreInv, OpenDone
  PROVE  StoreInv'
<1>1. TypeOK'
  BY DEF StoreInv, OpenDone, TypeOK, Phases, process, disk
<1> QED  BY <1>1, StillInv DEF OpenDone, process, disk

\* FlushOnly and CheckpointStart: the buffer is sealed.
LEMMA FlushInv ==
  ASSUME StoreInv, phase # "down", mem' = FlushBuffer(mem),
         mem.buffer = {} \/ HasRoom(mem),
         UNCHANGED <<persisted_ids, epoch, poisoned, wal_failed, applied,
                     published, disk>>,
         phase' \in {"open", "persist"},
         phase' = "persist" => epoch < MaxEpoch
  PROVE  StoreInv'
<1> USE DEF disk
<1>1. TypeOK /\ MemInv(mem) /\ mem \in Memory
  BY DEF StoreInv, TypeOK
<1>2. mem' \in Memory /\ MemInv(mem') /\ Grown(mem, mem')
  BY <1>1, FlushBufferType, FlushBufferInv, FlushGrows
<1>3. TypeOK'
  BY <1>1, <1>2 DEF TypeOK, Phases
<1>4. IdsAhead' /\ SegmentsPlaced'
  BY <1>2, GrowthPlaced
<1>5. DiskInv(manifest, files)' /\ DiskInv(prior, files)'
  BY DEF StoreInv
<1>6. MemInv(mem)'
  BY <1>2
<1> QED  BY <1>3, <1>4, <1>5, <1>6 DEF StoreInv

\* A merging call that finds nothing to merge keeps the invariant.
LEMMA FlushOnlyInv ==
  ASSUME StoreInv, FlushOnly
  PROVE  StoreInv'
BY FlushInv DEF FlushOnly, MergeFrame, disk

\* The seal a checkpoint begins with keeps the invariant.
LEMMA CheckpointStartInv ==
  ASSUME StoreInv, CheckpointStart
  PROVE  StoreInv'
BY FlushInv DEF CheckpointStart, RoomToFlush

\* A replayed record keeps the invariant.
LEMMA ReplayInv ==
  ASSUME StoreInv, Replay
  PROVE  StoreInv'
<1> USE DEF Replay, disk
<1>1. TypeOK /\ MemInv(mem) /\ mem \in Memory /\ HasRoom(mem)
  BY DEF StoreInv, TypeOK
<1>2. Log[applied + 1] \in Ops
  <2>1. Log \in Seq(Ops) /\ applied \in Nat
    BY <1>1 DEF TypeOK, Log
  <2>2. applied + 1 \in 1 .. Len(Log)
    BY <2>1
  <2> QED  BY <2>1, <2>2
<1>3. mem' \in Memory /\ MemInv(mem') /\ Grown(mem, mem')
  BY <1>1, <1>2, AppliedInv
<1>4. TypeOK'
  BY <1>1, <1>3 DEF TypeOK, Phases
<1>5. IdsAhead' /\ SegmentsPlaced'
  BY <1>3, GrowthPlaced
<1>6. DiskInv(manifest, files)' /\ DiskInv(prior, files)'
  BY DEF StoreInv
<1>7. MemInv(mem)'
  BY <1>3
<1> QED  BY <1>4, <1>5, <1>6, <1>7 DEF StoreInv

-----------------------------------------------------------------------------
(* The merges.                                                             *)

\* What a merging step has to show: it works on m, the memory with its buffer
\* sealed, and writes at most the file of the next id.
LEMMA MergeStepInv ==
  ASSUME StoreInv, phase # "down",
         NEW m \in Memory, MemInv(m), Grown(mem, m), HasRoom(m),
         NEW copies \in SUBSET Copies,
         files' \in {files, [files EXCEPT ![m.next_seg_id] = copies]},
         persisted_ids' \in {persisted_ids, persisted_ids \cup {m.next_seg_id}},
         mem' \in Memory, MemInv(mem'),
         m.next_seg_id <= mem'.next_seg_id,
         m.next_seg_id \in persisted_ids' => m.next_seg_id < mem'.next_seg_id,
         \A s \in mem'.segment_ids :
           \/ s \in m.segment_ids /\ mem'.segments[s] = m.segments[s]
           \/ /\ s = m.next_seg_id
              /\ s \in persisted_ids'
              /\ mem'.segments[s] = files'[s],
         phase' \in {"open", "merged", "purged"},
         MergeFrame
  PROVE  StoreInv'
<1> USE DEF MergeFrame
<1> DEFINE k == m.next_seg_id
<1>1. /\ TypeOK /\ IdsAhead /\ SegmentsPlaced
      /\ mem \in Memory /\ persisted_ids \subseteq SegIds
      /\ files \in Payloads
      /\ manifest \in Manifests /\ prior \in Manifests
      /\ DiskInv(manifest, files) /\ DiskInv(prior, files)
  BY DEF StoreInv, TypeOK
<1>2. /\ k \in SegIds /\ k \in Int
      /\ mem.next_seg_id \in Int /\ mem'.next_seg_id \in Int
      /\ manifest.next_seg_id \in Int /\ prior.next_seg_id \in Int
      /\ mem.next_seg_id <= k
      /\ m.segment_ids \subseteq SegIds /\ mem'.segment_ids \subseteq SegIds
      /\ manifest.segment_ids \subseteq SegIds
      /\ prior.segment_ids \subseteq SegIds
  BY <1>1 DEF HasRoom, Memory, Manifests, Grown
<1>3. files' \in Payloads /\ \A s \in SegIds : s # k => files'[s] = files[s]
  BY <1>1, <1>2 DEF Payloads
<1>4. TypeOK'
  BY <1>1, <1>2, <1>3 DEF TypeOK, Phases
<1>5. DiskInv(manifest, files') /\ DiskInv(prior, files')
  <2>1. /\ \A s \in manifest.segment_ids : files'[s] = files[s]
        /\ \A s \in prior.segment_ids : files'[s] = files[s]
    BY <1>1, <1>2, <1>3 DEF DiskInv, IdsAhead
  <2> QED  BY <1>1, <1>2, <2>1, DiskInvKept
<1>6. IdsAhead'
  BY <1>1, <1>2 DEF IdsAhead
<1>7. ASSUME NEW s \in mem'.segment_ids
      PROVE  IF s \in persisted_ids'
               THEN files'[s] = mem'.segments[s]
               ELSE manifest.next_seg_id <= s /\ prior.next_seg_id <= s
  <2>1. CASE s \in m.segment_ids /\ mem'.segments[s] = m.segments[s]
    <3>1. s \in Int /\ s < k /\ s # k /\ files'[s] = files[s]
      BY <1>2, <1>3, <2>1 DEF MemInv
    <3>2. s \in persisted_ids' <=> s \in persisted_ids
      BY <3>1
    <3>3. CASE s \in mem.segment_ids /\ m.segments[s] = mem.segments[s]
      BY <1>1, <2>1, <3>1, <3>2, <3>3 DEF SegmentsPlaced
    <3>4. CASE mem.next_seg_id <= s
      <4>1. s \notin persisted_ids
        BY <1>1, <1>2, <3>1, <3>4 DEF IdsAhead
      <4>2. manifest.next_seg_id <= s /\ prior.next_seg_id <= s
        BY <1>1, <1>2, <3>1, <3>4 DEF IdsAhead
      <4> QED  BY <3>2, <4>1, <4>2
    <3> QED  BY <2>1, <3>3, <3>4 DEF Grown
  <2>2. CASE s \in persisted_ids' /\ mem'.segments[s] = files'[s]
    BY <2>2
  <2> QED  BY <2>1, <2>2
<1>8. SegmentsPlaced'
  BY <1>7 DEF SegmentsPlaced
<1>9. MemInv(mem)' /\ DiskInv(manifest, files)' /\ DiskInv(prior, files)'
  BY <1>5
<1> QED  BY <1>4, <1>6, <1>8, <1>9 DEF StoreInv

\* A step that merges group of m, its buffer sealed, and then does to the
\* memory nothing that concerns its segments.
LEMMA MergedStepInv ==
  ASSUME StoreInv, phase # "down",
         NEW m \in Memory, MemInv(m), Grown(mem, m), HasRoom(m),
         NEW group \in SUBSET m.segment_ids,
         PersistMerged(m, group),
         mem' \in Memory, MemInv(mem'),
         mem'.next_seg_id = MergeGroup(m, group).next_seg_id,
         mem'.segment_ids = MergeGroup(m, group).segment_ids,
         mem'.segments = MergeGroup(m, group).segments,
         phase' \in {"open", "merged", "purged"},
         MergeFrame
  PROVE  StoreInv'
<1> DEFINE copies == MergedCopies(m, group)
           n == MergeGroup(m, group)
<1>1. copies \in SUBSET Copies
  BY MergedCopiesType DEF Memory
<1>2. /\ n.next_seg_id = m.next_seg_id + (IF copies = {} THEN 0 ELSE 1)
      /\ \A s \in n.segment_ids :
           \/ s \in m.segment_ids /\ n.segments[s] = m.segments[s]
           \/ copies # {} /\ s = m.next_seg_id /\ n.segments[s] = copies
  BY MergeGrows
<1>3. IF copies = {}
        THEN UNCHANGED <<files, persisted_ids>>
        ELSE /\ files' = [files EXCEPT ![m.next_seg_id] = copies]
             /\ persisted_ids' = persisted_ids \cup {m.next_seg_id}
  BY DEF PersistMerged, PersistSegment
<1>a. /\ mem'.next_seg_id = n.next_seg_id
      /\ mem'.segment_ids = n.segment_ids
      /\ mem'.segments = n.segments
  OBVIOUS
<1> HIDE DEF copies, n
<1>4. /\ m.next_seg_id \in SegIds /\ m.next_seg_id \in Int
      /\ files \in Payloads
      /\ \A s \in persisted_ids : s # m.next_seg_id
  <2>1. /\ m.next_seg_id \in SegIds /\ mem.next_seg_id <= m.next_seg_id
        /\ mem.next_seg_id \in Int /\ IdsAhead /\ files \in Payloads
        /\ persisted_ids \subseteq SegIds
    BY DEF HasRoom, Grown, StoreInv, TypeOK, Memory
  <2> QED  BY <2>1 DEF IdsAhead
<1>5. /\ files' \in {files, [files EXCEPT ![m.next_seg_id] = copies]}
      /\ persisted_ids' \in {persisted_ids, persisted_ids \cup {m.next_seg_id}}
      /\ m.next_seg_id <= mem'.next_seg_id
      /\ m.next_seg_id \in persisted_ids' => m.next_seg_id < mem'.next_seg_id
  BY <1>2, <1>3, <1>4, <1>a
<1>6. copies # {} =>
        m.next_seg_id \in persisted_ids' /\ files'[m.next_seg_id] = copies
  BY <1>3, <1>4 DEF Payloads
<1>7. \A s \in mem'.segment_ids :
        \/ s \in m.segment_ids /\ mem'.segments[s] = m.segments[s]
        \/ /\ s = m.next_seg_id
           /\ s \in persisted_ids'
           /\ mem'.segments[s] = files'[s]
  BY <1>2, <1>6, <1>a
<1> QED  BY <1>1, <1>5, <1>7, MergeStepInv

\* A merge whose output could not be written.
LEMMA MergeFailsInv ==
  ASSUME StoreInv, phase # "down",
         NEW m \in Memory, MemInv(m), Grown(mem, m), HasRoom(m),
         NEW group \in SUBSET m.segment_ids,
         MergeFails(m, group), MergeFrame
  PROVE  StoreInv'
<1> DEFINE copies == MergedCopies(m, group)
<1>1. copies \in SUBSET Copies
  BY MergedCopiesType DEF Memory
<1>2. /\ files' \in {files, [files EXCEPT ![m.next_seg_id] = copies]}
      /\ persisted_ids' = persisted_ids
      /\ mem' = BurnId(m)
      /\ phase' = "open"
  BY DEF MergeFails, PersistSegmentFails
<1> HIDE DEF copies
<1>3. mem' \in Memory /\ MemInv(mem')
  BY <1>2, BurnIdType, BurnIdInv
<1>4. /\ mem'.next_seg_id = m.next_seg_id + 1
      /\ mem'.segment_ids = m.segment_ids
      /\ mem'.segments = m.segments
      /\ m.next_seg_id \in Int
  BY <1>2 DEF BurnId, Memory, HasRoom
<1> QED  BY <1>1, <1>2, <1>3, <1>4, MergeStepInv

\* The memory a merging call works on: the buffer is sealed, with an id left.
LEMMA SealedForMerge ==
  ASSUME StoreInv, RoomToMerge
  PROVE  LET m == FlushBuffer(mem) IN
         m \in Memory /\ MemInv(m) /\ Grown(mem, m) /\ HasRoom(m)
<1>1. mem \in Memory /\ MemInv(mem)
  BY DEF StoreInv, TypeOK
<1>2. mem.buffer = {} \/ HasRoom(mem)
  BY DEF RoomToMerge, RoomToFlush
<1> QED
  BY <1>1, <1>2, FlushBufferType, FlushBufferInv, FlushGrows DEF RoomToMerge

\* A tier merge, a forced merge or a reclaim keeps the invariant.
LEMMA MergeInv ==
  ASSUME StoreInv, NEW group \in SUBSET SegIds, Merge(group)
  PROVE  StoreInv'
<1> DEFINE m == FlushBuffer(mem)
<1>1. m \in Memory /\ MemInv(m) /\ Grown(mem, m) /\ HasRoom(m)
  BY SealedForMerge DEF Merge
<1>2. phase # "down" /\ group \in SUBSET m.segment_ids /\ MergeFrame
  BY DEF Merge
<1>3. \/ /\ PersistMerged(m, group)
         /\ mem' = MergeGroup(m, group)
         /\ phase' = "merged"
      \/ MergeFails(m, group)
  BY DEF Merge
<1> HIDE DEF m
<1>4. CASE MergeFails(m, group)
  BY <1>1, <1>2, <1>4, MergeFailsInv
<1>5. CASE /\ PersistMerged(m, group)
           /\ mem' = MergeGroup(m, group)
           /\ phase' = "merged"
  <2>1. mem' \in Memory /\ MemInv(mem')
    <3>1. group \in SUBSET SegIds
      OBVIOUS
    <3> QED  BY <1>1, <1>2, <1>5, <3>1, MergeGroupType, MergeGroupInv
  <2> QED  BY <1>1, <1>2, <1>5, <2>1, MergedStepInv
<1> QED  BY <1>3, <1>4, <1>5

\* The fields of the memory once compact purged its liveness sets.
LEMMA PurgedFields ==
  ASSUME NEW m \in Memory
  PROVE  /\ Purged(m).next_seg_id = m.next_seg_id
         /\ Purged(m).segment_ids = m.segment_ids
         /\ Purged(m).segments = m.segments
BY DEF Purged, Memory

\* A full compaction keeps the invariant: by then every sealed copy is owned,
\* so no purged mark was needed.
LEMMA CompactInv ==
  ASSUME StoreInv, Compact
  PROVE  StoreInv'
<1> DEFINE m == FlushBuffer(mem)
<1>1. m \in Memory /\ MemInv(m) /\ Grown(mem, m) /\ HasRoom(m)
  BY SealedForMerge DEF Compact
<1>2. phase # "down" /\ MergeFrame
  BY DEF Compact
<1>3. \/ /\ PersistMerged(m, m.segment_ids)
         /\ mem' = Purged(MergeGroup(m, m.segment_ids))
         /\ phase' = "purged"
      \/ MergeFails(m, m.segment_ids)
      \/ /\ ~CompactMerges(m)
         /\ mem' = Purged(m)
         /\ phase' = "purged"
         /\ UNCHANGED <<persisted_ids, files>>
  BY DEF Compact
<1> HIDE DEF m
<1>4. m.segment_ids \in SUBSET SegIds /\ m.next_seg_id \in Int
  BY <1>1 DEF Memory
<1>5. CASE MergeFails(m, m.segment_ids)
  BY <1>1, <1>2, <1>5, MergeFailsInv
<1>6. CASE /\ PersistMerged(m, m.segment_ids)
           /\ mem' = Purged(MergeGroup(m, m.segment_ids))
           /\ phase' = "purged"
  <2> DEFINE n == MergeGroup(m, m.segment_ids)
  <2>1. n \in Memory /\ MemInv(n)
    BY <1>1, <1>4, MergeGroupType, MergeGroupInv
  <2>2. TracksIds => \A s \in n.segment_ids : \A c \in n.segments[s] :
                       n.owners[c[1]] = s
    BY <1>1, MergeAllOwned
  <2>3. mem' = Purged(n)
    BY <1>6
  <2>4. mem' \in Memory /\ MemInv(mem')
    <3> HIDE DEF n
    <3> QED  BY <2>1, <2>2, <2>3, PurgedType, PurgedInv
  <2>5. /\ mem'.next_seg_id = n.next_seg_id
        /\ mem'.segment_ids = n.segment_ids
        /\ mem'.segments = n.segments
    <3> HIDE DEF n
    <3> QED  BY <2>1, <2>3, PurgedFields
  <2>6. m.segment_ids \in SUBSET m.segment_ids
    OBVIOUS
  <2> QED  BY <1>1, <1>2, <1>6, <2>4, <2>5, <2>6, MergedStepInv
<1>7. CASE /\ ~CompactMerges(m)
           /\ mem' = Purged(m)
           /\ phase' = "purged"
           /\ UNCHANGED <<persisted_ids, files>>
  <2>1. mem' \in Memory /\ MemInv(mem')
    BY <1>1, <1>7, NothingDeadOwned, PurgedType, PurgedInv
  <2>2. /\ mem'.next_seg_id = m.next_seg_id
        /\ mem'.segment_ids = m.segment_ids
        /\ mem'.segments = m.segments
    BY <1>1, <1>7, PurgedFields
  <2>3. m.next_seg_id \notin persisted_ids
    <3>1. IdsAhead /\ mem \in Memory /\ persisted_ids \subseteq SegIds
      BY <1>2 DEF StoreInv, TypeOK
    <3> QED  BY <1>1, <1>4, <3>1 DEF IdsAhead, Grown, Memory
  <2>4. {} \in SUBSET Copies
    OBVIOUS
  <2> QED  BY <1>1, <1>2, <1>4, <1>7, <2>1, <2>2, <2>3, <2>4, MergeStepInv
<1> QED  BY <1>3, <1>5, <1>6, <1>7

-----------------------------------------------------------------------------
(* The steps of a checkpoint.                                              *)

\* Writing a segment's file: neither manifest has accounted for its id.
LEMMA PersistNextInv ==
  ASSUME StoreInv, PersistNext
  PROVE  StoreInv'
<1>1. /\ TypeOK /\ IdsAhead /\ SegmentsPlaced
      /\ phase = "persist"
      /\ mem \in Memory /\ MemInv(mem) /\ persisted_ids \subseteq SegIds
      /\ files \in Payloads
      /\ manifest \in Manifests /\ prior \in Manifests
      /\ DiskInv(manifest, files) /\ DiskInv(prior, files)
  BY DEF StoreInv, TypeOK, PersistNext
<1>2. PICK s \in Unpersisted :
        /\ files' \in {files, [files EXCEPT ![s] = mem.segments[s]]}
        /\ \/ /\ files' = [files EXCEPT ![s] = mem.segments[s]]
              /\ persisted_ids' = persisted_ids \cup {s}
              /\ phase' = phase
           \/ persisted_ids' = persisted_ids /\ phase' = "open"
  BY DEF PersistNext, PersistSegment, PersistSegmentFails
<1>3. UNCHANGED <<mem, epoch, poisoned, wal_failed, applied, published,
                  manifest, prior, wals, synced>>
  BY DEF PersistNext
<1>4. /\ s \in mem.segment_ids /\ s \notin persisted_ids /\ s \in SegIds
      /\ s < mem.next_seg_id
      /\ manifest.next_seg_id <= s /\ prior.next_seg_id <= s
      /\ mem.segments[s] \in SUBSET Copies
  BY <1>1 DEF Unpersisted, Memory, Payloads, MemInv, SegmentsPlaced
<1>5. files' \in Payloads /\ \A t \in SegIds : t # s => files'[t] = files[t]
  BY <1>1, <1>2, <1>4 DEF Payloads
<1>6. TypeOK'
  BY <1>1, <1>2, <1>3, <1>4, <1>5 DEF TypeOK, Phases
<1>7. DiskInv(manifest, files') /\ DiskInv(prior, files')
  <2>1. /\ manifest.segment_ids \in SUBSET SegIds
        /\ prior.segment_ids \in SUBSET SegIds
        /\ manifest.next_seg_id \in Int /\ prior.next_seg_id \in Int
    BY <1>1 DEF Manifests
  <2>2. /\ \A t \in manifest.segment_ids : files'[t] = files[t]
        /\ \A t \in prior.segment_ids : files'[t] = files[t]
    BY <1>1, <1>4, <1>5, <2>1 DEF DiskInv
  <2> QED  BY <1>1, <2>1, <2>2, DiskInvKept
<1>8. IdsAhead'
  BY <1>1, <1>2, <1>3, <1>4 DEF IdsAhead
<1>9. SegmentsPlaced'
  <2> SUFFICES ASSUME NEW t \in mem.segment_ids
               PROVE  IF t \in persisted_ids'
                        THEN files'[t] = mem.segments[t]
                        ELSE /\ manifest.next_seg_id <= t
                             /\ prior.next_seg_id <= t
    BY <1>3 DEF SegmentsPlaced
  <2>1. t \in SegIds
    BY <1>1 DEF Memory
  <2>2. CASE t = s
    BY <1>1, <1>2, <1>4, <2>2 DEF Payloads
  <2>3. CASE t # s
    BY <1>1, <1>2, <1>5, <2>1, <2>3 DEF SegmentsPlaced
  <2> QED  BY <2>2, <2>3
<1>10. MemInv(mem)' /\ DiskInv(manifest, files)' /\ DiskInv(prior, files)'
  BY <1>1, <1>3, <1>7
<1>11. phase' \in {"persist", "open"} /\ (phase' = "persist" => epoch' < MaxEpoch)
  BY <1>1, <1>2, <1>3 DEF StoreInv
<1> QED  BY <1>6, <1>8, <1>9, <1>10, <1>11 DEF StoreInv

\* There is no mark to drop: a merge took its inputs' marks along.
LEMMA RetainedSame ==
  ASSUME NEW m \in Memory, MemInv(m)
  PROVE  Retained(m) = m
<1>1. [s \in SegIds |-> IF s \in m.segment_ids THEN m.superseded[s] ELSE {}]
        = m.superseded
  BY DEF MemInv, Memory, Supersessions
<1> QED  BY <1>1 DEF Retained, Memory

\* The commit: what the new manifest names is in the segment files, also when
\* the write reports failure.
LEMMA WriteManifestInv ==
  ASSUME StoreInv, WriteManifest
  PROVE  StoreInv'
<1> DEFINE new == NewManifest(mem)
<1>1. /\ TypeOK /\ IdsAhead /\ SegmentsPlaced
      /\ phase = "persist" /\ epoch < MaxEpoch /\ epoch \in Epochs
      /\ mem \in Memory /\ MemInv(mem) /\ files \in Payloads
      /\ Unpersisted = {}
      /\ DiskInv(manifest, files) /\ DiskInv(prior, files)
  BY DEF StoreInv, TypeOK, WriteManifest
<1>2. mem' = mem
  BY <1>1, RetainedSame DEF WriteManifest
<1>3. UNCHANGED <<persisted_ids, epoch, wal_failed, applied, published, files,
                  wals, synced>>
  BY DEF WriteManifest
<1>4. \/ manifest' = new /\ prior' = new /\ phase' = "rotate" /\ poisoned' = poisoned
      \/ /\ manifest' \in {manifest, new} /\ prior' = prior
         /\ phase' = "open" /\ poisoned' = TRUE
  BY <1>2, <1>3 DEF WriteManifest, NewManifest
<1>5. new \in Manifests
  BY <1>1, StoreAssumption DEF NewManifest, Manifests, Memory, Epochs
<1>6. /\ new.segment_ids = mem.segment_ids
      /\ new.next_seg_id = mem.next_seg_id
      /\ new.tombstones = mem.tombstones
      /\ new.superseded = mem.superseded
  BY DEF NewManifest
<1> HIDE DEF new
<1>7. \A s \in mem.segment_ids : s \in persisted_ids /\ files[s] = mem.segments[s]
  BY <1>1 DEF Unpersisted, SegmentsPlaced
<1>8. DiskInv(new, files)
  BY <1>1, <1>6, <1>7, DiskInvFromMemory
<1>9. TypeOK'
  BY <1>1, <1>2, <1>3, <1>4, <1>5 DEF TypeOK, Phases
<1>10. IdsAhead' /\ SegmentsPlaced'
  BY <1>1, <1>2, <1>3, <1>4, <1>6, <1>7 DEF IdsAhead, SegmentsPlaced, Memory
<1>11. MemInv(mem)' /\ DiskInv(manifest, files)' /\ DiskInv(prior, files)'
  BY <1>1, <1>2, <1>3, <1>4, <1>8
<1>12. phase' = "rotate" =>
         /\ prior' = manifest' /\ manifest'.segment_ids = mem'.segment_ids
         /\ epoch' < MaxEpoch
  BY <1>1, <1>2, <1>3, <1>4, <1>6
<1>13. phase' \in {"open", "rotate"}
  BY <1>4
<1> QED  BY <1>9, <1>10, <1>11, <1>12, <1>13 DEF StoreInv

\* What garbage collection does to the files.
LEMMA CollectFacts ==
  ASSUME TypeOK, NEW garbage \in SUBSET SegIds, NEW stale,
         Collect(garbage, stale)
  PROVE  /\ files' \in Payloads
         /\ \A s \in SegIds : s \notin garbage => files'[s] = files[s]
         /\ wals' \in [Epochs -> Seq(Ops)]
         /\ synced' \in [Epochs -> Nat]
<1>1. PICK left : files' =
        [s \in SegIds |-> IF s \in garbage \ left THEN {} ELSE files[s]]
  BY DEF Collect
<1>2. PICK kept :
        /\ wals' = [e \in Epochs |-> IF e \in stale \ kept THEN <<>> ELSE wals[e]]
        /\ synced' = [e \in Epochs |-> IF e \in stale \ kept THEN 0 ELSE synced[e]]
  BY DEF Collect
<1>3. files' \in Payloads /\ \A s \in SegIds : s \notin garbage => files'[s] = files[s]
  BY <1>1 DEF TypeOK, Payloads
<1>4. <<>> \in Seq(Ops)
  OBVIOUS
<1>5. wals' \in [Epochs -> Seq(Ops)]
  BY <1>2, <1>4 DEF TypeOK
<1>6. synced' \in [Epochs -> Nat]
  BY <1>2 DEF TypeOK
<1> QED  BY <1>3, <1>5, <1>6

\* After the commit: only files the manifest does not name are deleted.
LEMMA RotateAndGcInv ==
  ASSUME StoreInv, RotateAndGc
  PROVE  StoreInv'
<1>1. /\ TypeOK /\ IdsAhead /\ SegmentsPlaced
      /\ phase = "rotate" /\ epoch < MaxEpoch /\ epoch \in Epochs
      /\ prior = manifest /\ manifest.segment_ids = mem.segment_ids
      /\ mem \in Memory /\ MemInv(mem) /\ files \in Payloads
      /\ mem.segment_ids \in SUBSET SegIds
      /\ DiskInv(manifest, files)
  BY DEF StoreInv, TypeOK, RotateAndGc, Memory
<1>2. /\ UNCHANGED <<mem, poisoned, published, manifest, prior>>
      /\ epoch' = epoch + 1 /\ wal_failed' = FALSE /\ applied' = 0
      /\ persisted_ids' = persisted_ids \cap mem.segment_ids
      /\ phase' = "publish"
      /\ Collect(SegIds \ mem.segment_ids, {epoch})
  BY DEF RotateAndGc
<1>3. /\ files' \in Payloads
      /\ \A s \in mem.segment_ids : files'[s] = files[s]
      /\ wals' \in [Epochs -> Seq(Ops)]
      /\ synced' \in [Epochs -> Nat]
  <2> DEFINE garbage == SegIds \ mem.segment_ids
  <2>1. garbage \in SUBSET SegIds /\ Collect(garbage, {epoch})
    BY <1>2
  <2>2. \A s \in mem.segment_ids : s \in SegIds /\ s \notin garbage
    BY <1>1
  <2> HIDE DEF garbage
  <2> QED  BY <1>1, <2>1, <2>2, CollectFacts
<1>4. epoch' \in Epochs
  BY <1>1, <1>2, StoreAssumption DEF Epochs
<1>5. TypeOK'
  BY <1>1, <1>2, <1>3, <1>4 DEF TypeOK, Phases
<1>6. DiskInv(manifest, files')
  BY <1>1, <1>3, DiskInvKept
<1>7. IdsAhead' /\ SegmentsPlaced'
  BY <1>1, <1>2, <1>3 DEF IdsAhead, SegmentsPlaced
<1>8. MemInv(mem)' /\ DiskInv(manifest, files)' /\ DiskInv(prior, files)'
  BY <1>1, <1>2, <1>6
<1> QED  BY <1>2, <1>5, <1>7, <1>8 DEF StoreInv

-----------------------------------------------------------------------------
(* Opening and stopping.                                                   *)

\* The memory open builds is sound, whatever garbage it deletes.
LEMMA OpenLoadInv ==
  ASSUME StoreInv, OpenLoad
  PROVE  StoreInv'
<1>1. /\ TypeOK /\ files \in Payloads /\ DiskInv(manifest, files)
      /\ manifest \in Manifests
      /\ manifest.segment_ids \in SUBSET SegIds
      /\ manifest.tombstones \in SUBSET Ids
      /\ manifest.superseded \in Supersessions
      /\ manifest.next_seg_id \in 0 .. MaxSegId + 1
      /\ manifest.epoch \in Epochs
  BY DEF StoreInv, TypeOK, Manifests
<1>2. /\ mem' = Load(manifest, files)
      /\ published' = Snapshot(mem')
      /\ persisted_ids' = manifest.segment_ids
      /\ epoch' = manifest.epoch
      /\ poisoned' = FALSE /\ wal_failed' = FALSE /\ applied' = 0
      /\ phase' = "replay"
      /\ prior' = manifest /\ manifest' = manifest
      /\ Collect(SegIds \ manifest.segment_ids, Epochs \ {manifest.epoch})
  BY DEF OpenLoad
<1>3. mem' \in Memory /\ MemInv(mem')
  BY <1>1, <1>2, LoadType, LoadInv
<1>4. /\ mem'.segment_ids = manifest.segment_ids
      /\ mem'.next_seg_id = manifest.next_seg_id
      /\ \A s \in manifest.segment_ids : mem'.segments[s] = files[s]
  BY <1>1, <1>2 DEF Load
<1>5. /\ files' \in Payloads
      /\ \A s \in manifest.segment_ids : files'[s] = files[s]
      /\ wals' \in [Epochs -> Seq(Ops)]
      /\ synced' \in [Epochs -> Nat]
  <2> DEFINE garbage == SegIds \ manifest.segment_ids
             stale == Epochs \ {manifest.epoch}
  <2>1. garbage \in SUBSET SegIds /\ Collect(garbage, stale)
    BY <1>2
  <2>2. \A s \in manifest.segment_ids : s \in SegIds /\ s \notin garbage
    BY <1>1
  <2> HIDE DEF garbage, stale
  <2> QED  BY <1>1, <2>1, <2>2, CollectFacts
<1>6. published' \in Snapshots
  BY <1>2, <1>3, SnapshotType
<1>7. TypeOK'
  BY <1>1, <1>2, <1>3, <1>5, <1>6 DEF TypeOK, Phases
<1>8. DiskInv(manifest, files')
  BY <1>1, <1>5, DiskInvKept
<1>9. IdsAhead' /\ SegmentsPlaced'
  BY <1>1, <1>2, <1>4, <1>5 DEF IdsAhead, SegmentsPlaced, DiskInv
<1>10. MemInv(mem)' /\ DiskInv(manifest, files)' /\ DiskInv(prior, files)'
  BY <1>2, <1>3, <1>8
<1> QED  BY <1>2, <1>7, <1>9, <1>10 DEF StoreInv

\* A WAL that lost its tail is a sequence of records.
LEMMA LoseTailType ==
  ASSUME TypeOK, NEW from \in Nat, LoseTail(from)
  PROVE  wals' \in [Epochs -> Seq(Ops)] /\ synced' \in [Epochs -> Nat]
<1> DEFINE e == prior.epoch
<1>1. PICK k \in from .. Len(wals[e]) :
        /\ wals' = [wals EXCEPT ![e] = SubSeq(@, 1, k)]
        /\ synced' = [synced EXCEPT ![e] = IF k < @ THEN k ELSE @]
  BY DEF LoseTail
<1>2. e \in Epochs /\ wals[e] \in Seq(Ops) /\ Len(wals[e]) \in Nat
  BY DEF TypeOK, Manifests
<1>3. k \in Nat /\ k <= Len(wals[e])
  BY <1>1, <1>2
<1>4. SubSeq(wals[e], 1, k) \in Seq(Ops)
  BY <1>2, <1>3
<1>5. wals' \in [Epochs -> Seq(Ops)]
  BY <1>1, <1>4 DEF TypeOK
<1>6. synced' \in [Epochs -> Nat]
  BY <1>1, <1>3 DEF TypeOK
<1> QED  BY <1>5, <1>6

\* The process and its memory are gone; the files stay.
LEMMA StopInv ==
  ASSUME StoreInv, ProcessCrash \/ PowerLoss
  PROVE  StoreInv'
<1>1. /\ TypeOK /\ manifest \in Manifests /\ prior \in Manifests
      /\ synced \in [Epochs -> Nat]
      /\ DiskInv(manifest, files) /\ DiskInv(prior, files)
  BY DEF StoreInv, TypeOK
<1>2. /\ Stop
      /\ manifest' \in {manifest, prior} /\ prior' \in {manifest, prior}
  BY DEF ProcessCrash, PowerLoss
<1>3. prior.epoch \in Epochs
  BY <1>1 DEF Manifests
<1>4. PICK from \in Nat : LoseTail(from)
  <2>1. CASE ProcessCrash
    BY <1>1, <1>3, <2>1 DEF ProcessCrash
  <2>2. CASE PowerLoss
    BY <1>1, <1>3, <2>2 DEF PowerLoss
  <2> QED  BY <2>1, <2>2
<1>5. wals' \in [Epochs -> Seq(Ops)] /\ synced' \in [Epochs -> Nat]
  BY <1>1, <1>4, LoseTailType
<1>6. /\ mem' = EmptyMemory /\ persisted_ids' = {} /\ epoch' = 0
      /\ poisoned' = FALSE /\ wal_failed' = FALSE /\ applied' = 0
      /\ phase' = "down" /\ published' = Snapshot(EmptyMemory)
      /\ files' = files
  BY <1>2 DEF Stop
<1>7. mem' \in Memory /\ MemInv(mem') /\ published' \in Snapshots
  BY <1>6, EmptyMemoryType, EmptyMemoryInv, SnapshotType
<1>8. 0 \in Epochs
  BY StoreAssumption DEF Epochs
<1>9. TypeOK'
  BY <1>1, <1>2, <1>5, <1>6, <1>7, <1>8 DEF TypeOK, Phases
<1>10. MemInv(mem)' /\ DiskInv(manifest, files)' /\ DiskInv(prior, files)'
  BY <1>1, <1>2, <1>6, <1>7
<1> QED  BY <1>6, <1>9, <1>10 DEF StoreInv

-----------------------------------------------------------------------------
(* The theorems.                                                           *)

\* Every step of the store keeps the invariant.
LEMMA NextInv == StoreInv /\ [Next]_vars => StoreInv'
<1> SUFFICES ASSUME StoreInv, [Next]_vars
             PROVE  StoreInv'
  OBVIOUS
<1>1. CASE WriterNext
  <2>1. CASE \E op \in Ops : Write(op) \/ WriteFails(op) \/ ExtendItem(op)
    BY <2>1, WriteInv, WriteFailsInv
  <2>2. CASE ExtendSync
    BY <2>2, ExtendSyncInv
  <2>3. CASE FlushOnly
    BY <2>3, FlushOnlyInv
  <2>4. CASE \E group \in SUBSET SegIds : Merge(group)
    BY <2>4, MergeInv
  <2>5. CASE Compact
    BY <2>5, CompactInv
  <2>6. CASE CheckpointRefused
    BY <2>6, CheckpointRefusedInv
  <2>7. CASE CheckpointStart
    BY <2>7, CheckpointStartInv
  <2>8. CASE PersistNext
    BY <2>8, PersistNextInv
  <2>9. CASE WriteManifest
    BY <2>9, WriteManifestInv
  <2>10. CASE RotateAndGc
    BY <2>10, RotateAndGcInv
  <2>11. CASE Republish
    BY <2>11, RepublishInv
  <2> QED
    BY <1>1, <2>1, <2>2, <2>3, <2>4, <2>5, <2>6, <2>7, <2>8, <2>9, <2>10,
       <2>11 DEF WriterNext
<1>2. CASE OpenLoad
  BY <1>2, OpenLoadInv
<1>3. CASE Replay
  BY <1>3, ReplayInv
<1>4. CASE OpenDone
  BY <1>4, OpenDoneInv
<1>5. CASE ProcessCrash \/ PowerLoss
  BY <1>5, StopInv
<1>6. CASE UNCHANGED vars
  <2>1. UNCHANGED <<mem, persisted_ids, epoch, poisoned, wal_failed, applied,
                    phase, published, manifest, prior, files, wals, synced>>
    BY <1>6 DEF vars, process, disk
  <2>2. TypeOK'
    BY <2>1 DEF StoreInv, TypeOK
  <2> QED  BY <2>1, <2>2, StillInv
<1> QED  BY <1>1, <1>2, <1>3, <1>4, <1>5, <1>6 DEF Next

\* The store's invariant: the marks, owners, manifests and files agree in every
\* state that writes, merges, checkpoints, failures, crashes and recoveries
\* lead to.
THEOREM StoreInvariant == Spec => []StoreInv
<1>1. Init => StoreInv
  BY InitInv
<1>2. StoreInv /\ [Next]_vars => StoreInv'
  BY NextInv
<1> QED  BY <1>1, <1>2, PTL DEF Spec

\* Every variable stays in the range its code gives it.
THEOREM TypeCorrect == Spec => []TypeOK
<1>1. StoreInv => TypeOK
  BY DEF StoreInv
<1> QED  BY <1>1, StoreInvariant, PTL

\* What copy_is_live lets through in a writer that keeps StoreInv is one copy.
LEMMA InvOneLive == StoreInv => OneLiveCopy
<1> SUFFICES ASSUME StoreInv, TracksIds, NEW i \in Ids
             PROVE  /\ LiveIn(mem, i) = IF mem.owners[i] = NoSeg
                                          THEN {} ELSE {mem.owners[i]}
                    /\ i \in IdsOf(mem.buffer) => mem.owners[i] = NoSeg
                    /\ \A v, w \in Reads(mem, i) : v = w
  BY DEF OneLiveCopy
<1>1. /\ mem \in Memory /\ mem.segment_ids \subseteq SegIds
      /\ mem.owners[i] \in SegIds \cup {NoSeg}
      /\ mem.buffer_ids = IdsOf(mem.buffer)
      /\ UniqueIds(mem.buffer)
      /\ \A s \in mem.segment_ids : UniqueIds(mem.segments[s])
      /\ CopiesOwned(mem) /\ OwnersLive(mem)
  BY DEF StoreInv, TypeOK, MemInv, Tracked, Memory
<1>2. ASSUME NEW s \in mem.segment_ids, NEW c \in mem.segments[s], c[1] = i,
             CopyIsLive(mem.tombstones, mem.superseded, s, i)
      PROVE  s = mem.owners[i] /\ mem.owners[i] # NoSeg
  BY <1>1, <1>2, SegIdsAreSegments DEF CopiesOwned, CopyIsLive
<1>3. LiveIn(mem, i) \subseteq
        IF mem.owners[i] = NoSeg THEN {} ELSE {mem.owners[i]}
  <2> SUFFICES ASSUME NEW s \in LiveIn(mem, i)
               PROVE  s = mem.owners[i] /\ mem.owners[i] # NoSeg
    OBVIOUS
  <2>1. PICK c \in LiveCopies(mem, s) : c[1] = i
    BY DEF LiveIn, IdsOf
  <2> QED  BY <1>2, <2>1 DEF LiveIn, LiveCopies
<1>4. mem.owners[i] # NoSeg => mem.owners[i] \in LiveIn(mem, i)
  <2> SUFFICES ASSUME mem.owners[i] # NoSeg
               PROVE  mem.owners[i] \in LiveIn(mem, i)
    OBVIOUS
  <2>1. /\ mem.owners[i] \in mem.segment_ids
        /\ CopyIsLive(mem.tombstones, mem.superseded, mem.owners[i], i)
    BY <1>1 DEF OwnersLive
  <2>2. PICK c \in mem.segments[mem.owners[i]] : c[1] = i
    BY <1>1 DEF OwnersLive, IdsOf
  <2>3. c \in LiveCopies(mem, mem.owners[i])
    BY <2>1, <2>2 DEF LiveCopies
  <2> QED  BY <2>1, <2>2, <2>3 DEF LiveIn, IdsOf
<1>5. i \in IdsOf(mem.buffer) => mem.owners[i] = NoSeg
  BY <1>1 DEF OwnersLive
<1>6. ASSUME NEW v \in Reads(mem, i), NEW w \in Reads(mem, i)
      PROVE  v = w
  <2>1. ASSUME NEW x \in LiveItems(mem, mem.segments, i)
        PROVE  /\ <<i, x>> \in mem.segments[mem.owners[i]]
               /\ mem.owners[i] \in mem.segment_ids
               /\ mem.owners[i] # NoSeg
    <3>1. PICK s \in mem.segment_ids :
            /\ <<i, x>> \in mem.segments[s]
            /\ CopyIsLive(mem.tombstones, mem.superseded, s, i)
      BY DEF LiveItems
    <3> QED  BY <1>2, <3>1
  <2>2. ASSUME NEW x, <<i, x>> \in mem.buffer
        PROVE  mem.owners[i] = NoSeg
    BY <1>5, <2>2 DEF IdsOf
  <2>3. \A x \in Reads(mem, i) :
          x \in LiveItems(mem, mem.segments, i) \/ <<i, x>> \in mem.buffer
    BY DEF Reads
  <2>4. CASE v \in LiveItems(mem, mem.segments, i)
    <3>1. w \in LiveItems(mem, mem.segments, i)
      BY <2>1, <2>2, <2>3, <2>4
    <3>2. /\ <<i, v>> \in mem.segments[mem.owners[i]]
          /\ <<i, w>> \in mem.segments[mem.owners[i]]
          /\ UniqueIds(mem.segments[mem.owners[i]])
      BY <1>1, <2>1, <2>4, <3>1
    <3>3. <<i, v>>[1] = <<i, w>>[1] => <<i, v>> = <<i, w>>
      BY <3>2 DEF UniqueIds
    <3> QED  BY <3>3
  <2>5. CASE <<i, v>> \in mem.buffer
    <3>1. <<i, w>> \in mem.buffer
      BY <2>1, <2>2, <2>3, <2>5
    <3>2. <<i, v>> = <<i, w>>
      BY <1>1, <2>5, <3>1 DEF UniqueIds
    <3> QED  BY <3>2
  <2> QED  BY <2>3, <2>4, <2>5
<1> QED  BY <1>3, <1>4, <1>5, <1>6

\* No two live copies of an id: what copy_is_live lets through is one copy, in
\* the segment owners names or in the buffer.
THEOREM AtMostOneLiveCopy == Spec => []OneLiveCopy
  BY InvOneLive, StoreInvariant, PTL

\* Whatever was interrupted, the next open finds a manifest it can load.
THEOREM AlwaysReopenable == Spec => []Reopenable
<1>1. StoreInv => Reopenable
  BY DiskInvCanLoad DEF StoreInv, Reopenable
<1> QED  BY <1>1, StoreInvariant, PTL

\* A step never writes the file of a segment that one of the manifests has
\* accounted for: it deletes it at most.
LEMMA FrozenStep ==
  ASSUME StoreInv, Next, NEW c \in {manifest, prior}
  PROVE  \A s \in SegIds :
           s \in c.segment_ids \/ s < c.next_seg_id =>
             files'[s] \in {files[s], {}}
<1> DEFINE Frozen ==
             \A s \in SegIds :
               s \in c.segment_ids \/ s < c.next_seg_id =>
                 files'[s] \in {files[s], {}}
<1>1. /\ TypeOK /\ files \in Payloads
      /\ c.next_seg_id \in Int /\ mem.next_seg_id \in Int
      /\ mem.segment_ids \subseteq SegIds
      /\ \A s \in c.segment_ids : s < c.next_seg_id
      /\ IdsAhead => c.next_seg_id <= mem.next_seg_id
  <2>1. DiskInv(c, files) /\ TypeOK /\ c \in Manifests
    BY DEF StoreInv, TypeOK
  <2>2. \A s \in c.segment_ids : s < c.next_seg_id
    BY <2>1 DEF DiskInv
  <2>3. IdsAhead => c.next_seg_id <= mem.next_seg_id
    BY DEF IdsAhead
  <2> QED  BY <2>1, <2>2, <2>3 DEF TypeOK, Manifests, Memory
<1>2. CASE files' = files
  BY <1>2
<1>3. ASSUME NEW s \in SegIds, NEW copies,
             c.next_seg_id <= s,
             files' \in {files, [files EXCEPT ![s] = copies]}
      PROVE  Frozen
  <2>1. \A t \in SegIds : t # s => files'[t] = files[t]
    BY <1>1, <1>3 DEF Payloads
  <2>2. \A t \in SegIds :
          t \in c.segment_ids \/ t < c.next_seg_id => t # s
    BY <1>1, <1>3
  <2> QED  BY <2>1, <2>2
<1>4. ASSUME RoomToMerge, phase # "down", NEW group,
             \/ PersistMerged(FlushBuffer(mem), group)
             \/ MergeFails(FlushBuffer(mem), group)
      PROVE  Frozen
  <2> DEFINE m == FlushBuffer(mem)
             copies == MergedCopies(m, group)
  <2>1. m \in Memory /\ Grown(mem, m) /\ HasRoom(m)
    BY <1>4, SealedForMerge
  <2>2. files' \in {files, [files EXCEPT ![m.next_seg_id] = copies]}
    BY <1>4 DEF PersistMerged, PersistSegment, MergeFails, PersistSegmentFails
  <2> HIDE DEF m, copies
  <2>3. IdsAhead
    BY <1>4 DEF StoreInv
  <2>4. m.next_seg_id \in SegIds /\ c.next_seg_id <= m.next_seg_id
    BY <1>1, <2>1, <2>3 DEF Grown, HasRoom
  <2> QED  BY <1>3, <2>2, <2>4
<1>5. ASSUME NEW garbage \in SUBSET SegIds, NEW stale, Collect(garbage, stale)
      PROVE  Frozen
  <2>1. PICK left : files' =
          [s \in SegIds |-> IF s \in garbage \ left THEN {} ELSE files[s]]
    BY <1>5 DEF Collect
  <2> QED  BY <2>1
<1>6. CASE \E op \in Ops : Write(op) \/ WriteFails(op) \/ ExtendItem(op)
  BY <1>2, <1>6 DEF Write, WriteFails, ExtendItem
<1>7. CASE ExtendSync \/ FlushOnly \/ WriteManifest
  BY <1>2, <1>7 DEF ExtendSync, FlushOnly, WriteManifest
<1>8. CASE CheckpointRefused \/ CheckpointStart \/ Republish \/ Replay \/ OpenDone
  BY <1>2, <1>8
     DEF CheckpointRefused, CheckpointStart, Republish, Replay, OpenDone, disk
<1>9. CASE \E group \in SUBSET SegIds : Merge(group)
  <2>1. PICK group \in SUBSET SegIds : Merge(group)
    BY <1>9
  <2> QED  BY <1>4, <2>1 DEF Merge
<1>10. CASE Compact
  <2>1. CASE ~CompactMerges(FlushBuffer(mem)) /\ UNCHANGED files
    BY <1>2, <2>1
  <2>2. CASE \/ PersistMerged(FlushBuffer(mem), FlushBuffer(mem).segment_ids)
             \/ MergeFails(FlushBuffer(mem), FlushBuffer(mem).segment_ids)
    BY <1>4, <1>10, <2>2 DEF Compact
  <2> QED  BY <1>10, <2>1, <2>2 DEF Compact
<1>11. CASE PersistNext
  <2>1. PICK s \in Unpersisted :
          files' \in {files, [files EXCEPT ![s] = mem.segments[s]]}
    BY <1>11 DEF PersistNext, PersistSegment, PersistSegmentFails
  <2>2. s \in SegIds /\ c.next_seg_id <= s
    BY <1>1, <1>11, <2>1
       DEF StoreInv, PersistNext, Unpersisted, SegmentsPlaced
  <2> QED  BY <1>3, <2>1, <2>2
<1>12. CASE RotateAndGc
  <2>1. /\ SegIds \ mem.segment_ids \in SUBSET SegIds
        /\ Collect(SegIds \ mem.segment_ids, {epoch})
    BY <1>12 DEF RotateAndGc
  <2> QED  BY <1>5, <2>1
<1>13. CASE OpenLoad
  <2>1. /\ SegIds \ manifest.segment_ids \in SUBSET SegIds
        /\ Collect(SegIds \ manifest.segment_ids, Epochs \ {manifest.epoch})
    BY <1>13 DEF OpenLoad
  <2> QED  BY <1>5, <2>1
<1>14. CASE ProcessCrash \/ PowerLoss
  BY <1>2, <1>14 DEF ProcessCrash, PowerLoss, Stop
<1> QED
  BY <1>6, <1>7, <1>8, <1>9, <1>10, <1>11, <1>12, <1>13, <1>14
     DEF Next, WriterNext

\* The files of a manifest that is still one of the two stay as they are.
LEMMA FilesKept ==
  ASSUME StoreInv, Next, NEW c \in {manifest, prior}, c \in {manifest', prior'}
  PROVE  \A s \in c.segment_ids : files'[s] = files[s]
<1>1. StoreInv'
  BY NextInv
<1>2. DiskInv(c, files') /\ c \in Manifests
  BY <1>1 DEF StoreInv, TypeOK
<1>3. \A s \in c.segment_ids : files'[s] # {} /\ s \in SegIds
  BY <1>2 DEF DiskInv, Manifests
<1>4. \A s \in SegIds : s \in c.segment_ids => files'[s] \in {files[s], {}}
  BY FrozenStep
<1> QED  BY <1>3, <1>4

\* The first manifest names no segment.
LEMMA InitMarked == Init => ManifestsMarked
BY DEF Init, NoManifest, ManifestsMarked, CopiesMarked

\* Every manifest written is marked.
LEMMA NextMarked ==
  ASSUME StoreInv, ManifestsMarked, Next
  PROVE  ManifestsMarked'
<1>1. ASSUME NEW c \in {manifest, prior}, c \in {manifest', prior'}
      PROVE  CopiesMarked(c, files')
  <2>1. CopiesMarked(c, files)
    BY DEF ManifestsMarked
  <2>2. \A s \in c.segment_ids : files'[s] = files[s]
    BY <1>1, FilesKept
  <2> QED  BY <2>1, <2>2, CopiesMarkedKept
<1>2. CASE WriteManifest
  <2>1. /\ mem \in Memory /\ MemInv(mem) /\ files \in Payloads
        /\ Unpersisted = {} /\ SegmentsPlaced /\ mem' = mem /\ files' = files
    BY <1>2, RetainedSame DEF StoreInv, TypeOK, WriteManifest
  <2>2. PICK new : new = NewManifest(mem)
    OBVIOUS
  <2>3. /\ new.segment_ids = mem.segment_ids /\ new.next_seg_id = mem.next_seg_id
        /\ new.tombstones = mem.tombstones /\ new.superseded = mem.superseded
    BY <2>2 DEF NewManifest
  <2>4. \A s \in mem.segment_ids : files[s] = mem.segments[s]
    BY <2>1 DEF Unpersisted, SegmentsPlaced
  <2>5. CopiesMarked(new, files')
    BY <2>1, <2>3, <2>4, DiskInvFromMemory
  <2>6. manifest' \in {manifest, new} /\ prior' \in {prior, manifest'}
    BY <1>2, <2>1, <2>2 DEF WriteManifest, NewManifest
  <2> QED  BY <1>1, <2>5, <2>6 DEF ManifestsMarked
<1>3. CASE ~WriteManifest
  <2>1. manifest' \in {manifest, prior} /\ prior' \in {manifest, prior}
    BY <1>3 DEF Next, WriterNext, Write, WriteFails, ExtendItem, ExtendSync,
       FlushOnly, Merge, Compact, MergeFrame, CheckpointRefused, CheckpointStart,
       PersistNext, RotateAndGc, Republish, OpenLoad, Replay, OpenDone,
       ProcessCrash, PowerLoss, disk
  <2> QED  BY <1>1, <2>1 DEF ManifestsMarked
<1> QED  BY <1>2, <1>3

\* What a step of the writer, or a later one of open, makes of the memory.
LEMMA WriterMemory ==
  ASSUME StoreInv, WriterNext \/ Replay \/ OpenDone
  PROVE  \/ mem' = mem
         \/ HasRoom(mem) /\ \E op \in Ops : mem' = Applied(mem, op)
         \/ RoomToFlush /\ mem' = FlushBuffer(mem)
         \/ /\ RoomToMerge
            /\ \E m \in {FlushBuffer(mem)} : \E group \in SUBSET m.segment_ids :
                 \/ mem' = MergeGroup(m, group) \/ mem' = BurnId(m)
                 \/ group = m.segment_ids /\ mem' = Purged(MergeGroup(m, group))
                 \/ ~CompactMerges(m) /\ mem' = Purged(m)
<1>1. TypeOK /\ mem \in Memory /\ MemInv(mem)
  BY DEF StoreInv, TypeOK
<1>2. ASSUME NEW op \in Ops, Write(op) \/ WriteFails(op) \/ ExtendItem(op)
      PROVE  mem' = mem \/ (HasRoom(mem) /\ mem' = Applied(mem, op))
  BY <1>2 DEF Write, WriteFails, ExtendItem, CanWrite
<1>3. ASSUME NEW group \in SUBSET SegIds, Merge(group)
      PROVE  /\ RoomToMerge /\ group \subseteq FlushBuffer(mem).segment_ids
             /\ \/ mem' = MergeGroup(FlushBuffer(mem), group)
                \/ mem' = BurnId(FlushBuffer(mem))
  BY <1>3 DEF Merge, MergeFails
<1>4. ASSUME Compact
      PROVE  /\ RoomToMerge
             /\ \/ mem' = Purged(MergeGroup(FlushBuffer(mem), FlushBuffer(mem).segment_ids))
                \/ mem' = BurnId(FlushBuffer(mem))
                \/ /\ ~CompactMerges(FlushBuffer(mem))
                   /\ mem' = Purged(FlushBuffer(mem))
  BY <1>4 DEF Compact, MergeFails
<1>5. WriteManifest => mem' = mem
  BY <1>1, RetainedSame DEF WriteManifest
<1>6. ASSUME Replay
      PROVE  HasRoom(mem) /\ \E op \in Ops : mem' = Applied(mem, op)
  <2>1. Log[applied + 1] \in Ops
    <3>1. Log \in Seq(Ops) /\ applied \in Nat
      BY <1>1 DEF TypeOK, Log
    <3> QED  BY <1>6, <3>1 DEF Replay
  <2> QED  BY <1>6, <2>1 DEF Replay
<1>7. FlushOnly \/ CheckpointStart => RoomToFlush /\ mem' = FlushBuffer(mem)
  BY DEF FlushOnly, CheckpointStart, RoomToFlush
<1>8. ExtendSync \/ CheckpointRefused \/ PersistNext \/ RotateAndGc \/ Republish
         \/ OpenDone => mem' = mem
  BY DEF ExtendSync, CheckpointRefused, PersistNext, RotateAndGc, Republish,
     OpenDone, process
<1> QED
  BY <1>2, <1>3, <1>4, <1>5, <1>6, <1>7, <1>8 DEF WriterNext

-----------------------------------------------------------------------------
(* Where no ids are listed, no copy is ever marked as superseded.          *)

\* The operations of the memory mark nothing where no id has an owner.
LEMMA FlushMarksNone ==
  ASSUME NEW m \in Memory
  PROVE  FlushBuffer(m).superseded = m.superseded
BY DEF FlushBuffer, Push, Memory

LEMMA AppliedMarksNone ==
  ASSUME NEW m \in Memory, MemInv(m), ~TracksIds,
         m.superseded = NoSupersessions, NEW op \in Ops
  PROVE  Applied(m, op).superseded = NoSupersessions
<1>1. op.id \in Ids
  BY DEF Ops
<1>2. SupersedeSealedCopy(m, op.id) = m
  BY <1>1 DEF MemInv, SupersedeSealedCopy
<1>3. Apply(m, op).superseded = NoSupersessions
  BY <1>2 DEF Apply, ApplyAdd, ApplyDelete, Memory
<1>4. Apply(m, op) \in Memory
  BY ApplyType
<1> QED  BY <1>3, <1>4, FlushMarksNone DEF Applied, SealIfFull

LEMMA MergeMarksNone ==
  ASSUME NEW m \in Memory, m.superseded = NoSupersessions, NEW group
  PROVE  MergeGroup(m, group).superseded = NoSupersessions
<1>1. Drop(m, group).superseded = NoSupersessions
  BY DEF Drop, Memory, NoSupersessions
<1>2. ASSUME NEW copies
      PROVE  Push(Drop(m, group), copies).superseded = Drop(m, group).superseded
  BY DEF Push, Drop, Memory
<1> QED  BY <1>1, <1>2 DEF MergeGroup

LEMMA PurgedMarksNone ==
  ASSUME NEW m \in Memory
  PROVE  /\ Purged(m).superseded = NoSupersessions
         /\ BurnId(m).superseded = m.superseded
BY DEF Purged, BurnId, Memory

Unmarked ==
  /\ mem.superseded = NoSupersessions
  /\ manifest.superseded = NoSupersessions
  /\ prior.superseded = NoSupersessions

\* Nor do the writer and open.
LEMMA NextUnmarked ==
  ASSUME StoreInv, Unmarked, Next, ~TracksIds
  PROVE  Unmarked'
<1>1. mem \in Memory /\ MemInv(mem)
  BY DEF StoreInv, TypeOK
<1>2. CASE WriterNext \/ Replay \/ OpenDone
  <2>1. mem' = mem => mem'.superseded = NoSupersessions
    BY DEF Unmarked
  <2>2. (\E op \in Ops : mem' = Applied(mem, op)) => mem'.superseded = NoSupersessions
    BY <1>1, AppliedMarksNone DEF Unmarked
  <2>3. mem' = FlushBuffer(mem) => mem'.superseded = NoSupersessions
    BY <1>1, FlushMarksNone DEF Unmarked
  <2>4. ASSUME NEW m \in {FlushBuffer(mem)}, RoomToMerge,
               NEW group \in SUBSET m.segment_ids,
               \/ mem' = MergeGroup(m, group) \/ mem' = Purged(MergeGroup(m, group))
               \/ mem' = BurnId(m) \/ mem' = Purged(m)
        PROVE  mem'.superseded = NoSupersessions
    <3>1. m \in Memory /\ HasRoom(m)
      BY <2>4, SealedForMerge
    <3>2. m.superseded = NoSupersessions
      BY <1>1, FlushMarksNone DEF Unmarked
    <3>3. MergeGroup(m, group) \in Memory
      <4>1. group \in SUBSET SegIds
        BY <3>1 DEF Memory
      <4> QED  BY <3>1, <4>1, MergeGroupType
    <3> QED  BY <2>4, <3>1, <3>2, <3>3, MergeMarksNone, PurgedMarksNone
  <2>5. mem'.superseded = NoSupersessions
    BY <1>2, <2>1, <2>2, <2>3, <2>4, WriterMemory DEF Unmarked
  <2>6. UNCHANGED <<manifest, prior>> \/ WriteManifest
    BY <1>2 DEF WriterNext, Write, WriteFails, ExtendItem, ExtendSync, FlushOnly,
       Merge, Compact, MergeFrame, CheckpointRefused, CheckpointStart, PersistNext,
       RotateAndGc, Republish, Replay, OpenDone, disk
  <2>7. WriteManifest => /\ manifest' \in {manifest, NewManifest(mem')}
                         /\ prior' \in {prior, manifest'}
    BY DEF WriteManifest
  <2> QED  BY <2>5, <2>6, <2>7 DEF Unmarked, NewManifest
<1>3. CASE OpenLoad
  <2>1. /\ mem' = Load(manifest, files) /\ manifest' = manifest /\ prior' = manifest
    BY <1>3 DEF OpenLoad
  <2>2. MarkedOnOpen(manifest, files) = NoSupersessions
    BY DEF MarkedOnOpen, Unmarked, NoSupersessions
  <2> QED  BY <2>1, <2>2 DEF Load, Unmarked
<1>4. CASE ProcessCrash \/ PowerLoss
  <2>1. /\ mem' = EmptyMemory
        /\ manifest' \in {manifest, prior} /\ prior' \in {manifest, prior}
    BY <1>4 DEF ProcessCrash, PowerLoss, Stop
  <2> QED  BY <2>1 DEF EmptyMemory, Unmarked
<1> QED  BY <1>2, <1>3, <1>4 DEF Next

-----------------------------------------------------------------------------
(* Committed files.                                                        *)

\* The file of a committed segment is never written again.
THEOREM CommittedFilesStayFrozen == Spec => CommittedFilesFrozen
<1>1. StoreInv /\ [Next]_vars =>
        [\A s \in SegIds :
           s \in manifest.segment_ids \/ s < manifest.next_seg_id =>
             files'[s] \in {files[s], {}}]_vars
  BY FrozenStep
<1>2. Spec => [][\A s \in SegIds :
           s \in manifest.segment_ids \/ s < manifest.next_seg_id =>
             files'[s] \in {files[s], {}}]_vars
  BY <1>1, StoreInvariant, PTL DEF Spec
<1> QED  BY <1>2 DEF CommittedFilesFrozen

=============================================================================

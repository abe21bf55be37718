------------------------- MODULE SegMemoryInvariant -------------------------
(***************************************************************************)
(* The invariants of the writer's memory and of a manifest with its        *)
(* segment files that the operations of SegMemory preserve.                *)
(***************************************************************************)
EXTENDS SegMemory

UniqueIds(copies) == \A c, d \in copies : c[1] = d[1] => c = d

\* Every sealed copy is the one its id's owner names, or is marked superseded;
\* a mark outlives the tombstone, which a re-add takes away.
CopiesOwned(m) ==
  \A s \in m.segment_ids : \A c \in m.segments[s] :
    c[1] \in m.superseded[s] \/ m.owners[c[1]] = s

\* owners names live sealed copies of ids that are not buffered.
OwnersLive(m) ==
  \A i \in Ids : m.owners[i] # NoSeg =>
    /\ m.owners[i] \in m.segment_ids
    /\ i \in IdsOf(m.segments[m.owners[i]])
    /\ CopyIsLive(m.tombstones, m.superseded, m.owners[i], i)
    /\ i \notin m.buffer_ids

Tracked(m) ==
  /\ UniqueIds(m.buffer)
  /\ \A s \in m.segment_ids : UniqueIds(m.segments[s])
  /\ CopiesOwned(m)
  /\ OwnersLive(m)

MemInv(m) ==
  /\ m.buffer_ids = IdsOf(m.buffer)
  /\ m.tombstones \cap m.buffer_ids = {}
  /\ \A s \in m.segment_ids : s < m.next_seg_id /\ m.segments[s] # {}
  /\ \A s \in SegIds : s \notin m.segment_ids => m.superseded[s] = {}
  /\ IF TracksIds THEN Tracked(m) ELSE \A i \in Ids : m.owners[i] = NoSeg

\* What a manifest c and its files need for open to find such a memory in them:
\* the copies of deleted ids are marked.  Of other ids open marks the older ones.
DeletedMarked(c, payloads) ==
  \A s \in c.segment_ids : \A a \in payloads[s] :
    a[1] \in c.tombstones => a[1] \in c.superseded[s]

DiskInv(c, payloads) ==
  /\ \A s \in c.segment_ids : s < c.next_seg_id /\ payloads[s] # {}
  /\ \A s \in SegIds : s \notin c.segment_ids => c.superseded[s] = {}
  /\ TracksIds =>
       /\ \A s \in c.segment_ids : UniqueIds(payloads[s])
       /\ DeletedMarked(c, payloads)

\* A manifest that a checkpoint wrote has the older copies marked, too.
CopiesMarked(c, payloads) ==
  TracksIds =>
    \A s, t \in c.segment_ids : \A i \in IdsOf(payloads[s]) \cap IdsOf(payloads[t]) :
      s # t => i \in c.superseded[s] \cup c.superseded[t]

\* The newest sealed copy of an id that is neither deleted nor buffered is the
\* live one: no older copy outlives a newer one.
NewestOwned(m) ==
  \A i \in Ids \ (m.tombstones \cup m.buffer_ids) : \A s \in m.segment_ids :
    i \in IdsOf(m.segments[s]) => m.owners[i] # NoSeg /\ s <= m.owners[i]

\* So for a manifest and its files, where several copies may be unmarked: none is
\* newer than the live ones.
NewestLive(c, payloads) ==
  \A i \in Ids \ c.tombstones : \A s \in c.segment_ids :
    i \in IdsOf(payloads[s]) =>
      \E t \in c.segment_ids : s <= t /\ HoldsLive(c, payloads, t, i)

=============================================================================

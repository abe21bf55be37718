---------------------------- MODULE InvertedIndex ----------------------------
(***************************************************************************)
(* The Store of the example inverted_index in SegStore: a segment is the   *)
(* ids of each term, and the documents themselves are not kept.  It lists  *)
(* no ids: TracksIds is FALSE wherever this module is run.                 *)
(*                                                                         *)
(* mem.segments goes on saying which copies a segment stands for, whatever *)
(* the Store; postings is the segment itself, as the callbacks make it out *)
(* of the buffer and of other segments.  What is shown is that the two say *)
(* the same, whenever segments are sealed, merged, compacted and loaded.   *)
(***************************************************************************)
EXTENDS Oracle

CONSTANTS
  Terms,
  TermsOf    \* the terms of a document, one at least

ASSUME IndexAssumption == TermsOf \in [Items -> (SUBSET Terms) \ {{}}]

VARIABLE postings   \* per segment, in memory or in a file: the ids of each term

iVars == <<oVars, postings>>

NoTerms == [t \in {} |-> {}]

IInit ==
  /\ OInit
  /\ postings = [s \in SegIds |-> NoTerms]

-----------------------------------------------------------------------------
(* The callbacks of Store.                                                 *)

BuildSegment(batch) ==
  [t \in UNION {TermsOf[c[2]] : c \in batch} |->
     IdsOf({c \in batch : t \in TermsOf[c[2]]})]

IdsUnder(p, t) == IF t \in DOMAIN p THEN p[t] ELSE {}

\* The live ids that segments of inputs hold under t.
LiveUnder(inputs, t) == (UNION {IdsUnder(p, t) : p \in inputs}) \ mem.tombstones

\* Slip: a term whose documents are all dead keeps an empty list.
MergeSegmentsUntrimmed(inputs) ==
  [t \in UNION {DOMAIN p : p \in inputs} |-> LiveUnder(inputs, t)]

\* Slip: the merge keeps what is dead.
MergeSegmentsUnfiltered(inputs) ==
  [t \in UNION {DOMAIN p : p \in inputs} |-> UNION {IdsUnder(p, t) : p \in inputs}]

MergeSegments(inputs) ==
  [t \in {u \in UNION {DOMAIN p : p \in inputs} : LiveUnder(inputs, u) # {}} |->
     LiveUnder(inputs, t)]

\* The size of a segment is its documents, not its terms.
SegmentLen(p) == Cardinality(UNION {p[t] : t \in DOMAIN p})

-----------------------------------------------------------------------------
(* The operations of the store that use them.                              *)

\* p, without the segments that are neither in memory nor in a file any more.
Kept(p) ==
  [s \in SegIds |-> IF s \in mem'.segment_ids \/ files'[s] # {} THEN p[s] ELSE NoTerms]

\* What is there once the buffer of m is sealed.
Sealed(m) ==
  IF m.buffer = {}
    THEN postings
    ELSE [postings EXCEPT ![m.next_seg_id] = BuildSegment(m.buffer)]

SealedIfFull(m) == IF Cardinality(m.buffer) >= FlushThreshold THEN Sealed(m) ELSE postings

\* What is there once the buffer is sealed and group merged.
Merged(group) ==
  LET inputs == {Sealed(mem)[s] : s \in group}
      out == MergeSegments(inputs)
  IN  IF DOMAIN out = {}
        THEN Sealed(mem)
        ELSE [Sealed(mem) EXCEPT ![FlushBuffer(mem).next_seg_id] = out]

IWrite(op) ==
  /\ OWrite(op)
  /\ postings' = Kept(SealedIfFull(Apply(mem, op)))

IMerge(group) ==
  /\ Merge(group)
  /\ postings' = Kept(IF phase' = "merged" THEN Merged(group) ELSE Sealed(mem))
  /\ UNCHANGED oracle

ICompact ==
  LET m == FlushBuffer(mem) IN
  /\ Compact
  /\ postings' = Kept(IF phase' = "purged" /\ CompactMerges(m) THEN Merged(m.segment_ids)
                                                               ELSE Sealed(mem))
  /\ UNCHANGED oracle

IFlush ==
  /\ FlushOnly \/ CheckpointStart
  /\ postings' = Kept(Sealed(mem))
  /\ UNCHANGED oracle

\* Steps that make no segment; open reads back what the files hold.
IOther ==
  /\ \/ (ExtendSync \/ PersistNext \/ RotateAndGc \/ Republish) /\ UNCHANGED oracle
     \/ (OpenLoad \/ OpenDone) /\ UNCHANGED oracle
     \/ OCommit
     \/ OStop
  /\ postings' = Kept(postings)

IReplay ==
  /\ Replay
  /\ postings' = Kept(SealedIfFull(Apply(mem, Log[applied + 1])))
  /\ UNCHANGED oracle

INext ==
  \/ \E op \in Ops : IWrite(op)
  \/ \E group \in SUBSET SegIds : IMerge(group)
  \/ ICompact
  \/ IFlush
  \/ IReplay
  \/ IOther

ISpec == IInit /\ [][INext]_iVars

\* query: segments and buffer, filtered by liveness.
Query(t) ==
  ((UNION {IdsUnder(postings[s], t) : s \in mem.segment_ids}) \ mem.tombstones)
    \cup IdsOf({c \in mem.buffer : t \in TermsOf[c[2]]})

-----------------------------------------------------------------------------
(* Properties.                                                             *)

\* The comment at the last step of merge_segments, "drop terms whose postings
\* were entirely tombstoned away", and all before it: whatever was sealed,
\* deleted, merged in whatever groups, persisted and loaded, a segment is what
\* build_segment makes of the documents it stands for, and its size is "distinct
\* documents (the unit of Item), not terms" (inverted_index.rs:69).
SegmentsAreTheirDocuments ==
  \A s \in mem.segment_ids :
    /\ postings[s] = BuildSegment(mem.segments[s])
    /\ SegmentLen(postings[s]) = Cardinality(IdsOf(mem.segments[s]))

\* "Delete doc 1: it must vanish from every term", "compaction preserves
\* results", "recovery preserves results": each term finds the documents that
\* have it and are not deleted, also once compact has thrown the tombstones
\* away and the store was opened again.  An id that was added again may be found
\* by its older documents too, since no ids are listed, until it is deleted.
QueryFindsLive ==
  phase \notin {"down", "replay"} =>
    \A t \in Terms, i \in Ids :
      LET has == \E v \in Latest(i) : t \in TermsOf[v]
      IN  /\ has => i \in Query(t)
          /\ i \in Query(t) /\ (Unique(i) \/ Latest(i) = {}) => has

=============================================================================

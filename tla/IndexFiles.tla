----------------------------- MODULE IndexFiles -----------------------------
(***************************************************************************)
(* The protocol of the examples persist_index and postings_sidecar, which  *)
(* use no SidecarCache: after a checkpoint the writer's consumer builds an *)
(* index of each whole segment and writes it under the segment's id; a     *)
(* searcher, in a process of its own, opens a SegmentCatalog, loads the    *)
(* indexes it lists, or builds them from the segment files, and filters    *)
(* what it finds by the catalog's tombstones.                              *)
(*                                                                         *)
(* An index stands for the segment it was built from, since its key is the *)
(* segment id alone.  Whether such indexes or those of a SidecarCache are  *)
(* the ones in idx is chosen at the start: they are files of two kinds,    *)
(* which the store treats alike and of which nobody reads the other's.     *)
(***************************************************************************)
EXTENDS Sidecars

CONSTANTS
  Terms,     \* what a search asks for
  TermsOf    \* the terms of a document: [Items -> SUBSET Terms]

ASSUME IndexFilesAssumption == TermsOf \in [Items -> SUBSET Terms]

VARIABLE kind   \* what idx holds: "whole" segments or the cache's, "live"

iVars == <<sVars, kind>>

IInit ==
  /\ SInit
  /\ kind \in {"whole", "live"}

\* build_raw_postings: the ids of each term, of a whole segment.
Postings(copies) ==
  [t \in Terms |-> IdsOf({c \in copies : t \in TermsOf[c[2]]})]

\* One turn of the loop after a checkpoint, over the segments it committed.
PersistIndex(s) ==
  /\ phase = "open"
  /\ s \in mem.segment_ids \cap manifest.segment_ids
  /\ idx' = [idx EXCEPT ![s] = mem.segments[s]]
  /\ UNCHANGED <<vars, entries, view>>

\* SegmentCatalog::open and the segment files it names.
OpenCatalog ==
  /\ view' = [ segment_ids |-> manifest.segment_ids,
               segments    |-> [s \in SegIds |->
                                  IF s \in manifest.segment_ids THEN files[s] ELSE {}],
               tombstones  |-> manifest.tombstones,
               superseded  |-> manifest.superseded ]
  /\ UNCHANGED <<vars, idx, entries>>

\* persist_index's main: the sidecar when there is one and it decodes, else the
\* segment file; {} when that is gone too.
Loaded(s) == IF idx[s] \in {NoIndex, Damaged} THEN files[s] ELSE idx[s]

\* Slip: deleted documents are found.
FoundUnfiltered(t) == UNION {Postings(Loaded(s))[t] : s \in view.segment_ids}

\* query_sidecars, over what persist_index loads: an id counts when it has no
\* tombstone in the catalog.  query_sidecars itself stops where a sidecar is
\* missing and reads its postings without the envelope's checksum, so it computes
\* this while the sidecars of the catalog's segments are there and undamaged.
Found(t) ==
  {i \in UNION {Postings(Loaded(s))[t] : s \in view.segment_ids} :
     i \notin view.tombstones}

INext ==
  /\ \/ kind = "whole" /\ \E s \in SegIds : PersistIndex(s)
     \/ kind = "live" /\ CacheNext
     \/ \E s \in SegIds : Spoil(s)
     \/ OpenCatalog
     \/ WriterStep
     \/ OpenStep
     \/ WriterStops
     \/ MachineStops
  /\ UNCHANGED kind

ISpec == IInit /\ [][INext]_iVars

-----------------------------------------------------------------------------
(* Properties.                                                             *)

\* "The loaded index must equal a fresh rebuild" (persist_index.rs:186), for a
\* catalog of any age: under an id it lists there is the index of that segment
\* or none, although nothing in the file says what the segment held.
LoadedIsRebuilt ==
  kind = "whole" => \A s \in view.segment_ids : idx[s] \in {view.segments[s], NoIndex, Damaged}

\* A search finds exactly the documents with the term that the catalog's
\* checkpoint holds, while each segment can be had from one file or the other.
SearchIsExact ==
  kind = "whole" /\ (\A s \in view.segment_ids : Loaded(s) # {}) =>
    \A t \in Terms :
      Found(t) = {i \in Ids : \E v \in LiveItems(view, view.segments, i) : t \in TermsOf[v]}

=============================================================================

------------------------------ MODULE Sidecars ------------------------------
(***************************************************************************)
(* A consumer's derived indexes beside the segments: a SidecarCache, which *)
(* keeps one index per segment in memory, and the files segstore.idx.<id>  *)
(* it loads them from and persists them to, while the writer seals,        *)
(* merges, checkpoints, crashes and opens again.                           *)
(*                                                                         *)
(* The cache is asked through a host: the writer, a snapshot of it (View), *)
(* or a SegmentCatalog of another process.  An index is what it was built  *)
(* from, the copies of the segment that were live; its key is the segment  *)
(* and the ids of these copies.  Each call of the cache is one step here;  *)
(* module SidecarThreads takes the calls of several threads apart.         *)
(***************************************************************************)
EXTENDS SegStore

CONSTANTS
  NoIndex,   \* no entry, no file
  Damaged,   \* a file whose envelope does not check
  Hosts,     \* who asks the cache: a subset of HostKinds
  Keeps      \* whether the cache outlives a writer that stops

HostKinds == {"writer", "view", "catalog"}

\* A catalog's process is not the writer's, and no cache is shared by both.
ASSUME SidecarAssumption ==
  /\ Hosts \subseteq HostKinds
  /\ "catalog" \in Hosts => Hosts = {"catalog"} /\ Keeps
  /\ Keeps \in BOOLEAN
  /\ NoIndex # Damaged

VARIABLES
  idx,       \* segstore.idx.<id>.<kind>, of one kind
  entries,   \* the cache: the index of a segment, NoIndex without an entry
  view       \* the View or the catalog held; nothing in it while none is

sVars == <<vars, idx, entries, view>>

NoView == Snapshot(EmptyMemory)

SInit ==
  /\ Init
  /\ idx = [s \in SegIds |-> NoIndex]
  /\ entries = [s \in SegIds |-> NoIndex]
  /\ view = NoView

-----------------------------------------------------------------------------
(* What a host shows of its segments.                                      *)

\* The segments host h asks about: the writer's own, or the snapshot's.
SegmentsOf(h) == IF h = "writer" THEN mem ELSE view

\* The writer's consumer runs between the writer's calls; a View is taken from
\* a store that has opened, a catalog from any directory.
CanAsk(h) ==
  /\ h \in Hosts
  /\ h = "writer" => phase = "open"

IndexOf(h, s) == LiveCopies(SegmentsOf(h), s)

\* The payload an index is built from: in memory, but for a catalog the file.
Source(h, s) == IF h = "catalog" THEN files[s] ELSE SegmentsOf(h).segments[s]

\* Slip: the live ids are left out of the key.
HitAnyKey(h, s) == entries[s] # NoIndex

\* The entry's key is the key asked for.
Hit(h, s) == entries[s] # NoIndex /\ IdsOf(entries[s]) = IdsOf(IndexOf(h, s))

\* Slip: a codec that takes what decodes.
AcceptsAll(h, s) == idx[s] \notin {NoIndex, Damaged}

\* The file decodes, and the codec accepts the index for the live ids: they are
\* all it is shown.
Accepts(h, s) ==
  /\ idx[s] \notin {NoIndex, Damaged}
  /\ IdsOf(idx[s]) = IdsOf(IndexOf(h, s))

\* What get_or_build returns: memory, then the file, then the build, which has
\* nothing to read once a catalog's segment is collected.
Served(h, s) ==
  IF Hit(h, s) THEN entries[s]
  ELSE IF Accepts(h, s) THEN idx[s]
  ELSE IF Source(h, s) = {} THEN NoIndex
  ELSE IndexOf(h, s)

-----------------------------------------------------------------------------
(* The calls of the cache.                                                 *)

\* The segment is one of the host's (binary_search over ascending ids).
Holds(h, s) == s \in SegmentsOf(h).segment_ids

GetOrBuild(h, s) ==
  /\ CanAsk(h)
  /\ Holds(h, s)
  /\ entries' = [entries EXCEPT ![s] = IF Served(h, s) = NoIndex THEN @ ELSE Served(h, s)]
  /\ UNCHANGED <<vars, idx, view>>

\* A View and a catalog name the sidecars of their own segments only; the
\* writer names any.
CanName(h, s) == h = "writer" \/ Holds(h, s)

\* The entry goes first; the file only when it can be named and deleted.
Invalidate(h, s) ==
  /\ CanAsk(h)
  /\ entries' = [entries EXCEPT ![s] = NoIndex]
  /\ \/ CanName(h, s) /\ idx' = [idx EXCEPT ![s] = NoIndex]
     \/ (~CanName(h, s) \/ "delete" \in Faults) /\ UNCHANGED idx
  /\ UNCHANGED <<vars, view>>

Retain(h) ==
  /\ CanAsk(h)
  /\ entries' = [s \in SegIds |->
                   IF Holds(h, s) THEN entries[s] ELSE NoIndex]
  /\ UNCHANGED <<vars, idx, view>>

\* persist, whatever file is there.
Persist(h, s) ==
  /\ CanAsk(h)
  /\ CanName(h, s)
  /\ entries[s] # NoIndex
  /\ idx' = [idx EXCEPT ![s] = entries[s]]
  /\ UNCHANGED <<vars, entries, view>>

\* persist_missing over some segments.  A name that is refused ends the call.
PersistMissing(h, asked) ==
  /\ CanAsk(h)
  /\ \A s \in asked : CanName(h, s)
  /\ idx' = [s \in SegIds |->
               IF s \in asked /\ idx[s] = NoIndex THEN entries[s] ELSE idx[s]]
  /\ UNCHANGED <<vars, entries, view>>

CacheNext ==
  \E h \in Hosts :
    \/ \E s \in SegIds : GetOrBuild(h, s) \/ Invalidate(h, s) \/ Persist(h, s)
    \/ \E asked \in SUBSET SegIds : PersistMissing(h, asked)
    \/ Retain(h)

\* A sidecar is no part of what is committed: it may go or rot at any time.
Spoil(s) ==
  /\ idx[s] # NoIndex
  /\ idx' \in {[idx EXCEPT ![s] = NoIndex], [idx EXCEPT ![s] = Damaged]}
  /\ UNCHANGED <<vars, entries, view>>

-----------------------------------------------------------------------------
(* The snapshots, and the writer beside the cache.                         *)

\* Reader::view.
TakeView ==
  /\ "view" \in Hosts
  /\ phase \notin {"down", "replay"}
  /\ view' = published
  /\ UNCHANGED <<vars, idx, entries>>

\* Slip: the whole index namespace is swept.
CollectEveryIndex(garbage) == idx' = [s \in SegIds |-> NoIndex]

\* The sidecars of the segment ids in garbage are deleted, best effort.
CollectIndexes(garbage) ==
  \E left \in LeftOf({s \in garbage : idx[s] # NoIndex}) :
    idx' = [s \in SegIds |-> IF s \in garbage \ left THEN NoIndex ELSE idx[s]]

\* A step of the writer; the one that collects segment files collects sidecars.
WriterStep ==
  /\ WriterNext
  /\ IF phase = "rotate" THEN CollectIndexes(SegIds \ mem.segment_ids)
                         ELSE UNCHANGED idx
  /\ UNCHANGED <<entries, view>>

OpenStep ==
  /\ \/ OpenLoad /\ CollectIndexes(SegIds \ manifest.segment_ids)
     \/ (Replay \/ OpenDone) /\ UNCHANGED idx
  /\ UNCHANGED <<entries, view>>

Forget ==
  /\ entries' = [s \in SegIds |-> NoIndex]
  /\ view' = NoView

\* The writer's process, or the store object only, stops.
WriterStops ==
  /\ ProcessCrash
  /\ IF Keeps THEN UNCHANGED <<entries, view>> ELSE Forget
  /\ UNCHANGED idx

MachineStops ==
  /\ PowerLoss
  /\ Forget
  /\ UNCHANGED idx

\* The cache of the writer's own process; a catalog's is opened and asked in
\* module IndexFiles.
SNext ==
  \/ CacheNext
  \/ \E s \in SegIds : Spoil(s)
  \/ TakeView
  \/ WriterStep
  \/ OpenStep
  \/ WriterStops
  \/ MachineStops

SSpec == SInit /\ [][SNext]_sVars

-----------------------------------------------------------------------------
(* Properties.                                                             *)

\* "A stale entry is never served" (sidecar.rs:27): what get_or_build returns
\* is the index of the copies live in the segment for the host that asks,
\* whatever was cached or persisted under that id before, by whom, and however
\* often the store has crashed and drawn ids since.  It is a promise to a cache
\* that goes with its store, or is asked through catalogs only, while no deletion
\* fails: what outlives its segment otherwise fits the next one of that id.
ServedIsCurrent ==
  \A h \in Hosts :
    CanAsk(h) =>
      \A s \in SegmentsOf(h).segment_ids :
        Served(h, s) \in {IndexOf(h, s)} \cup (IF Source(h, s) = {} THEN {NoIndex} ELSE {})

\* No step of the writer, no collection and no crash takes the sidecar of a
\* segment the durable manifest names: what was persisted for it is there to
\* load after a reopen, unless a call of the cache or the disk took it.
SidecarsKept ==
  [][\A s \in manifest.segment_ids \cap manifest'.segment_ids :
       idx'[s] # idx[s] => UNCHANGED vars]_sVars

=============================================================================

----------------------------- MODULE ReaderProofs -----------------------------
(***************************************************************************)
(* Those who read a store's segments beside its writer, for every value of *)
(* the constants: a SegmentCatalog, the cache of sidecars, and a searcher  *)
(* of another process.                                                     *)
(*                                                                         *)
(* The writer's invariant is inherited.  Of a catalog, what is added       *)
(* relates the loaded manifest to the one in place: it is the same, or an  *)
(* earlier one whose segment ids are all accounted for.  What a cache      *)
(* serves is the index of the copies live now, if deletions do not fail    *)
(* and no cache of a writer outlives it: without either of these an id     *)
(* that is drawn again meets the index of another segment.  Last come the  *)
(* indexes that the examples file under the segment id alone, which a      *)
(* searcher of another process finds to be its own segments'.              *)
(***************************************************************************)
EXTENDS Catalog, IndexFiles, SegStoreProofs

-----------------------------------------------------------------------------
(* A SegmentCatalog.                                                       *)

\* A writer that is not poisoned appends to the WAL of the manifest's epoch,
\* but between the commit of a checkpoint and the rotation.
EpochInv ==
  /\ phase \in {"persist", "rotate", "publish"} => ~poisoned
  /\ phase # "down" /\ ~poisoned =>
       manifest.epoch = IF phase = "rotate" THEN epoch + 1 ELSE epoch

\* The catalog's manifest is the one in place or has an earlier epoch.
CatalogBehind ==
  /\ catalog.epoch <= manifest.epoch
  /\ catalog.epoch = manifest.epoch => catalog.segment_ids \subseteq manifest.segment_ids
  /\ \A s \in catalog.segment_ids : s < manifest.next_seg_id

CatalogInv ==
  /\ StoreInv
  /\ ManifestsMarked
  /\ EpochInv
  /\ catalog \in Manifests
  /\ listed \in Payloads
  /\ DiskInv(catalog, listed)
  /\ CopiesMarked(catalog, listed)
  /\ CatalogBehind
  /\ ReadsAreOfTheCheckpoint

-----------------------------------------------------------------------------
(* The writer's steps.                                                     *)

\* Every step keeps the epochs of manifest and writer together.
LEMMA EpochStep ==
  ASSUME StoreInv, EpochInv, Next
  PROVE  EpochInv'
<1> USE DEF EpochInv
<1>1. TypeOK
  BY DEF StoreInv
<1>2. CASE \E op \in Ops : Write(op) \/ WriteFails(op) \/ ExtendItem(op)
  BY <1>2 DEF Write, WriteFails, ExtendItem
<1>3. CASE ExtendSync \/ FlushOnly
  BY <1>3 DEF ExtendSync, FlushOnly, MergeFrame
<1>4. CASE \E group \in SUBSET SegIds : Merge(group)
  BY <1>4 DEF Merge, MergeFails, MergeFrame
<1>5. CASE Compact
  BY <1>5 DEF Compact, MergeFails, MergeFrame
<1>6. CASE CheckpointRefused \/ CheckpointStart \/ Republish \/ Replay \/ OpenDone
  BY <1>6
     DEF CheckpointRefused, CheckpointStart, Republish, Replay, OpenDone, process, disk
<1>7. CASE PersistNext
  BY <1>7 DEF PersistNext
<1>8. CASE WriteManifest
  BY <1>8 DEF WriteManifest, NewManifest
<1>9. CASE RotateAndGc
  BY <1>9 DEF RotateAndGc
<1>10. CASE OpenLoad
  BY <1>10 DEF OpenLoad
<1>11. CASE ProcessCrash \/ PowerLoss
  BY <1>11 DEF ProcessCrash, PowerLoss, Stop
<1> QED
  BY <1>2, <1>3, <1>4, <1>5, <1>6, <1>7, <1>8, <1>9, <1>10, <1>11
     DEF Next, WriterNext

\* A manifest is followed by one of the next epoch, whose id source is no
\* smaller, unless a power loss brings an older one back.
LEMMA ManifestStep ==
  ASSUME StoreInv, EpochInv,
         WriterNext \/ OpenLoad \/ Replay \/ OpenDone \/ ProcessCrash
  PROVE  \/ manifest' = manifest
         \/ /\ manifest'.epoch = manifest.epoch + 1
            /\ manifest.next_seg_id <= manifest'.next_seg_id
<1>1. CASE WriteManifest
  <2>1. mem \in Memory /\ IdsAhead /\ phase = "persist"
    BY <1>1 DEF StoreInv, TypeOK, WriteManifest
  <2>2. mem'.next_seg_id = mem.next_seg_id
    BY <1>1, <2>1 DEF WriteManifest, Retained, Memory
  <2>3. manifest' \in {manifest, NewManifest(mem')}
    BY <1>1 DEF WriteManifest
  <2>4. epoch = manifest.epoch
    BY <2>1 DEF EpochInv
  <2> QED  BY <2>1, <2>2, <2>3, <2>4 DEF NewManifest, IdsAhead
<1>2. CASE manifest' = manifest
  BY <1>2
<1>3. ASSUME ~WriteManifest
      PROVE  manifest' = manifest
  <2>1. CASE \E op \in Ops : Write(op) \/ WriteFails(op) \/ ExtendItem(op)
    BY <2>1 DEF Write, WriteFails, ExtendItem
  <2>2. CASE ExtendSync \/ FlushOnly \/ Compact \/ (\E group \in SUBSET SegIds : Merge(group))
    BY <2>2 DEF ExtendSync, FlushOnly, Compact, Merge, MergeFrame
  <2>3. CASE CheckpointRefused \/ CheckpointStart \/ Republish \/ Replay \/ OpenDone
    BY <2>3 DEF CheckpointRefused, CheckpointStart, Republish, Replay, OpenDone, disk
  <2>4. CASE PersistNext \/ RotateAndGc \/ OpenLoad \/ ProcessCrash
    BY <2>4 DEF PersistNext, RotateAndGc, OpenLoad, ProcessCrash
  <2> QED  BY <1>3, <2>1, <2>2, <2>3, <2>4 DEF WriterNext
<1> QED  BY <1>1, <1>3

-----------------------------------------------------------------------------
(* The steps of Catalog.                                                   *)

\* The catalog that is not open names no segment.
LEMMA NoCatalogInv ==
  /\ NoManifest \in Manifests
  /\ NoPayloads \in Payloads
  /\ DiskInv(NoManifest, NoPayloads)
  /\ CopiesMarked(NoManifest, NoPayloads)
BY NoManifestType DEF NoManifest, NoPayloads, Payloads, DiskInv, DeletedMarked,
   CopiesMarked, NoSupersessions

\* The initial state satisfies the invariant.
LEMMA CatalogInitInv == CInit => CatalogInv
<1> SUFFICES ASSUME CInit
             PROVE  CatalogInv
  OBVIOUS
<1>1. StoreInv /\ ManifestsMarked /\ EpochInv
  BY InitInv, InitMarked DEF CInit, Init, EpochInv
<1>2. CatalogBehind /\ ReadsAreOfTheCheckpoint
  BY DEF CInit, Init, CatalogBehind, ReadsAreOfTheCheckpoint, NoManifest
<1> QED  BY <1>1, <1>2, NoCatalogInv DEF CInit, CatalogInv

\* A catalog opened now lists what the manifest names.
LEMMA OpenInv ==
  ASSUME CatalogInv, Open
  PROVE  CatalogInv'
<1>1. /\ StoreInv /\ EpochInv /\ TypeOK
      /\ manifest \in Manifests /\ files \in Payloads
      /\ DiskInv(manifest, files)
      /\ ManifestsMarked /\ CopiesMarked(manifest, files)
  BY DEF CatalogInv, StoreInv, TypeOK, ManifestsMarked
<1>2. UNCHANGED <<mem, persisted_ids, epoch, poisoned, wal_failed, applied,
                  phase, published, manifest, prior, files, wals, synced>>
  BY DEF Open, vars, process, disk
<1>3. StoreInv'
  BY <1>1, NextInv DEF Open
<1>4. EpochInv'
  BY <1>1, <1>2 DEF EpochInv
<1>5. manifest.segment_ids \subseteq SegIds /\ manifest.epoch \in Int
  BY <1>1 DEF Manifests, Epochs
<1>6. /\ catalog' = manifest
      /\ listed' \in Payloads
      /\ \A s \in manifest.segment_ids : listed'[s] = files[s]
  BY <1>1, <1>5 DEF Open, Payloads
<1>7. DiskInv(catalog', listed') /\ CopiesMarked(catalog', listed')
  <2>1. DiskInv(catalog', listed')
    BY <1>1, <1>5, <1>6 DEF DiskInv, DeletedMarked
  <2> QED  BY <1>1, <1>6, <2>1, CopiesMarkedKept
<1>8. CatalogBehind'
  BY <1>1, <1>2, <1>5, <1>6 DEF CatalogBehind, DiskInv
<1>9. ReadsAreOfTheCheckpoint'
  BY <1>2, <1>6 DEF ReadsAreOfTheCheckpoint
<1>10. ManifestsMarked'
  BY <1>1, <1>2 DEF ManifestsMarked
<1> QED  BY <1>1, <1>3, <1>4, <1>6, <1>7, <1>8, <1>9, <1>10 DEF CatalogInv

\* What the writer does meanwhile.
LEMMA WriterStepsInv ==
  ASSUME CatalogInv, WriterSteps
  PROVE  CatalogInv'
<1>1. /\ StoreInv /\ EpochInv /\ CatalogBehind /\ ReadsAreOfTheCheckpoint
      /\ catalog \in Manifests /\ listed \in Payloads
      /\ manifest \in Manifests
  BY DEF CatalogInv, StoreInv, TypeOK
<1>2. Next /\ UNCHANGED <<catalog, listed>>
  BY DEF WriterSteps, Next
<1>3. StoreInv' /\ ManifestsMarked' /\ EpochInv'
  BY <1>1, <1>2, NextInv, NextMarked, EpochStep DEF CatalogInv
<1>4. manifest' \in Manifests
  BY <1>3 DEF StoreInv, TypeOK
<1>5. \/ manifest' = manifest
      \/ /\ manifest'.epoch = manifest.epoch + 1
         /\ manifest.next_seg_id <= manifest'.next_seg_id
  BY <1>1, ManifestStep DEF WriterSteps
<1>6. /\ catalog.segment_ids \subseteq SegIds
      /\ catalog.epoch \in Int /\ manifest.epoch \in Int
      /\ manifest.next_seg_id \in Int /\ manifest'.next_seg_id \in Int
  BY <1>1, <1>4 DEF Manifests, Epochs
<1>7. CatalogBehind'
  BY <1>1, <1>2, <1>5, <1>6 DEF CatalogBehind, SegIds
<1>8. ReadsAreOfTheCheckpoint'
  <2>1. \A s \in catalog.segment_ids : files'[s] \in {files[s], {}}
    BY <1>1, <1>2, <1>6, FrozenStep DEF CatalogBehind
  <2> QED  BY <1>1, <1>2, <2>1 DEF ReadsAreOfTheCheckpoint
<1>9. /\ DiskInv(catalog', listed') /\ CopiesMarked(catalog', listed')
      /\ catalog' \in Manifests /\ listed' \in Payloads
  BY <1>1, <1>2 DEF CatalogInv
<1> QED  BY <1>3, <1>7, <1>8, <1>9 DEF CatalogInv

\* After a power loss no catalog is open.
LEMMA LosePowerInv ==
  ASSUME CatalogInv, LosePower
  PROVE  CatalogInv'
<1>1. StoreInv' /\ ManifestsMarked' /\ EpochInv'
  BY NextInv, NextMarked, EpochStep DEF CatalogInv, LosePower, Next
<1>2. manifest' \in Manifests
  BY <1>1 DEF StoreInv, TypeOK
<1>3. CatalogBehind' /\ ReadsAreOfTheCheckpoint'
  BY <1>2 DEF LosePower, CatalogBehind, ReadsAreOfTheCheckpoint, NoManifest,
     Manifests, Epochs
<1> QED  BY <1>1, <1>3, NoCatalogInv DEF CatalogInv, LosePower

\* Every step of the writer and of the catalog keeps the invariant.
LEMMA CatalogNextInv == CatalogInv /\ [CNext]_cVars => CatalogInv'
<1> SUFFICES ASSUME CatalogInv, [CNext]_cVars
             PROVE  CatalogInv'
  OBVIOUS
<1>1. CASE Open
  BY <1>1, OpenInv
<1>2. CASE WriterSteps
  BY <1>2, WriterStepsInv
<1>3. CASE LosePower
  BY <1>3, LosePowerInv
<1>4. CASE UNCHANGED cVars
  <2>1. UNCHANGED <<mem, persisted_ids, epoch, poisoned, wal_failed, applied,
                    phase, published, manifest, prior, files, wals, synced,
                    catalog, listed>>
    BY <1>4 DEF cVars, vars, process, disk
  <2>2. StoreInv'
    BY <1>4, NextInv DEF CatalogInv, cVars
  <2>3. /\ ManifestsMarked' /\ EpochInv' /\ CatalogBehind'
        /\ ReadsAreOfTheCheckpoint'
    BY <2>1 DEF CatalogInv, ManifestsMarked, EpochInv, CatalogBehind,
                ReadsAreOfTheCheckpoint
  <2> QED  BY <2>1, <2>2, <2>3 DEF CatalogInv
<1> QED  BY <1>1, <1>2, <1>3, <1>4 DEF CNext

-----------------------------------------------------------------------------
(* Theorems.                                                               *)

\* The catalog's invariant: what it listed stays what it listed.
THEOREM CatalogInvariant == CSpec => []CatalogInv
<1>1. CInit => CatalogInv
  BY CatalogInitInv
<1>2. CatalogInv /\ [CNext]_cVars => CatalogInv'
  BY CatalogNextInv
<1> QED  BY <1>1, <1>2, PTL DEF CSpec

\* A read under a listed id finds the payload of the catalog's checkpoint or no
\* file, whatever the writer did since.
THEOREM CatalogReadsItsCheckpoint == CSpec => []ReadsAreOfTheCheckpoint
<1>1. CatalogInv => ReadsAreOfTheCheckpoint
  BY DEF CatalogInv
<1> QED  BY <1>1, CatalogInvariant, PTL

\* A listed file is missing only once a manifest of a later epoch is in place.
THEOREM CatalogMissesOnlySuperseded == CSpec => []MissingMeansSuperseded
<1>1. CatalogInv => MissingMeansSuperseded
  <2> SUFFICES ASSUME CatalogInv, NEW s \in catalog.segment_ids, files[s] = {}
               PROVE  manifest.epoch > catalog.epoch
    BY DEF MissingMeansSuperseded
  <2>1. /\ CatalogBehind
        /\ DiskInv(manifest, files)
        /\ catalog \in Manifests /\ manifest \in Manifests
    BY DEF CatalogInv, StoreInv, TypeOK
  <2>2. s \notin manifest.segment_ids
    BY <2>1 DEF DiskInv
  <2>3. catalog.epoch # manifest.epoch
    BY <2>1, <2>2 DEF CatalogBehind
  <2> QED  BY <2>1, <2>3 DEF CatalogBehind, Manifests, Epochs
<1> QED  BY <1>1, CatalogInvariant, PTL

\* At most one copy of an id passes the catalog's liveness check.
THEOREM CatalogListsOneCopy == CSpec => []OneCopyListed
<1>1. CatalogInv => OneCopyListed
  <2> SUFFICES ASSUME CatalogInv, TracksIds, NEW i \in Ids
               PROVE  LET live == {s \in catalog.segment_ids :
                             /\ i \in IdsOf(listed[s])
                             /\ CopyIsLive(catalog.tombstones, catalog.superseded, s, i)}
                      IN  /\ \A s, t \in live : s = t
                          /\ \A v, w \in LiveItems(catalog, listed, i) : v = w
    BY DEF OneCopyListed
  <2>1. /\ \A s \in catalog.segment_ids : UniqueIds(listed[s])
        /\ CopiesMarked(catalog, listed)
    BY DEF CatalogInv, DiskInv
  <2>2. ASSUME NEW s \in catalog.segment_ids, NEW t \in catalog.segment_ids,
               i \in IdsOf(listed[s]), i \in IdsOf(listed[t]),
               i \notin catalog.superseded[s], i \notin catalog.superseded[t]
        PROVE  s = t
    BY <2>1, <2>2 DEF CopiesMarked
  <2>3. ASSUME NEW v \in LiveItems(catalog, listed, i),
               NEW w \in LiveItems(catalog, listed, i)
        PROVE  v = w
    <3>1. PICK s \in catalog.segment_ids :
            <<i, v>> \in listed[s] /\ i \notin catalog.superseded[s]
      BY DEF LiveItems, CopyIsLive
    <3>2. PICK t \in catalog.segment_ids :
            <<i, w>> \in listed[t] /\ i \notin catalog.superseded[t]
      BY DEF LiveItems, CopyIsLive
    <3>3. i \in IdsOf(listed[s]) /\ i \in IdsOf(listed[t])
      BY <3>1, <3>2 DEF IdsOf
    <3>4. s = t
      BY <2>2, <3>1, <3>2, <3>3
    <3>5. <<i, v>>[1] = <<i, w>>[1] => <<i, v>> = <<i, w>>
      BY <2>1, <3>1, <3>2, <3>4 DEF UniqueIds
    <3> QED  BY <3>5
  <2> QED  BY <2>2, <2>3 DEF CopyIsLive
<1> QED  BY <1>1, CatalogInvariant, PTL

USE DEF SegIds

-----------------------------------------------------------------------------
(* Sidecars.                                                               *)

\* Segment s is shown with payload p by the writer, by what it published, by
\* the snapshot held, or by the directory under one of the two manifests.
Shows(s, p) ==
  \/ s \in mem.segment_ids /\ p = mem.segments[s]
  \/ s \in published.segment_ids /\ p = published.segments[s]
  \/ s \in view.segment_ids /\ p = view.segments[s]
  \/ s \in manifest.segment_ids \cup prior.segment_ids /\ p = files[s]

\* x is what payload p has of some ids: of each of them, every copy.
PartOf(x, p) == x = {c \in p : c[1] \in IdsOf(x)}

\* The indexes of segment s there are, in the cache and on disk.
Indexes(s) == ({idx[s]} \ {NoIndex, Damaged}) \cup ({entries[s]} \ {NoIndex})

SidecarTypes ==
  /\ view \in Snapshots
  /\ idx \in [SegIds -> (SUBSET Copies) \cup {NoIndex, Damaged}]
  /\ entries \in [SegIds -> (SUBSET Copies) \cup {NoIndex}]

\* An id names one payload for everybody who knows it.
OnePayload ==
  \A s \in SegIds, p, q \in SUBSET Copies : Shows(s, p) /\ Shows(s, q) => p = q

\* An index is part of the payload its segment is shown with, by whomever.
IndexesFit ==
  \A s \in SegIds, p \in SUBSET Copies :
    Shows(s, p) => \A x \in Indexes(s) : PartOf(x, p)

\* Only an id that was drawn, and will not be drawn again, is held or indexed.
Drawn ==
  phase # "down" =>
    \A s \in SegIds :
      (\/ s \in view.segment_ids \/ s \in published.segment_ids
       \/ Indexes(s) # {}) => s < mem.next_seg_id

\* With the writer, what its process had in memory is gone.
NothingHeld ==
  phase = "down" =>
    /\ mem.segment_ids = {} /\ published.segment_ids = {}
    /\ ~Keeps =>
         view.segment_ids = {} /\ \A s \in SegIds : entries[s] = NoIndex

\* What another process holds is of segments that were committed.
HeldByCatalog ==
  "catalog" \in Hosts =>
    \A s \in SegIds :
      s \in view.segment_ids \/ entries[s] # NoIndex => s < manifest.next_seg_id

SidecarInv ==
  /\ StoreInv
  /\ SidecarTypes
  /\ OnePayload
  /\ IndexesFit
  /\ Drawn
  /\ NothingHeld
  /\ HeldByCatalog

\* What the theorem is about: a cache that ends with its writer, or that knows
\* committed segments only, in a directory where deletions succeed.
CacheEnds == "delete" \notin Faults /\ (Keeps => "catalog" \in Hosts)

-----------------------------------------------------------------------------
(* Parts of a payload.                                                     *)

\* Two parts with the same ids are the same.
LEMMA PartsAgree ==
  ASSUME NEW p, NEW x, NEW y, PartOf(x, p), PartOf(y, p), IdsOf(x) = IdsOf(y)
  PROVE  x = y
BY DEF PartOf

\* The live copies of a segment are a part of it: whether a copy is live is a
\* matter of its id.
LEMMA LivePart ==
  ASSUME NEW m, NEW s
  PROVE  PartOf(LiveCopies(m, s), m.segments[s])
<1>1. ASSUME NEW c \in m.segments[s], c[1] \in IdsOf(LiveCopies(m, s))
      PROVE  c \in LiveCopies(m, s)
  BY <1>1 DEF LiveCopies, IdsOf
<1>2. LiveCopies(m, s) \subseteq m.segments[s]
  BY DEF LiveCopies
<1>3. \A c \in LiveCopies(m, s) : c[1] \in IdsOf(LiveCopies(m, s))
  BY DEF IdsOf
<1> QED  BY <1>1, <1>2, <1>3 DEF PartOf

-----------------------------------------------------------------------------
(* What a host is served.                                                  *)

\* A host that can ask shows its segments.
LEMMA HostShows ==
  ASSUME SidecarInv, NEW h \in Hosts, NEW s \in SegmentsOf(h).segment_ids
  PROVE  /\ s \in SegIds
         /\ SegmentsOf(h).segments[s] \in SUBSET Copies
         /\ Shows(s, SegmentsOf(h).segments[s])
<1>1. mem \in Memory /\ view \in Snapshots
  BY DEF SidecarInv, SidecarTypes, StoreInv, TypeOK
<1>2. SegmentsOf(h) = mem \/ SegmentsOf(h) = view
  BY DEF SegmentsOf
<1> QED  BY <1>1, <1>2 DEF Shows, Memory, Snapshots, Payloads

\* What it is served is the index it would build, or none.
LEMMA ServedFits ==
  ASSUME SidecarInv, NEW h \in Hosts, NEW s \in SegmentsOf(h).segment_ids
  PROVE  \/ Served(h, s) = IndexOf(h, s)
         \/ Served(h, s) = NoIndex /\ Source(h, s) = {}
<1> DEFINE p == SegmentsOf(h).segments[s]
<1>1. s \in SegIds /\ p \in SUBSET Copies /\ Shows(s, p)
  BY HostShows
<1>2. \A x \in Indexes(s) : PartOf(x, p)
  BY <1>1 DEF SidecarInv, IndexesFit
<1>3. PartOf(IndexOf(h, s), p)
  BY LivePart DEF IndexOf
<1> HIDE DEF p
<1>4. CASE Hit(h, s)
  <2>1. entries[s] \in Indexes(s) /\ IdsOf(entries[s]) = IdsOf(IndexOf(h, s))
    BY <1>4 DEF Hit, Indexes
  <2>2. entries[s] = IndexOf(h, s)
    BY <1>2, <1>3, <2>1, PartsAgree
  <2> QED  BY <1>4, <2>2 DEF Served
<1>5. CASE ~Hit(h, s) /\ Accepts(h, s)
  <2>1. idx[s] \in Indexes(s) /\ IdsOf(idx[s]) = IdsOf(IndexOf(h, s))
    BY <1>5 DEF Accepts, Indexes
  <2>2. idx[s] = IndexOf(h, s)
    BY <1>2, <1>3, <2>1, PartsAgree
  <2> QED  BY <1>5, <2>2 DEF Served
<1> QED  BY <1>4, <1>5 DEF Served

\* Everybody's segments were drawn, the writer's and the manifests' too.
LEMMA ShownDrawn ==
  ASSUME SidecarInv, phase # "down", NEW s \in SegIds, NEW p, Shows(s, p)
  PROVE  s < mem.next_seg_id
<1>1. /\ MemInv(mem) /\ IdsAhead
      /\ DiskInv(manifest, files) /\ DiskInv(prior, files)
      /\ mem \in Memory /\ manifest \in Manifests /\ prior \in Manifests
  BY DEF SidecarInv, StoreInv, TypeOK
<1>2. /\ mem.next_seg_id \in Int /\ manifest.next_seg_id \in Int
      /\ prior.next_seg_id \in Int
      /\ manifest.next_seg_id <= mem.next_seg_id
      /\ prior.next_seg_id <= mem.next_seg_id
  BY <1>1 DEF Memory, Manifests, IdsAhead
<1>3. CASE s \in mem.segment_ids
  BY <1>1, <1>3 DEF MemInv
<1>4. CASE s \in published.segment_ids \/ s \in view.segment_ids
  BY <1>4 DEF SidecarInv, Drawn
<1>5. CASE s \in manifest.segment_ids
  <2>1. s < manifest.next_seg_id
    BY <1>1, <1>5 DEF DiskInv
  <2> QED  BY <1>2, <2>1
<1>6. CASE s \in prior.segment_ids
  <2>1. s < prior.next_seg_id
    BY <1>1, <1>6 DEF DiskInv
  <2> QED  BY <1>2, <2>1
<1> QED  BY <1>3, <1>4, <1>5, <1>6 DEF Shows

-----------------------------------------------------------------------------
(* The calls of the cache, while the store does nothing.                   *)

\* Shown is what was shown, and each index there is now was there, or is the
\* one a host would build.
LEMMA StoreStillInv ==
  ASSUME SidecarInv, UNCHANGED vars, SidecarTypes', HeldByCatalog',
         phase = "down" /\ ~Keeps => UNCHANGED <<entries, view>>,
         \A s \in SegIds, p \in SUBSET Copies : Shows(s, p)' => Shows(s, p),
         \A s \in SegIds : \A x \in Indexes(s)' :
           \/ x \in Indexes(s)
           \/ \E p \in SUBSET Copies : Shows(s, p) /\ PartOf(x, p)
  PROVE  SidecarInv'
<1>1. StoreInv'
  BY NextInv DEF SidecarInv
<1>3. OnePayload'
  BY DEF SidecarInv, OnePayload
<1>4. IndexesFit'
  <2> SUFFICES ASSUME NEW s \in SegIds, NEW p \in SUBSET Copies, Shows(s, p)',
                      NEW x \in Indexes(s)'
               PROVE  PartOf(x, p)
    BY DEF IndexesFit
  <2>1. Shows(s, p)
    OBVIOUS
  <2>2. CASE x \in Indexes(s)
    BY <2>1, <2>2 DEF SidecarInv, IndexesFit
  <2>3. CASE x \notin Indexes(s)
    <3>1. PICK q \in SUBSET Copies : Shows(s, q) /\ PartOf(x, q)
      BY <2>3
    <3>2. p = q
      BY <2>1, <3>1 DEF SidecarInv, OnePayload
    <3> QED  BY <3>1, <3>2
  <2> QED  BY <2>2, <2>3
<1>5. Drawn'
  <2> SUFFICES ASSUME phase # "down", NEW s \in SegIds,
                      \/ s \in view'.segment_ids \/ s \in published'.segment_ids
                      \/ Indexes(s)' # {}
               PROVE  s < mem.next_seg_id
    BY DEF Drawn, vars, process, disk
  <2>1. CASE s \in view'.segment_ids \/ s \in published'.segment_ids
    <3>1. /\ view'.segments[s] \in SUBSET Copies
          /\ published'.segments[s] \in SUBSET Copies
      BY <1>1 DEF SidecarTypes, StoreInv, TypeOK, Snapshots, Payloads
    <3>2. PICK p \in SUBSET Copies :
            \/ s \in view'.segment_ids /\ p = view'.segments[s]
            \/ s \in published'.segment_ids /\ p = published'.segments[s]
      BY <2>1, <3>1
    <3>3. Shows(s, p)'
      BY <3>2 DEF Shows
    <3> QED  BY <3>3, ShownDrawn
  <2>2. CASE Indexes(s)' # {}
    <3>1. PICK x : x \in Indexes(s)'
      BY <2>2
    <3>2. CASE x \in Indexes(s)
      BY <3>2 DEF SidecarInv, Drawn
    <3>3. CASE x \notin Indexes(s)
      BY <3>1, <3>3, ShownDrawn
    <3> QED  BY <3>2, <3>3
  <2> QED  BY <2>1, <2>2
<1>6. NothingHeld'
  BY DEF SidecarInv, NothingHeld, vars, process, disk
<1> QED  BY <1>1, <1>3, <1>4, <1>5, <1>6 DEF SidecarInv

\* get_or_build files what it serves.
LEMMA GetOrBuildInv ==
  ASSUME SidecarInv, NEW h \in Hosts, NEW s \in SegIds, GetOrBuild(h, s),
         phase = "down" => Keeps
  PROVE  SidecarInv'
<1>1. /\ CanAsk(h) /\ s \in SegmentsOf(h).segment_ids
      /\ entries' = [entries EXCEPT ![s] =
                       IF Served(h, s) = NoIndex THEN @ ELSE Served(h, s)]
      /\ UNCHANGED vars /\ idx' = idx /\ view' = view
  BY DEF GetOrBuild, Holds
<1>2. PICK x : x = IF Served(h, s) = NoIndex THEN entries[s] ELSE Served(h, s)
  OBVIOUS
<1>3. PICK p \in SUBSET Copies : p = SegmentsOf(h).segments[s] /\ Shows(s, p)
  BY <1>1, HostShows
<1>4. \/ x = entries[s]
      \/ PartOf(x, p)
  BY <1>1, <1>2, <1>3, ServedFits, LivePart DEF IndexOf
<1>5. SidecarTypes
  BY DEF SidecarInv
<1>6. x \in (SUBSET Copies) \cup {NoIndex}
  BY <1>4, <1>5 DEF PartOf, SidecarTypes
<1>7. /\ entries' \in [SegIds -> (SUBSET Copies) \cup {NoIndex}]
      /\ entries'[s] = x
      /\ \A t \in SegIds : t # s => entries'[t] = entries[t]
  BY <1>1, <1>2, <1>5, <1>6 DEF SidecarTypes
<1>8. SidecarTypes'
  BY <1>1, <1>5, <1>7 DEF SidecarTypes
<1>9. ASSUME NEW t \in SegIds, NEW y \in Indexes(t)'
      PROVE  \/ y \in Indexes(t)
             \/ t = s /\ PartOf(y, p)
  BY <1>1, <1>4, <1>7 DEF Indexes
<1>10. HeldByCatalog'
  <2> SUFFICES ASSUME "catalog" \in Hosts, NEW t \in SegIds,
                      t \in view.segment_ids \/ entries'[t] # NoIndex
               PROVE  t < manifest.next_seg_id
    BY <1>1 DEF HeldByCatalog, vars, disk
  <2>1. s \in view.segment_ids
    BY <1>1, SidecarAssumption DEF SegmentsOf
  <2>2. t \in view.segment_ids \/ entries[t] # NoIndex
    BY <1>7, <2>1
  <2> QED  BY <2>2 DEF SidecarInv, HeldByCatalog
<1>11. \A t \in SegIds, q \in SUBSET Copies : Shows(t, q)' => Shows(t, q)
  BY <1>1 DEF Shows, vars, process, disk
<1> QED  BY <1>1, <1>3, <1>8, <1>9, <1>10, <1>11, StoreStillInv

\* The other calls, and what befalls the files, only take indexes away or copy
\* entries to files.
LEMMA FewerIndexesInv ==
  ASSUME SidecarInv, UNCHANGED <<vars, view>>,
         \A s \in SegIds :
           /\ entries'[s] \in {entries[s], NoIndex}
           /\ idx'[s] \in {idx[s], entries[s], NoIndex, Damaged},
         idx' \in [SegIds -> {idx'[s] : s \in SegIds}],
         entries' \in [SegIds -> {entries'[s] : s \in SegIds}]
  PROVE  SidecarInv'
<1>1. SidecarTypes
  BY DEF SidecarInv
<1>2. SidecarTypes'
  <2>1. \A s \in SegIds : /\ entries'[s] \in (SUBSET Copies) \cup {NoIndex}
                          /\ idx'[s] \in (SUBSET Copies) \cup {NoIndex, Damaged}
    BY <1>1 DEF SidecarTypes
  <2> QED  BY <1>1, <2>1 DEF SidecarTypes
<1>3. \A s \in SegIds : Indexes(s)' \subseteq Indexes(s)
  BY DEF Indexes
<1>4. phase = "down" /\ ~Keeps => entries' = entries
  <2>1. phase = "down" /\ ~Keeps => \A s \in SegIds : entries'[s] = entries[s]
    BY DEF SidecarInv, NothingHeld
  <2>2. /\ entries = [s \in SegIds |-> entries[s]]
        /\ entries' = [s \in SegIds |-> entries'[s]]
    BY <1>1, <1>2 DEF SidecarTypes
  <2> QED  BY <2>1, <2>2
<1>5. HeldByCatalog'
  <2> SUFFICES ASSUME "catalog" \in Hosts, NEW s \in SegIds,
                      s \in view'.segment_ids \/ entries'[s] # NoIndex
               PROVE  s < manifest'.next_seg_id
    BY DEF HeldByCatalog
  <2>1. s \in view.segment_ids \/ entries[s] # NoIndex
    OBVIOUS
  <2> QED  BY <2>1 DEF SidecarInv, HeldByCatalog, vars, disk
<1>6. \A s \in SegIds, p \in SUBSET Copies : Shows(s, p)' => Shows(s, p)
  BY DEF Shows, vars, process, disk
<1> QED  BY <1>2, <1>3, <1>4, <1>5, <1>6, StoreStillInv

\* A call of the cache keeps the invariant.
LEMMA CacheNextInv ==
  ASSUME SidecarInv, CacheEnds, CacheNext
  PROVE  SidecarInv'
<1>1. PICK h \in Hosts :
        \/ \E s \in SegIds : GetOrBuild(h, s) \/ Invalidate(h, s) \/ Persist(h, s)
        \/ \E asked \in SUBSET SegIds : PersistMissing(h, asked)
        \/ Retain(h)
  BY DEF CacheNext
<1>3. /\ idx \in [SegIds -> (SUBSET Copies) \cup {NoIndex, Damaged}]
      /\ entries \in [SegIds -> (SUBSET Copies) \cup {NoIndex}]
  BY DEF SidecarInv, SidecarTypes
<1>4. ASSUME NEW s \in SegIds, GetOrBuild(h, s)
      PROVE  SidecarInv'
  <2>1. s \in SegmentsOf(h).segment_ids /\ (h = "writer" => phase = "open")
    BY <1>4 DEF GetOrBuild, Holds, CanAsk
  <2>2. phase = "down" => Keeps
    BY <2>1 DEF SegmentsOf, SidecarInv, NothingHeld
  <2> QED  BY <1>4, <2>2, GetOrBuildInv
<1>5. ASSUME NEW s \in SegIds, Invalidate(h, s)
      PROVE  SidecarInv'
  BY <1>3, <1>5, FewerIndexesInv DEF Invalidate
<1>6. ASSUME NEW s \in SegIds, Persist(h, s)
      PROVE  SidecarInv'
  BY <1>3, <1>6, FewerIndexesInv DEF Persist
<1>7. ASSUME NEW asked \in SUBSET SegIds, PersistMissing(h, asked)
      PROVE  SidecarInv'
  BY <1>3, <1>7, FewerIndexesInv DEF PersistMissing
<1>8. ASSUME Retain(h)
      PROVE  SidecarInv'
  BY <1>3, <1>8, FewerIndexesInv DEF Retain
<1> QED  BY <1>1, <1>4, <1>5, <1>6, <1>7, <1>8

\* So does a sidecar that goes or rots.
LEMMA SpoilInv ==
  ASSUME SidecarInv, NEW s \in SegIds, Spoil(s)
  PROVE  SidecarInv'
<1>1. /\ idx \in [SegIds -> (SUBSET Copies) \cup {NoIndex, Damaged}]
      /\ entries \in [SegIds -> (SUBSET Copies) \cup {NoIndex}]
  BY DEF SidecarInv, SidecarTypes
<1> QED  BY <1>1, FewerIndexesInv DEF Spoil

\* And a snapshot that is taken.
LEMMA TakeViewInv ==
  ASSUME SidecarInv, TakeView
  PROVE  SidecarInv'
<1>1. /\ phase # "down" /\ view' = published /\ "view" \in Hosts
      /\ UNCHANGED <<vars, idx, entries>>
  BY DEF TakeView
<1>2. SidecarTypes'
  BY <1>1 DEF SidecarInv, SidecarTypes, StoreInv, TypeOK
<1>3. \A s \in SegIds : Indexes(s)' = Indexes(s)
  BY <1>1 DEF Indexes
<1>4. \A s \in SegIds, p \in SUBSET Copies : Shows(s, p)' => Shows(s, p)
  BY <1>1 DEF Shows, vars, process, disk
<1>5. HeldByCatalog'
  BY <1>1, SidecarAssumption DEF HeldByCatalog
<1> QED  BY <1>1, <1>2, <1>3, <1>4, <1>5, StoreStillInv

-----------------------------------------------------------------------------
(* The steps of the writer and of open.                                    *)

\* Growing is transitive where what was merged away was drawn before.
LEMMA MergedGrown ==
  ASSUME NEW m \in Memory, NEW n \in Memory, Grown(mem, m), mem \in Memory,
         NEW group \in SUBSET m.segment_ids, MemInv(m), HasRoom(m),
         n.next_seg_id = MergeGroup(m, group).next_seg_id,
         n.segment_ids = MergeGroup(m, group).segment_ids,
         n.segments = MergeGroup(m, group).segments
  PROVE  Grown(mem, n)
<1>1. /\ m.next_seg_id <= n.next_seg_id
      /\ \A s \in n.segment_ids :
           \/ s \in m.segment_ids /\ n.segments[s] = m.segments[s]
           \/ s = m.next_seg_id
  BY MergeGrows DEF Memory
<1>2. /\ mem.next_seg_id \in Int /\ m.next_seg_id \in Int /\ n.next_seg_id \in Int
  BY DEF Memory
<1> QED  BY <1>1, <1>2 DEF Grown

\* A step of the writer drops segments and adds segments with fresh ids.
LEMMA WriterGrows ==
  ASSUME StoreInv, WriterNext \/ Replay \/ OpenDone
  PROVE  Grown(mem, mem')
<1>1. mem \in Memory /\ MemInv(mem)
  BY DEF StoreInv, TypeOK
<1>2. CASE mem' = mem
  BY <1>1, <1>2 DEF Grown, Memory
<1>3. CASE HasRoom(mem) /\ \E op \in Ops : mem' = Applied(mem, op)
  BY <1>1, <1>3, AppliedInv
<1>4. CASE RoomToFlush /\ mem' = FlushBuffer(mem)
  BY <1>1, <1>4, FlushGrows DEF RoomToFlush
<1>5. ASSUME NEW m \in {FlushBuffer(mem)}, RoomToMerge,
             NEW group \in SUBSET m.segment_ids,
             \/ mem' = MergeGroup(m, group) \/ mem' = Purged(MergeGroup(m, group))
             \/ mem' = BurnId(m) \/ mem' = Purged(m)
      PROVE  Grown(mem, mem')
  <2>1. m \in Memory /\ MemInv(m) /\ Grown(mem, m) /\ HasRoom(m)
    BY <1>5, SealedForMerge
  <2>2. /\ MergeGroup(m, group) \in Memory
        /\ Purged(MergeGroup(m, group)) \in Memory
    <3>1. group \in SUBSET SegIds
      BY <2>1 DEF Memory
    <3> QED  BY <2>1, <3>1, MergeGroupType, PurgedType
  <2>3. CASE mem' = MergeGroup(m, group)
    BY <1>1, <2>1, <2>2, <2>3, MergedGrown
  <2>4. CASE mem' = Purged(MergeGroup(m, group))
    BY <1>1, <2>1, <2>2, <2>4, MergedGrown, PurgedFields
  <2>5. CASE mem' = BurnId(m)
    <3>1. /\ mem'.next_seg_id = m.next_seg_id + 1
          /\ mem'.segment_ids = m.segment_ids
          /\ mem'.segments = m.segments
      BY <2>1, <2>5 DEF BurnId, Memory
    <3> QED  BY <1>1, <2>1, <3>1 DEF Grown, Memory
  <2>6. CASE mem' = Purged(m)
    BY <2>1, <2>6, PurgedFields DEF Grown
  <2> QED  BY <1>5, <2>3, <2>4, <2>5, <2>6
<1> QED
  BY <1>2, <1>3, <1>4, <1>5, WriterMemory

\* What the directory shows under the two manifests is what it showed, or what
\* the writer has.
LEMMA WriterManifests ==
  ASSUME StoreInv, WriterNext \/ Replay \/ OpenDone, NEW s \in SegIds,
         s \in manifest'.segment_ids \cup prior'.segment_ids
  PROVE  /\ files'[s] = files[s]
         /\ \/ s \in manifest.segment_ids \cup prior.segment_ids
            \/ s \in mem.segment_ids /\ files[s] = mem.segments[s]
<1>1. CASE UNCHANGED <<manifest, prior>>
  <2>1. Next
    BY DEF Next
  <2>2. ASSUME NEW c \in {manifest, prior}, s \in c.segment_ids
        PROVE  files'[s] = files[s]
    BY <1>1, <2>1, <2>2, FilesKept
  <2> QED  BY <1>1, <2>2
<1>2. CASE WriteManifest
  <2>1. /\ files' = files /\ mem' = mem /\ mem \in Memory
        /\ mem.segment_ids \subseteq persisted_ids
        /\ phase # "down"
    BY <1>2, RetainedSame DEF WriteManifest, StoreInv, TypeOK, Unpersisted
  <2>2. \A t \in mem.segment_ids : files[t] = mem.segments[t]
    BY <2>1 DEF StoreInv, SegmentsPlaced
  <2>3. NewManifest(mem').segment_ids = mem.segment_ids
    BY <2>1 DEF NewManifest
  <2>4. /\ manifest' \in {manifest, NewManifest(mem')}
        /\ prior' \in {prior, manifest'}
    BY <1>2 DEF WriteManifest
  <2> QED  BY <2>1, <2>2, <2>3, <2>4
<1>3. WriteManifest \/ UNCHANGED <<manifest, prior>>
  BY DEF WriterNext, Write, WriteFails, ExtendItem, ExtendSync, FlushOnly, Merge,
     Compact, MergeFrame, CheckpointRefused, CheckpointStart, PersistNext,
     RotateAndGc, Republish, Replay, OpenDone, disk
<1> QED  BY <1>1, <1>2, <1>3

\* The id source of the manifest never goes back while the writer lives.
LEMMA WriterCounts ==
  ASSUME StoreInv, WriterNext \/ Replay \/ OpenDone
  PROVE  manifest.next_seg_id <= manifest'.next_seg_id
<1>1. manifest \in Manifests
  BY DEF StoreInv, TypeOK
<1>2. CASE UNCHANGED manifest
  BY <1>1, <1>2 DEF Manifests
<1>3. CASE WriteManifest
  <2>1. mem' = mem /\ mem \in Memory /\ phase # "down"
    BY <1>3, RetainedSame DEF WriteManifest, StoreInv, TypeOK
  <2>2. manifest' = manifest \/ manifest'.next_seg_id = mem.next_seg_id
    BY <1>3, <2>1 DEF WriteManifest, NewManifest
  <2> QED  BY <1>2, <2>1, <2>2 DEF StoreInv, IdsAhead
<1>4. WriteManifest \/ UNCHANGED manifest
  BY DEF WriterNext, Write, WriteFails, ExtendItem, ExtendSync, FlushOnly, Merge,
     Compact, MergeFrame, CheckpointRefused, CheckpointStart, PersistNext,
     RotateAndGc, Republish, Replay, OpenDone, disk
<1> QED  BY <1>2, <1>3, <1>4

\* The readers' snapshot stays, or becomes the writer's.
LEMMA WriterPublishes ==
  ASSUME WriterNext \/ Replay \/ OpenDone
  PROVE  /\ published' = published \/ published' = Snapshot(mem)
         /\ phase # "down" /\ phase' # "down"
BY DEF WriterNext, Write, WriteFails, ExtendItem, ExtendSync, FlushOnly, Merge,
   MergeFails, Compact, MergeFrame, CheckpointRefused, CheckpointStart,
   PersistNext, WriteManifest, RotateAndGc, Republish, Replay, OpenDone, disk

\* A segment that was drawn is shown as before; a fresh one by the writer only.
LEMMA WriterShows ==
  ASSUME SidecarInv, WriterNext \/ Replay \/ OpenDone, view' = view,
         NEW s \in SegIds, NEW p, Shows(s, p)'
  PROVE  \/ Shows(s, p)
         \/ /\ mem.next_seg_id <= s
            /\ s \in mem'.segment_ids /\ p = mem'.segments[s]
<1>1. StoreInv /\ Grown(mem, mem')
  BY WriterGrows DEF SidecarInv
<1>2. CASE s \in mem'.segment_ids /\ p = mem'.segments[s]
  BY <1>1, <1>2 DEF Grown, Shows
<1>3. CASE s \in published'.segment_ids /\ p = published'.segments[s]
  BY <1>3, WriterPublishes DEF Snapshot, Shows
<1>4. CASE s \in manifest'.segment_ids \cup prior'.segment_ids /\ p = files'[s]
  BY <1>1, <1>4, WriterManifests DEF Shows
<1> QED  BY <1>2, <1>3, <1>4 DEF Shows

\* A step of the writer, or a later one of open, keeps the invariant: what is
\* cached is of drawn ids, and these show what they showed.
LEMMA WriterSidecarInv ==
  ASSUME SidecarInv, WriterNext \/ Replay \/ OpenDone,
         UNCHANGED <<entries, view>>, SidecarTypes',
         \A s \in SegIds : idx'[s] \in {idx[s], NoIndex}
  PROVE  SidecarInv'
<1>1. StoreInv' /\ StoreInv
  <2>1. Next
    BY DEF Next
  <2> QED  BY <2>1, NextInv DEF SidecarInv
<1>2. /\ Grown(mem, mem') /\ phase # "down" /\ phase' # "down"
      /\ published' = published \/ published' = Snapshot(mem)
      /\ mem \in Memory /\ mem' \in Memory
  BY <1>1, WriterGrows, WriterPublishes DEF StoreInv, TypeOK
<1>3. /\ mem.next_seg_id \in Int /\ mem'.next_seg_id \in Int
      /\ mem.next_seg_id <= mem'.next_seg_id
  BY <1>2 DEF Memory, Grown
<1>4. \A s \in SegIds : Indexes(s)' \subseteq Indexes(s)
  BY DEF Indexes
<1>5. ASSUME NEW s \in SegIds, NEW p \in SUBSET Copies, Shows(s, p)'
      PROVE  \/ Shows(s, p) /\ s < mem.next_seg_id
             \/ ~(s < mem.next_seg_id) /\ p = mem'.segments[s]
  <2>1. CASE Shows(s, p)
    BY <1>2, <2>1, ShownDrawn
  <2>2. CASE mem.next_seg_id <= s /\ p = mem'.segments[s]
    BY <1>3, <2>2
  <2> QED  BY <1>5, <2>1, <2>2, WriterShows
<1>6. OnePayload'
  <2> SUFFICES ASSUME NEW s \in SegIds, NEW p \in SUBSET Copies,
                      NEW q \in SUBSET Copies, Shows(s, p)', Shows(s, q)'
               PROVE  p = q
    BY DEF OnePayload
  <2>1. \/ Shows(s, p) /\ Shows(s, q)
        \/ p = mem'.segments[s] /\ q = mem'.segments[s]
    BY <1>5
  <2> QED  BY <2>1 DEF SidecarInv, OnePayload
<1>7. IndexesFit'
  <2> SUFFICES ASSUME NEW s \in SegIds, NEW p \in SUBSET Copies, Shows(s, p)',
                      NEW x \in Indexes(s)'
               PROVE  PartOf(x, p)
    BY DEF IndexesFit
  <2>1. x \in Indexes(s) /\ s < mem.next_seg_id
    BY <1>2, <1>4 DEF SidecarInv, Drawn
  <2>2. Shows(s, p)
    BY <1>5, <2>1
  <2> QED  BY <2>1, <2>2 DEF SidecarInv, IndexesFit
<1>8. Drawn'
  <2> SUFFICES ASSUME NEW s \in SegIds,
                      \/ s \in view.segment_ids \/ s \in published'.segment_ids
                      \/ Indexes(s)' # {}
               PROVE  s < mem'.next_seg_id
    BY DEF Drawn
  <2>1. s < mem.next_seg_id
    <3>1. CASE s \in view.segment_ids \/ s \in published.segment_ids
      BY <1>2, <3>1 DEF SidecarInv, Drawn
    <3>2. CASE s \in published'.segment_ids /\ published' = Snapshot(mem)
      BY <1>1, <3>2 DEF Snapshot, StoreInv, MemInv
    <3>3. CASE Indexes(s)' # {}
      BY <1>2, <1>4, <3>3 DEF SidecarInv, Drawn
    <3> QED  BY <1>2, <3>1, <3>2, <3>3
  <2> QED  BY <1>3, <2>1
<1>9. NothingHeld'
  BY <1>2 DEF NothingHeld
<1>10. HeldByCatalog'
  <2>1. manifest.next_seg_id <= manifest'.next_seg_id
    BY <1>1, WriterCounts
  <2>2. manifest.next_seg_id \in Int /\ manifest'.next_seg_id \in Int
    BY <1>1 DEF StoreInv, TypeOK, Manifests
  <2> QED  BY <2>1, <2>2 DEF SidecarInv, HeldByCatalog
<1> QED  BY <1>1, <1>6, <1>7, <1>8, <1>9, <1>10 DEF SidecarInv

\* Collecting takes sidecars of garbage, and all of them where no deletion fails.
LEMMA CollectIndexesFacts ==
  ASSUME NEW garbage, CollectIndexes(garbage)
  PROVE  /\ DOMAIN idx' = SegIds
         /\ \A s \in SegIds :
              /\ idx'[s] \in {idx[s], NoIndex}
              /\ s \notin garbage => idx'[s] = idx[s]
              /\ s \in garbage /\ "delete" \notin Faults => idx'[s] = NoIndex
BY DEF CollectIndexes, LeftOf

LEMMA CollectIndexesTypes ==
  ASSUME SidecarTypes, NEW garbage, CollectIndexes(garbage)
  PROVE  idx' \in [SegIds -> (SUBSET Copies) \cup {NoIndex, Damaged}]
<1>1. PICK left :
        idx' = [s \in SegIds |-> IF s \in garbage \ left THEN NoIndex ELSE idx[s]]
  BY DEF CollectIndexes
<1> QED  BY <1>1 DEF SidecarTypes

\* The writer's step with what it collects.
LEMMA WriterStepInv ==
  ASSUME SidecarInv, WriterStep
  PROVE  SidecarInv'
<1>1. /\ WriterNext /\ UNCHANGED <<entries, view>> /\ SidecarTypes
      /\ CollectIndexes(SegIds \ mem.segment_ids) \/ UNCHANGED idx
  BY DEF WriterStep, SidecarInv
<1>2. idx' \in [SegIds -> (SUBSET Copies) \cup {NoIndex, Damaged}]
  BY <1>1, CollectIndexesTypes DEF SidecarTypes
<1>3. SidecarTypes'
  BY <1>1, <1>2 DEF SidecarTypes
<1>4. \A s \in SegIds : idx'[s] \in {idx[s], NoIndex}
  BY <1>1, CollectIndexesFacts
<1> QED  BY <1>1, <1>3, <1>4, WriterSidecarInv

\* What open loads is what the directory shows.
LEMMA OpenLoadFacts ==
  ASSUME SidecarInv, OpenLoad
  PROVE  /\ phase = "down" /\ phase' = "replay"
         /\ manifest' = manifest /\ prior' = manifest
         /\ mem'.segment_ids = manifest.segment_ids
         /\ mem'.next_seg_id = manifest.next_seg_id
         /\ published'.segment_ids = manifest.segment_ids
         /\ published'.segments = mem'.segments
         /\ \A s \in manifest.segment_ids :
              /\ s \in SegIds
              /\ mem'.segments[s] = files[s] /\ files'[s] = files[s]
<1>1. manifest \in Manifests
  BY DEF SidecarInv, StoreInv, TypeOK
<1>2. /\ phase = "down" /\ phase' = "replay"
      /\ mem' = Load(manifest, files) /\ published' = Snapshot(mem')
      /\ manifest' = manifest /\ prior' = manifest
  BY DEF OpenLoad
<1>3. /\ mem'.segment_ids = manifest.segment_ids
      /\ mem'.next_seg_id = manifest.next_seg_id
      /\ \A s \in manifest.segment_ids : s \in SegIds /\ mem'.segments[s] = files[s]
      /\ published'.segment_ids = manifest.segment_ids
      /\ published'.segments = mem'.segments
  BY <1>1, <1>2 DEF Load, Snapshot, Manifests
<1>4. \A s \in manifest.segment_ids : files'[s] = files[s]
  BY <1>2, FilesKept DEF SidecarInv, Next
<1> QED  BY <1>2, <1>3, <1>4

LEMMA OpenLoadShows ==
  ASSUME SidecarInv, OpenLoad, view' = view, NEW s \in SegIds, NEW p, Shows(s, p)'
  PROVE  Shows(s, p)
BY OpenLoadFacts DEF Shows

\* open: whatever is left of ids that the manifest does not know is collected,
\* so that no fresh segment meets the index of another one.
LEMMA OpenLoadSidecarInv ==
  ASSUME SidecarInv, CacheEnds, OpenLoad,
         CollectIndexes(SegIds \ manifest.segment_ids), UNCHANGED <<entries, view>>
  PROVE  SidecarInv'
<1>1. /\ StoreInv /\ StoreInv' /\ SidecarTypes
      /\ manifest \in Manifests /\ DiskInv(manifest, files)
  BY NextInv DEF SidecarInv, StoreInv, TypeOK, Next
<1>2. /\ phase = "down" /\ phase' = "replay"
      /\ manifest' = manifest /\ prior' = manifest
      /\ mem'.segment_ids = manifest.segment_ids
      /\ mem'.next_seg_id = manifest.next_seg_id
      /\ published'.segment_ids = manifest.segment_ids
  BY OpenLoadFacts
<1>5. /\ view' = view /\ entries' = entries
      /\ \A s \in SegIds :
           s \in view.segment_ids \/ entries[s] # NoIndex => s < manifest.next_seg_id
  BY <1>2 DEF SidecarInv, NothingHeld, HeldByCatalog, CacheEnds
<1>6. ASSUME NEW s \in SegIds, NEW x \in Indexes(s)'
      PROVE  x \in Indexes(s) /\ (s \in manifest.segment_ids \/ entries[s] # NoIndex)
  <2>1. CASE x = entries[s] /\ x # NoIndex
    BY <2>1 DEF Indexes
  <2>2. CASE x = idx'[s] /\ x \notin {NoIndex, Damaged}
    <3>1. s \in manifest.segment_ids /\ x = idx[s]
      BY <2>2, CollectIndexesFacts DEF CacheEnds
    <3> QED  BY <2>2, <3>1 DEF Indexes
  <2> QED  BY <1>5, <1>6, <2>1, <2>2 DEF Indexes
<1>7. ASSUME NEW s \in SegIds, NEW p, Shows(s, p)'
      PROVE  Shows(s, p)
  BY <1>5, <1>7, OpenLoadShows
<1>8. OnePayload'
  BY <1>7 DEF SidecarInv, OnePayload
<1>9. IndexesFit'
  <2> SUFFICES ASSUME NEW s \in SegIds, NEW p \in SUBSET Copies, Shows(s, p)',
                      NEW x \in Indexes(s)'
               PROVE  PartOf(x, p)
    BY DEF IndexesFit
  <2> QED  BY <1>6, <1>7 DEF SidecarInv, IndexesFit
<1>10. Drawn'
  <2> SUFFICES ASSUME NEW s \in SegIds,
                      \/ s \in view'.segment_ids \/ s \in published'.segment_ids
                      \/ Indexes(s)' # {}
               PROVE  s < mem'.next_seg_id
    BY DEF Drawn
  <2>1. \/ s \in manifest.segment_ids
        \/ s \in view.segment_ids \/ entries[s] # NoIndex
    BY <1>2, <1>5, <1>6
  <2> QED  BY <1>1, <1>2, <1>5, <2>1 DEF DiskInv
<1>11. SidecarTypes'
  BY <1>1, <1>5, CollectIndexesTypes DEF SidecarTypes
<1>12. NothingHeld' /\ HeldByCatalog'
  BY <1>2, <1>5 DEF NothingHeld, HeldByCatalog
<1> QED  BY <1>1, <1>8, <1>9, <1>10, <1>11, <1>12 DEF SidecarInv

\* A step of open keeps the invariant.
LEMMA OpenStepInv ==
  ASSUME SidecarInv, CacheEnds, OpenStep
  PROVE  SidecarInv'
<1>1. UNCHANGED <<entries, view>>
  BY DEF OpenStep
<1>2. CASE OpenLoad /\ CollectIndexes(SegIds \ manifest.segment_ids)
  BY <1>1, <1>2, OpenLoadSidecarInv
<1>3. CASE (Replay \/ OpenDone) /\ UNCHANGED idx
  <2>1. SidecarTypes'
    BY <1>1, <1>3 DEF SidecarInv, SidecarTypes
  <2> QED  BY <1>1, <1>3, <2>1, WriterSidecarInv
<1> QED  BY <1>2, <1>3 DEF OpenStep

\* A stop leaves the files, and what the two manifests name of them.
LEMMA StopFacts ==
  ASSUME \/ ProcessCrash /\ UNCHANGED <<entries, view>> /\ "catalog" \in Hosts
         \/ (ProcessCrash \/ PowerLoss) /\ Forget
  PROVE  /\ phase' = "down" /\ mem'.segment_ids = {} /\ files' = files
         /\ published'.segment_ids = {}
         /\ manifest' \in {manifest, prior} /\ prior' \in {manifest, prior}
         /\ \/ /\ entries' = entries /\ view' = view /\ manifest' = manifest
               /\ "catalog" \in Hosts
            \/ /\ \A s \in SegIds : entries'[s] = NoIndex
               /\ entries' = [s \in SegIds |-> NoIndex]
               /\ view' = NoView /\ view'.segment_ids = {}
<1>1. /\ phase' = "down" /\ mem'.segment_ids = {} /\ files' = files
      /\ published'.segment_ids = {}
      /\ manifest' \in {manifest, prior} /\ prior' \in {manifest, prior}
  BY DEF ProcessCrash, PowerLoss, Stop, EmptyMemory, Snapshot
<1>2. CASE ProcessCrash /\ UNCHANGED <<entries, view>> /\ "catalog" \in Hosts
  BY <1>1, <1>2 DEF ProcessCrash
<1>3. CASE Forget
  BY <1>1, <1>3 DEF Forget, NoView, Snapshot, EmptyMemory
<1> QED  BY <1>2, <1>3

LEMMA StopShows ==
  ASSUME \/ ProcessCrash /\ UNCHANGED <<entries, view>> /\ "catalog" \in Hosts
         \/ (ProcessCrash \/ PowerLoss) /\ Forget,
         NEW s \in SegIds, NEW p, Shows(s, p)'
  PROVE  Shows(s, p)
BY StopFacts DEF Shows

\* And shows no more than there was.
LEMMA StopSidecarInv ==
  ASSUME SidecarInv, UNCHANGED idx,
         \/ ProcessCrash /\ UNCHANGED <<entries, view>> /\ "catalog" \in Hosts
         \/ (ProcessCrash \/ PowerLoss) /\ Forget
  PROVE  SidecarInv'
<1>1. StoreInv'
  BY NextInv DEF SidecarInv, Next
<1>2. /\ phase' = "down" /\ mem'.segment_ids = {} /\ published'.segment_ids = {}
  BY StopFacts
<1>3. \/ /\ entries' = entries /\ view' = view /\ manifest' = manifest
         /\ "catalog" \in Hosts
      \/ /\ \A s \in SegIds : entries'[s] = NoIndex
         /\ entries' = [s \in SegIds |-> NoIndex]
         /\ view' = NoView /\ view'.segment_ids = {}
  BY StopFacts
<1>4. ASSUME NEW s \in SegIds, NEW p, Shows(s, p)'
      PROVE  Shows(s, p)
  BY <1>4, StopShows
<1>5. \A s \in SegIds : Indexes(s)' \subseteq Indexes(s)
  BY <1>3 DEF Indexes
<1>6. OnePayload' /\ IndexesFit'
  BY <1>4, <1>5 DEF SidecarInv, OnePayload, IndexesFit
<1>7. NoView \in Snapshots
  BY EmptyMemoryType, SnapshotType DEF NoView
<1>8. SidecarTypes'
  BY <1>3, <1>7 DEF SidecarInv, SidecarTypes
<1>9. Drawn' /\ NothingHeld' /\ HeldByCatalog'
  BY <1>2, <1>3, SidecarAssumption
     DEF Drawn, NothingHeld, SidecarInv, HeldByCatalog
<1> QED  BY <1>1, <1>6, <1>8, <1>9 DEF SidecarInv

-----------------------------------------------------------------------------
(* The theorems.                                                           *)

LEMMA SidecarInitInv == SInit => SidecarInv
<1> SUFFICES ASSUME SInit
             PROVE  SidecarInv
  OBVIOUS
<1>1. StoreInv
  BY InitInv DEF SInit
<1>2. NoView \in Snapshots
  BY EmptyMemoryType, SnapshotType DEF NoView
<1>3. SidecarTypes
  BY <1>2 DEF SInit, SidecarTypes
<1>4. /\ phase = "down" /\ mem.segment_ids = {} /\ published.segment_ids = {}
      /\ view.segment_ids = {} /\ manifest.segment_ids = {}
      /\ prior.segment_ids = {}
      /\ \A s \in SegIds : entries[s] = NoIndex
  BY DEF SInit, Init, NoView, Snapshot, EmptyMemory, NoManifest
<1>5. \A s \in SegIds, p \in SUBSET Copies : ~Shows(s, p)
  BY <1>4 DEF Shows
<1>6. OnePayload /\ IndexesFit
  BY <1>5 DEF OnePayload, IndexesFit
<1> QED  BY <1>1, <1>3, <1>4, <1>6 DEF SidecarInv, Drawn, NothingHeld, HeldByCatalog

LEMMA SidecarNextInv ==
  ASSUME CacheEnds, SidecarInv, [SNext]_sVars
  PROVE  SidecarInv'
<1>1. CASE \E s \in SegIds : Spoil(s)
  BY <1>1, SpoilInv
<1>2. CASE CacheNext \/ TakeView \/ WriterStep \/ OpenStep
  BY <1>2, CacheNextInv, TakeViewInv, WriterStepInv, OpenStepInv
<1>3. CASE WriterStops \/ MachineStops
  BY <1>3, StopSidecarInv DEF WriterStops, MachineStops, CacheEnds
<1>4. CASE UNCHANGED sVars
  <2>1. UNCHANGED <<vars, idx, entries, view>>
    BY <1>4 DEF sVars
  <2>2. SidecarTypes'
    BY <2>1 DEF SidecarInv, SidecarTypes
  <2>3. \A s \in SegIds : Indexes(s)' = Indexes(s)
    BY <2>1 DEF Indexes
  <2>4. \A s \in SegIds, p \in SUBSET Copies : Shows(s, p)' => Shows(s, p)
    BY <2>1 DEF Shows, vars, process, disk
  <2>5. HeldByCatalog'
    BY <2>1 DEF SidecarInv, HeldByCatalog, vars, disk
  <2> QED  BY <2>1, <2>2, <2>3, <2>4, <2>5, StoreStillInv
<1> QED  BY <1>1, <1>2, <1>3, <1>4 DEF SNext

LEMMA InvServesCurrent == SidecarInv => ServedIsCurrent
<1> SUFFICES ASSUME SidecarInv, NEW h \in Hosts, NEW s \in SegmentsOf(h).segment_ids
             PROVE  Served(h, s) \in {IndexOf(h, s)} \cup
                      (IF Source(h, s) = {} THEN {NoIndex} ELSE {})
  BY DEF ServedIsCurrent
<1> QED  BY ServedFits

\* What get_or_build returns is the index of the copies that are live for the
\* host that asks, and none only where there is nothing to build it from.
THEOREM ServedAlwaysCurrent == CacheEnds => (SSpec => []ServedIsCurrent)
<1> SUFFICES ASSUME CacheEnds
             PROVE  SSpec => []ServedIsCurrent
  OBVIOUS
<1>1. SidecarInv => ServedIsCurrent
  BY InvServesCurrent
<1>2. SInit => SidecarInv
  BY SidecarInitInv
<1>3. SidecarInv /\ [SNext]_sVars => SidecarInv'
  BY SidecarNextInv
<1> QED  BY <1>1, <1>2, <1>3, PTL DEF SSpec

\* Whatever the cache does, the store is a store.
LEMMA SidecarStoreStep == [SNext]_sVars => [Next]_vars
BY DEF SNext, sVars, CacheNext, GetOrBuild, Invalidate, Persist, PersistMissing,
   Retain, Spoil, TakeView, WriterStep, OpenStep, WriterStops, MachineStops, Next

LEMMA SidecarStoreInv == SSpec => []StoreInv
<1>1. SInit => StoreInv
  BY InitInv DEF SInit
<1>2. StoreInv /\ [SNext]_sVars => StoreInv'
  BY SidecarStoreStep, NextInv
<1> QED  BY <1>1, <1>2, PTL DEF SSpec

\* A step that moves the store takes no sidecar of a segment the manifest names
\* before and after it.
LEMMA SidecarsKeptStep ==
  ASSUME StoreInv, SNext,
         NEW s \in manifest.segment_ids \cap manifest'.segment_ids,
         idx'[s] # idx[s]
  PROVE  UNCHANGED vars
<1>1. CASE CacheNext \/ (\E t \in SegIds : Spoil(t)) \/ TakeView
  BY <1>1 DEF CacheNext, GetOrBuild, Invalidate, Persist, PersistMissing, Retain,
     Spoil, TakeView
<1>2. CASE WriterStep
  <2>1. phase = "rotate" /\ CollectIndexes(SegIds \ mem.segment_ids)
    BY <1>2 DEF WriterStep
  <2>2. s \in mem.segment_ids /\ s \in SegIds
    BY <2>1 DEF StoreInv, TypeOK, Memory
  <2> QED  BY <2>1, <2>2, CollectIndexesFacts
<1>3. CASE OpenStep
  <2>1. CollectIndexes(SegIds \ manifest.segment_ids)
    BY <1>3 DEF OpenStep
  <2>2. s \in SegIds
    BY DEF StoreInv, TypeOK, Manifests
  <2> QED  BY <2>1, <2>2, CollectIndexesFacts
<1>4. CASE WriterStops \/ MachineStops
  BY <1>4 DEF WriterStops, MachineStops
<1> QED  BY <1>1, <1>2, <1>3, <1>4 DEF SNext

\* Only a call of the cache or the disk takes the sidecar of a segment the
\* manifest names: no write, merge, checkpoint, collection, crash or open does.
THEOREM SidecarsAlwaysKept == SSpec => SidecarsKept
<1>1. StoreInv /\ [SNext]_sVars =>
        [\A s \in manifest.segment_ids \cap manifest'.segment_ids :
           idx'[s] # idx[s] => UNCHANGED vars]_sVars
  BY SidecarsKeptStep
<1>2. SSpec => [][\A s \in manifest.segment_ids \cap manifest'.segment_ids :
                    idx'[s] # idx[s] => UNCHANGED vars]_sVars
  BY <1>1, SidecarStoreInv, PTL DEF SSpec
<1> QED  BY <1>2 DEF SidecarsKept

-----------------------------------------------------------------------------
(* The indexes of the examples, which stand for whole segments and are     *)
(* read by another process.                                                *)

\* An index of a whole segment is all of the payload its segment is shown with.
WholeFit ==
  kind = "whole" =>
    \A s \in SegIds, p \in SUBSET Copies :
      Shows(s, p) => idx[s] \in {p, NoIndex, Damaged}

\* The files of a catalog's segments are as it found them, or gone.
ViewFiles == \A s \in view.segment_ids : files[s] \in {view.segments[s], {}}

\* A catalog's store lists no ids.
NoMarks == Unmarked /\ view.superseded = NoSupersessions

IndexInv ==
  /\ SidecarInv
  /\ WholeFit
  /\ ViewFiles
  /\ NoMarks

\* What the theorems are about: the stores of the examples, which list no ids
\* and are searched by another process, and deletions that do not fail.
ExampleStores == ~TracksIds /\ Hosts = {"catalog"}

FilesGo == "delete" \notin Faults

LEMMA ExampleCacheEnds ==
  ASSUME ExampleStores, FilesGo
  PROVE  CacheEnds /\ "catalog" \in Hosts /\ Keeps
BY SidecarAssumption DEF ExampleStores, FilesGo, CacheEnds

-----------------------------------------------------------------------------
(* The steps of the examples' processes.                                   *)

\* What the writer and the crashes do, but not the cache or another process.
StoreMoves == WriterStep \/ OpenStep \/ WriterStops \/ MachineStops

\* They show no segment that was not shown, but fresh ones.
LEMMA StillShown ==
  ASSUME SidecarInv, CacheEnds, StoreMoves, NEW s \in SegIds, NEW p, Shows(s, p)'
  PROVE  Shows(s, p) \/ (phase # "down" /\ ~(s < mem.next_seg_id))
<1>1. CASE WriterStep \/ (OpenStep /\ ~OpenLoad)
  <2>1. (WriterNext \/ Replay \/ OpenDone) /\ view' = view
    BY <1>1 DEF WriterStep, OpenStep
  <2>2. phase # "down" /\ mem.next_seg_id \in Int
    BY <2>1, WriterPublishes DEF SidecarInv, StoreInv, TypeOK, Memory
  <2>3. Shows(s, p) \/ mem.next_seg_id <= s
    BY <2>1, WriterShows
  <2> QED  BY <2>2, <2>3
<1>2. CASE OpenStep /\ OpenLoad
  BY <1>2, OpenLoadShows DEF OpenStep
<1>3. CASE WriterStops \/ MachineStops
  BY <1>3, StopShows DEF WriterStops, MachineStops, CacheEnds
<1> QED  BY <1>1, <1>2, <1>3 DEF StoreMoves

\* They take indexes, and add none.
LEMMA StillIndexed ==
  ASSUME StoreMoves, NEW s \in SegIds
  PROVE  idx'[s] \in {idx[s], NoIndex}
BY CollectIndexesFacts DEF StoreMoves, WriterStep, OpenStep, WriterStops, MachineStops

\* They are steps of the store, and keep what a catalog holds or drop it.
LEMMA MovesAreNext ==
  ASSUME StoreMoves
  PROVE  /\ Next
         /\ view' = view \/ (view'.segment_ids = {} /\ view'.superseded = NoSupersessions)
BY DEF StoreMoves, WriterStep, OpenStep, WriterStops, MachineStops, Next, Forget,
   NoView, Snapshot, EmptyMemory

LEMMA MovesIndexInv ==
  ASSUME IndexInv, ExampleStores, FilesGo, StoreMoves, kind' = kind
  PROVE  IndexInv'
<1>1. /\ SidecarInv /\ CacheEnds /\ "catalog" \in Hosts
  BY ExampleCacheEnds DEF IndexInv
<1>2. SidecarInv'
  <2>1. SNext
    BY DEF StoreMoves, SNext
  <2> QED  BY <1>1, <2>1, SidecarNextInv
<1>3. WholeFit'
  <2> SUFFICES ASSUME kind = "whole", NEW s \in SegIds, NEW p \in SUBSET Copies,
                      Shows(s, p)'
               PROVE  idx'[s] \in {p, NoIndex, Damaged}
    BY DEF WholeFit
  <2>1. CASE Shows(s, p)
    BY <2>1, StillIndexed DEF IndexInv, WholeFit
  <2>2. CASE phase # "down" /\ ~(s < mem.next_seg_id)
    <3>1. idx[s] \in {NoIndex, Damaged}
      BY <1>1, <2>2 DEF SidecarInv, Drawn, Indexes
    <3> QED  BY <3>1, StillIndexed
  <2> QED  BY <1>1, <2>1, <2>2, StillShown
<1>4. ViewFiles'
  <2> SUFFICES ASSUME NEW s \in view'.segment_ids
               PROVE  files'[s] \in {view'.segments[s], {}}
    BY DEF ViewFiles
  <2>1. s \in view.segment_ids /\ view' = view /\ s \in SegIds
    BY <1>1, MovesAreNext DEF SidecarInv, SidecarTypes, Snapshots
  <2>2. s < manifest.next_seg_id
    BY <1>1, <2>1 DEF SidecarInv, HeldByCatalog
  <2>3. files'[s] \in {files[s], {}}
    BY <1>1, <2>1, <2>2, MovesAreNext, FrozenStep DEF SidecarInv
  <2> QED  BY <2>1, <2>3 DEF IndexInv, ViewFiles
<1>5. NoMarks'
  <2>1. Unmarked'
    BY <1>1, MovesAreNext, NextUnmarked DEF IndexInv, NoMarks, ExampleStores, SidecarInv
  <2> QED  BY <2>1, MovesAreNext DEF IndexInv, NoMarks
<1> QED  BY <1>2, <1>3, <1>4, <1>5 DEF IndexInv

\* Where only the index files and the cache change, so does nothing else.
LEMMA QuietIndexInv ==
  ASSUME IndexInv, UNCHANGED <<vars, view, kind>>, SidecarInv',
         kind = "whole" =>
           \A s \in SegIds :
             \/ idx'[s] \in {idx[s], NoIndex, Damaged}
             \/ s \in mem.segment_ids /\ idx'[s] = mem.segments[s]
  PROVE  IndexInv'
<1>1. WholeFit'
  <2> SUFFICES ASSUME kind = "whole", NEW s \in SegIds, NEW p \in SUBSET Copies,
                      Shows(s, p)'
               PROVE  idx'[s] \in {p, NoIndex, Damaged}
    BY DEF WholeFit
  <2>1. Shows(s, p)
    BY DEF Shows, vars, process, disk
  <2>2. CASE idx'[s] \in {idx[s], NoIndex, Damaged}
    BY <2>1, <2>2 DEF IndexInv, WholeFit
  <2>3. CASE s \in mem.segment_ids /\ idx'[s] = mem.segments[s]
    <3>1. PICK q \in SUBSET Copies : q = mem.segments[s]
      BY DEF IndexInv, SidecarInv, StoreInv, TypeOK, Memory, Payloads
    <3>2. Shows(s, q)
      BY <2>3, <3>1 DEF Shows
    <3>3. p = q
      BY <2>1, <3>2 DEF IndexInv, SidecarInv, OnePayload
    <3> QED  BY <2>3, <3>1, <3>3
  <2> QED  BY <2>2, <2>3
<1>2. ViewFiles' /\ NoMarks'
  BY DEF IndexInv, ViewFiles, NoMarks, Unmarked, vars, process, disk
<1> QED  BY <1>1, <1>2 DEF IndexInv

\* The writer's consumer persists the index of a whole segment.
LEMMA PersistIndexInv ==
  ASSUME IndexInv, NEW s \in SegIds, PersistIndex(s), kind' = kind
  PROVE  IndexInv'
<1>1. /\ SidecarInv /\ SidecarTypes /\ phase = "open"
      /\ s \in mem.segment_ids
      /\ idx' = [idx EXCEPT ![s] = mem.segments[s]]
      /\ UNCHANGED <<vars, entries, view>>
  BY DEF IndexInv, SidecarInv, PersistIndex
<1>2. PICK p \in SUBSET Copies : p = mem.segments[s]
  BY <1>1 DEF SidecarInv, StoreInv, TypeOK, Memory, Payloads
<1>3. /\ Shows(s, p)
      /\ PartOf(p, p)
  BY <1>1, <1>2 DEF Shows, PartOf, IdsOf
<1>4. /\ idx' \in [SegIds -> (SUBSET Copies) \cup {NoIndex, Damaged}]
      /\ idx'[s] = p
      /\ \A t \in SegIds : t # s => idx'[t] = idx[t]
  BY <1>1, <1>2 DEF SidecarTypes
<1>5. SidecarTypes'
  BY <1>1, <1>4 DEF SidecarTypes
<1>6. HeldByCatalog'
  BY <1>1 DEF SidecarInv, HeldByCatalog, vars, disk
<1>7. \A t \in SegIds, q \in SUBSET Copies : Shows(t, q)' => Shows(t, q)
  BY <1>1 DEF Shows, vars, process, disk
<1>8. ASSUME NEW t \in SegIds, NEW x \in Indexes(t)'
      PROVE  x \in Indexes(t) \/ (t = s /\ x = p)
  BY <1>1, <1>4 DEF Indexes
<1>9. SidecarInv'
  BY <1>1, <1>2, <1>3, <1>5, <1>6, <1>7, <1>8, StoreStillInv
<1> QED  BY <1>1, <1>2, <1>4, <1>9, QuietIndexInv

\* A catalog is opened on what the manifest shows.
LEMMA OpenCatalogInv ==
  ASSUME IndexInv, ExampleStores, FilesGo, OpenCatalog, kind' = kind
  PROVE  IndexInv'
<1>1. /\ SidecarInv /\ SidecarTypes /\ StoreInv /\ Keeps
      /\ manifest \in Manifests /\ files \in Payloads /\ DiskInv(manifest, files)
  BY ExampleCacheEnds DEF IndexInv, SidecarInv, StoreInv, TypeOK
<1>2. /\ view'.segment_ids = manifest.segment_ids
      /\ view'.superseded = manifest.superseded
      /\ \A s \in manifest.segment_ids : s \in SegIds /\ view'.segments[s] = files[s]
      /\ UNCHANGED <<vars, idx, entries>>
  BY <1>1 DEF OpenCatalog, Manifests
<1>3. view' \in Snapshots
  BY <1>1 DEF OpenCatalog, Manifests, Snapshots, Payloads
<1>4. SidecarTypes'
  BY <1>1, <1>2, <1>3 DEF SidecarTypes
<1>5. HeldByCatalog'
  <2> SUFFICES ASSUME "catalog" \in Hosts, NEW s \in SegIds,
                      s \in manifest.segment_ids \/ entries[s] # NoIndex
               PROVE  s < manifest.next_seg_id
    BY <1>2 DEF HeldByCatalog, vars, disk
  <2> QED  BY <1>1 DEF SidecarInv, HeldByCatalog, DiskInv
<1>6. ASSUME NEW s \in SegIds, NEW p, Shows(s, p)'
      PROVE  Shows(s, p)
  BY <1>2, <1>6 DEF Shows, vars, process, disk
<1>7. \A s \in SegIds : Indexes(s)' = Indexes(s)
  BY <1>2 DEF Indexes
<1>8. SidecarInv'
  BY <1>1, <1>2, <1>4, <1>5, <1>6, <1>7, StoreStillInv
<1>9. WholeFit'
  BY <1>2, <1>6 DEF IndexInv, WholeFit
<1>10. ViewFiles' /\ NoMarks'
  BY <1>2 DEF IndexInv, ViewFiles, NoMarks, Unmarked, vars, process, disk
<1> QED  BY <1>8, <1>9, <1>10 DEF IndexInv

LEMMA IndexNextInv ==
  ASSUME ExampleStores, FilesGo, IndexInv, [INext]_iVars
  PROVE  IndexInv'
<1>1. SidecarInv /\ CacheEnds
  BY ExampleCacheEnds DEF IndexInv
<1>2. CASE UNCHANGED iVars
  <2>1. UNCHANGED <<vars, idx, entries, view, kind>> /\ UNCHANGED sVars
    BY <1>2 DEF iVars, sVars
  <2>2. SidecarInv'
    BY <1>1, <2>1, SidecarNextInv
  <2> QED  BY <2>1, <2>2, QuietIndexInv
<1>3. ASSUME NEW s \in SegIds, PersistIndex(s), kind' = kind
      PROVE  IndexInv'
  BY <1>3, PersistIndexInv
<1>4. ASSUME kind = "live", CacheNext, kind' = kind
      PROVE  IndexInv'
  <2>1. UNCHANGED <<vars, view>>
    BY <1>4 DEF CacheNext, GetOrBuild, Invalidate, Persist, PersistMissing, Retain
  <2> QED  BY <1>1, <1>4, <2>1, CacheNextInv, QuietIndexInv
<1>5. ASSUME NEW s \in SegIds, Spoil(s), kind' = kind
      PROVE  IndexInv'
  <2>1. /\ UNCHANGED <<vars, view>>
        /\ \A t \in SegIds : idx'[t] \in {idx[t], NoIndex, Damaged}
    BY <1>1, <1>5 DEF Spoil, SidecarInv, SidecarTypes
  <2> QED  BY <1>1, <1>5, <2>1, SpoilInv, QuietIndexInv
<1>6. ASSUME OpenCatalog, kind' = kind
      PROVE  IndexInv'
  BY <1>6, OpenCatalogInv
<1>7. ASSUME StoreMoves, kind' = kind
      PROVE  IndexInv'
  BY <1>7, MovesIndexInv
<1> QED  BY <1>2, <1>3, <1>4, <1>5, <1>6, <1>7 DEF INext, StoreMoves

LEMMA IndexInitInv == IInit => IndexInv
<1> SUFFICES ASSUME IInit
             PROVE  IndexInv
  OBVIOUS
<1>1. SInit /\ SidecarInv
  BY SidecarInitInv DEF IInit
<1>2. /\ view.segment_ids = {} /\ view.superseded = NoSupersessions
      /\ \A s \in SegIds : idx[s] = NoIndex
  BY <1>1 DEF SInit, NoView, Snapshot, EmptyMemory
<1>3. /\ mem.superseded = NoSupersessions /\ manifest.superseded = NoSupersessions
      /\ prior.superseded = NoSupersessions
  BY <1>1 DEF SInit, Init, EmptyMemory, NoManifest
<1> QED  BY <1>1, <1>2, <1>3 DEF IndexInv, WholeFit, ViewFiles, NoMarks, Unmarked

-----------------------------------------------------------------------------
(* The theorems about the examples.                                        *)

LEMMA IndexInvariant ==
  ASSUME ExampleStores, FilesGo
  PROVE  ISpec => []IndexInv
<1>1. IInit => IndexInv
  BY IndexInitInv
<1>2. IndexInv /\ [INext]_iVars => IndexInv'
  BY IndexNextInv
<1> QED  BY <1>1, <1>2, PTL DEF ISpec

\* A segment of a catalog is shown by it.
LEMMA ViewShows ==
  ASSUME SidecarInv, NEW s \in view.segment_ids
  PROVE  s \in SegIds /\ view.segments[s] \in SUBSET Copies /\ Shows(s, view.segments[s])
BY DEF Shows, SidecarInv, SidecarTypes, Snapshots, Payloads

\* The index found under an id that a catalog lists, however old, is of the
\* segment the catalog means.
THEOREM LoadedAlwaysRebuilt ==
  ExampleStores /\ FilesGo => (ISpec => []LoadedIsRebuilt)
<1> SUFFICES ASSUME ExampleStores, FilesGo
             PROVE  ISpec => []LoadedIsRebuilt
  OBVIOUS
<1>1. IndexInv => LoadedIsRebuilt
  BY ViewShows DEF IndexInv, WholeFit, LoadedIsRebuilt
<1> QED  BY <1>1, IndexInvariant, PTL

\* The cache of the examples' kind of process serves what is current.
THEOREM CatalogServedCurrent ==
  ExampleStores /\ FilesGo => (ISpec => []ServedIsCurrent)
<1> SUFFICES ASSUME ExampleStores, FilesGo
             PROVE  ISpec => []ServedIsCurrent
  OBVIOUS
<1>1. IndexInv => ServedIsCurrent
  BY InvServesCurrent DEF IndexInv
<1> QED  BY <1>1, IndexInvariant, PTL

\* A search finds what the catalog's checkpoint holds, and nothing else.
THEOREM SearchAlwaysExact ==
  ExampleStores /\ FilesGo => (ISpec => []SearchIsExact)
<1> SUFFICES ASSUME ExampleStores, FilesGo
             PROVE  ISpec => []SearchIsExact
  OBVIOUS
<1>1. IndexInv => SearchIsExact
  <2> SUFFICES ASSUME IndexInv, kind = "whole",
                      \A s \in view.segment_ids : Loaded(s) # {},
                      NEW t \in Terms
               PROVE  Found(t) = {i \in Ids : \E v \in LiveItems(view, view.segments, i) :
                                                t \in TermsOf[v]}
    BY DEF SearchIsExact
  <2>1. \A s \in view.segment_ids :
          /\ s \in SegIds /\ view.segments[s] \in SUBSET Copies
          /\ Loaded(s) = view.segments[s]
    <3> SUFFICES ASSUME NEW s \in view.segment_ids
                 PROVE  /\ s \in SegIds /\ view.segments[s] \in SUBSET Copies
                        /\ Loaded(s) = view.segments[s]
      OBVIOUS
    <3>1. s \in SegIds /\ view.segments[s] \in SUBSET Copies /\ Shows(s, view.segments[s])
      BY ViewShows DEF IndexInv
    <3>2. idx[s] \in {view.segments[s], NoIndex, Damaged}
      BY <3>1 DEF IndexInv, WholeFit
    <3>3. files[s] \in {view.segments[s], {}}
      BY DEF IndexInv, ViewFiles
    <3> QED  BY <3>1, <3>2, <3>3 DEF Loaded
  <2>2. \A s \in SegIds : view.superseded[s] = {}
    BY DEF IndexInv, NoMarks, NoSupersessions
  <2>3. \A s \in view.segment_ids :
          Postings(Loaded(s))[t] = {c[1] : c \in {d \in view.segments[s] : t \in TermsOf[d[2]]}}
    BY <2>1 DEF Postings, IdsOf
  <2>4. ASSUME NEW i
        PROVE  i \in Found(t) <=>
                 /\ i \notin view.tombstones
                 /\ \E s \in view.segment_ids : \E c \in view.segments[s] :
                      t \in TermsOf[c[2]] /\ i = c[1]
    BY <2>3 DEF Found
  <2>5. ASSUME NEW i \in Ids
        PROVE  (\E v \in LiveItems(view, view.segments, i) : t \in TermsOf[v]) <=>
                 /\ i \notin view.tombstones
                 /\ \E s \in view.segment_ids : \E v \in Items :
                      t \in TermsOf[v] /\ <<i, v>> \in view.segments[s]
    BY <2>1, <2>2 DEF LiveItems, CopyIsLive
  <2>6. ASSUME NEW i
        PROVE  (\E s \in view.segment_ids : \E c \in view.segments[s] :
                      t \in TermsOf[c[2]] /\ i = c[1])
               <=> /\ i \in Ids
                   /\ \E s \in view.segment_ids : \E v \in Items :
                         t \in TermsOf[v] /\ <<i, v>> \in view.segments[s]
    <3>1. \A s \in view.segment_ids : \A c \in view.segments[s] :
            c[1] \in Ids /\ c[2] \in Items /\ c = <<c[1], c[2]>>
      BY <2>1 DEF Copies
    <3>2. ASSUME NEW s \in view.segment_ids, NEW v \in Items,
                 t \in TermsOf[v], <<i, v>> \in view.segments[s]
          PROVE  \E c \in view.segments[s] : t \in TermsOf[c[2]] /\ i = c[1]
      <4>1. <<i, v>>[1] = i /\ <<i, v>>[2] = v
        OBVIOUS
      <4> QED  BY <3>2, <4>1
    <3>3. ASSUME NEW s \in view.segment_ids, NEW c \in view.segments[s],
                 t \in TermsOf[c[2]], i = c[1]
          PROVE  /\ i \in Ids
                 /\ \E v \in Items : t \in TermsOf[v] /\ <<i, v>> \in view.segments[s]
      <4>1. c[1] \in Ids /\ c[2] \in Items /\ c = <<c[1], c[2]>>
        BY <3>1, <3>3
      <4>2. <<i, c[2]>> \in view.segments[s]
        BY <3>3, <4>1
      <4> QED  BY <3>3, <4>1, <4>2
    <3> QED  BY <3>2, <3>3, Zenon
  <2> QED  BY <2>4, <2>5, <2>6
<1> QED  BY <1>1, IndexInvariant, PTL

=============================================================================

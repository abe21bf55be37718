# segstore in TLA+

A verification project for `segstore`, the durable segmented store in
`src/src/lib.rs` (writer, readers, catalog, formats), `src/src/sidecar.rs` (index
sidecars) and `src/src/conformance.rs` (a test harness), with its fuzz targets
and examples. It holds TLA+ modules that model the store, TLC configurations
that check them on small instances, and TLAPS proofs that hold for every
instance.

Run everything from this directory:

    tlc -workers 2 -config MCDamagedFiles.cfg MCDamagedFiles.tla   # one run
    tlapm SegStoreProofs.tla                                       # its proofs

## The system

`SegmentedStore` is a single-writer store of `(id, item)` pairs in one
directory. A write is appended to a WAL, synced, and applied to a buffer. A full
buffer is sealed into an immutable segment. `checkpoint` writes the segments'
files, commits them with a manifest that also names the next WAL generation,
rotates the WAL, deletes what the manifest does not name, and publishes a
snapshot to readers. Merges (`compact`, `compact_tiers`, `force_merge_to`,
`reclaim_tombstones`) rewrite groups of segments without their dead copies.
`open` takes the directory's lock, loads the manifest and its segments, deletes
leftovers, and replays the WAL. No thread of the store's own exists: `&mut self`
serializes the writer, the lock file keeps other writers out, and readers share
`Arc`s.

Beside it, consumers keep derived indexes: through a `SidecarCache`, which
several threads may share and which asks the writer, a `View` or a
`SegmentCatalog` about segments, or through files they write themselves, as the
examples do. The store collects these files by their names.

### Inventory

| Component | State | Operations | Hard behaviour | What makes it correct |
|---|---|---|---|---|
| Writer memory | buffer, segments, tombstones, superseded marks, owners, id source | apply, flush_buffer, merge_group, purge, rebuild on open | long histories of re-add, delete, seal, merge: an old copy must never come back | at most one live copy per id, in the place `owners` says; merges change nothing a consumer reads |
| WAL | the log of one generation, its synced length | append, sync (flush or fsync), replay, rotate | failed appends that left their record; power loss; damage; extend's single sync | an acknowledged write is replayed, a taken record never follows a refused one |
| Checkpoint and manifest | manifest, segment files, `persisted_ids`, `epoch`, `poisoned` | checkpoint's five steps | a crash between any two; a manifest write that fails visibly | a manifest names files that are there, and goes with the WAL of its epoch |
| Open and garbage collection | directory | load, rebuild owners, collect, replay | best-effort deletes; orphans of cut-off merges; temporary files; legacy manifests | every crash leaves a directory that opens on the same contents; sweeps take garbage only |
| Readers and Views | the published snapshot | view, republish | readers run beside the writer | a view is a committed state |
| Merge selection | segment sizes, `TierConfig` | next_merge_group, force_merge_to, reclaim_tombstones | caps, floors, termination | loops end, caps are kept |
| SegmentCatalog | a loaded manifest | open, read_segment, payload readers, live_ids | no lock: the writer collects files meanwhile; damaged files; a buffer used again | no wrong payload under a listed id |
| Sidecars | cache entries, sidecar files | get_or_build, persist, persist_missing, invalidate, retain, collect | several threads; stale files; ids drawn again | an index is only used for the live ids it was built for |
| Sidecar envelope, payload header | bytes | encode, decode, payload_info, verify | truncation, corruption, lengths that no checksum has confirmed | damaged bytes are refused |
| Writer lock | `segstore.lock` | acquire, drop | several processes, crashes, extend's unwritten records | one writer at a time, and its log is its own |
| Store trait, DefaultStore | - | build_segment, merge_segments, segment_len, live_len, item_ids | consumers that do not list ids; opaque segments | filtering by the predicate given |
| Conformance suite, fuzz targets | a plain map beside the store | random operations, reopen, damage | sequences nobody wrote down | the store reads as the map |
| Examples | indexes in files, an index as the store | persist, load, query | a searcher of another process; old catalogs | a search finds what its checkpoint holds |
| Benches, vector_search | - | - | - | not modelled |

## Modules

| Module | Models |
|---|---|
| `OpLog` | what a log of add and delete records makes of a map: last write wins |
| `SegMemory` | the writer's memory as a record and every step on it as an operator |
| `SegStore` | the whole store: process and directory, one action per step, faults, crashes, recovery |
| `DurableMap` | the abstract specification: a crash-safe last-write-wins map with commits and reader snapshots |
| `SegStoreImplements` | the refinement mapping from `SegStore` to `DurableMap` |
| `Oracle` | `SegStore` with the plain map of the repository's model-based tests beside it |
| `DamagedFiles` | `Oracle` on a disk that damages closed files, as the recover fuzz targets do |
| `InvertedIndex` | `Oracle` for the `Store` of the example: segments are postings, ids are not listed |
| `LegacyStore` | `SegStore` started on a directory of an older segstore (no superseded marks) |
| `Tiering` | which segments are merged, over their sizes, and when the merging loops end |
| `Catalog` | `SegStore` with a `SegmentCatalog` beside the writer |
| `Sidecars` | `SegStore` with a `SidecarCache`, the sidecar files, and the host it is asked through |
| `IndexFiles` | `Sidecars` with the protocol of the examples that file indexes under the segment id alone |
| `SidecarThreads` | the cache's calls at the grain of its mutex and of single file operations, by several threads |
| `WriterLock` | several processes that open, write, checkpoint, drop and die on one directory |
| `FileCells` | a file as cells, and a disk that cuts or extends it; an ideal checksum |
| `SidecarEnvelope` | a sidecar's envelope and its two readers |
| `SegmentPayload` | the four ways to a segment's payload without decoding it |
| `FileNames` | the names in a directory and what the sweeps take them for |
| `SegMemoryInvariant`, `SegStoreInvariant`, `OracleInvariant` | the inductive invariants of the memory, of the store and its log, and of the tests' map beside them |
| `SegStoreProofs`, `RecoveryProofs`, `OracleProofs`, `ReaderProofs`, `SidecarThreadsProofs`, `WriterLockProofs`, `FileProofs`, `TieringProofs` | the proofs |
| `MCSegStore`, `MCDamagedFiles`, `MCInvertedIndex`, `MCTiering`, `MCCatalog`, `MCSidecars`, `MCIndexFiles`, `MCWriterLock`, `MCFiles` | instances for TLC and their symmetry |

`SegStore` is what `Oracle`, `Catalog`, `Sidecars` and `LegacyStore` extend:
each adds variables of its own and takes every step of the store along, so
crashes, faults and recovery are part of all of them. `MCFiles` puts the three
modules about single files into one instance; a first choice says which one
moves, since no reader of one file looks at another.

### Correspondence

`mem` is the record of the `SegmentedStore` fields `buffer`, `buffer_ids`,
`segment_ids`, `segments`, `tombstones`, `superseded`, `owners`,
`next_seg_id`; `persisted_ids`, `epoch` and `poisoned` have variables of their
own. `wal_failed` is the state of the WAL writer, which refuses everything after
an error until `checkpoint` replaces it. `applied` counts the records of the
current WAL that are in `mem`; the code has no such field, it is the position of
the replay loop and of the last write. `files`, `wals` and `manifest` are the
directory. `prior` is the manifest a power loss may bring back after a manifest
write that reported an error. `synced` is how much of each WAL the last
`sync_wal` covered.

`phase` is where the process is: `"down"`, `"replay"` (inside `open`), `"open"`
(between calls), `"extend"` (inside `extend`), `"merged"` and `"purged"`
(inside a merging call, before its checkpoint), `"persist"`, `"rotate"`,
`"publish"` (inside `checkpoint`).

| Code | Action |
|---|---|
| `add`, `delete` | `Write`, `WriteFails` |
| `extend` | `ExtendItem`, `ExtendSync`, `WriteFails` |
| `compact_tiers`, `force_merge_to`, `reclaim_tombstones` | `FlushOnly`, or `Merge` one or more times and then the checkpoint |
| `compact` | `Compact`, then the checkpoint |
| `checkpoint` | `CheckpointStart`, `PersistNext`, `WriteManifest`, `RotateAndGc`, `Republish`; `CheckpointRefused` when poisoned |
| `open_with_options` | `OpenLoad`, `Replay`, `OpenDone` |
| the end of the process, of the machine | `ProcessCrash`, `PowerLoss` |

`auto_compact` needs no action: inside `add` it is `Write` followed by `Merge`,
inside `extend` it is `ExtendSync`, `Merge`, the checkpoint, and more
`ExtendItem`s.

`Oracle` keeps the tests' map as what the last commit held (`base`) and the
operations taken since (`taken`), so that a crash can take unsynced operations
out of it again. `DamagedFiles` adds which files are damaged and how many
records of the log can still be read. `InvertedIndex` adds `postings`, what the
`Store` callbacks make of each segment; `mem.segments` goes on saying which
documents a segment stands for, and the properties compare the two.

`Tiering` keeps the Vec of segments as a sequence of sizes: `len` is
`Store::segment_len`, `live` is `Store::live_len`. `call` is the loop under way
(`compact_tiers`, `force_merge_to` with its target), or how the last call ended.
`Add` and `Delete` are the writes, seen as what they do to sizes: the id's live
copy, buffered or sealed, goes, and a full buffer is sealed; with `auto_compact`
the loop of `compact_tiers` follows. `TierTurn` and `ForceTurn` are one turn of
a loop, `Return` its end; `ReclaimTombstones` and `Compact` make at most one
merge each and are one step. Any merge whose output is not empty may fail.
A group is the set of its positions in the Vec: nothing depends on the order in
which a merge takes its inputs. A loop over sorted segments that stops early
picks the positions that few enough, and small enough, sort before (`UpTo`
counts a position itself and, of equal sizes, the earlier ones, as the stable
sorts of the code do): `First` for `force_merge_to`, `Chosen` for a tier. Only
the buckets keep their order of opening, by which the code breaks its ties.
`Tiering` and `SegStore` meet in the group: `SegStore` lets every group be
merged, so all that it shows holds for the groups `Tiering` picks.

`Catalog` adds two variables to `SegStore`: `catalog`, the manifest that
`SegmentCatalog::open` loaded, and `listed`, a history of what its segment files
held at that moment. Opening is one step (one file, replaced atomically) and may
come between any two steps of the writer. Reads change nothing; the properties
say what they find.

`Sidecars` adds `entries` (the `HashMap` of `SidecarCache`, one entry per
segment because `insert` drops the others), `idx` (the files
`segstore.idx.<id>.<kind>` of one kind) and `view` (the `View` or the catalog
held). An index is the set of copies it was built from; its key is the segment
and the ids of these copies, which is all that the entry is looked up by and all
that a codec's `accepts` is shown. `Served` is what `get_or_build` would return
now. Each call is one step; how the calls of threads interleave is
`SidecarThreads`: there a live set is a number, `holder` is the mutex, and `pc`
goes through `"lock"`, `"load"`, `"build"` (mutex held), `"write"`, `"delete"`,
`"check"`, `"writeMissing"` (mutex free, as in the code). A build that fails or
panics is `BuildFails`: the guard goes, and the next call takes a poisoned mutex
all the same.

`IndexFiles` reuses the files for `persist_index` and `postings_sidecar`, which
write an index of the whole segment after a checkpoint and let a searcher with a
catalog load it. `kind` says whether `idx` holds these or a cache's. `Found` is
the query of `postings_sidecar` over the loading of `persist_index`, which falls
back to the segment when an index file is missing or does not decode. The query
of `postings_sidecar` has no such fallback (it panics) and reads the postings
without verifying the envelope's checksum: what `SearchIsExact` says holds of it
only while the index files of the catalog's segments are there and undamaged.

`WriterLock` takes the steps of `open` apart (`TryLock`, `ReadManifest`,
`ReadWal`, `CollectStale`) and those of a drop (`BeginDrop`, `Drop`: the WAL
writer writes out what it has, then the lock goes, in the order of the fields).
What is stored is a set of writes. It justifies that `SegStore` has one process.

`FileNames` has a name as a namespace and what its dots separate. The writer
creates each file in two steps (the temporary name, the rename), consumers do
the same with sidecars of their own, and may be late or die. `Open` and
`RotateAndGc` sweep by parsing. `SidecarEnvelope` and `SegmentPayload` have a
file as cells: five for the header fields, one per byte after them.
`SegmentPayload` has one file per segment and one consumer of each kind:
`ReadInto(s)` reads any of them into the one `buf`, with `asked` and `ok` for the
last call's segment and result, and `ReadInfo(s)` keeps the metadata of one.

### Abstractions

- A segment and the buffer are sets of copies `<<id, item>>`. The order inside a
  segment decides nothing the properties look at. With ids not listed
  (`TracksIds = FALSE`) two equal copies in one merge output become one.
- The list of segments is a set, because the code keeps the list in ascending id
  order; that is also why `ensure_segment_id` may use a binary search.
- An atomic file write (`CheckpointFile`) succeeds, fails without a trace, or
  fails with the new file visible (rename done, directory sync failed). Its
  temporary file matters to the sweeps only, and is in `FileNames`.
- An append to the WAL (`RecordLogWriter`, of another crate) that fails leaves
  the whole record or nothing. A torn record counts as nothing: the reader stops
  at it. The crate's note in `src/docs/segstore-durability-sidecars.md` says
  that the writer refuses appends after a failure; `wal_failed` is that state.
  A log damaged in its middle is read up to the damage, and the writer cuts off
  the rest, or `open` refuses it: the fuzz targets and tests allow both.
- What `open` reads is taken to be on stable storage from then on.
- Sizes, averages and ratios are exact in `Tiering`: a bucket's running average
  is a sum and a count, a band or a ratio a fraction. The code uses `f64`, whose
  rounding can differ only where a size is within rounding of a band's edge.
- A checksum is ideal: it is the cells it covers. What a CRC32 covers is in the
  model, its collisions are not.
- A power loss ends the catalog's process with the writer's. A catalog on
  another machine that outlives it is not modelled.
- A reader's snapshot is followed only while the process runs.
- A codec's `accepts` compares the live ids and nothing else. A codec that knows
  more may refuse more, which only makes `get_or_build` build.
- In-memory directories take no lock; `WriterLock` is about directories with
  paths. It leaves out what `CollectStale` does to segment files (`SegStore`).
- In `FileNames` every delete succeeds, which is when a sweep does the most;
  deletes that fail are in `SegStore` and `Sidecars`.
- In `InvertedIndex` a document has a term at least; one without any would be in
  no posting and could not be found in the example either.
- Epochs, segment ids and the length of a WAL are unbounded in the code (`u64`)
  and bounded here by `MaxEpoch`, `MaxSegId`, `MaxWal`; the guards that apply
  the bounds are named `CanWrite`, `RoomToFlush`, `RoomToMerge`, `HasRoom`.


## Properties

| Property | Says |
|---|---|
| `TypeOK` | every variable is in its range; in particular no sealed segment is lost to the id source |
| `OneLiveCopy` | at most one copy of an id is live, where `owners` says, and none beside a buffered one |
| `WriterMatchesModel` | each id reads as in the plain map, through seals, merges, crashes, damage and replay; inside `open`, as a prefix of the log makes it |
| `ReadersMatchCheckpoint` | readers see the map of the last checkpoint, and nothing after it |
| `NoWriteLost` | what `open` would make of the manifest and the WAL that goes with it is what the writer reads, at every step, for both manifests a crash may leave |
| `ImplementsDurableMap` | the store implements `DurableMap` |
| `Reopenable` | both manifests a crash may leave name complete segment files without live duplicates |
| `CommittedFilesFrozen` | the file of a segment the manifest names or has accounted for is only ever deleted |
| `ReadsAreOfTheCheckpoint` | a catalog reads a listed segment's own payload or finds no file |
| `MissingMeansSuperseded` | a listed file is missing only under a manifest of a later epoch |
| `OneCopyListed` | at most one copy of an id is live in a catalog. Proved; no run repeats it, as a checkpoint's manifest lists what was in the writer's memory, of which `OneLiveCopy` says it |
| `AtMostOneCopyPasses` | a directory without superseded marks: at most one copy of an id passes `is_live_in`, or is buffered |
| `NewestCopyRead` | the same: an id that is not deleted and has no record in the log reads as its newest copy on disk, before and after a checkpoint has recorded the marks `open` made |
| `CallsEnd` | every call and every open ends |
| `TierMergeKeepsCaps` | a tier merge has no frozen input, at most `max_merge` inputs and an output within `max_merged_len` |
| `TierMergeGrows` | the inputs of a tier merge are together larger than the largest by `1 + (k - 1) / bucket_high`: why an item is rewritten O(log) times |
| `EveryTurnShrinks` | each turn of a merging loop leaves fewer segments: why the loops end, with any `TierConfig` |
| `ForceStopsAtTarget` | `force_merge_to` goes below its target only past a group with nothing live |
| `MaintenanceReclaims` | no step of maintenance loses a live item or adds to the space amplification; `compact` leaves none, `reclaim_tombstones` no segment below its ratio |
| `SegmentsAreTheirDocuments` | a segment of postings is, after any history, what `build_segment` makes of the documents it stands for |
| `QueryFindsLive` | a term finds the documents that have it and are not deleted, though no ids are listed |
| `ServedIsCurrent` | what `get_or_build` returns is the index of what is live in the segment for the host that asks |
| `SidecarsKept` | no collection and no crash takes the sidecar of a segment that the manifest goes on naming |
| `LoadedIsRebuilt` | an index filed under the segment id alone is that of its segment, for a catalog of any age |
| `SearchIsExact` | a search over a catalog finds what its checkpoint holds |
| `OneEntryPerSegment` | the cache has one entry per segment, and it is the index of its key |
| `GetsWhatItAsked` | each call gets the index of the live set it asked for |
| `BuildsOnce` | no key is built while it is cached or while another thread builds |
| `CallsReturn` | once no further call comes, every call has returned, also after a build panicked |
| `OneWriter` | one process is past the lock, and the lock of one that left is free |
| `NothingAckedLost` | an acknowledged write is in the manifest or in its WAL |
| `LogIsItsOwn` | what the directory has under an open store's epoch is what the store knows |
| `AcceptedIsIntact` | a sidecar that decodes gives the payload that was written, under the tags it was written with; an undamaged one does decode |
| `LazyAgrees` | the lazy `payload_info` and `decode` differ in the checksum only: same refusals, same place of the payload |
| `ReadIsAsWritten` | what a reader that verifies returns of a segment file is the payload written to it; of a version 2 file the header fields, too |
| `BufferHoldsPayload` | one buffer for several segments: after a read that succeeds it has the payload of the segment asked for, after one that fails nothing or a whole payload of an earlier read |
| `EmptyOnError` | what the doc comment says of a failed read. It does not hold, see below |
| `MappedIsAsWritten` | bytes that verify against a payload's metadata are the payload the metadata was read from, after any damage |
| `PartialNeverRead` | no crash, failed write or late consumer leaves half a file under a name that is read |
| `SweepsTakeGarbage` | no sweep takes a file that the manifest names, its WAL, a sidecar of its segments, a file under way, or a file of another program |
| `SweptAtOpen` | what `open` leaves in the store's namespaces is in use: no orphan, stale WAL or temporary file but those a later write replaces |

## Runs

| Run | Instance | Shows |
|---|---|---|
| `merges` | `MCDamagedFiles`: 2 ids, 2 items, 3 segment ids, 2 checkpoints, 2 records per WAL, threshold 2, flush, files may go bad while the store is down | the memory under every order of writes, seals, merges of any group, compactions and crashes, against the tests' map; damage costs the tail of the log or the open |
| `wal_faults` | `MCSegStore`: 2 ids, 2 items, 2 segment ids, threshold 2, fsync, failing WAL and manifest writes | durability, and the refinement of `DurableMap` |
| `catalog` | `MCCatalog`: 1 id, 2 items, 2 segment ids, threshold 1, fsync, failing segment and manifest writes and deletes | recovery finds its files; a catalog beside the writer |
| `legacy` | `LegacyStore`: 1 id, 2 items, 3 segment ids, two checkpoints, threshold 2, failing WAL, segment and manifest writes; all old directories without a tombstoned id | the rebuild of ownership, what the manifests of later checkpoints keep of it, and liveness |
| `legacy_deleted` | the same with 2 segment ids, no faults, and a tombstoned id | a violation, see below |
| `tiering` | `MCTiering`: up to 8 items, threshold 2, four `TierConfig`s, targets 2 and 3, three live ratios | merge selection and reclaiming |
| `untracked` | `MCInvertedIndex`: 2 ids, 2 documents, 2 terms, 3 segment ids, threshold 2, `TracksIds = FALSE` | a consumer that lists no ids, and its queries |
| `sidecars` | `MCSidecars`: 1 id, 2 items, 2 segment ids, threshold 2, fsync, failing manifest writes, a cache asked by the writer and by a `View`, dropped with its store | sidecars across crashes and ids drawn again |
| `sidecar_threads` | `SidecarThreads`: 2 threads, 2 segments, 2 live sets | the cache under threads |
| `writer_lock` | `MCWriterLock`: 3 processes, 3 writes, 2 checkpoints | the lock |
| `files` | `MCFiles`: 2 byte values, payloads and recipes of up to 2 bytes, two changes anywhere; 2 segment files in one buffer, any file beside a given one, damaged or collected; 2 segment ids, 4 epochs | readers of damaged files, a buffer used again, sweeps |
| `index_files` | `MCIndexFiles`: 1 id, 2 documents, 2 terms, 2 segment ids, threshold 1, failing manifest writes, a catalog | indexes filed by id, and searches |

Why the bounds are enough.

- A live duplicate needs one id, a segment with its old copy, and a second place
  for the new one; telling a wrong merge from a right one needs a second id and
  a segment outside the group: two ids, two payloads, and three segment ids in
  `merges` (two inputs and an output, or an output and a segment outside a
  group of one). A lost write needs a commit, a write after it, and a crash: two
  generations of two records.
- With threshold 1 every write seals; with threshold 2 the buffer holds
  something when a merge, a checkpoint or a crash comes.
- Faults are given to the runs whose property they can break. Every action and
  every disjunct is taken in some run.
- An id is drawn again when a merge wrote its output and a crash came before the
  manifest. With threshold 1 that needs two segment ids; two payloads
  tell the segments apart. In `sidecars` one id with two payloads is the
  worst case for the key, which knows ids only: the live sets of the two
  segments are then equal.
- In `tiering` 8 items in segments of 1 or 2 make groups of up to four inputs,
  outputs that hit the caps of 6 and 7 exactly and by one, segments at half the
  cap, and sizes two bands apart. Of the configurations one is leveling, one has
  `min_merge` 1 with an odd cap, one `min_merge` 0 and `max_merge` 1 (tiering is
  off, `force_merge_to` still works), and one a cap out of reach. A ratio of 2
  is one no segment has: everything is merged.
- In `sidecar_threads` a wrong entry needs one thread inside and one that
  invalidates, persists or asks for another live set of the same segment; the
  second segment shows that other keys wait, too. In `writer_lock` the third
  process is what a second one races with while the first leaves.
- In `files` two changes can cut a file and repair its length, or swap a field
  and the checksum cell that would give it away; two bytes of payload leave an
  inner and a last byte to cut. Two segment files are what a buffer used again
  needs: the one asked for and one whose payload may still be in the buffer.
- In `legacy` the first checkpoint is the one that records the marks of `open`,
  the second follows a merge or a write under such a manifest; three segments
  of one id are an old copy, a newer one and the newest.

`MaxEpoch`, `MaxSegId` and `MaxWal` stop the store from writing when they are
reached, and then only crashes and reopening go on. Deadlock is checked in every
run.

Fairness. `LegacyFairSpec` asks weak fairness of `CallStep`: the steps of a call
that has begun, and of `open`. The code justifies it: none of these steps waits
for another thread, they are the next statements of a running function.
Beginning a call, failing and crashing are not fair, so `CallsEnd` assumes that
crashes stop at some time. Any of its old directories may be the empty one, so
the run is about new stores as well. `MaxSegId` can hold up a replay only if a
sealed buffer finds no id left; the run shows that the instance has enough.
`TFairSpec` asks weak fairness of each thread's steps. A thread that waits for
the mutex can only take its step while the mutex is free, and `std::sync::Mutex`
promises no order among those that wait: under weak fairness it can be overtaken
for ever by a stream of calls, in the code as in the model. `CallsReturn`
therefore says that every call has returned once calls stop coming.

### What the runs found

`legacy_deleted`. `open` rebuilds `owners` from live copies only, so a sealed
copy of a tombstoned id gets neither an owner nor a mark. In a directory written
before superseded copies were tracked, adding that id again removes the
tombstone and the old copy is live beside the new one, against
`src/src/lib.rs:2395` ("At most one copy of an id passes this check") and
`src/src/lib.rs:1703` ("last write wins, including a value deleted earlier").

Other places where the code does less than a comment says, which a reader can
reproduce by a change to a cfg and which no run of the project repeats:

- Segment ids. A merge draws an id and writes its file before a manifest records
  the new `next_seg_id`. After a crash in between, `open` collects the orphan,
  starts again from the manifest's `next_seg_id`, and draws the id for another
  segment; the comment on the field (`src/src/lib.rs:1474`) says that an id is
  never reused after its file is collected. `CommittedFilesFrozen` is what does
  hold: no id that a manifest has accounted for is written again.
- A cache that outlives its store. With `Hosts = {"writer"}` and `Keeps = TRUE`
  in `MCSidecarsShared.cfg`, `ServedIsCurrent` fails: the cache keeps the index
  of a segment that a crash, or a drop without a checkpoint, took back, and the
  reopened store draws the id for another segment with the same live ids. "A
  stale entry is never served" (`src/src/sidecar.rs:27`) needs a cache per open
  store, which is what the run has.
- A sidecar whose deletion failed. With `Faults = {"manifest", "delete"}`,
  `ServedIsCurrent` fails: deletions are best effort, and a sidecar left behind
  by one is accepted for the next segment that draws its id with equal live ids.
- `persist_missing`. With `PROPERTY MissingOnly` in `SidecarThreads.cfg`: between
  its look at the directory and its write (`src/src/sidecar.rs:499`) another
  thread may `persist`, and its file is overwritten, though existing files "are
  left untouched by contract". The overwritten file is a cached index of the
  segment like the other, so nothing wrong is ever served (`GetsWhatItAsked`).
- `read_segment_payload_into`, for builders that scan segments with one buffer.
  With `INVARIANT EmptyOnError` in `MCFiles.cfg`: when a file is gone or its
  header does not parse, the call returns before the buffer is cleared
  (`src/src/lib.rs:406`), and the payload of the segment read before stays in it,
  where `src/src/lib.rs:1206` says "on error it is left empty". A caller that
  looks at the `Result` is not misled; `BufferHoldsPayload` says what the buffer
  has in each case.

## Proofs

Each theorem holds for every value of the constants: any number of ids, items,
segments, generations, threads, processes; every threshold, sync policy and set
of faults.

| Module | Theorem | Statement |
|---|---|---|
| `SegStoreProofs` | `StoreInvariant` | `Spec => []StoreInv` |
| | `TypeCorrect` | `Spec => []TypeOK` |
| | `AtMostOneLiveCopy` | `Spec => []OneLiveCopy` |
| | `AlwaysReopenable` | `Spec => []Reopenable` |
| | `CommittedFilesStayFrozen` | `Spec => CommittedFilesFrozen` |
| `RecoveryProofs` | `LogAlwaysInStep` | `Spec => []LogInv` |
| | `WritesNeverLost` | `Spec => []NoWriteLost` |
| | `StoreImplementsMap` | `TracksIds => (Spec => ImplementsDurableMap)` |
| | `LegacyOneCopyPasses` | `TracksIds => (LegacySpec /\ NoCopyDeleted => []AtMostOneCopyPasses)` |
| | `LegacyNewestRead` | `TracksIds => (LegacySpec /\ NoCopyDeleted => []NewestCopyRead)` |
| `OracleProofs` | `WriterAlwaysMatches` | `DSpec => []WriterMatchesModel` |
| | `ReadersAlwaysMatch` | `DSpec => []ReadersMatchCheckpoint` |
| | `DamagedTypesKept` | `DSpec => []TypeOK` |
| | `DamagedOneLiveCopy` | `DSpec => []OneLiveCopy` |
| | `SegmentsAlwaysTheirDocuments` | `~TracksIds => (ISpec => []SegmentsAreTheirDocuments)` |
| | `QueryAlwaysFinds` | `~TracksIds => (ISpec => []QueryFindsLive)` |
| `ReaderProofs` | `CatalogReadsItsCheckpoint` | `CSpec => []ReadsAreOfTheCheckpoint` |
| | `CatalogMissesOnlySuperseded` | `CSpec => []MissingMeansSuperseded` |
| | `CatalogListsOneCopy` | `CSpec => []OneCopyListed` |
| | `ServedAlwaysCurrent` | `CacheEnds => (SSpec => []ServedIsCurrent)` |
| | `SidecarsAlwaysKept` | `SSpec => SidecarsKept` |
| | `LoadedAlwaysRebuilt` | `ExampleStores /\ FilesGo => (ISpec => []LoadedIsRebuilt)` |
| | `CatalogServedCurrent` | `ExampleStores /\ FilesGo => (ISpec => []ServedIsCurrent)` |
| | `SearchAlwaysExact` | `ExampleStores /\ FilesGo => (ISpec => []SearchIsExact)` |
| `SidecarThreadsProofs` | `CacheInvariant` | `TSpec => []Inv` |
| | `CacheHoldsOnePerSegment` | `TSpec => []OneEntryPerSegment` |
| | `CallersGetTheirKey` | `TSpec => []GetsWhatItAsked` |
| | `BuildsAreSerial` | `TSpec => []BuildsOnce` |
| `WriterLockProofs` | `LockInvariant` | `LSpec => []Inv` |
| | `ExclusiveWriter` | `LSpec => []OneWriter` |
| | `AckedWritesSurvive` | `LSpec => []NothingAckedLost` |
| | `OpenStoreOwnsItsLog` | `LSpec => []LogIsItsOwn` |
| `FileProofs` | `EnvelopeAccepts` | `ESpec => []AcceptedIsIntact` |
| | `EnvelopeReadersAgree` | `ESpec => []LazyAgrees` |
| | `PayloadReadAsWritten` | `FieldsAreNoBytes => (PSpec => []ReadIsAsWritten)` |
| | `BufferAsWritten` | `FieldsAreNoBytes => (PSpec => []BufferHoldsPayload)` |
| | `MappedAsWritten` | `FieldsAreNoBytes => (PSpec => []MappedIsAsWritten)` |
| | `NeverReadsPartial` | `NSpec => []PartialNeverRead` |
| | `SweepsOnlyGarbage` | `NoLegacyTmp => (NSpec => SweepsTakeGarbage)` |
| | `OpenSweepsAll` | `NSpec => SweptAtOpen` |
| `TieringProofs` | `SizesInvariant` | `Spec => []SizesCorrect` |
| | `TierMergesKeepCaps` | `Spec => []TierMergeKeepsCaps` |
| | `TierMergesGrow` | `Spec => []TierMergeGrows` |
| | `EveryTurnLeavesFewer` | `Spec => []EveryTurnShrinks` |
| | `ForceEndsAtTarget` | `Spec => ForceStopsAtTarget` |
| | `MaintenanceAlwaysReclaims` | `Spec => MaintenanceReclaims` |

**Assumptions.** The modules that declare the constants state them, and TLC
evaluates each on a run. They give parameters their ranges (`StoreAssumption`,
`TieringAssumption`, `ThreadsAssumption`, `LockAssumption`, `CellsAssumption`,
`EnvelopeAssumption`, `PayloadAssumption`, `IndexFilesAssumption`,
`LegacyAssumption`), keep a placeholder apart from what it stands beside
(`ConstantsAssumption`: `Deleted` is no item, `NoSeg` no number;
`NothingAssumption`, `DamageAssumption`), or say what the modelled program does:
`OracleAssumption` has the faults of the tests' stores, `IndexAssumption` a term
in every document, `SidecarAssumption` says where a cache is asked,
`NamesAssumption` that an older kind was not empty, as `src/src/lib.rs:202` has
it.

A hypothesis in front of a theorem names a choice the code leaves to its user or
a case where the property fails:

- `TracksIds`, or its negation: whether the `Store` lists ids. The refinement is
  about stores that do (the others read several copies of an id), the inverted
  index about one that does not.
- `NoCopyDeleted`: no copy of a tombstoned id is in the old directory. This is
  just what the directories of the `legacy_deleted` run do not meet.
- `CacheEnds`: no deletion fails, and a cache that outlives a store is asked
  through a catalog. Without either half the property fails, see above.
- `ExampleStores`, `FilesGo`: the examples (no ids listed, another process
  searches), and no failed deletion.
- `FieldsAreNoBytes`: a header's first field is no byte of a payload, as it is
  wider. In the model a cell can be either; if one were, a version 1 payload could
  hold what looks like a header and verify as a shorter payload once the disk
  changes version and length.
- `NoLegacyTmp`: no older sidecar kind ends in `.tmp`. The file of one that does
  has the temporary name of another kind, and its writer replaces it.

**The store.** `OneLiveCopy` is not inductive: it says nothing of copies that a
tombstone hides now and a re-add would reveal. `MemInv` says it of marks
instead: every sealed copy is the one `owners` names or is marked superseded in
its own segment, deleted or not. That survives a re-add (which supersedes
through `owners`), a merge (an unmarked copy in the group is its id's owned one,
so the output owns it) and compact's purge (after a full merge, or when there
was nothing dead, every copy is owned). `open` has only the manifest and the
files to rebuild `owners` from. `DiskInv` says what it needs of them: copies of
tombstoned ids are marked. Of other ids, `open` marks all but the newest copy
(`LoadInv` gets `MemInv` back). The store's own manifests are better than that:
in them every older copy is marked (`ManifestsMarked`), which is what a reader
that marks nothing, a catalog, relies on. `IdsAhead` and `SegmentsPlaced` keep
the files right: an id that is drawn is beyond all that either manifest names,
so writing its file disturbs neither. `SegStoreProofs` has first the lemmas about
the operators (types, that each step on memory keeps `MemInv`, and what each
does to what an id reads as), then one lemma per action.

**The log.** `LogInv` says which WAL goes with which manifest, that generations
no commit has started are empty, that every record but that of a failed append
is applied, and that between the seal of a checkpoint and its end nothing is
buffered. It does not mention what anything reads as, except around a commit:
from the manifest on, the manifest alone reads as the writer does. `NoWriteLost`
is inductive with it: a write adds the same record to the log and to memory, a
seal or merge changes neither side, a checkpoint's commit exchanges one form of
the contents for the other, and `open` starts from what the property speaks
about. What replaying a log does is a fold; that it depends on the last record of
an id alone is shown by taking the least counterexample, where an induction
over data would be wanted.

**The refinement.** `StoreImplementsMap` maps the store's steps to
`DurableMap`'s one by one: a record taken or refused, what a sync acknowledges,
the manifest's rename as the commit (in doubt when it reports an error), the
publication, the records that a crash loses, and `open`. All others are stutters,
which takes that a merge, a seal, a collection and a replayed record change
nothing that the mapping shows. `NoWriteLost` supplies the steps of `open`.

**Old directories.** `LegacySpec` differs from `Spec` in its initial states
only. They meet `StoreInv` and `LogInv` when no copy is of a deleted id
(`LegacyInitInv`), so all of the above holds there, too. What is added is which
copy is the live one, and that it stays so: `NewestInv`. In memory no sealed copy
is newer than the one `owners` names, unless the id is deleted or buffered
(`NewestOwned`). For a manifest and its files, where several copies may have no
mark, none is newer than the live ones (`NewestLive`): true of an old directory,
which has no marks, and of a checkpoint's manifest, which takes them from memory.
`NewestInv` has this of memory and of both manifests a crash may leave. A seal
makes the newest segment and the owner of its ids (`FlushNewest`); a merge's
output is the newest segment, and when it takes in an id it takes it in from its
owner (`MergeNewest`); a purge drops marks only when every copy is owned
(`AllOwnedNewest`); and `open` gives each id to the newest live copy, which by
`NewestLive` is the newest copy there is (`LoadNewest`). The last manifest with
no record of an id in its log then reads as its newest copy (`NewestOnOpen`), and
`LogInv` with `NoWriteLost` says that the writer reads the same
(`KeptNewestRead`), whatever it has merged or sealed since.

**The tests' map.** `OracleInv` says that `base` is what the manifest in place
reads as and `taken` the WAL that goes with it, so that `WriterMatchesModel`
follows through every action as `NoWriteLost` does. Where ids are not listed an
id added once has one record or copies in the manifest, not both (`AddedOnce`):
the only ids the property speaks about. Damage makes `intact` smaller, never
`base` wrong. The inverted index adds `PostingsInv`: every segment's postings
are those of the documents it stands for, and an id's latest copy is among them.

**The catalog.** The writer's invariant is inherited (each of `Catalog`'s steps
is one of `SegStore` or leaves it alone). `FrozenStep`, the step behind
`CommittedFilesStayFrozen`, says that a file below the manifest's `next_seg_id`
is not rewritten by this step; a catalog lives through many steps, so
`CatalogBehind` adds that its ids stay below the `next_seg_id` of whatever
manifest is in place, which holds because a manifest is followed only by one of
the next epoch with an id source that is no smaller (`ManifestStep`, from
`EpochInv` and `IdsAhead`). A missing file then means a later epoch, because
under the catalog's own manifest every file is there.

**Sidecars.** An entry or a file is keyed by a segment's id and the live ids,
and ids are drawn again after a crash. `SidecarInv` says that whatever shows an
id (the memory, both manifests, the view, the catalog) shows the same payload
under it, that every index filed or cached for it is of a part of that payload,
and that an id still to be drawn has no index anywhere. The last is what failed
deletions and caches that outlive their store break. Two parts of one payload
with the same ids are equal (`PartsAgree`), so the key tells enough. For the
examples, `IndexInv` says the same of indexes of whole segments.

**The cache.** None of the three promises is inductive alone. `Holding` ties a
thread's place to the mutex: the thread that loads or builds is the one that
holds it, and the key it looks for is not cached. Inserting needs the mutex, so
nobody makes the key cached meanwhile; the insert drops the other entries of the
segment and so leaves one. Calls that run without the mutex (`persist`,
`persist_missing`, and the file deletion of `invalidate` and `retain`) add no
entry and keep the lock as it was (`OutsideStep`).

**The lock.** `OneWriter` makes the process in the store the only one whose
knowledge matters (`Alone`, `StepInStore`). `Knows` follows it: what it has read
so far, then what it has written, is the manifest's writes with those of the
manifest's WAL, plus the records still in its own writer. `NoWalAhead` and
`FreshWal` are what the steps between manifest and rotation need: no older
process has left records under an epoch that is still to come.

**The files.** The disk can write anything into a file except a checksum that
fits something else: `EnvelopeInv` and `PayloadInv` say that the checksum cell
is the writer's or not a checksum at all. A checksum that fits what is there is
then the writer's, and determines the cells it covers (`CrcDetermines`,
`CoveredDetermines`); what has to be shown is that the cells covered determine
what a reader returns, lengths and tags included. `FileInv` says it of each
segment's file by itself; `KeptInv` follows what a reader keeps between its
calls, the buffer and the segment it asked for among it.

**The names.** `NamesInv` says that the directory holds known names, that a
partial file has a temporary one, and that the file of a write under way is there
and partial. `TmpApart` (no temporary name is read), `SweepSpares` (what the
manifest needs is parsed as nothing that a sweep takes) and `SidecarKept` (what
is left in the sidecars' namespace parses as a kept segment's) are about the
names alone: two names are compared by what their dots separate.

**Merge selection.** `SizesCorrect` (of every segment the live items are a part
of the items, and the call under way is one of those there are) is all the
invariant needed: the five properties then hold of every list of segments and
every `TierConfig`. What there is to show is what the loops over a list compute,
and that takes induction. It is done over sets: a set of natural numbers that
has 0 and with each number the next has them all (`NatsBySteps`, by the least
number missing), first to show that the recursions of `Total`, `Unmerged` and
`Buckets` have a solution (CHOOSE then names one), then for what the solution is
like. Sums add over disjoint groups (`TotalUnion`); the count of `UpTo` numbers
the members of a group from 1 on, so `First` of n has n members. `PlacedSoFar`
is the invariant of the loop over buckets: members are placed smallest first,
every position once, and each member of a bucket is below `bucket_high` times
the average of those placed there before it (`Banded`). `TierMergeGrows`
compares the group with as many members of its bucket as were placed first, the
last of which the band was tested for: the two orders, by size and by floored
size, agree, so the group weighs as much. `EveryTurnShrinks` is that a group has
two members at least, since `MinMerge` and `ForceGroupSize` have that floor, and
a merge puts one segment at most in their place. A merge keeps the live items:
`Unmerged` leaves those outside the group, and the output has those inside.

Only model-checked:

- `CallsEnd` and `CallsReturn`: liveness under fairness is out of the prover's
  reach.
- Old directories with copies of deleted ids: the properties fail there.

## Not modelled

- `reject_legacy_formats`, which refuses formats before 0.5 without touching
  anything, and the catalog's refusal of legacy manifests: one flag each.
- Benches: timings. `vector_search`: a scan over all items; it keeps no state
  and calls nothing that the other modules do not cover.
- A `Store` whose callbacks break their contract (a merge that drops live
  items): the library gives no promise then. For that reason the component
  is "partly" modelled.
- Error texts, statistics, serialized layouts, and the codecs of consumers.

## Plan

Done: the memory, the store with faults and recovery, the abstract map and its
refinement, legacy directories, merge selection, the catalog, sidecars (one cache
over crashes, one cache under threads, files of the examples), the writer lock,
files and their sweeps, damage, the tests' map, the inverted index; and proofs
of the safety properties of all of them. What is left to TLC is the liveness of
calls.

Next models: old manifests after partial merges (which copy the rebuild takes
for the newest), and a catalog that outlives a power loss of the writer's
machine.

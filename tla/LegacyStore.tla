---------------------------- MODULE LegacyStore ----------------------------
(***************************************************************************)
(* SegStore opened on a directory that a segstore without superseded marks *)
(* left: a manifest without the extension, which read_manifest takes as    *)
(* having none.  In such a directory an id that was added again has a copy *)
(* in several segments, and a deleted id is tombstoned and nothing else.   *)
(***************************************************************************)
EXTENDS SegStore

CONSTANT MaybeDead   \* the ids the old store may have left tombstoned

ASSUME LegacyAssumption == MaybeDead \subseteq Ids

\* The segments an old store sealed: not empty, one copy of an id in each.
LegacySegments ==
  {copies \in SUBSET Copies :
     /\ copies # {}
     /\ \A a, b \in copies : a[1] = b[1] => a = b}

LegacyInit ==
  /\ \E n \in 0 .. MaxSegId, dead \in SUBSET MaybeDead,
        f \in [SegIds -> LegacySegments] :
       /\ files = [s \in SegIds |-> IF s < n THEN f[s] ELSE {}]
       /\ manifest = [NoManifest EXCEPT !.next_seg_id = n,
                                        !.segment_ids = 0 .. n - 1,
                                        !.tombstones = dead]
  /\ prior = manifest
  /\ mem = EmptyMemory
  /\ persisted_ids = {}
  /\ epoch = 0
  /\ poisoned = FALSE
  /\ wal_failed = FALSE
  /\ applied = 0
  /\ phase = "down"
  /\ published = Snapshot(EmptyMemory)
  /\ wals = [e \in Epochs |-> <<>>]
  /\ synced = [e \in Epochs |-> 0]

LegacySpec == LegacyInit /\ [][Next]_vars

\* A call that has begun runs on until it returns: see FairSpec of SegStore.
LegacyFairSpec == LegacySpec /\ WF_vars(CallStep)

\* What the comment on is_live_in says: "At most one copy of an id passes this
\* check", and every buffered item is live.
AtMostOneCopyPasses ==
  \A i \in Ids :
    Cardinality(LiveIn(mem, i)) + Cardinality({c \in mem.buffer : c[1] = i}) <= 1

\* A legacy directory opens on the newest copy of an id that is not deleted, and
\* the id goes on reading as that copy until it is written again, through every
\* merge, checkpoint and crash: of the copies of an id on disk the newest is read,
\* also when a manifest has recorded the marks that open (lib.rs:1568-1585) made.
NewestCopyRead ==
  phase # "down" =>
    \A i \in Ids :
      /\ i \notin manifest.tombstones
      /\ Touching(Log, applied, i) = {}
      => \A s \in manifest.segment_ids : \A c \in files[s] :
           (/\ c[1] = i
            /\ \A t \in manifest.segment_ids : i \in IdsOf(files[t]) => t <= s)
           => Reads(mem, i) = {c[2]}

=============================================================================

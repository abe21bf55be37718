------------------------------ MODULE Catalog ------------------------------
(***************************************************************************)
(* A SegmentCatalog beside the writer: another process reads the manifest  *)
(* without the writer's lock, keeps it, and opens the segment files it     *)
(* names while the writer merges, checkpoints, deletes, crashes and opens  *)
(* again.  A read changes nothing, so it is no action: the properties say  *)
(* what a read of each listed segment finds at every moment.               *)
(***************************************************************************)
EXTENDS SegStore

VARIABLES
  catalog,  \* the manifest the catalog loaded; NoManifest while none is open
  listed    \* history: the payloads of its segments when it was opened

cVars == <<vars, catalog, listed>>

CInit ==
  /\ Init
  /\ catalog = NoManifest
  /\ listed = NoPayloads

\* SegmentCatalog::open.  The manifest file is replaced atomically, so it is
\* read whole, at any point of what the writer does.
Open ==
  /\ catalog' = manifest
  /\ listed' = [s \in SegIds |-> IF s \in manifest.segment_ids THEN files[s] ELSE {}]
  /\ UNCHANGED vars

\* The steps of the writer's process, which do not see the catalog.
WriterSteps ==
  /\ WriterNext \/ OpenLoad \/ Replay \/ OpenDone \/ ProcessCrash
  /\ UNCHANGED <<catalog, listed>>

\* A power loss ends the catalog's process too.
LosePower ==
  /\ PowerLoss
  /\ catalog' = NoManifest
  /\ listed' = NoPayloads

CNext == Open \/ WriterSteps \/ LosePower

CSpec == CInit /\ [][CNext]_cVars

-----------------------------------------------------------------------------
(* Properties.                                                             *)

\* read_segment and read_segment_payload find the payload the segment had when
\* the catalog was opened, or no file: never another segment's payload under a
\* listed id, however often the writer has crashed and drawn ids since.
ReadsAreOfTheCheckpoint ==
  \A s \in catalog.segment_ids : files[s] \in {listed[s], {}}

\* A consumer that misses a listed file gets on by opening a new catalog: a
\* file is gone only once a manifest of a later epoch is in place.
MissingMeansSuperseded ==
  \A s \in catalog.segment_ids : files[s] = {} => manifest.epoch > catalog.epoch

\* SegmentCatalog::is_live_in (lib.rs:1145): "at most one copy of an id passes
\* this check", over all the segments of the catalog.
OneCopyListed ==
  TracksIds =>
    \A i \in Ids :
      LET live == {s \in catalog.segment_ids :
                     /\ i \in IdsOf(listed[s])
                     /\ CopyIsLive(catalog.tombstones, catalog.superseded, s, i)}
      IN  /\ \A s, t \in live : s = t
          /\ \A v, w \in LiveItems(catalog, listed, i) : v = w

=============================================================================

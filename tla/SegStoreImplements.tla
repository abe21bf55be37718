------------------------- MODULE SegStoreImplements -------------------------
(***************************************************************************)
(* SegStore implements DurableMap.  The committed map is the contents of   *)
(* the manifest no power loss can take back, the log is the WAL that goes  *)
(* with it, and a doubtful commit is a manifest whose write failed after   *)
(* the file was visible.                                                   *)
(***************************************************************************)
EXTENDS SegStore

CONSTANT Nothing   \* not a map

ASSUME NothingAssumption == Nothing \notin [Ids -> SUBSET Items]

ContentsOf(c) == [i \in Ids |-> ReadsOnOpen(c, files, i)]

Serving == phase \notin {"down", "replay"}

TakenRecords ==
  CASE ~Serving         -> Len(wals[prior.epoch])
    [] phase = "rotate" -> 0
    [] OTHER            -> applied

DoubtfulMap == IF manifest = prior THEN Nothing ELSE ContentsOf(manifest)

WriterMap == IF Serving THEN [i \in Ids |-> Reads(mem, i)] ELSE Nothing

ReaderMap == [i \in Ids |-> LiveItems(published, published.segments, i)]

Map == INSTANCE DurableMap WITH
  SurvivesPowerLoss <- Sync = "Fsync",
  base     <- ContentsOf(prior),
  log      <- wals[prior.epoch],
  taken    <- TakenRecords,
  acked    <- synced[prior.epoch],
  doubt    <- DoubtfulMap,
  view     <- WriterMap,
  snapshot <- ReaderMap

\* Every step of the store, crashes and recoveries included, is a step that
\* DurableMap allows: no acknowledged or committed write is lost, no refused
\* one is taken twice, and readers see committed maps only.
ImplementsDurableMap == Map!Spec

=============================================================================

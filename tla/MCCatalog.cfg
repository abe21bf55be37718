CONSTANTS
  a = a
  v = v
  w = w
  Ids = {a}
  Items = {v, w}
  Deleted = Deleted
  NoSeg = NoSeg
  TracksIds = TRUE
  MaxSegId = 2
  FlushThreshold = 1
  Sync = "Fsync"
  Faults = {"delete", "segment", "manifest"}
  MaxEpoch = 2
  MaxWal = 2

SPECIFICATION CSpec
SYMMETRY Symmetry

INVARIANTS
  ReadsAreOfTheCheckpoint
  MissingMeansSuperseded
  Reopenable

PROPERTIES
  CommittedFilesFrozen

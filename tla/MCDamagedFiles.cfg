CONSTANTS
  a = a
  b = b
  v = v
  w = w
  Ids = {a, b}
  Items = {v, w}
  Deleted = Deleted
  NoSeg = NoSeg
  ManifestFile = ManifestFile
  TracksIds = TRUE
  MaxSegId = 3
  FlushThreshold = 2
  Sync = "Flush"
  Faults = {}
  MaxEpoch = 2
  MaxWal = 2

SPECIFICATION DSpec
SYMMETRY Symmetry

INVARIANTS
  TypeOK
  OneLiveCopy
  WriterMatchesModel
  ReadersMatchCheckpoint

CONSTANTS
  a = a
  v = v
  w = w
  Ids = {a}
  Items = {v, w}
  Deleted = Deleted
  NoSeg = NoSeg
  TracksIds = TRUE
  MaxSegId = 3
  FlushThreshold = 2
  Sync = "Flush"
  Faults = {"wal", "segment", "manifest"}
  MaxEpoch = 2
  MaxWal = 2
  MaybeDead = {}

SPECIFICATION LegacyFairSpec

INVARIANTS
  AtMostOneCopyPasses
  NewestCopyRead

PROPERTIES
  CallsEnd

CONSTANTS
  a = a
  v = v
  w = w
  Ids = {a}
  Items = {v, w}
  Deleted = Deleted
  NoSeg = NoSeg
  TracksIds = TRUE
  MaxSegId = 2
  FlushThreshold = 2
  Sync = "Flush"
  Faults = {}
  MaxEpoch = 1
  MaxWal = 2
  MaybeDead = {a}

SPECIFICATION LegacySpec

INVARIANTS
  AtMostOneCopyPasses

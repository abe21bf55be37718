CONSTANTS
  a = a
  b = b
  v = v
  w = w
  Ids = {a, b}
  Items = {v, w}
  Deleted = Deleted
  NoSeg = NoSeg
  Nothing = Nothing
  TracksIds = TRUE
  MaxSegId = 2
  FlushThreshold = 2
  Sync = "Fsync"
  Faults = {"wal", "manifest"}
  MaxEpoch = 2
  MaxWal = 2

SPECIFICATION Spec
SYMMETRY Symmetry

INVARIANTS
  NoWriteLost

PROPERTIES
  ImplementsDurableMap

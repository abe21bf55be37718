CONSTANTS
  a = a
  v = v
  w = w
  Ids = {a}
  Items = {v, w}
  Deleted = Deleted
  NoSeg = NoSeg
  NoIndex = NoIndex
  Damaged = Damaged
  TracksIds = TRUE
  MaxSegId = 2
  FlushThreshold = 2
  Sync = "Fsync"
  Faults = {"manifest"}
  MaxEpoch = 2
  MaxWal = 1
  Hosts = {"writer", "view"}
  Keeps = FALSE

SPECIFICATION SSpec
SYMMETRY Symmetry

INVARIANTS
  ServedIsCurrent

PROPERTIES
  SidecarsKept

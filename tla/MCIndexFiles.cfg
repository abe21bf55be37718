CONSTANTS
  a = a
  v = v
  w = w
  x = x
  y = y
  Ids = {a}
  Items = {v, w}
  Terms = {x, y}
  TermsOf <- OneAndBoth
  Deleted = Deleted
  NoSeg = NoSeg
  NoIndex = NoIndex
  Damaged = Damaged
  TracksIds = FALSE
  MaxSegId = 2
  FlushThreshold = 1
  Sync = "Flush"
  Faults = {"manifest"}
  MaxEpoch = 2
  MaxWal = 2
  Hosts = {"catalog"}
  Keeps = TRUE

SPECIFICATION ISpec

INVARIANTS
  LoadedIsRebuilt
  SearchIsExact
  ServedIsCurrent

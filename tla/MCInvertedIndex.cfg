CONSTANTS
  a = a
  b = b
  v = v
  w = w
  x = x
  y = y
  Ids = {a, b}
  Items = {v, w}
  Terms = {x, y}
  TermsOf <- OneAndBoth
  Deleted = Deleted
  NoSeg = NoSeg
  TracksIds = FALSE
  MaxSegId = 3
  FlushThreshold = 2
  Sync = "Flush"
  Faults = {}
  MaxEpoch = 2
  MaxWal = 2

SPECIFICATION ISpec
SYMMETRY Symmetry

INVARIANTS
  SegmentsAreTheirDocuments
  QueryFindsLive

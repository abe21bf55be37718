CONSTANTS
  p1 = p1
  p2 = p2
  p3 = p3
  w1 = w1
  w2 = w2
  w3 = w3
  Procs = {p1, p2, p3}
  Writes = {w1, w2, w3}
  NoProc = NoProc
  MaxEpoch = 2

SPECIFICATION LSpec
SYMMETRY Symmetry

INVARIANTS
  OneWriter
  NothingAckedLost
  LogIsItsOwn

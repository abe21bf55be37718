CONSTANTS
  t1 = t1
  t2 = t2
  s1 = s1
  s2 = s2
  Threads = {t1, t2}
  Segments = {s1, s2}
  NoFile = NoFile
  NoThread = NoThread
  MaxLive = 1

SPECIFICATION TFairSpec

INVARIANTS
  OneEntryPerSegment
  GetsWhatItAsked
  BuildsOnce

PROPERTIES
  CallsReturn

SPECIFICATION MCFairSpec
CONSTANTS
  p1 = p1  t1 = t1  t2 = t2  x = x  y = y
  Procs = {p1}
  Threads = {t1, t2}
  PageSize = 2
  NPages = 3
  Vals = {x, y}
  Regions <- MCRegions
  Offsets <- MCOffsets
  Devices = {0, 1}
INVARIANTS TypeOK WindowRight
PROPERTIES AtomicSpace CallsReturn

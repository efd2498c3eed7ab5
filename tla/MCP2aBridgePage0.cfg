SPECIFICATION MCSpec
CONSTANTS
  p1 = p1  t1 = t1  t2 = t2  x = x  y = y
  Procs = {p1}
  Threads = {t1}
  PageSize = 2
  NPages = 3
  Vals = {x, y}
  Regions <- MCRegionsAll
  Offsets <- MCOffsets
  Devices = {1}
INVARIANT WindowRight

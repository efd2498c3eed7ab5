SPECIFICATION FairSpec
CONSTANTS
  p1 = p1  c1 = c1  p2 = p2  c2 = c2  e = e  u = u
  Devs <- MCDevs
  LinkSeq <- MCLinks
  Child <- MCChild
  Has <- MCHas
  Bits = {e, u}
  UrBits = {u}
  Iters <- MCIters
  Noisy <- MCNoisy
  MaxEvents = 2
INVARIANTS TypeOK ExactCount TotalRight
PROPERTIES FastRight ErrorsNoticed

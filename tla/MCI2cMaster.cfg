SPECIFICATION FairSpec
CONSTANTS
  Size = 2
  Vals = {0, 1}
  RegVal = 1
  KnownIds = {1}
  Images <- MCImages
  Channels = {0, 8}
  ExtraCheck = TRUE
INVARIANTS TypeOK EeoutTrue EeinTrue EndsIdle CleanRunSucceeds
PROPERTY RunEnds

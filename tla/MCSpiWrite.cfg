SPECIFICATION FairSpec
CONSTANTS
  Bits <- MCBits
  PageSize = 2
  EraseSize = 4
  FlashSize = 12
  WordSize = 2
  CanSwitch = TRUE
  Jobs <- MCJobs
  FlashInits <- MCFlashInits
  Rejects = FALSE
  KillInHeader = FALSE
INVARIANT TypeOK
PROPERTIES BlockByBlock RunEnds

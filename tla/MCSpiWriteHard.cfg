SPECIFICATION Spec
CONSTANTS
  Bits <- MCBits
  PageSize = 2
  EraseSize = 4
  FlashSize = 8
  WordSize = 2
  CanSwitch = FALSE
  Jobs <- MCHardJobs
  FlashInits <- MCHardInits
  Rejects = TRUE
  KillInHeader = TRUE
INVARIANTS DoneMeansWritten CleanRunSucceeds EndsDeselected

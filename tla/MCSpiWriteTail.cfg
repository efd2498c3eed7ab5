SPECIFICATION Spec
CONSTANTS
  Bits <- MCBits
  PageSize = 2
  EraseSize = 4
  FlashSize = 12
  WordSize = 2
  CanSwitch = TRUE
  Jobs <- MCTailJobs
  FlashInits <- MCFlashInits
  Rejects = FALSE
  KillInHeader = FALSE
INVARIANT OnlyRangeTouched

SPECIFICATION Spec
CONSTANTS
  NumMons = 1
  DmaAddrs = {4}
  Lengths = {1, 2, 3}
  Wrap = 3
  MaxBatch = 2
  MaxMsgs = 2
  MaxBytes = 4
  MaxMisses = 1
  Layouts = {"old", "new", "26", "other"}
  MaxWrites = 2
  Locks = {FALSE, TRUE}
  Envs <- MCEnvs
  EnvSize = 6
  Frus <- MCFrus
  Areas = {1, 2}
  Unit = 1
  ByteMod = 2
  Skip = 1
  Offsets = {0, 1, 4, 4088, 4092, 4095}
  BlockLengths <- MCBlockLengths
INVARIANTS TypeOK Decoded AloneSucceeds DisabledTruly FilesRight InsideMap
PROPERTIES LinkReported Delivered SpeedSettles
CHECK_DEADLOCK FALSE

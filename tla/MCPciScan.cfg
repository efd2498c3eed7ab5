SPECIFICATION Spec
CONSTANTS
  Devices = {1, 2, 3, 4, 5, 6}
  Offsets = {1, 2, 3}
  Labels = {"", "ROOT", "PLX", "IETH"}
  Confs <- MCConfs
INVARIANTS TypeOK CapsRight PathsNested PathsUnique
PROPERTY ScanEnds
CHECK_DEADLOCK FALSE

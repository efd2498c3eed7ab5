SPECIFICATION Spec
CONSTANTS
  b1 = b1  b2 = b2
  Families = {26}
  Buses <- MCBuses
  FixedBuses <- MCFixedBuses
INVARIANT EnabledBusesStopped

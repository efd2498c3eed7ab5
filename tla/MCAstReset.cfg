SPECIFICATION FairSpec
CONSTANTS
  b1 = b1  b2 = b2
  Families = {24, 25, 26}
  Buses <- MCBuses
  FixedBuses <- MCFixedBuses
INVARIANTS TypeOK StoppedIsQuiet WillRevive BootsFromSpi
PROPERTY Revives

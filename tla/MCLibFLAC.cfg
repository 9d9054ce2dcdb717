\* The file ends; a driver that waits for samples never returns.
CHECK_DEADLOCK FALSE
SPECIFICATION FlacFairSpec
CONSTANTS
  Drivers = {1, 2}
  PollSleep = 5
  Needs = {1, 2}
  Sessions = 2
  BlockSize = 2
  Blocks = 3
  High = 3
  UINT = 8
INVARIANTS FlacInv
PROPERTIES FlacFileEnds

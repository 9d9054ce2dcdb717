\* The file ends: the player is closed and the driver's thread has returned.
CHECK_DEADLOCK FALSE
SPECIFICATION FairSpec
CONSTANTS
  Drivers = {1, 2}
  PollSleep = 8
  Needs = {1, 2}
  MaxDecode = 2
  CHUNK_SIZE = 2
  UINT = 8
  Lengths = {1, 4, 7}
  WaitLeft = {TRUE, FALSE}
  High = 3
  Low = 2
INVARIANTS Inv
PROPERTIES FileEnds

\* The file ends: the player is closed and the driver's thread has returned.
CHECK_DEADLOCK FALSE
SPECIFICATION FairSpec
CONSTANTS
  Drivers = {1}
  PollSleep = 3
  Needs = {1, 2}
  MaxDecode = 2
  Frames = 5
  Half = 3
INVARIANTS FaadInv PlaysWhatThereIs DriverGoneBeforeFree
PROPERTIES FileEnds

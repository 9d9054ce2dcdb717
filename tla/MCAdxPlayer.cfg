\* The file or the video ends; the driver's thread has returned.
CHECK_DEADLOCK FALSE
SPECIFICATION FairSpec
CONSTANTS
  Drivers = {1, 2}
  PollSleep = 5
  Needs = {1, 2}
  Videos = {TRUE, FALSE}
  Chunks = 4
  ChunkBytes = 5
  ChunkSizes = {2, 4}
  High = 3
  Low = 2
INVARIANTS Inv
PROPERTIES FileEnds

\* The file or the video ends; a driver that was never started waits.
CHECK_DEADLOCK FALSE
SPECIFICATION FairSpec
CONSTANTS
  Drivers = {1, 2}
  PollSleep = 2
  Needs = {1, 2}
  MaxDecode = 2
  Chunks = 4
  Videos = {TRUE, FALSE}
  High = 3
  Low = 2
INVARIANTS Inv StatusTellsThread SamplesOutliveDriver
PROPERTIES StartedExitReturns

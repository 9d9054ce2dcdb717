\* Two videos are played; then the menu stays.
CHECK_DEADLOCK FALSE
SPECIFICATION FairSpec
CONSTANTS
  FIFO_SIZE = 2
  Sessions = 2
  Chunks = 4
  UINT_MAX = 9
  Players = {"xvid", "mpeg", "sofdec"}
INVARIANTS Inv SoundWaitsForPicture
PROPERTIES PlayerReturns SoundStarts

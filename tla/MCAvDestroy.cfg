\* One video is played; a render thread may be left waiting.
CHECK_DEADLOCK FALSE
SPECIFICATION FairSpec
CONSTANTS
  FIFO_SIZE = 2
  Sessions = 1
  Chunks = 4
  UINT_MAX = 9
  Players = {"xvid", "mpeg", "sofdec"}
PROPERTIES DestroyEndsThread

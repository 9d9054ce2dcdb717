\* The stream ends: the decoder stops, and the display waits for a packet.
CHECK_DEADLOCK FALSE
SPECIFICATION FairSpec
CONSTANTS
  FIFO_SIZE = 3
  Frames = 7
INVARIANTS NoOverwrite ChecksHold Inv SilentUntilFull
PROPERTIES QueueSpec AllShown

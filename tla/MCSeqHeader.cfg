\* The search returns and stays so.
CHECK_DEADLOCK FALSE
SPECIFICATION SeekFairSpec
CONSTANTS
  Bytes = {0, 1, 179, 255}
  MaxSize = 7
INVARIANTS SeekTypeOK FoundIsHeader CleanFound
PROPERTIES Returns

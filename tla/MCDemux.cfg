SPECIFICATION DemuxSpec
CONSTANTS
    Films <- FirstFilms
    FilmsAfter <- Again
    BufferSizes = {15, 16, 17}
    Sessions = 2
    Players = {"mpeg", "sofdec"}
INVARIANT DemuxInv PayloadExact SofdecWhole
\* After the last film the player is closed.
CHECK_DEADLOCK FALSE

\* The program stops drawing after MaxFrames frames.
CHECK_DEADLOCK FALSE
SPECIFICATION Spec
CONSTANTS
  Points = {0, 1, 2, 3, 4, 5, 6, 7, 8, 9, 10, 11, 12, 13, 14, 15}
  Cover = Cover
  Film = Film
  Images = {Cover, Film}
  NoImage = NoImage
  MaxVertices = 8
  MaxNodes = 2
  MaxTextures = 3
  MaxFrames = 2
ACTION_CONSTRAINTS Numbered Orderly
INVARIANTS Inv StandApart
PROPERTIES Shows

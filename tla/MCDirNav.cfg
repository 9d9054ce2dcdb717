SPECIFICATION FairSpec
CONSTANTS
  Names <- MCNames
  Length <- MCLength
  Container <- MCContainer
  Dirs <- MCDirs
  Files <- MCFiles
INVARIANTS TypeOK ListingIsOfPath PlaysFileOfMenu
PROPERTIES BackLeadsUp ShowsSomething

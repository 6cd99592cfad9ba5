SPECIFICATION FairSpec
CONSTANTS
  T = 3
  Total = 15
  Dir = 9
  Back = 3
  MapSector = 12
  MapByte = 2
  MaxExtent = 4
  Entries = 3
  PerSector = 3
  HeaderExtents = 1
  MoreExtents = 2
  Bps = 2
  Names = {a, b}
  NoName = NoName
  WriteSizes = {7}
  Positions = {0}
  SetSizes = {3}
  MaxSize = 14
  Faults = FALSE
  Crashes = FALSE
VIEW State
INVARIANTS
  TypeOK
  NoSharedSector
  NoSectorLost
  SizeAgrees
  AllocatesUntilFull
PROPERTIES
  FilesStay
  CallsReturn

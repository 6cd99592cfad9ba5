SPECIFICATION Spec
CONSTANTS
  T = 2
  Total = 10
  Dir = 6
  Back = 2
  MapSector = 8
  MapByte = 2
  MaxExtent = 2
  Entries = 2
  PerSector = 1
  HeaderExtents = 1
  MoreExtents = 2
  Bps = 2
  Names = {a, b}
  NoName = NoName
  WriteSizes = {7}
  Positions = {0}
  SetSizes = {3}
  MaxSize = 7
  Faults = TRUE
  Crashes = TRUE
VIEW State
INVARIANTS
  FilesWhole
  GrowthNeverExposes
CONSTRAINT NoFilesLost
SYMMETRY Symmetry

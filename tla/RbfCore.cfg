SPECIFICATION FairSpec
CONSTANTS
  TotalClusters = 10
  MapSector = 9
  Spc = 1
  PdSas = 2
  Bps = 2
  NumSegs = 3
  NumLimit = 65536
  Paths = {p1}
  Names = {a, b}
  NoName = NoName
  Dot = Dot
  Root = 2
  RootN = 1
  WriteSizes = {1, 3}
  MaxSize = 6
  Exclusive = TRUE
  Serial = FALSE
  Faults = FALSE
  Crashes = FALSE
  Growing = FALSE
VIEW LiveState
INVARIANTS
  TypeOK
  NoSharedCluster
  AtRestExact
  OpenExact
  SizeMatchesSegments
  SegmentsInOneMapSector
PROPERTY CallsReturn

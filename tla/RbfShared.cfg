SPECIFICATION Spec
CONSTANTS
  TotalClusters = 8
  MapSector = 8
  Spc = 1
  PdSas = 1
  Bps = 2
  NumSegs = 3
  NumLimit = 65536
  Paths = {p1, p2}
  Names = {a, b}
  NoName = NoName
  Dot = Dot
  Root = 2
  RootN = 3
  WriteSizes = {1}
  MaxSize = 2
  Exclusive = FALSE
  Serial = TRUE
  Faults = FALSE
  Crashes = FALSE
  Growing = FALSE
INVARIANT NoSharedCluster

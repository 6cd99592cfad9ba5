SPECIFICATION Spec
CONSTANTS
  TotalClusters = 6
  MapSector = 4
  Spc = 2
  PdSas = 1
  Bps = 2
  NumSegs = 3
  NumLimit = 65536
  Paths = {p1}
  Names = {a, b}
  NoName = NoName
  Dot = Dot
  Root = 1
  RootN = 1
  WriteSizes = {1, 3}
  MaxSize = 4
  Exclusive = TRUE
  Serial = FALSE
  Faults = TRUE
  Crashes = TRUE
  Growing = TRUE
VIEW LiveState
INVARIANTS
  FailureOnlyLeaks
  OnlyGrowthIsExposed
  Inv
CONSTRAINT FewFailures

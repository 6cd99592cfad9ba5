SPECIFICATION Spec
CONSTANTS
  Clusters = 9
  PerCluster = 3
  Names = {a, b}
  NoName = NoName
  Self = Self
  Up = Up
  MaxDepth = 3
  Attributes = {{"read", "write"}, {"read"}}
VIEW LiveState
SYMMETRY Symmetry
INVARIANT NoOrphans
PROPERTY DeletesWhatItNames
CHECK_DEADLOCK FALSE

SPECIFICATION Spec
CONSTANTS
  Total = 8
  Spc = 1
  Root = 2
  Nodes = {5, 6}
  RunStarts = {4, 5, 6, 7}
  Data = {3, 4, 7}
  Links = {0, 2, 5, 6, 8, 9}
INVARIANT IntactSharesNothing
CHECK_DEADLOCK FALSE

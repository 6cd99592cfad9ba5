SPECIFICATION Spec
CONSTANTS
  Granules = 4
  SpG = 2
  Bps = 2
  Slots = 2
  Start = 2
  Args = {"long"}
  EntryNames = {"bar"}
  EntryOf <- MCEntryOf
  Opens <- MCOpens
  NoName = NoName
  WriteSizes = {1}
  Positions = {0}
  MaxSize = 2
  Handles = 2
  Faults = FALSE
  Crashes = FALSE
INVARIANT RewriteIsDone

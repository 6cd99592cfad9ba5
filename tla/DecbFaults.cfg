SPECIFICATION Spec
CONSTANTS
  Granules = 4
  SpG = 2
  Bps = 2
  Slots = 2
  Start = 2
  Args = {"foo", "bar"}
  EntryNames = {"foo", "bar"}
  EntryOf <- MCEntryOf
  Opens <- MCOpens
  NoName = NoName
  WriteSizes = {3}
  Positions = {0}
  MaxSize = 6
  Handles = 1
  Faults = TRUE
  Crashes = TRUE
VIEW State
INVARIANTS
  ContentsIntact
  OthersSurvive
CONSTRAINT FewFailures

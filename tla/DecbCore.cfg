SPECIFICATION FairSpec
CONSTANTS
  Granules = 4
  SpG = 2
  Bps = 2
  Slots = 2
  Start = 2
  Args = {"foo", "FOO"}
  EntryNames = {"foo", "FOO"}
  EntryOf <- MCEntryOf
  Opens <- MCOpens
  NoName = NoName
  WriteSizes = {3, 6}
  Positions = {0, 1, 4}
  MaxSize = 9
  Handles = 1
  Faults = FALSE
  Crashes = FALSE
VIEW State
INVARIANTS
  TypeOK
  NoSharedGranule
  NoGranuleLost
  ContentsIntact
PROPERTIES
  CallsReturn
  IsStore

SPECIFICATION Spec
CONSTANTS
  TotalClusters = 9
  ClusterMap = 4
  Spc = 1
  PdSas = 1
  Granules = 8
  SpG = 1
  GranuleBps = 1
  T = 3
  Total = 18
  Dir = 9
  Back = 3
  MapSector = 12
  MapByte = 2
  MaxExtent = 4
  Hints = {65535, 1, 13}
  Numbers = {1, 2, 3}
  MaxIds = 3
  Spt = 3
  Track0s = {2, 3}
  DiskTotal = 4
  Opens = {A, B}
  BufferSlots = 2
  MaxWrites = 3
  FileBps = 2
  NumSegs = 3
  SegSizes = {1, 2}
  FileSpg = 2
  Asked = {1, 3, 5}
  DiskSectors = 8
  Root = 2
  Nodes = {5, 6}
  RunStarts = {4, 5, 6, 7}
  Data = {3, 4, 7}
  Links = {0, 2, 5, 6, 8, 9}
  Names = {1, 2}
  Silence = 2
  Pause = 1
  Leader = 1
  MaxBlock = 3
  Sizes = {1, 3}
  MaxData = 4
  MaxFiles = 2
  CR = CR
  LF = LF
  Other = Other
  MaxLen = 5
  Buffers = {2, 3}
  Gone = Gone
  Faults = TRUE
INVARIANTS
  SegmentFound
  GranuleFound
  SectorPlaced
  SectorFound
  WrittenIsRead
  ReadsTheFile
  VerdictIsRight
  RecordedIsRead
  CopyIsWhole
  FailureLeavesNoHalf
PROPERTY OneSectorChanges
CHECK_DEADLOCK FALSE

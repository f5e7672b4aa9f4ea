CONSTANTS
  Sizes <- MCSizes
  ClusterSizes = {1, 2, 3}
  Options <- MCOptions
  Bits = 8
  Byte = 2
  Sixes = 2
  Reserved = 5
  MostFiles = 10
  MinHeaders = 5
  DirEntries = 3
  SecurityBlocks = 2
  MinClusters = 5
  SmallDisk = 24
  SearchLength = 5
  ScanLimit = 10
SPECIFICATION Spec
INVARIANTS
  StructuresApart
  MountFindsVolume
CHECK_DEADLOCK FALSE

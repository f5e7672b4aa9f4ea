CONSTANTS
  i1 = i1
  i2 = i2
  Images = {i1, i2}
  Drives = {d1, d2}
  c1 = c1
  c2 = c2
  Slots <- MCSlots
  Clusters <- MCClusters
  Rvn <- MCRvn
  NoCache = NoCache
  NoVolume = NoVolume
  NoFile = NoFile
  Unset = Unset
  MaxSize = 1
  MaxFailures = 0
  MaxMishaps = 1
  MaxCommands = 8
SPECIFICATION Spec
INVARIANT NothingLeftDirty
CHECK_DEADLOCK FALSE

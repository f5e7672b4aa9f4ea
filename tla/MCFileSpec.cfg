CONSTANTS
  mfd = mfd
  d1 = d1
  d2 = d2
  d3 = d3
  z = z
  a = a
  b = b
  Dirs = {mfd, d1, d2, d3}
  Mfd = mfd
  NoDir = NoDir
  NameOrder <- MCNameOrder
  Zero = z
  Star = Star
  Versions <- MCVersions
  Texts <- MCTexts
  Selectors <- MCSelectors
  MaxLevels = 2
  MaxDefault = 1
  MaxDepth = 4
  MaxLinks = 1
SPECIFICATION Spec
INVARIANTS
  FindsInOrder
  CreatedPathsResolve
PROPERTY
  GlobEnds

SPECIFICATION FileSpec
CONSTANTS
  a = a
  b = b
  h1 = h1
  h2 = h2
  NoName = none
  Names = {a, b}
  Handles = {h1, h2}
  ClusterSize = 2
  TotalClusters = 4
  MaxBuffer = 2
  MaxExtent = 3
  Calls = {"open", "close", "write", "truncate", "expand", "unlink"}
  MaxFaults = 0
  MaxCrashes = 0
SYMMETRY FileSymmetry
INVARIANTS FilesDisjoint SizesCovered
PROPERTIES ImplementsFileStore

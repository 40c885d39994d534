SPECIFICATION FileSpec
CONSTANTS
  a = a
  b = b
  h1 = h1
  h2 = h2
  NoName = none
  Names = {a, b}
  Handles = {h1}
  ClusterSize = 2
  TotalClusters = 4
  MaxBuffer = 2
  MaxExtent = 3
  Calls = {"open", "close", "sync", "read", "forward", "seek", "write", "expand", "stat"}
  MaxFaults = 0
  MaxCrashes = 1
SYMMETRY FileSymmetry
INVARIANTS SizesCovered
PROPERTIES ImplementsFileStore

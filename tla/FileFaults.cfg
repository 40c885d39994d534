SPECIFICATION FileSpec
CONSTANTS
  a = a
  b = b
  h1 = h1
  h2 = h2
  NoName = none
  Names = {a, b}
  Handles = {h1}
  ClusterSize = 1
  TotalClusters = 4
  MaxBuffer = 2
  MaxExtent = 2
  Calls = {"open", "close", "sync", "seek", "write", "truncate", "expand", "unlink"}
  MaxFaults = 1
  MaxCrashes = 1
SYMMETRY FileSymmetry
INVARIANTS FileTypeOK
PROPERTIES OneFileChanges WritesInRange

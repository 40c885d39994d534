SPECIFICATION DirSpec
CONSTANTS
  A = A
  B = B
  l = l
  Names = {A, l}
  Short <- ShortOf
  Pieces <- PiecesOf
  SlotsPerCluster = 2
  SlotsPerSector = 1
  TotalClusters = 3
  MaxDepth = 0
  DirCalls = {"open", "unlink", "rename", "readdir"}
  MaxFaults = 1
  MaxCrashes = 0
INVARIANTS PassExact ListedOnce

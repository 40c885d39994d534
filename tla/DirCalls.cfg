SPECIFICATION DirSpec
CONSTANTS
  A = A
  B = B
  l = l
  Names = {A, B}
  Short <- ShortOf
  Pieces <- PiecesOf
  SlotsPerCluster = 2
  SlotsPerSector = 1
  TotalClusters = 4
  MaxDepth = 1
  DirCalls = {"mkdir", "open", "unlink", "rename", "chdir"}
  MaxFaults = 0
  MaxCrashes = 0
SYMMETRY NameSymmetry
INVARIANTS DirTypeOK TreeSound
PROPERTIES ImplementsDirStore

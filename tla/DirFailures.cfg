SPECIFICATION DirSpec
CONSTANTS
  A = A
  B = B
  l = l
  Names = {A, l}
  Short <- ShortOf
  Pieces <- PiecesOf
  SlotsPerCluster = 3
  SlotsPerSector = 1
  TotalClusters = 4
  MaxDepth = 1
  DirCalls = {"mkdir", "unlink", "rename"}
  MaxFaults = 1
  MaxCrashes = 1
INVARIANTS EndMarksLast LongNamesWhole EntriesFound DirectoriesSound EntriesSound
PROPERTIES EntryStays

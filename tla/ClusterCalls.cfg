SPECIFICATION Spec
CONSTANTS
  a = a
  b = b
  Root = root
  Owners = {root, a, b}
  Calls = {"allocate", "allocate_chain", "write_chain", "append", "free", "cut"}
  TotalClusters = 5
  NumFATs = 2
  EntriesPerSector = 3
  MaxCount = 3
  MaxFaults = 0
  MaxCrashes = 0
SYMMETRY OwnerSymmetry
INVARIANTS SpaceAccounted MirrorExact
PROPERTY ImplementsChainStore

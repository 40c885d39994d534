SPECIFICATION FairSpec
CONSTANTS
  a = a
  b = b
  Root = root
  Owners = {root, a, b}
  Calls = {"allocate", "allocate_chain", "write_chain", "append", "free", "cut"}
  TotalClusters = 4
  NumFATs = 2
  EntriesPerSector = 3
  MaxCount = 2
  MaxFaults = 2
  MaxCrashes = 1
INVARIANTS TypeOK Inductive NoCrossLink CrashSafe
PROPERTIES MirrorHeals CallsReturn ImplementsChainStore

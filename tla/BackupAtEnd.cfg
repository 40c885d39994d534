SPECIFICATION PartSpec
CONSTANTS
  DiskSectors = 14
  EntrySectors = 2
  EntriesPerSector = 1
  MinSectors = 8
  MaxPartitions = 2
  Ranges <- RangesOf
  MaxFaults = 1
  MaxCrashes = 1
INVARIANT BackupAtEnd

SPECIFICATION VolumeSpec
CONSTANTS
  Volumes = {"small", "large"}
  Start <- TwoStarts
  Sectors <- TwoSizes
  Used <- TwoUsed
  DiskSectors = 659426
  MaxFaults = 1
  MaxCrashes = 1
INVARIANTS VolumeTypeOK ClustersInside MountedSound
PROPERTY VolumesApart

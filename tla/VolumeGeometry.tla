--------------------------- MODULE VolumeGeometry ---------------------------
(***************************************************************************)
(* The arithmetic of fat32_bpb.c: where the areas of a volume of n sectors *)
(* begin and end, counted in sectors from the start of the volume.         *)
(* A volume below MinSectors has no cluster, or makes the subtractions of  *)
(* the code wrap; from there on no value leaves its 32 bits.  MaxSectors is*)
(* half the range of uint32_t, as far as TLC can count.                    *)
(***************************************************************************)
EXTENDS Integers

SectorSize == 512

ReservedSectors == 32

NumFATs == 2

RootCluster == 2

\* CLUSTER_END_OF_CHAIN.
EndOfChain == 268435455

MinSectors == 35

MaxSectors == 2147483647

\* 512-byte clusters below 32 MB, up to 8 KB from 256 MB on.
SectorsPerCluster(n) ==
  IF n < 65536 THEN 1 ELSE IF n < 262144 THEN 2 ELSE IF n < 524288 THEN 4 ELSE 16

\* Clusters that fit beside FATs of f sectors each.
ClustersBeside(n, f) == (n - ReservedSectors - NumFATs * f) \div SectorsPerCluster(n)

\* Sectors for a FAT of k entries of 4 bytes.
FatSectors(k) == (k * 4 + SectorSize - 1) \div SectorSize

\* BPB_FATSz32: estimated for a volume without FATs, then once more for what
\* that estimate leaves.
FatSize(n) == FatSectors(ClustersBeside(n, FatSectors(ClustersBeside(n, 0))))

\* Mutant: the clusters are counted as if there were one FAT.
ClustersBesideOne(n) ==
  (n - ReservedSectors - FatSize(n)) \div SectorsPerCluster(n)

\* get_total_clusters().
ClustersOf(n) == ClustersBeside(n, FatSize(n))

FirstDataSector(n) == ReservedSectors + NumFATs * FatSize(n)

FirstSectorOfCluster(n, c) ==
  FirstDataSector(n) + (c - 2) * SectorsPerCluster(n)

\* The first sector of a cluster that an end-of-chain mark is taken for: of 16
\* sectors each, 16 * (EndOfChain - 2) is 2^32 - 48 and the sum wraps.
FirstSectorPastEnd(n) ==
  IF SectorsPerCluster(n) = 16
  THEN FirstDataSector(n) - 48
  ELSE FirstSectorOfCluster(n, EndOfChain)

\* The first sector of FAT copy i.
FatStart(n, i) == ReservedSectors + (i - 1) * FatSize(n)

\* The sector fat32_set_next_cluster takes for the entry of cluster c in copy i.
FatSectorOfCluster(n, c, i) == FatStart(n, i) + (c * 4) \div SectorSize
=============================================================================

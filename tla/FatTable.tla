------------------------------ MODULE FatTable ------------------------------
(***************************************************************************)
(* One copy of the FAT as a function from entries to values, and the chain *)
(* of clusters it holds from a cluster on.                                 *)
(***************************************************************************)
EXTENDS FatEntry, Sequences, FiniteSets

CONSTANT TotalClusters  \* get_total_clusters(): the data clusters of the volume

ASSUME TotalClustersAssumption ==
  TotalClusters \in Nat \ {0} /\ TotalClusters + 1 <= LastValidCluster

\* The clusters of the data area.
Cluster == 2 .. TotalClusters + 1

\* The entries of the table, the two reserved ones included.
FatIndex == 0 .. TotalClusters + 1

Entry == FatIndex \cup {EndOfChain, MediaEntry}

\* fat32_get_next_cluster.  An entry past the table is read from a sector past
\* the end of the device: the read fails and the result is 0.
NextIn(f, c) == IF c \in FatIndex THEN f[c] ELSE 0

\* The clusters visited from c on, for as long as they are on the volume.
ChainIn(f, c) ==
  LET from[n \in 0 .. TotalClusters] ==
        [d \in Entry |-> IF n = 0 \/ ~IsValidCluster(d) THEN <<>>
                         ELSE <<d>> \o from[n - 1][NextIn(f, d)]]
  IN  from[TotalClusters][c]

OnChainIn(f, c) == {ChainIn(f, c)[i] : i \in DOMAIN ChainIn(f, c)}
=============================================================================

--------------------------- MODULE MCVolumeManager ---------------------------
(***************************************************************************)
(* Two neighbouring volumes for TLC, with clusters of 1 and of 16 sectors; *)
(* the FAT of the first is too small for its last cluster.                 *)
(***************************************************************************)
EXTENDS VolumeManager

TwoStarts == [v \in {"small", "large"} |-> IF v = "small" THEN 2048 ELSE 59426]

TwoSizes == [v \in {"small", "large"} |-> IF v = "small" THEN 57378 ELSE 600000]

TwoUsed == [v \in {"small", "large"} |-> {RootCluster, 128, ClustersOf(TwoSizes[v])}]
=============================================================================

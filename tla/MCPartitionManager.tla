------------------------- MODULE MCPartitionManager -------------------------
(***************************************************************************)
(* Instances of PartitionManager for TLC: a disk of 14 sectors and a table *)
(* of two sectors with one entry each.  The two ranges put the backup in   *)
(* places that overlap, the second inside the partition; after a restart,  *)
(* with no size in memory, it has no place at all.                         *)
(***************************************************************************)
EXTENDS PartitionManager

RangesOf == {[start |-> 6, sectors |-> 8], [start |-> 4, sectors |-> 10]}
=============================================================================

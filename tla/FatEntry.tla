------------------------------ MODULE FatEntry ------------------------------
(***************************************************************************)
(* The 28-bit values a FAT entry holds and the two predicates the library  *)
(* classifies them with (fat32_bpb.c).  The values are the real ones: the  *)
(* end-of-chain marker is a number like any cluster number, which is why   *)
(* code that tests a "next" value against zero can walk past the end.      *)
(***************************************************************************)
EXTENDS Naturals

\* A free entry; also what fat32_get_next_cluster returns when a read fails.
FREE == 0

\* CLUSTER_END_OF_CHAIN, 0x0FFFFFFF.
EndOfChain == 268435455

\* FAT[0] as initialize_fat_tables writes it, 0x0FFFFFF8.
MediaEntry == 268435448

\* The largest number is_valid_cluster accepts, 0x0FFFFFEF.
LastValidCluster == 268435439

IsValidCluster(value) == value >= 2 /\ value <= LastValidCluster

IsEndOfChain(value) == value >= MediaEntry

=============================================================================

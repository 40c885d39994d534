------------------------- MODULE ClusterRefinement -------------------------
(***************************************************************************)
(* The micro-steps of ClusterManager implement the indivisible operations  *)
(* of ChainStore.  Each operation takes effect at one sector write of FAT  *)
(* copy 1, or when the caller stores the first cluster it was given:       *)
(*   Create   the return of allocate, allocate_chain, write_chain          *)
(*   Extend   the write that links the last cluster to the new one         *)
(*   Shorten  the write that marks the cut cluster end-of-chain            *)
(*   Drop     the write that marks the first cluster free                  *)
(*   Save     the write of the directory entry                             *)
(***************************************************************************)
EXTENDS ClusterManager

\* A first cluster whose entry is already free no longer leads a chain.
Leads(o) == held[o] # 0 /\ fat[1][held[o]] # FREE

ChainsOfOwners == [o \in Owners |-> IF Leads(o) THEN ChainFrom(held[o]) ELSE <<>>]

OwnersSaved == {o \in Owners : disk[o] = held[o] /\ (held[o] # 0 => Leads(o))}

\* What is left of a chain that was freed is still named on disk.
OwnersStale == {o \in Owners : disk[o] # 0} \ OwnersSaved

Store == INSTANCE ChainStore WITH
  RootCluster <- 2,
  Clusters <- Cluster,
  chains <- ChainsOfOwners,
  saved <- OwnersSaved,
  stale <- OwnersStale

\* ClusterManager, as long as no sector access fails, is a ChainStore: to its
\* callers every allocation, extension, truncation and release is atomic, and
\* the chains they hold stay disjoint and complete across crashes.  What a program
\* does after a crash left it an unsound FAT is not constrained.
ImplementsChainStore ==
  /\ Store!Init
  /\ [][faults' > 0 \/ tainted' \/ Store!Next]_<<ChainsOfOwners, OwnersSaved, OwnersStale>>
=============================================================================

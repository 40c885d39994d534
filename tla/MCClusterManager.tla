-------------------------- MODULE MCClusterManager --------------------------
(***************************************************************************)
(* Instances of ClusterManager for TLC: two files or directories besides   *)
(* the root, which are interchangeable.                                    *)
(***************************************************************************)
EXTENDS ClusterRefinement, ClusterInvariant, TLC

CONSTANTS a, b

OwnerSymmetry == Permutations({a, b})
=============================================================================

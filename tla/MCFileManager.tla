--------------------------- MODULE MCFileManager ---------------------------
(***************************************************************************)
(* Instances of FileManager for TLC: interchangeable names, handles and    *)
(* byte values.                                                            *)
(***************************************************************************)
EXTENDS FileRefinement, TLC

CONSTANTS a, b, h1, h2

FileSymmetry == Permutations({a, b}) \cup Permutations({h1, h2})
=============================================================================

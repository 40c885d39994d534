---------------------------- MODULE MCDirManager ----------------------------
(***************************************************************************)
(* Instances of DirManager for TLC.  A and B are 8.3 names in capitals,    *)
(* which are interchangeable; l needs a long-name slot.                    *)
(***************************************************************************)
EXTENDS DirRefinement, TLC

CONSTANTS A, B, l

\* Every name has an 8.3 form of its own.
ShortOf == [n \in Names |-> n]

PiecesOf == [n \in Names |-> IF n = l THEN 1 ELSE 0]

NameSymmetry == Permutations({A, B})
=============================================================================

---------------------------- MODULE DirRefinement ----------------------------
(***************************************************************************)
(* The cluster writes of DirManager implement the operations of DirStore.  *)
(* Each takes effect at one write, f_unlink when it frees the chain:       *)
(*   Create, Mkdir, Copy   WriteEntry                                      *)
(*   Remove                DeleteEntry of f_rename, CallUnlink             *)
(* A cluster appended to a directory counts from when it is cleared on.    *)
(***************************************************************************)
EXTENDS DirManager

\* The clusters' contents without the entry that f_unlink is about to mark.
Unlinked ==
  IF pc = "delete" /\ call.op = "unlink"
  THEN [slots EXCEPT ![Target] = Content] ELSE slots

EntriesOf(d) ==
  {[at |-> p, dir |-> d, name |-> Unlinked[p[1]][p[2]].name, what |-> Unlinked[p[1]][p[2]].first] :
     p \in {q \in (OnChainIn(fat, d) \ raw) \X Slots : IsEntry(Unlinked[q[1]][q[2]])}}

\* The directories that the root leads to, and what is in them.
Tree == BelowIn(Unlinked, Root)

Entries == UNION {EntriesOf(d) : d \in Tree}

Store == INSTANCE DirStore WITH
  Simple <- {n \in Names : Pieces[n] = 0},
  Dirs <- Cluster,
  File <- None,
  Spots <- Cluster \X Slots,
  entries <- Entries

\* As long as nothing fails, a program sees each call add one entry to the
\* directory it names, or take the one it names away, at one moment, and every
\* other entry of every directory stays where it is: also while directories
\* grow, slots and clusters are reused and directories move.
ImplementsDirStore ==
  /\ Store!Init
  /\ [][faults' = 0 /\ crashes' = 0 => Store!Next]_Entries
=============================================================================

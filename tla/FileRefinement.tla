--------------------------- MODULE FileRefinement ---------------------------
(***************************************************************************)
(* The file calls, on clusters and directory entries, implement the byte   *)
(* sequences of FileStore: a file is what its handle shows, or its entry   *)
(* when it has none, and it is gone as soon as f_unlink frees its chain.   *)
(***************************************************************************)
EXTENDS FileManager, Integers

Positions ==
  [h \in Handles |->
     IF IsOpen(h) THEN [name |-> slots[files[h].slot].name, pos |-> files[h].pos]
     ELSE [name |-> NoName, pos |-> 0]]

WriteInProgress ==
  IF call.op \in {"write", "copy"}
  THEN [name |-> Positions[call.handle].name, buffer |-> call.buffer, done |-> call.done]
  ELSE [name |-> NoName, buffer |-> <<>>, done |-> 0]

\* The bytes of the files, and the lengths in their directory entries.
Contents == [n \in Names |-> Content(n)]

SavedSizes == [n \in Names |-> IF Exists(n) THEN slots[SlotOf(n)].size ELSE -1]

Store == INSTANCE FileStore WITH
  content <- Contents,
  saved <- SavedSizes,
  at <- Positions,
  writing <- WriteInProgress

\* Nothing failed, and no chain was freed that an entry on disk still names.
Clean == faults = 0 /\ (crashes = 0 \/ Calls \cap {"truncate", "unlink"} = {})

\* As long as no access fails and the program follows its rule, FileManager is a
\* FileStore: every step of a call changes the bytes, the saved lengths and the
\* positions as the store promises, or nothing, through crashes as well if nothing
\* was truncated or unlinked.
ImplementsFileStore ==
  /\ Store!Init
  /\ [][Clean' => Store!Next]_<<Contents, SavedSizes, Positions, WriteInProgress, result>>
=============================================================================

------------------------------ MODULE DirStore ------------------------------
(***************************************************************************)
(* What the directory calls promise, with no clusters in sight: there is a *)
(* set of entries, each at a place of its own in a directory; a call adds  *)
(* one entry or takes one away, and f_rename does one after the other.     *)
(* The entry of a directory that is taken away takes along what can be     *)
(* reached through it only.                                                *)
(***************************************************************************)
EXTENDS Naturals, FiniteSets

CONSTANTS
  Names,   \* the names of files and directories
  Simple,  \* those of which a directory is never overlooked
  Dirs,    \* what a directory is known by
  Root,    \* the root directory
  File,    \* what an entry of a file leads to
  Spots    \* places of entries

VARIABLE entries  \* records of an entry's place, its directory, its name and what it leads to

Entry == [at : Spots, dir : Dirs, name : Names, what : Dirs \cup {File}]

\* The directories that can be reached through a set of entries.
Reached(set) ==
  LET grow[n \in 0 .. Cardinality(Dirs)] ==
        IF n = 0 THEN {Root}
        ELSE grow[n - 1] \cup {e.what : e \in {x \in set : x.dir \in grow[n - 1]}}
  IN  grow[Cardinality(Dirs)] \ {File}

Others(x) == {e \in entries : e.dir = x.dir /\ e.name = x.name}

Directories(set) == {e \in set : e.what # File}

Init == entries = {}

\* The new entry x gets a place where no entry was, in a directory that exists.
Add(x) ==
  /\ x \in Entry
  /\ \A e \in entries : e.at # x.at
  /\ x.dir \in Reached(entries)
  /\ entries' = entries \cup {x}

\* f_open of a missing file.
Create(x) == x.what = File /\ Others(x) = {} /\ Add(x)

\* f_mkdir: an empty directory that no entry leads to.
Mkdir(x) ==
  /\ x.name \in Simple => Directories(Others(x)) = {}
  /\ x.what \notin Reached(entries) \cup {File}
  /\ Add(x)

\* The first half of f_rename.
Copy(x) ==
  /\ x.name \in Simple => Directories(Others(x)) = {}
  /\ \E e \in entries : x.what = e.what
  /\ Add(x)

\* f_unlink, and the second half of f_rename.
Remove(e) ==
  LET rest == entries \ {e}
  IN  entries' = {x \in rest : x.dir \in Reached(rest)}

Next ==
  \/ \E x \in entries' \ entries : Create(x) \/ Mkdir(x) \/ Copy(x)
  \/ \E e \in entries \ entries' : Remove(e)

StoreSpec == Init /\ [][Next]_entries
=============================================================================

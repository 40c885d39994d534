----------------------------- MODULE DirEntries -----------------------------
(***************************************************************************)
(* The 32-byte slots of directory clusters, and what the scans of          *)
(* cluster_manager.c find in them.  A scan is given the contents sl of all *)
(* clusters and the chain ch of the directory, a sequence of clusters.     *)
(*                                                                         *)
(* A name is known by two things: the 8.3 form that fat32_format_83_name   *)
(* makes of it, and the number of long-name slots it needs, 0 if           *)
(* fat32_needs_lfn says no.  Different names may have one 8.3 form; their  *)
(* long-name slots differ.  A name's length is no multiple of 13, so that  *)
(* its last long-name slot ends the string.                                *)
(***************************************************************************)
EXTENDS Naturals, Sequences

CONSTANTS
  Names,           \* the names the program gives to files and directories
  Short,           \* Short[n]: its 8.3 form, which never begins with a dot
  Pieces,          \* Pieces[n]: its long-name slots, (length + 12) / 13
  SlotsPerCluster, \* slots of a cluster: its size divided by 32
  SlotsPerSector   \* slots of a sector: 16

ASSUME NamesAssumption ==
  /\ SlotsPerCluster \in Nat /\ SlotsPerCluster >= 2
  /\ SlotsPerSector \in Nat \ {0}
  /\ Pieces \in [Names -> 0 .. SlotsPerCluster - 1]
  /\ {"", ".", ".."} \cap Names = {}
  /\ \A n \in Names : Short[n] \notin {".", ".."}

Slots == 1 .. SlotsPerCluster

-----------------------------------------------------------------------------
\* First byte 0x00: free, and everything behind it was free when it was written.
EndMark == [kind |-> "end", name |-> "", piece |-> 0, dir |-> FALSE, first |-> 0]

\* First byte 0xE5; the code looks at no other byte of it.
Deleted == [EndMark EXCEPT !.kind = "deleted"]

\* Piece i of a long name, ATTR_LONG_NAME.
LongSlot(n, i) == [EndMark EXCEPT !.kind = "long", !.name = n, !.piece = i]

\* The short entry: of its name the slot holds the 8.3 form only, see Stored83.
ShortSlot(n, dir, first) ==
  [EndMark EXCEPT !.kind = "short", !.name = n, !.dir = dir, !.first = first]

SlotType ==
  [kind : {"end", "deleted", "long", "short"}, name : Names \cup {"", ".", ".."},
   piece : Nat, dir : BOOLEAN, first : Nat]

IsFree(slot) == slot.kind \in {"end", "deleted"}

IsEntry(slot) == slot.kind = "short" /\ slot.name \in Names

IsDirEntry(slot) == IsEntry(slot) /\ slot.dir

EmptyCluster == [s \in Slots |-> EndMark]

\* Mutant: "." and ".." name each other's cluster.
NewDirectorySwapped(own, parent) ==
  [EmptyCluster EXCEPT ![1] = ShortSlot(".", TRUE, parent),
                       ![2] = ShortSlot("..", TRUE, own)]

\* A new directory's only cluster, with "." and "..".
NewDirectory(own, parent) ==
  [EmptyCluster EXCEPT ![1] = ShortSlot(".", TRUE, own),
                       ![2] = ShortSlot("..", TRUE, parent)]

\* The 8.3 form stored in a short entry; "." and ".." are written as they are.
Stored83(slot) == IF slot.name \in Names THEN Short[slot.name] ELSE slot.name

\* fat32_format_83_name of a path component: it takes the dots of "." and ".."
\* for the start of an extension and makes something that is not stored anywhere.
Format83(n) == IF n \in Names THEN Short[n] ELSE ""

\* Mutant: no slot for the short entry.
PiecesOnly(n) == IF Pieces[n] = 0 THEN 1 ELSE Pieces[n]

SlotsNeeded(n) == Pieces[n] + 1

\* Cluster cl after fat32_create_dir_entry: the pieces of the name, last piece
\* first, and the short entry.
WithEntry(cl, s, n, dir, first) ==
  [t \in Slots |->
     IF t \in s .. s + Pieces[n] - 1 THEN LongSlot(n, s + Pieces[n] - t)
     ELSE IF t = s + Pieces[n] THEN ShortSlot(n, dir, first)
     ELSE cl[t]]

\* Mutant: the slot is freed with an end mark.
WithEndMark(cl, s) == [cl EXCEPT ![s] = EndMark]

\* Mutant: the slot in front of it is marked.
WithoutNeighbour(cl, s) == [cl EXCEPT ![IF s = 1 THEN 1 ELSE s - 1] = Deleted]

\* Cluster cl after f_unlink or f_rename marked the short entry in slot s.
WithoutEntry(cl, s) == [cl EXCEPT ![s] = Deleted]

-----------------------------------------------------------------------------
(* Places in a directory: slot s of the k-th cluster of its chain.         *)

Before(p, q) == IF p[1] = q[1] THEN p[2] < q[2] ELSE p[1] < q[1]

Places(ch) == (DOMAIN ch) \X Slots

At(sl, ch, p) == sl[ch[p[1]]][p[2]]

IsFirst(p, places) == p \in places /\ \A q \in places : q = p \/ Before(p, q)

\* fat32_find_contiguous_free_entries: enough free slots in one cluster.
Fits(sl, c, s, n) ==
  /\ s + n - 1 <= SlotsPerCluster
  /\ \A t \in s .. s + n - 1 : IsFree(sl[c][t])

FreeRuns(sl, ch, n) == {p \in Places(ch) : Fits(sl, ch[p[1]], p[2], n)}

\* Mutant: an end mark ends the search of the directory.
SearchedOnce(sl, ch) ==
  {p \in Places(ch) :
     \A q \in Places(ch) : At(sl, ch, q).kind = "end" => Before(p, q)}

\* What fat32_find_file looks at: an end mark ends the search of its cluster.
Searched(sl, ch) ==
  {p \in Places(ch) :
     \A s \in Slots : s <= p[2] => At(sl, ch, <<p[1], s>>).kind # "end"}

\* What fat32_dir_exists looks at: an end mark ends the search.
SearchedToEnd(sl, ch) ==
  {p \in Places(ch) :
     \A q \in Places(ch) : At(sl, ch, q).kind = "end" => Before(p, q)}

\* What is in the long-name buffer when the scan of the places in seen gets to p:
\* the slots since the last one of a kind in clearing, none of them replaced by
\* a later one with the same number.
InBuffer(sl, ch, seen, clearing, p, q) ==
  /\ q \in seen /\ Before(q, p)
  /\ At(sl, ch, q).kind = "long"
  /\ \A r \in seen : Before(q, r) /\ Before(r, p) =>
       /\ At(sl, ch, r).kind \notin clearing
       /\ At(sl, ch, r).piece # At(sl, ch, q).piece

Buffer(sl, ch, seen, clearing, p) ==
  {At(sl, ch, q) : q \in {r \in seen : InBuffer(sl, ch, seen, clearing, p, r)}}

LongName(n) == {LongSlot(n, i) : i \in 1 .. Pieces[n]}

\* fat32_find_file: the entries, of files and directories, whose long name or 8.3
\* form is that of n.  A deleted slot does not clear the long-name buffer, and
\* the name in it ends at its last piece.
FileMatches(sl, ch, n) ==
  LET seen == Searched(sl, ch)
  IN  {p \in seen :
         /\ At(sl, ch, p).kind = "short"
         /\ \/ Stored83(At(sl, ch, p)) = Format83(n)
            \/ Pieces[n] > 0 /\ LongName(n) \subseteq Buffer(sl, ch, seen, {"short"}, p)}

\* fat32_dir_exists: directories only.  A deleted slot clears the buffer, and
\* whatever is left in it from another name is part of the name.
DirExists(sl, ch, n) ==
  LET seen == SearchedToEnd(sl, ch)
  IN  \E p \in seen :
        /\ At(sl, ch, p).kind = "short" /\ At(sl, ch, p).dir
        /\ \/ Stored83(At(sl, ch, p)) = Format83(n)
           \/ Pieces[n] > 0
              /\ LongName(n) = Buffer(sl, ch, seen, {"short", "deleted"}, p)

\* fat32_find_dir: it has room for a directory of one cluster, and compares 8.3
\* forms only.  The first cluster of the directory found, or 0.
FindDir(sl, ch, n) ==
  LET found == {p \in SearchedToEnd(sl, ch) :
                  /\ At(sl, ch, p).kind = "short" /\ At(sl, ch, p).dir
                  /\ Stored83(At(sl, ch, p)) = Format83(n)}
  IN  IF Len(ch) = 1 /\ found # {}
      THEN At(sl, ch, CHOOSE p \in found : IsFirst(p, found)).first ELSE 0
=============================================================================

------------------------------ MODULE DirProofs ------------------------------
(***************************************************************************)
(* For any number of clusters, slots, names and lengths of names, any      *)
(* callers, failures and crashes: nothing in use lies behind an end mark,  *)
(* the pieces of a long name stay in front of its short entry, directories *)
(* lie in clusters of their own that were initialised, entries name them,  *)
(* are found, and are lost only by f_unlink; f_readdir returns what stays, *)
(* and nothing twice; the directories form a tree.                         *)
(*                                                                         *)
(* The parts of the argument: EndsInv, what holds of the slots whatever    *)
(* went wrong; NamesInv, with the pieces of long names; TreeInv, with the  *)
(* links and entries that lead to directories; StayInv, with the two       *)
(* entries of a rename; DirTypeInv, with the types; PassInv, with where a  *)
(* pass through a directory is; ReachInv, with what links and entries lead *)
(* to from the root; Naming, with how many entries name a directory.       *)
(***************************************************************************)
EXTENDS DirManager, FatChains

-----------------------------------------------------------------------------
(* One cluster.                                                            *)

EndsLast(cl) ==
  \A s, t \in Slots : s < t /\ cl[s].kind = "end" => IsFree(cl[t])

LongWhole(cl) ==
  \A s \in Slots : IsEntry(cl[s]) =>
    \A i \in 1 .. Pieces[cl[s].name] :
      s - i \in Slots /\ cl[s - i] = LongSlot(cl[s].name, i)

\* There is room for name n at slot s, and no end mark in front of it.
Room(cl, s, n) ==
  /\ s + Pieces[n] <= SlotsPerCluster
  /\ \A t \in s .. s + Pieces[n] : IsFree(cl[t])
  /\ \A t \in Slots : t < s => cl[t].kind # "end"

\* What is in use in cl is the same in new.
Kept(cl, new) == \A t \in Slots : ~IsFree(cl[t]) => new[t] = cl[t]

\* The first m slots are those of the buffer, the rest those of the disk.
UpTo(m, buffer, cl) == [t \in Slots |-> IF t <= m THEN buffer[t] ELSE cl[t]]

LEMMA SlotsFacts ==
  /\ SlotsPerCluster \in Nat /\ SlotsPerCluster >= 2
  /\ Slots = 1 .. SlotsPerCluster
  /\ \A n \in Names : Pieces[n] \in Nat /\ Pieces[n] + 1 <= SlotsPerCluster
<1>1. SlotsPerCluster \in Nat /\ SlotsPerCluster >= 2 BY NamesAssumption
<1>2. ASSUME NEW n \in Names PROVE Pieces[n] \in Nat /\ Pieces[n] + 1 <= SlotsPerCluster
  <2>1. Pieces[n] \in 0 .. SlotsPerCluster - 1 BY NamesAssumption
  <2> QED BY <1>1, <2>1, SMT
<1> QED BY <1>1, <1>2 DEF Slots

LEMMA SlotKinds ==
  /\ EndMark.kind = "end" /\ EndMark.name = ""
  /\ Deleted.kind = "deleted" /\ Deleted.name = ""
  /\ \A n, i : LongSlot(n, i).kind = "long"
  /\ \A n, d, f : ShortSlot(n, d, f).kind = "short" /\ ShortSlot(n, d, f).name = n
BY DEF EndMark, Deleted, LongSlot, ShortSlot

LEMMA KindsFree ==
  ASSUME NEW slot
  PROVE  /\ slot.kind = "end" => IsFree(slot) /\ ~IsEntry(slot)
         /\ slot.kind = "deleted" => IsFree(slot) /\ ~IsEntry(slot)
         /\ slot.kind = "long" => ~IsFree(slot) /\ ~IsEntry(slot)
         /\ slot.kind = "short" => ~IsFree(slot)
BY DEF IsFree, IsEntry

\* Writing a name into free slots, or the beginning of it, keeps both.
LEMMA NameWritten ==
  ASSUME NEW cl, NEW s \in Slots, NEW n \in Names, NEW dir, NEW first,
         NEW m \in 0 .. SlotsPerCluster, Room(cl, s, n),
         NEW new, new = UpTo(m, WithEntry(cl, s, n, dir, first), cl)
  PROVE  /\ EndsLast(cl) => EndsLast(new)
         /\ LongWhole(cl) => LongWhole(new)
         /\ Kept(cl, new)
<1> DEFINE P == Pieces[n]
<1>1. P \in Nat /\ P + 1 <= SlotsPerCluster /\ SlotsPerCluster \in Nat /\ Slots = 1 .. SlotsPerCluster
  BY SlotsFacts
<1>2. s + P <= SlotsPerCluster /\ \A t \in s .. s + P : IsFree(cl[t])
  BY DEF Room
<1>3. \A t \in Slots : t < s => cl[t].kind # "end" BY DEF Room
<1>4. ASSUME NEW t \in Slots PROVE
        new[t] = IF t <= m /\ t \in s .. s + P - 1 THEN LongSlot(n, s + P - t)
                 ELSE IF t <= m /\ t = s + P THEN ShortSlot(n, dir, first) ELSE cl[t]
  BY DEF UpTo, WithEntry
<1> HIDE DEF P
<1>long. ASSUME NEW t \in Slots, t <= m, t \in s .. s + P - 1
         PROVE  new[t] = LongSlot(n, s + P - t) /\ new[t].kind = "long"
  <2>1. new[t] = LongSlot(n, s + P - t) BY <1>4, <1>long
  <2> QED BY <2>1 DEF LongSlot, EndMark
<1>short. ASSUME NEW t \in Slots, t <= m, t = s + P
          PROVE  new[t].kind = "short" /\ new[t].name = n
  <2>1. ~(t \in s .. s + P - 1) BY <1>1, <1>short, SMT
  <2>2. new[t] = ShortSlot(n, dir, first) BY <1>4, <1>short, <2>1
  <2> QED BY <2>2 DEF ShortSlot, EndMark
<1>5. ASSUME NEW t \in Slots, t \in s .. s + P, t <= m
      PROVE  new[t].kind = "long" \/ new[t].kind = "short"
  <2>1. t \in s .. s + P - 1 \/ t = s + P BY <1>1, <1>5, SMT
  <2> QED BY <1>5, <1>long, <1>short, <2>1
<1>6. ASSUME NEW t \in Slots, ~(t \in s .. s + P /\ t <= m) PROVE new[t] = cl[t]
  <2>1. ~(t <= m /\ t \in s .. s + P - 1) /\ ~(t <= m /\ t = s + P) BY <1>1, <1>6, SMT
  <2> QED BY <1>4, <2>1
<1>7. ASSUME EndsLast(cl) PROVE EndsLast(new)
  <2> SUFFICES ASSUME NEW i \in Slots, NEW j \in Slots, i < j, new[i].kind = "end"
               PROVE  IsFree(new[j])
    BY DEF EndsLast
  <2>1. ~(i \in s .. s + P /\ i <= m) BY <1>5
  <2>2. cl[i].kind = "end" BY <1>6, <2>1
  <2>3. ~(i < s) BY <1>3, <2>2
  <2>4. ~(j \in s .. s + P /\ j <= m) BY <1>1, <2>1, <2>3, SMT
  <2>5. new[j] = cl[j] BY <1>6, <2>4
  <2> QED BY <1>7, <2>2, <2>5 DEF EndsLast
<1>8. ASSUME LongWhole(cl) PROVE LongWhole(new)
  <2> SUFFICES ASSUME NEW t \in Slots, IsEntry(new[t]), NEW i \in 1 .. Pieces[new[t].name]
               PROVE  t - i \in Slots /\ new[t - i] = LongSlot(new[t].name, i)
    BY DEF LongWhole
  <2>1. CASE t \in s .. s + P /\ t <= m
    <3>1. t = s + P
      <4>1. t \in s .. s + P - 1 \/ t = s + P BY <1>1, <2>1, SMT
      <4> QED BY <1>long, <2>1, <4>1, KindsFree
    <3>2. new[t].name = n BY <1>short, <2>1, <3>1
    <3>3. i \in 1 .. P BY <3>2 DEF P
    <3>4. s \in Nat /\ m \in Nat /\ s >= 1 BY <1>1, SMT
    <3>5. t - i \in Slots /\ t - i <= m BY <1>1, <1>2, <2>1, <3>1, <3>3, <3>4, SMT
    <3>6. t - i \in s .. s + P - 1 BY <1>1, <1>2, <2>1, <3>1, <3>3, <3>4, SMT
    <3>7. s + P - (t - i) = i BY <1>1, <3>1, <3>3, <3>4, SMT
    <3> QED BY <1>long, <3>2, <3>5, <3>6, <3>7
  <2>2. CASE ~(t \in s .. s + P /\ t <= m)
    <3>1. new[t] = cl[t] BY <1>6, <2>2
    <3>2. t - i \in Slots /\ cl[t - i] = LongSlot(cl[t].name, i) BY <1>8, <3>1 DEF LongWhole
    <3>3. ~IsFree(cl[t - i])
      <4>1. cl[t - i].kind = "long" BY <3>2 DEF LongSlot, EndMark
      <4> QED BY <4>1, KindsFree
    <3>4. t - i \notin s .. s + P BY <1>2, <3>3
    <3> QED BY <1>6, <3>1, <3>2, <3>4
  <2> QED BY <2>1, <2>2
<1>9. ASSUME NEW t \in Slots, ~IsFree(cl[t]) PROVE new[t] = cl[t]
  <2>1. t \notin s .. s + P BY <1>2, <1>9
  <2> QED BY <1>6, <2>1
<1> QED BY <1>7, <1>8, <1>9 DEF Kept

\* Marking a slot deleted keeps the end marks last; it keeps the names whole
\* unless the slot is a piece of one.
LEMMA SlotDeleted ==
  ASSUME NEW cl, cl = [t \in Slots |-> cl[t]], NEW s \in Slots,
         NEW m \in 0 .. SlotsPerCluster,
         NEW new, new = UpTo(m, WithoutEntry(cl, s), cl)
  PROVE  /\ EndsLast(cl) => EndsLast(new)
         /\ LongWhole(cl) /\ cl[s].kind = "short" => LongWhole(new)
<1>1. \A t \in Slots : new[t] = IF t <= m /\ t = s THEN Deleted ELSE cl[t]
  BY DEF UpTo, WithoutEntry
<1>2. IsFree(Deleted) /\ Deleted.kind # "end" /\ ~IsEntry(Deleted)
  BY SlotKinds DEF IsFree, IsEntry
<1>3. ASSUME EndsLast(cl) PROVE EndsLast(new)
  BY <1>1, <1>2, <1>3 DEF EndsLast
<1>4. ASSUME LongWhole(cl), cl[s].kind = "short" PROVE LongWhole(new)
  <2> SUFFICES ASSUME NEW t \in Slots, IsEntry(new[t]), NEW i \in 1 .. Pieces[new[t].name]
               PROVE  t - i \in Slots /\ new[t - i] = LongSlot(new[t].name, i)
    BY DEF LongWhole
  <2>1. new[t] = cl[t] BY <1>1, <1>2
  <2>2. t - i \in Slots /\ cl[t - i] = LongSlot(cl[t].name, i) BY <1>4, <2>1 DEF LongWhole
  <2>3. cl[t - i].kind = "long" BY <2>2 DEF LongSlot, EndMark
  <2>4. t - i # s BY <1>4, <2>3
  <2> QED BY <1>1, <2>1, <2>2, <2>4
<1> QED BY <1>3, <1>4

\* A cleared cluster and a new directory have both.
LEMMA FreshClusters ==
  /\ EndsLast(EmptyCluster) /\ LongWhole(EmptyCluster)
  /\ \A own, parent : EndsLast(NewDirectory(own, parent)) /\ LongWhole(NewDirectory(own, parent))
  /\ \A n \in Names : Room(EmptyCluster, 1, n)
<1>1. \A t \in Slots : EmptyCluster[t] = EndMark BY DEF EmptyCluster
<1>2. IsFree(EndMark) /\ ~IsEntry(EndMark) BY SlotKinds DEF IsFree, IsEntry
<1>3. EndsLast(EmptyCluster) /\ LongWhole(EmptyCluster) BY <1>1, <1>2 DEF EndsLast, LongWhole
<1>4. ASSUME NEW own, NEW parent
      PROVE  EndsLast(NewDirectory(own, parent)) /\ LongWhole(NewDirectory(own, parent))
  <2> DEFINE cl == NewDirectory(own, parent)
  <2>1. 1 \in Slots /\ 2 \in Slots BY SlotsFacts, SMT
  <2>2. \A t \in Slots : cl[t] = IF t = 1 THEN ShortSlot(".", TRUE, own)
                                 ELSE IF t = 2 THEN ShortSlot("..", TRUE, parent) ELSE EndMark
    <3>1. cl = [[EmptyCluster EXCEPT ![1] = ShortSlot(".", TRUE, own)]
                  EXCEPT ![2] = ShortSlot("..", TRUE, parent)]
      BY DEF NewDirectory
    <3>2. EmptyCluster = [t \in Slots |-> EndMark] BY DEF EmptyCluster
    <3>3. DOMAIN [EmptyCluster EXCEPT ![1] = ShortSlot(".", TRUE, own)] = Slots BY <3>2
    <3>4. \A t \in Slots : cl[t] = IF t = 2 THEN ShortSlot("..", TRUE, parent)
            ELSE [EmptyCluster EXCEPT ![1] = ShortSlot(".", TRUE, own)][t]
      BY <2>1, <3>1, <3>3
    <3>5. \A t \in Slots : [EmptyCluster EXCEPT ![1] = ShortSlot(".", TRUE, own)][t]
            = IF t = 1 THEN ShortSlot(".", TRUE, own) ELSE EndMark
      BY <2>1, <3>2
    <3> QED BY <3>4, <3>5, 1 # 2
  <2>3. "." \notin Names /\ ".." \notin Names BY NamesAssumption
  <2>kind. /\ cl[1].kind = "short" /\ cl[1].name = "."
           /\ cl[2].kind = "short" /\ cl[2].name = ".."
    <3>1. cl[1] = ShortSlot(".", TRUE, own) BY <2>1, <2>2
    <3>2. cl[2] = ShortSlot("..", TRUE, parent) BY <2>1, <2>2, 2 # 1
    <3> QED BY <3>1, <3>2 DEF ShortSlot, EndMark
  <2>4. ASSUME NEW t \in Slots PROVE ~IsEntry(cl[t])
    <3>1. CASE t = 1 BY <2>3, <2>kind, <3>1 DEF IsEntry
    <3>2. CASE t = 2 BY <2>3, <2>kind, <3>2 DEF IsEntry
    <3>3. CASE t # 1 /\ t # 2 BY <1>2, <2>2, <3>3
    <3> QED BY <3>1, <3>2, <3>3
  <2>5. LongWhole(cl) BY <2>4 DEF LongWhole
  <2>6. EndsLast(cl)
    <3> SUFFICES ASSUME NEW s \in Slots, NEW t \in Slots, s < t, cl[s].kind = "end"
                 PROVE  IsFree(cl[t])
      BY DEF EndsLast
    <3>1. s # 1 /\ s # 2 BY <2>kind
    <3>2. t # 1 /\ t # 2 BY <3>1, SlotsFacts, SMT
    <3> QED BY <1>2, <2>2, <3>2
  <2> QED BY <2>5, <2>6
<1>5. ASSUME NEW n \in Names PROVE Room(EmptyCluster, 1, n)
  <2>1. /\ 1 + Pieces[n] <= SlotsPerCluster
        /\ \A t \in 1 .. 1 + Pieces[n] : t \in Slots
        /\ \A t \in Slots : ~(t < 1)
    BY SlotsFacts, SMT
  <2> QED BY <1>1, <1>2, <2>1 DEF Room
<1> QED BY <1>3, <1>4, <1>5

-----------------------------------------------------------------------------
(* The running call.                                                       *)

Shape == slots = [c \in Cluster |-> [s \in Slots |-> slots[c][s]]]

CallShape ==
  call = [op |-> call.op, parent |-> call.parent, name |-> call.name, dir |-> call.dir,
          first |-> call.first, at |-> call.at, old |-> call.old]

\* The new cluster of f_mkdir and of an extended directory was not written yet.
NewClusterRaw ==
  /\ pc \in {"clear", "init"} => /\ call.first \in Cluster /\ call.first \in raw
                                 /\ call.op = "mkdir"
  /\ pc = "extended" => /\ call.at[1] \in Cluster /\ call.at[1] \in raw
                        /\ call.at[2] = 1

NameGiven ==
  pc \in {"check", "place", "extended", "entry", "clear", "init"} => call.name \in Names

\* The place that was found for an entry is still free when it is written.
RoomKept ==
  pc = "entry" =>
    /\ call.at[1] \in Cluster /\ call.at[2] \in Slots
    /\ call.at[1] \notin raw => Room(slots[call.at[1]], call.at[2], call.name)

HasOld ==
  pc = "delete" \/ (call.op = "rename" /\ pc \in {"check", "place", "extended", "entry"})

OldGiven == HasOld => call.old[1] \in Cluster /\ call.old[2] \in Slots

ClustersEnd == \A c \in Cluster \ raw : EndsLast(slots[c])

EndsInv ==
  Shape /\ CallShape /\ NewClusterRaw /\ NameGiven /\ RoomKept /\ OldGiven /\ ClustersEnd

LEMMA EndMarksMean == ClustersEnd <=> EndMarksLast
BY DEF ClustersEnd, EndMarksLast, EndsLast

LEMMA ClusterShape ==
  ASSUME Shape, NEW c \in Cluster
  PROVE  slots[c] = [s \in Slots |-> slots[c][s]]
BY DEF Shape

\* The record that a new call, a place, and the end of a call leave.
LEMMA NewCallShape ==
  ASSUME NEW op, NEW parent, NEW name, NEW dir, NEW first, NEW old,
         call' = [op |-> op, parent |-> parent, name |-> name, dir |-> dir,
                  first |-> first, at |-> Nowhere, old |-> old]
  PROVE  CallShape'
BY DEF CallShape

LEMMA CallPlaced ==
  ASSUME CallShape, NEW place, call' = [call EXCEPT !.at = place]
  PROVE  /\ CallShape'
         /\ call'.at = place /\ call'.op = call.op /\ call'.name = call.name
         /\ call'.old = call.old /\ call'.first = call.first
<1> DEFINE r == [op |-> call.op, parent |-> call.parent, name |-> call.name, dir |-> call.dir,
                 first |-> call.first, at |-> place, old |-> call.old]
<1>1. call' = r BY DEF CallShape
<1> QED BY <1>1 DEF CallShape

\* A step that writes no cluster and ends the call, or starts one, or goes on.
LEMMA Unwritten ==
  ASSUME Shape, ClustersEnd, UNCHANGED slots, raw \subseteq raw'
  PROVE  Shape' /\ ClustersEnd'
BY DEF Shape, ClustersEnd

LEMMA EndedCall ==
  ASSUME EndCall
  PROVE  CallShape' /\ NewClusterRaw' /\ NameGiven' /\ RoomKept' /\ OldGiven'
BY DEF EndCall, CallShape, NewClusterRaw, NameGiven, RoomKept, OldGiven, HasOld, NoCall

-----------------------------------------------------------------------------
(* Cluster writes, whole or torn.                                          *)

LEMMA ContentShape ==
  ASSUME Shape, pc \in Writing, Target \in Cluster
  PROVE  Content = [s \in Slots |-> Content[s]]
<1>1. CASE pc \in {"clear", "extended"} BY <1>1 DEF Content, EmptyCluster
<1>2. CASE pc = "init" BY <1>2 DEF Content, NewDirectory, EmptyCluster
<1>3. CASE pc = "entry" BY <1>3 DEF Content, WithEntry
<1>4. CASE pc = "delete"
  <2>1. slots[Target] = [s \in Slots |-> slots[Target][s]] BY ClusterShape
  <2> QED BY <1>4, <2>1 DEF Content, WithoutEntry
<1> QED BY <1>1, <1>2, <1>3, <1>4 DEF Writing

LEMMA WriteEffect ==
  ASSUME Shape, pc \in Writing, Target \in Cluster, Written \/ Torn
  PROVE  /\ Shape'
         /\ \E m \in 0 .. SlotsPerCluster : slots'[Target] = UpTo(m, Content, slots[Target])
         /\ Written => slots'[Target] = Content
         /\ \A c \in Cluster : c # Target => slots'[c] = slots[c]
<1>1. Content = [s \in Slots |-> Content[s]] BY ContentShape
<1>2. SlotsPerCluster \in Nat /\ Slots = 1 .. SlotsPerCluster BY SlotsFacts
<1>3. slots = [c \in Cluster |-> slots[c]] BY DEF Shape
<1>4. PICK new : new = [s \in Slots |-> new[s]] /\ slots' = [slots EXCEPT ![Target] = new]
                  /\ (Written => new = Content)
                  /\ \E m \in 0 .. SlotsPerCluster : new = UpTo(m, Content, slots[Target])
  <2>1. CASE Written
    <3>1. UpTo(SlotsPerCluster, Content, slots[Target]) = [s \in Slots |-> Content[s]]
      <4>1. \A s \in Slots : s <= SlotsPerCluster BY <1>2, SMT
      <4> QED BY <4>1 DEF UpTo
    <3>2. SlotsPerCluster \in 0 .. SlotsPerCluster BY <1>2, SMT
    <3> QED BY <1>1, <2>1, <3>1, <3>2 DEF Written
  <2>2. CASE ~Written /\ Torn
    <3>1. PICK n \in {m \in 0 .. SlotsPerCluster - 1 : m % SlotsPerSector = 0} :
            slots' = [slots EXCEPT ![Target] =
                        [s \in Slots |-> IF s <= n THEN Content[s] ELSE slots[Target][s]]]
      BY <1>3, <2>2 DEF Torn
    <3>2. n \in 0 .. SlotsPerCluster BY <1>2, SMT
    <3> DEFINE u == UpTo(n, Content, slots[Target])
    <3>3. u = [s \in Slots |-> IF s <= n THEN Content[s] ELSE slots[Target][s]] BY DEF UpTo
    <3>4. u = [s \in Slots |-> u[s]] BY <3>3
    <3> QED BY <2>2, <3>1, <3>2, <3>3, <3>4
  <2> QED BY <2>1, <2>2
<1>5. slots'[Target] = new BY <1>3, <1>4
<1>6. \A c \in Cluster : c # Target => slots'[c] = slots[c] BY <1>3, <1>4
<1>7. Shape'
  <2>1. slots' = [c \in Cluster |-> slots'[c]] BY <1>3, <1>4
  <2>2. \A c \in Cluster : slots'[c] = [s \in Slots |-> slots'[c][s]]
    BY <1>4, <1>5, <1>6, ClusterShape
  <2> QED BY <2>1, <2>2 DEF Shape
<1> QED BY <1>4, <1>5, <1>6, <1>7

\* What a write of each kind leaves in its cluster.
LEMMA WrittenEnds ==
  ASSUME EndsInv, pc \in Writing, Written \/ Torn
  PROVE  /\ Target \in Cluster
         /\ Shape'
         /\ \A c \in Cluster : c # Target => slots'[c] = slots[c]
         /\ pc \in {"clear", "init", "extended"} => Target \in raw
         /\ pc \in {"entry", "delete"} /\ Target \notin raw => EndsLast(slots'[Target])
         /\ pc = "init" /\ Written => EndsLast(slots'[Target])
         /\ pc = "extended" /\ Written =>
              EndsLast(slots'[Target]) /\ \A n \in Names : Room(slots'[Target], 1, n)
<1>1. Target \in Cluster /\ (pc \in {"clear", "init", "extended"} => Target \in raw)
  BY DEF EndsInv, Target, Writing, NewClusterRaw, RoomKept, OldGiven, HasOld
<1>2. Shape BY DEF EndsInv
<1>3. /\ Shape'
      /\ Written => slots'[Target] = Content
      /\ \A c \in Cluster : c # Target => slots'[c] = slots[c]
  BY <1>1, <1>2, WriteEffect
<1>4. PICK m \in 0 .. SlotsPerCluster : slots'[Target] = UpTo(m, Content, slots[Target])
  BY <1>1, <1>2, WriteEffect
<1>5. ASSUME pc = "entry", Target \notin raw PROVE EndsLast(slots'[Target])
  <2>1. EndsLast(slots[Target]) BY <1>1, <1>5 DEF EndsInv, ClustersEnd
  <2>2. Target = call.at[1] BY <1>5 DEF Target
  <2>3. Room(slots[Target], call.at[2], call.name) /\ call.at[2] \in Slots /\ call.name \in Names
    BY <1>5, <2>2 DEF EndsInv, RoomKept, NameGiven
  <2>4. Content = WithEntry(slots[Target], call.at[2], call.name, call.dir, call.first)
    BY <1>5 DEF Content
  <2> QED BY <1>4, <2>1, <2>3, <2>4, NameWritten
<1>6. ASSUME pc = "delete", Target \notin raw PROVE EndsLast(slots'[Target])
  <2>1. EndsLast(slots[Target]) BY <1>1, <1>6 DEF EndsInv, ClustersEnd
  <2>2. call.old[2] \in Slots BY <1>6 DEF EndsInv, OldGiven, HasOld
  <2>3. Content = WithoutEntry(slots[Target], call.old[2]) BY <1>6 DEF Content
  <2>4. slots[Target] = [s \in Slots |-> slots[Target][s]] BY <1>1, <1>2, ClusterShape
  <2> QED BY <1>4, <2>1, <2>2, <2>3, <2>4, SlotDeleted
<1>7. ASSUME pc = "init", Written PROVE EndsLast(slots'[Target])
  <2>1. Content = NewDirectory(call.first, call.parent) BY <1>7 DEF Content
  <2> QED BY <1>3, <1>7, <2>1, FreshClusters
<1>8. ASSUME pc = "extended", Written
      PROVE  EndsLast(slots'[Target]) /\ \A n \in Names : Room(slots'[Target], 1, n)
  <2>1. Content = EmptyCluster BY <1>8 DEF Content
  <2> QED BY <1>3, <1>8, <2>1, FreshClusters
<1> QED BY <1>1, <1>3, <1>5, <1>6, <1>7, <1>8

\* The first run of free slots has no end mark in front of it in its cluster: from
\* an end mark on everything is free, and the run would start there.
LEMMA FirstFit ==
  ASSUME NEW ch, NEW n \in Names, NEW p \in FreeRuns(slots, ch, SlotsNeeded(n)),
         IsFirst(p, FreeRuns(slots, ch, SlotsNeeded(n))), EndsLast(slots[ch[p[1]]])
  PROVE  p[2] \in Slots /\ Room(slots[ch[p[1]]], p[2], n)
<1> DEFINE c == ch[p[1]]
           s == p[2]
           P == Pieces[n]
<1>1. P \in Nat /\ SlotsPerCluster \in Nat /\ Slots = 1 .. SlotsPerCluster BY SlotsFacts
<1>2. SlotsNeeded(n) = P + 1 BY DEF SlotsNeeded
<1>3. p \in Places(ch) /\ Fits(slots, c, s, P + 1) BY <1>2 DEF FreeRuns
<1>4. p = <<p[1], s>> /\ p[1] \in DOMAIN ch /\ s \in Slots BY <1>3 DEF Places
<1> HIDE DEF P
<1>5. s + P <= SlotsPerCluster /\ \A t \in s .. s + P : IsFree(slots[c][t])
  <2>1. s + (P + 1) - 1 = s + P BY <1>1, <1>4, SMT
  <2>2. s + (P + 1) - 1 <= SlotsPerCluster /\ \A t \in s .. s + (P + 1) - 1 : IsFree(slots[c][t])
    BY <1>3 DEF Fits
  <2> QED BY <2>1, <2>2
<1>6. ASSUME NEW t \in Slots, t < s PROVE slots[c][t].kind # "end"
  <2> SUFFICES ASSUME slots[c][t].kind = "end" PROVE FALSE
    OBVIOUS
  <2>1. \A u \in Slots : t < u => IsFree(slots[c][u]) BY DEF EndsLast
  <2>2. IsFree(slots[c][t]) BY DEF IsFree
  <2>3. \A u \in t .. t + P : u \in Slots /\ (u = t \/ t < u)
    BY <1>1, <1>4, <1>5, <1>6, SMT
  <2>4. t + P <= SlotsPerCluster BY <1>1, <1>4, <1>5, <1>6, SMT
  <2>5. t + (P + 1) - 1 = t + P BY <1>1, SMT
  <2>6. Fits(slots, c, t, P + 1) BY <2>1, <2>2, <2>3, <2>4, <2>5 DEF Fits
  <2> DEFINE q == <<p[1], t>>
  <2>7. q \in Places(ch) /\ q[1] = p[1] /\ q[2] = t BY <1>4 DEF Places
  <2>8. q \in FreeRuns(slots, ch, SlotsNeeded(n)) BY <1>2, <2>6, <2>7 DEF FreeRuns
  <2>9. q = p \/ Before(p, q) BY <2>8 DEF IsFirst
  <2>10. t \in Nat /\ s \in Nat /\ ~(s < t) /\ s # t BY <1>1, <1>4, <1>6, SMT
  <2>11. q # p BY <2>7, <2>10
  <2>12. s < t BY <2>7, <2>9, <2>11 DEF Before
  <2> QED BY <2>10, <2>12
<1> QED BY <1>4, <1>5, <1>6 DEF Room, P

-----------------------------------------------------------------------------
(* Nothing in use behind an end mark: the steps.                           *)

LEMMA EndsMkdir ==
  ASSUME EndsInv, NEW d, NEW n \in Names, CallMkdir(d, n) PROVE EndsInv'
<1>1. Shape /\ ClustersEnd BY DEF EndsInv
<1>2. PICK c \in Cluster : /\ raw' = raw \cup {c}
                          /\ call' = [NoCall EXCEPT !.op = "mkdir", !.parent = d, !.name = n,
                                                    !.dir = TRUE, !.first = c]
  BY DEF CallMkdir
<1>3. UNCHANGED slots /\ pc' = "clear" BY DEF CallMkdir
<1>4. call' = [op |-> "mkdir", parent |-> d, name |-> n, dir |-> TRUE, first |-> c,
               at |-> Nowhere, old |-> Nowhere]
  BY <1>2 DEF NoCall
<1>5. CallShape' BY <1>4, NewCallShape
<1>6. Shape' /\ ClustersEnd' BY <1>1, <1>2, <1>3, Unwritten
<1>7. NewClusterRaw' /\ NameGiven' /\ RoomKept' /\ OldGiven'
  BY <1>2, <1>3, <1>4 DEF NewClusterRaw, NameGiven, RoomKept, OldGiven, HasOld
<1> QED BY <1>5, <1>6, <1>7 DEF EndsInv

LEMMA EndsOpen ==
  ASSUME EndsInv, NEW d, NEW n \in Names, CallOpen(d, n) PROVE EndsInv'
<1>1. Shape /\ ClustersEnd BY DEF EndsInv
<1>2. UNCHANGED <<slots, raw>> /\ pc' = "place" BY DEF CallOpen
<1>3. call' = [op |-> "open", parent |-> d, name |-> n, dir |-> FALSE, first |-> None,
               at |-> Nowhere, old |-> Nowhere]
  BY DEF CallOpen, NoCall
<1>4. CallShape' BY <1>3, NewCallShape
<1>5. Shape' /\ ClustersEnd' BY <1>1, <1>2, Unwritten
<1>6. NewClusterRaw' /\ NameGiven' /\ RoomKept' /\ OldGiven'
  BY <1>2, <1>3 DEF NewClusterRaw, NameGiven, RoomKept, OldGiven, HasOld
<1> QED BY <1>4, <1>5, <1>6 DEF EndsInv

LEMMA EndsUnlink ==
  ASSUME EndsInv, NEW d, NEW n \in Names, CallUnlink(d, n) PROVE EndsInv'
<1>1. Shape /\ ClustersEnd BY DEF EndsInv
<1>2. UNCHANGED <<slots, raw>> /\ pc' = "delete" BY DEF CallUnlink
<1>3. PICK sl \in Looks(d), c \in Cluster, s \in Slots :
        call' = [NoCall EXCEPT !.op = "unlink", !.dir = sl[c][s].dir,
                               !.first = sl[c][s].first, !.old = <<c, s>>]
  BY ZenonT(30) DEF CallUnlink
<1>4. call' = [op |-> "unlink", parent |-> None, name |-> "", dir |-> sl[c][s].dir,
               first |-> sl[c][s].first, at |-> Nowhere, old |-> <<c, s>>]
  BY <1>3 DEF NoCall
<1>5. CallShape' BY <1>4, NewCallShape
<1>6. Shape' /\ ClustersEnd' BY <1>1, <1>2, Unwritten
<1>7. NewClusterRaw' /\ NameGiven' /\ RoomKept' /\ OldGiven'
  BY <1>2, <1>4 DEF NewClusterRaw, NameGiven, RoomKept, OldGiven, HasOld
<1> QED BY <1>5, <1>6, <1>7 DEF EndsInv

LEMMA EndsRename ==
  ASSUME EndsInv, NEW d, NEW n \in Names, CallRename(d, n) PROVE EndsInv'
<1>1. Shape /\ ClustersEnd BY DEF EndsInv
<1>2. UNCHANGED <<slots, raw>> /\ pc' = "check" BY DEF CallRename
<1>pick. PICK sl \in Looks(d), c \in Cluster, s \in Slots :
          /\ Finds(sl, d, n, c, s)
          /\ CountLook(sl)
          /\ \E e \in Directories, m \in Names :
               call' = [NoCall EXCEPT !.op = "rename", !.parent = e, !.name = m,
                 !.dir = sl[c][s].dir, !.first = sl[c][s].first, !.old = <<c, s>>]
          /\ tainted' = (tainted \/ sl # slots)
  BY Zenon DEF CallRename
<1>3. PICK e \in Directories, m \in Names :
        call' = [NoCall EXCEPT !.op = "rename", !.parent = e, !.name = m,
                   !.dir = sl[c][s].dir, !.first = sl[c][s].first, !.old = <<c, s>>]
  BY <1>pick
<1>4. call' = [op |-> "rename", parent |-> e, name |-> m, dir |-> sl[c][s].dir,
               first |-> sl[c][s].first, at |-> Nowhere, old |-> <<c, s>>]
  BY <1>3 DEF NoCall
<1>5. CallShape' BY <1>4, NewCallShape
<1>6. Shape' /\ ClustersEnd' BY <1>1, <1>2, Unwritten
<1>7. NewClusterRaw' /\ NameGiven' /\ RoomKept' /\ OldGiven'
  BY <1>2, <1>4 DEF NewClusterRaw, NameGiven, RoomKept, OldGiven, HasOld
<1> QED BY <1>5, <1>6, <1>7 DEF EndsInv

LEMMA EndsPlaceInside ==
  ASSUME EndsInv, PlaceInside PROVE EndsInv'
<1>1. Shape /\ ClustersEnd /\ CallShape BY DEF EndsInv
<1>2. /\ UNCHANGED <<slots, raw>> /\ pc = "place" /\ pc' = "entry"
  BY DEF PlaceInside
<1>3. PICK c \in Cluster, s \in Slots :
        /\ \E p \in FreeRuns(slots, Walk(call.parent), SlotsNeeded(call.name)) :
             /\ IsFirst(p, FreeRuns(slots, Walk(call.parent), SlotsNeeded(call.name)))
             /\ <<Walk(call.parent)[p[1]], p[2]>> = <<c, s>>
        /\ call' = [call EXCEPT !.at = <<c, s>>]
  BY DEF PlaceInside
<1>4. call.name \in Names BY <1>2 DEF EndsInv, NameGiven
<1>5. c \notin raw => Room(slots[c], s, call.name)
  BY <1>1, <1>3, <1>4, FirstFit DEF ClustersEnd
<1>6. /\ CallShape' /\ call'.at = <<c, s>> /\ call'.op = call.op /\ call'.name = call.name
      /\ call'.old = call.old
  BY <1>1, <1>3, CallPlaced
<1>7. Shape' /\ ClustersEnd' BY <1>1, <1>2, Unwritten
<1>8. NewClusterRaw' /\ NameGiven' BY <1>2, <1>4, <1>6 DEF NewClusterRaw, NameGiven
<1>9. RoomKept' BY <1>2, <1>5, <1>6 DEF RoomKept
<1>10. OldGiven' BY <1>2, <1>6 DEF EndsInv, OldGiven, HasOld
<1> QED BY <1>6, <1>7, <1>8, <1>9, <1>10 DEF EndsInv

LEMMA EndsPlaceBehind ==
  ASSUME EndsInv, PlaceBehind PROVE EndsInv'
<1>1. Shape /\ ClustersEnd /\ CallShape BY DEF EndsInv
<1>2. UNCHANGED slots /\ pc = "place" /\ pc' = "extended" BY DEF PlaceBehind
<1>3. PICK c \in Cluster : raw' = raw \cup {c} /\ call' = [call EXCEPT !.at = <<c, 1>>]
  BY DEF PlaceBehind, EntryInNew
<1>4. /\ CallShape' /\ call'.at = <<c, 1>> /\ call'.op = call.op /\ call'.name = call.name
      /\ call'.old = call.old
  BY <1>1, <1>3, CallPlaced
<1>5. Shape' /\ ClustersEnd' BY <1>1, <1>2, <1>3, Unwritten
<1>6. call.name \in Names BY <1>2 DEF EndsInv, NameGiven
<1>7. NewClusterRaw' /\ NameGiven' /\ RoomKept'
  BY <1>2, <1>3, <1>4, <1>6 DEF NewClusterRaw, NameGiven, RoomKept
<1>8. OldGiven' BY <1>2, <1>4 DEF EndsInv, OldGiven, HasOld
<1> QED BY <1>4, <1>5, <1>7, <1>8 DEF EndsInv

LEMMA EndsCheck ==
  ASSUME EndsInv, CheckTarget PROVE EndsInv'
<1>1. Shape /\ ClustersEnd /\ CallShape BY DEF EndsInv
<1>2. UNCHANGED <<slots, raw>> /\ pc = "check" BY DEF CheckTarget
<1>3. Shape' /\ ClustersEnd' BY <1>1, <1>2, Unwritten
<1>4. CASE EndCall BY <1>3, <1>4, EndedCall DEF EndsInv
<1>5. CASE pc' = "place" /\ UNCHANGED call
  <2>1. CallShape' BY <1>1, <1>5 DEF CallShape
  <2>2. NewClusterRaw' /\ NameGiven' /\ RoomKept' /\ OldGiven'
    BY <1>2, <1>5 DEF EndsInv, NewClusterRaw, NameGiven, RoomKept, OldGiven, HasOld
  <2> QED BY <1>3, <2>1, <2>2 DEF EndsInv
<1> QED BY <1>4, <1>5 DEF CheckTarget

\* A step that ends the call and writes nothing, and one that leaves it alone.
LEMMA EndsQuiet ==
  ASSUME EndsInv, UNCHANGED <<slots, raw>>, EndCall \/ UNCHANGED <<pc, call>>
  PROVE  EndsInv'
<1>1. Shape' /\ ClustersEnd' BY Unwritten DEF EndsInv
<1>2. CASE EndCall BY <1>1, <1>2, EndedCall DEF EndsInv
<1>3. CASE UNCHANGED <<pc, call>>
  BY <1>1, <1>3
     DEF EndsInv, CallShape, NewClusterRaw, NameGiven, RoomKept, OldGiven, HasOld
<1> QED BY <1>2, <1>3

\* The clusters after a write that is the last of its call.
LEMMA EndsAfterWrite ==
  ASSUME EndsInv, pc \in Writing, Written \/ Torn,
         raw' = raw \/ (raw' = raw \ {Target} /\ Written /\ pc \in {"init", "extended"})
  PROVE  Shape' /\ ClustersEnd'
<1>1. Shape' /\ \A c \in Cluster : c # Target => slots'[c] = slots[c] BY WrittenEnds
<1>2. ASSUME NEW c \in Cluster, c \notin raw' PROVE EndsLast(slots'[c])
  <2>1. CASE c # Target
    <3>1. c \notin raw BY <1>2, <2>1
    <3> QED BY <1>1, <2>1, <3>1 DEF EndsInv, ClustersEnd
  <2>2. CASE c = Target
    <3>1. CASE raw' = raw
      <4>1. c \notin raw BY <1>2, <3>1
      <4> QED BY <2>2, <4>1, WrittenEnds DEF Writing
    <3>2. CASE Written /\ pc \in {"init", "extended"} BY <2>2, <3>2, WrittenEnds
    <3> QED BY <3>1, <3>2
  <2> QED BY <2>1, <2>2
<1> QED BY <1>1, <1>2 DEF ClustersEnd

LEMMA EndsClearNew ==
  ASSUME EndsInv, ClearNew PROVE EndsInv'
<1>1. /\ pc = "clear" /\ pc' = "init" /\ UNCHANGED <<call, raw>>
      /\ Written \/ Torn
  BY DEF ClearNew, WriteWorks, WriteFails
<1>2. Shape' /\ ClustersEnd' BY <1>1, EndsAfterWrite DEF Writing
<1> QED
  BY <1>1, <1>2 DEF EndsInv, CallShape, NewClusterRaw, NameGiven, RoomKept, OldGiven, HasOld

LEMMA EndsInitNew ==
  ASSUME EndsInv, InitNew PROVE EndsInv'
<1>1. pc = "init" /\ Target = call.first BY DEF InitNew, Target
<1>2. CASE WriteFails /\ EndCall /\ UNCHANGED raw
  BY <1>1, <1>2, EndsAfterWrite, EndedCall DEF Writing, WriteFails, EndsInv
<1>3. CASE WriteWorks /\ pc' = "place" /\ raw' = raw \ {call.first} /\ UNCHANGED call
  <2>1. Shape' /\ ClustersEnd' BY <1>1, <1>3, EndsAfterWrite DEF Writing, WriteWorks
  <2>2. CallShape' BY <1>3 DEF EndsInv, CallShape
  <2>3. NewClusterRaw' BY <1>3 DEF NewClusterRaw
  <2>4. NameGiven' BY <1>1, <1>3 DEF EndsInv, NameGiven
  <2>5. RoomKept' BY <1>3 DEF RoomKept
  <2>6. OldGiven' BY <1>1, <1>3 DEF EndsInv, NewClusterRaw, OldGiven, HasOld
  <2> QED BY <2>1, <2>2, <2>3, <2>4, <2>5, <2>6 DEF EndsInv
<1> QED BY <1>2, <1>3 DEF InitNew

LEMMA EndsClearExtension ==
  ASSUME EndsInv, ClearExtension PROVE EndsInv'
<1>1. pc = "extended" /\ pc' = "entry" /\ UNCHANGED call /\ Target = call.at[1]
  BY DEF ClearExtension, Target
<1>2. /\ call.at[1] \in Cluster /\ call.at[1] \in raw /\ call.at[2] = 1 /\ 1 \in Slots
      /\ call.name \in Names
  BY <1>1, SlotsFacts, SMT DEF EndsInv, NewClusterRaw, NameGiven
<1>3. CallShape' /\ NewClusterRaw' /\ NameGiven' /\ OldGiven'
  BY <1>1 DEF EndsInv, CallShape, NewClusterRaw, NameGiven, OldGiven, HasOld
<1>4. CASE WriteWorks /\ raw' = raw \ {call.at[1]}
  <2>1. Written /\ pc \in Writing BY <1>1, <1>4 DEF WriteWorks, Writing
  <2>2. Shape' /\ ClustersEnd' BY <1>1, <1>4, <2>1, EndsAfterWrite
  <2>3. Room(slots'[call.at[1]], 1, call.name) BY <1>1, <1>2, <2>1, WrittenEnds
  <2>4. RoomKept' BY <1>1, <1>2, <2>3 DEF RoomKept
  <2> QED BY <1>3, <2>2, <2>4 DEF EndsInv
<1>5. CASE WriteFails /\ UNCHANGED raw
  <2>1. Shape' /\ ClustersEnd' BY <1>1, <1>5, EndsAfterWrite DEF WriteFails, Writing
  <2>2. RoomKept' BY <1>1, <1>2, <1>5 DEF RoomKept
  <2> QED BY <1>3, <2>1, <2>2 DEF EndsInv
<1> QED BY <1>4, <1>5 DEF ClearExtension

LEMMA EndsWriteEntry ==
  ASSUME EndsInv, WriteEntry PROVE EndsInv'
<1>1. pc = "entry" /\ UNCHANGED raw /\ (Written \/ Torn)
  BY DEF WriteEntry, WriteWorks, WriteFails
<1>2. Shape' /\ ClustersEnd' BY <1>1, EndsAfterWrite DEF Writing
<1>3. CASE EndCall BY <1>2, <1>3, EndedCall DEF EndsInv
<1>4. CASE call.op = "rename" /\ pc' = "delete" /\ UNCHANGED call
  BY <1>1, <1>2, <1>4
     DEF EndsInv, CallShape, NewClusterRaw, NameGiven, RoomKept, OldGiven, HasOld
<1> QED BY <1>3, <1>4 DEF WriteEntry

LEMMA EndsDeleteEntry ==
  ASSUME EndsInv, DeleteEntry PROVE EndsInv'
<1>1. pc = "delete" /\ UNCHANGED raw /\ (Written \/ Torn) /\ EndCall
  BY DEF DeleteEntry, WriteWorks, WriteFails
<1> QED BY <1>1, EndsAfterWrite, EndedCall DEF EndsInv, Writing

LEMMA EndsCrash ==
  ASSUME EndsInv, Crash PROVE EndsInv'
<1>1. EndCall /\ UNCHANGED raw BY DEF Crash, Reboot
<1>2. CASE UNCHANGED slots BY <1>1, <1>2, EndsQuiet
<1>3. CASE pc \in Writing /\ Torn BY <1>1, <1>3, EndsAfterWrite, EndedCall DEF EndsInv
<1> QED BY <1>2, <1>3 DEF Crash

LEMMA EndsStep == EndsInv /\ [Next]_dirVars => EndsInv'
<1> SUFFICES ASSUME EndsInv, [Next]_dirVars PROVE EndsInv'
  OBVIOUS
<1>1. ASSUME NEW d \in Directories, NEW n \in Names,
             CallMkdir(d, n) \/ CallOpen(d, n) \/ CallUnlink(d, n) \/ CallRename(d, n)
      PROVE  EndsInv'
  BY <1>1, EndsMkdir, EndsOpen, EndsUnlink, EndsRename
<1>2. ASSUME NEW d \in Directories, OpenDir(d) PROVE EndsInv'
  BY <1>2, EndsQuiet DEF OpenDir
<1>3. CASE CallStarts BY <1>1, <1>2, <1>3 DEF CallStarts
<1>4. CASE ClearNew BY <1>4, EndsClearNew
<1>5. CASE InitNew BY <1>5, EndsInitNew
<1>6. CASE PlaceInside BY <1>6, EndsPlaceInside
<1>7. CASE PlaceBehind BY <1>7, EndsPlaceBehind
<1>8. CASE PlaceFails BY <1>8, EndsQuiet DEF PlaceFails
<1>9. CASE ClearExtension BY <1>9, EndsClearExtension
<1>10. CASE WriteEntry BY <1>10, EndsWriteEntry
<1>11. CASE CheckTarget BY <1>11, EndsCheck
<1>12. CASE DeleteEntry BY <1>12, EndsDeleteEntry
<1>13. CASE ChangeDir \/ ReadStops \/ ReadEnds \/ ReadFails \/ CloseDir
  <2>1. UNCHANGED <<slots, raw, pc, call>>
    <3>1. CASE ChangeDir BY <3>1 DEF ChangeDir
    <3>2. CASE ReadStops BY <3>2, Zenon DEF ReadStops
    <3>3. CASE ReadEnds BY <3>3 DEF ReadEnds
    <3>4. CASE ReadFails BY <3>4, Zenon DEF ReadFails
    <3>5. CASE CloseDir BY <3>5 DEF CloseDir
    <3> QED BY <1>13, <3>1, <3>2, <3>3, <3>4, <3>5
  <2> QED BY <2>1, EndsQuiet
<1>14. CASE Restart BY <1>14, EndsQuiet DEF Restart, Reboot
<1>15. CASE Crash BY <1>15, EndsCrash
<1>16. CASE UNCHANGED dirVars BY <1>16, EndsQuiet DEF dirVars
<1> QED
  BY <1>3, <1>4, <1>5, <1>6, <1>7, <1>8, <1>9, <1>10, <1>11, <1>12, <1>13, <1>14, <1>15, <1>16
     DEF Next

LEMMA EndsInit == Init => EndsInv
<1> SUFFICES ASSUME Init PROVE EndsInv
  OBVIOUS
<1>1. Shape BY DEF Init, Shape, EmptyCluster
<1>2. CallShape BY DEF Init, CallShape, NoCall
<1>3. NewClusterRaw /\ NameGiven /\ RoomKept /\ OldGiven
  BY DEF Init, NewClusterRaw, NameGiven, RoomKept, OldGiven, HasOld, NoCall
<1>4. ClustersEnd BY FreshClusters DEF Init, ClustersEnd
<1> QED BY <1>1, <1>2, <1>3, <1>4 DEF EndsInv

\* Within a directory cluster nothing in use ever lies behind an end mark, with
\* failing and torn writes, and also in the trees the model stops following.
THEOREM EndMarksAlways == DirSpec => []EndMarksLast
<1>1. EndsInv => EndMarksLast BY EndMarksMean DEF EndsInv
<1> QED BY EndsInit, EndsStep, <1>1, PTL DEF DirSpec

-----------------------------------------------------------------------------
(* Long names stay whole.                                                  *)

NamesWhole == ~tainted => \A c \in Cluster \ raw : LongWhole(slots[c])

\* What f_unlink and f_rename will mark deleted is a short entry.
OldShort == ~tainted /\ HasOld => slots[call.old[1]][call.old[2]].kind = "short"

\* The cluster it is in is not the one the directory of the new name gets.
OldElsewhere ==
  ~tainted /\ call.op = "rename" /\ pc \in {"check", "place", "extended", "entry"} =>
    /\ call.old[1] \notin raw
    /\ pc \in {"check", "place"} => fat[call.old[1]] # FREE
    /\ pc = "extended" => call.at[1] # call.old[1]

NamesInv == EndsInv /\ hint \in Nat /\ NamesWhole /\ OldShort /\ OldElsewhere

LEMMA NamesMean == NamesWhole <=> LongNamesWhole
BY DEF NamesWhole, LongNamesWhole, LongWhole

LEMMA FoundShort ==
  ASSUME NEW sl, NEW d, NEW n, NEW c, NEW s, Finds(sl, d, n, c, s)
  PROVE  sl[c][s].kind = "short" /\ c \in OnChainIn(fat, d)
<1> DEFINE ch == Walk(d)
<1>1. PICK p \in FileMatches(sl, ch, n) : <<ch[p[1]], p[2]>> = <<c, s>> BY DEF Finds
<1>2. ch[p[1]] = c /\ p[2] = s BY <1>1
<1>3. p \in Searched(sl, ch) /\ At(sl, ch, p).kind = "short" BY <1>1 DEF FileMatches
<1>4. p[1] \in DOMAIN ch BY <1>3 DEF Searched, Places
<1>5. c \in OnChainIn(fat, d) BY <1>2, <1>4 DEF OnChainIn, Walk
<1> QED BY <1>2, <1>3, <1>5 DEF At

\* One cluster handed out: it was free, and the hint is behind it.
LEMMA OneAllocated ==
  ASSUME hint \in Nat, Allocate(fat, hint, 1).ok
  PROVE  /\ Allocate(fat, hint, 1).hint \in Nat
         /\ fat[Allocate(fat, hint, 1).first] = FREE
<1> DEFINE free  == FreeIn(fat, hint)
           taken == {c \in free : Cardinality({d \in free : d < c}) < 1}
           new   == Allocate(fat, hint, 1)
<1>1. TotalClusters \in Nat BY TotalClustersAssumption
<1>2. free \subseteq hint .. TotalClusters /\ \A c \in free : c \in Nat /\ fat[c] = FREE
  BY <1>1, SMT DEF FreeIn
<1>3. IsFiniteSet(hint .. TotalClusters) BY <1>1, FS_Interval
<1>4. IsFiniteSet(free) BY <1>2, <1>3, FS_Subset
<1>5. /\ Cardinality(taken) = 1
      /\ new.first = IF taken = {} THEN 0 ELSE Least(taken)
      /\ new.hint = HintAfter(taken, hint)
  BY DEF Allocate
<1>6. taken # {}
  <2>1. Cardinality({}) = 0 BY FS_EmptySet
  <2> HIDE DEF taken
  <2>2. taken = {} => Cardinality(taken) = 0 BY <2>1
  <2> QED BY <1>5, <2>2, SMT
<1>7. PICK x : x \in taken BY <1>6
<1>8. ASSUME NEW y \in taken, NEW z \in taken, y < z PROVE FALSE
  <2> DEFINE below == {d \in free : d < z}
  <2>1. IsFiniteSet(below) BY <1>4, FS_Subset
  <2>2. Cardinality(below) \in Nat BY <2>1, FS_CardinalityType
  <2>3. Cardinality(below) < 1 OBVIOUS
  <2>4. Cardinality(below) = 0 BY <2>2, <2>3, SMT
  <2>5. below = {} BY <2>1, <2>4, FS_EmptySet
  <2>6. y \in below BY <1>8
  <2> QED BY <2>5, <2>6
<1>9. \A y \in taken : y = x
  <2> SUFFICES ASSUME NEW y \in taken PROVE y = x
    OBVIOUS
  <2>1. y \in Nat /\ x \in Nat BY <1>2, <1>7
  <2>2. ~(y < x) /\ ~(x < y) BY <1>7, <1>8
  <2> QED BY <2>1, <2>2, SMT
<1>10. x \in Nat /\ fat[x] = FREE BY <1>2, <1>7
<1> HIDE DEF taken
<1>11. Least(taken) = x /\ Greatest(taken) = x
  <2>1. x <= x BY <1>10, SMT
  <2>2. Least(taken) \in taken BY <1>7, <1>9, <2>1 DEF Least
  <2>3. Greatest(taken) \in taken BY <1>7, <1>9, <2>1 DEF Greatest
  <2> QED BY <1>9, <2>2, <2>3
<1>12. new.hint = x + 1 BY <1>5, <1>6, <1>11 DEF HintAfter
<1>13. new.first = x BY <1>5, <1>6, <1>11
<1> QED BY <1>10, <1>12, <1>13, SMT

LEMMA OneAppended ==
  ASSUME hint \in Nat, NEW c, Append1(fat, hint, c).ok
  PROVE  /\ Append1(fat, hint, c).hint \in Nat
         /\ fat[Append1(fat, hint, c).first] = FREE
<1> DEFINE new == Allocate(fat, hint, 1)
<1>1. /\ Append1(fat, hint, c).ok = new.ok /\ Append1(fat, hint, c).hint = new.hint
      /\ Append1(fat, hint, c).first = new.first
  <2>1. new = [ok |-> new.ok, first |-> new.first, fat |-> new.fat, hint |-> new.hint]
    BY DEF Allocate
  <2> HIDE DEF new
  <2>2. CASE new.ok /\ EndOf(fat, c) # 0
    <3>1. Append1(fat, hint, c) = [new EXCEPT !.fat[EndOf(fat, c)] = new.first]
      BY <2>2 DEF Append1, new
    <3> QED BY <2>1, <3>1
  <2>3. CASE ~(new.ok /\ EndOf(fat, c) # 0)
    BY <2>3 DEF Append1, new
  <2> QED BY <2>2, <2>3
<1> QED BY <1>1, OneAllocated

LEMMA OldInCluster ==
  ASSUME EndsInv, HasOld PROVE call.old[1] \in Cluster /\ call.old[2] \in Slots
BY DEF EndsInv, OldGiven

\* What a write leaves of the names in its cluster.
LEMMA WrittenNames ==
  ASSUME NamesInv, ~tainted, pc \in Writing, Written \/ Torn
  PROVE  /\ pc \in {"entry", "delete"} /\ Target \notin raw => LongWhole(slots'[Target])
         /\ pc \in {"init", "extended"} /\ Written => LongWhole(slots'[Target])
         /\ pc = "entry" /\ Target \notin raw => Kept(slots[Target], slots'[Target])
<1>1. EndsInv /\ Shape BY DEF NamesInv, EndsInv
<1>2. Target \in Cluster BY <1>1, WrittenEnds
<1>3. Written => slots'[Target] = Content BY <1>1, <1>2, WriteEffect
<1>4. PICK m \in 0 .. SlotsPerCluster : slots'[Target] = UpTo(m, Content, slots[Target])
  BY <1>1, <1>2, WriteEffect
<1>5. Target \notin raw => LongWhole(slots[Target]) BY <1>2 DEF NamesInv, NamesWhole
<1>6. ASSUME pc = "entry", Target \notin raw
      PROVE  LongWhole(slots'[Target]) /\ Kept(slots[Target], slots'[Target])
  <2>1. Target = call.at[1] BY <1>6 DEF Target
  <2>2. Room(slots[Target], call.at[2], call.name) /\ call.at[2] \in Slots /\ call.name \in Names
    BY <1>1, <1>6, <2>1 DEF EndsInv, RoomKept, NameGiven
  <2>3. Content = WithEntry(slots[Target], call.at[2], call.name, call.dir, call.first)
    BY <1>6 DEF Content
  <2> DEFINE cl == slots[Target]
             new == slots'[Target]
             at == call.at[2]
  <2>4. new = UpTo(m, WithEntry(cl, at, call.name, call.dir, call.first), cl)
    BY <1>4, <2>3
  <2>5. Room(cl, at, call.name) /\ at \in Slots /\ call.name \in Names BY <2>2
  <2> HIDE DEF cl, new, at
  <2>6. LongWhole(cl) => LongWhole(new) BY <2>4, <2>5, NameWritten
  <2>7. Kept(cl, new) BY <2>4, <2>5, NameWritten
  <2> QED BY <1>5, <1>6, <2>6, <2>7 DEF cl, new
<1>7. ASSUME pc = "delete", Target \notin raw PROVE LongWhole(slots'[Target])
  <2>1. HasOld /\ Target = call.old[1] BY <1>7 DEF HasOld, Target
  <2>2. call.old[2] \in Slots BY <1>1, <2>1, OldInCluster
  <2>3. slots[Target][call.old[2]].kind = "short" BY <2>1 DEF NamesInv, OldShort
  <2>4. Content = WithoutEntry(slots[Target], call.old[2]) BY <1>7 DEF Content
  <2>5. slots[Target] = [s \in Slots |-> slots[Target][s]] BY <1>1, <1>2, ClusterShape
  <2> QED BY <1>4, <1>5, <1>7, <2>2, <2>3, <2>4, <2>5, SlotDeleted
<1>8. ASSUME pc = "init", Written PROVE LongWhole(slots'[Target])
  <2>1. Content = NewDirectory(call.first, call.parent) BY <1>8 DEF Content
  <2> QED BY <1>3, <1>8, <2>1, FreshClusters
<1>9. ASSUME pc = "extended", Written PROVE LongWhole(slots'[Target])
  <2>1. Content = EmptyCluster BY <1>9 DEF Content
  <2> QED BY <1>3, <1>9, <2>1, FreshClusters
<1> QED BY <1>6, <1>7, <1>8, <1>9

LEMMA NamesAfterWrite ==
  ASSUME NamesInv, pc \in Writing, Written \/ Torn, tainted => tainted',
         raw' = raw \/ (raw' = raw \ {Target} /\ Written /\ pc \in {"init", "extended"})
  PROVE  NamesWhole'
<1> SUFFICES ASSUME ~tainted', NEW c \in Cluster, c \notin raw' PROVE LongWhole(slots'[c])
  BY DEF NamesWhole
<1>1. ~tainted /\ EndsInv BY DEF NamesInv
<1>2. \A d \in Cluster : d # Target => slots'[d] = slots[d] BY <1>1, WrittenEnds
<1>3. pc \in {"clear", "init", "extended"} => Target \in raw BY <1>1, WrittenEnds
<1>4. CASE c # Target
  <2>1. c \notin raw BY <1>4
  <2> QED BY <1>1, <1>2, <1>4, <2>1 DEF NamesInv, NamesWhole
<1>5. CASE c = Target
  <2>1. CASE raw' = raw
    <3>1. c \notin raw /\ pc \in {"entry", "delete"} BY <1>3, <1>5, <2>1 DEF Writing
    <3> QED BY <1>1, <1>5, <3>1, WrittenNames
  <2>2. CASE Written /\ pc \in {"init", "extended"} BY <1>1, <1>5, <2>2, WrittenNames
  <2> QED BY <2>1, <2>2
<1> QED BY <1>4, <1>5

\* A step that writes nothing keeps the names.
LEMMA NamesUnwritten ==
  ASSUME NamesInv, UNCHANGED slots, raw \subseteq raw', tainted => tainted'
  PROVE  NamesWhole'
BY DEF NamesInv, NamesWhole

LEMMA NamesEnded ==
  ASSUME EndCall PROVE OldShort' /\ OldElsewhere'
BY DEF EndCall, OldShort, OldElsewhere, HasOld

LEMMA NamesMkdir ==
  ASSUME NamesInv, NEW d, NEW n \in Names, CallMkdir(d, n) PROVE NamesInv'
<1>1. EndsInv /\ hint \in Nat BY DEF NamesInv
<1>2. EndsInv' BY <1>1, EndsMkdir
<1>3. Allocate(fat, hint, 1).ok /\ hint' = Allocate(fat, hint, 1).hint BY DEF CallMkdir
<1>4. hint' \in Nat BY <1>1, <1>3, OneAllocated
<1>5. PICK c \in Cluster : raw' = raw \cup {c} BY DEF CallMkdir
<1>6. UNCHANGED slots /\ ~tainted /\ pc' = "clear" BY DEF CallMkdir, Ready
<1>7. NamesWhole' BY <1>5, <1>6, NamesUnwritten
<1>8. OldShort' /\ OldElsewhere' BY <1>6 DEF OldShort, OldElsewhere, HasOld
<1> QED BY <1>2, <1>4, <1>7, <1>8 DEF NamesInv

LEMMA NamesOpen ==
  ASSUME NamesInv, NEW d, NEW n \in Names, CallOpen(d, n) PROVE NamesInv'
<1>1. EndsInv /\ hint \in Nat BY DEF NamesInv
<1>2. EndsInv' BY <1>1, EndsOpen
<1>3. UNCHANGED <<slots, raw, tainted, hint>> /\ pc' = "place" BY DEF CallOpen
<1>4. call'.op = "open" BY DEF CallOpen, NoCall
<1>5. NamesWhole' BY <1>3, NamesUnwritten
<1>6. OldShort' /\ OldElsewhere' BY <1>3, <1>4 DEF OldShort, OldElsewhere, HasOld
<1> QED BY <1>1, <1>2, <1>3, <1>5, <1>6 DEF NamesInv

LEMMA NamesUnlink ==
  ASSUME NamesInv, NEW d, NEW n \in Names, CallUnlink(d, n) PROVE NamesInv'
<1>1. EndsInv /\ hint \in Nat BY DEF NamesInv
<1>2. EndsInv' BY <1>1, EndsUnlink
<1>3. UNCHANGED <<slots, raw, hint>> /\ pc' = "delete" BY DEF CallUnlink
<1>4. PICK sl \in Looks(d), c \in Cluster, s \in Slots :
        /\ Finds(sl, d, n, c, s)
        /\ call' = [NoCall EXCEPT !.op = "unlink", !.dir = sl[c][s].dir,
                               !.first = sl[c][s].first, !.old = <<c, s>>]
        /\ tainted' = (tainted \/ sl # slots
                        \/ (sl[c][s].dir /\ InTheWay(sl[c][s].first, c, s)))
  BY ZenonT(30) DEF CallUnlink
<1>5. call'.op = "unlink" /\ call'.old = <<c, s>> BY <1>4 DEF NoCall
<1>6. tainted => tainted' BY <1>4
<1>7. NamesWhole' BY <1>3, <1>6, NamesUnwritten
<1>8. OldShort'
  <2>1. ~tainted' => sl = slots BY <1>4
  <2>2. ~tainted' => slots[c][s].kind = "short" BY <1>4, <2>1, FoundShort
  <2> QED BY <1>3, <1>5, <2>2 DEF OldShort
<1>9. OldElsewhere' BY <1>3 DEF OldElsewhere
<1> QED BY <1>1, <1>2, <1>3, <1>7, <1>8, <1>9 DEF NamesInv

\* The only place that needs the directories to lie in allocated, initialised
\* clusters.
LEMMA NamesRename ==
  ASSUME NamesInv, DirectoriesSound, NEW d \in Directories, NEW n \in Names, CallRename(d, n)
  PROVE  NamesInv'
<1>1. EndsInv /\ hint \in Nat BY DEF NamesInv
<1>2. EndsInv' BY <1>1, EndsRename
<1>3. UNCHANGED <<fat, slots, raw, hint>> /\ pc' = "check" /\ pc = "idle" /\ ~tainted
  BY DEF CallRename, Ready
<1>4. PICK sl \in Looks(d), c \in Cluster, s \in Slots :
          /\ Finds(sl, d, n, c, s)
          /\ CountLook(sl)
          /\ \E e \in Directories, m \in Names :
               call' = [NoCall EXCEPT !.op = "rename", !.parent = e, !.name = m,
                 !.dir = sl[c][s].dir, !.first = sl[c][s].first, !.old = <<c, s>>]
          /\ tainted' = (tainted \/ sl # slots)
  BY Zenon DEF CallRename
<1>5. PICK e \in Directories, m \in Names :
        /\ call' = [NoCall EXCEPT !.op = "rename", !.parent = e, !.name = m,
                      !.dir = sl[c][s].dir, !.first = sl[c][s].first, !.old = <<c, s>>]
        /\ tainted' = (tainted \/ sl # slots)
  BY <1>4
<1>6. call'.old = <<c, s>> BY <1>5 DEF NoCall
<1>7. ~tainted' => sl = slots BY <1>5
<1>8. NamesWhole' BY <1>3, NamesUnwritten
<1>9. OldShort'
  <2>1. ~tainted' => slots[c][s].kind = "short" BY <1>4, <1>7, FoundShort
  <2> QED BY <1>3, <1>6, <2>1 DEF OldShort
<1>10. OldElsewhere'
  <2>1. c \in OnChainIn(fat, d) BY <1>4, FoundShort
  <2>2. c \notin raw /\ fat[c] # FREE BY <1>3, <2>1 DEF DirectoriesSound
  <2> QED BY <1>3, <1>6, <2>2 DEF OldElsewhere
<1> QED BY <1>1, <1>2, <1>3, <1>8, <1>9, <1>10 DEF NamesInv

LEMMA NamesPlaceInside ==
  ASSUME NamesInv, PlaceInside PROVE NamesInv'
<1>1. EndsInv' /\ hint \in Nat /\ CallShape BY EndsPlaceInside DEF NamesInv, EndsInv
<1>2. UNCHANGED <<fat, hint, slots, raw, tainted>> /\ pc = "place" /\ pc' = "entry"
  BY DEF PlaceInside
<1>3. PICK c \in Cluster, s \in Slots : call' = [call EXCEPT !.at = <<c, s>>]
  BY DEF PlaceInside
<1>4. call'.op = call.op /\ call'.old = call.old BY <1>1, <1>3, CallPlaced
<1>5. NamesWhole' BY <1>2, NamesUnwritten
<1>6. OldShort' BY <1>2, <1>4 DEF NamesInv, OldShort, HasOld
<1>7. OldElsewhere' BY <1>2, <1>4 DEF NamesInv, OldElsewhere
<1> QED BY <1>1, <1>2, <1>5, <1>6, <1>7 DEF NamesInv

\* The new cluster of the directory was free, the old entry's cluster was not.
LEMMA NamesPlaceBehind ==
  ASSUME NamesInv, PlaceBehind PROVE NamesInv'
<1>1. EndsInv' /\ hint \in Nat /\ CallShape BY EndsPlaceBehind DEF NamesInv, EndsInv
<1>2. UNCHANGED slots /\ (tainted => tainted') /\ pc = "place" /\ pc' = "extended"
  BY DEF PlaceBehind
<1>3. PICK new : /\ EntryInNew(new)
                 /\ new \in {Append1(fat, hint, call.parent), Allocate(fat, hint, 1)}
  BY Zenon DEF PlaceBehind
<1>4. PICK c \in Cluster :
        c = new.first /\ raw' = raw \cup {c} /\ call' = [call EXCEPT !.at = <<c, 1>>]
  BY <1>3, Zenon DEF EntryInNew
<1>5. hint' \in Nat /\ fat[c] = FREE
  <2>1. new.ok /\ hint' = new.hint BY <1>3, Zenon DEF EntryInNew
  <2> QED BY <1>1, <1>3, <1>4, <2>1, OneAppended, OneAllocated
<1>6. call'.at = <<c, 1>> /\ call'.op = call.op /\ call'.old = call.old
  BY <1>1, <1>4, CallPlaced
<1>7. NamesWhole' BY <1>2, <1>4, NamesUnwritten
<1>8. OldShort' BY <1>2, <1>6 DEF NamesInv, OldShort, HasOld
<1>9. OldElsewhere'
  <2> SUFFICES ASSUME ~tainted', call'.op = "rename"
               PROVE  call'.old[1] \notin raw' /\ call'.at[1] # call'.old[1]
    BY <1>2 DEF OldElsewhere
  <2>1. call.old[1] \notin raw /\ fat[call.old[1]] # FREE
    BY <1>2, <1>6 DEF NamesInv, OldElsewhere
  <2> QED BY <1>4, <1>5, <1>6, <2>1
<1> QED BY <1>1, <1>5, <1>7, <1>8, <1>9 DEF NamesInv

LEMMA NamesCheck ==
  ASSUME NamesInv, CheckTarget PROVE NamesInv'
<1>1. EndsInv' /\ hint \in Nat BY EndsCheck DEF NamesInv
<1>2. UNCHANGED <<fat, hint, slots, raw, tainted>> /\ pc = "check" BY DEF CheckTarget
<1>3. NamesWhole' BY <1>2, NamesUnwritten
<1>4. OldShort' /\ OldElsewhere'
  <2>1. CASE EndCall BY <2>1, NamesEnded
  <2>2. CASE pc' = "place" /\ UNCHANGED call
    BY <1>2, <2>2 DEF NamesInv, OldShort, OldElsewhere, HasOld
  <2> QED BY <2>1, <2>2 DEF CheckTarget
<1> QED BY <1>1, <1>2, <1>3, <1>4 DEF NamesInv

LEMMA NamesQuiet ==
  ASSUME NamesInv, EndsInv', UNCHANGED <<slots, raw>>, tainted => tainted',
         \/ EndCall /\ hint' \in Nat
         \/ UNCHANGED <<pc, call, fat, hint>>
  PROVE  NamesInv'
<1>1. NamesWhole' BY NamesUnwritten
<1>2. CASE EndCall /\ hint' \in Nat BY <1>1, <1>2, NamesEnded DEF NamesInv
<1>3. CASE UNCHANGED <<pc, call, fat, hint>>
  BY <1>1, <1>3 DEF NamesInv, OldShort, OldElsewhere, HasOld
<1> QED BY <1>2, <1>3

LEMMA NamesClearNew ==
  ASSUME NamesInv, ClearNew PROVE NamesInv'
<1>1. EndsInv' /\ hint \in Nat BY EndsClearNew DEF NamesInv
<1>2. /\ pc = "clear" /\ pc' = "init" /\ UNCHANGED <<hint, call, raw, tainted>>
      /\ Written \/ Torn
  BY DEF ClearNew, WriteWorks, WriteFails
<1>3. NamesWhole' BY <1>2, NamesAfterWrite DEF Writing
<1>4. call.op = "mkdir" BY <1>2 DEF NamesInv, EndsInv, NewClusterRaw
<1>5. OldShort' /\ OldElsewhere' BY <1>2, <1>4 DEF OldShort, OldElsewhere, HasOld
<1> QED BY <1>1, <1>2, <1>3, <1>5 DEF NamesInv

LEMMA NamesInitNew ==
  ASSUME NamesInv, InitNew PROVE NamesInv'
<1>1. EndsInv' /\ hint \in Nat BY EndsInitNew DEF NamesInv
<1>2. /\ pc = "init" /\ UNCHANGED <<hint, tainted>> /\ Target = call.first
      /\ call.op = "mkdir"
  BY DEF InitNew, Target, NamesInv, EndsInv, NewClusterRaw
<1>3. CASE WriteFails /\ EndCall /\ UNCHANGED raw
  <2>1. NamesWhole' BY <1>2, <1>3, NamesAfterWrite DEF WriteFails, Writing
  <2> QED BY <1>1, <1>2, <1>3, <2>1, NamesEnded DEF NamesInv
<1>4. CASE WriteWorks /\ pc' = "place" /\ raw' = raw \ {call.first} /\ UNCHANGED call
  <2>1. NamesWhole' BY <1>2, <1>4, NamesAfterWrite DEF WriteWorks, Writing
  <2>2. OldShort' /\ OldElsewhere' BY <1>2, <1>4 DEF OldShort, OldElsewhere, HasOld
  <2> QED BY <1>1, <1>2, <2>1, <2>2 DEF NamesInv
<1> QED BY <1>3, <1>4 DEF InitNew

LEMMA NamesClearExtension ==
  ASSUME NamesInv, ClearExtension PROVE NamesInv'
<1>1. EndsInv /\ EndsInv' /\ hint \in Nat BY EndsClearExtension DEF NamesInv
<1>2. /\ pc = "extended" /\ pc' = "entry" /\ UNCHANGED <<hint, call>>
      /\ Target = call.at[1] /\ pc \in Writing
  BY DEF ClearExtension, Target, Writing
<1>3. CASE WriteFails /\ tainted' = TRUE /\ UNCHANGED raw
  BY <1>1, <1>2, <1>3 DEF NamesInv, NamesWhole, OldShort, OldElsewhere
<1>4. CASE WriteWorks /\ raw' = raw \ {call.at[1]} /\ UNCHANGED tainted
  <2>1. Written BY <1>4 DEF WriteWorks
  <2>2. NamesWhole' BY <1>2, <1>4, <2>1, NamesAfterWrite
  <2>3. OldElsewhere' BY <1>2, <1>4 DEF NamesInv, OldElsewhere
  <2>4. OldShort'
    <3> SUFFICES ASSUME ~tainted, call.op = "rename"
                 PROVE  slots'[call.old[1]][call.old[2]].kind = "short"
      BY <1>2, <1>4 DEF OldShort, HasOld
    <3>1. HasOld BY <1>2 DEF HasOld
    <3>2. call.old[1] \in Cluster BY <1>1, <3>1, OldInCluster
    <3>3. call.old[1] # Target BY <1>2 DEF NamesInv, OldElsewhere
    <3>4. slots'[call.old[1]] = slots[call.old[1]] BY <1>1, <1>2, <2>1, <3>2, <3>3, WrittenEnds
    <3> QED BY <3>1, <3>4 DEF NamesInv, OldShort
  <2> QED BY <1>1, <1>2, <2>2, <2>3, <2>4 DEF NamesInv
<1> QED BY <1>3, <1>4 DEF ClearExtension

LEMMA NamesWriteEntry ==
  ASSUME NamesInv, WriteEntry PROVE NamesInv'
<1>1. EndsInv /\ EndsInv' /\ hint \in Nat BY EndsWriteEntry DEF NamesInv
<1>2. /\ pc = "entry" /\ pc \in Writing /\ UNCHANGED <<hint, raw, tainted>>
      /\ Written \/ Torn
  BY DEF WriteEntry, WriteWorks, WriteFails, Writing
<1>3. NamesWhole' BY <1>2, NamesAfterWrite
<1>4. CASE EndCall BY <1>1, <1>2, <1>3, <1>4, NamesEnded DEF NamesInv
<1>5. CASE call.op = "rename" /\ pc' = "delete" /\ UNCHANGED call
  <2>1. OldElsewhere' BY <1>5 DEF OldElsewhere
  <2>2. OldShort'
    <3> SUFFICES ASSUME ~tainted PROVE slots'[call.old[1]][call.old[2]].kind = "short"
      BY <1>2, <1>5 DEF OldShort
    <3> DEFINE c == call.old[1]
               s == call.old[2]
    <3>1. HasOld BY <1>2, <1>5 DEF HasOld
    <3>2. c \in Cluster /\ s \in Slots BY <1>1, <3>1, OldInCluster
    <3>3. slots[c][s].kind = "short" BY <3>1 DEF NamesInv, OldShort
    <3>4. c \notin raw BY <1>2, <1>5 DEF NamesInv, OldElsewhere
    <3>5. CASE c # Target
      <4>1. slots'[c] = slots[c] BY <1>1, <1>2, <3>2, <3>5, WrittenEnds
      <4> QED BY <3>3, <4>1
    <3>6. CASE c = Target
      <4>1. ~IsFree(slots[c][s]) BY <3>3, KindsFree
      <4>2. Kept(slots[Target], slots'[Target]) BY <1>2, <3>4, <3>6, WrittenNames
      <4>3. slots'[c][s] = slots[c][s] BY <3>2, <3>6, <4>1, <4>2 DEF Kept
      <4> QED BY <3>3, <4>3
    <3> QED BY <3>5, <3>6
  <2> QED BY <1>1, <1>2, <1>3, <2>1, <2>2 DEF NamesInv
<1> QED BY <1>4, <1>5 DEF WriteEntry

LEMMA NamesDeleteEntry ==
  ASSUME NamesInv, DeleteEntry PROVE NamesInv'
<1>1. EndsInv' /\ hint \in Nat BY EndsDeleteEntry DEF NamesInv
<1>2. /\ pc = "delete" /\ UNCHANGED <<hint, raw>> /\ (Written \/ Torn) /\ EndCall
      /\ tainted => tainted'
  <2>1. pc = "delete" /\ UNCHANGED <<hint, raw>> /\ EndCall BY DEF DeleteEntry
  <2>2. (Written \/ Torn) /\ (tainted => tainted')
    <3>1. CASE WriteWorks /\ tainted' = (tainted \/ MovedInside)
      BY <3>1, Zenon DEF WriteWorks
    <3>2. CASE /\ WriteFails
               /\ tainted' = (tainted \/ MovedInside \/ (call.op = "unlink" /\ call.dir))
      BY <3>2, Zenon DEF WriteFails
    <3> QED BY <3>1, <3>2, Zenon DEF DeleteEntry
  <2> QED BY <2>1, <2>2
<1>3. NamesWhole' BY <1>2, NamesAfterWrite DEF Writing
<1> QED BY <1>1, <1>2, <1>3, NamesEnded DEF NamesInv

LEMMA NamesCrash ==
  ASSUME NamesInv, Crash PROVE NamesInv'
<1>1. EndsInv' BY EndsCrash DEF NamesInv
<1>2. /\ EndCall /\ UNCHANGED raw /\ hint' = 2 /\ (tainted => tainted')
  BY DEF Crash, Reboot
<1>3. NamesWhole'
  <2>1. CASE UNCHANGED slots BY <1>2, <2>1, NamesUnwritten
  <2>2. CASE pc \in Writing /\ Torn BY <1>2, <2>2, NamesAfterWrite
  <2> QED BY <2>1, <2>2 DEF Crash
<1> QED BY <1>1, <1>2, <1>3, NamesEnded, SMT DEF NamesInv

LEMMA NamesStep == NamesInv /\ DirectoriesSound /\ [Next]_dirVars => NamesInv'
<1> SUFFICES ASSUME NamesInv, DirectoriesSound, [Next]_dirVars PROVE NamesInv'
  OBVIOUS
<1>1. EndsInv' /\ hint \in Nat BY EndsStep DEF NamesInv
<1>2. ASSUME NEW d \in Directories, NEW n \in Names,
             CallMkdir(d, n) \/ CallOpen(d, n) \/ CallUnlink(d, n) \/ CallRename(d, n)
      PROVE  NamesInv'
  BY <1>2, NamesMkdir, NamesOpen, NamesUnlink, NamesRename
<1>3. ASSUME NEW d \in Directories, OpenDir(d) PROVE NamesInv'
  <2>1. UNCHANGED <<slots, raw, tainted, pc, call, fat, hint>> BY <1>3 DEF OpenDir
  <2> QED BY <1>1, <2>1, NamesQuiet
<1>4. CASE CallStarts BY <1>2, <1>3, <1>4 DEF CallStarts
<1>5. CASE ClearNew BY <1>5, NamesClearNew
<1>6. CASE InitNew BY <1>6, NamesInitNew
<1>7. CASE PlaceInside BY <1>7, NamesPlaceInside
<1>8. CASE PlaceBehind BY <1>8, NamesPlaceBehind
<1>9. CASE PlaceFails BY <1>1, <1>9, NamesQuiet DEF PlaceFails
<1>10. CASE ClearExtension BY <1>10, NamesClearExtension
<1>11. CASE WriteEntry BY <1>11, NamesWriteEntry
<1>12. CASE CheckTarget BY <1>12, NamesCheck
<1>13. CASE DeleteEntry BY <1>13, NamesDeleteEntry
<1>14. CASE ChangeDir \/ ReadStops \/ ReadEnds \/ ReadFails \/ CloseDir
  <2>1. UNCHANGED <<slots, raw, pc, call, fat, hint, tainted>>
    <3>1. CASE ChangeDir BY <3>1 DEF ChangeDir
    <3>2. CASE ReadStops BY <3>2, Zenon DEF ReadStops
    <3>3. CASE ReadEnds BY <3>3 DEF ReadEnds
    <3>4. CASE ReadFails BY <3>4, Zenon DEF ReadFails
    <3>5. CASE CloseDir BY <3>5 DEF CloseDir
    <3> QED BY <1>14, <3>1, <3>2, <3>3, <3>4, <3>5
  <2> QED BY <1>1, <2>1, NamesQuiet
<1>15. CASE Restart
  <2>1. UNCHANGED <<slots, raw, tainted>> /\ EndCall /\ hint' = 2 BY <1>15 DEF Restart, Reboot
  <2> QED BY <1>1, <2>1, NamesQuiet, SMT
<1>16. CASE Crash BY <1>16, NamesCrash
<1>17. CASE UNCHANGED dirVars
  <2>1. UNCHANGED <<slots, raw, pc, call, fat, hint, tainted>> BY <1>17 DEF dirVars
  <2> QED BY <1>1, <2>1, NamesQuiet
<1> QED
  BY <1>4, <1>5, <1>6, <1>7, <1>8, <1>9, <1>10, <1>11, <1>12, <1>13, <1>14, <1>15, <1>16, <1>17
     DEF Next

LEMMA NamesInit == Init => NamesInv
<1> SUFFICES ASSUME Init PROVE NamesInv
  OBVIOUS
<1>1. EndsInv BY EndsInit
<1>2. hint \in Nat BY SMT DEF Init
<1>3. NamesWhole BY FreshClusters DEF Init, NamesWhole
<1>4. OldShort /\ OldElsewhere BY DEF Init, OldShort, OldElsewhere, HasOld, NoCall
<1> QED BY <1>1, <1>2, <1>3, <1>4 DEF NamesInv
-----------------------------------------------------------------------------
(* Entries name directories.                                               *)

\* A cluster that a directory begins with, the root directory for one.
Start(c) == c \in InUse /\ NoLinkTo(fat, c)

\* One that f_mkdir initialised.
Begun(c) == Start(c) /\ slots[c][1] = ShortSlot(".", TRUE, c)

\* Links of directories lead to clusters that were initialised, but for the one
\* by which the running call extends its directory.
LinksSound ==
  /\ Unique(fat)
  /\ \A c \in Cluster : fat[c] \in Cluster => fat[fat[c]] # FREE
  /\ \A c \in InUse : fat[c] \in Cluster =>
       fat[c] \in InUse \/ (pc = "extended" /\ fat[c] = call.at[1])

Rooted == Start(cwd) /\ Start(Root) /\ slots[Root][1].name # "."

\* A short slot is the entry of a file, which names nothing here, that of a
\* directory, or the "." or ".." at the beginning of one.
SlotSound(c, s) ==
  slots[c][s].kind = "short" =>
    \/ slots[c][s].name \in Names /\ ~slots[c][s].dir /\ slots[c][s].first = None
    \/ IsDirEntry(slots[c][s]) /\ (BeingUnlinked(c, s) \/ Begun(slots[c][s].first))
    \/ /\ Start(c) /\ slots[c][1].kind = "short" /\ slots[c][1].name = "."
       /\ s = 1 \/ (s = 2 /\ slots[c][2].name = "..")

SlotsSound == \A c \in InUse, s \in Slots : SlotSound(c, s)

\* Free clusters and those never written hold no entries, whatever was there.
NothingLeft == \A c \in Cluster \ InUse, s \in Slots : ~IsEntry(slots[c][s])

\* What the new entry will name; where it goes.
NewEntrySound ==
  /\ pc \in {"clear", "init"} => call.dir /\ fat[call.first] = EndOfChain /\ NoLinkTo(fat, call.first)
  /\ pc \in {"check", "place", "extended", "entry"} =>
       IF call.dir THEN Begun(call.first) ELSE ~call.dir /\ call.first = None
  /\ pc \in {"clear", "init", "check", "place"} => Start(call.parent)
  /\ pc = "extended" => fat[call.at[1]] = EndOfChain
  /\ pc = "entry" => call.at[1] \in InUse

\* The entry that the running call is to delete.
OldEntrySound ==
  /\ HasOld => /\ call.old[1] \in InUse
               /\ IsEntry(slots[call.old[1]][call.old[2]])
  /\ pc = "delete" /\ call.op = "unlink" =>
       /\ slots[call.old[1]][call.old[2]].dir = call.dir
       /\ slots[call.old[1]][call.old[2]].first \in Entry

TreeSoundness ==
  /\ LinksSound /\ Rooted /\ SlotsSound /\ NothingLeft /\ NewEntrySound /\ OldEntrySound

TreeInv ==
  /\ NamesInv /\ IsTable(fat) /\ hint \in Cluster
  /\ ~tainted => TreeSoundness

-----------------------------------------------------------------------------
(* Directories and their chains.                                           *)

\* The chain of a directory, when none is being extended.
LEMMA DirChain ==
  ASSUME IsTable(fat), LinksSound, NEW c, Start(c)
  PROVE  /\ First(fat, c) /\ WalkEnds(fat, c) /\ c \in OnChainIn(fat, c)
         /\ pc # "extended" => OnChainIn(fat, c) \subseteq InUse
<1>1. First(fat, c) BY DEF First, Start, LinksSound, InUse
<1>2. WalkEnds(fat, c)
  <2>1. Whole(fat, ChainIn(fat, c)) /\ ChainIn(fat, c)[1] = c BY <1>1, ChainOfFirst
  <2>2. ChainIn(fat, c) \in Seq(Cluster) BY <2>1 DEF Whole, Path
  <2> QED BY <1>1, <2>1, <2>2 DEF WalkEnds, First
<1>3. pc # "extended" => OnChainIn(fat, c) \subseteq InUse
  <2> SUFFICES ASSUME pc # "extended" PROVE OnChainIn(fat, c) \subseteq InUse
    OBVIOUS
  <2>1. c \in InUse /\ \A x \in InUse : x \in Cluster /\ fat[x] \in Cluster => fat[x] \in InUse
    BY DEF Start, LinksSound
  <2> QED BY <1>2, <2>1, WalkWithin
<1> QED BY <1>1, <1>2, <1>3, OnWalk

\* One cluster was allocated.
LEMMA OneTaken ==
  ASSUME IsTable(fat), hint \in Cluster, NEW new, new = Allocate(fat, hint, 1), new.ok
  PROVE  /\ new.first \in Cluster /\ fat[new.first] = FREE /\ new.fat[new.first] = EndOfChain
         /\ \A c \in FatIndex : c # new.first => new.fat[c] = fat[c]
         /\ Taken(fat, hint, 1) = {new.first}
         /\ IsTable(new.fat) /\ new.hint \in Cluster
<1> DEFINE T == Taken(fat, hint, 1)
<1>1. 1 \in Nat /\ 1 # 0 BY SMT
<1>2. /\ IsTable(new.fat) /\ new.hint \in Cluster /\ new.first \in T
      /\ \A c \in FatIndex : c \notin T => new.fat[c] = fat[c]
      /\ \A c \in T : new.fat[c] = EndOfChain \/ (new.fat[c] \in T /\ c < new.fat[c])
  BY <1>1, AllocateFacts
<1>3. T \subseteq Cluster /\ \A c \in T : fat[c] = FREE BY <1>1, TakenFacts
<1>4. T = {new.first}
  <2>1. Cardinality(T) = 1 BY AllocateFields
  <2>2. IsFiniteSet(T)
    <3>1. 2 \in Int /\ TotalClusters + 1 \in Int BY TotalClustersAssumption, SMT
    <3>2. IsFiniteSet(Cluster) BY <3>1, FS_Interval DEF Cluster
    <3> QED BY <1>3, <3>2, FS_Subset
  <2>3. PICK x : T = {x} BY <2>1, <2>2, FS_Singleton
  <2> QED BY <1>2, <2>3
<1>5. new.fat[new.first] = EndOfChain
  <2>1. new.first \in Nat BY <1>2, <1>3, TableNumbers
  <2>2. \A n \in Nat : ~(n < n) BY SMT
  <2> QED BY <1>2, <1>4, <2>1, <2>2
<1> QED BY <1>2, <1>3, <1>4, <1>5

\* What a step that neither frees a cluster nor changes the first slot of one
\* leaves of the directories.
LEMMA StartsKept ==
  ASSUME \A c \in InUse : c \in InUse', 
         \A c \in InUse : NoLinkTo(fat, c) => NoLinkTo(fat', c),
         NEW c
  PROVE  /\ Start(c) => Start(c)'
         /\ Begun(c) /\ slots'[c][1] = slots[c][1] => Begun(c)'
BY DEF Start, Begun, NoLinkTo

\* The FAT and the directories stay as they are.
LEMMA DiskQuiet ==
  ASSUME LinksSound, SlotsSound, NothingLeft, UNCHANGED <<fat, slots, raw>>,
         pc # "extended" \/ UNCHANGED <<pc, call>>,
         ~(pc = "delete" /\ call.op = "unlink" /\ call.dir)  \/ UNCHANGED <<pc, call>>,
         OldEntrySound
  PROVE  /\ LinksSound' /\ SlotsSound' /\ NothingLeft'
         /\ InUse' = InUse /\ \A c : (Start(c) => Start(c)') /\ (Begun(c) => Begun(c)')
<1>1. InUse' = InUse BY DEF InUse
<1>2. ASSUME NEW c PROVE (Start(c) => Start(c)') /\ (Begun(c) => Begun(c)')
  BY <1>1, StartsKept
<1>3. LinksSound' BY <1>1 DEF LinksSound
<1>4. NothingLeft' BY <1>1 DEF NothingLeft
<1>5. ASSUME NEW c \in InUse, NEW s \in Slots PROVE SlotSound(c, s)'
  <2>1. SlotSound(c, s) BY DEF SlotsSound
  <2>2. Start(c) => Start(c)' BY <1>2
  <2>3. Begun(slots[c][s].first) => Begun(slots[c][s].first)' BY <1>2
  <2>4. CASE UNCHANGED <<pc, call>> BY <2>1, <2>2, <2>3, <2>4 DEF SlotSound, BeingUnlinked
  <2>5. CASE ~(pc = "delete" /\ call.op = "unlink" /\ call.dir)
    <3>1. IsDirEntry(slots[c][s]) => ~BeingUnlinked(c, s)
      <4> SUFFICES ASSUME slots[c][s].dir, BeingUnlinked(c, s) PROVE FALSE
        BY DEF IsDirEntry
      <4>1. pc = "delete" /\ call.op = "unlink" /\ call.old = <<c, s>> BY DEF BeingUnlinked
      <4>2. call.old[1] = c /\ call.old[2] = s BY <4>1
      <4>3. call.dir = slots[c][s].dir BY <4>1, <4>2, Zenon DEF OldEntrySound
      <4> QED BY <2>5, <4>1, <4>3
    <3> QED BY <2>1, <2>2, <2>3, <3>1 DEF SlotSound
  <2> QED BY <2>4, <2>5
<1>6. SlotsSound' BY <1>1, <1>5 DEF SlotsSound
<1> QED BY <1>1, <1>2, <1>3, <1>4, <1>6

-----------------------------------------------------------------------------
(* Paths.                                                                  *)

\* The first of some places in a directory of one cluster.
LEMMA FirstPlace ==
  ASSUME NEW ch, DOMAIN ch = {1}, NEW places, places \subseteq Places(ch), places # {}
  PROVE  \E p \in places : IsFirst(p, places)
<1> DEFINE S == {s \in Slots : <<1, s>> \in places}
<1>1. \A q \in places : q = <<1, q[2]>> /\ q[1] = 1 /\ q[2] \in S BY DEF Places
<1>2. S \in SUBSET Nat /\ S # {}
  <2>1. \A s \in Slots : s \in Nat BY SlotsFacts, SMT
  <2> QED BY <1>1, <2>1
<1>3. Least(S) \in S /\ \A t \in S : Least(S) <= t BY <1>2, LeastOf
<1> DEFINE m == Least(S)
           p == <<1, m>>
<1>4. p \in places BY <1>3
<1> HIDE DEF S, m
<1>5. ASSUME NEW q \in places PROVE q = p \/ Before(p, q)
  <2>1. q = <<1, q[2]>> /\ q[1] = 1 /\ m <= q[2] /\ m \in Nat /\ q[2] \in Nat
    BY <1>1, <1>2, <1>3 DEF m
  <2>2. m = q[2] \/ m < q[2] BY <2>1, SMT
  <2> QED BY <2>1, <2>2 DEF Before
<1> QED BY <1>4, <1>5 DEF IsFirst

LEMMA Stored ==
  /\ \A n \in Names : Format83(n) \notin {".", ".."}
  /\ \A n : n \notin Names => Format83(n) = ""
  /\ \A slot : slot.name \in Names => Stored83(slot) \notin {".", ".."}
  /\ \A slot : slot.name \notin Names => Stored83(slot) = slot.name
  /\ "" \notin Names /\ "." \notin Names /\ ".." \notin Names
BY NamesAssumption DEF Format83, Stored83

\* Where a component of a path leads from directory d.
Leads(d, e) ==
  \/ e = None \/ e = d
  \/ Begun(e) /\ \E c \in OnChainIn(fat, d), s \in Slots :
                   IsDirEntry(slots[c][s]) /\ slots[c][s].first = e

LEMMA DownLeads ==
  ASSUME IsTable(fat), TreeSoundness, pc = "idle", NEW d, d = None \/ Start(d),
         NEW component
  PROVE  Leads(d, Down(d, component))
<1>1. CASE d = None \/ component = "." BY <1>1 DEF Down, Leads
<1>2. CASE ~(d = None \/ component = ".")
  <2> DEFINE ch == Walk(d)
             found == {p \in SearchedToEnd(slots, ch) :
                         /\ At(slots, ch, p).kind = "short" /\ At(slots, ch, p).dir
                         /\ Stored83(At(slots, ch, p)) = Format83(component)}
             first == CHOOSE p \in found : IsFirst(p, found)
  <2>1. Down(d, component) =
          IF Len(ch) = 1 /\ found # {} THEN At(slots, ch, first).first ELSE 0
    BY <1>2, Zenon DEF Down, FindDir
  <2>2. CASE ~(Len(ch) = 1 /\ found # {}) BY <2>1, <2>2 DEF None, Leads
  <2>3. CASE Len(ch) = 1 /\ found # {}
    <3>1. found \subseteq Places(ch) BY DEF SearchedToEnd
    <3>2. First(fat, d) /\ OnChainIn(fat, d) \subseteq InUse
      BY <1>2, DirChain DEF TreeSoundness
    <3>3. DOMAIN ch = {1}
      <4>1. Path(fat, ch) BY <3>2, ChainOfFirst DEF Walk, Whole
      <4>2. DOMAIN ch = 1 .. 1 BY <2>3, <4>1, PathFacts
      <4>3. \A i \in 1 .. 1 : i = 1 BY SMT
      <4>4. 1 \in 1 .. 1 BY SMT
      <4> QED BY <4>2, <4>3, <4>4
    <3>4. first \in found BY <2>3, <3>1, <3>3, FirstPlace
    <3> DEFINE c == ch[first[1]]
               s == first[2]
               slot == slots[c][s]
    <3>5. /\ slot.kind = "short" /\ slot.dir /\ Stored83(slot) = Format83(component)
          /\ At(slots, ch, first) = slot
      BY <3>4, Zenon DEF At
    <3>6. first[1] \in DOMAIN ch /\ s \in Slots BY <3>1, <3>4 DEF Places
    <3>7. c \in OnChainIn(fat, d) /\ c \in InUse BY <3>2, <3>6 DEF OnChainIn, Walk
    <3> HIDE DEF first, found
    <3>8. SlotSound(c, s) BY <3>6, <3>7 DEF TreeSoundness, SlotsSound
    <3>9. ~(slot.name = "." \/ slot.name = "..") BY <3>5, Stored
    <3>10. ~BeingUnlinked(c, s) BY DEF BeingUnlinked
    <3>11. IsDirEntry(slot) /\ Begun(slot.first)
      <4>1. slot.first # None \/ ~(slot.name \in Names /\ ~slot.dir) BY <3>5
      <4> QED BY <3>5, <3>8, <3>9, <3>10, <4>1 DEF SlotSound
    <3>12. Down(d, component) = slot.first BY <2>1, <2>3, <3>5
    <3> HIDE DEF slot
    <3>13. Leads(d, slot.first) BY <3>6, <3>7, <3>11 DEF Leads, slot
    <3> QED BY <3>12, <3>13
  <2> QED BY <2>2, <2>3
<1> QED BY <1>1, <1>2

\* One more component of a path; f_cwd stays where it is at times.
Step(g, start, path, staying, i) ==
  IF i = 0 THEN start
  ELSE IF staying THEN DownOrStay(g[i - 1], path[i]) ELSE Down(g[i - 1], path[i])

LEMMA StepsExist ==
  ASSUME NEW start, NEW path, NEW staying, NEW N \in Nat
  PROVE  \E g : g = [i \in 0 .. N |-> Step(g, start, path, staying, i)]
<1> DEFINE Turns(g, n) == Step(g, start, path, staying, n)
           Good == {m \in Nat : \E g : g = [n \in 0 .. m |-> Turns(g, n)]}
<1>1. 0 \in Good
  <2> DEFINE g == [n \in 0 .. 0 |-> start]
  <2>1. \A n \in 0 .. 0 : n = 0 BY SMT
  <2>2. \A n \in 0 .. 0 : Turns(g, n) = start BY <2>1, Zenon DEF Step
  <2>3. g = [n \in 0 .. 0 |-> Turns(g, n)] BY <2>2
  <2> HIDE DEF g, Turns
  <2> QED BY <2>3
<1>2. \A m \in Nat : m \in Good => m + 1 \in Good
  <2> SUFFICES ASSUME NEW m \in Nat, m \in Good PROVE m + 1 \in Good
    OBVIOUS
  <2>1. PICK g : g = [n \in 0 .. m |-> Turns(g, n)] OBVIOUS
  <2> DEFINE k == [n \in 0 .. m + 1 |-> Turns(g, n)]
  <2> HIDE DEF Turns
  <2>2. \A n \in 0 .. m : k[n] = g[n] BY <2>1, SMT
  <2>3. \A n \in 0 .. m + 1 : Turns(k, n) = Turns(g, n)
    <3> SUFFICES ASSUME NEW n \in 0 .. m + 1 PROVE Turns(k, n) = Turns(g, n)
      OBVIOUS
    <3>1. CASE n = 0 BY <3>1, Zenon DEF Turns, Step
    <3>2. CASE n # 0
      <4>1. n - 1 \in 0 .. m BY <3>2, SMT
      <4>2. k[n - 1] = g[n - 1] BY <2>2, <4>1
      <4> HIDE DEF k
      <4> QED BY <4>2, Zenon DEF Turns, Step
    <3> QED BY <3>1, <3>2
  <2>4. k = [n \in 0 .. m + 1 |-> Turns(k, n)] BY <2>3, Zenon
  <2>5. m + 1 \in Nat BY SMT
  <2> HIDE DEF k
  <2> QED BY <2>4, <2>5
<1> HIDE DEF Good
<1>3. N \in Good BY <1>1, <1>2, InductionOnNat
<1> QED BY <1>3 DEF Good

\* A path stays among the directories that no component leads out of.
LEMMA PathWithin ==
  ASSUME NEW T, NEW start \in T, NEW path \in Prefixes,
         \A d \in T : \A component : Down(d, component) = None \/ Down(d, component) \in T
  PROVE  /\ Resolve(start, path) = None \/ Resolve(start, path) \in T
         /\ ResolveCwd(start, path) = None \/ ResolveCwd(start, path) \in T
<1> DEFINE N == Len(path)
           Within(d) == d = None \/ d \in T
<1>1. N \in Nat
  <2>1. PICK n \in 0 .. MaxDepth : path \in [1 .. n -> Component] BY DEF Prefixes
  <2>2. n \in Nat BY DirAssumption, SMT
  <2>3. path \in Seq(Component) BY <2>1, <2>2, IsASeq
  <2> QED BY <2>3, LenProperties
<1>2. ASSUME NEW staying \in BOOLEAN, NEW g,
             g = [i \in 0 .. N |-> Step(g, start, path, staying, i)]
      PROVE  Within(g[N])
  <2> DEFINE Good == {n \in Nat : n \in 0 .. N => Within(g[n])}
  <2>1. \A i \in 0 .. N : g[i] = Step(g, start, path, staying, i) BY <1>2, Zenon
  <2>2. 0 \in Good
    <3>1. 0 \in 0 .. N BY <1>1, SMT
    <3>2. g[0] = start BY <2>1, <3>1 DEF Step
    <3> QED BY <3>2
  <2>3. ASSUME NEW n \in Nat, n \in Good PROVE n + 1 \in Good
    <3> SUFFICES ASSUME n + 1 \in 0 .. N PROVE Within(g[n + 1])
      BY SMT
    <3>1. n \in 0 .. N /\ n + 1 # 0 /\ (n + 1) - 1 = n BY <1>1, SMT
    <3>2. Within(g[n]) BY <2>3, <3>1
    <3>3. g[n + 1] = IF staying THEN DownOrStay(g[n], path[n + 1]) ELSE Down(g[n], path[n + 1])
      BY <2>1, <3>1, Zenon DEF Step
    <3>4. Within(Down(g[n], path[n + 1])) BY <3>2 DEF Down
    <3>5. Within(DownOrStay(g[n], path[n + 1])) BY <3>2, <3>4 DEF DownOrStay
    <3> QED BY <3>3, <3>4, <3>5
  <2> HIDE DEF Good
  <2>4. N \in Good BY <1>1, <2>2, <2>3, InductionOnNat
  <2>5. N \in 0 .. N BY <1>1, SMT
  <2> QED BY <2>4, <2>5 DEF Good
<1>3. Within(Resolve(start, path))
  <2> DEFINE g == CHOOSE g : g = [i \in 0 .. N |-> Step(g, start, path, FALSE, i)]
  <2>exists. \E k : k = [i \in 0 .. N |-> Step(k, start, path, FALSE, i)] BY <1>1, StepsExist
  <2>1. g = [i \in 0 .. N |-> Step(g, start, path, FALSE, i)] BY <2>exists, Zenon
  <2>2. Resolve(start, path) = g[N] BY Zenon DEF Resolve, Step
  <2> HIDE DEF g
  <2> QED BY <1>2, <2>1, <2>2
<1>4. Within(ResolveCwd(start, path))
  <2> DEFINE g == CHOOSE g : g = [i \in 0 .. N |-> Step(g, start, path, TRUE, i)]
  <2>exists. \E k : k = [i \in 0 .. N |-> Step(k, start, path, TRUE, i)] BY <1>1, StepsExist
  <2>1. g = [i \in 0 .. N |-> Step(g, start, path, TRUE, i)] BY <2>exists, Zenon
  <2>2. ResolveCwd(start, path) = g[N] BY Zenon DEF ResolveCwd, Step
  <2> HIDE DEF g
  <2> QED BY <1>2, <2>1, <2>2
<1> QED BY <1>3, <1>4

LEMMA DirectoriesStart ==
  ASSUME IsTable(fat), TreeSoundness, pc = "idle"
  PROVE  /\ \A d \in Directories : Start(d)
         /\ \A start \in {Root, cwd}, path \in Prefixes :
              ResolveCwd(start, path) = None \/ Start(ResolveCwd(start, path))
<1> DEFINE T == {c \in Cluster : Start(c)}
<1>1. Root \in T /\ cwd \in T BY DEF TreeSoundness, Rooted, Start, InUse
<1>2. \A d \in T : \A component : Down(d, component) = None \/ Down(d, component) \in T
  BY DownLeads DEF Leads, Begun, Start, InUse
<1> HIDE DEF T
<1>3. \A start \in {Root, cwd}, path \in Prefixes :
        /\ Resolve(start, path) = None \/ Resolve(start, path) \in T
        /\ ResolveCwd(start, path) = None \/ ResolveCwd(start, path) \in T
  BY <1>1, <1>2, PathWithin
<1> QED BY <1>3 DEF T, Directories

LEMMA TreeMeansSound == TreeInv => DirectoriesSound
<1> SUFFICES ASSUME TreeInv, ~tainted, pc = "idle", NEW d \in Directories,
                    NEW c \in OnChainIn(fat, d)
             PROVE  c \notin raw /\ fat[c] # FREE
  BY DEF DirectoriesSound
<1>1. IsTable(fat) /\ TreeSoundness BY DEF TreeInv
<1>2. Start(d) BY <1>1, DirectoriesStart
<1>3. c \in InUse BY <1>1, <1>2, DirChain, pc # "extended" DEF TreeSoundness
<1> QED BY <1>3 DEF InUse

\* What fat32_find_file returns is an entry, never the "." or ".." of a directory,
\* whose long-name buffer is empty.
LEMMA FoundEntry ==
  ASSUME IsTable(fat), TreeSoundness, pc = "idle", NEW d, Start(d), NEW n \in Names,
         NEW c \in Cluster, NEW s \in Slots, Finds(slots, d, n, c, s)
  PROVE  c \in InUse /\ c \in OnChainIn(fat, d) /\ IsEntry(slots[c][s])
<1> DEFINE ch == Walk(d)
           seen == Searched(slots, ch)
<1>1. PICK p \in FileMatches(slots, ch, n) : <<ch[p[1]], p[2]>> = <<c, s>> BY DEF Finds
<1>2. ch[p[1]] = c /\ p[2] = s BY <1>1
<1>3. /\ p \in seen /\ At(slots, ch, p).kind = "short"
      /\ \/ Stored83(At(slots, ch, p)) = Format83(n)
         \/ Pieces[n] > 0 /\ LongName(n) \subseteq Buffer(slots, ch, seen, {"short"}, p)
  BY <1>1 DEF FileMatches
<1>4. p \in Places(ch) BY <1>3 DEF Searched
<1>5. First(fat, d) /\ OnChainIn(fat, d) \subseteq InUse
  BY DirChain, pc # "extended" DEF TreeSoundness
<1>6. c \in OnChainIn(fat, d) BY <1>2, <1>4 DEF OnChainIn, Walk, Places
<1>7. At(slots, ch, p) = slots[c][s] BY <1>2 DEF At
<1>8. SlotSound(c, s) BY <1>5, <1>6 DEF TreeSoundness, SlotsSound
<1>9. CASE slots[c][s].name \in Names BY <1>3, <1>5, <1>6, <1>7, <1>9 DEF IsEntry
<1>10. CASE slots[c][s].name \notin Names
  <2>1. /\ Start(c) /\ slots[c][1].kind = "short"
        /\ \/ s = 1 /\ slots[c][s].name = "."
           \/ s = 2 /\ slots[c][s].name = ".."
    BY <1>3, <1>7, <1>8, <1>10 DEF SlotSound, IsDirEntry, IsEntry
  <2>2. Stored83(slots[c][s]) # Format83(n) BY <1>10, <2>1, Stored
  <2>3. Pieces[n] > 0 /\ LongName(n) \subseteq Buffer(slots, ch, seen, {"short"}, p)
    BY <1>3, <1>7, <2>2
  <2>4. LongSlot(n, 1) \in LongName(n)
    <3>1. 1 \in 1 .. Pieces[n] BY <2>3, SlotsFacts, SMT
    <3> QED BY <3>1 DEF LongName
  <2>5. PICK q \in seen : Before(q, p) /\ At(slots, ch, q).kind = "long"
    <3>1. LongSlot(n, 1) \in Buffer(slots, ch, seen, {"short"}, p) BY <2>3, <2>4
    <3>2. PICK q \in seen : InBuffer(slots, ch, seen, {"short"}, p, q) BY <3>1 DEF Buffer
    <3> QED BY <3>2 DEF InBuffer
  <2>6. q \in Places(ch) BY <2>5 DEF Searched
  <2>7. c = d BY <1>5, <1>6, <2>1, NotOnChain DEF Start
  <2>8. /\ Path(fat, ch) /\ ch[1] = d /\ DOMAIN ch = 1 .. Len(ch) /\ 1 \in 1 .. Len(ch)
        /\ Len(ch) \in Nat
    BY <1>5, ChainOfFirst, PathFacts DEF Whole, Walk
  <2>9. p[1] \in 1 .. Len(ch) /\ q[1] \in 1 .. Len(ch) /\ q[2] \in Slots
    BY <1>4, <2>6, <2>8 DEF Places
  <2>10. p[1] = 1
    <3>1. ch[p[1]] = ch[1] BY <1>2, <2>7, <2>8
    <3> QED BY <1>5, <2>8, <2>9, <3>1, ChainsApart DEF Walk
  <2>11. q[1] = 1 /\ q[2] = 1
    <3>1. IF q[1] = p[1] THEN q[2] < p[2] ELSE q[1] < p[1] BY <2>5 DEF Before
    <3>2. q[1] >= 1 /\ q[2] >= 1 /\ q[1] \in Nat /\ q[2] \in Nat /\ (s = 1 \/ s = 2)
      BY <2>1, <2>8, <2>9, SlotsFacts, SMT
    <3> QED BY <1>2, <2>10, <3>1, <3>2, SMT
  <2>12. At(slots, ch, q).kind = "short" BY <2>1, <2>7, <2>8, <2>11 DEF At
  <2> QED BY <2>5, <2>12
<1> QED BY <1>9, <1>10

-----------------------------------------------------------------------------
(* The steps that change no FAT and no directory.                          *)

\* Where nothing but the call, or the current directory, changes.
LEMMA TreeQuiet ==
  ASSUME TreeInv, NamesInv', UNCHANGED <<fat, slots, raw>>, hint' \in Cluster,
         tainted => tainted',
         ~tainted' => /\ pc # "extended" \/ UNCHANGED <<pc, call>>
                      /\ ~(pc = "delete" /\ call.op = "unlink" /\ call.dir) \/ UNCHANGED <<pc, call>>,
         ~tainted' => Start(cwd') /\ NewEntrySound' /\ OldEntrySound'
  PROVE  TreeInv'
<1>1. IsTable(fat') BY DEF TreeInv
<1>2. ASSUME ~tainted' PROVE TreeSoundness'
  <2>1. TreeSoundness BY <1>2 DEF TreeInv
  <2>2. /\ LinksSound' /\ SlotsSound' /\ NothingLeft'
        /\ InUse' = InUse /\ \A c : (Start(c) => Start(c)') /\ (Begun(c) => Begun(c)')
    BY <1>2, <2>1, DiskQuiet DEF TreeSoundness
  <2>3. Rooted'
    <3>1. Start(Root)' BY <2>1, <2>2 DEF TreeSoundness, Rooted
    <3>2. Start(cwd)' BY <1>2, <2>2 DEF Start
    <3> QED BY <2>1, <3>1, <3>2 DEF TreeSoundness, Rooted
  <2> QED BY <1>2, <2>2, <2>3 DEF TreeSoundness
<1> QED BY <1>1, <1>2 DEF TreeInv

\* An ended call has no entry to write or delete.
LEMMA CallEnded == EndCall => NewEntrySound' /\ OldEntrySound'
BY DEF EndCall, NewEntrySound, OldEntrySound, HasOld, NoCall

\* A step of the memory leaves the directories and what the call knows of them.
LEMMA MemorySteps ==
  ASSUME TreeInv, ~tainted, UNCHANGED <<fat, slots, raw>>, 
         pc # "extended" \/ UNCHANGED <<pc, call>>,
         ~(pc = "delete" /\ call.op = "unlink" /\ call.dir) \/ UNCHANGED <<pc, call>>
  PROVE  /\ InUse' = InUse /\ TreeSoundness
         /\ \A c : (Start(c) => Start(c)') /\ (Begun(c) => Begun(c)')
BY DiskQuiet DEF TreeInv, TreeSoundness

LEMMA TreeOpen ==
  ASSUME TreeInv, NamesInv', NEW d, Start(d), NEW n \in Names, CallOpen(d, n)
  PROVE  TreeInv'
<1>1. /\ pc = "idle" /\ ~tainted /\ UNCHANGED <<fat, hint, slots, cwd, raw, tainted>>
      /\ pc' = "place"
      /\ call' = [NoCall EXCEPT !.op = "open", !.parent = d, !.name = n]
  BY DEF CallOpen, Ready
<1>2. call'.op = "open" /\ call'.parent = d /\ call'.dir = FALSE /\ call'.first = None
  BY <1>1 DEF NoCall
<1>3. TreeSoundness /\ (Start(d) => Start(d)') BY <1>1, MemorySteps
<1>4. NewEntrySound'
  <2>1. d \in InUse' /\ NoLinkTo(fat', d) BY <1>3 DEF Start
  <2> QED BY <1>1, <1>2, <2>1 DEF NewEntrySound, Start, NoLinkTo
<1>5. OldEntrySound' BY <1>1, <1>2 DEF OldEntrySound, HasOld
<1>6. Start(cwd') /\ hint' \in Cluster BY <1>1, <1>3 DEF TreeSoundness, Rooted, TreeInv
<1> QED BY <1>1, <1>4, <1>5, <1>6, TreeQuiet

LEMMA TreeRename ==
  ASSUME TreeInv, NamesInv', NEW d, Start(d), NEW n \in Names, CallRename(d, n)
  PROVE  TreeInv'
<1>1. /\ pc = "idle" /\ ~tainted /\ UNCHANGED <<fat, hint, slots, cwd, raw>> /\ pc' = "check"
  BY DEF CallRename, Ready
<1>2. PICK sl \in Looks(d), c \in Cluster, s \in Slots :
        /\ Finds(sl, d, n, c, s)
        /\ CountLook(sl)
        /\ \E e \in Directories, m \in Names :
             call' = [NoCall EXCEPT !.op = "rename", !.parent = e, !.name = m,
               !.dir = sl[c][s].dir, !.first = sl[c][s].first, !.old = <<c, s>>]
        /\ tainted' = (tainted \/ sl # slots)
  BY Zenon DEF CallRename
<1>3. PICK e \in Directories, m \in Names :
        /\ call' = [NoCall EXCEPT !.op = "rename", !.parent = e, !.name = m,
                      !.dir = sl[c][s].dir, !.first = sl[c][s].first, !.old = <<c, s>>]
        /\ tainted' = (tainted \/ sl # slots)
  BY <1>2
<1>4. /\ call'.op = "rename" /\ call'.parent = e /\ call'.dir = sl[c][s].dir
      /\ call'.first = sl[c][s].first /\ call'.old = <<c, s>>
  BY <1>3 DEF NoCall
<1>5. ~tainted' => sl = slots BY <1>3
<1>6. TreeSoundness /\ InUse' = InUse /\ \A x : (Start(x) => Start(x)') /\ (Begun(x) => Begun(x)')
  BY <1>1, MemorySteps
<1>7. Start(e) BY <1>1, <1>6, DirectoriesStart DEF TreeInv
<1>8. ASSUME ~tainted' PROVE NewEntrySound' /\ OldEntrySound'
  <2>1. c \in InUse /\ IsEntry(slots[c][s])
    BY <1>1, <1>2, <1>5, <1>6, <1>8, FoundEntry DEF TreeInv
  <2>2. SlotSound(c, s) /\ ~BeingUnlinked(c, s)
    BY <1>1, <1>6, <2>1 DEF TreeSoundness, SlotsSound, BeingUnlinked
  <2>3. slots[c][s].kind = "short" /\ slots[c][s].name # "." /\ slots[c][s].name # ".."
    BY <2>1, Stored DEF IsEntry
  <2>4. \/ ~slots[c][s].dir /\ slots[c][s].first = None
        \/ slots[c][s].dir /\ Begun(slots[c][s].first)
    BY <2>2, <2>3 DEF SlotSound, IsDirEntry
  <2>5. call'.dir = slots[c][s].dir /\ call'.first = slots[c][s].first BY <1>4, <1>5, <1>8
  <2>6. \/ ~call'.dir /\ call'.first = None
        \/ call'.dir /\ Begun(call'.first)
    BY <2>4, <2>5, Zenon
  <2>9. NewEntrySound' BY <1>1, <1>4, <1>6, <1>7, <2>6 DEF NewEntrySound, Begun, Start, NoLinkTo
  <2>10. call'.old[1] = c /\ call'.old[2] = s BY <1>4
  <2>11. OldEntrySound' BY <1>1, <1>6, <2>1, <2>10 DEF OldEntrySound
  <2> QED BY <2>9, <2>11
<1>9. Start(cwd') /\ hint' \in Cluster BY <1>1, <1>6 DEF TreeSoundness, Rooted, TreeInv
<1> QED BY <1>1, <1>8, <1>9, TreeQuiet

LEMMA TreeCheck ==
  ASSUME TreeInv, NamesInv', CheckTarget PROVE TreeInv'
<1>1. /\ pc = "check" /\ UNCHANGED <<fat, hint, slots, cwd, raw, tainted>>
      /\ (pc' = "place" /\ UNCHANGED call) \/ EndCall
  BY DEF CheckTarget
<1>2. ASSUME ~tainted' PROVE Start(cwd') /\ NewEntrySound' /\ OldEntrySound'
  <2>1. TreeSoundness /\ InUse' = InUse /\ \A x : (Start(x) => Start(x)') /\ (Begun(x) => Begun(x)')
    BY <1>1, <1>2, MemorySteps
  <2>2. Start(cwd') BY <1>1, <2>1 DEF TreeSoundness, Rooted
  <2>3. CASE EndCall BY <2>2, <2>3, CallEnded
  <2>4. CASE pc' = "place" /\ UNCHANGED call
    <3>1. NewEntrySound BY <2>1 DEF TreeSoundness
    <3>2. NewEntrySound' BY <1>1, <2>1, <2>4, <3>1 DEF NewEntrySound, Begun, Start, NoLinkTo
    <3>3. OldEntrySound' BY <1>1, <2>1, <2>4 DEF TreeSoundness, OldEntrySound, HasOld
    <3> QED BY <2>2, <3>2, <3>3
  <2> QED BY <1>1, <2>3, <2>4
<1>3. hint' \in Cluster BY <1>1 DEF TreeInv
<1> QED BY <1>1, <1>2, <1>3, TreeQuiet

\* The place found lies in the chain of the directory.
LEMMA TreePlaceInside ==
  ASSUME TreeInv, NamesInv', PlaceInside PROVE TreeInv'
<1>1. /\ pc = "place" /\ pc' = "entry" /\ UNCHANGED <<fat, hint, slots, cwd, raw, tainted>>
  BY DEF PlaceInside
<1>2. PICK c \in Cluster, s \in Slots :
        /\ \E p \in FreeRuns(slots, Walk(call.parent), SlotsNeeded(call.name)) :
             <<Walk(call.parent)[p[1]], p[2]>> = <<c, s>>
        /\ call' = [call EXCEPT !.at = <<c, s>>]
  <2>1. PICK c \in Cluster, s \in Slots :
        /\ \E p \in FreeRuns(slots, Walk(call.parent), SlotsNeeded(call.name)) :
             /\ IsFirst(p, FreeRuns(slots, Walk(call.parent), SlotsNeeded(call.name)))
             /\ <<Walk(call.parent)[p[1]], p[2]>> = <<c, s>>
        /\ call' = [call EXCEPT !.at = <<c, s>>]
    BY Zenon DEF PlaceInside
  <2> QED BY <2>1
<1>3. /\ call'.at = <<c, s>> /\ call'.op = call.op /\ call'.old = call.old
      /\ call'.first = call.first /\ call'.dir = call.dir
  <2>1. CallShape BY DEF TreeInv, NamesInv, EndsInv
  <2>2. call'.at = <<c, s>> /\ call'.op = call.op /\ call'.old = call.old /\ call'.first = call.first
    BY <1>2, <2>1, CallPlaced
  <2>3. call'.dir = call.dir BY <1>2, <2>1 DEF CallShape
  <2> QED BY <2>2, <2>3
<1>4. c \in OnChainIn(fat, call.parent)
  <2>1. PICK p \in FreeRuns(slots, Walk(call.parent), SlotsNeeded(call.name)) :
          <<Walk(call.parent)[p[1]], p[2]>> = <<c, s>>
    BY <1>2
  <2>2. p[1] \in DOMAIN Walk(call.parent) BY <2>1 DEF FreeRuns, Places
  <2> QED BY <2>1, <2>2 DEF OnChainIn, Walk
<1>5. ASSUME ~tainted' PROVE Start(cwd') /\ NewEntrySound' /\ OldEntrySound'
  <2>1. TreeSoundness /\ InUse' = InUse /\ \A x : (Start(x) => Start(x)') /\ (Begun(x) => Begun(x)')
    BY <1>1, <1>5, MemorySteps
  <2>2. Start(cwd') BY <1>1, <2>1 DEF TreeSoundness, Rooted
  <2>3. Start(call.parent) BY <1>1, <2>1 DEF TreeSoundness, NewEntrySound
  <2>4. c \in InUse BY <1>1, <1>4, <2>1, <2>3, DirChain DEF TreeInv, TreeSoundness
  <2>5. \/ ~call.dir /\ call.first = None
        \/ call.dir /\ Begun(call.first)
    BY <1>1, <2>1 DEF TreeSoundness, NewEntrySound
  <2>6. call'.at[1] = c BY <1>3
  <2>7. \/ ~call'.dir /\ call'.first = None
        \/ call'.dir /\ Begun(call'.first)
    BY <1>3, <2>5, Zenon
  <2>8. NewEntrySound'
    BY <1>1, <2>1, <2>4, <2>6, <2>7 DEF NewEntrySound, Begun, Start, NoLinkTo
  <2>9. OldEntrySound' BY <1>1, <1>3, <2>1 DEF TreeSoundness, OldEntrySound, HasOld
  <2> QED BY <2>2, <2>8, <2>9
<1>6. hint' \in Cluster BY <1>1 DEF TreeInv
<1> QED BY <1>1, <1>5, <1>6, TreeQuiet

LEMMA TreePlaceFails ==
  ASSUME TreeInv, NamesInv', PlaceFails PROVE TreeInv'
<1>1. /\ pc = "place" /\ EndCall /\ UNCHANGED <<fat, hint, slots, cwd, raw, tainted>>
  BY DEF PlaceFails
<1>2. ASSUME ~tainted' PROVE Start(cwd')
  BY <1>1, <1>2 DEF TreeInv, TreeSoundness, Rooted
<1>3. hint' \in Cluster BY <1>1 DEF TreeInv
<1> QED BY <1>1, <1>2, <1>3, CallEnded, TreeQuiet

\* A change of directory, the reads, and a step of nothing.
LEMMA TreeStays ==
  ASSUME TreeInv, NamesInv', UNCHANGED <<fat, hint, slots, raw, pc, call, tainted>>,
         ~tainted => Start(cwd')
  PROVE  TreeInv'
<1>1. ASSUME ~tainted' PROVE NewEntrySound' /\ OldEntrySound'
  <2>1. TreeSoundness /\ InUse' = InUse /\ \A x : (Start(x) => Start(x)') /\ (Begun(x) => Begun(x)')
    BY <1>1, MemorySteps
  <2>2. (Begun(call.first) => Begun(call.first)') /\ (Start(call.parent) => Start(call.parent)')
    BY <2>1
  <2>3. NewEntrySound' BY <2>1, <2>2 DEF TreeSoundness, NewEntrySound, NoLinkTo
  <2>4. OldEntrySound' BY <2>1 DEF TreeSoundness, OldEntrySound, HasOld
  <2> QED BY <2>3, <2>4
<1>2. hint' \in Cluster BY DEF TreeInv
<1> QED BY <1>1, <1>2, TreeQuiet

LEMMA TreeChangeDir ==
  ASSUME TreeInv, NamesInv', ChangeDir PROVE TreeInv'
<1>1. /\ pc = "idle" /\ ~tainted /\ UNCHANGED <<fat, hint, slots, raw, pc, call, tainted>>
      /\ cwd' \in (Directories \cup
           {ResolveCwd(start, path) : start \in {Root, cwd}, path \in Prefixes}) \ {None}
  BY DEF ChangeDir, Ready
<1>2. TreeSoundness /\ IsTable(fat) BY <1>1 DEF TreeInv
<1>3. Start(Root) /\ Start(cwd) BY <1>2 DEF TreeSoundness, Rooted
<1>4. Start(cwd') BY <1>1, <1>2, <1>3, DirectoriesStart
<1> QED BY <1>1, <1>4, TreeStays

LEMMA TreeRestart ==
  ASSUME TreeInv, NamesInv', Restart PROVE TreeInv'
<1>1. /\ pc = "idle" /\ UNCHANGED <<fat, slots, raw, tainted>> /\ hint' = 2 /\ cwd' = Root /\ EndCall
  BY DEF Restart, Reboot
<1>2. ASSUME ~tainted' PROVE Start(cwd') BY <1>1, <1>2 DEF TreeInv, TreeSoundness, Rooted
<1>3. hint' \in Cluster
  <2>1. 2 \in Cluster BY TotalClustersAssumption, SMT DEF Cluster
  <2> QED BY <1>1, <2>1
<1> QED BY <1>1, <1>2, <1>3, CallEnded, TreeQuiet

-----------------------------------------------------------------------------
(* Cluster writes.                                                         *)

\* Slot by slot, a write leaves the buffer or what was there.
LEMMA SlotsWritten ==
  ASSUME EndsInv, pc \in Writing, Written \/ Torn
  PROVE  /\ Target \in Cluster
         /\ \A c \in Cluster : c # Target => slots'[c] = slots[c]
         /\ \A t \in Slots : slots'[Target][t] = Content[t] \/ slots'[Target][t] = slots[Target][t]
         /\ Written => slots'[Target] = Content
<1>1. Target \in Cluster /\ Shape BY WrittenEnds DEF EndsInv
<1>2. PICK m \in 0 .. SlotsPerCluster : slots'[Target] = UpTo(m, Content, slots[Target])
  BY <1>1, WriteEffect
<1> QED BY <1>1, <1>2, WriteEffect DEF UpTo

\* What the steps on directories establish of the disk and the current directory.
DiskSound == LinksSound /\ Rooted /\ SlotsSound /\ NothingLeft

\* Writes to clusters that are not in use leave nothing there.
LEMMA WriteOutside ==
  ASSUME DiskSound, UNCHANGED <<fat, raw>>, cwd' \in {cwd, Root}, pc \notin {"extended", "delete"},
         \A c \in InUse : slots'[c] = slots[c],
         \A c \in Cluster \ InUse, s \in Slots : ~IsEntry(slots'[c][s])
  PROVE  DiskSound' /\ InUse' = InUse /\ \A c \in InUse : slots'[c] = slots[c]
<1>1. InUse' = InUse BY DEF InUse
<1>2. LinksSound' BY <1>1 DEF DiskSound, LinksSound
<1>3. Rooted' BY <1>1 DEF DiskSound, Rooted, Start, NoLinkTo
<1>4. NothingLeft' BY <1>1 DEF NothingLeft
<1>5. ASSUME NEW c \in InUse, NEW s \in Slots PROVE SlotSound(c, s)'
  <2>1. SlotSound(c, s) /\ ~BeingUnlinked(c, s) BY DEF DiskSound, SlotsSound, BeingUnlinked
  <2>2. slots'[c] = slots[c] OBVIOUS
  <2>3. Start(c) => Start(c)' BY <1>1 DEF Start
  <2> DEFINE f == slots[c][s].first
  <2>4. Begun(f) => f \in InUse' /\ NoLinkTo(fat', f) /\ slots'[f][1] = ShortSlot(".", TRUE, f)
    BY <1>1 DEF Begun, Start
  <2>5. Begun(slots[c][s].first) => Begun(slots[c][s].first)'
    BY <2>2, <2>4 DEF Begun, Start, NoLinkTo
  <2> QED BY <2>1, <2>2, <2>3, <2>5 DEF SlotSound
<1>6. SlotsSound' BY <1>1, <1>5 DEF SlotsSound
<1> QED BY <1>1, <1>2, <1>3, <1>4, <1>6 DEF DiskSound

\* A slot that holds an entry of something that is there.
Fresh(slot) ==
  /\ IsEntry(slot)
  /\ \/ ~slot.dir /\ slot.first = None
     \/ slot.dir /\ Begun(slot.first)

\* A write to a directory that keeps its "." and writes such entries only.
LEMMA WriteInside ==
  ASSUME DiskSound, UNCHANGED <<fat, raw>>, cwd' \in {cwd, Root}, pc # "extended", pc' # "extended",
         NEW T \in InUse, \A c \in Cluster : c # T => slots'[c] = slots[c],
         \A t \in Slots : \/ slots'[T][t] = slots[T][t]
                          \/ slots'[T][t].kind # "short" \/ Fresh(slots'[T][t]),
         slots[T][1].kind = "short" /\ slots[T][1].name = "." => slots'[T][1] = slots[T][1],
         slots'[T][1].name = "." => slots[T][1].name = ".",
         \A c \in InUse, s \in Slots : BeingUnlinked(c, s) => ~IsDirEntry(slots'[c][s])
  PROVE  /\ DiskSound' /\ InUse' = InUse
         /\ \A c : Begun(c) => slots'[c][1] = slots[c][1]
<1>1. InUse' = InUse BY DEF InUse
<1>2. LinksSound' BY <1>1 DEF DiskSound, LinksSound
<1>3. Root \in Cluster BY DEF DiskSound, Rooted, Start, InUse
<1>4. Rooted' BY <1>1, <1>3 DEF DiskSound, Rooted, Start, NoLinkTo
<1>5. NothingLeft' BY <1>1 DEF DiskSound, NothingLeft
<1>6. ASSUME NEW c, Begun(c) PROVE slots'[c][1] = slots[c][1]
  <2>1. c \in Cluster /\ slots[c][1].kind = "short" /\ slots[c][1].name = "."
    BY <1>6 DEF Begun, Start, InUse, ShortSlot, EndMark
  <2> QED BY <2>1
<1>7. ASSUME NEW f, Begun(f)
      PROVE  f \in InUse' /\ NoLinkTo(fat', f) /\ slots'[f][1] = ShortSlot(".", TRUE, f)
  BY <1>1, <1>6, <1>7 DEF Begun, Start
<1>8. ASSUME NEW c \in InUse, NEW s \in Slots PROVE SlotSound(c, s)'
  <2>1. SlotSound(c, s) BY DEF DiskSound, SlotsSound
  <2>2. Start(c) => Start(c)' BY <1>1 DEF Start
  <2>3. CASE slots'[c][s] = slots[c][s]
    <3> DEFINE f == slots[c][s].first
    <3>0. Begun(f) => f \in InUse' /\ NoLinkTo(fat', f) /\ slots'[f][1] = ShortSlot(".", TRUE, f)
      BY <1>7
    <3>1. Begun(slots[c][s].first) => Begun(slots[c][s].first)'
      BY <2>3, <3>0 DEF Begun, Start, NoLinkTo
    <3>2. slots[c][1].kind = "short" /\ slots[c][1].name = "." => slots'[c][1] = slots[c][1]
      BY DEF InUse
    <3>3. BeingUnlinked(c, s) => ~IsDirEntry(slots[c][s]) BY <2>3
    <3> QED BY <2>1, <2>2, <2>3, <3>1, <3>2, <3>3 DEF SlotSound
  <2>4. CASE slots'[c][s].kind # "short" BY <2>4 DEF SlotSound
  <2>5. CASE c = T /\ Fresh(slots'[T][s])
    <3>1. IsEntry(slots'[c][s]) BY <2>5 DEF Fresh
    <3>2. \/ ~slots'[c][s].dir /\ slots'[c][s].first = None
          \/ slots'[c][s].dir /\ Begun(slots'[c][s].first)
      BY <2>5 DEF Fresh
    <3>3. \/ ~slots'[c][s].dir /\ slots'[c][s].first = None
          \/ /\ slots'[c][s].dir /\ slots'[c][s].first \in InUse'
             /\ NoLinkTo(fat', slots'[c][s].first)
             /\ slots'[slots'[c][s].first][1] = ShortSlot(".", TRUE, slots'[c][s].first)
      BY <1>7, <3>2
    <3> QED BY <3>1, <3>3 DEF SlotSound, IsEntry, IsDirEntry, Begun, Start, NoLinkTo
  <2> QED BY <2>3, <2>4, <2>5 DEF InUse
<1>9. SlotsSound' BY <1>1, <1>8 DEF SlotsSound
<1> QED BY <1>1, <1>2, <1>4, <1>5, <1>6, <1>9 DEF DiskSound

LEMMA NewDirectorySlots ==
  ASSUME NEW own, NEW parent, NEW cl, cl = NewDirectory(own, parent)
  PROVE  /\ cl[1].kind = "short" /\ cl[1].name = "."
         /\ cl[2].kind = "short" /\ cl[2].name = ".."
         /\ \A s \in Slots : s # 1 /\ s # 2 => cl[s].kind = "end"
         /\ \A s \in Slots : ~IsEntry(cl[s])
<1> DEFINE begun == [EmptyCluster EXCEPT ![1] = ShortSlot(".", TRUE, own)]
<1>1. 1 \in Slots /\ 2 \in Slots /\ 1 # 2 BY SlotsFacts, SMT
<1>2. EmptyCluster = [t \in Slots |-> EndMark] BY DEF EmptyCluster
<1>3. begun = [t \in Slots |-> IF t = 1 THEN ShortSlot(".", TRUE, own) ELSE EndMark]
  BY <1>2
<1>4. cl = [begun EXCEPT ![2] = ShortSlot("..", TRUE, parent)]
  BY DEF NewDirectory
<1>5. /\ cl[1] = ShortSlot(".", TRUE, own) /\ cl[2] = ShortSlot("..", TRUE, parent)
      /\ \A s \in Slots : s # 1 /\ s # 2 => cl[s] = EndMark
  BY <1>1, <1>3, <1>4
<1>6. /\ ShortSlot(".", TRUE, own).name = "." /\ ShortSlot("..", TRUE, parent).name = ".."
      /\ ShortSlot(".", TRUE, own).kind = "short" /\ ShortSlot("..", TRUE, parent).kind = "short"
      /\ EndMark.kind = "end"
  BY DEF ShortSlot, EndMark
<1>7. /\ cl[1].kind = "short" /\ cl[1].name = "." /\ cl[2].kind = "short" /\ cl[2].name = ".."
      /\ \A s \in Slots : s # 1 /\ s # 2 => cl[s].kind = "end"
  BY <1>5, <1>6
<1>8. \A s \in Slots : ~IsEntry(cl[s]) BY <1>7, Stored DEF IsEntry
<1> QED BY <1>7, <1>8

LEMMA NewDirectoryBegins ==
  ASSUME NEW own, NEW parent
  PROVE  NewDirectory(own, parent)[1] = ShortSlot(".", TRUE, own)
<1> DEFINE begun == [EmptyCluster EXCEPT ![1] = ShortSlot(".", TRUE, own)]
<1>1. 1 \in Slots /\ 2 \in Slots /\ 1 # 2 BY SlotsFacts, SMT
<1>2. EmptyCluster = [t \in Slots |-> EndMark] BY DEF EmptyCluster
<1>3. begun = [t \in Slots |-> IF t = 1 THEN ShortSlot(".", TRUE, own) ELSE EndMark]
  BY <1>2
<1>4. NewDirectory(own, parent) = [begun EXCEPT ![2] = ShortSlot("..", TRUE, parent)]
  BY DEF NewDirectory
<1> QED BY <1>1, <1>3, <1>4

\* A cluster that was allocated comes into use: it is empty, or begins a directory.
LEMMA ComesIntoUse ==
  ASSUME DiskSound, UNCHANGED <<fat, cwd>>, NEW T \in Cluster, T \in raw, fat[T] = EndOfChain,
         raw' = raw \ {T}, pc # "delete", pc = "extended" => T = call.at[1],
         \A c \in Cluster : c # T => slots'[c] = slots[c],
         \/ slots'[T] = EmptyCluster
         \/ /\ NoLinkTo(fat, T)
            /\ \E parent : slots'[T] = NewDirectory(T, parent)
  PROVE  /\ DiskSound' /\ InUse' = InUse \cup {T}
         /\ \A c \in InUse : slots'[c] = slots[c]
<1>1. InUse' = InUse \cup {T} /\ T \notin InUse
  <2>1. EndOfChain # FREE BY TableNumbers
  <2> QED BY <2>1 DEF InUse
<1>2. \A c \in InUse : slots'[c] = slots[c] BY <1>1 DEF InUse
<1>3. LinksSound'
  <2>1. fat[T] \notin Cluster BY TableNumbers
  <2> QED BY <1>1, <2>1 DEF DiskSound, LinksSound
<1>4. Rooted' BY <1>1, <1>2 DEF DiskSound, Rooted, Start, NoLinkTo
<1>5. NothingLeft' BY <1>1 DEF DiskSound, NothingLeft
<1>6. ASSUME NEW c \in InUse, NEW s \in Slots PROVE SlotSound(c, s)'
  <2>1. SlotSound(c, s) /\ ~BeingUnlinked(c, s) BY DEF DiskSound, SlotsSound, BeingUnlinked
  <2>2. slots'[c] = slots[c] BY <1>2
  <2>3. Start(c) => Start(c)' BY <1>1 DEF Start
  <2> DEFINE f == slots[c][s].first
  <2>4. Begun(f) => f \in InUse' /\ NoLinkTo(fat', f) /\ slots'[f][1] = ShortSlot(".", TRUE, f)
    BY <1>1, <1>2 DEF Begun, Start
  <2>5. Begun(slots[c][s].first) => Begun(slots[c][s].first)'
    BY <2>2, <2>4 DEF Begun, Start, NoLinkTo
  <2> QED BY <2>1, <2>2, <2>3, <2>5 DEF SlotSound
<1>7. ASSUME NEW s \in Slots PROVE SlotSound(T, s)'
  <2>1. CASE slots'[T] = EmptyCluster
    <3>1. slots'[T][s].kind = "end" BY <2>1, SlotKinds DEF EmptyCluster
    <3> QED BY <3>1 DEF SlotSound
  <2>2. CASE NoLinkTo(fat, T) /\ \E parent : slots'[T] = NewDirectory(T, parent)
    <3>1. PICK parent : slots'[T] = NewDirectory(T, parent) BY <2>2
    <3>2. Start(T)' BY <1>1, <2>2 DEF Start
    <3>3. /\ slots'[T][1].kind = "short" /\ slots'[T][1].name = "."
          /\ slots'[T][2].kind = "short" /\ slots'[T][2].name = ".."
          /\ s # 1 /\ s # 2 => slots'[T][s].kind = "end"
      <4> DEFINE cl == slots'[T]
      <4>1. cl = NewDirectory(T, parent) BY <3>1
      <4> HIDE DEF cl
      <4>2. /\ cl[1].kind = "short" /\ cl[1].name = "."
            /\ cl[2].kind = "short" /\ cl[2].name = ".."
            /\ \A t \in Slots : t # 1 /\ t # 2 => cl[t].kind = "end"
        BY <4>1, NewDirectorySlots
      <4> QED BY <4>2 DEF cl
    <3> QED BY <3>2, <3>3 DEF SlotSound
  <2> QED BY <2>1, <2>2
<1>8. SlotsSound' BY <1>1, <1>6, <1>7 DEF SlotsSound
<1> QED BY <1>1, <1>2, <1>3, <1>4, <1>5, <1>8 DEF DiskSound

\* Two forms of the same invariant.
LEMMA TreeParts ==
  ASSUME NamesInv', IsTable(fat'), hint' \in Cluster,
         ~tainted' => DiskSound' /\ NewEntrySound' /\ OldEntrySound'
  PROVE  TreeInv'
BY DEF TreeInv, TreeSoundness, DiskSound

LEMMA TreeMeansDisk ==
  ASSUME TreeInv
  PROVE  /\ IsTable(fat) /\ hint \in Cluster /\ EndsInv /\ NamesInv
         /\ ~tainted => DiskSound /\ NewEntrySound /\ OldEntrySound /\ TreeSoundness
BY DEF TreeInv, TreeSoundness, DiskSound, NamesInv

\* What f_mkdir writes to its cluster while no entry names it, whole or in part.
LEMMA WrittenBefore ==
  ASSUME TreeInv, ~tainted, pc \in {"clear", "init"}, Written \/ Torn,
         UNCHANGED <<fat, raw>>, cwd' \in {cwd, Root}
  PROVE  DiskSound' /\ InUse' = InUse
<1>1. /\ Target = call.first /\ call.first \in raw /\ pc \in Writing
      /\ Content = EmptyCluster \/ Content = NewDirectory(call.first, call.parent)
  BY TreeMeansDisk DEF Target, Content, Writing, EndsInv, NewClusterRaw
<1>2. /\ \A c \in Cluster : c # Target => slots'[c] = slots[c]
      /\ \A t \in Slots : slots'[Target][t] = Content[t] \/ slots'[Target][t] = slots[Target][t]
  BY <1>1, SlotsWritten, TreeMeansDisk
<1>3. \A c \in InUse : slots'[c] = slots[c] BY <1>1, <1>2 DEF InUse
<1>4. ASSUME NEW c \in Cluster \ InUse, NEW s \in Slots PROVE ~IsEntry(slots'[c][s])
  <2>1. ~IsEntry(slots[c][s]) BY TreeMeansDisk DEF DiskSound, NothingLeft
  <2>2. ~IsEntry(Content[s])
    <3>1. CASE Content = EmptyCluster BY <3>1, SlotKinds, KindsFree DEF EmptyCluster
    <3>2. CASE Content = NewDirectory(call.first, call.parent) BY <3>2, NewDirectorySlots
    <3> QED BY <1>1, <3>1, <3>2
  <2>3. slots'[c][s] = slots[c][s] \/ slots'[c][s] = Content[s] BY <1>2
  <2> QED BY <2>1, <2>2, <2>3
<1> QED BY <1>3, <1>4, WriteOutside, TreeMeansDisk

LEMMA TreeClearNew ==
  ASSUME TreeInv, NamesInv', ClearNew PROVE TreeInv'
<1>1. /\ pc = "clear" /\ pc' = "init" /\ UNCHANGED <<fat, hint, cwd, call, raw, tainted>>
      /\ Written \/ Torn
  BY DEF ClearNew, WriteWorks, WriteFails
<1>2. ASSUME ~tainted' PROVE DiskSound' /\ NewEntrySound' /\ OldEntrySound'
  <2>1. NewEntrySound BY <1>1, <1>2, TreeMeansDisk
  <2>2. DiskSound' /\ InUse' = InUse BY <1>1, <1>2, WrittenBefore
  <2>3. NewEntrySound' BY <1>1, <2>1, <2>2 DEF NewEntrySound, Start, NoLinkTo
  <2>4. OldEntrySound'
    <3>1. call.op = "mkdir" BY <1>1, TreeMeansDisk DEF EndsInv, NewClusterRaw
    <3> QED BY <1>1, <3>1 DEF OldEntrySound, HasOld
  <2> QED BY <2>2, <2>3, <2>4
<1>3. IsTable(fat') /\ hint' \in Cluster BY <1>1, TreeMeansDisk
<1> QED BY <1>2, <1>3, TreeParts

LEMMA TreeInitNew ==
  ASSUME TreeInv, NamesInv', InitNew PROVE TreeInv'
<1>1. /\ pc = "init" /\ UNCHANGED <<fat, hint, cwd, tainted>> /\ (Written \/ Torn)
      /\ \/ Written /\ pc' = "place" /\ raw' = raw \ {call.first} /\ UNCHANGED call
         \/ EndCall /\ UNCHANGED raw
  BY DEF InitNew, WriteWorks, WriteFails
<1>2. /\ Target = call.first /\ Content = NewDirectory(call.first, call.parent) /\ pc \in Writing
      /\ call.first \in raw /\ call.op = "mkdir"
  BY <1>1, TreeMeansDisk DEF Target, Content, Writing, EndsInv, NewClusterRaw
<1>w. /\ Target \in Cluster
      /\ \A c \in Cluster : c # Target => slots'[c] = slots[c]
      /\ \A t \in Slots : slots'[Target][t] = Content[t] \/ slots'[Target][t] = slots[Target][t]
      /\ Written => slots'[Target] = Content
  BY <1>1, <1>2, SlotsWritten, TreeMeansDisk
<1>3. ASSUME ~tainted' PROVE DiskSound' /\ NewEntrySound' /\ OldEntrySound'
  <2>1. DiskSound /\ NewEntrySound BY <1>1, <1>3, TreeMeansDisk
  <2>2. CASE Written /\ pc' = "place" /\ raw' = raw \ {call.first} /\ UNCHANGED call
    <3> DEFINE f == call.first
    <3>1. /\ call.dir /\ fat[f] = EndOfChain /\ NoLinkTo(fat, f) /\ Start(call.parent)
      BY <1>1, <2>1 DEF NewEntrySound
    <3>2. slots'[f] = NewDirectory(f, call.parent) BY <1>2, <1>w, <2>2
    <3>3. /\ DiskSound' /\ InUse' = InUse \cup {f}
          /\ \A c \in InUse : slots'[c] = slots[c]
      BY <1>1, <1>2, <1>w, <2>1, <2>2, <3>1, <3>2, ComesIntoUse
    <3>4. slots'[f][1] = ShortSlot(".", TRUE, f)
      <4> DEFINE cl == slots'[f]
      <4>1. cl = NewDirectory(f, call.parent) BY <3>2
      <4> HIDE DEF cl
      <4>2. cl[1] = ShortSlot(".", TRUE, f) BY <4>1, NewDirectoryBegins
      <4> QED BY <4>2 DEF cl
    <3>5. NewEntrySound'
      BY <1>1, <2>2, <3>1, <3>3, <3>4 DEF NewEntrySound, Begun, Start, NoLinkTo
    <3>6. OldEntrySound' BY <1>2, <2>2 DEF OldEntrySound, HasOld
    <3> QED BY <3>3, <3>5, <3>6
  <2>3. CASE EndCall /\ UNCHANGED raw
    BY <1>1, <1>3, <2>3, WrittenBefore, CallEnded
  <2> QED BY <1>1, <2>2, <2>3
<1>4. IsTable(fat') /\ hint' \in Cluster BY <1>1, TreeMeansDisk
<1> QED BY <1>3, <1>4, TreeParts

LEMMA TreeClearExtension ==
  ASSUME TreeInv, NamesInv', ClearExtension PROVE TreeInv'
<1>1. /\ pc = "extended" /\ pc' = "entry" /\ UNCHANGED <<fat, hint, cwd, call>>
      /\ ~tainted' => ~tainted /\ Written /\ raw' = raw \ {call.at[1]}
  BY DEF ClearExtension, WriteWorks
<1>2. /\ Target = call.at[1] /\ Content = EmptyCluster /\ pc \in Writing
      /\ call.at[1] \in raw
  BY <1>1, TreeMeansDisk DEF Target, Content, Writing, EndsInv, NewClusterRaw
<1>3. ASSUME ~tainted' PROVE DiskSound' /\ NewEntrySound' /\ OldEntrySound'
  <2> DEFINE e == call.at[1]
  <2>1. DiskSound /\ NewEntrySound /\ OldEntrySound BY <1>1, <1>3, TreeMeansDisk
  <2>2. e \in Cluster /\ slots'[e] = EmptyCluster /\ \A c \in Cluster : c # e => slots'[c] = slots[c]
    BY <1>1, <1>2, <1>3, SlotsWritten, TreeMeansDisk
  <2>3. fat[e] = EndOfChain BY <1>1, <2>1 DEF NewEntrySound
  <2>4. /\ DiskSound' /\ InUse' = InUse \cup {e}
        /\ \A c \in InUse : slots'[c] = slots[c]
    BY <1>1, <1>2, <1>3, <2>1, <2>2, <2>3, ComesIntoUse
  <2>5. NewEntrySound'
    BY <1>1, <2>1, <2>4 DEF NewEntrySound, Begun, Start, NoLinkTo
  <2>6. OldEntrySound' BY <1>1, <2>1, <2>4 DEF OldEntrySound, HasOld
  <2> QED BY <2>4, <2>5, <2>6
<1>4. IsTable(fat') /\ hint' \in Cluster BY <1>1, TreeMeansDisk
<1> QED BY <1>3, <1>4, TreeParts

\* The slots of a cluster with one more name in it.
LEMMA EntrySlots ==
  ASSUME NEW cl, NEW s \in Slots, NEW n \in Names, NEW dir, NEW first, NEW t \in Slots,
         NEW new, new = WithEntry(cl, s, n, dir, first)[t]
  PROVE  \/ new = cl[t]
         \/ new.kind = "long" /\ new.name = n
         \/ new.kind = "short" /\ new.name = n /\ new.dir = dir /\ new.first = first
<1>1. \/ new = cl[t]
      \/ \E i : new = LongSlot(n, i)
      \/ new = ShortSlot(n, dir, first)
  BY DEF WithEntry
<1>2. \A i : LongSlot(n, i).kind = "long" /\ LongSlot(n, i).name = n
  BY DEF LongSlot, EndMark
<1>3. /\ ShortSlot(n, dir, first).kind = "short" /\ ShortSlot(n, dir, first).name = n
      /\ ShortSlot(n, dir, first).dir = dir /\ ShortSlot(n, dir, first).first = first
  BY DEF ShortSlot, EndMark
<1> QED BY <1>1, <1>2, <1>3

\* The short entry of the name lies behind its pieces.
LEMMA EntryShort ==
  ASSUME NEW cl, NEW s \in Slots, NEW n \in Names, NEW dir, NEW first, NEW t \in Slots,
         t = s + Pieces[n], NEW new, new = WithEntry(cl, s, n, dir, first)[t]
  PROVE  new.kind = "short" /\ new.name = n /\ new.dir = dir /\ new.first = first
<1>1. s \in Nat /\ Pieces[n] \in Nat BY SlotsFacts, SMT
<1>2. t \notin s .. s + Pieces[n] - 1 BY <1>1, SMT
<1>3. new = ShortSlot(n, dir, first) BY <1>2 DEF WithEntry
<1> QED BY <1>3 DEF ShortSlot, EndMark

\* The writes of an entry, whole or torn.
LEMMA EntryWritten ==
  ASSUME TreeInv, ~tainted, pc = "entry", Written \/ Torn, pc' # "extended",
         UNCHANGED <<fat, raw>>, cwd' \in {cwd, Root}
  PROVE  /\ DiskSound' /\ InUse' = InUse
         /\ \A c \in InUse, s \in Slots : ~IsFree(slots[c][s]) => slots'[c][s] = slots[c][s]
<1> DEFINE T == call.at[1]
<1>1. /\ Target = T /\ pc \in Writing
      /\ Content = WithEntry(slots[T], call.at[2], call.name, call.dir, call.first)
      /\ call.at[2] \in Slots /\ call.name \in Names
  BY TreeMeansDisk DEF Target, Content, Writing, EndsInv, RoomKept, NameGiven
<1>2. /\ T \in Cluster
      /\ \A c \in Cluster : c # T => slots'[c] = slots[c]
      /\ \A t \in Slots : slots'[T][t] = Content[t] \/ slots'[T][t] = slots[T][t]
  BY <1>1, SlotsWritten, TreeMeansDisk
<1>3. /\ T \in InUse
      /\ \/ ~call.dir /\ call.first = None
         \/ call.dir /\ Begun(call.first)
  BY TreeMeansDisk DEF NewEntrySound
<1>4. \A t \in Slots : ~IsFree(slots[T][t]) => slots'[T][t] = slots[T][t]
  <2>1. Kept(slots[T], slots'[T]) BY <1>1, <1>3, WrittenNames, TreeMeansDisk DEF InUse
  <2> QED BY <2>1 DEF Kept
<1>5. ASSUME NEW t \in Slots
      PROVE  \/ slots'[T][t] = slots[T][t]
             \/ slots'[T][t].kind = "long" /\ slots'[T][t].name \in Names
             \/ Fresh(slots'[T][t]) /\ slots'[T][t].name \in Names
  <2> DEFINE new == Content[t]
  <2>1. CASE slots'[T][t] = slots[T][t] BY <2>1
  <2>2. CASE slots'[T][t] = new
    <3>1. \/ new = slots[T][t]
          \/ new.kind = "long" /\ new.name = call.name
          \/ /\ new.kind = "short" /\ new.name = call.name
             /\ new.dir = call.dir /\ new.first = call.first
      BY <1>1, EntrySlots
    <3> HIDE DEF new
    <3>2. ASSUME new.kind = "short", new.name = call.name, new.dir = call.dir, new.first = call.first
          PROVE  Fresh(new)
      <4>1. IsEntry(new) BY <1>1, <3>2 DEF IsEntry
      <4>2. \/ ~new.dir /\ new.first = None
            \/ new.dir /\ Begun(new.first)
        BY <1>3, <3>2, Zenon
      <4> QED BY <4>1, <4>2 DEF Fresh
    <3> QED BY <1>1, <2>2, <3>1, <3>2
  <2> QED BY <1>2, <2>1, <2>2
<1>6. 1 \in Slots BY SlotsFacts, SMT
<1>7. slots[T][1].kind = "short" => slots'[T][1] = slots[T][1]
  BY <1>4, <1>6, KindsFree
<1>8. slots'[T][1].name = "." => slots[T][1].name = "."
  BY <1>5, <1>6, Stored
<1>9. \A t \in Slots : \/ slots'[T][t] = slots[T][t]
                       \/ slots'[T][t].kind # "short" \/ Fresh(slots'[T][t])
  BY <1>5
<1>10. \A c \in InUse, s \in Slots : ~BeingUnlinked(c, s) BY DEF BeingUnlinked
<1>11. DiskSound /\ pc # "extended" BY TreeMeansDisk
<1>12. DiskSound' /\ InUse' = InUse
  BY <1>2, <1>3, <1>7, <1>8, <1>9, <1>10, <1>11, WriteInside
<1> QED BY <1>2, <1>4, <1>12 DEF InUse

LEMMA TreeWriteEntry ==
  ASSUME TreeInv, NamesInv', WriteEntry PROVE TreeInv'
<1>1. /\ pc = "entry" /\ UNCHANGED <<fat, hint, cwd, raw, tainted>> /\ (Written \/ Torn)
      /\ EndCall \/ (call.op = "rename" /\ pc' = "delete" /\ UNCHANGED call)
  BY DEF WriteEntry, WriteWorks, WriteFails
<1>2. ASSUME ~tainted' PROVE DiskSound' /\ NewEntrySound' /\ OldEntrySound'
  <2>1. pc' # "extended" BY <1>1 DEF EndCall
  <2>2. /\ DiskSound' /\ InUse' = InUse
        /\ \A c \in InUse, s \in Slots : ~IsFree(slots[c][s]) => slots'[c][s] = slots[c][s]
    BY <1>1, <1>2, <2>1, EntryWritten
  <2>3. CASE EndCall BY <2>2, <2>3, CallEnded
  <2>4. CASE call.op = "rename" /\ pc' = "delete" /\ UNCHANGED call
    <3> DEFINE c == call.old[1]
               s == call.old[2]
    <3>1. HasOld BY <1>1, <2>4 DEF HasOld
    <3>2. c \in InUse /\ s \in Slots /\ IsEntry(slots[c][s])
      BY <1>1, <1>2, <3>1, OldInCluster, TreeMeansDisk DEF OldEntrySound
    <3>3. slots'[c][s] = slots[c][s]
      <4>1. ~IsFree(slots[c][s]) BY <3>2, KindsFree DEF IsEntry
      <4> QED BY <2>2, <3>2, <4>1
    <3>4. NewEntrySound' BY <2>4 DEF NewEntrySound
    <3>5. OldEntrySound' BY <2>2, <2>4, <3>2, <3>3 DEF OldEntrySound
    <3> QED BY <2>2, <3>4, <3>5
  <2> QED BY <1>1, <2>3, <2>4
<1>3. IsTable(fat') /\ hint' \in Cluster BY <1>1, TreeMeansDisk
<1> QED BY <1>2, <1>3, TreeParts

\* The deletion of an entry, unless it is left naming a freed directory.
LEMMA EntryErased ==
  ASSUME TreeInv, ~tainted, pc = "delete", Written \/ Torn,
         Written \/ ~(call.op = "unlink" /\ call.dir), pc' # "extended",
         UNCHANGED <<fat, raw>>, cwd' \in {cwd, Root}
  PROVE  DiskSound'
<1> DEFINE T == call.old[1]
           s == call.old[2]
<1>1. Target = T /\ pc \in Writing /\ Content = WithoutEntry(slots[T], s)
  BY DEF Target, Content, Writing
<1>2. HasOld /\ T \in Cluster /\ s \in Slots
  BY OldInCluster, TreeMeansDisk DEF HasOld
<1>3. /\ \A c \in Cluster : c # T => slots'[c] = slots[c]
      /\ \A t \in Slots : slots'[T][t] = Content[t] \/ slots'[T][t] = slots[T][t]
      /\ Written => slots'[T] = Content
  BY <1>1, SlotsWritten, TreeMeansDisk
<1>4. \A t \in Slots : IF t = s THEN Content[t] = Deleted ELSE Content[t] = slots[T][t]
  <2>1. slots[T] = [t \in Slots |-> slots[T][t]]
    BY <1>2, ClusterShape, TreeMeansDisk DEF EndsInv
  <2> QED BY <1>1, <2>1 DEF WithoutEntry
<1>5. DiskSound /\ OldEntrySound BY TreeMeansDisk
<1>6. T \in InUse /\ IsEntry(slots[T][s]) BY <1>2, <1>5 DEF OldEntrySound
<1>7. \A t \in Slots : slots'[T][t] = slots[T][t] \/ (t = s /\ slots'[T][t] = Deleted)
  BY <1>3, <1>4
<1>8. 1 \in Slots BY SlotsFacts, SMT
<1>9. slots[T][1].kind = "short" /\ slots[T][1].name = "." => slots'[T][1] = slots[T][1]
  <2>1. slots[T][1].name = "." => s # 1 BY <1>6, Stored DEF IsEntry
  <2> QED BY <1>7, <1>8, <2>1
<1>10. slots'[T][1].name = "." => slots[T][1].name = "." BY <1>7, <1>8, SlotKinds
<1>11. \A t \in Slots : slots'[T][t] = slots[T][t] \/ slots'[T][t].kind # "short"
  BY <1>7, SlotKinds
<1>12. ASSUME NEW c \in InUse, NEW t \in Slots, BeingUnlinked(c, t)
       PROVE  ~IsDirEntry(slots'[c][t])
  <2>1. call.op = "unlink" /\ call.old = <<c, t>> BY <1>12 DEF BeingUnlinked
  <2>2. c = T /\ t = s BY <2>1
  <2>3. ~IsDirEntry(Deleted) BY SlotKinds, KindsFree DEF IsDirEntry
  <2>4. CASE Written
    <3>1. slots'[T][s] = Deleted BY <1>2, <1>3, <1>4, <2>4
    <3> QED BY <2>2, <2>3, <3>1
  <2>5. CASE ~call.dir
    <3>1. slots[T][s].dir = call.dir BY <1>5, <2>1 DEF OldEntrySound
    <3>2. ~IsDirEntry(slots[T][s]) BY <2>5, <3>1, Zenon DEF IsDirEntry
    <3> QED BY <1>7, <2>2, <2>3, <3>2
  <2> QED BY <2>1, <2>4, <2>5
<1> QED BY <1>3, <1>5, <1>6, <1>9, <1>10, <1>11, <1>12, pc # "extended", WriteInside

LEMMA TreeDeleteEntry ==
  ASSUME TreeInv, NamesInv', DeleteEntry PROVE TreeInv'
<1>1. /\ pc = "delete" /\ EndCall /\ UNCHANGED <<fat, hint, cwd, raw>> /\ (Written \/ Torn)
      /\ ~tainted' => ~tainted /\ (Written \/ ~(call.op = "unlink" /\ call.dir))
  <2>1. pc = "delete" /\ EndCall /\ UNCHANGED <<fat, hint, cwd, raw>> BY DEF DeleteEntry
  <2>2. CASE WriteWorks /\ tainted' = (tainted \/ MovedInside)
    BY <2>1, <2>2, Zenon DEF WriteWorks
  <2>3. CASE /\ WriteFails
             /\ tainted' = (tainted \/ MovedInside \/ (call.op = "unlink" /\ call.dir))
    BY <2>1, <2>3, Zenon DEF WriteFails
  <2> QED BY <2>2, <2>3, Zenon DEF DeleteEntry
<1>2. pc' # "extended" BY <1>1 DEF EndCall
<1>3. IsTable(fat') /\ hint' \in Cluster BY <1>1, TreeMeansDisk
<1> QED BY <1>1, <1>2, <1>3, CallEnded, EntryErased, TreeParts

\* A free cluster is taken: what there is stays.
LEMMA ClusterTaken ==
  ASSUME DiskSound, IsTable(fat), UNCHANGED <<slots, cwd>>, pc # "delete", pc # "extended",
         NEW e \in Cluster, fat[e] = FREE, fat'[e] = EndOfChain, raw' = raw \cup {e},
         \/ \A c \in FatIndex : c # e => fat'[c] = fat[c]
         \/ /\ pc' = "extended" /\ call'.at[1] = e
            /\ \E last \in Cluster : /\ fat[last] # FREE /\ fat[last] \notin Cluster
                                     /\ fat'[last] = e
                                     /\ \A c \in FatIndex : c # e /\ c # last => fat'[c] = fat[c]
  PROVE  /\ DiskSound' /\ InUse' = InUse /\ e \notin InUse
         /\ \A c : (Start(c) => Start(c)') /\ (Begun(c) => Begun(c)')
<1>1. Cluster \subseteq FatIndex /\ EndOfChain # FREE /\ EndOfChain \notin Cluster /\ FREE \notin Cluster
  BY TableNumbers
<1>2. NoLinkTo(fat, e)
  <2>1. \A c \in Cluster : fat[c] \in Cluster => fat[fat[c]] # FREE
    BY DEF DiskSound, LinksSound
  <2> QED BY <2>1 DEF NoLinkTo
<1>3. \A c \in Cluster : c # e => fat'[c] = fat[c] \/ (fat'[c] = e /\ fat[c] # FREE /\ fat[c] \notin Cluster)
  BY <1>1
<1>4. InUse' = InUse /\ e \notin InUse
  <2>1. \A c \in Cluster : c # e => (fat'[c] = FREE <=> fat[c] = FREE) BY <1>1, <1>3
  <2> QED BY <2>1 DEF InUse
<1>5. \A c \in InUse : NoLinkTo(fat, c) => NoLinkTo(fat', c)
  BY <1>1, <1>3, <1>4 DEF NoLinkTo, InUse
<1>6. \A c : (Start(c) => Start(c)') /\ (Begun(c) => Begun(c)')
  BY <1>4, <1>5, StartsKept
<1>7. LinksSound'
  <2>1. Unique(fat')
    <3> SUFFICES ASSUME NEW c \in Cluster, NEW d \in Cluster, fat'[c] = fat'[d], fat'[c] \in Cluster
                 PROVE  c = d
      BY DEF Unique
    <3>1. c # e /\ d # e BY <1>1
    <3>2. CASE fat'[c] = e
      <4>1. fat[c] # e /\ fat[d] # e BY <1>2 DEF NoLinkTo
      <4> QED BY <1>1, <3>1, <3>2, <4>1
    <3>3. CASE fat'[c] # e
      <4>1. fat'[c] = fat[c] /\ fat'[d] = fat[d] BY <1>3, <3>1, <3>3
      <4> QED BY <4>1 DEF DiskSound, LinksSound, Unique
    <3> QED BY <3>2, <3>3
  <2>2. ASSUME NEW c \in Cluster, fat'[c] \in Cluster PROVE fat'[fat'[c]] # FREE
    <3>1. c # e BY <1>1, <2>2
    <3>2. CASE fat'[c] = e BY <1>1, <3>2
    <3>3. CASE fat'[c] # e
      <4>1. fat'[c] = fat[c] BY <1>3, <3>1, <3>3
      <4>2. fat[fat'[c]] # FREE BY <2>2, <4>1 DEF DiskSound, LinksSound
      <4> QED BY <1>1, <1>3, <2>2, <4>2
    <3> QED BY <3>2, <3>3
  <2>3. ASSUME NEW c \in InUse', fat'[c] \in Cluster
        PROVE  fat'[c] \in InUse' \/ (pc' = "extended" /\ fat'[c] = call'.at[1])
    <3>1. c \in InUse /\ c \in Cluster /\ c # e BY <1>4 DEF InUse
    <3>2. CASE fat'[c] = fat[c]
      BY <1>4, <2>3, <3>1, <3>2 DEF DiskSound, LinksSound
    <3>3. CASE fat'[c] # fat[c]
      <4>1. fat'[c] = e BY <1>3, <3>1, <3>3
      <4>2. pc' = "extended" /\ call'.at[1] = e BY <1>1, <3>1, <3>3
      <4> QED BY <4>1, <4>2
    <3> QED BY <3>2, <3>3
  <2> QED BY <2>1, <2>2, <2>3 DEF LinksSound
<1>8. Rooted'
  <2>1. Start(Root)' BY <1>6 DEF DiskSound, Rooted
  <2>2. Start(cwd)' BY <1>6 DEF DiskSound, Rooted, Start
  <2> QED BY <2>1, <2>2 DEF DiskSound, Rooted
<1>9. NothingLeft' BY <1>4 DEF DiskSound, NothingLeft
<1>10. ASSUME NEW c \in InUse, NEW s \in Slots PROVE SlotSound(c, s)'
  <2>1. SlotSound(c, s) /\ ~BeingUnlinked(c, s) BY DEF DiskSound, SlotsSound, BeingUnlinked
  <2>2. Start(c) => Start(c)' BY <1>6
  <2>3. Begun(slots[c][s].first) => Begun(slots[c][s].first)' BY <1>6
  <2> QED BY <2>1, <2>2, <2>3 DEF SlotSound
<1>11. SlotsSound' BY <1>4, <1>10 DEF SlotsSound
<1> QED BY <1>4, <1>6, <1>7, <1>8, <1>9, <1>11 DEF DiskSound

\* A free cluster became a chain of its own, or the end of one.
OneMore ==
  \E e \in Cluster :
    /\ IsTable(fat') /\ fat[e] = FREE /\ fat'[e] = EndOfChain
    /\ \/ \A c \in FatIndex : c # e => fat'[c] = fat[c]
       \/ \E last \in Cluster : /\ fat[last] # FREE /\ fat[last] \notin Cluster
                                /\ fat'[last] = e
                                /\ \A c \in FatIndex : c # e /\ c # last => fat'[c] = fat[c]

LEMMA TreeMkdir ==
  ASSUME TreeInv, NamesInv', NEW d, Start(d), NEW n \in Names, CallMkdir(d, n)
  PROVE  /\ TreeInv'
         /\ ~tainted' => InUse' = InUse /\ OneMore /\ \A c : Start(c) => Start(c)'
<1> DEFINE new == Allocate(fat, hint, 1)
<1>1. /\ pc = "idle" /\ ~tainted /\ new.ok /\ hint' = new.hint
      /\ fat' = new.fat \/ (fat' = fat /\ tainted')
      /\ pc' = "clear" /\ UNCHANGED <<slots, cwd>>
  BY DEF CallMkdir, Ready
<1>2. PICK e \in Cluster :
        /\ e = new.first /\ raw' = raw \cup {e}
        /\ call' = [NoCall EXCEPT !.op = "mkdir", !.parent = d, !.name = n,
                                  !.dir = TRUE, !.first = e]
  BY Zenon DEF CallMkdir
<1>3. call'.op = "mkdir" /\ call'.parent = d /\ call'.first = e
  BY <1>2 DEF NoCall
<1>dir. call'.dir = TRUE BY <1>2 DEF NoCall
<1> HIDE DEF new
<1>4. DiskSound /\ IsTable(fat) /\ hint \in Cluster BY <1>1, TreeMeansDisk
<1>5. /\ fat[e] = FREE /\ new.fat[e] = EndOfChain
      /\ \A c \in FatIndex : c # e => new.fat[c] = fat[c]
      /\ IsTable(new.fat) /\ hint' \in Cluster
  BY <1>1, <1>2, <1>4, OneTaken DEF new
<1>6. IsTable(fat') BY <1>1, <1>4, <1>5
<1>7. ASSUME ~tainted'
      PROVE  /\ DiskSound' /\ NewEntrySound' /\ OldEntrySound'
             /\ InUse' = InUse /\ OneMore /\ \A c : Start(c) => Start(c)'
  <2>1. fat' = new.fat BY <1>1, <1>7
  <2>2. /\ DiskSound' /\ InUse' = InUse /\ e \notin InUse
        /\ \A c : (Start(c) => Start(c)') /\ (Begun(c) => Begun(c)')
    BY <1>1, <1>2, <1>4, <1>5, <2>1, ClusterTaken
  <2>3. NoLinkTo(fat', e)
    <3>1. NoLinkTo(fat, e)
      BY <1>4, <1>5 DEF DiskSound, LinksSound, NoLinkTo
    <3> QED BY <1>5, <2>1, <3>1, TableNumbers DEF NoLinkTo
  <2>4. NewEntrySound'
    <3>1. d \in InUse' /\ NoLinkTo(fat', d) BY <2>2 DEF Start
    <3> QED BY <1>1, <1>3, <1>dir, <1>5, <2>1, <2>3, <3>1 DEF NewEntrySound, Start, NoLinkTo
  <2>5. OldEntrySound' BY <1>1, <1>3 DEF OldEntrySound, HasOld
  <2>6. OneMore BY <1>5, <2>1 DEF OneMore
  <2> QED BY <2>2, <2>4, <2>5, <2>6
<1> QED BY <1>5, <1>6, <1>7, TreeParts

\* A directory grows by a cluster that was free.
LEMMA DirectoryExtended ==
  ASSUME TreeInv, PlaceBehind
  PROVE  /\ IsTable(fat') /\ hint' \in Cluster
         /\ call'.op = call.op /\ call'.old = call.old
         /\ call'.first = call.first /\ call'.dir = call.dir
         /\ \E e \in Cluster :
              /\ raw' = raw \cup {e} /\ call'.at = <<e, 1>>
              /\ fat[e] = FREE
              /\ ~tainted /\ ~tainted' =>
                   /\ fat'[e] = EndOfChain
                   /\ \/ EndOf(fat, call.parent) = 0 /\ \A c \in FatIndex : c # e => fat'[c] = fat[c]
                      \/ \E l \in Cluster :
                           /\ l = EndOf(fat, call.parent) /\ l \in OnChainIn(fat, call.parent)
                           /\ fat[l] # FREE /\ fat[l] \notin Cluster /\ fat'[l] = e
                           /\ \A c \in FatIndex : c # e /\ c # l => fat'[c] = fat[c]
<1> DEFINE one == Allocate(fat, hint, 1)
           last == EndOf(fat, call.parent)
<1>new. PICK new : /\ EntryInNew(new)
                   /\ new = Append1(fat, hint, call.parent) \/ (new = one /\ tainted')
  BY Zenon DEF PlaceBehind
<1>1. pc = "place" /\ new.ok /\ fat' = new.fat /\ hint' = new.hint
  BY <1>new, Zenon DEF PlaceBehind, EntryInNew
<1>2. PICK e \in Cluster :
        e = new.first /\ raw' = raw \cup {e} /\ call' = [call EXCEPT !.at = <<e, 1>>]
  BY <1>new, Zenon DEF EntryInNew
<1>3. /\ call'.at = <<e, 1>> /\ call'.op = call.op /\ call'.old = call.old
      /\ call'.first = call.first /\ call'.dir = call.dir
  <2>1. CallShape BY DEF TreeInv, NamesInv, EndsInv
  <2>2. call'.at = <<e, 1>> /\ call'.op = call.op /\ call'.old = call.old /\ call'.first = call.first
    BY <1>2, <2>1, CallPlaced
  <2>3. call'.dir = call.dir BY <1>2, <2>1 DEF CallShape
  <2> QED BY <2>2, <2>3
<1>4. IsTable(fat) /\ hint \in Cluster BY TreeMeansDisk
<1>5. \/ new = IF one.ok /\ last # 0 THEN [one EXCEPT !.fat[last] = one.first] ELSE one
      \/ new = one /\ tainted'
  BY <1>new, Zenon DEF Append1
<1> HIDE DEF one, last
<1>6. one = [ok |-> one.ok, first |-> one.first, fat |-> one.fat, hint |-> one.hint]
  BY DEF one, Allocate
<1>7. /\ new.ok = one.ok /\ new.first = one.first /\ new.hint = one.hint
      /\ \/ new.fat = IF one.ok /\ last # 0 THEN [one.fat EXCEPT ![last] = one.first] ELSE one.fat
         \/ new.fat = one.fat /\ tainted'
  BY <1>5, <1>6
<1>8. /\ e = one.first /\ fat[e] = FREE /\ one.fat[e] = EndOfChain
      /\ \A c \in FatIndex : c # e => one.fat[c] = fat[c]
      /\ IsTable(one.fat) /\ hint' \in Cluster
  BY <1>1, <1>2, <1>4, <1>7, OneTaken DEF one
<1>9. IsTable(fat') BY <1>1, <1>7, <1>8, TableNumbers DEF IsTable
<1>10. ASSUME ~tainted, ~tainted'
       PROVE  /\ fat'[e] = EndOfChain
              /\ \/ last = 0 /\ \A c \in FatIndex : c # e => fat'[c] = fat[c]
                 \/ \E l \in Cluster :
                      /\ l = last /\ l \in OnChainIn(fat, call.parent)
                      /\ fat[l] # FREE /\ fat[l] \notin Cluster /\ fat'[l] = e
                      /\ \A c \in FatIndex : c # e /\ c # l => fat'[c] = fat[c]
  <2>1. DiskSound /\ NewEntrySound /\ OldEntrySound BY <1>10, TreeMeansDisk
  <2>2. call.parent \in Entry
    BY <1>1, <2>1, TableNumbers DEF NewEntrySound, Start, InUse
  <2>3. /\ last \in Cluster \cup {0}
        /\ last # 0 => /\ fat[last] \notin Cluster /\ fat[last] # FREE
                       /\ last \in OnChainIn(fat, call.parent)
    BY <1>4, <2>2, EndOfFacts DEF last
  <2>4. last # e BY <1>8, <2>3, TableNumbers
  <2>5. e \in FatIndex /\ DOMAIN one.fat = FatIndex /\ Cluster \subseteq FatIndex
    BY <1>8, TableNumbers DEF IsTable
  <2>6. CASE last = 0
    <3>1. fat' = one.fat BY <1>1, <1>7, <2>6
    <3> QED BY <1>8, <2>6, <3>1
  <2>7. CASE last # 0
    <3>1. fat' = [one.fat EXCEPT ![last] = e] BY <1>1, <1>7, <1>8, <1>10, <2>7
    <3>2. last \in Cluster /\ fat'[last] = e BY <2>3, <2>5, <2>7, <3>1
    <3>3. \A c \in FatIndex : c # last => fat'[c] = one.fat[c] BY <2>5, <3>1
    <3> QED BY <1>8, <2>3, <2>4, <2>5, <2>7, <3>2, <3>3
  <2> QED BY <2>6, <2>7
<1> QED BY <1>2, <1>3, <1>8, <1>9, <1>10 DEF last

\* The new cluster of the directory was free.
LEMMA TreePlaceBehind ==
  ASSUME TreeInv, NamesInv', PlaceBehind
  PROVE  /\ TreeInv'
         /\ ~tainted' => InUse' = InUse /\ OneMore /\ \A c : Start(c) => Start(c)'
<1>1. pc = "place" /\ pc' = "extended" /\ UNCHANGED <<slots, cwd>> /\ (tainted => tainted')
  BY DEF PlaceBehind
<1>2. /\ IsTable(fat') /\ hint' \in Cluster
      /\ call'.op = call.op /\ call'.old = call.old /\ call'.first = call.first /\ call'.dir = call.dir
  BY DirectoryExtended
<1>3. PICK e \in Cluster :
        /\ raw' = raw \cup {e} /\ call'.at = <<e, 1>> /\ fat[e] = FREE
        /\ ~tainted /\ ~tainted' =>
             /\ fat'[e] = EndOfChain
             /\ \/ \A c \in FatIndex : c # e => fat'[c] = fat[c]
                \/ \E l \in Cluster : /\ fat[l] # FREE /\ fat[l] \notin Cluster /\ fat'[l] = e
                                      /\ \A c \in FatIndex : c # e /\ c # l => fat'[c] = fat[c]
  BY DirectoryExtended
<1>4. ASSUME ~tainted'
      PROVE  /\ DiskSound' /\ NewEntrySound' /\ OldEntrySound'
             /\ InUse' = InUse /\ OneMore /\ \A c : Start(c) => Start(c)'
  <2>1. DiskSound /\ NewEntrySound /\ OldEntrySound /\ IsTable(fat) BY <1>1, <1>4, TreeMeansDisk
  <2>2. /\ fat'[e] = EndOfChain
        /\ \/ \A c \in FatIndex : c # e => fat'[c] = fat[c]
           \/ \E l \in Cluster : /\ fat[l] # FREE /\ fat[l] \notin Cluster /\ fat'[l] = e
                                 /\ \A c \in FatIndex : c # e /\ c # l => fat'[c] = fat[c]
    BY <1>1, <1>3, <1>4
  <2>3. call'.at[1] = e BY <1>3
  <2>4. /\ DiskSound' /\ InUse' = InUse
        /\ \A c : (Start(c) => Start(c)') /\ (Begun(c) => Begun(c)')
    BY <1>1, <1>3, <2>1, <2>2, <2>3, ClusterTaken
  <2>5. \/ ~call'.dir /\ call'.first = None
        \/ /\ call'.dir /\ call'.first \in InUse' /\ NoLinkTo(fat', call'.first)
           /\ slots'[call'.first][1] = ShortSlot(".", TRUE, call'.first)
    <3>1. \/ ~call.dir /\ call.first = None
          \/ call.dir /\ Begun(call.first)
      BY <1>1, <2>1 DEF NewEntrySound
    <3>2. \A c : Begun(c) =>
            c \in InUse' /\ NoLinkTo(fat', c) /\ slots'[c][1] = ShortSlot(".", TRUE, c)
      BY <2>4 DEF Begun, Start
    <3> QED BY <1>2, <3>1, <3>2, Zenon
  <2>6. NewEntrySound'
    BY <1>1, <2>2, <2>3, <2>4, <2>5 DEF NewEntrySound, Begun, Start, NoLinkTo
  <2>7. OldEntrySound' BY <1>1, <1>2, <2>1, <2>4 DEF OldEntrySound, HasOld
  <2>8. OneMore BY <1>2, <1>3, <2>2 DEF OneMore
  <2> QED BY <2>4, <2>6, <2>7, <2>8
<1> QED BY <1>2, <1>4, TreeParts

\* The chain of a directory is freed that is empty, named once and not the current
\* one: entries name what they did.
LEMMA DirectoryFreed ==
  ASSUME DiskSound, IsTable(fat), pc = "idle", UNCHANGED <<slots, raw, cwd>>,
         NEW c \in InUse, NEW s \in Slots, IsDirEntry(slots[c][s]),
         NEW f, f = slots[c][s].first, Begun(f), ~InTheWay(f, c, s),
         fat' = Release(fat, f), BeingUnlinked(c, s)'
  PROVE  DiskSound' /\ c \in InUse' /\ \A x : Start(x) /\ x # f => Start(x)'
<1> DEFINE F == OnChainIn(fat, f)
<1>1. First(fat, f) /\ F \subseteq InUse /\ f \in F /\ F \subseteq Cluster /\ f \in Cluster
  <2>1. Start(f) /\ pc # "extended" BY DEF Begun
  <2> QED BY <2>1, DirChain DEF DiskSound, InUse
<1>2. \A x \in FatIndex : fat'[x] = IF x \in F THEN FREE ELSE fat[x]
  <2>1. f \in Entry BY <1>1, TableNumbers
  <2> DEFINE g == fat'
  <2>2. g = Release(fat, f) OBVIOUS
  <2> HIDE DEF g, F
  <2>3. \A x \in FatIndex : g[x] = IF x \in OnChainIn(fat, f) THEN FREE ELSE fat[x]
    BY <2>1, <2>2, ReleaseFacts
  <2> QED BY <2>3 DEF g, F
<1>3. Cluster \subseteq FatIndex /\ FREE \notin Cluster BY TableNumbers
<1>4. /\ f # cwd
      /\ \A x \in F, t \in Slots : ~IsEntry(slots[x][t])
      /\ \A x \in Cluster, t \in Slots :
           <<x, t>> # <<c, s>> /\ fat[x] # FREE /\ IsDirEntry(slots[x][t]) => slots[x][t].first # f
  BY Zenon DEF InTheWay
<1> HIDE DEF F
<1>5. InUse' = InUse \ F BY <1>1, <1>2, <1>3 DEF InUse
<1>6. c \in InUse' BY <1>4, <1>5 DEF IsDirEntry
<1>7. \A x \in F : x # f => ~NoLinkTo(fat, x) BY <1>1, NotOnChain DEF F
<1>8. ASSUME NEW x, Start(x), x # f PROVE Start(x)'
  <2>1. x \in InUse' BY <1>5, <1>7, <1>8 DEF Start
  <2>2. NoLinkTo(fat', x)
    <3>1. x \in Cluster /\ NoLinkTo(fat, x) BY <1>8 DEF Start, InUse
    <3> QED BY <1>2, <1>3, <3>1 DEF NoLinkTo
  <2> QED BY <2>1, <2>2 DEF Start
<1>9. \A x : Begun(x) /\ x # f => Begun(x)' BY <1>8 DEF Begun
<1>10. ASSUME NEW x \in Cluster, fat[x] \in F PROVE x \in F
  <2>1. fat[x] # f BY DEF Begun, Start, NoLinkTo
  <2>2. PICK i \in 1 .. Len(ChainIn(fat, f)) : fat[x] = ChainIn(fat, f)[i]
    BY <1>1, <1>10, OnChainFacts DEF F
  <2>3. Path(fat, ChainIn(fat, f)) /\ ChainIn(fat, f)[1] = f BY <1>1, ChainOfFirst DEF Whole
  <2>4. i - 1 \in 1 .. Len(ChainIn(fat, f)) /\ fat[ChainIn(fat, f)[i - 1]] = fat[x]
    <3>1. i # 1 BY <2>1, <2>2, <2>3
    <3>2. Len(ChainIn(fat, f)) \in Nat BY <2>3, PathFacts
    <3>3. i > 1 BY <3>1, <3>2, SMT
    <3>4. i - 1 \in 1 .. Len(ChainIn(fat, f)) BY <3>2, <3>3, SMT
    <3> QED BY <2>2, <2>3, <3>3, <3>4, PathFacts
  <2>5. ChainIn(fat, f)[i - 1] \in F BY <1>1, <2>4, OnChainFacts DEF F
  <2>6. x = ChainIn(fat, f)[i - 1]
    BY <1>1, <1>10, <2>4, <2>5 DEF DiskSound, LinksSound, Unique
  <2> QED BY <2>5, <2>6
<1>11. LinksSound'
  <2>1. \A x \in Cluster : fat'[x] \in Cluster => x \notin F /\ fat'[x] = fat[x] /\ fat[x] \notin F
    BY <1>2, <1>3, <1>10
  <2>2. Unique(fat') BY <2>1 DEF DiskSound, LinksSound, Unique
  <2>3. \A x \in Cluster : fat'[x] \in Cluster => fat'[fat'[x]] # FREE
    BY <1>2, <1>3, <2>1 DEF DiskSound, LinksSound
  <2>4. \A x \in InUse' : fat'[x] \in Cluster => fat'[x] \in InUse'
    <3> SUFFICES ASSUME NEW x \in InUse', fat'[x] \in Cluster PROVE fat'[x] \in InUse'
      OBVIOUS
    <3>1. x \in InUse /\ x \in Cluster BY <1>5 DEF InUse
    <3>2. fat'[x] = fat[x] /\ fat[x] \notin F /\ fat[x] \in Cluster BY <2>1, <3>1
    <3>3. fat[x] \in InUse BY <3>1, <3>2 DEF DiskSound, LinksSound
    <3> QED BY <1>5, <3>2, <3>3
  <2> QED BY <2>2, <2>3, <2>4 DEF LinksSound
<1>12. Rooted'
  <2>1. f # Root
    <3>1. slots[f][1].name = "." BY DEF Begun, ShortSlot, EndMark
    <3> QED BY <3>1 DEF DiskSound, Rooted
  <2>2. Start(Root)' BY <1>8, <2>1 DEF DiskSound, Rooted
  <2>3. Start(cwd)'
    <3>1. Start(cwd) BY DEF DiskSound, Rooted
    <3>2. cwd \in InUse' /\ NoLinkTo(fat', cwd) BY <1>4, <1>8, <3>1 DEF Start
    <3> QED BY <3>2 DEF Start
  <2> QED BY <2>2, <2>3 DEF DiskSound, Rooted
<1>13. NothingLeft' BY <1>4, <1>5 DEF DiskSound, NothingLeft
<1>14. ASSUME NEW x \in InUse', NEW t \in Slots PROVE SlotSound(x, t)'
  <2>1. x \in InUse /\ x \in Cluster /\ fat[x] # FREE /\ x \notin F BY <1>5 DEF InUse
  <2>2. SlotSound(x, t) /\ ~BeingUnlinked(x, t)
    BY <2>1 DEF DiskSound, SlotsSound, BeingUnlinked
  <2>3. Start(x) => Start(x)' BY <1>1, <1>8, <2>1
  <2>4. <<x, t>> = <<c, s>> => BeingUnlinked(x, t)' OBVIOUS
  <2>5. /\ <<x, t>> # <<c, s>> /\ IsDirEntry(slots[x][t]) /\ Begun(slots[x][t].first)
        => Begun(slots[x][t].first)'
    BY <1>4, <1>9, <2>1
  <2> QED BY <2>2, <2>3, <2>4, <2>5 DEF SlotSound
<1>15. SlotsSound' BY <1>14 DEF SlotsSound
<1> QED BY <1>6, <1>8, <1>11, <1>12, <1>13, <1>15 DEF DiskSound

\* The chain of one directory, not that of the pass, was freed, or none was.
OneLess ==
  \/ UNCHANGED fat /\ pass' \in {pass, NoPass} /\ \A x : Start(x) => Start(x)'
  \/ \E f : /\ Start(f) /\ fat' = Release(fat, f)
            /\ pass' = NoPass \/ (pass' = pass /\ pass.dir # f)
            /\ \A x : Start(x) /\ x # f => Start(x)'

LEMMA TreeUnlink ==
  ASSUME TreeInv, NamesInv', NEW d, Start(d), NEW n \in Names, CallUnlink(d, n)
  PROVE  TreeInv' /\ (~tainted' => OneLess)
<1>1. /\ pc = "idle" /\ ~tainted /\ UNCHANGED <<hint, slots, cwd, raw>> /\ pc' = "delete"
  BY DEF CallUnlink, Ready
<1>2. PICK sl \in Looks(d), c \in Cluster, s \in Slots :
        /\ Finds(sl, d, n, c, s)
        /\ call' = [NoCall EXCEPT !.op = "unlink", !.dir = sl[c][s].dir,
                       !.first = sl[c][s].first, !.old = <<c, s>>]
        /\ fat' = IF sl[c][s].first = None THEN fat ELSE Release(fat, sl[c][s].first)
        /\ pass' = IF sl[c][s].dir /\ sl[c][s].first = pass.dir THEN NoPass ELSE pass
        /\ tainted' = (tainted \/ sl # slots
                        \/ (sl[c][s].dir /\ InTheWay(sl[c][s].first, c, s)))
  BY Zenon DEF CallUnlink
<1>3. call'.op = "unlink" /\ call'.dir = sl[c][s].dir /\ call'.old = <<c, s>>
  BY <1>2 DEF NoCall
<1>4. ~tainted' => sl = slots /\ (slots[c][s].dir => ~InTheWay(slots[c][s].first, c, s))
  <2>1. ~tainted' => sl = slots BY <1>2, Zenon
  <2>2. ~tainted' => (sl[c][s].dir => ~InTheWay(sl[c][s].first, c, s)) BY <1>2, Zenon
  <2> QED BY <2>1, <2>2, Zenon
<1>5. IsTable(fat') /\ hint' \in Cluster
  <2>1. IsTable(fat) /\ hint \in Cluster BY TreeMeansDisk
  <2>2. \A x : IsTable(Release(fat, x)) BY <2>1, TableNumbers DEF IsTable, Release
  <2> QED BY <1>1, <1>2, <2>1, <2>2
<1>6. ASSUME ~tainted' PROVE DiskSound' /\ NewEntrySound' /\ OldEntrySound' /\ OneLess
  <2>1. DiskSound /\ TreeSoundness /\ IsTable(fat) BY <1>1, TreeMeansDisk
  <2>2. c \in InUse /\ IsEntry(slots[c][s])
    BY <1>1, <1>2, <1>4, <1>6, <2>1, FoundEntry
  <2>3. NewEntrySound' BY <1>1 DEF NewEntrySound
  <2>4. SlotSound(c, s) /\ ~BeingUnlinked(c, s)
    BY <1>1, <2>1, <2>2 DEF DiskSound, SlotsSound, BeingUnlinked
  <2>5. slots[c][s].kind = "short" /\ slots[c][s].name # "." /\ slots[c][s].name # ".."
    BY <2>2, Stored DEF IsEntry
  <2>6. \/ ~slots[c][s].dir /\ slots[c][s].first = None
        \/ slots[c][s].dir /\ Begun(slots[c][s].first)
    BY <2>4, <2>5 DEF SlotSound, IsDirEntry
  <2>7. call'.dir = slots[c][s].dir /\ call'.old[1] = c /\ call'.old[2] = s
    <3>1. call'.dir = slots[c][s].dir BY <1>3, <1>4, <1>6, Zenon
    <3>2. call'.old[1] = c /\ call'.old[2] = s BY <1>3
    <3> QED BY <3>1, <3>2
  <2>8. DiskSound' /\ c \in InUse' /\ OneLess
    <3>1. CASE ~slots[c][s].dir /\ slots[c][s].first = None
      <4>1. UNCHANGED fat BY <1>2, <1>4, <1>6, <3>1
      <4>2. InUse' = InUse BY <1>1, <4>1 DEF InUse
      <4>3. LinksSound' /\ SlotsSound' /\ NothingLeft'
        BY <1>1, <2>1, <4>1, DiskQuiet DEF TreeSoundness
      <4>4. Rooted' BY <1>1, <2>1, <4>1, <4>2 DEF DiskSound, Rooted, Start, NoLinkTo
      <4>5. pass' \in {pass, NoPass} BY <1>2, Zenon
      <4>6. OneLess BY <1>1, <4>1, <4>2, <4>5 DEF OneLess, Start
      <4> QED BY <2>2, <4>2, <4>3, <4>4, <4>6 DEF DiskSound
    <3>2. CASE slots[c][s].dir /\ Begun(slots[c][s].first)
      <4> DEFINE f == slots[c][s].first
      <4>1. f # None BY <3>2, TableNumbers DEF Begun, Start, InUse, None
      <4>2. fat' = Release(fat, f) BY <1>2, <1>4, <1>6, <4>1
      <4>3. ~InTheWay(f, c, s) BY <1>4, <1>6, <3>2
      <4>4. IsDirEntry(slots[c][s]) BY <2>2, <3>2 DEF IsDirEntry
      <4>5. BeingUnlinked(c, s)' BY <1>1, <1>3 DEF BeingUnlinked
      <4>6. pass' = NoPass \/ (pass' = pass /\ pass.dir # f)
        <5>1. sl[c][s].dir /\ sl[c][s].first = f BY <1>4, <1>6, <3>2, Zenon
        <5> QED BY <1>2, <5>1, Zenon
      <4> HIDE DEF f
      <4>7. Begun(f) /\ f = slots[c][s].first BY <3>2 DEF f
      <4>8. DiskSound' /\ c \in InUse' /\ \A x : Start(x) /\ x # f => Start(x)'
        BY <1>1, <2>1, <2>2, <4>2, <4>3, <4>4, <4>5, <4>7, DirectoryFreed
      <4>9. OneLess BY <4>2, <4>6, <4>7, <4>8 DEF OneLess, Begun
      <4> QED BY <4>8, <4>9
    <3> QED BY <2>6, <3>1, <3>2
  <2>9. OldEntrySound'
    <3>1. IsEntry(slots'[c][s]) /\ slots'[c][s].dir = call'.dir BY <1>1, <2>2, <2>7, Zenon
    <3>2. slots'[c][s].first \in Entry
      BY <1>1, <2>6, TableNumbers DEF Begun, Start, InUse, None
    <3> QED BY <2>7, <2>8, <3>1, <3>2 DEF OldEntrySound
  <2> QED BY <2>3, <2>8, <2>9
<1> QED BY <1>5, <1>6, TreeParts

LEMMA TreeCrash ==
  ASSUME TreeInv, NamesInv', Crash PROVE TreeInv'
<1>1. /\ EndCall /\ UNCHANGED <<fat, raw>> /\ hint' = 2 /\ cwd' = Root
      /\ UNCHANGED slots \/ (pc \in Writing /\ Torn)
      /\ ~tainted' => ~tainted /\ pc # "extended"
      /\ ~tainted' => ~(pc = "delete" /\ call.op = "unlink" /\ call.dir)
  <2>1. /\ EndCall /\ UNCHANGED <<fat, raw>> /\ hint' = 2 /\ cwd' = Root
        /\ UNCHANGED slots \/ (pc \in Writing /\ Torn)
    BY DEF Crash, Reboot
  <2>2. tainted' = (tainted \/ pc = "extended"
                     \/ (pc = "delete" /\ (MovedInside \/ (call.op = "unlink" /\ call.dir))))
    BY Zenon DEF Crash
  <2> QED BY <2>1, <2>2, Zenon
<1>2. NewEntrySound' /\ OldEntrySound' /\ pc' # "extended"
  BY <1>1, CallEnded DEF EndCall
<1>3. ASSUME ~tainted' PROVE DiskSound'
  <2>1. DiskSound /\ TreeSoundness BY <1>1, <1>3, TreeMeansDisk
  <2>2. CASE UNCHANGED slots
    <3>1. LinksSound' /\ SlotsSound' /\ NothingLeft' /\ InUse' = InUse
      BY <1>1, <1>3, <2>1, <2>2, DiskQuiet DEF TreeSoundness
    <3>2. Rooted' BY <1>1, <2>1, <2>2, <3>1 DEF DiskSound, Rooted, Start, NoLinkTo
    <3> QED BY <3>1, <3>2 DEF DiskSound
  <2>3. CASE pc \in {"clear", "init"} /\ Torn BY <1>1, <1>3, <2>3, WrittenBefore
  <2>4. CASE pc = "entry" /\ Torn BY <1>1, <1>2, <1>3, <2>4, EntryWritten
  <2>5. CASE pc = "delete" /\ Torn BY <1>1, <1>2, <1>3, <2>5, EntryErased
  <2> QED BY <1>1, <1>3, <2>2, <2>3, <2>4, <2>5 DEF Writing
<1>4. IsTable(fat') /\ hint' \in Cluster
  <2>1. 2 \in Cluster BY TotalClustersAssumption, SMT DEF Cluster
  <2> QED BY <1>1, <2>1, TreeMeansDisk
<1> QED BY <1>2, <1>3, <1>4, TreeParts

-----------------------------------------------------------------------------
(* The tree.                                                               *)

LEMMA TreeStep == TreeInv /\ [Next]_dirVars => TreeInv'
<1> SUFFICES ASSUME TreeInv, [Next]_dirVars PROVE TreeInv'
  OBVIOUS
<1>1. NamesInv' BY NamesStep, TreeMeansSound DEF TreeInv
<1>2. CASE CallStarts
  <2>1. PICK d \in Directories :
          \/ \E n \in Names : CallMkdir(d, n) \/ CallOpen(d, n) \/ CallUnlink(d, n) \/ CallRename(d, n)
          \/ OpenDir(d)
    BY <1>2 DEF CallStarts
  <2>2. pc = "idle" BY <1>2 DEF CallStarts
  <2>3. CASE \E n \in Names : CallMkdir(d, n) \/ CallOpen(d, n) \/ CallUnlink(d, n) \/ CallRename(d, n)
    <3>1. PICK n \in Names : CallMkdir(d, n) \/ CallOpen(d, n) \/ CallUnlink(d, n) \/ CallRename(d, n)
      BY <2>3, Zenon
    <3>2. ~tainted BY <3>1 DEF CallMkdir, CallOpen, CallUnlink, CallRename, Ready
    <3>3. Start(d) BY <2>2, <3>2, DirectoriesStart DEF TreeInv
    <3> QED BY <1>1, <3>1, <3>3, TreeMkdir, TreeOpen, TreeUnlink, TreeRename
  <2>4. CASE OpenDir(d)
    <3>1. UNCHANGED <<fat, hint, slots, raw, pc, call, tainted, cwd>> BY <2>4 DEF OpenDir
    <3>2. ~tainted => Start(cwd') BY <3>1 DEF TreeInv, TreeSoundness, Rooted
    <3> QED BY <1>1, <3>1, <3>2, TreeStays
  <2> QED BY <2>1, <2>3, <2>4
<1>3. CASE ReadStops \/ ReadEnds \/ ReadFails \/ CloseDir \/ UNCHANGED dirVars
  <2>1. UNCHANGED <<fat, hint, slots, raw, pc, call, tainted, cwd>>
    <3>1. CASE ReadStops BY <3>1, Zenon DEF ReadStops
    <3>2. CASE ReadEnds BY <3>2 DEF ReadEnds
    <3>3. CASE ReadFails BY <3>3, Zenon DEF ReadFails
    <3>4. CASE CloseDir BY <3>4 DEF CloseDir
    <3>5. CASE UNCHANGED dirVars BY <3>5 DEF dirVars
    <3> QED BY <1>3, <3>1, <3>2, <3>3, <3>4, <3>5
  <2>2. ~tainted => Start(cwd') BY <2>1 DEF TreeInv, TreeSoundness, Rooted
  <2> QED BY <1>1, <2>1, <2>2, TreeStays
<1>4. CASE ClearNew BY <1>1, <1>4, TreeClearNew
<1>5. CASE InitNew BY <1>1, <1>5, TreeInitNew
<1>6. CASE PlaceInside BY <1>1, <1>6, TreePlaceInside
<1>7. CASE PlaceBehind BY <1>1, <1>7, TreePlaceBehind
<1>8. CASE PlaceFails BY <1>1, <1>8, TreePlaceFails
<1>9. CASE ClearExtension BY <1>1, <1>9, TreeClearExtension
<1>10. CASE WriteEntry BY <1>1, <1>10, TreeWriteEntry
<1>11. CASE CheckTarget BY <1>1, <1>11, TreeCheck
<1>12. CASE DeleteEntry BY <1>1, <1>12, TreeDeleteEntry
<1>13. CASE ChangeDir BY <1>1, <1>13, TreeChangeDir
<1>14. CASE Restart BY <1>1, <1>14, TreeRestart
<1>15. CASE Crash BY <1>1, <1>15, TreeCrash
<1> QED
  BY <1>2, <1>3, <1>4, <1>5, <1>6, <1>7, <1>8, <1>9, <1>10, <1>11, <1>12, <1>13, <1>14, <1>15
     DEF Next

LEMMA TreeInit == Init => TreeInv
<1> SUFFICES ASSUME Init PROVE TreeInv
  OBVIOUS
<1>1. NamesInv BY NamesInit
<1>2. 2 \in Cluster /\ hint \in Cluster
  BY TotalClustersAssumption, SMT DEF Cluster, Init
<1>3. /\ \A c \in Cluster : fat[c] = IF c = 2 THEN EndOfChain ELSE FREE
      /\ IsTable(fat)
  <2>1. fat = [c \in FatIndex |-> IF c = 0 THEN MediaEntry ELSE IF c <= 2 THEN EndOfChain ELSE FREE]
    BY DEF Init, EmptyFat
  <2>2. \A c \in Cluster : c \in FatIndex /\ c # 0 /\ (c <= 2 <=> c = 2)
    BY TotalClustersAssumption, SMT DEF Cluster, FatIndex
  <2>3. MediaEntry \in Entry /\ EndOfChain \in Entry /\ FREE \in Entry
    BY TableNumbers DEF Entry
  <2> QED BY <2>1, <2>2, <2>3 DEF IsTable
<1>4. InUse = {2}
  <2>1. EndOfChain # FREE /\ raw = {} BY TableNumbers DEF Init
  <2> QED BY <1>2, <1>3, <2>1 DEF InUse
<1>5. \A c \in Cluster : fat[c] \notin Cluster BY <1>3, TableNumbers
<1>6. \A c \in Cluster, s \in Slots : slots[c][s] = EndMark BY DEF Init, EmptyCluster
<1>7. 1 \in Slots BY SlotsFacts, SMT
<1>8. LinksSound BY <1>4, <1>5, <1>2 DEF LinksSound, Unique
<1>9. Rooted
  <2>1. Start(2) BY <1>2, <1>4, <1>5 DEF Start, NoLinkTo
  <2>2. slots[2][1].name # "." BY <1>2, <1>6, <1>7, SlotKinds
  <2> QED BY <2>1, <2>2 DEF Rooted, Init, Root
<1>10. SlotsSound BY <1>2, <1>4, <1>6, SlotKinds DEF SlotsSound, SlotSound
<1>11. NothingLeft BY <1>6, SlotKinds, KindsFree DEF NothingLeft
<1>12. NewEntrySound BY DEF Init, NewEntrySound
<1>13. OldEntrySound BY DEF Init, OldEntrySound, HasOld, NoCall
<1> QED BY <1>1, <1>2, <1>3, <1>8, <1>9, <1>10, <1>11, <1>12, <1>13 DEF TreeInv, TreeSoundness

LEMMA TreeAlways == DirSpec => []TreeInv
BY TreeInit, TreeStep, PTL DEF DirSpec

\* Between calls all directories that paths lead to lie in allocated clusters that
\* were cleared or initialised.
THEOREM DirectoriesSoundAlways == DirSpec => []DirectoriesSound
BY TreeAlways, TreeMeansSound, PTL

\* An entry of a directory names an allocated cluster that begins with the "." of
\* this directory, at every moment of every call and after every crash.
THEOREM EntriesSoundAlways == DirSpec => []EntriesSound
<1>1. TreeInv => EntriesSound
  <2> SUFFICES ASSUME TreeInv, ~tainted, NEW c \in InUse, NEW s \in Slots,
                      IsDirEntry(slots[c][s]), ~BeingUnlinked(c, s)
               PROVE  Begun(slots[c][s].first)
    BY DEF EntriesSound, Begun, Start
  <2>1. SlotSound(c, s) BY TreeMeansDisk DEF DiskSound, SlotsSound
  <2> QED BY <2>1, Stored DEF SlotSound, IsDirEntry, IsEntry
<1> QED BY <1>1, TreeAlways, PTL

\* fat32_find_file never says that an entry does not exist that is there.
THEOREM EntriesFoundAlways == DirSpec => []EntriesFound
<1>1. TreeInv => EntriesFound
  <2> SUFFICES ASSUME TreeInv, ~tainted, NEW d \in Named \cup {Root},
                      NEW p \in Places(Walk(d)), IsEntry(At(slots, Walk(d), p))
               PROVE  FileMatches(slots, Walk(d), At(slots, Walk(d), p).name) # {}
    BY Zenon DEF EntriesFound
  <2> DEFINE ch == Walk(d)
             c == ch[p[1]]
             n == slots[c][p[2]].name
  <2>1. DiskSound /\ OldEntrySound /\ IsTable(fat) /\ ClustersEnd
    BY TreeMeansDisk DEF EndsInv
  <2>2. d \in Entry
    <3>1. Cluster \subseteq Entry /\ Cluster \subseteq FatIndex BY TableNumbers
    <3>2. CASE d = Root BY <2>1, <3>1, <3>2 DEF DiskSound, Rooted, Start, InUse
    <3>3. CASE d \in Named
      <4>1. PICK x \in InUse, t \in Slots : IsDirEntry(slots[x][t]) /\ d = slots[x][t].first
        BY <3>3 DEF Named
      <4>2. SlotSound(x, t) /\ slots[x][t].name # "." /\ slots[x][t].name # ".."
        BY <2>1, <4>1, Stored DEF DiskSound, SlotsSound, IsDirEntry, IsEntry
      <4>3. CASE BeingUnlinked(x, t)
        <5>1. call.old[1] = x /\ call.old[2] = t /\ pc = "delete" /\ call.op = "unlink"
          BY <4>3 DEF BeingUnlinked
        <5> QED BY <2>1, <4>1, <5>1 DEF OldEntrySound
      <4>4. CASE Begun(d) BY <3>1, <4>4 DEF Begun, Start, InUse
      <4> QED BY <4>1, <4>2, <4>3, <4>4 DEF SlotSound, IsDirEntry, IsEntry
    <3> QED BY <3>2, <3>3
  <2>3. ch \in Seq(Cluster) BY <2>1, <2>2, ChainType DEF Walk
  <2>4. p[1] \in DOMAIN ch /\ p[2] \in Slots BY DEF Places
  <2>5. c \in Cluster BY <2>3, <2>4
  <2>6. At(slots, ch, p) = slots[c][p[2]] BY DEF At
  <2>7. c \notin raw BY <2>1, <2>4, <2>5, <2>6 DEF DiskSound, NothingLeft, InUse
  <2>8. EndsLast(slots[c]) BY <2>1, <2>5, <2>7 DEF ClustersEnd
  <2>9. ASSUME NEW s \in Slots, s <= p[2] PROVE slots[c][s].kind # "end"
    <3>1. slots[c][p[2]].kind = "short" /\ ~IsFree(slots[c][p[2]])
      BY <2>6, KindsFree DEF IsEntry
    <3>2. s = p[2] \/ s < p[2] BY <2>4, <2>9, SlotsFacts, SMT
    <3> QED BY <2>4, <2>8, <3>1, <3>2 DEF EndsLast
  <2>10. p \in Searched(slots, ch)
    <3>1. \A s \in Slots : At(slots, ch, <<p[1], s>>) = slots[c][s] BY DEF At
    <3> QED BY <2>9, <3>1 DEF Searched
  <2>11. Stored83(slots[c][p[2]]) = Format83(n) /\ slots[c][p[2]].kind = "short"
    BY <2>6 DEF Stored83, Format83, IsEntry
  <2> QED BY <2>6, <2>10, <2>11 DEF FileMatches
<1> QED BY <1>1, TreeAlways, PTL

\* The pieces of a long name stay in front of its short entry: no creation, deletion
\* or rename of another name takes one of them, in whatever order they come, and
\* whichever writes fail or are torn.
THEOREM LongNamesAlways == DirSpec => []LongNamesWhole
<1>1. TreeInv => LongNamesWhole BY NamesMean DEF TreeInv, NamesInv
<1> QED BY <1>1, TreeAlways, PTL

-----------------------------------------------------------------------------
(* The last entry of a directory.                                          *)

\* f_rename deletes the entry that it found, and only after the new one was
\* written somewhere else and names the same.
RenameSound ==
  ~tainted =>
    /\ pc = "delete" => call.op \in {"rename", "unlink"}
    /\ call.op = "rename" /\ HasOld =>
         /\ slots[call.old[1]][call.old[2]].dir = call.dir
         /\ slots[call.old[1]][call.old[2]].first = call.first
    /\ pc = "delete" /\ call.op = "rename" =>
         /\ NewPlace[1] \in InUse /\ NewPlace[2] \in Slots
         /\ ~(NewPlace[1] = call.old[1] /\ NewPlace[2] = call.old[2])
         /\ IsEntry(slots[NewPlace[1]][NewPlace[2]])
         /\ slots[NewPlace[1]][NewPlace[2]].dir = call.dir
         /\ slots[NewPlace[1]][NewPlace[2]].first = call.first

StayInv == TreeInv /\ RenameSound

LEMMA RenameEnded == EndCall => RenameSound'
BY DEF EndCall, RenameSound, HasOld, NoCall

\* The slots that are in use stay, but for the one that is deleted.
LEMMA SlotsStay ==
  ASSUME TreeInv, ~tainted, ~tainted', [Next]_dirVars, call'.op # "unlink"
  PROVE  /\ InUse \subseteq InUse'
         /\ \A c \in InUse, s \in Slots :
              ~IsFree(slots[c][s]) /\ ~(pc = "delete" /\ c = call.old[1] /\ s = call.old[2])
              => slots'[c][s] = slots[c][s]
<1> DEFINE Stay ==
      /\ InUse \subseteq InUse'
      /\ \A c \in InUse, s \in Slots :
           ~IsFree(slots[c][s]) /\ ~(pc = "delete" /\ c = call.old[1] /\ s = call.old[2])
           => slots'[c][s] = slots[c][s]
<1> SUFFICES Stay
  OBVIOUS
<1>1. DiskSound /\ EndsInv /\ NamesInv' BY TreeMeansDisk, NamesStep, TreeMeansSound DEF TreeInv
<1>2. ASSUME UNCHANGED <<fat, slots, raw>> PROVE Stay BY <1>2 DEF InUse
<1>3. ASSUME pc \in Writing, Written \/ Torn, UNCHANGED fat,
             raw' = raw \/ (raw' = raw \ {Target} /\ pc \in {"init", "extended"}),
             pc' # "extended", cwd' \in {cwd, Root}
      PROVE  Stay
  <2>1. /\ Target \in Cluster
        /\ \A c \in Cluster : c # Target => slots'[c] = slots[c]
        /\ \A t \in Slots : slots'[Target][t] = Content[t] \/ slots'[Target][t] = slots[Target][t]
    BY <1>1, <1>3, SlotsWritten
  <2>2. InUse \subseteq InUse' BY <1>3 DEF InUse
  <2>3. CASE pc \in {"clear", "init", "extended"}
    <3>1. Target \in raw BY <1>1, <2>3 DEF Target, EndsInv, NewClusterRaw
    <3> QED BY <2>1, <2>2, <3>1 DEF InUse
  <2>4. CASE pc = "entry"
    <3>1. raw' = raw BY <1>3, <2>4
    <3> QED BY <1>3, <2>2, <2>4, <3>1, EntryWritten
  <2>5. CASE pc = "delete"
    <3>1. Target = call.old[1] /\ Content = WithoutEntry(slots[Target], call.old[2])
      BY <2>5 DEF Target, Content
    <3>2. slots[Target] = [t \in Slots |-> slots[Target][t]]
      BY <1>1, <2>1, ClusterShape DEF EndsInv
    <3>3. \A t \in Slots : t # call.old[2] => Content[t] = slots[Target][t]
      BY <3>1, <3>2 DEF WithoutEntry
    <3> QED BY <2>1, <2>2, <2>5, <3>1, <3>3 DEF InUse
  <2> QED BY <1>3, <2>3, <2>4, <2>5 DEF Writing
<1> HIDE DEF Stay
<1>4. CASE CallStarts
  <2>1. PICK d \in Directories :
          \/ \E n \in Names : CallMkdir(d, n) \/ CallOpen(d, n) \/ CallUnlink(d, n) \/ CallRename(d, n)
          \/ OpenDir(d)
    BY <1>4 DEF CallStarts
  <2>2. CASE \E n \in Names : CallMkdir(d, n)
    <3>1. PICK n \in Names : CallMkdir(d, n) BY <2>2
    <3>2. pc = "idle" /\ UNCHANGED slots BY <3>1 DEF CallMkdir, Ready
    <3>3. Start(d) BY <3>2, DirectoriesStart DEF TreeInv
    <3>4. InUse' = InUse BY <1>1, <3>1, <3>3, TreeMkdir
    <3> QED BY <3>2, <3>4 DEF Stay
  <2>3. CASE \E n \in Names : CallOpen(d, n) \/ CallRename(d, n)
    <3>1. PICK n \in Names : CallOpen(d, n) \/ CallRename(d, n) BY <2>3
    <3>2. UNCHANGED <<fat, slots, raw>>
      <4>1. CASE CallOpen(d, n) BY <4>1 DEF CallOpen
      <4>2. CASE CallRename(d, n) BY <4>2, Zenon DEF CallRename
      <4> QED BY <3>1, <4>1, <4>2
    <3> QED BY <1>2, <3>2
  <2>4. CASE \E n \in Names : CallUnlink(d, n)
    <3>1. PICK n \in Names : CallUnlink(d, n) BY <2>4
    <3>2. PICK sl \in Looks(d), c \in Cluster, s \in Slots :
            /\ Finds(sl, d, n, c, s)
            /\ call' = [NoCall EXCEPT !.op = "unlink", !.dir = sl[c][s].dir,
                           !.first = sl[c][s].first, !.old = <<c, s>>]
      BY <3>1, Zenon DEF CallUnlink
    <3>3. call'.op = "unlink" BY <3>2 DEF NoCall
    <3> QED BY <3>3
  <2>5. CASE OpenDir(d) BY <1>2, <2>5 DEF OpenDir
  <2> QED BY <2>1, <2>2, <2>3, <2>4, <2>5
<1>5. CASE ClearNew \/ InitNew \/ ClearExtension \/ WriteEntry \/ DeleteEntry
  <2>1. /\ pc \in Writing /\ (Written \/ Torn) /\ UNCHANGED <<fat, cwd>>
        /\ raw' = raw \/ (raw' = raw \ {Target} /\ pc \in {"init", "extended"})
        /\ pc' # "extended"
    <3>1. CASE ClearNew BY <3>1 DEF ClearNew, WriteWorks, WriteFails, Writing
    <3>2. CASE InitNew BY <3>2 DEF InitNew, WriteWorks, WriteFails, Writing, Target, EndCall
    <3>3. CASE ClearExtension BY <3>3 DEF ClearExtension, WriteWorks, WriteFails, Writing, Target
    <3>4. CASE WriteEntry BY <3>4 DEF WriteEntry, WriteWorks, WriteFails, Writing, EndCall
    <3>5. CASE DeleteEntry
      <4>1. pc = "delete" /\ EndCall /\ UNCHANGED <<fat, cwd, raw>> BY <3>5 DEF DeleteEntry
      <4>2. WriteWorks \/ WriteFails BY <3>5, Zenon DEF DeleteEntry
      <4> QED BY <4>1, <4>2 DEF WriteWorks, WriteFails, Writing, EndCall
    <3> QED BY <1>5, <3>1, <3>2, <3>3, <3>4, <3>5
  <2> QED BY <1>3, <2>1
<1>6. CASE PlaceBehind
  <2>1. UNCHANGED slots BY <1>6 DEF PlaceBehind
  <2>2. InUse' = InUse BY <1>1, <1>6, TreePlaceBehind
  <2> QED BY <2>1, <2>2 DEF Stay
<1>7. CASE \/ PlaceInside \/ PlaceFails \/ CheckTarget \/ ChangeDir \/ ReadStops \/ ReadEnds
           \/ ReadFails \/ CloseDir \/ Restart \/ UNCHANGED dirVars
  <2>1. UNCHANGED <<fat, slots, raw>>
    <3>1. CASE PlaceInside BY <3>1 DEF PlaceInside
    <3>2. CASE PlaceFails BY <3>2 DEF PlaceFails
    <3>3. CASE CheckTarget BY <3>3 DEF CheckTarget
    <3>4. CASE ChangeDir BY <3>4 DEF ChangeDir
    <3>5. CASE ReadStops BY <3>5, Zenon DEF ReadStops
    <3>6. CASE ReadEnds BY <3>6 DEF ReadEnds
    <3>7. CASE ReadFails BY <3>7, Zenon DEF ReadFails
    <3>8. CASE CloseDir BY <3>8 DEF CloseDir
    <3>9. CASE Restart BY <3>9 DEF Restart, Reboot
    <3>10. CASE UNCHANGED dirVars BY <3>10 DEF dirVars
    <3> QED BY <1>7, <3>1, <3>2, <3>3, <3>4, <3>5, <3>6, <3>7, <3>8, <3>9, <3>10
  <2> QED BY <1>2, <2>1
<1>8. CASE Crash
  <2>1. /\ UNCHANGED <<fat, raw>> /\ cwd' = Root /\ pc' # "extended"
        /\ UNCHANGED slots \/ (pc \in Writing /\ Torn)
    BY <1>8 DEF Crash, Reboot, EndCall
  <2> QED BY <1>2, <1>3, <2>1
<1> QED BY <1>4, <1>5, <1>6, <1>7, <1>8 DEF Next

LEMMA RenameStep == StayInv /\ [Next]_dirVars => StayInv'
<1> SUFFICES ASSUME TreeInv, RenameSound, [Next]_dirVars PROVE StayInv'
  BY DEF StayInv
<1>1. TreeInv' /\ EndsInv BY TreeStep, TreeMeansDisk
<1>2. ASSUME UNCHANGED call, ~tainted, ~tainted', pc # "delete", pc' # "delete", HasOld' => HasOld
      PROVE  RenameSound'
  <2> SUFFICES ASSUME call.op = "rename", HasOld'
               PROVE  /\ slots'[call.old[1]][call.old[2]].dir = call.dir
                      /\ slots'[call.old[1]][call.old[2]].first = call.first
    BY <1>2, Zenon DEF RenameSound
  <2> DEFINE c == call.old[1]
             s == call.old[2]
  <2>1. slots[c][s].dir = call.dir /\ slots[c][s].first = call.first
    BY <1>2, Zenon DEF RenameSound
  <2>2. c \in InUse /\ s \in Slots /\ IsEntry(slots[c][s])
    BY <1>1, <1>2, OldInCluster, TreeMeansDisk DEF OldEntrySound
  <2>3. call'.op # "unlink" BY <1>2
  <2>4. slots'[c][s] = slots[c][s]
    BY <1>2, <2>2, <2>3, SlotsStay, KindsFree DEF IsEntry
  <2> QED BY <2>1, <2>4, Zenon
<1>3. CASE CallStarts
  <2>1. PICK d \in Directories :
          \/ \E n \in Names : CallMkdir(d, n) \/ CallOpen(d, n) \/ CallUnlink(d, n) \/ CallRename(d, n)
          \/ OpenDir(d)
    BY <1>3 DEF CallStarts
  <2>2. CASE \E n \in Names : CallMkdir(d, n)
    <3>1. PICK n \in Names : CallMkdir(d, n) BY <2>2
    <3>2. pc' = "clear" BY <3>1 DEF CallMkdir
    <3> QED BY <1>1, <3>2 DEF StayInv, RenameSound, HasOld
  <2>3. CASE \E n \in Names : CallOpen(d, n)
    <3>1. PICK n \in Names : CallOpen(d, n) BY <2>3
    <3>2. pc' = "place" /\ call' = [NoCall EXCEPT !.op = "open", !.parent = d, !.name = n]
      BY <3>1 DEF CallOpen
    <3>3. call'.op = "open" BY <3>2 DEF NoCall
    <3> QED BY <1>1, <3>2, <3>3 DEF StayInv, RenameSound, HasOld
  <2>4. CASE \E n \in Names : CallUnlink(d, n)
    <3>1. PICK n \in Names : CallUnlink(d, n) BY <2>4
    <3>2. PICK sl \in Looks(d), c \in Cluster, s \in Slots :
            /\ Finds(sl, d, n, c, s)
            /\ call' = [NoCall EXCEPT !.op = "unlink", !.dir = sl[c][s].dir,
                           !.first = sl[c][s].first, !.old = <<c, s>>]
      BY <3>1, Zenon DEF CallUnlink
    <3>3. call'.op = "unlink" BY <3>2 DEF NoCall
    <3> QED BY <1>1, <3>3 DEF StayInv, RenameSound
  <2>5. CASE \E n \in Names : CallRename(d, n)
    <3>1. PICK n \in Names : CallRename(d, n) BY <2>5
    <3>2. pc' = "check" /\ UNCHANGED slots BY <3>1 DEF CallRename
    <3>3. PICK sl \in Looks(d), c \in Cluster, s \in Slots :
            /\ Finds(sl, d, n, c, s)
            /\ \E e \in Directories, m \in Names :
                 call' = [NoCall EXCEPT !.op = "rename", !.parent = e, !.name = m,
                   !.dir = sl[c][s].dir, !.first = sl[c][s].first, !.old = <<c, s>>]
            /\ tainted' = (tainted \/ sl # slots)
      BY <3>1, Zenon DEF CallRename
    <3>4. PICK e \in Directories, m \in Names :
            /\ call' = [NoCall EXCEPT !.op = "rename", !.parent = e, !.name = m,
                           !.dir = sl[c][s].dir, !.first = sl[c][s].first, !.old = <<c, s>>]
            /\ tainted' = (tainted \/ sl # slots)
      BY <3>3
    <3>5. call'.dir = sl[c][s].dir /\ call'.first = sl[c][s].first /\ call'.old = <<c, s>>
      BY <3>4 DEF NoCall
    <3>6. ~tainted' => sl = slots BY <3>4, Zenon
    <3>7. call'.old[1] = c /\ call'.old[2] = s BY <3>5
    <3>8. ~tainted' => /\ slots'[call'.old[1]][call'.old[2]].dir = call'.dir
                       /\ slots'[call'.old[1]][call'.old[2]].first = call'.first
      BY <3>2, <3>5, <3>6, <3>7, Zenon
    <3>9. RenameSound' BY <3>2, <3>8, Zenon DEF RenameSound
    <3> QED BY <1>1, <3>9 DEF StayInv
  <2>6. CASE OpenDir(d)
    <3>1. UNCHANGED <<pc, call, slots, fat, raw, tainted>> BY <2>6 DEF OpenDir
    <3> QED BY <1>1, <3>1 DEF StayInv, RenameSound, HasOld, NewPlace, InUse
  <2> QED BY <2>1, <2>2, <2>3, <2>4, <2>5, <2>6
<1>4. CASE \/ ChangeDir \/ ReadStops \/ ReadEnds \/ ReadFails \/ CloseDir \/ UNCHANGED dirVars
  <2>1. UNCHANGED <<pc, call, slots, fat, raw, tainted>>
    <3>1. CASE ChangeDir BY <3>1 DEF ChangeDir
    <3>2. CASE ReadStops BY <3>2, Zenon DEF ReadStops
    <3>3. CASE ReadEnds BY <3>3 DEF ReadEnds
    <3>4. CASE ReadFails BY <3>4, Zenon DEF ReadFails
    <3>5. CASE CloseDir BY <3>5 DEF CloseDir
    <3>6. CASE UNCHANGED dirVars BY <3>6 DEF dirVars
    <3> QED BY <1>4, <3>1, <3>2, <3>3, <3>4, <3>5, <3>6
  <2> QED BY <1>1, <2>1 DEF StayInv, RenameSound, HasOld, NewPlace, InUse
<1>5. CASE EndCall BY <1>1, <1>5, RenameEnded DEF StayInv
<1>6. CASE PlaceFails \/ DeleteEntry \/ Restart \/ Crash
  BY <1>5, <1>6 DEF PlaceFails, DeleteEntry, Restart, Crash, Reboot
<1>7. CASE ClearNew \/ (InitNew /\ ~EndCall)
  <2>1. pc \in {"clear", "init"} /\ pc' \in {"init", "place"} /\ UNCHANGED call
    BY <1>7 DEF ClearNew, InitNew
  <2>2. call.op = "mkdir" BY <1>1, <2>1 DEF EndsInv, NewClusterRaw
  <2> QED BY <1>1, <2>1, <2>2 DEF StayInv, RenameSound
<1>8. CASE ClearExtension \/ (CheckTarget /\ ~EndCall)
  <2>1. /\ pc \in {"check", "extended"} /\ pc' \in {"place", "entry"} /\ UNCHANGED call
        /\ ~tainted' => ~tainted
    BY <1>8 DEF ClearExtension, CheckTarget
  <2>2. HasOld' => HasOld BY <2>1 DEF HasOld
  <2>3. ~tainted' => RenameSound' BY <1>2, <2>1, <2>2
  <2>4. RenameSound' BY <2>3 DEF RenameSound
  <2> QED BY <1>1, <2>4 DEF StayInv
<1>9. CASE PlaceInside \/ PlaceBehind
  <2>1. /\ pc = "place" /\ pc' \in {"entry", "extended"} /\ UNCHANGED slots
        /\ (tainted => tainted')
    BY <1>9 DEF PlaceInside, PlaceBehind
  <2>2. PICK place : call' = [call EXCEPT !.at = place]
    <3>1. CASE PlaceInside
      <4>1. PICK c \in Cluster, s \in Slots : call' = [call EXCEPT !.at = <<c, s>>]
        BY <3>1 DEF PlaceInside
      <4> QED BY <4>1
    <3>2. CASE PlaceBehind
      <4>1. PICK c \in Cluster : call' = [call EXCEPT !.at = <<c, 1>>]
        BY <3>2 DEF PlaceBehind, EntryInNew
      <4> QED BY <4>1
    <3> QED BY <1>9, <3>1, <3>2
  <2>3. call'.op = call.op /\ call'.old = call.old /\ call'.first = call.first /\ call'.dir = call.dir
    <3>1. CallShape BY <1>1 DEF EndsInv
    <3>2. call'.dir = call.dir BY <2>2, <3>1 DEF CallShape
    <3> QED BY <2>2, <3>1, <3>2, CallPlaced
  <2>4. call'.op = "rename" /\ ~tainted' =>
          /\ slots'[call'.old[1]][call'.old[2]].dir = call'.dir
          /\ slots'[call'.old[1]][call'.old[2]].first = call'.first
    <3> SUFFICES ASSUME call.op = "rename", ~tainted
                 PROVE  /\ slots[call.old[1]][call.old[2]].dir = call.dir
                        /\ slots[call.old[1]][call.old[2]].first = call.first
      BY <2>1, <2>3, Zenon
    <3>1. HasOld BY <2>1 DEF HasOld
    <3> QED BY <3>1, Zenon DEF RenameSound
  <2>5. pc' # "delete" BY <2>1
  <2>6. RenameSound' BY <2>4, <2>5, Zenon DEF RenameSound
  <2> QED BY <1>1, <2>6 DEF StayInv
<1>10. CASE WriteEntry /\ ~EndCall
  <2>1. /\ pc = "entry" /\ pc' = "delete" /\ call.op = "rename" /\ UNCHANGED <<call, tainted, fat, raw>>
        /\ Written
    BY <1>10 DEF WriteEntry, WriteWorks
  <2> DEFINE T == call.at[1]
             t == call.at[2] + Pieces[call.name]
             c == call.old[1]
             s == call.old[2]
  <2>2. ASSUME ~tainted'
        PROVE  /\ slots'[c][s].dir = call.dir /\ slots'[c][s].first = call.first
               /\ T \in InUse' /\ t \in Slots /\ ~(T = c /\ t = s)
               /\ IsEntry(slots'[T][t]) /\ slots'[T][t].dir = call.dir
               /\ slots'[T][t].first = call.first
    <3>1. HasOld /\ pc \in Writing BY <2>1 DEF HasOld, Writing
    <3>2. slots[c][s].dir = call.dir /\ slots[c][s].first = call.first
      BY <2>1, <2>2, <3>1, Zenon DEF RenameSound
    <3>3. c \in InUse /\ s \in Slots /\ IsEntry(slots[c][s]) /\ ~IsFree(slots[c][s])
      BY <1>1, <2>1, <2>2, <3>1, OldInCluster, KindsFree, TreeMeansDisk DEF OldEntrySound, IsEntry
    <3>4. slots'[c][s] = slots[c][s]
      BY <2>1, <2>2, <3>3, SlotsStay
    <3>5. T \in InUse /\ T \in InUse' /\ T \notin raw
      BY <2>1, <2>2, TreeMeansDisk DEF NewEntrySound, InUse
    <3>6. /\ call.at[2] \in Slots /\ call.name \in Names /\ T \in Cluster
          /\ Room(slots[T], call.at[2], call.name)
      BY <1>1, <2>1, <3>5 DEF EndsInv, RoomKept, NameGiven
    <3>7. t \in Slots /\ t \in call.at[2] .. t /\ ~(t \in call.at[2] .. t - 1)
      BY <3>6, SlotsFacts, SMT DEF Room
    <3>8. IsFree(slots[T][t]) BY <3>6, <3>7 DEF Room
    <3>9. ~(T = c /\ t = s) BY <3>3, <3>8
    <3>10. /\ slots'[T][t].kind = "short" /\ slots'[T][t].name = call.name
           /\ slots'[T][t].dir = call.dir /\ slots'[T][t].first = call.first
      <4>1. Target = T /\ Content = WithEntry(slots[T], call.at[2], call.name, call.dir, call.first)
        BY <2>1 DEF Target, Content
      <4>2. slots'[T] = Content BY <1>1, <2>1, <3>1, <4>1, SlotsWritten
      <4>3. slots'[T][t] = WithEntry(slots[T], call.at[2], call.name, call.dir, call.first)[t]
        BY <4>1, <4>2
      <4>4. t = call.at[2] + Pieces[call.name] OBVIOUS
      <4> HIDE DEF T, t
      <4> DEFINE new == slots'[T][t]
      <4>5. new.kind = "short" /\ new.name = call.name /\ new.dir = call.dir /\ new.first = call.first
        <5> HIDE DEF new
        <5>1. new = WithEntry(slots[T], call.at[2], call.name, call.dir, call.first)[t] BY <4>3 DEF new
        <5> DEFINE cl == slots[T]
                   at == call.at[2]
                   n == call.name
                   dir == call.dir
                   first == call.first
        <5>2. at \in Slots /\ n \in Names /\ t \in Slots BY <3>6, <3>7
        <5>3. t = at + Pieces[n] BY <4>4
        <5>4. new = WithEntry(cl, at, n, dir, first)[t] BY <5>1
        <5> HIDE DEF cl, at, n, dir, first
        <5>5. new.kind = "short" /\ new.name = n /\ new.dir = dir /\ new.first = first
          BY <5>2, <5>3, <5>4, EntryShort
        <5> QED BY <5>5, Zenon DEF n, dir, first
      <4> QED BY <4>5, Zenon
    <3>11. IsEntry(slots'[T][t]) BY <3>6, <3>10 DEF IsEntry
    <3>12. slots'[T][t].dir = call.dir /\ slots'[T][t].first = call.first
      BY <3>10, Zenon
    <3>13. slots'[c][s].dir = call.dir /\ slots'[c][s].first = call.first
      BY <3>2, <3>4, Zenon
    <3> QED BY <3>5, <3>7, <3>9, <3>11, <3>12, <3>13
  <2>3. NewPlace' = <<T, t>> /\ NewPlace'[1] = T /\ NewPlace'[2] = t BY <2>1 DEF NewPlace
  <2>4. RenameSound'
    <3> SUFFICES ASSUME ~tainted' PROVE RenameSound'
      BY DEF RenameSound
    <3> HIDE DEF T, t, c, s
    <3> QED BY <2>1, <2>2, <2>3, Zenon DEF RenameSound, c, s
  <2> QED BY <1>1, <2>4 DEF StayInv
<1>11. CASE WriteEntry \/ InitNew \/ CheckTarget BY <1>5, <1>7, <1>8, <1>10, <1>11
<1> QED
  BY <1>3, <1>4, <1>6, <1>7, <1>8, <1>9, <1>11 DEF Next

\* What has gone wrong by design stays wrong.
LEMMA TaintStays ==
  ASSUME [Next]_dirVars, ~tainted' PROVE ~tainted
<1>1. CASE CallStarts BY <1>1, Zenon DEF CallStarts, CallMkdir, CallOpen, CallUnlink, CallRename, OpenDir, Ready
<1>2. CASE ClearNew \/ InitNew \/ PlaceInside \/ PlaceBehind \/ PlaceFails
  BY <1>2 DEF ClearNew, InitNew, PlaceInside, PlaceBehind, PlaceFails
<1>3. CASE ClearExtension \/ WriteEntry \/ CheckTarget
  BY <1>3 DEF ClearExtension, WriteEntry, CheckTarget
<1>4. CASE DeleteEntry BY <1>4, Zenon DEF DeleteEntry
<1>5. CASE ChangeDir \/ ReadStops \/ ReadEnds \/ ReadFails \/ CloseDir
  <2>1. CASE ChangeDir BY <2>1 DEF ChangeDir
  <2>2. CASE ReadStops BY <2>2, Zenon DEF ReadStops
  <2>3. CASE ReadEnds BY <2>3 DEF ReadEnds
  <2>4. CASE ReadFails BY <2>4, Zenon DEF ReadFails
  <2>5. CASE CloseDir BY <2>5 DEF CloseDir
  <2> QED BY <1>5, <2>1, <2>2, <2>3, <2>4, <2>5
<1>6. CASE Restart \/ UNCHANGED dirVars BY <1>6 DEF Restart, dirVars
<1>7. CASE Crash BY <1>7, Zenon DEF Crash
<1> QED BY <1>1, <1>2, <1>3, <1>4, <1>5, <1>6, <1>7 DEF Next

LEMMA StayBegins == Init => StayInv
<1>1. Init => RenameSound BY DEF Init, RenameSound, HasOld, NoCall
<1> QED BY <1>1, TreeInit DEF StayInv

\* What entries name is named on, by the new entry when f_rename deletes the old one.
LEMMA NamedStays ==
  ASSUME StayInv, [Next]_dirVars, call.op # "unlink", call'.op # "unlink", ~tainted',
         NEW f \in Named
  PROVE  f \in Named'
<1>0. EndsInv /\ TreeInv /\ RenameSound BY TreeMeansDisk DEF StayInv
<1>1. ~tainted BY TaintStays
<1>2. PICK c \in InUse, s \in Slots : IsDirEntry(slots[c][s]) /\ f = slots[c][s].first
  BY DEF Named
<1>3. /\ InUse \subseteq InUse'
      /\ \A x \in InUse, t \in Slots :
           ~IsFree(slots[x][t]) /\ ~(pc = "delete" /\ x = call.old[1] /\ t = call.old[2])
           => slots'[x][t] = slots[x][t]
  BY <1>0, <1>1, SlotsStay
<1>4. ASSUME NEW x \in InUse, NEW t \in Slots, IsDirEntry(slots[x][t]), slots[x][t].first = f,
             ~(pc = "delete" /\ x = call.old[1] /\ t = call.old[2])
      PROVE  f \in Named'
  <2>1. ~IsFree(slots[x][t]) BY <1>4, KindsFree DEF IsDirEntry, IsEntry
  <2>2. slots'[x][t] = slots[x][t] /\ x \in InUse' BY <1>3, <1>4, <2>1
  <2>3. IsDirEntry(slots'[x][t]) /\ slots'[x][t].first = f BY <1>4, <2>2
  <2>4. /\ <<x, t>> \in {q \in InUse' \X Slots : IsDirEntry(slots'[q[1]][q[2]])}
        /\ slots'[<<x, t>>[1]][<<x, t>>[2]].first = f
    BY <2>2, <2>3
  <2> QED BY <2>4, Zenon DEF Named
<1>5. CASE ~(pc = "delete" /\ c = call.old[1] /\ s = call.old[2]) BY <1>2, <1>4, <1>5
<1>6. CASE pc = "delete" /\ c = call.old[1] /\ s = call.old[2]
  <2> DEFINE x == NewPlace[1]
             t == NewPlace[2]
  <2>1. call.op = "rename" BY <1>0, <1>1, <1>6 DEF RenameSound
  <2>2. HasOld BY <1>6, <2>1 DEF HasOld
  <2>3. slots[c][s].dir = call.dir /\ slots[c][s].first = call.first
    BY <1>0, <1>1, <1>6, <2>1, <2>2, Zenon DEF RenameSound
  <2>4. /\ x \in InUse /\ t \in Slots /\ ~(x = c /\ t = s) /\ IsEntry(slots[x][t])
        /\ slots[x][t].dir = call.dir /\ slots[x][t].first = call.first
    BY <1>0, <1>1, <1>6, <2>1, Zenon DEF RenameSound
  <2>5. IsDirEntry(slots[x][t]) BY <1>2, <2>3, <2>4, Zenon DEF IsDirEntry
  <2>6. slots[x][t].first = f BY <1>2, <2>3, <2>4
  <2>7. ~(pc = "delete" /\ x = call.old[1] /\ t = call.old[2]) BY <1>6, <2>4
  <2> HIDE DEF x, t
  <2> QED BY <1>4, <2>4, <2>5, <2>6, <2>7
<1> QED BY <1>5, <1>6

-----------------------------------------------------------------------------
(* The types of the variables.                                             *)

\* A slot holds the number of a cluster, or something that ends a chain.
SlotOf ==
  [kind : {"end", "deleted", "long", "short"}, name : Names \cup {"", ".", ".."},
   piece : Nat, dir : BOOLEAN, first : Entry]

Contents == [Cluster -> [Slots -> SlotOf]]

Seen == SUBSET (Cluster \X Slots)

PassTyped ==
  /\ pass = [dir |-> pass.dir, want |-> pass.want, listed |-> pass.listed,
             staying |-> pass.staying, again |-> pass.again, cut |-> pass.cut]
  /\ pass.listed \in Seen /\ pass.staying \in Seen /\ pass.cut \in Cluster \cup {None}

DirTyped == dp \in [cluster : Cluster \cup {None}, pos : 0 .. SlotsPerCluster]

Counted == faults \in 0 .. MaxFaults /\ crashes \in 0 .. MaxCrashes

CallTyped == pc \in Locations /\ call \in CallType

DirTypeInv ==
  /\ TreeInv
  /\ slots \in Contents /\ cwd \in Cluster
  /\ CallTyped /\ DirTyped /\ PassTyped /\ Counted
  /\ raw \subseteq Cluster /\ tainted \in BOOLEAN

LEMMA TypesMean == DirTypeInv => DirTypeOK
<1> SUFFICES ASSUME DirTypeInv PROVE DirTypeOK
  OBVIOUS
<1>1. fat \in [FatIndex -> Entry] /\ hint \in Cluster BY TreeMeansDisk DEF DirTypeInv, IsTable
<1>2. SlotOf \subseteq SlotType
  <2>1. Entry \subseteq Nat
    BY TotalClustersAssumption, SMT DEF Entry, FatIndex, EndOfChain, MediaEntry
  <2> QED BY <2>1 DEF SlotOf, SlotType
<1>3. slots \in [Cluster -> [Slots -> SlotType]]
  BY <1>2 DEF DirTypeInv, Contents
<1> QED
  BY <1>1, <1>3 DEF DirTypeInv, DirTypeOK, CallTyped, DirTyped, PassTyped, Counted, Seen

\* The slots that calls write.
LEMMA SlotsOf ==
  /\ EndMark \in SlotOf /\ Deleted \in SlotOf
  /\ \A n \in Names, i \in Nat : LongSlot(n, i) \in SlotOf
  /\ \A n \in Names \cup {".", ".."}, dir \in BOOLEAN, f \in Entry : ShortSlot(n, dir, f) \in SlotOf
<1>1. 0 \in Entry BY TableNumbers
<1> QED BY <1>1 DEF EndMark, Deleted, LongSlot, ShortSlot, SlotOf

LEMMA ContentTyped ==
  ASSUME EndsInv, slots \in Contents, CallTyped, pc \in Writing, Target \in Cluster
  PROVE  Content \in [Slots -> SlotOf]
<1>1. EmptyCluster \in [Slots -> SlotOf] BY SlotsOf DEF EmptyCluster
<1>2. slots[Target] \in [Slots -> SlotOf] BY DEF Contents
<1>3. call.first \in Entry /\ call.parent \in Entry /\ call.dir \in BOOLEAN
  BY DEF CallTyped, CallType
<1>4. CASE pc \in {"clear", "extended"} BY <1>1, <1>4 DEF Content
<1>5. CASE pc = "init"
  <2>1. Content = NewDirectory(call.first, call.parent) BY <1>5 DEF Content
  <2>2. /\ ShortSlot(".", TRUE, call.first) \in SlotOf
        /\ ShortSlot("..", TRUE, call.parent) \in SlotOf
    BY <1>3, SlotsOf
  <2> QED BY <1>1, <2>1, <2>2 DEF NewDirectory
<1>6. CASE pc = "entry"
  <2>1. Content = WithEntry(slots[Target], call.at[2], call.name, call.dir, call.first)
    BY <1>6 DEF Content
  <2> DEFINE n == call.name
             s == call.at[2]
             short == ShortSlot(n, call.dir, call.first)
  <2>2. n \in Names /\ s \in Slots BY <1>6 DEF EndsInv, NameGiven, RoomKept
  <2>3. short \in SlotOf BY <1>3, <2>2, SlotsOf
  <2>4. ASSUME NEW t \in Slots, t \in s .. s + Pieces[n] - 1 PROVE LongSlot(n, s + Pieces[n] - t) \in SlotOf
    <3>1. s + Pieces[n] - t \in Nat
      <4>1. Pieces[n] \in Nat /\ s \in Nat /\ t \in Nat BY <2>2, SlotsFacts, SMT
      <4> HIDE DEF n, s
      <4> QED BY <2>4, <4>1, SMT
    <3> QED BY <2>2, <3>1, SlotsOf
  <2>5. \A t \in Slots : slots[Target][t] \in SlotOf BY <1>2
  <2> HIDE DEF n, s, short
  <2>6. Content = [t \in Slots |-> IF t \in s .. s + Pieces[n] - 1 THEN LongSlot(n, s + Pieces[n] - t)
                                   ELSE IF t = s + Pieces[n] THEN short ELSE slots[Target][t]]
    BY <2>1 DEF WithEntry, n, s, short
  <2> QED BY <2>3, <2>4, <2>5, <2>6
<1>7. CASE pc = "delete"
  <2>1. Content = WithoutEntry(slots[Target], call.old[2]) BY <1>7 DEF Content
  <2> QED BY <1>2, <2>1, SlotsOf DEF WithoutEntry
<1> QED BY <1>4, <1>5, <1>6, <1>7 DEF Writing

LEMMA WriteTyped ==
  ASSUME DirTypeInv, pc \in Writing, Written \/ Torn
  PROVE  slots' \in Contents
<1>1. EndsInv BY TreeMeansDisk DEF DirTypeInv
<1>2. Target \in Cluster BY <1>1, WrittenEnds
<1>3. Content \in [Slots -> SlotOf] BY <1>1, <1>2, ContentTyped DEF DirTypeInv
<1>4. slots \in Contents BY DEF DirTypeInv
<1>5. CASE Written BY <1>2, <1>3, <1>4, <1>5 DEF Written, Contents
<1>6. CASE Torn
  <2>1. PICK n \in {m \in 0 .. SlotsPerCluster - 1 : m % SlotsPerSector = 0} :
          slots' = [slots EXCEPT ![Target] =
                      [s \in Slots |-> IF s <= n THEN Content[s] ELSE @[s]]]
    BY <1>6 DEF Torn
  <2> DEFINE new == [s \in Slots |-> IF s <= n THEN Content[s] ELSE slots[Target][s]]
  <2>2. new \in [Slots -> SlotOf] BY <1>2, <1>3, <1>4 DEF Contents
  <2>3. slots' = [slots EXCEPT ![Target] = new] BY <1>2, <1>4, <2>1 DEF Contents
  <2> HIDE DEF new
  <2> QED BY <1>2, <1>4, <2>2, <2>3 DEF Contents
<1> QED BY <1>5, <1>6

\* The passes of a program through a directory as the slots change.
LEMMA PassStays ==
  ASSUME PassTyped, StillThere PROVE PassTyped'
<1> DEFINE left == {p \in pass.staying : slots'[p[1]][p[2]] = slots[p[1]][p[2]]}
<1>1. pass' = [dir |-> pass.dir, want |-> pass.want, listed |-> pass.listed,
               staying |-> left, again |-> pass.again, cut |-> pass.cut]
  BY DEF StillThere, PassTyped
<1>2. left \in Seen BY DEF PassTyped, Seen
<1> HIDE DEF left
<1> QED BY <1>1, <1>2 DEF PassTyped

LEMMA PassKept ==
  ASSUME PassTyped, pass' \in {pass, NoPass} PROVE PassTyped'
<1>1. CASE UNCHANGED pass BY <1>1 DEF PassTyped
<1>2. CASE pass' = NoPass BY <1>2 DEF PassTyped, NoPass, Seen
<1> QED BY <1>1, <1>2

\* What fat32_find_file may see in its buffer are slots like those on the disk.
LEMMA LooksTyped ==
  ASSUME DirTypeInv, NEW d \in Cluster, NEW sl \in Looks(d)
  PROVE  /\ sl \in Contents
         /\ CountLook(sl) => faults' \in 0 .. MaxFaults
<1>1. slots \in Contents /\ IsTable(fat) BY TreeMeansDisk DEF DirTypeInv
<1>2. faults \in 0 .. MaxFaults /\ MaxFaults \in Nat BY DirAssumption DEF DirTypeInv, Counted
<1>3. CASE sl = slots BY <1>1, <1>2, <1>3 DEF CountLook
<1>4. CASE sl # slots
  <2>1. faults < MaxFaults /\ sl \in Misread(d) BY <1>4 DEF Looks
  <2>2. sl \in Contents
    <3>1. CASE sl \in {[slots EXCEPT ![d] = slots[c]] : c \in Cluster}
      <4>1. PICK c \in Cluster : sl = [slots EXCEPT ![d] = slots[c]] BY <3>1
      <4> QED BY <1>1, <4>1 DEF Contents
    <3>2. CASE sl \in {[slots EXCEPT ![Walk(d)[k]] = slots[Walk(d)[k - 1]]] : k \in 2 .. Len(Walk(d))}
      <4> DEFINE ch == Walk(d)
      <4>1. ch \in Seq(Cluster) BY <1>1, TableNumbers, ChainType DEF Walk
      <4> HIDE DEF ch
      <4>2. PICK k \in 2 .. Len(ch) : sl = [slots EXCEPT ![ch[k]] = slots[ch[k - 1]]]
        BY <3>2 DEF ch
      <4>3. Len(ch) \in Nat /\ \A i \in 1 .. Len(ch) : ch[i] \in Cluster
        BY <4>1, LenProperties, ElementOfSeq
      <4>4. k \in 1 .. Len(ch) /\ k - 1 \in 1 .. Len(ch) BY <4>3, SMT
      <4>5. ch[k] \in Cluster /\ ch[k - 1] \in Cluster BY <4>3, <4>4
      <4> QED BY <1>1, <4>2, <4>5 DEF Contents
    <3> QED BY <2>1, <3>1, <3>2 DEF Misread
  <2>3. CountLook(sl) => faults' = faults + 1 BY <1>4 DEF CountLook
  <2>4. faults + 1 \in 0 .. MaxFaults BY <1>2, <2>1, SMT
  <2> QED BY <2>2, <2>3, <2>4
<1> QED BY <1>3, <1>4

LEMMA FaultTyped ==
  ASSUME DirTypeInv, Fault \/ UNCHANGED faults PROVE faults' \in 0 .. MaxFaults
BY DirAssumption, SMT DEF DirTypeInv, Counted, Fault

LEMMA EndCallTyped == EndCall => CallTyped'
<1>1. 0 \in Entry /\ None = 0 BY TableNumbers DEF None
<1>2. NoCall \in CallType BY <1>1 DEF CallType, NoCall, Somewhere
<1> QED BY <1>2 DEF EndCall, CallTyped, Locations

LEMMA DirectoryTyped ==
  ASSUME TreeInv, ~tainted, pc = "idle", NEW d \in Directories PROVE d \in Cluster /\ d \in Entry
<1>1. Start(d) BY DirectoriesStart DEF TreeInv
<1> QED BY <1>1, TableNumbers DEF Start, InUse

\* The calls start.
LEMMA CallsTyped ==
  ASSUME DirTypeInv, TreeInv', NEW d \in Directories, NEW n \in Names,
         CallMkdir(d, n) \/ CallOpen(d, n) \/ CallUnlink(d, n) \/ CallRename(d, n)
  PROVE  DirTypeInv'
<1>1. ~tainted /\ pc = "idle" /\ TreeInv
  BY Zenon DEF CallMkdir, CallOpen, CallUnlink, CallRename, Ready, DirTypeInv
<1>2. d \in Cluster /\ d \in Entry BY <1>1, DirectoryTyped
<1>3. /\ DirTyped /\ PassTyped /\ Counted /\ slots \in Contents /\ cwd \in Cluster
      /\ raw \subseteq Cluster /\ tainted \in BOOLEAN /\ crashes \in 0 .. MaxCrashes
  BY DEF DirTypeInv, Counted
<1>4. ASSUME UNCHANGED <<slots, cwd, dp, crashes>>, pass' \in {pass, NoPass},
             faults' \in 0 .. MaxFaults, CallTyped', raw' \subseteq Cluster, tainted' \in BOOLEAN
      PROVE  DirTypeInv'
  <2>1. PassTyped' BY <1>3, <1>4, PassKept
  <2> QED BY <1>3, <1>4, <2>1 DEF DirTypeInv, DirTyped, Counted
<1>5. 0 \in Entry /\ Cluster \subseteq Entry BY TableNumbers
<1>6. CASE CallMkdir(d, n)
  <2>1. PICK c \in Cluster :
          /\ raw' = raw \cup {c}
          /\ call' = [NoCall EXCEPT !.op = "mkdir", !.parent = d, !.name = n,
                                   !.dir = TRUE, !.first = c]
    BY <1>6 DEF CallMkdir
  <2>2. /\ pc' = "clear" /\ UNCHANGED <<slots, cwd, crashes, dp, pass>>
        /\ Fault \/ UNCHANGED faults
        /\ tainted' \in BOOLEAN
    BY <1>3, <1>6 DEF CallMkdir, NoPassStep, NoDirectory
  <2>3. CallTyped' BY <1>2, <1>5, <2>1, <2>2 DEF CallTyped, CallType, NoCall, Locations, Somewhere, None
  <2>4. faults' \in 0 .. MaxFaults BY <2>2, FaultTyped
  <2> QED BY <1>3, <1>4, <2>1, <2>2, <2>3, <2>4
<1>7. CASE CallOpen(d, n)
  <2>1. Fault \/ \E sl \in Looks(d) : CountLook(sl) BY <1>7, Zenon DEF CallOpen
  <2>2. /\ pc' = "place" /\ UNCHANGED <<slots, cwd, crashes, tainted, dp, pass, raw>>
        /\ call' = [NoCall EXCEPT !.op = "open", !.parent = d, !.name = n]
    BY <1>7 DEF CallOpen, NoPassStep
  <2>3. CallTyped' BY <1>2, <1>5, <2>2 DEF CallTyped, CallType, NoCall, Locations, Somewhere, None
  <2>4. faults' \in 0 .. MaxFaults BY <1>2, <2>1, LooksTyped, FaultTyped
  <2> QED BY <1>3, <1>4, <2>2, <2>3, <2>4
<1>8. CASE CallUnlink(d, n)
  <2>1. PICK sl \in Looks(d), c \in Cluster, s \in Slots :
          /\ Finds(sl, d, n, c, s)
          /\ call' = [NoCall EXCEPT !.op = "unlink", !.dir = sl[c][s].dir,
                         !.first = sl[c][s].first, !.old = <<c, s>>]
          /\ fat' = IF sl[c][s].first = None THEN fat ELSE Release(fat, sl[c][s].first)
          /\ pass' = IF sl[c][s].dir /\ sl[c][s].first = pass.dir THEN NoPass ELSE pass
          /\ CountLook(sl)
          /\ tainted' = (tainted \/ sl # slots
                          \/ (sl[c][s].dir /\ InTheWay(sl[c][s].first, c, s)))
    BY <1>8, Zenon DEF CallUnlink
  <2>2. pc' = "delete" /\ UNCHANGED <<slots, cwd, dp, crashes, raw>> BY <1>8, Zenon DEF CallUnlink
  <2>3. sl \in Contents /\ faults' \in 0 .. MaxFaults BY <1>2, <2>1, LooksTyped
  <2>4. sl[c][s].dir \in BOOLEAN /\ sl[c][s].first \in Entry BY <2>3 DEF Contents, SlotOf
  <2>5. call' = [op |-> "unlink", parent |-> None, name |-> "", dir |-> sl[c][s].dir,
                 first |-> sl[c][s].first, at |-> Nowhere, old |-> <<c, s>>]
    BY <2>1 DEF NoCall
  <2>6. CallTyped'
    BY <1>5, <2>2, <2>4, <2>5 DEF CallTyped, CallType, Locations, Somewhere, None
  <2>7. pass' \in {pass, NoPass} BY <2>1, Zenon
  <2>8. tainted' \in BOOLEAN BY <2>1, Zenon
  <2> QED BY <1>3, <1>4, <2>2, <2>3, <2>6, <2>7, <2>8
<1>9. CASE CallRename(d, n)
  <2>1. PICK sl \in Looks(d), c \in Cluster, s \in Slots :
          /\ Finds(sl, d, n, c, s)
          /\ CountLook(sl)
          /\ \E e \in Directories, m \in Names :
               call' = [NoCall EXCEPT !.op = "rename", !.parent = e, !.name = m,
                 !.dir = sl[c][s].dir, !.first = sl[c][s].first, !.old = <<c, s>>]
          /\ tainted' = (tainted \/ sl # slots)
    BY <1>9, Zenon DEF CallRename
  <2>2. PICK e \in Directories, m \in Names :
          /\ call' = [NoCall EXCEPT !.op = "rename", !.parent = e, !.name = m,
                         !.dir = sl[c][s].dir, !.first = sl[c][s].first, !.old = <<c, s>>]
          /\ tainted' = (tainted \/ sl # slots)
    BY <2>1
  <2>3. pc' = "check" /\ UNCHANGED <<slots, cwd, dp, pass, crashes, raw>>
    BY <1>9, Zenon DEF CallRename, NoPassStep
  <2>4. sl \in Contents /\ faults' \in 0 .. MaxFaults BY <1>2, <2>1, LooksTyped
  <2>5. sl[c][s].dir \in BOOLEAN /\ sl[c][s].first \in Entry BY <2>4 DEF Contents, SlotOf
  <2>6. e \in Entry BY <1>1, DirectoryTyped
  <2>7. call' = [op |-> "rename", parent |-> e, name |-> m, dir |-> sl[c][s].dir,
                 first |-> sl[c][s].first, at |-> Nowhere, old |-> <<c, s>>]
    BY <2>2 DEF NoCall
  <2>8. CallTyped'
    BY <2>3, <2>5, <2>6, <2>7 DEF CallTyped, CallType, Locations, Somewhere, None
  <2>9. tainted' \in BOOLEAN BY <2>2, Zenon
  <2> QED BY <1>3, <1>4, <2>3, <2>4, <2>8, <2>9
<1> QED BY <1>6, <1>7, <1>8, <1>9

\* The steps of calls that have started.
LEMMA WritesTyped ==
  ASSUME DirTypeInv, TreeInv',
         ClearNew \/ InitNew \/ ClearExtension \/ WriteEntry \/ DeleteEntry
  PROVE  DirTypeInv'
<1>1. /\ pc \in Writing /\ (WriteWorks \/ WriteFails) /\ UNCHANGED <<cwd, dp, crashes>>
      /\ raw' \subseteq raw /\ tainted' \in BOOLEAN
      /\ EndCall \/ (pc' \in Locations /\ UNCHANGED call)
  <2>1. tainted \in BOOLEAN BY DEF DirTypeInv
  <2>2. CASE ClearNew BY <2>1, <2>2 DEF ClearNew, Writing, Locations
  <2>3. CASE InitNew BY <2>1, <2>3 DEF InitNew, Writing, Locations
  <2>4. CASE ClearExtension BY <2>1, <2>4 DEF ClearExtension, Writing, Locations
  <2>5. CASE WriteEntry BY <2>1, <2>5 DEF WriteEntry, Writing, Locations
  <2>6. CASE DeleteEntry
    <3>1. pc = "delete" /\ EndCall /\ UNCHANGED <<cwd, dp, crashes, raw>> BY <2>6 DEF DeleteEntry
    <3>2. (WriteWorks \/ WriteFails) /\ tainted' \in BOOLEAN BY <2>1, <2>6, Zenon DEF DeleteEntry
    <3> QED BY <3>1, <3>2 DEF Writing
  <2> QED BY <2>2, <2>3, <2>4, <2>5, <2>6
<1>2. slots' \in Contents BY <1>1, WriteTyped DEF WriteWorks, WriteFails
<1>3. faults' \in 0 .. MaxFaults BY <1>1, FaultTyped DEF WriteWorks, WriteFails
<1>4. PassTyped' BY <1>1, PassStays DEF WriteWorks, WriteFails, DirTypeInv
<1>5. CallTyped' BY <1>1, EndCallTyped DEF CallTyped, DirTypeInv
<1> QED BY <1>1, <1>2, <1>3, <1>4, <1>5 DEF DirTypeInv, DirTyped, Counted

LEMMA PlacesTyped ==
  ASSUME DirTypeInv, TreeInv', PlaceInside \/ PlaceBehind \/ PlaceFails \/ CheckTarget
  PROVE  DirTypeInv'
<1>1. /\ UNCHANGED <<slots, cwd, dp, pass, crashes>> /\ raw' \subseteq Cluster
      /\ Fault \/ UNCHANGED faults
      /\ tainted' \in BOOLEAN
  <2>1. raw \subseteq Cluster /\ tainted \in BOOLEAN BY DEF DirTypeInv
  <2>2. CASE PlaceInside BY <2>1, <2>2 DEF PlaceInside, NoPassStep
  <2>3. CASE PlaceBehind BY <2>1, <2>3 DEF PlaceBehind, EntryInNew, NoPassStep
  <2>4. CASE PlaceFails BY <2>1, <2>4 DEF PlaceFails, NoPassStep
  <2>5. CASE CheckTarget BY <2>1, <2>5 DEF CheckTarget, NoPassStep, NoDirectory
  <2> QED BY <2>2, <2>3, <2>4, <2>5
<1>2. CallTyped'
  <2>1. call \in CallType BY DEF DirTypeInv, CallTyped
  <2>2. 1 \in Slots BY SlotsFacts, SMT
  <2>3. CASE PlaceInside
    <3>1. PICK c \in Cluster, s \in Slots : call' = [call EXCEPT !.at = <<c, s>>]
      BY <2>3 DEF PlaceInside
    <3>2. pc' = "entry" BY <2>3 DEF PlaceInside
    <3> QED BY <2>1, <3>1, <3>2 DEF CallTyped, CallType, Locations, Somewhere
  <2>4. CASE PlaceBehind
    <3>1. PICK c \in Cluster : call' = [call EXCEPT !.at = <<c, 1>>]
      BY <2>4 DEF PlaceBehind, EntryInNew
    <3>2. pc' = "extended" BY <2>4 DEF PlaceBehind
    <3> QED BY <2>1, <2>2, <3>1, <3>2 DEF CallTyped, CallType, Locations, Somewhere
  <2>5. CASE PlaceFails BY <2>5, EndCallTyped DEF PlaceFails
  <2>6. CASE CheckTarget BY <2>1, <2>6, EndCallTyped DEF CheckTarget, CallTyped, Locations
  <2> QED BY <2>3, <2>4, <2>5, <2>6
<1>3. faults' \in 0 .. MaxFaults BY <1>1, FaultTyped
<1>4. PassTyped' BY <1>1, PassKept DEF DirTypeInv
<1> QED BY <1>1, <1>2, <1>3, <1>4 DEF DirTypeInv, DirTyped, Counted

\* Going to directories and reading them.
LEMMA ReadingTyped ==
  ASSUME DirTypeInv, TreeInv',
         ChangeDir \/ (\E d \in Directories : OpenDir(d)) \/ ReadStops \/ ReadEnds \/ ReadFails \/ CloseDir
  PROVE  DirTypeInv'
<1>1. /\ ~tainted /\ pc = "idle" /\ TreeInv
      /\ UNCHANGED <<slots, pc, call, crashes, raw, tainted>>
  <2>1. CASE ChangeDir BY <2>1 DEF ChangeDir, Ready, DirTypeInv
  <2>2. CASE \E d \in Directories : OpenDir(d) BY <2>2, Zenon DEF OpenDir, Ready, DirTypeInv
  <2>3. CASE ReadStops BY <2>3, Zenon DEF ReadStops, Ready, DirTypeInv
  <2>4. CASE ReadEnds BY <2>4 DEF ReadEnds, Ready, DirTypeInv
  <2>5. CASE ReadFails BY <2>5, Zenon DEF ReadFails, Ready, DirTypeInv
  <2>6. CASE CloseDir BY <2>6 DEF CloseDir, Ready, DirTypeInv
  <2> QED BY <2>1, <2>2, <2>3, <2>4, <2>5, <2>6
<1>2. cwd' \in Cluster
  <2>1. ~tainted' BY <1>1
  <2>2. Start(cwd)' BY <2>1 DEF TreeInv, TreeSoundness, Rooted
  <2> QED BY <2>2 DEF Start, InUse
<1>3. SlotsPerCluster \in Nat /\ 0 \in 0 .. SlotsPerCluster /\ Slots \subseteq 0 .. SlotsPerCluster
  BY SlotsFacts, SMT
<1>4. ClosedDir \in [cluster : Cluster \cup {None}, pos : 0 .. SlotsPerCluster]
  BY <1>3 DEF ClosedDir
<1>5. dp.cluster \in Cluster \cup {None} BY DEF DirTypeInv, DirTyped
<1>6. ASSUME dp.cluster # None
      PROVE  Walk(dp.cluster) \in Seq(Cluster)
             /\ \A k \in DOMAIN Walk(dp.cluster) : Walk(dp.cluster)[k] \in Cluster
  <2>1. IsTable(fat) /\ dp.cluster \in Entry BY <1>1, <1>5, <1>6, TreeMeansDisk, TableNumbers
  <2>2. Walk(dp.cluster) \in Seq(Cluster) BY <2>1, ChainType DEF Walk
  <2> QED BY <2>2, LenProperties, ElementOfSeq
<1>7. DirTyped' /\ PassTyped' /\ faults' \in 0 .. MaxFaults
  <2>0. DirTyped /\ PassTyped BY DEF DirTypeInv
  <2>1. CASE ChangeDir
    <3>1. UNCHANGED <<dp, pass, faults>> BY <2>1 DEF ChangeDir
    <3> QED BY <2>0, <3>1, FaultTyped, PassKept DEF DirTyped
  <2>2. CASE \E d \in Directories : OpenDir(d)
    <3>1. PICK d \in Directories : OpenDir(d) BY <2>2
    <3>2. d \in Cluster /\ d \in Entry BY <1>1, DirectoryTyped
    <3>3. dp' = [cluster |-> d, pos |-> 0] /\ UNCHANGED faults BY <3>1, Zenon DEF OpenDir
    <3>4. DirTyped' BY <1>3, <3>2, <3>3 DEF DirTyped
    <3>5. OnChainIn(fat, d) \subseteq Cluster
      <4>1. IsTable(fat) /\ ChainIn(fat, d) \in Seq(Cluster) BY <1>1, <3>2, TreeMeansDisk, ChainType
      <4> QED BY <4>1, LenProperties, ElementOfSeq DEF OnChainIn
    <3>6. PICK want :
            pass' = [NoPass EXCEPT !.dir = d, !.want = want, !.staying =
                      {p \in OnChainIn(fat, d) \X Slots :
                         LET slot == slots[p[1]][p[2]]
                         IN  slot.kind = "short" /\ Stored83(slot) \in want}]
      BY <3>1, Zenon DEF OpenDir
    <3> DEFINE there == {p \in OnChainIn(fat, d) \X Slots :
                           LET slot == slots[p[1]][p[2]]
                           IN  slot.kind = "short" /\ Stored83(slot) \in want}
    <3>7. there \in Seen BY <3>5 DEF Seen
    <3>8. pass' = [dir |-> d, want |-> want, listed |-> {}, staying |-> there, again |-> FALSE,
                   cut |-> None]
      BY <3>6 DEF NoPass
    <3> HIDE DEF there
    <3>9. PassTyped' BY <3>7, <3>8 DEF PassTyped, Seen
    <3> QED BY <3>3, <3>4, <3>9, FaultTyped
  <2>3. CASE ReadStops
    <3>1. dp.cluster # None /\ UNCHANGED faults BY <2>3, Zenon DEF ReadStops
    <3> DEFINE ch == Walk(dp.cluster)
    <3>2. PICK p \in Stops :
            /\ dp' = [cluster |-> ch[p[1]], pos |-> p[2]]
            /\ pass' = IF slots[ch[p[1]]][p[2]].kind = "end" THEN pass
                       ELSE [pass EXCEPT !.again = @ \/ <<ch[p[1]], p[2]>> \in pass.listed,
                                         !.listed = @ \cup {<<ch[p[1]], p[2]>>}]
      BY <2>3, Zenon DEF ReadStops
    <3>3. p \in Places(ch) BY DEF Stops
    <3>4. p[1] \in DOMAIN ch /\ p[2] \in Slots BY <3>3 DEF Places
    <3> DEFINE c == ch[p[1]]
    <3>5. c \in Cluster BY <1>6, <3>1, <3>4
    <3> HIDE DEF c, ch
    <3>6. dp' = [cluster |-> c, pos |-> p[2]] BY <3>2 DEF c
    <3>7. DirTyped' BY <1>3, <3>4, <3>5, <3>6 DEF DirTyped
    <3>8. CASE UNCHANGED pass BY <2>0, <3>1, <3>7, <3>8, PassKept, FaultTyped
    <3>9. CASE pass' = [pass EXCEPT !.again = @ \/ <<c, p[2]>> \in pass.listed,
                                    !.listed = @ \cup {<<c, p[2]>>}]
      <4> DEFINE again == pass.again \/ <<c, p[2]>> \in pass.listed
                 listed == pass.listed \cup {<<c, p[2]>>}
      <4>1. pass' = [pass EXCEPT !.again = again, !.listed = listed] BY <3>9
      <4>2. listed \in Seen /\ pass.staying \in Seen BY <2>0, <3>4, <3>5 DEF PassTyped, Seen
      <4> HIDE DEF again, listed
      <4>3. pass' = [dir |-> pass.dir, want |-> pass.want, listed |-> listed,
                     staying |-> pass.staying, again |-> again, cut |-> pass.cut]
        BY <2>0, <4>1 DEF PassTyped
      <4>4. PassTyped' BY <2>0, <4>2, <4>3 DEF PassTyped
      <4> QED BY <3>1, <3>7, <4>4, FaultTyped
    <3> QED BY <3>2, <3>8, <3>9 DEF c
  <2>4. CASE ReadEnds
    <3>1. /\ dp' = ClosedDir /\ dp.cluster # None
          /\ \/ UNCHANGED <<pass, faults>>
             \/ Fault /\ \E k \in DOMAIN Walk(dp.cluster) :
                            pass' = [pass EXCEPT !.cut = Walk(dp.cluster)[k]]
      BY <2>4, Zenon DEF ReadEnds
    <3>2. ASSUME NEW k \in DOMAIN Walk(dp.cluster),
                 pass' = [pass EXCEPT !.cut = Walk(dp.cluster)[k]]
          PROVE  PassTyped'
      <4>1. PICK c \in Cluster : pass' = [pass EXCEPT !.cut = c] BY <1>6, <3>1, <3>2
      <4> QED BY <2>0, <4>1 DEF PassTyped
    <3>3. PassTyped' BY <2>0, <3>1, <3>2, PassKept
    <3>4. DirTyped' BY <1>4, <3>1 DEF DirTyped
    <3>5. faults' \in 0 .. MaxFaults BY <2>0, <3>1, FaultTyped
    <3> QED BY <3>3, <3>4, <3>5
  <2>5. CASE ReadFails
    <3>1. dp.cluster # None /\ Fault /\ UNCHANGED pass BY <2>5, Zenon DEF ReadFails
    <3>2. PICK k \in DOMAIN Walk(dp.cluster) :
            dp' = IF k = 1 THEN dp ELSE [cluster |-> Walk(dp.cluster)[k], pos |-> 0]
      BY <2>5, Zenon DEF ReadFails
    <3> DEFINE c == Walk(dp.cluster)[k]
    <3>3. c \in Cluster BY <1>6, <3>1, <3>2
    <3>4. dp' = dp \/ dp' = [cluster |-> c, pos |-> 0] BY <3>2
    <3> HIDE DEF c
    <3>5. DirTyped' BY <1>3, <2>0, <3>3, <3>4 DEF DirTyped
    <3> QED BY <2>0, <3>1, <3>5, FaultTyped, PassKept
  <2>6. CASE CloseDir
    <3>1. dp' = ClosedDir /\ pass' = NoPass /\ UNCHANGED faults BY <2>6 DEF CloseDir
    <3> QED BY <1>4, <2>0, <3>1, FaultTyped, PassKept DEF DirTyped
  <2> QED BY <2>1, <2>2, <2>3, <2>4, <2>5, <2>6
<1> QED BY <1>1, <1>2, <1>7 DEF DirTypeInv, CallTyped, Counted

LEMMA CrashTyped ==
  ASSUME DirTypeInv, TreeInv', Restart \/ Crash
  PROVE  DirTypeInv'
<1>1. Reboot BY DEF Restart, Crash
<1>2. cwd' = Root /\ dp' = ClosedDir /\ pass' = NoPass /\ EndCall /\ UNCHANGED <<faults, raw>>
  BY <1>1 DEF Reboot
<1>3. Root \in Cluster /\ 0 \in 0 .. SlotsPerCluster
  <2>1. TotalClusters \in Nat /\ TotalClusters >= 1 BY TableNumbers
  <2>2. SlotsPerCluster \in Nat BY SlotsFacts
  <2> QED BY <2>1, <2>2, SMT DEF Root, Cluster
<1>4. DirTyped' BY <1>2, <1>3 DEF DirTyped, ClosedDir
<1>5. PassTyped' BY <1>2, PassKept DEF DirTypeInv
<1>6. CallTyped' BY <1>2, EndCallTyped
<1>7. slots' \in Contents
  <2>1. UNCHANGED slots \/ (pc \in Writing /\ Torn) BY DEF Restart, Crash
  <2> QED BY <2>1, WriteTyped DEF DirTypeInv
<1>8. crashes' \in 0 .. MaxCrashes BY DirAssumption, SMT DEF Restart, Crash, DirTypeInv, Counted
<1>9. tainted' \in BOOLEAN
  <2>1. tainted \in BOOLEAN BY DEF DirTypeInv
  <2>2. CASE Restart BY <2>1, <2>2 DEF Restart
  <2>3. CASE Crash BY <2>3, Zenon DEF Crash
  <2> QED BY <2>2, <2>3
<1> QED BY <1>2, <1>3, <1>4, <1>5, <1>6, <1>7, <1>8, <1>9 DEF DirTypeInv, Counted

LEMMA DirTypeStep == DirTypeInv /\ [Next]_dirVars => DirTypeInv'
<1> SUFFICES ASSUME DirTypeInv, [Next]_dirVars PROVE DirTypeInv'
  OBVIOUS
<1>1. TreeInv' BY TreeStep DEF DirTypeInv
<1>2. CASE CallStarts
  <2>1. PICK d \in Directories :
          \/ \E n \in Names : CallMkdir(d, n) \/ CallOpen(d, n) \/ CallUnlink(d, n) \/ CallRename(d, n)
          \/ OpenDir(d)
    BY <1>2 DEF CallStarts
  <2> QED BY <1>1, <2>1, CallsTyped, ReadingTyped
<1>3. CASE UNCHANGED dirVars
  <2>1. UNCHANGED <<slots, cwd, pc, call, dp, pass, faults, crashes, raw, tainted>> BY <1>3 DEF dirVars
  <2>2. PassTyped' BY <2>1, PassKept DEF DirTypeInv
  <2> QED BY <1>1, <2>1, <2>2 DEF DirTypeInv, CallTyped, DirTyped, Counted
<1> QED
  BY <1>1, <1>2, <1>3, WritesTyped, PlacesTyped, ReadingTyped, CrashTyped DEF Next

LEMMA DirTypeInit == Init => DirTypeInv
<1> SUFFICES ASSUME Init PROVE DirTypeInv
  OBVIOUS
<1>1. TreeInv BY TreeInit
<1>2. 0 \in Entry /\ None = 0 BY TableNumbers DEF None
<1>3. Root \in Cluster /\ 0 \in 0 .. SlotsPerCluster
  <2>1. TotalClusters \in Nat /\ TotalClusters >= 1 BY TableNumbers
  <2>2. SlotsPerCluster \in Nat BY SlotsFacts
  <2> QED BY <2>1, <2>2, SMT DEF Root, Cluster
<1>4. slots \in Contents BY SlotsOf DEF Init, Contents, EmptyCluster
<1>5. CallTyped BY <1>2 DEF Init, CallTyped, CallType, NoCall, Locations, Somewhere
<1>6. DirTyped BY <1>3 DEF Init, DirTyped, ClosedDir
<1>7. PassTyped BY DEF Init, PassTyped, NoPass, Seen
<1>8. Counted BY DirAssumption, SMT DEF Init, Counted
<1>9. raw \subseteq Cluster /\ tainted \in BOOLEAN /\ cwd \in Cluster BY <1>3 DEF Init
<1> QED BY <1>1, <1>4, <1>5, <1>6, <1>7, <1>8, <1>9 DEF DirTypeInv

\* The variables of the directory calls keep their types: no number that is not a
\* cluster is followed, and no slot outside of one is written.
THEOREM DirTypeCorrect == DirSpec => []DirTypeOK
BY DirTypeInit, DirTypeStep, TypesMean, PTL DEF DirSpec

-----------------------------------------------------------------------------
(* Reading a directory while it changes.                                   *)

\* The pass has gone by slot s of the ith cluster of its directory.
By(i, s) ==
  \/ ReadTo.cluster = None
  \/ \E k \in DOMAIN Walk(pass.dir) :
       Walk(pass.dir)[k] = ReadTo.cluster /\ (i < k \/ (i = k /\ s <= ReadTo.pos))

\* Where the pass is, what it has yet to return and what it returned.
PassAt ==
  /\ Start(pass.dir)
  /\ ReadTo.cluster # None => ReadTo.cluster \in OnChainIn(fat, pass.dir)
  /\ dp.cluster # None => pass.cut = None

PassStaying ==
  \A p \in pass.staying :
    /\ p[1] \in OnChainIn(fat, pass.dir)
    /\ slots[p[1]][p[2]].kind = "short"
    /\ Stored83(slots[p[1]][p[2]]) \in pass.want

PassReturned ==
  LET ch == Walk(pass.dir)
  IN  /\ \A i \in DOMAIN ch, s \in Slots :
           By(i, s) /\ <<ch[i], s>> \in pass.staying => <<ch[i], s>> \in pass.listed
      /\ \A q \in pass.listed : \E i \in DOMAIN ch, s \in Slots : By(i, s) /\ q = <<ch[i], s>>

PassSound == pass.dir # None => PassAt /\ PassStaying /\ PassReturned

PassOnce == (pass.dir = None => pass.want = {}) /\ ~pass.again

PassInv == DirTypeInv /\ PassOnce /\ (~tainted => PassSound)

\* The chain of a directory stays, or grows at its end, as a cluster is taken.
LEMMA ChainGrows ==
  ASSUME IsTable(fat), LinksSound, OneMore, NEW d, Start(d)
  PROVE  \/ ChainIn(fat', d) = ChainIn(fat, d)
         \/ \E e \in Cluster : /\ e \notin OnChainIn(fat, d)
                               /\ fat[e] = FREE /\ fat'[e] = EndOfChain
                               /\ ChainIn(fat', d) = Append(ChainIn(fat, d), e)
<1>1. PICK e \in Cluster :
        /\ IsTable(fat') /\ fat[e] = FREE /\ fat'[e] = EndOfChain
        /\ \/ \A c \in FatIndex : c # e => fat'[c] = fat[c]
           \/ \E last \in Cluster : /\ fat[last] # FREE /\ fat[last] \notin Cluster
                                    /\ fat'[last] = e
                                    /\ \A c \in FatIndex : c # e /\ c # last => fat'[c] = fat[c]
  BY DEF OneMore
<1>2. Cluster \subseteq FatIndex /\ EndOfChain \notin Cluster /\ FREE \notin Cluster /\ EndOfChain \in Entry
  BY TableNumbers
<1>3. NoLinkTo(fat, e) BY <1>1 DEF LinksSound, NoLinkTo
<1>4. First(fat, d) /\ d # e /\ OnChainIn(fat, d) \subseteq Cluster
  <2>1. First(fat, d) BY DirChain
  <2>2. d # e BY <1>1 DEF Start, InUse
  <2> QED BY <2>1, <2>2, OnChainFacts
<1>5. e \notin OnChainIn(fat, d) BY <1>3, <1>4, NotOnChain
<1>6. CASE \A c \in FatIndex : c # e => fat'[c] = fat[c]
  <2>1. \A x \in OnChainIn(fat, d) : fat'[x] = fat[x] BY <1>2, <1>4, <1>5, <1>6
  <2> QED BY <1>1, <1>4, <2>1, UntouchedChain
<1>7. CASE \E last \in Cluster : /\ fat[last] # FREE /\ fat[last] \notin Cluster
                                 /\ fat'[last] = e
                                 /\ \A c \in FatIndex : c # e /\ c # last => fat'[c] = fat[c]
  <2>1. PICK last \in Cluster : /\ fat[last] # FREE /\ fat[last] \notin Cluster
                                /\ fat'[last] = e
                                /\ \A c \in FatIndex : c # e /\ c # last => fat'[c] = fat[c]
    BY <1>7
  <2>2. CASE last \notin OnChainIn(fat, d)
    <3>1. \A x \in OnChainIn(fat, d) : fat'[x] = fat[x] BY <1>2, <1>4, <1>5, <2>1, <2>2
    <3> QED BY <1>1, <1>4, <3>1, UntouchedChain
  <2>3. CASE last \in OnChainIn(fat, d)
    <3> DEFINE mid == [fat EXCEPT ![e] = EndOfChain]
    <3>1. IsTable(mid) /\ mid[e] = EndOfChain /\ \A x \in FatIndex : x # e => mid[x] = fat[x]
      BY <1>2 DEF IsTable
    <3> HIDE DEF mid
    <3>2. ChainIn(mid, d) = ChainIn(fat, d) /\ OnChainIn(mid, d) = OnChainIn(fat, d)
      <4>1. \A x \in OnChainIn(fat, d) : mid[x] = fat[x] BY <1>2, <1>4, <1>5, <3>1
      <4> QED BY <1>4, <3>1, <4>1, UntouchedChain
    <3>3. First(mid, d) /\ NoLinkTo(mid, e) /\ mid[e] \notin Cluster
      <4>1. \A x \in Cluster : mid[x] = fat[x] \/ (x = e /\ mid[x] \notin Cluster) BY <1>2, <3>1
      <4>2. Unique(mid) BY <1>4, <4>1 DEF First, Unique
      <4>3. NoLinkTo(mid, d) BY <1>4, <4>1 DEF First, NoLinkTo
      <4>4. NoLinkTo(mid, e) BY <1>3, <4>1 DEF NoLinkTo
      <4> QED BY <1>2, <1>4, <3>1, <4>2, <4>3, <4>4 DEF First
    <3>4. last # e /\ mid[last] \notin Cluster BY <1>1, <1>2, <2>1, <3>1
    <3>5. Changed(mid, fat', last, e) BY <1>1, <2>1, <3>1, <3>4 DEF Changed
    <3>6. ChainIn(fat', d) = Append(ChainIn(mid, d), e)
      <4> DEFINE g == fat'
      <4>1. Changed(mid, g, last, e) BY <3>5
      <4> HIDE DEF g
      <4>2. ChainIn(g, d) = Append(ChainIn(mid, d), e)
        BY ONLY e \in Cluster, <1>4, <2>1, <2>3, <3>2, <3>3, <3>4, <4>1, ChainLinked
      <4> QED BY <4>2 DEF g
    <3> QED BY <1>1, <1>5, <3>2, <3>6
  <2> QED BY <2>2, <2>3
<1> QED BY <1>1, <1>6, <1>7

\* The chains of other directories stay as one is freed.
LEMMA ChainSpared ==
  ASSUME IsTable(fat), LinksSound, NEW f, Start(f), NEW d, Start(d), d # f, fat' = Release(fat, f)
  PROVE  ChainIn(fat', d) = ChainIn(fat, d)
<1>1. First(fat, d) /\ First(fat, f) BY DirChain
<1>2. \A x \in OnChainIn(fat, d) : x \in FatIndex /\ x \notin OnChainIn(fat, f)
  BY <1>1, OnOneChain, OnChainFacts, TableNumbers
<1>3. f \in Entry BY <1>1, TableNumbers DEF First
<1> DEFINE g == fat'
<1>4. g = Release(fat, f) OBVIOUS
<1> HIDE DEF g
<1>5. IsTable(g) /\ \A x \in FatIndex : g[x] = IF x \in OnChainIn(fat, f) THEN FREE ELSE fat[x]
  BY <1>3, <1>4, ReleaseFacts
<1>6. \A x \in OnChainIn(fat, d) : g[x] = fat[x] BY <1>2, <1>5
<1>7. ChainIn(g, d) = ChainIn(fat, d) BY <1>1, <1>5, <1>6, UntouchedChain
<1> QED BY <1>7 DEF g

\* The pass is where it was, in a directory that may have grown and of whose slots
\* some may have changed.
LEMMA PassGoesOn ==
  ASSUME IsTable(fat), LinksSound, PassSound, pass.dir # None,
         UNCHANGED dp, pass'.cut = pass.cut, pass'.dir = pass.dir, pass'.want = pass.want, pass'.listed = pass.listed,
         pass'.staying \subseteq pass.staying, pass.staying \in Seen,
         \A p \in pass'.staying : slots'[p[1]][p[2]] = slots[p[1]][p[2]],
         Start(pass.dir)',
         \/ ChainIn(fat', pass.dir) = ChainIn(fat, pass.dir)
         \/ \E e \in Cluster : /\ e \notin OnChainIn(fat, pass.dir)
                               /\ ChainIn(fat', pass.dir) = Append(ChainIn(fat, pass.dir), e)
  PROVE  PassSound'
<1> DEFINE d == pass.dir
           ch == ChainIn(fat, d)
           new == ChainIn(fat', d)
<1>0. ReadTo' = ReadTo BY DEF ReadTo
<1>1. PassAt /\ PassStaying /\ PassReturned BY DEF PassSound
<1>2. ch \in Seq(Cluster) /\ OnChainIn(fat, d) = {ch[i] : i \in DOMAIN ch}
  <2>1. First(fat, d) BY <1>1, DirChain DEF PassAt
  <2> QED BY <2>1, ChainOfFirst DEF Whole, Path, OnChainIn
<1>3. /\ Walk(pass.dir) = ch /\ Walk(pass.dir)' = new
      /\ OnChainIn(fat', d) = {new[i] : i \in DOMAIN new}
  BY DEF Walk, OnChainIn
<1> HIDE DEF d
<1>4. /\ \A i \in DOMAIN ch : i \in DOMAIN new /\ new[i] = ch[i]
      /\ \A i \in DOMAIN new : new[i] \in OnChainIn(fat, d) => i \in DOMAIN ch
  <2>1. CASE new = ch BY <2>1
  <2>2. CASE new # ch
    <3>1. PICK e \in Cluster : e \notin OnChainIn(fat, d) /\ new = Append(ch, e) BY <2>2 DEF d
    <3> HIDE DEF ch, new
    <3>2. /\ Len(new) = Len(ch) + 1 /\ DOMAIN ch = 1 .. Len(ch) /\ DOMAIN new = 1 .. Len(new)
          /\ \A i \in 1 .. Len(ch) : new[i] = ch[i]
          /\ new[Len(ch) + 1] = e /\ Len(ch) \in Nat
      BY <1>2, <3>1, AppendProperties, LenProperties
    <3>3. \A i \in DOMAIN new : i \in DOMAIN ch \/ i = Len(ch) + 1 BY <3>2, SMT
    <3>4. \A i \in DOMAIN ch : i \in DOMAIN new BY <3>2, SMT
    <3> QED BY <3>1, <3>2, <3>3, <3>4
  <2> QED BY <2>1, <2>2
<1> HIDE DEF ch, new
<1>5. d = pass.dir /\ d = pass'.dir BY DEF d
<1>6. OnChainIn(fat, d) \subseteq OnChainIn(fat', d) BY <1>2, <1>3, <1>4
<1>7. PassAt' BY <1>0, <1>1, <1>5, <1>6 DEF PassAt
<1>8. PassStaying'
  BY <1>1, <1>5, <1>6 DEF PassStaying
<1>9. ASSUME NEW i \in DOMAIN new, NEW s, By(i, s)', new[i] \in OnChainIn(fat, d)
      PROVE  i \in DOMAIN ch /\ By(i, s)
  <2>1. i \in DOMAIN ch BY <1>4, <1>9
  <2>2. CASE ReadTo.cluster = None BY <2>1, <2>2 DEF By
  <2>3. CASE ReadTo.cluster # None
    <3>1. PICK k \in DOMAIN new : new[k] = ReadTo.cluster /\ (i < k \/ (i = k /\ s <= ReadTo.pos))
      BY <1>0, <1>3, <1>5, <1>9, <2>3 DEF By
    <3>2. k \in DOMAIN ch /\ ch[k] = ReadTo.cluster
      BY <1>1, <1>4, <1>5, <2>3, <3>1 DEF PassAt
    <3> QED BY <1>3, <1>5, <2>1, <3>1, <3>2 DEF By
  <2> QED BY <2>2, <2>3
<1>10. ASSUME NEW i \in DOMAIN ch, NEW s, By(i, s) PROVE By(i, s)'
  <2>1. CASE ReadTo.cluster = None BY <1>0, <2>1 DEF By
  <2>2. CASE ReadTo.cluster # None
    <3>1. PICK k \in DOMAIN ch : ch[k] = ReadTo.cluster /\ (i < k \/ (i = k /\ s <= ReadTo.pos))
      BY <1>3, <1>5, <1>10, <2>2 DEF By
    <3> QED BY <1>0, <1>3, <1>4, <1>5, <3>1 DEF By
  <2> QED BY <2>1, <2>2
<1>11. PassReturned'
  <2>1. ASSUME NEW i \in DOMAIN new, NEW s \in Slots, By(i, s)', <<new[i], s>> \in pass'.staying
        PROVE  <<new[i], s>> \in pass'.listed
    <3>1. <<new[i], s>> \in pass.staying BY <2>1
    <3>2. new[i] \in OnChainIn(fat, d) BY <1>1, <1>5, <3>1 DEF PassStaying
    <3>3. i \in DOMAIN ch /\ By(i, s) /\ new[i] = ch[i] BY <1>4, <1>9, <2>1, <3>2
    <3> QED BY <1>1, <1>3, <1>5, <3>1, <3>3, Zenon DEF PassReturned
  <2>2. ASSUME NEW q \in pass'.listed
        PROVE  \E i \in DOMAIN new, s \in Slots : By(i, s)' /\ q = <<new[i], s>>
    <3>1. PICK i \in DOMAIN ch, s \in Slots : By(i, s) /\ q = <<ch[i], s>>
      <4>1. q \in pass.listed BY <2>2
      <4>2. \E i \in DOMAIN ch, s \in Slots : By(i, s) /\ q = <<ch[i], s>>
        BY <1>1, <1>3, <4>1, Zenon DEF PassReturned
      <4> QED BY <4>2, Zenon
    <3>2. i \in DOMAIN new /\ new[i] = ch[i] /\ By(i, s)' BY <1>4, <1>10, <3>1
    <3> QED BY <3>1, <3>2
  <2> QED BY <1>3, <2>1, <2>2, Zenon DEF PassReturned
<1> QED BY <1>7, <1>8, <1>11 DEF PassSound

LEMMA ReadingIsHere ==
  ASSUME PassAt, dp.cluster # None PROVE ReadTo = dp
BY DEF PassAt, ReadTo

\* What f_readdir walks is the rest of the chain of the directory.
LEMMA RestAhead ==
  ASSUME IsTable(fat), LinksSound, PassAt, dp.cluster # None
  PROVE  LET ch == Walk(pass.dir)
             rest == Walk(dp.cluster)
         IN  /\ ch \in Seq(Cluster) /\ Len(ch) \in Nat /\ DOMAIN ch = 1 .. Len(ch)
             /\ \A i, j \in DOMAIN ch : ch[i] = ch[j] => i = j
             /\ \E k \in DOMAIN ch :
                  /\ ch[k] = dp.cluster /\ DOMAIN rest = 1 .. Len(ch) - k + 1
                  /\ \A j \in DOMAIN rest : k + j - 1 \in DOMAIN ch /\ rest[j] = ch[k + j - 1]
<1> DEFINE ch == ChainIn(fat, pass.dir)
           rest == ChainIn(fat, dp.cluster)
<1>1. Whole(fat, ch) /\ Len(ch) <= TotalClusters
  <2>1. First(fat, pass.dir) BY DirChain DEF PassAt
  <2> QED BY <2>1, ChainOfFirst
<1>2. dp.cluster \in {ch[i] : i \in DOMAIN ch} BY ReadingIsHere DEF PassAt, OnChainIn
<1>3. Walk(pass.dir) = ch /\ Walk(dp.cluster) = rest BY DEF Walk
<1> HIDE DEF ch
<1>4. ch \in Seq(Cluster) /\ Len(ch) \in Nat /\ DOMAIN ch = 1 .. Len(ch) /\ Path(fat, ch)
  BY <1>1, PathFacts DEF Whole
<1>5. \A i, j \in DOMAIN ch : ch[i] = ch[j] => i = j BY <1>1, <1>4, WholeOnce
<1>6. PICK k \in 1 .. Len(ch) : ch[k] = dp.cluster BY <1>2, <1>4
<1>7. rest = SubSeq(ch, k, Len(ch)) BY <1>1, <1>6, ChainFromMiddle
<1> HIDE DEF rest
<1>8. Path(fat, rest) /\ Len(rest) = Len(ch) - k + 1
      /\ \A i \in 1 .. Len(ch) - k + 1 : rest[i] = ch[k + i - 1]
  BY <1>4, <1>7, PathPieces
<1>9. DOMAIN rest = 1 .. Len(ch) - k + 1 BY <1>8, PathFacts
<1>10. \A j \in 1 .. Len(ch) - k + 1 : k + j - 1 \in 1 .. Len(ch) BY <1>4, SMT
<1> QED BY <1>3, <1>4, <1>5, <1>6, <1>8, <1>9, <1>10

\* It stops at every entry it is to return and has not gone by.
LEMMA StopsAhead ==
  ASSUME IsTable(fat), LinksSound, PassAt, DirTyped, PassStaying, dp.cluster # None
  PROVE  LET ch == Walk(pass.dir)
             rest == Walk(dp.cluster)
         IN  \E k \in DOMAIN ch :
               /\ ch[k] = dp.cluster /\ DOMAIN rest = 1 .. Len(ch) - k + 1
               /\ \A j \in DOMAIN rest : k + j - 1 \in DOMAIN ch /\ rest[j] = ch[k + j - 1]
               /\ \A i \in DOMAIN ch, s \in Slots :
                    <<ch[i], s>> \in pass.staying /\ ~By(i, s) =>
                      /\ i - k + 1 \in DOMAIN rest /\ <<i - k + 1, s>> \in Stops
                      /\ slots[ch[i]][s].kind = "short"
<1> DEFINE ch == Walk(pass.dir)
           rest == Walk(dp.cluster)
<1>0. /\ Len(ch) \in Nat /\ DOMAIN ch = 1 .. Len(ch)
      /\ \E k \in DOMAIN ch :
           /\ ch[k] = dp.cluster /\ DOMAIN rest = 1 .. Len(ch) - k + 1
           /\ \A j \in DOMAIN rest : k + j - 1 \in DOMAIN ch /\ rest[j] = ch[k + j - 1]
  BY RestAhead
<1>1. PICK k \in DOMAIN ch :
        /\ ch[k] = dp.cluster /\ DOMAIN rest = 1 .. Len(ch) - k + 1
        /\ \A j \in DOMAIN rest : k + j - 1 \in DOMAIN ch /\ rest[j] = ch[k + j - 1]
  BY <1>0
<1>2. ASSUME NEW i \in DOMAIN ch, NEW s \in Slots, <<ch[i], s>> \in pass.staying, ~By(i, s)
      PROVE  /\ i - k + 1 \in DOMAIN rest /\ <<i - k + 1, s>> \in Stops
             /\ slots[ch[i]][s].kind = "short"
  <2>1. /\ slots[ch[i]][s].kind = "short" /\ Stored83(slots[ch[i]][s]) \in pass.want
    BY <1>2, Zenon DEF PassStaying
  <2>2. ~(i < k) /\ (i = k => ~(s <= dp.pos)) BY <1>1, <1>2, ReadingIsHere DEF By
  <2>3. s \in Nat /\ dp.pos \in Nat
    <3>1. SlotsPerCluster \in Nat BY SlotsFacts
    <3> QED BY <3>1, SMT DEF DirTyped, Slots
  <2> HIDE DEF ch, rest
  <2>4. /\ i - k + 1 \in DOMAIN rest /\ k + (i - k + 1) - 1 = i
        /\ i - k + 1 > 1 \/ s > dp.pos
    <3>1. \A n \in Nat : \A a, b \in 1 .. n : ~(a < b) =>
            /\ a - b + 1 \in 1 .. n - b + 1 /\ b + (a - b + 1) - 1 = a
            /\ a = b \/ a - b + 1 > 1
      BY SMT
    <3>2. i \in 1 .. Len(ch) /\ k \in 1 .. Len(ch) /\ Len(ch) \in Nat /\ ~(i < k)
      BY ONLY <1>0, <2>2, i \in DOMAIN ch, k \in DOMAIN ch
    <3>3. /\ i - k + 1 \in 1 .. Len(ch) - k + 1 /\ k + (i - k + 1) - 1 = i
          /\ i = k \/ i - k + 1 > 1
      BY ONLY <3>1, <3>2
    <3>4. \A a, b \in Nat : ~(a <= b) => a > b BY SMT
    <3>5. i = k => s > dp.pos BY ONLY <2>2, <2>3, <3>4
    <3> QED BY <1>1, <3>3, <3>5
  <2> DEFINE q == <<i - k + 1, s>>
  <2>5. q \in Places(rest) /\ At(slots, rest, q) = slots[ch[i]][s]
    <3>1. rest[i - k + 1] = ch[i] BY <1>1, <2>4
    <3> QED BY <2>4, <3>1 DEF Places, At
  <2>6. q[1] > 1 \/ q[2] > dp.pos BY <2>4
  <2> HIDE DEF q
  <2>7. q \in Stops BY <2>1, <2>5, <2>6 DEF Stops, rest
  <2> QED BY <2>1, <2>4, <2>7 DEF q
<1> HIDE DEF ch, rest
<1>3. \E k1 \in DOMAIN ch :
        /\ ch[k1] = dp.cluster /\ DOMAIN rest = 1 .. Len(ch) - k1 + 1
        /\ \A j \in DOMAIN rest : k1 + j - 1 \in DOMAIN ch /\ rest[j] = ch[k1 + j - 1]
        /\ \A i \in DOMAIN ch, s \in Slots :
             <<ch[i], s>> \in pass.staying /\ ~By(i, s) =>
               /\ i - k1 + 1 \in DOMAIN rest /\ <<i - k1 + 1, s>> \in Stops
               /\ slots[ch[i]][s].kind = "short"
  <2> WITNESS k \in DOMAIN ch
  <2> QED BY <1>1, <1>2
<1> QED BY <1>3 DEF ch, rest

\* f_readdir gets to slot t of the mth cluster and leaves nothing behind.
LEMMA PassMoves ==
  ASSUME IsTable(fat), LinksSound, PassSound, pass.dir # None, dp.cluster # None, DirTyped,
         UNCHANGED <<fat, slots, raw>>, pass'.dir = pass.dir, pass'.want = pass.want,
         pass'.staying = pass.staying, pass.listed \subseteq pass'.listed,
         NEW ch, ch = Walk(pass.dir), NEW m \in DOMAIN ch, NEW t \in Nat,
         ReadTo' = [cluster |-> ch[m], pos |-> t], dp'.cluster # None => pass'.cut = None,
         \A k \in DOMAIN ch : ch[k] = dp.cluster => k < m \/ (k = m /\ dp.pos <= t),
         \A q \in pass'.listed : q \in pass.listed \/ (q = <<ch[m], t>> /\ t \in Slots),
         \A i \in DOMAIN ch, s \in Slots :
           /\ i < m \/ (i = m /\ s <= t)
           /\ <<ch[i], s>> \in pass.staying /\ ~By(i, s)
           => <<ch[i], s>> \in pass'.listed
  PROVE  PassSound'
<1>1. PassAt /\ PassStaying /\ PassReturned BY DEF PassSound
<1>2. /\ Len(ch) \in Nat /\ DOMAIN ch = 1 .. Len(ch)
      /\ \A i, j \in DOMAIN ch : ch[i] = ch[j] => i = j
  BY <1>1, RestAhead
<1>3. Walk(pass.dir)' = ch /\ OnChainIn(fat, pass.dir)' = {ch[i] : i \in DOMAIN ch}
  BY DEF Walk, OnChainIn
<1>4. ReadTo'.cluster = ch[m] /\ ReadTo'.pos = t OBVIOUS
<1>5. ReadTo'.cluster # None
  <2>1. ch \in Seq(Cluster) BY <1>1, RestAhead
  <2>2. ch[m] \in Cluster BY <2>1
  <2> QED BY <1>4, <2>2, TableNumbers DEF None
<1>6. PassAt' BY <1>1, <1>3, <1>4 DEF PassAt, Start, InUse, NoLinkTo
<1>7. PassStaying' BY <1>1 DEF PassStaying
<1>8. \A i \in DOMAIN ch, s \in Slots : By(i, s)' <=> i < m \/ (i = m /\ s <= t)
  BY <1>2, <1>3, <1>4, <1>5 DEF By
<1>9. ASSUME NEW i \in DOMAIN ch, NEW s \in Slots, By(i, s) PROVE By(i, s)'
  <2>1. PICK k \in DOMAIN ch : ch[k] = dp.cluster /\ (i < k \/ (i = k /\ s <= dp.pos))
    BY <1>1, <1>9, ReadingIsHere DEF By
  <2>2. k < m \/ (k = m /\ dp.pos <= t) BY <2>1
  <2>3. s \in Nat /\ dp.pos \in Nat
    <3>1. SlotsPerCluster \in Nat BY SlotsFacts
    <3> QED BY <3>1, SMT DEF DirTyped, Slots
  <2>4. i < m \/ (i = m /\ s <= t) BY <1>2, <2>1, <2>2, <2>3, SMT
  <2> QED BY <1>8, <2>4
<1>10. PassReturned'
  <2>1. ASSUME NEW i \in DOMAIN ch, NEW s \in Slots, By(i, s)', <<ch[i], s>> \in pass'.staying
        PROVE  <<ch[i], s>> \in pass'.listed
    <3>1. CASE By(i, s) BY <1>1, <2>1, <3>1, Zenon DEF PassReturned
    <3>2. CASE ~By(i, s) BY <1>8, <2>1, <3>2
    <3> QED BY <3>1, <3>2
  <2>2. ASSUME NEW q \in pass'.listed
        PROVE  \E i \in DOMAIN ch, s \in Slots : By(i, s)' /\ q = <<ch[i], s>>
    <3>1. CASE q \in pass.listed
      <4>1. PICK i \in DOMAIN ch, s \in Slots : By(i, s) /\ q = <<ch[i], s>>
        BY <1>1, <3>1, Zenon DEF PassReturned
      <4> QED BY <1>9, <4>1
    <3>2. CASE q = <<ch[m], t>> /\ t \in Slots
      <4>1. m = m /\ t <= t OBVIOUS
      <4>2. By(m, t)' BY <1>8, <3>2, <4>1
      <4> QED BY <3>2, <4>2
    <3> QED BY <3>1, <3>2
  <2> QED BY <1>3, <2>1, <2>2 DEF PassReturned
<1> QED BY <1>6, <1>7, <1>10 DEF PassSound

\* What the lemmas about the pass need.
LEMMA PassMeans ==
  ASSUME PassInv
  PROVE  /\ IsTable(fat) /\ PassTyped /\ DirTyped /\ PassOnce
         /\ ~tainted => LinksSound /\ TreeSoundness /\ PassSound
BY DEF PassInv, DirTypeInv, TreeInv, TreeSoundness

\* There is no pass any more.
LEMMA PassEnded ==
  ASSUME pass' = NoPass PROVE PassOnce' /\ PassSound'
<1>1. pass'.dir = None /\ pass'.want = {} /\ ~pass'.again BY DEF NoPass
<1> QED BY <1>1 DEF PassOnce, PassSound

\* Steps of other calls.
LEMMA PassFollows ==
  ASSUME PassInv, UNCHANGED dp, UNCHANGED <<slots, pass>> \/ StillThere,
         ~tainted' => /\ ~tainted
                      /\ pass.dir # None => Start(pass.dir)'
                      /\ UNCHANGED fat \/ OneMore
                         \/ \E f : Start(f) /\ fat' = Release(fat, f) /\ pass.dir # f
  PROVE  PassOnce' /\ (~tainted' => PassSound')
<1>1. /\ pass'.dir = pass.dir /\ pass'.want = pass.want /\ pass'.listed = pass.listed
      /\ pass'.staying \subseteq pass.staying
      /\ \A p \in pass'.staying : slots'[p[1]][p[2]] = slots[p[1]][p[2]]
      /\ pass'.again = pass.again /\ pass'.cut = pass.cut
  <2>1. CASE UNCHANGED <<slots, pass>> BY <2>1
  <2>2. CASE StillThere
    <3> DEFINE left == {p \in pass.staying : slots'[p[1]][p[2]] = slots[p[1]][p[2]]}
    <3>1. pass' = [pass EXCEPT !.staying = left] BY <2>2 DEF StillThere
    <3>2. left \subseteq pass.staying /\ \A p \in left : slots'[p[1]][p[2]] = slots[p[1]][p[2]]
      OBVIOUS
    <3> HIDE DEF left
    <3>3. pass' = [dir |-> pass.dir, want |-> pass.want, listed |-> pass.listed,
                   staying |-> left, again |-> pass.again, cut |-> pass.cut]
      BY <3>1, PassMeans DEF PassTyped
    <3> QED BY <3>2, <3>3
  <2> QED BY <2>1, <2>2
<1>2. PassOnce' BY <1>1, PassMeans DEF PassOnce
<1>3. ASSUME ~tainted' PROVE PassSound'
  <2>1. IsTable(fat) /\ LinksSound /\ PassSound /\ pass.staying \in Seen
    BY <1>3, PassMeans DEF PassTyped
  <2>2. CASE pass.dir = None BY <1>1, <2>2 DEF PassSound
  <2>3. CASE pass.dir # None
    <3>1. Start(pass.dir) BY <2>1, <2>3 DEF PassSound, PassAt
    <3>2. \/ ChainIn(fat', pass.dir) = ChainIn(fat, pass.dir)
          \/ \E e \in Cluster : /\ e \notin OnChainIn(fat, pass.dir)
                                /\ ChainIn(fat', pass.dir) = Append(ChainIn(fat, pass.dir), e)
      <4>1. CASE UNCHANGED fat BY <4>1
      <4>2. CASE OneMore BY <2>1, <3>1, <4>2, ChainGrows
      <4>3. CASE \E f : Start(f) /\ fat' = Release(fat, f) /\ pass.dir # f
        <5>1. PICK f : Start(f) /\ fat' = Release(fat, f) /\ pass.dir # f BY <4>3
        <5> QED BY <2>1, <3>1, <5>1, ChainSpared
      <4> QED BY <1>3, <4>1, <4>2, <4>3
    <3>3. Start(pass.dir)' BY <1>1, <1>3, <2>3 DEF Start
    <3> QED BY <1>1, <2>1, <2>3, <3>2, <3>3, PassGoesOn
  <2> QED BY <2>2, <2>3
<1> QED BY <1>2, <1>3

\* No step but the freeing of a directory takes a beginning away.
LEMMA StartsStay ==
  ASSUME UNCHANGED fat, raw' \subseteq raw, NEW c, Start(c)
  PROVE  c \in InUse' /\ NoLinkTo(fat', c)
BY DEF Start, InUse, NoLinkTo

\* The calls on names, and f_opendir.
LEMMA PassCalls ==
  ASSUME PassInv, DirTypeInv', NEW d \in Directories, NEW n \in Names,
         CallMkdir(d, n) \/ CallOpen(d, n) \/ CallUnlink(d, n) \/ CallRename(d, n)
  PROVE  PassOnce' /\ (~tainted' => PassSound')
<1>1. ~tainted /\ pc = "idle" /\ TreeInv /\ UNCHANGED <<dp, slots>>
  <2>1. CASE CallMkdir(d, n) BY <2>1 DEF CallMkdir, Ready, NoPassStep, PassInv, DirTypeInv
  <2>2. CASE CallOpen(d, n) BY <2>2 DEF CallOpen, Ready, NoPassStep, PassInv, DirTypeInv
  <2>3. CASE CallUnlink(d, n) BY <2>3, Zenon DEF CallUnlink, Ready, PassInv, DirTypeInv
  <2>4. CASE CallRename(d, n) BY <2>4, Zenon DEF CallRename, Ready, NoPassStep, PassInv, DirTypeInv
  <2> QED BY <2>1, <2>2, <2>3, <2>4
<1>2. Start(d) BY <1>1, PassMeans, DirectoriesStart
<1>3. NamesInv' BY DEF DirTypeInv, TreeInv
<1>4. PassSound /\ (pass.dir # None => Start(pass.dir)) BY <1>1, PassMeans DEF PassSound, PassAt
<1>5. CASE CallMkdir(d, n)
  <2>1. UNCHANGED pass BY <1>5 DEF CallMkdir, NoPassStep
  <2>2. ~tainted' => OneMore /\ \A c : Start(c) => Start(c)'
    BY <1>1, <1>2, <1>3, <1>5, TreeMkdir
  <2>3. ~tainted' => (pass.dir # None => Start(pass.dir)') BY <1>4, <2>1, <2>2 DEF Start
  <2> QED BY <1>1, <2>1, <2>2, <2>3, PassFollows
<1>6. CASE CallOpen(d, n) \/ CallRename(d, n)
  <2>1. UNCHANGED <<pass, fat, raw>>
    <3>1. CASE CallOpen(d, n) BY <3>1 DEF CallOpen, NoPassStep
    <3>2. CASE CallRename(d, n) BY <3>2, Zenon DEF CallRename, NoPassStep
    <3> QED BY <1>6, <3>1, <3>2
  <2>2. pass.dir # None => Start(pass.dir)' BY <1>4, <2>1 DEF Start, InUse, NoLinkTo
  <2> QED BY <1>1, <2>1, <2>2, PassFollows
<1>7. CASE CallUnlink(d, n)
  <2>0. ~tainted' => OneLess BY <1>1, <1>2, <1>3, <1>7, TreeUnlink
  <2>1. pass' \in {pass, NoPass}
    <3>1. \E sl \in Looks(d), c \in Cluster, s \in Slots :
            pass' = IF sl[c][s].dir /\ sl[c][s].first = pass.dir THEN NoPass ELSE pass
      BY <1>7, Zenon DEF CallUnlink
    <3> QED BY <3>1, Zenon
  <2>2. CASE pass' = NoPass BY <2>2, PassEnded
  <2>3. CASE UNCHANGED pass /\ pass' # NoPass
    <3>1. CASE UNCHANGED fat /\ \A x : Start(x) => Start(x)'
      <4>1. pass.dir # None => Start(pass.dir)' BY <1>4, <2>3, <3>1 DEF Start
      <4> QED BY <1>1, <2>3, <3>1, <4>1, PassFollows
    <3>2. CASE \E f : /\ Start(f) /\ fat' = Release(fat, f) /\ pass.dir # f
                      /\ \A x : Start(x) /\ x # f => Start(x)'
      <4>1. PICK f : /\ Start(f) /\ fat' = Release(fat, f) /\ pass.dir # f
                     /\ \A x : Start(x) /\ x # f => Start(x)'
        BY <3>2
      <4>2. pass.dir # None => Start(pass.dir)' BY <1>4, <2>3, <4>1 DEF Start
      <4> QED BY <1>1, <2>3, <4>1, <4>2, PassFollows
    <3>3. CASE tainted'
      <4>1. ~(~tainted') BY <3>3
      <4> QED BY <1>1, <2>3, <4>1, PassFollows
    <3>4. ~tainted' => \/ UNCHANGED fat /\ \A x : Start(x) => Start(x)'
                       \/ \E f : /\ Start(f) /\ fat' = Release(fat, f) /\ pass.dir # f
                                 /\ \A x : Start(x) /\ x # f => Start(x)'
      <4> SUFFICES ASSUME ~tainted'
                   PROVE  \/ UNCHANGED fat /\ \A x : Start(x) => Start(x)'
                          \/ \E f : /\ Start(f) /\ fat' = Release(fat, f) /\ pass.dir # f
                                    /\ \A x : Start(x) /\ x # f => Start(x)'
        OBVIOUS
      <4>1. OneLess BY <2>0
      <4>2. CASE UNCHANGED fat /\ \A x : Start(x) => Start(x)' BY <4>2
      <4>3. CASE \E f : /\ Start(f) /\ fat' = Release(fat, f)
                        /\ pass' = NoPass \/ (pass' = pass /\ pass.dir # f)
                        /\ \A x : Start(x) /\ x # f => Start(x)'
        BY <2>3, <4>3
      <4> QED BY <4>1, <4>2, <4>3 DEF OneLess
    <3> QED BY <3>1, <3>2, <3>3, <3>4
  <2> QED BY <2>1, <2>2, <2>3
<1> QED BY <1>5, <1>6, <1>7

\* The cluster writes of the other calls.
LEMMA PassWrites ==
  ASSUME PassInv, [Next]_dirVars,
         ClearNew \/ InitNew \/ ClearExtension \/ WriteEntry \/ DeleteEntry
  PROVE  PassOnce' /\ (~tainted' => PassSound')
<1>1. UNCHANGED <<dp, fat>> /\ raw' \subseteq raw /\ StillThere
  <2>1. CASE ClearNew BY <2>1 DEF ClearNew, WriteWorks, WriteFails
  <2>2. CASE InitNew BY <2>2 DEF InitNew, WriteWorks, WriteFails
  <2>3. CASE ClearExtension BY <2>3 DEF ClearExtension, WriteWorks, WriteFails
  <2>4. CASE WriteEntry BY <2>4 DEF WriteEntry, WriteWorks, WriteFails
  <2>5. CASE DeleteEntry BY <2>5, Zenon DEF DeleteEntry, WriteWorks, WriteFails
  <2> QED BY <2>1, <2>2, <2>3, <2>4, <2>5
<1>2. pass'.dir = pass.dir
  <2> DEFINE left == {p \in pass.staying : slots'[p[1]][p[2]] = slots[p[1]][p[2]]}
  <2>1. pass' = [pass EXCEPT !.staying = left] BY <1>1 DEF StillThere
  <2> HIDE DEF left
  <2> QED BY <2>1, PassMeans DEF PassTyped
<1>3. ASSUME ~tainted' PROVE ~tainted /\ (pass.dir # None => Start(pass.dir)')
  <2>1. ~tainted BY <1>3, TaintStays
  <2>2. pass.dir # None => Start(pass.dir) BY <2>1, PassMeans DEF PassSound, PassAt
  <2> QED BY <1>1, <1>2, <2>1, <2>2, StartsStay DEF Start
<1> QED BY <1>1, <1>3, PassFollows

\* The other steps of calls that create entries.
LEMMA PassPlaces ==
  ASSUME PassInv, DirTypeInv', [Next]_dirVars,
         PlaceInside \/ PlaceBehind \/ PlaceFails \/ CheckTarget \/ ChangeDir
  PROVE  PassOnce' /\ (~tainted' => PassSound')
<1>1. UNCHANGED <<dp, slots, pass>>
  <2>1. CASE PlaceInside \/ PlaceBehind \/ PlaceFails \/ CheckTarget
    BY <2>1 DEF PlaceInside, PlaceBehind, PlaceFails, CheckTarget, NoPassStep
  <2>2. CASE ChangeDir BY <2>2 DEF ChangeDir
  <2> QED BY <2>1, <2>2
<1>2. ~tainted' => ~tainted BY TaintStays
<1>3. ~tainted /\ pass.dir # None => Start(pass.dir) BY PassMeans DEF PassSound, PassAt
<1>4. CASE PlaceBehind
  <2>1. ~tainted' => OneMore /\ \A c : Start(c) => Start(c)'
    BY <1>4, TreePlaceBehind DEF PassInv, DirTypeInv, TreeInv
  <2>2. ~tainted' => (pass.dir # None => Start(pass.dir)') BY <1>1, <1>2, <1>3, <2>1 DEF Start
  <2> QED BY <1>1, <1>2, <2>1, <2>2, PassFollows
<1>5. CASE PlaceInside \/ PlaceFails \/ CheckTarget \/ ChangeDir
  <2>1. UNCHANGED <<fat, raw>>
    <3>1. CASE PlaceInside \/ PlaceFails \/ CheckTarget
      BY <3>1 DEF PlaceInside, PlaceFails, CheckTarget
    <3>2. CASE ChangeDir BY <3>2 DEF ChangeDir
    <3> QED BY <1>5, <3>1, <3>2
  <2>2. ~tainted' => (pass.dir # None => Start(pass.dir)')
    BY <1>1, <1>2, <1>3, <2>1, StartsStay DEF Start
  <2> QED BY <1>1, <1>2, <2>1, <2>2, PassFollows
<1> QED BY <1>4, <1>5

\* A pass begins.
LEMMA PassBegins ==
  ASSUME PassInv, NEW d \in Directories, OpenDir(d)
  PROVE  PassOnce' /\ PassSound'
<1>1. ~tainted /\ pc = "idle" /\ dp' = [cluster |-> d, pos |-> 0] /\ UNCHANGED <<fat, slots, raw>>
  BY Zenon DEF OpenDir, Ready
<1>2. IsTable(fat) /\ LinksSound /\ TreeSoundness BY <1>1, PassMeans
<1>3. Start(d) /\ d # None
  <2>1. Start(d) BY <1>1, <1>2, DirectoriesStart
  <2> QED BY <2>1, TableNumbers DEF Start, InUse, None
<1>4. PICK want :
        pass' = [NoPass EXCEPT !.dir = d, !.want = want, !.staying =
                  {p \in OnChainIn(fat, d) \X Slots :
                     LET slot == slots[p[1]][p[2]]
                     IN  slot.kind = "short" /\ Stored83(slot) \in want}]
  BY Zenon DEF OpenDir
<1> DEFINE there == {p \in OnChainIn(fat, d) \X Slots :
                       LET slot == slots[p[1]][p[2]]
                       IN  slot.kind = "short" /\ Stored83(slot) \in want}
<1>5. pass' = [dir |-> d, want |-> want, listed |-> {}, staying |-> there, again |-> FALSE,
               cut |-> None]
  BY <1>4 DEF NoPass
<1>6. \A p \in there : /\ p[1] \in OnChainIn(fat, d) /\ slots[p[1]][p[2]].kind = "short"
                       /\ Stored83(slots[p[1]][p[2]]) \in want
  OBVIOUS
<1> HIDE DEF there
<1>7. /\ pass'.dir = d /\ pass'.want = want /\ pass'.listed = {} /\ pass'.staying = there
      /\ ~pass'.again /\ pass'.cut = None
  BY <1>5
<1>dp. ReadTo' = [cluster |-> d, pos |-> 0] BY <1>1, <1>7 DEF ReadTo
<1> DEFINE ch == ChainIn(fat, d)
<1>8. d \in OnChainIn(fat, d) /\ ch[1] = d /\ Len(ch) \in Nat /\ DOMAIN ch = 1 .. Len(ch)
      /\ Whole(fat, ch) /\ 1 \in 1 .. Len(ch)
  <2>1. First(fat, d) BY <1>2, <1>3, DirChain
  <2>2. Whole(fat, ch) /\ ch[1] = d BY <2>1, ChainOfFirst
  <2>3. Path(fat, ch) BY <2>2 DEF Whole
  <2> HIDE DEF ch
  <2>4. Len(ch) \in Nat /\ DOMAIN ch = 1 .. Len(ch) /\ 1 \in 1 .. Len(ch) BY <2>3, PathFacts
  <2> QED BY <2>1, <2>2, <2>4, OnChainFacts
<1>9. Walk(pass.dir)' = ch /\ OnChainIn(fat', pass'.dir) = OnChainIn(fat, d) BY <1>1, <1>7 DEF Walk
<1> HIDE DEF ch
<1>10. \A i \in DOMAIN ch, s \in Slots : ~By(i, s)'
  <2> SUFFICES ASSUME NEW i \in DOMAIN ch, NEW s \in Slots, By(i, s)' PROVE FALSE
    OBVIOUS
  <2>1. ReadTo'.cluster = d /\ ReadTo'.pos = 0 BY <1>dp
  <2>2. PICK k \in DOMAIN ch : ch[k] = d /\ (i < k \/ (i = k /\ s <= 0))
    BY <1>3, <1>9, <2>1 DEF By
  <2>3. k = 1 BY <1>8, <2>2, WholeOnce
  <2>4. ~(i < 1) /\ ~(s <= 0)
    <3>1. SlotsPerCluster \in Nat BY SlotsFacts
    <3> QED BY <1>8, <3>1, SMT DEF Slots
  <2> QED BY <2>2, <2>3, <2>4
<1>11. PassAt'
  <2>1. Start(d)' BY <1>1, <1>3 DEF Start, InUse, NoLinkTo
  <2> QED BY <1>dp, <1>7, <1>8, <1>9, <2>1 DEF PassAt, Start
<1>12. PassStaying' BY <1>1, <1>6, <1>7 DEF PassStaying
<1>13. PassReturned' BY <1>7, <1>9, <1>10 DEF PassReturned
<1>14. PassOnce' BY <1>3, <1>7 DEF PassOnce
<1> QED BY <1>11, <1>12, <1>13, <1>14 DEF PassSound

\* f_readdir returns no slot that it has gone by.
LEMMA NotReturned ==
  ASSUME PassReturned, PassAt, dp.cluster # None, NEW ch, ch = Walk(pass.dir), Len(ch) \in Nat,
         DOMAIN ch = 1 .. Len(ch), \A i, j \in DOMAIN ch : ch[i] = ch[j] => i = j,
         NEW k \in DOMAIN ch, ch[k] = dp.cluster, NEW m \in DOMAIN ch, NEW t \in Slots,
         k < m \/ (k = m /\ dp.pos < t), dp.pos \in Nat
  PROVE  <<ch[m], t>> \notin pass.listed
<1> SUFFICES ASSUME <<ch[m], t>> \in pass.listed PROVE FALSE
  OBVIOUS
<1>1. PICK i \in DOMAIN ch, s \in Slots : By(i, s) /\ <<ch[m], t>> = <<ch[i], s>>
  BY Zenon DEF PassReturned
<1>2. i = m /\ s = t BY <1>1
<1>3. PICK n \in DOMAIN ch : ch[n] = dp.cluster /\ (m < n \/ (m = n /\ t <= dp.pos))
  BY <1>1, <1>2, ReadingIsHere DEF By
<1>4. n = k BY <1>3
<1>5. SlotsPerCluster \in Nat BY SlotsFacts
<1>6. t \in Nat BY <1>5, SMT DEF Slots
<1> QED BY <1>3, <1>4, <1>6, SMT

\* f_readdir stops at an entry or an end mark.
LEMMA PassStops ==
  ASSUME PassInv, ReadStops
  PROVE  PassOnce' /\ PassSound'
<1>1. ~tainted /\ dp.cluster # None /\ UNCHANGED <<fat, slots, raw>>
  BY Zenon DEF ReadStops, Ready
<1>2. IsTable(fat) /\ LinksSound /\ PassTyped /\ DirTyped /\ PassOnce /\ PassSound
  BY <1>1, PassMeans
<1> DEFINE rest == Walk(dp.cluster)
<1>3. PICK p \in Stops :
        /\ IsFirst(p, Stops)
        /\ dp' = [cluster |-> rest[p[1]], pos |-> p[2]]
        /\ pass' = IF slots[rest[p[1]]][p[2]].kind = "end" THEN pass
                   ELSE [pass EXCEPT !.again = @ \/ <<rest[p[1]], p[2]>> \in pass.listed,
                                     !.listed = @ \cup {<<rest[p[1]], p[2]>>}]
  BY Zenon DEF ReadStops
<1> DEFINE t == p[2]
           c == rest[p[1]]
<1>4. /\ p[1] \in DOMAIN rest /\ t \in Slots /\ p = <<p[1], t>>
      /\ p[1] > 1 \/ t > dp.pos
      /\ slots[c][t].kind = "end" \/ (slots[c][t].kind = "short" /\ Stored83(slots[c][t]) \in pass.want)
  BY DEF Stops, Places, At
<1> HIDE DEF t, c
<1>5. pass' = IF slots[c][t].kind = "end" THEN pass
              ELSE [pass EXCEPT !.again = @ \/ <<c, t>> \in pass.listed,
                                !.listed = @ \cup {<<c, t>>}]
  BY <1>3, Zenon DEF t, c
<1>6. /\ pass'.dir = pass.dir /\ pass'.want = pass.want /\ pass'.staying = pass.staying
      /\ pass'.listed = IF slots[c][t].kind = "end" THEN pass.listed ELSE pass.listed \cup {<<c, t>>}
      /\ <<c, t>> \notin pass.listed \/ slots[c][t].kind = "end" => ~pass'.again
      /\ pass'.cut = pass.cut
  <2>1. CASE slots[c][t].kind = "end"
    <3>1. pass' = pass BY <1>5, <2>1
    <3> QED BY <1>2, <2>1, <3>1 DEF PassOnce
  <2>2. CASE slots[c][t].kind # "end"
    <3> DEFINE again == pass.again \/ <<c, t>> \in pass.listed
               listed == pass.listed \cup {<<c, t>>}
    <3>1. pass' = [pass EXCEPT !.again = again, !.listed = listed] BY <1>5, <2>2
    <3>2. <<c, t>> \notin pass.listed => ~again BY <1>2 DEF PassOnce
    <3>3. listed = pass.listed \cup {<<c, t>>} OBVIOUS
    <3> HIDE DEF again, listed
    <3>4. pass' = [dir |-> pass.dir, want |-> pass.want, listed |-> listed,
                   staying |-> pass.staying, again |-> again, cut |-> pass.cut]
      BY <1>2, <3>1 DEF PassTyped
    <3> QED BY <2>2, <3>2, <3>3, <3>4
  <2> QED BY <2>1, <2>2
<1>7. CASE pass.dir = None
  <2>1. slots[c][t].kind = "end" BY <1>2, <1>4, <1>7 DEF PassOnce
  <2> QED BY <1>2, <1>6, <1>7, <2>1 DEF PassOnce, PassSound
<1>8. CASE pass.dir # None
  <2> DEFINE ch == Walk(pass.dir)
  <2>1. PassAt /\ PassStaying /\ PassReturned BY <1>2, <1>8 DEF PassSound
  <2>2. /\ Len(ch) \in Nat /\ DOMAIN ch = 1 .. Len(ch)
        /\ \A i, j \in DOMAIN ch : ch[i] = ch[j] => i = j
    BY <1>1, <1>2, <2>1, RestAhead
  <2>3. PICK k \in DOMAIN ch :
          /\ ch[k] = dp.cluster /\ DOMAIN rest = 1 .. Len(ch) - k + 1
          /\ \A j \in DOMAIN rest : k + j - 1 \in DOMAIN ch /\ rest[j] = ch[k + j - 1]
          /\ \A i \in DOMAIN ch, s \in Slots :
               <<ch[i], s>> \in pass.staying /\ ~By(i, s) =>
                 /\ i - k + 1 \in DOMAIN rest /\ <<i - k + 1, s>> \in Stops
                 /\ slots[ch[i]][s].kind = "short"
    BY <1>1, <1>2, <2>1, StopsAhead
  <2>4. ch = Walk(pass.dir) OBVIOUS
  <2> HIDE DEF ch, rest
  <2> DEFINE m == k + p[1] - 1
  <2>6. m \in DOMAIN ch /\ c = ch[m] BY <1>4, <2>3 DEF c
  <2>7. t \in Nat /\ dp.pos \in Nat
    <3>1. SlotsPerCluster \in Nat BY SlotsFacts
    <3> QED BY <1>2, <1>4, <3>1, SMT DEF DirTyped, Slots
  <2>8. /\ k < m \/ (k = m /\ dp.pos < t)
        /\ \A i \in DOMAIN ch : /\ i < m => i - k + 1 < p[1]
                                /\ i = m => i - k + 1 = p[1]
    <3>1. \A n \in Nat : \A a \in 1 .. n : \A b \in 1 .. n - a + 1 :
            /\ b > 1 => a < a + b - 1
            /\ b = 1 \/ b > 1
            /\ b = 1 => a = a + b - 1
            /\ \A i \in 1 .. n : /\ i < a + b - 1 => i - a + 1 < b
                                 /\ i = a + b - 1 => i - a + 1 = b
      BY SMT
    <3>2. ~(1 > 1) /\ (t > dp.pos => dp.pos < t) BY <2>7, SMT
    <3> QED BY <1>4, <2>2, <2>3, <3>1, <3>2
  <2> HIDE DEF m
  <2>9. <<c, t>> \notin pass.listed
    BY <1>1, <1>4, <2>1, <2>2, <2>3, <2>4, <2>6, <2>7, <2>8, NotReturned
  <2>10. PassOnce' BY <1>6, <1>8, <2>9 DEF PassOnce
  <2>11. ReadTo' = [cluster |-> ch[m], pos |-> t] /\ pass'.cut = None
    <3>1. dp' = [cluster |-> ch[m], pos |-> t] BY <1>3, <2>6 DEF t, c
    <3>2. pass'.cut = None BY <1>1, <1>6, <2>1 DEF PassAt
    <3> QED BY <3>1, <3>2 DEF ReadTo
  <2>12. ASSUME NEW i \in DOMAIN ch, NEW s \in Slots, i < m \/ (i = m /\ s <= t),
                <<ch[i], s>> \in pass.staying, ~By(i, s)
         PROVE  <<ch[i], s>> \in pass'.listed
    <3>1. <<i - k + 1, s>> \in Stops /\ slots[ch[i]][s].kind = "short"
      BY <2>3, <2>12
    <3>2. <<i - k + 1, s>> = p \/ Before(p, <<i - k + 1, s>>) BY <1>3, <3>1 DEF IsFirst
    <3>3. SlotsPerCluster \in Nat BY SlotsFacts
    <3>4. s \in Nat BY <3>3, SMT DEF Slots
    <3>5. i = m /\ s = t
      <4>1. CASE i < m
        <5>1. i - k + 1 < p[1] BY <2>8, <4>1
        <5>2. p[1] \in Nat /\ i - k + 1 \in Int BY <1>4, <2>2, <2>3, SMT
        <5>3. i - k + 1 # p[1] /\ ~(p[1] < i - k + 1) BY <5>1, <5>2, SMT
        <5> QED BY <1>4, <3>2, <5>3 DEF Before
      <4>2. CASE i = m /\ s <= t
        <5>1. i - k + 1 = p[1] BY <2>8, <4>2
        <5>2. s = t \/ t < s BY <1>4, <3>2, <5>1 DEF Before
        <5>3. s = t BY <2>7, <3>4, <4>2, <5>2, SMT
        <5> QED BY <4>2, <5>3
      <4> QED BY <2>12, <4>1, <4>2
    <3> QED BY <1>6, <2>6, <3>1, <3>5
  <2>13. \A q \in pass'.listed : q \in pass.listed \/ (q = <<ch[m], t>> /\ t \in Slots)
    BY <1>4, <1>6, <2>6
  <2>14. \A a \in DOMAIN ch : ch[a] = dp.cluster => a < m \/ (a = m /\ dp.pos <= t)
    <3>1. dp.pos < t => dp.pos <= t BY <2>7, SMT
    <3> QED BY <2>2, <2>3, <2>8, <3>1
  <2>15. PassSound'
    BY <1>1, <1>2, <1>6, <1>8, <2>4, <2>6, <2>7, <2>11, <2>12, <2>13, <2>14, PassMoves
  <2> QED BY <2>10, <2>15
<1> QED BY <1>7, <1>8

\* It gets to the end of the directory.
LEMMA PassEnds ==
  ASSUME PassInv, ReadEnds, Stops = {}, UNCHANGED pass
  PROVE  PassSound'
<1>1. ~tainted /\ dp.cluster # None /\ UNCHANGED <<fat, slots, raw, pass>> /\ Stops = {} /\ dp' = ClosedDir
  BY DEF ReadEnds, Ready
<1>2. IsTable(fat) /\ LinksSound /\ DirTyped /\ PassOnce /\ PassSound
  BY <1>1, PassMeans
<1>4. CASE pass.dir = None BY <1>1, <1>4 DEF PassSound
<1>5. CASE pass.dir # None
  <2>1. PassAt /\ PassStaying /\ PassReturned BY <1>2, <1>5 DEF PassSound
  <2>2. ReadTo'.cluster = None BY <1>1, <2>1 DEF ClosedDir, ReadTo, PassAt
  <2>3. PassAt' BY <1>1, <2>1, <2>2 DEF PassAt, Start, InUse, NoLinkTo
  <2>4. PassStaying' BY <1>1, <2>1 DEF PassStaying
  <2> DEFINE ch == Walk(pass.dir)
  <2>5. \A i \in DOMAIN ch, s \in Slots : <<ch[i], s>> \in pass.staying => By(i, s)
    BY <1>1, <1>2, <2>1, StopsAhead
  <2>6. Walk(pass.dir)' = ch BY <1>1 DEF Walk
  <2>7. \A i, s : By(i, s)' BY <2>2 DEF By
  <2>8. /\ \A i \in DOMAIN ch, s \in Slots : <<ch[i], s>> \in pass.staying => <<ch[i], s>> \in pass.listed
        /\ \A q \in pass.listed : \E i \in DOMAIN ch, s \in Slots : q = <<ch[i], s>>
    BY <2>1, <2>5, Zenon DEF PassReturned
  <2> HIDE DEF ch
  <2>9. PassReturned' BY <1>1, <2>6, <2>7, <2>8 DEF PassReturned
  <2> QED BY <2>3, <2>4, <2>9 DEF PassSound
<1> QED BY <1>4, <1>5

\* A FAT entry cannot be read: it has gone by the cluster and by no other.
LEMMA PassCut ==
  ASSUME PassInv, ReadEnds, NEW j \in DOMAIN Walk(dp.cluster), \A p \in Stops : p[1] > j,
         pass' = [pass EXCEPT !.cut = Walk(dp.cluster)[j]]
  PROVE  PassOnce' /\ PassSound'
<1>1. ~tainted /\ dp.cluster # None /\ UNCHANGED <<fat, slots, raw>> /\ dp' = ClosedDir
  BY DEF ReadEnds, Ready
<1>2. IsTable(fat) /\ LinksSound /\ PassTyped /\ DirTyped /\ PassOnce /\ PassSound
  BY <1>1, PassMeans
<1> DEFINE rest == Walk(dp.cluster)
<1>3. /\ j \in DOMAIN rest /\ \A p \in Stops : p[1] > j
      /\ pass' = [pass EXCEPT !.cut = rest[j]]
  OBVIOUS
<1>4. /\ pass'.dir = pass.dir /\ pass'.want = pass.want /\ pass'.staying = pass.staying
      /\ pass'.listed = pass.listed /\ pass'.again = pass.again /\ pass'.cut = rest[j]
  BY <1>2, <1>3 DEF PassTyped
<1>5. PassOnce' BY <1>2, <1>4 DEF PassOnce
<1>6. CASE pass.dir = None BY <1>4, <1>5, <1>6 DEF PassSound
<1>7. CASE pass.dir # None
  <2> DEFINE ch == Walk(pass.dir)
  <2>1. PassAt /\ PassStaying /\ PassReturned BY <1>2, <1>7 DEF PassSound
  <2>2. /\ ch \in Seq(Cluster) /\ Len(ch) \in Nat /\ DOMAIN ch = 1 .. Len(ch)
        /\ \A i1, i2 \in DOMAIN ch : ch[i1] = ch[i2] => i1 = i2
    BY <1>1, <1>2, <2>1, RestAhead
  <2>3. PICK k \in DOMAIN ch :
          /\ ch[k] = dp.cluster /\ DOMAIN rest = 1 .. Len(ch) - k + 1
          /\ \A a \in DOMAIN rest : k + a - 1 \in DOMAIN ch /\ rest[a] = ch[k + a - 1]
          /\ \A i \in DOMAIN ch, s \in Slots :
               <<ch[i], s>> \in pass.staying /\ ~By(i, s) =>
                 /\ i - k + 1 \in DOMAIN rest /\ <<i - k + 1, s>> \in Stops
                 /\ slots[ch[i]][s].kind = "short"
    BY <1>1, <1>2, <2>1, StopsAhead
  <2>4. ch = Walk(pass.dir) OBVIOUS
  <2> HIDE DEF ch, rest
  <2> DEFINE m == k + j - 1
  <2>5. /\ m \in DOMAIN ch /\ (k < m \/ k = m)
        /\ \A i \in DOMAIN ch : i < m \/ i = m => ~(i - k + 1 > j)
    <3>1. \A n \in Nat : \A a \in 1 .. n : \A b \in 1 .. n - a + 1 :
            /\ a < a + b - 1 \/ a = a + b - 1
            /\ \A i \in 1 .. n : i < a + b - 1 \/ i = a + b - 1 => ~(i - a + 1 > b)
      BY SMT
    <3>2. k \in 1 .. Len(ch) /\ j \in 1 .. Len(ch) - k + 1 /\ Len(ch) \in Nat
      BY <1>3, <2>2, <2>3
    <3>3. /\ k < k + j - 1 \/ k = k + j - 1
          /\ \A i \in 1 .. Len(ch) : i < k + j - 1 \/ i = k + j - 1 => ~(i - k + 1 > j)
      BY ONLY <3>1, <3>2
    <3> QED BY <1>3, <2>2, <2>3, <3>3
  <2>6. rest[j] = ch[m] BY <1>3, <2>3
  <2> HIDE DEF m
  <2>7. ch[m] \in Cluster /\ ch[m] # None
    <3>1. ch[m] \in Cluster BY <2>2, <2>5
    <3> QED BY <3>1, TableNumbers DEF None
  <2>8. ReadTo' = [cluster |-> ch[m], pos |-> SlotsPerCluster] BY <1>4, <2>6, <2>7 DEF ReadTo
  <2>9. SlotsPerCluster \in Nat /\ dp.pos <= SlotsPerCluster
    <3>1. SlotsPerCluster \in Nat BY SlotsFacts
    <3> QED BY <1>2, <3>1, SMT DEF DirTyped
  <2>10. \A a \in DOMAIN ch : ch[a] = dp.cluster => a < m \/ (a = m /\ dp.pos <= SlotsPerCluster)
    BY <2>2, <2>3, <2>5, <2>9
  <2>11. ASSUME NEW i \in DOMAIN ch, NEW s \in Slots, i < m \/ (i = m /\ s <= SlotsPerCluster),
                <<ch[i], s>> \in pass.staying, ~By(i, s)
         PROVE  FALSE
    <3>1. <<i - k + 1, s>> \in Stops BY <2>3, <2>11
    <3>2. i - k + 1 > j BY <1>3, <3>1
    <3> QED BY <2>5, <2>11, <3>2
  <2>12. ~(dp'.cluster # None) BY <1>1 DEF ClosedDir
  <2>13. PassSound'
    BY <1>1, <1>2, <1>4, <1>7, <2>4, <2>5, <2>8, <2>9, <2>10, <2>11, <2>12, PassMoves
  <2> QED BY <1>5, <2>13
<1> QED BY <1>6, <1>7

\* It stops in front of a cluster that it cannot read.
LEMMA PassFails ==
  ASSUME PassInv, ReadFails
  PROVE  UNCHANGED pass /\ PassSound'
<1>1. ~tainted /\ dp.cluster # None /\ UNCHANGED <<fat, slots, raw, pass>>
  BY Zenon DEF ReadFails, Ready
<1>2. IsTable(fat) /\ LinksSound /\ DirTyped /\ PassOnce /\ PassSound
  BY <1>1, PassMeans
<1> SUFFICES PassSound' BY <1>1
<1> DEFINE rest == Walk(dp.cluster)
<1>4. PICK j \in DOMAIN rest :
        /\ \A p \in Stops : p[1] >= j
        /\ dp' = IF j = 1 THEN dp ELSE [cluster |-> rest[j], pos |-> 0]
  BY Zenon DEF ReadFails
<1>5. CASE pass.dir = None BY <1>1, <1>5 DEF PassSound
<1>6. CASE pass.dir # None
  <2> DEFINE ch == Walk(pass.dir)
  <2>1. PassAt /\ PassStaying /\ PassReturned BY <1>2, <1>6 DEF PassSound
  <2>2. /\ Len(ch) \in Nat /\ DOMAIN ch = 1 .. Len(ch)
        /\ \A i1, i2 \in DOMAIN ch : ch[i1] = ch[i2] => i1 = i2
    BY <1>1, <1>2, <2>1, RestAhead
  <2>3. PICK k \in DOMAIN ch :
          /\ ch[k] = dp.cluster /\ DOMAIN rest = 1 .. Len(ch) - k + 1
          /\ \A a \in DOMAIN rest : k + a - 1 \in DOMAIN ch /\ rest[a] = ch[k + a - 1]
          /\ \A i \in DOMAIN ch, s \in Slots :
               <<ch[i], s>> \in pass.staying /\ ~By(i, s) =>
                 /\ i - k + 1 \in DOMAIN rest /\ <<i - k + 1, s>> \in Stops
                 /\ slots[ch[i]][s].kind = "short"
    BY <1>1, <1>2, <2>1, StopsAhead
  <2>4. ch = Walk(pass.dir) OBVIOUS
  <2>5. CASE j = 1
    <3>1. UNCHANGED <<dp, pass, fat, slots, raw>> BY <1>1, <1>4, <2>5
    <3> QED
      BY <1>2, <3>1
      DEF PassSound, PassAt, PassStaying, PassReturned, By, ReadTo, Walk, Start, InUse, NoLinkTo
  <2> HIDE DEF ch, rest
  <2>6. CASE j # 1
    <3> DEFINE m == k + j - 1
    <3>1. /\ m \in DOMAIN ch /\ k < m
          /\ \A i \in DOMAIN ch : i < m => ~(i - k + 1 >= j)
      <4>1. \A n \in Nat : \A a \in 1 .. n : \A b \in 1 .. n - a + 1 :
              b # 1 => /\ a < a + b - 1
                       /\ \A i \in 1 .. n : i < a + b - 1 => ~(i - a + 1 >= b)
        BY SMT
      <4>2. k \in 1 .. Len(ch) /\ j \in 1 .. Len(ch) - k + 1 /\ Len(ch) \in Nat
        BY <2>2, <2>3
      <4>3. k < k + j - 1 /\ \A i \in 1 .. Len(ch) : i < k + j - 1 => ~(i - k + 1 >= j)
        BY ONLY <2>6, <4>1, <4>2
      <4> QED BY <2>2, <2>3, <4>3
    <3>2. dp' = [cluster |-> ch[m], pos |-> 0] BY <1>4, <2>3, <2>6
    <3> HIDE DEF m
    <3>3. \A a \in DOMAIN ch : ch[a] = dp.cluster => a < m \/ (a = m /\ dp.pos <= 0)
      BY <2>2, <2>3, <3>1
    <3>4. ASSUME NEW i \in DOMAIN ch, NEW s \in Slots, i < m \/ (i = m /\ s <= 0),
                 <<ch[i], s>> \in pass.staying, ~By(i, s)
          PROVE  FALSE
      <4>1. <<i - k + 1, s>> \in Stops BY <2>3, <3>4
      <4>2. i - k + 1 >= j BY <1>4, <4>1
      <4>3. ~(s <= 0)
        <5>1. SlotsPerCluster \in Nat BY SlotsFacts
        <5> QED BY <5>1, SMT DEF Slots
      <4> QED BY <3>1, <3>4, <4>2, <4>3
    <3>5. 0 \in Nat OBVIOUS
    <3>6. pass'.cut = None BY <1>1, <2>1 DEF PassAt
    <3>7. ReadTo' = [cluster |-> ch[m], pos |-> 0] BY <3>2, <3>6 DEF ReadTo
    <3> QED BY <1>1, <1>2, <1>6, <2>4, <3>1, <3>3, <3>4, <3>5, <3>6, <3>7, PassMoves
  <2> QED BY <2>5, <2>6
<1> QED BY <1>5, <1>6

LEMMA PassStep == PassInv /\ [Next]_dirVars => PassInv'
<1> SUFFICES ASSUME PassInv, [Next]_dirVars PROVE PassInv'
  OBVIOUS
<1>1. DirTypeInv' BY DirTypeStep DEF PassInv
<1>2. CASE CallStarts
  <2>1. PICK d \in Directories :
          \/ \E n \in Names : CallMkdir(d, n) \/ CallOpen(d, n) \/ CallUnlink(d, n) \/ CallRename(d, n)
          \/ OpenDir(d)
    BY <1>2 DEF CallStarts
  <2> QED BY <1>1, <2>1, PassCalls, PassBegins DEF PassInv
<1>3. CASE CloseDir \/ Restart \/ Crash
  <2>1. pass' = NoPass
    <3>1. CASE CloseDir BY <3>1 DEF CloseDir
    <3>2. CASE Restart \/ Crash BY <3>2 DEF Restart, Crash, Reboot
    <3> QED BY <1>3, <3>1, <3>2
  <2> QED BY <1>1, <2>1, PassEnded DEF PassInv
<1>4. CASE UNCHANGED dirVars
  <2>1. UNCHANGED <<fat, slots, dp, pass, raw, tainted>> BY <1>4 DEF dirVars
  <2>2. PassOnce' /\ (~tainted' => PassSound')
    BY <2>1
    DEF PassInv, PassOnce, PassSound, PassAt, PassStaying, PassReturned, By, ReadTo, Walk, Start,
        InUse, NoLinkTo
  <2> QED BY <1>1, <2>2 DEF PassInv
<1>5. CASE ReadStops \/ ReadEnds \/ ReadFails
  <2>1. CASE ReadStops \/ ReadFails
    <3>1. PassOnce' /\ PassSound' BY <2>1, PassStops, PassFails DEF PassInv, PassOnce
    <3> QED BY <1>1, <3>1 DEF PassInv
  <2>2. CASE ReadEnds
    <3>1. \/ Stops = {} /\ UNCHANGED pass
          \/ \E j \in DOMAIN Walk(dp.cluster) :
               (\A p \in Stops : p[1] > j) /\ pass' = [pass EXCEPT !.cut = Walk(dp.cluster)[j]]
      BY <2>2, Zenon DEF ReadEnds
    <3>2. PassOnce' /\ PassSound'
      <4>1. CASE Stops = {} /\ UNCHANGED pass BY <2>2, <4>1, PassEnds DEF PassInv, PassOnce
      <4>2. CASE \E j \in DOMAIN Walk(dp.cluster) :
                   (\A p \in Stops : p[1] > j) /\ pass' = [pass EXCEPT !.cut = Walk(dp.cluster)[j]]
        BY <2>2, <4>2, PassCut
      <4> QED BY <3>1, <4>1, <4>2
    <3> QED BY <1>1, <3>2 DEF PassInv
  <2> QED BY <1>5, <2>1, <2>2
<1>6. CASE ClearNew \/ InitNew \/ ClearExtension \/ WriteEntry \/ DeleteEntry
  BY <1>1, <1>6, PassWrites DEF PassInv
<1>7. CASE PlaceInside \/ PlaceBehind \/ PlaceFails \/ CheckTarget \/ ChangeDir
  BY <1>1, <1>7, PassPlaces DEF PassInv
<1> QED BY <1>2, <1>3, <1>4, <1>5, <1>6, <1>7 DEF Next

LEMMA PassInit == Init => PassInv
<1> SUFFICES ASSUME Init PROVE PassInv
  OBVIOUS
<1>1. pass.dir = None /\ pass.want = {} /\ ~pass.again BY DEF Init, NoPass
<1> QED BY <1>1, DirTypeInit DEF PassInv, PassOnce, PassSound

\* f_readdir and f_findnext return every entry that was there when the directory
\* was opened and still is when they go by, however many clusters the directory
\* has and gets, and whatever was created, renamed and deleted in the meantime.
THEOREM PassExactAlways == DirSpec => []PassExact
<1>1. PassInv => PassExact
  <2> SUFFICES ASSUME PassInv, ~tainted, pass.dir # None, NEW p \in GoneBy,
                      <<Walk(pass.dir)[p[1]], p[2]>> \in pass.staying
               PROVE  <<Walk(pass.dir)[p[1]], p[2]>> \in pass.listed
    BY DEF PassExact
  <2>1. PassReturned BY DEF PassInv, PassSound
  <2>2. p[1] \in DOMAIN Walk(pass.dir) /\ p[2] \in Slots /\ By(p[1], p[2])
    BY DEF GoneBy, Places, By
  <2> QED BY <2>1, <2>2, Zenon DEF PassReturned
<1> QED BY <1>1, PassInit, PassStep, PTL DEF DirSpec

\* They return no slot twice in one pass, even if it was given to another entry.
THEOREM ListedOnceAlways == DirSpec => []ListedOnce
<1>1. PassInv => ListedOnce BY DEF PassInv, PassOnce, ListedOnce
<1> QED BY <1>1, PassInit, PassStep, PTL DEF DirSpec

-----------------------------------------------------------------------------
(* Sets that grow in rounds.                                               *)

Round(W, r, g, n) == IF n = 0 THEN {r} ELSE W[g[n - 1]]

LEMMA RoundsExist ==
  ASSUME NEW W, NEW r, NEW N \in Nat
  PROVE  \E g : g = [n \in 0 .. N |-> Round(W, r, g, n)]
<1> DEFINE Turns(g, n) == Round(W, r, g, n)
           Good == {m \in Nat : \E g : g = [n \in 0 .. m |-> Turns(g, n)]}
<1>1. 0 \in Good
  <2> DEFINE g == [n \in 0 .. 0 |-> {r}]
  <2>1. \A n \in 0 .. 0 : n = 0 BY SMT
  <2>2. \A n \in 0 .. 0 : Turns(g, n) = {r} BY <2>1, Zenon DEF Round
  <2>3. g = [n \in 0 .. 0 |-> Turns(g, n)] BY <2>2
  <2> HIDE DEF g, Turns
  <2> QED BY <2>3
<1>2. \A m \in Nat : m \in Good => m + 1 \in Good
  <2> SUFFICES ASSUME NEW m \in Nat, m \in Good PROVE m + 1 \in Good
    OBVIOUS
  <2>1. PICK g : g = [n \in 0 .. m |-> Turns(g, n)] OBVIOUS
  <2> DEFINE k == [n \in 0 .. m + 1 |-> Turns(g, n)]
  <2> HIDE DEF Turns
  <2>2. \A n \in 0 .. m : k[n] = g[n] BY <2>1, SMT
  <2>3. \A n \in 0 .. m + 1 : Turns(k, n) = Turns(g, n)
    <3> SUFFICES ASSUME NEW n \in 0 .. m + 1 PROVE Turns(k, n) = Turns(g, n)
      OBVIOUS
    <3>1. CASE n = 0 BY <3>1, Zenon DEF Turns, Round
    <3>2. CASE n # 0
      <4>1. n - 1 \in 0 .. m BY <3>2, SMT
      <4>2. k[n - 1] = g[n - 1] BY <2>2, <4>1
      <4> HIDE DEF k
      <4> QED BY <4>2, Zenon DEF Turns, Round
    <3> QED BY <3>1, <3>2
  <2>4. k = [n \in 0 .. m + 1 |-> Turns(k, n)] BY <2>3, Zenon
  <2>5. m + 1 \in Nat BY SMT
  <2> HIDE DEF k
  <2> QED BY <2>4, <2>5
<1> HIDE DEF Good
<1>3. N \in Good BY <1>1, <1>2, InductionOnNat
<1> QED BY <1>3 DEF Good

\* As many rounds as there are elements find everything: a round that finds no
\* more is the last.
LEMMA RoundsEnd ==
  ASSUME NEW U, IsFiniteSet(U), NEW N \in Nat, Cardinality(U) <= N + 1, NEW r \in U,
         NEW W, \A G \in SUBSET U : G \subseteq W[G] /\ W[G] \in SUBSET U,
         NEW g, g[0] = {r},
         \A n \in 0 .. N : n # 0 /\ g[n - 1] \in SUBSET U => g[n] = W[g[n - 1]]
  PROVE  r \in g[N] /\ g[N] \in SUBSET U /\ W[g[N]] = g[N]
<1> DEFINE Large(n) == r \in g[n] /\ g[n] \in SUBSET U /\ (W[g[n]] = g[n] \/ Cardinality(g[n]) >= n + 1)
           Good == {n \in Nat : n \in 0 .. N => Large(n)}
<1>1. \A G \in SUBSET U : IsFiniteSet(G) /\ Cardinality(G) \in Nat /\ Cardinality(G) <= N + 1
  <2> TAKE G \in SUBSET U
  <2>1. IsFiniteSet(G) /\ Cardinality(G) <= Cardinality(U) BY FS_Subset
  <2>2. Cardinality(G) \in Nat /\ Cardinality(U) \in Nat BY <2>1, FS_CardinalityType
  <2> QED BY <2>1, <2>2, SMT
<1>2. 0 \in Good
  <2>1. Cardinality({r}) = 1 BY FS_Singleton
  <2>2. Cardinality(g[0]) >= 0 + 1 BY <2>1, SMT
  <2>3. r \in g[0] /\ g[0] \in SUBSET U OBVIOUS
  <2> QED BY <2>2, <2>3
<1>3. ASSUME NEW n \in Nat, n \in Good PROVE n + 1 \in Good
  <2> SUFFICES ASSUME n + 1 \in 0 .. N PROVE Large(n + 1)
    BY SMT
  <2>1. n \in 0 .. N /\ n + 1 # 0 /\ (n + 1) - 1 = n BY SMT
  <2>2. Large(n) BY <1>3, <2>1
  <2>3. g[n + 1] = W[g[n]] BY <2>1, <2>2, Zenon
  <2>4. g[n] \subseteq W[g[n]] /\ W[g[n]] \in SUBSET U BY <2>2
  <2>5. CASE W[g[n]] = g[n]
    <3>1. g[n + 1] = g[n] BY <2>3, <2>5
    <3> QED BY <2>2, <2>5, <3>1
  <2>6. CASE W[g[n]] # g[n] /\ Cardinality(g[n]) >= n + 1
    <3>1. IsFiniteSet(W[g[n]]) /\ IsFiniteSet(g[n]) BY <1>1, <2>2, <2>4
    <3>2. Cardinality(g[n]) # Cardinality(W[g[n]]) /\ Cardinality(g[n]) <= Cardinality(W[g[n]])
      BY <2>4, <2>6, <3>1, FS_Subset
    <3>3. Cardinality(g[n]) \in Nat /\ Cardinality(W[g[n]]) \in Nat BY <1>1, <2>2, <2>4
    <3>4. Cardinality(W[g[n]]) >= (n + 1) + 1 BY <2>6, <3>2, <3>3, SMT
    <3> QED BY <2>2, <2>3, <2>4, <3>4
  <2> QED BY <2>2, <2>5, <2>6
<1> HIDE DEF Good
<1>4. N \in Good BY <1>2, <1>3, InductionOnNat
<1>5. Large(N)
  <2>1. N \in 0 .. N BY SMT
  <2> QED BY <1>4, <2>1 DEF Good
<1>6. ASSUME W[g[N]] # g[N] PROVE FALSE
  <2>1. Cardinality(g[N]) >= N + 1 BY <1>5, <1>6
  <2>2. g[N] \subseteq W[g[N]] /\ W[g[N]] \in SUBSET U BY <1>5
  <2>3. IsFiniteSet(W[g[N]]) BY <1>1, <2>2
  <2>4. Cardinality(g[N]) # Cardinality(W[g[N]]) /\ Cardinality(g[N]) <= Cardinality(W[g[N]])
    BY <1>6, <2>2, <2>3, FS_Subset
  <2>5. Cardinality(g[N]) \in Nat /\ Cardinality(W[g[N]]) \in Nat /\ Cardinality(W[g[N]]) <= N + 1
    BY <1>1, <1>5, <2>2
  <2> QED BY <2>1, <2>4, <2>5, SMT
<1> QED BY <1>5, <1>6

LEMMA ClustersFinite == IsFiniteSet(Cluster) /\ Cardinality(Cluster) = TotalClusters
<1> DEFINE N == TotalClusters
<1>1. 2 \in Int /\ N + 1 \in Int /\ N \in Nat /\ N >= 1 BY TotalClustersAssumption, SMT
<1>2. IsFiniteSet(2 .. N + 1) /\ Cardinality(2 .. N + 1) = IF 2 > N + 1 THEN 0 ELSE (N + 1) - 2 + 1
  BY <1>1, FS_Interval
<1> QED BY <1>1, <1>2, SMT DEF Cluster

-----------------------------------------------------------------------------
(* The directories form a tree: what lies below one.                       *)

\* The directories in G, and those that entries in them name.
WiderIn(sl, G) ==
  G \cup {sl[p[1]][p[2]].first : p \in
            {q \in (Cluster \ raw) \X Slots :
               /\ IsDirEntry(sl[q[1]][q[2]])
               /\ \E d \in G : q[1] \in OnChainIn(fat, d)}}

LEMMA BelowInEnds ==
  ASSUME NEW sl, NEW S, S \subseteq Cluster, NEW f \in S,
         \A d \in S : \A c \in OnChainIn(fat, d), s \in Slots :
           c \in Cluster \ raw /\ IsDirEntry(sl[c][s]) => sl[c][s].first \in S
  PROVE  f \in BelowIn(sl, f) /\ BelowIn(sl, f) \subseteq S
         /\ WiderIn(sl, BelowIn(sl, f)) = BelowIn(sl, f)
<1> DEFINE N == TotalClusters
           W == [G \in SUBSET S |-> WiderIn(sl, G)]
           Right(h) == h = [n \in 0 .. N |-> IF n = 0 THEN {f} ELSE WiderIn(sl, h[n - 1])]
           g == CHOOSE h : Right(h)
<1>1. N \in Nat BY TotalClustersAssumption
<1>2. \A G \in SUBSET S : WiderIn(sl, G) \in SUBSET S /\ G \subseteq WiderIn(sl, G) BY DEF WiderIn
<1>3. \A G \in SUBSET S : G \subseteq W[G] /\ W[G] \in SUBSET S BY <1>2
<1>4. IsFiniteSet(S) /\ Cardinality(S) <= N + 1
  <2>1. IsFiniteSet(S) /\ Cardinality(S) <= N BY ClustersFinite, FS_Subset
  <2>2. Cardinality(S) \in Nat BY <2>1, FS_CardinalityType
  <2> QED BY <1>1, <2>1, <2>2, SMT
<1>5. \E h : Right(h)
  <2>1. PICK h : h = [n \in 0 .. N |-> Round(W, f, h, n)]
    <3>1. PICK w : w = W OBVIOUS
    <3>2. \E h : h = [n \in 0 .. N |-> Round(w, f, h, n)]
      BY <1>1, RoundsExist
    <3> HIDE DEF W
    <3> QED BY <3>1, <3>2
  <2>2. h[0] = {f} /\ \A n \in 0 .. N : n # 0 => h[n] = W[h[n - 1]]
    <3> HIDE DEF W
    <3>1. 0 \in 0 .. N BY <1>1, SMT
    <3> QED BY <2>1, <3>1, Zenon DEF Round
  <2> DEFINE Good == {n \in Nat : n \in 0 .. N => h[n] \in SUBSET S}
  <2>3. 0 \in Good BY <2>2
  <2>4. ASSUME NEW n \in Nat, n \in Good PROVE n + 1 \in Good
    <3> SUFFICES ASSUME n + 1 \in 0 .. N PROVE h[n + 1] \in SUBSET S
      BY SMT
    <3>1. n \in 0 .. N /\ n + 1 # 0 /\ (n + 1) - 1 = n BY <1>1, SMT
    <3>2. h[n + 1] = W[h[n]] BY <2>2, <3>1, Zenon
    <3>3. h[n] \in SUBSET S BY <2>4, <3>1
    <3> HIDE DEF W
    <3> QED BY <1>3, <3>2, <3>3
  <2> HIDE DEF Good
  <2>5. \A n \in 0 .. N : h[n] \in SUBSET S
    <3>1. \A n \in 0 .. N : n \in Nat BY <1>1, SMT
    <3>2. Nat \subseteq Good BY <2>3, <2>4, InductionOnNat
    <3> QED BY <3>1, <3>2 DEF Good
  <2>6. ASSUME NEW n \in 0 .. N
        PROVE  Round(W, f, h, n) = (IF n = 0 THEN {f} ELSE WiderIn(sl, h[n - 1]))
    <3>1. n # 0 => n - 1 \in 0 .. N BY <1>1, SMT
    <3>2. n # 0 => h[n - 1] \in SUBSET S BY <2>5, <3>1
    <3>3. n # 0 => W[h[n - 1]] = WiderIn(sl, h[n - 1]) BY <3>2
    <3> QED BY <3>3, Zenon DEF Round
  <2>7. Right(h)
    <3> HIDE DEF W
    <3> QED BY <2>1, <2>6, Zenon
  <2> QED BY <2>7
<1>6. Right(g) BY <1>5, Zenon
<1>7. BelowIn(sl, f) = g[N] BY Zenon DEF BelowIn, WiderIn
<1> HIDE DEF g
<1>8. g[0] = {f} /\ \A n \in 0 .. N : n # 0 => g[n] = WiderIn(sl, g[n - 1])
  <2>1. 0 \in 0 .. N BY <1>1, SMT
  <2> QED BY <1>6, <2>1, Zenon
<1>9. \A n \in 0 .. N : n # 0 /\ g[n - 1] \in SUBSET S => g[n] = W[g[n - 1]]
  BY <1>8
<1> HIDE DEF W, N
<1>10. f \in g[N] /\ g[N] \in SUBSET S /\ W[g[N]] = g[N]
  BY <1>1, <1>3, <1>4, <1>8, <1>9, RoundsEnd
<1>11. WiderIn(sl, g[N]) = g[N] BY <1>10 DEF W
<1> QED BY <1>7, <1>10, <1>11

LEMMA BelowEnds ==
  ASSUME NEW S, S \subseteq Cluster, NEW f \in S,
         \A c \in Cluster \ raw, s \in Slots :
           IsDirEntry(slots[c][s]) => slots[c][s].first \in S
  PROVE  f \in Below(f) /\ Below(f) \subseteq S /\ WiderIn(slots, Below(f)) = Below(f)
<1>1. \A d \in S : \A c \in OnChainIn(fat, d), s \in Slots :
        c \in Cluster \ raw /\ IsDirEntry(slots[c][s]) => slots[c][s].first \in S
  OBVIOUS
<1>2. f \in BelowIn(slots, f) /\ BelowIn(slots, f) \subseteq S
      /\ WiderIn(slots, BelowIn(slots, f)) = BelowIn(slots, f)
  BY <1>1, BelowInEnds
<1> QED BY <1>2 DEF Below

-----------------------------------------------------------------------------
(* What links and entries lead to.                                         *)

\* A set of clusters that links and entries do not lead out of.
Closed(X) ==
  \A c \in X :
    /\ fat[c] \in Cluster => fat[c] \in X
    /\ \A s \in Slots :
         IsDirEntry(slots[c][s]) /\ ~BeingUnlinked(c, s) => slots[c][s].first \in X

\* Links and entries lead from the root directory to cluster c.
Reachable(c) == \A X \in SUBSET Cluster : Root \in X /\ Closed(X) => c \in X

\* The entries of directories lie in clusters that the root leads to.
EntriesReachable ==
  \A c \in Cluster, s \in Slots :
    IsDirEntry(slots[c][s]) => Reachable(c) /\ slots[c][s].first \in Cluster

\* So do the current directory, the place of the new entry and that of the one
\* that f_rename found.
CallReachable ==
  /\ Reachable(cwd)
  /\ pc \in {"clear", "init", "check", "place"} => Reachable(call.parent)
  /\ pc \in {"extended", "entry"} \/ (pc = "delete" /\ call.op = "rename") =>
       Reachable(call.at[1])
  /\ call.op = "rename" /\ HasOld => Reachable(call.old[1])

\* A link leads to a cluster, or it ends the chain.
LinksEnd == \A c \in Cluster : fat[c] \in Cluster \cup {FREE, EndOfChain}

Reaching == ~tainted => LinksEnd /\ EntriesReachable /\ CallReachable

\* What an entry names: the first cluster of a directory.
LEMMA NamedBegun ==
  ASSUME SlotsSound, NothingLeft, NEW c \in Cluster, NEW s \in Slots, IsDirEntry(slots[c][s]),
         ~BeingUnlinked(c, s)
  PROVE  c \in InUse /\ c \notin raw /\ Begun(slots[c][s].first)
<1>1. c \in InUse /\ IsEntry(slots[c][s]) BY DEF NothingLeft, IsDirEntry
<1>2. SlotSound(c, s) BY <1>1 DEF SlotsSound
<1>3. slots[c][s].kind = "short" /\ slots[c][s].name \in Names /\ slots[c][s].dir
  BY DEF IsDirEntry, IsEntry
<1>4. slots[c][s].name # "." /\ slots[c][s].name # ".."
  <2>1. \A n \in Names : n # "." /\ n # ".." BY Stored, Zenon
  <2> QED BY <1>3, <2>1, Zenon
<1>5. Begun(slots[c][s].first) BY <1>2, <1>3, <1>4 DEF SlotSound
<1> QED BY <1>1, <1>5 DEF InUse

\* A cluster with no link to it is on a chain at its beginning only.
LEMMA WalkBegins ==
  ASSUME IsTable(fat), NEW d, WalkEnds(fat, d), NEW c \in OnChainIn(fat, d)
  PROVE  /\ c = d \/ \E b \in OnChainIn(fat, d) : b \in Cluster /\ fat[b] = c
         /\ c \in Cluster
<1> DEFINE ch == ChainIn(fat, d)
<1>1. Path(fat, ch) /\ ch[1] = d BY ChainOfWalk DEF Whole
<1> HIDE DEF ch
<1>2. /\ DOMAIN ch = 1 .. Len(ch) /\ Len(ch) \in Nat
      /\ \A i \in 1 .. Len(ch) : ch[i] \in Cluster
      /\ \A i \in 1 .. Len(ch) : i > 1 => i - 1 \in 1 .. Len(ch) /\ fat[ch[i - 1]] = ch[i]
  BY <1>1, PathFacts
<1>3. OnChainIn(fat, d) = {ch[i] : i \in 1 .. Len(ch)} BY <1>2 DEF OnChainIn, ch
<1>4. PICK i \in 1 .. Len(ch) : ch[i] = c BY <1>3
<1>5. i = 1 \/ i > 1 BY <1>2, SMT
<1>6. CASE i > 1 BY <1>2, <1>3, <1>4, <1>6
<1> QED BY <1>1, <1>2, <1>4, <1>5, <1>6

\* The chains of the directories below f.
ChainsBelow(f) == {c \in Cluster : \E d \in Below(f) : WalkEnds(fat, d) /\ c \in OnChainIn(fat, d)}

LEMMA BelowClosed ==
  ASSUME IsTable(fat), LinksSound, SlotsSound, NothingLeft,
         NEW f, WiderIn(slots, Below(f)) = Below(f), f \in Below(f), WalkEnds(fat, f)
  PROVE  /\ f \in ChainsBelow(f) /\ Closed(ChainsBelow(f))
         /\ \A c \in ChainsBelow(f) : NoLinkTo(fat, c) => c \in Below(f)
         /\ \A c \in ChainsBelow(f), s \in Slots :
              IsDirEntry(slots[c][s]) => slots[c][s].first \in Below(f)
<1>1. f \in ChainsBelow(f)
  <2>1. f \in OnChainIn(fat, f) /\ OnChainIn(fat, f) \subseteq Cluster BY OnWalk
  <2> QED BY <2>1 DEF ChainsBelow
<1>2. ASSUME NEW c \in ChainsBelow(f), NEW s \in Slots, IsDirEntry(slots[c][s])
      PROVE  slots[c][s].first \in Below(f)
  <2>1. PICK d \in Below(f) : WalkEnds(fat, d) /\ c \in OnChainIn(fat, d) BY DEF ChainsBelow
  <2>2. c \in Cluster BY DEF ChainsBelow
  <2>3. c \in InUse BY <1>2, <2>2 DEF NothingLeft, IsDirEntry
  <2>4. c \in Cluster \ raw BY <2>3 DEF InUse
  <2> DEFINE q == <<c, s>>
  <2>5. q \in {p \in (Cluster \ raw) \X Slots :
                  /\ IsDirEntry(slots[p[1]][p[2]])
                  /\ \E e \in Below(f) : p[1] \in OnChainIn(fat, e)}
    BY <1>2, <2>1, <2>4
  <2>6. slots[q[1]][q[2]].first \in WiderIn(slots, Below(f)) BY <2>5, Zenon DEF WiderIn
  <2> QED BY <2>6
<1>3. Closed(ChainsBelow(f))
  <2>1. ASSUME NEW c \in ChainsBelow(f), fat[c] \in Cluster PROVE fat[c] \in ChainsBelow(f)
    <3>1. PICK d \in Below(f) : WalkEnds(fat, d) /\ c \in OnChainIn(fat, d) BY DEF ChainsBelow
    <3>2. fat[c] \in OnChainIn(fat, d) BY <2>1, <3>1, WalkGoesOn
    <3> QED BY <2>1, <3>1, <3>2 DEF ChainsBelow
  <2>2. ASSUME NEW c \in ChainsBelow(f), NEW s \in Slots,
               IsDirEntry(slots[c][s]), ~BeingUnlinked(c, s)
        PROVE  slots[c][s].first \in ChainsBelow(f)
    <3>1. c \in Cluster BY DEF ChainsBelow
    <3>2. Begun(slots[c][s].first) BY <2>2, <3>1, NamedBegun
    <3>3. WalkEnds(fat, slots[c][s].first) /\ slots[c][s].first \in OnChainIn(fat, slots[c][s].first)
      BY <3>2, DirChain DEF Begun
    <3>4. slots[c][s].first \in Cluster BY <3>2 DEF Begun, Start, InUse
    <3> QED BY <1>2, <2>2, <3>3, <3>4 DEF ChainsBelow
  <2> QED BY <2>1, <2>2 DEF Closed
<1>4. ASSUME NEW c \in ChainsBelow(f), NoLinkTo(fat, c) PROVE c \in Below(f)
  <2>1. PICK d \in Below(f) : WalkEnds(fat, d) /\ c \in OnChainIn(fat, d) BY DEF ChainsBelow
  <2>2. c = d BY <1>4, <2>1, WalkBegins DEF NoLinkTo
  <2> QED BY <2>1, <2>2
<1> QED BY <1>1, <1>2, <1>3, <1>4

\* Entries and links do not lead out of the chains below the directory f.
LEMMA BelowApart ==
  ASSUME IsTable(fat), TreeSoundness, \A c, s : ~BeingUnlinked(c, s), NEW f, Begun(f)
  PROVE  \E Y \in SUBSET Cluster :
           f \in Y /\ Closed(Y) /\ \A c \in Y : \E d \in Below(f) : c \in OnChainIn(fat, d)
<1> DEFINE S == {c \in Cluster : Start(c)}
           Y == ChainsBelow(f)
<1>1. LinksSound /\ SlotsSound /\ NothingLeft BY DEF TreeSoundness
<1>2. ASSUME NEW c \in Cluster, NEW s \in Slots, IsDirEntry(slots[c][s])
      PROVE  slots[c][s].first \in S
  BY <1>1, <1>2, NamedBegun DEF Begun, Start, InUse
<1>3. f \in S /\ S \subseteq Cluster BY DEF Begun, Start, InUse
<1>4. f \in Below(f) /\ WiderIn(slots, Below(f)) = Below(f)
  <2> HIDE DEF S
  <2> QED BY <1>2, <1>3, BelowEnds
<1>5. WalkEnds(fat, f) BY <1>1, DirChain DEF Begun
<1>6. f \in Y /\ Closed(Y) BY <1>1, <1>4, <1>5, BelowClosed
<1>7. \A c \in Y : c \in Cluster /\ \E d \in Below(f) : c \in OnChainIn(fat, d)
  BY DEF ChainsBelow
<1> HIDE DEF Y
<1>8. Y \in SUBSET Cluster BY <1>7
<1> QED BY <1>6, <1>7, <1>8

\* The root leads along chains and to what entries name.
LEMMA LeadsAlong ==
  ASSUME NEW d, WalkEnds(fat, d), Reachable(d), NEW c \in OnChainIn(fat, d)
  PROVE  Reachable(c)
<1> SUFFICES ASSUME NEW X \in SUBSET Cluster, Root \in X, Closed(X) PROVE c \in X
  BY DEF Reachable
<1>1. d \in X BY DEF Reachable
<1>2. \A x \in X : x \in Cluster /\ fat[x] \in Cluster => fat[x] \in X BY DEF Closed
<1>3. OnChainIn(fat, d) \subseteq X BY <1>1, <1>2, WalkWithin
<1> QED BY <1>3

LEMMA LeadsDown ==
  ASSUME NEW c, Reachable(c), NEW s \in Slots, IsDirEntry(slots[c][s]), ~BeingUnlinked(c, s)
  PROVE  Reachable(slots[c][s].first)
BY DEF Reachable, Closed

\* So paths lead to directories that the root leads to.
LEMMA PathsReach ==
  ASSUME IsTable(fat), TreeSoundness, pc = "idle", EntriesReachable, Reachable(cwd)
  PROVE  /\ \A d \in Directories : Reachable(d)
         /\ \A start \in {Root, cwd}, path \in Prefixes :
              ResolveCwd(start, path) = None \/ Reachable(ResolveCwd(start, path))
<1> DEFINE T == {c \in Cluster : Start(c) /\ Reachable(c)}
<1>1. Root \in T /\ cwd \in T
  <2>1. Reachable(Root) BY DEF Reachable
  <2> QED BY <2>1 DEF TreeSoundness, Rooted, Start, InUse
<1>2. ASSUME NEW d \in T, NEW component
      PROVE  Down(d, component) = None \/ Down(d, component) \in T
  <2> DEFINE e == Down(d, component)
  <2>1. Leads(d, e) BY <1>2, DownLeads
  <2> HIDE DEF e
  <2>2. ASSUME Begun(e), NEW c \in OnChainIn(fat, d), NEW s \in Slots, IsDirEntry(slots[c][s]),
               slots[c][s].first = e
        PROVE  e \in T
    <3>1. Reachable(c) BY <1>2, LeadsAlong, DirChain DEF TreeSoundness
    <3>2. ~BeingUnlinked(c, s) BY DEF BeingUnlinked
    <3>3. Reachable(e) BY <2>2, <3>1, <3>2, LeadsDown
    <3> QED BY <2>2, <3>3 DEF Begun, Start, InUse
  <2>3. e = None \/ e \in T BY <1>2, <2>1, <2>2 DEF Leads
  <2> QED BY <2>3 DEF e
<1> HIDE DEF T
<1>3. \A start \in {Root, cwd}, path \in Prefixes :
        /\ Resolve(start, path) = None \/ Resolve(start, path) \in T
        /\ ResolveCwd(start, path) = None \/ ResolveCwd(start, path) \in T
  BY <1>1, <1>2, PathWithin
<1> QED BY <1>3 DEF T, Directories

-----------------------------------------------------------------------------
(* The steps, and what the root leads to.                                  *)

\* f_unlink has one write only.
Unlinking == call.op = "unlink" => pc = "delete"

ReachInv == DirTypeInv /\ RenameSound /\ Unlinking /\ Reaching

LinksStay == \A c \in Cluster : fat[c] \in Cluster => fat'[c] = fat[c]

DirEntriesStay ==
  \A c \in Cluster, s \in Slots :
    IsDirEntry(slots[c][s]) /\ ~BeingUnlinked(c, s) =>
      slots'[c][s] = slots[c][s] /\ ~BeingUnlinked(c, s)'

\* What the root leads to is not less.
ReachGrows == \A c : Reachable(c) => Reachable(c)'

LEMMA ReachStays ==
  ASSUME LinksStay, DirEntriesStay
  PROVE  ReachGrows
<1> SUFFICES ASSUME NEW c, Reachable(c), NEW X \in SUBSET Cluster, Root \in X, Closed(X)'
             PROVE  c \in X
  BY DEF ReachGrows, Reachable
<1>1. ASSUME NEW x \in X, fat[x] \in Cluster PROVE fat[x] \in X
  BY <1>1 DEF LinksStay, Closed
<1>2. ASSUME NEW x \in X, NEW s \in Slots, IsDirEntry(slots[x][s]), ~BeingUnlinked(x, s)
      PROVE  slots[x][s].first \in X
  <2>1. slots'[x][s] = slots[x][s] /\ ~BeingUnlinked(x, s)' BY <1>2 DEF DirEntriesStay
  <2>2. IsDirEntry(slots'[x][s]) /\ ~BeingUnlinked(x, s)' => slots'[x][s].first \in X
    BY DEF Closed
  <2>3. IsDirEntry(slots'[x][s]) BY <1>2, <2>1
  <2>4. slots'[x][s].first \in X BY <2>1, <2>2, <2>3
  <2> QED BY <2>1, <2>4
<1>3. Closed(X) BY <1>1, <1>2 DEF Closed
<1> QED BY <1>3 DEF Reachable

LEMMA ReachEnded ==
  ASSUME EndCall, Reachable(cwd)'
  PROVE  CallReachable'
BY DEF EndCall, NoCall, CallReachable

\* Entries of directories stay where they are, unless one is renamed or removed.
LEMMA EntriesStayOn ==
  ASSUME DirTypeInv, RenameSound, ~tainted, ~tainted', [Next]_dirVars, call'.op # "unlink",
         ~(pc = "delete" /\ call.op = "rename" /\ call.dir)
  PROVE  DirEntriesStay
<1> SUFFICES ASSUME NEW c \in Cluster, NEW s \in Slots,
                    IsDirEntry(slots[c][s]), ~BeingUnlinked(c, s)
             PROVE  slots'[c][s] = slots[c][s] /\ ~BeingUnlinked(c, s)'
  BY DEF DirEntriesStay
<1>1. TreeInv /\ call \in CallType /\ DiskSound BY TreeMeansDisk DEF DirTypeInv, CallTyped
<1>2. c \in InUse /\ ~IsFree(slots[c][s])
  BY <1>1, NamedBegun, KindsFree DEF DiskSound, IsDirEntry, IsEntry
<1>3. ~(pc = "delete" /\ c = call.old[1] /\ s = call.old[2])
  <2> SUFFICES ASSUME pc = "delete", c = call.old[1], s = call.old[2] PROVE FALSE
    OBVIOUS
  <2>1. CASE call.op = "unlink"
    <3>1. call.old \in Somewhere BY <1>1 DEF CallType
    <3>2. call.old = <<c, s>> BY <3>1 DEF Somewhere, Nowhere
    <3> QED BY <2>1, <3>2 DEF BeingUnlinked
  <2>2. CASE call.op = "rename"
    <3>1. HasOld BY DEF HasOld
    <3>2. slots[c][s].dir = call.dir BY <2>2, <3>1, Zenon DEF RenameSound
    <3> QED BY <2>2, <3>2 DEF IsDirEntry
  <2> QED BY <2>1, <2>2, Zenon DEF RenameSound
<1>4. slots'[c][s] = slots[c][s] BY <1>1, <1>2, <1>3, SlotsStay
<1> QED BY <1>4 DEF BeingUnlinked

\* The entry of a directory that a write brings.
LEMMA WrittenEntries ==
  ASSUME EndsInv, pc \in Writing, Written \/ Torn,
         NEW c \in Cluster, NEW s \in Slots, IsDirEntry(slots'[c][s])
  PROVE  \/ slots'[c][s] = slots[c][s]
         \/ pc = "entry" /\ <<c, s>> = NewPlace /\ call.dir /\ slots'[c][s].first = call.first
<1> DEFINE new == slots'[c][s]
<1>1. /\ c # Target => new = slots[c][s]
      /\ c = Target => new = Content[s] \/ new = slots[c][s]
      /\ Target \in Cluster
  BY SlotsWritten
<1> SUFFICES ASSUME c = Target, new = Content[s], new # slots[c][s]
             PROVE  pc = "entry" /\ <<c, s>> = NewPlace /\ call.dir /\ new.first = call.first
  BY <1>1
<1>2. new.kind = "short" /\ new.dir /\ new.name \in Names BY DEF IsDirEntry, IsEntry
<1> HIDE DEF new
<1>3. CASE pc \in {"clear", "extended"}
  <2>1. new = EndMark BY <1>3 DEF Content, EmptyCluster
  <2> QED BY <1>2, <2>1, SlotKinds
<1>4. CASE pc = "init"
  <2>1. Content = NewDirectory(call.first, call.parent) BY <1>4 DEF Content
  <2>2. ~IsEntry(Content[s]) BY <2>1, NewDirectorySlots
  <2> QED BY <1>2, <2>2 DEF IsEntry
<1>5. CASE pc = "delete"
  <2>1. Content = WithoutEntry(slots[c], call.old[2]) BY <1>5 DEF Content
  <2>2. slots[c] = [t \in Slots |-> slots[c][t]] BY ClusterShape DEF EndsInv
  <2>3. Content[s] = Deleted \/ Content[s] = slots[c][s] BY <2>1, <2>2 DEF WithoutEntry
  <2> QED BY <1>2, <2>3, SlotKinds
<1>6. CASE pc = "entry"
  <2> DEFINE a == call.at[2]
             n == call.name
  <2>1. Content = WithEntry(slots[c], a, n, call.dir, call.first) /\ c = call.at[1]
    BY <1>6 DEF Content, Target
  <2>2. new = IF s \in a .. a + Pieces[n] - 1 THEN LongSlot(n, a + Pieces[n] - s)
              ELSE IF s = a + Pieces[n] THEN ShortSlot(n, call.dir, call.first)
              ELSE slots[c][s]
    BY <2>1 DEF WithEntry
  <2>3. ~(s \in a .. a + Pieces[n] - 1) BY <1>2, <2>2, SlotKinds
  <2>4. s = a + Pieces[n] /\ new = ShortSlot(n, call.dir, call.first) BY <2>2, <2>3
  <2>5. new.dir = call.dir /\ new.first = call.first BY <2>4 DEF ShortSlot, EndMark
  <2>6. <<c, s>> = NewPlace BY <2>1, <2>4 DEF NewPlace
  <2> QED BY <1>2, <1>6, <2>5, <2>6
<1> QED BY <1>3, <1>4, <1>5, <1>6 DEF Writing

LEMMA ReachParts ==
  ASSUME ReachInv, ~tainted
  PROVE  /\ DirTypeInv /\ TreeInv /\ RenameSound /\ LinksEnd
         /\ EntriesReachable /\ CallReachable
         /\ IsTable(fat) /\ TreeSoundness /\ DiskSound /\ EndsInv /\ call \in CallType
BY TreeMeansDisk DEF ReachInv, DirTypeInv, Reaching, CallTyped

\* A write, but for the last one of a renamed directory.
LEMMA ReachWritten ==
  ASSUME ReachInv, ~tainted, ~tainted', [Next]_dirVars, UNCHANGED fat, call'.op # "unlink",
         UNCHANGED slots \/ (pc \in Writing /\ (Written \/ Torn)),
         ~(pc = "delete" /\ call.op = "rename" /\ call.dir)
  PROVE  EntriesReachable' /\ ReachGrows
<1>1. DirTypeInv /\ RenameSound /\ EntriesReachable /\ CallReachable /\ TreeSoundness /\ EndsInv
  BY ReachParts
<1>2. DirEntriesStay BY <1>1, EntriesStayOn
<1>3. ReachGrows BY <1>2, ReachStays DEF LinksStay
<1>4. ASSUME NEW c \in Cluster, NEW s \in Slots, IsDirEntry(slots'[c][s])
      PROVE  Reachable(c) /\ slots'[c][s].first \in Cluster
  <2>1. CASE slots'[c][s] = slots[c][s] BY <1>1, <1>4, <2>1 DEF EntriesReachable
  <2>2. CASE pc = "entry" /\ <<c, s>> = NewPlace /\ call.dir /\ slots'[c][s].first = call.first
    <3>1. c = call.at[1] BY <2>2 DEF NewPlace
    <3>2. call.first \in Cluster
      BY <1>1, <2>2 DEF TreeSoundness, NewEntrySound, Begun, Start, InUse
    <3> QED BY <1>1, <2>2, <3>1, <3>2 DEF CallReachable
  <2> QED BY <1>1, <1>4, <2>1, <2>2, WrittenEntries
<1>5. EntriesReachable' BY <1>3, <1>4 DEF EntriesReachable, ReachGrows
<1> QED BY <1>3, <1>5

\* The last write of a renamed directory: its other entry is not below it.
LEMMA ReachErased ==
  ASSUME ReachInv, ~tainted, ~tainted', [Next]_dirVars, UNCHANGED fat, EndCall,
         UNCHANGED slots \/ Written \/ Torn,
         pc = "delete", call.op = "rename", call.dir, ~MovedInside
  PROVE  EntriesReachable' /\ ReachGrows
<1> DEFINE o == call.old[1]
           u == call.old[2]
           N == NewPlace[1]
           v == NewPlace[2]
<1>1. /\ TreeInv /\ RenameSound /\ EntriesReachable /\ CallReachable
      /\ DiskSound /\ EndsInv /\ TreeSoundness /\ IsTable(fat)
  BY ReachParts
<1>2. /\ HasOld /\ slots[o][u].first = call.first
      /\ N \in InUse /\ v \in Slots /\ ~(N = o /\ v = u)
      /\ IsEntry(slots[N][v]) /\ slots[N][v].dir = call.dir /\ slots[N][v].first = call.first
  <2>1. HasOld BY DEF HasOld
  <2> QED BY <1>1, <2>1, Zenon DEF RenameSound
<1>3. /\ call'.op = "none" /\ pc' = "idle" /\ \A c, s : ~BeingUnlinked(c, s)'
      /\ \A c, s : ~BeingUnlinked(c, s)
  BY DEF EndCall, NoCall, BeingUnlinked
<1>4. ASSUME NEW c \in Cluster, NEW s \in Slots, IsDirEntry(slots[c][s]), ~(c = o /\ s = u)
      PROVE  slots'[c][s] = slots[c][s]
  <2>1. c \in InUse /\ ~IsFree(slots[c][s])
    BY <1>1, <1>3, <1>4, NamedBegun, KindsFree DEF DiskSound, IsDirEntry, IsEntry
  <2>2. call'.op # "unlink" BY <1>3
  <2> QED BY <1>1, <1>4, <2>1, <2>2, SlotsStay
<1>named. Begun(call.first)
  <2>1. N \in Cluster BY <1>2 DEF InUse
  <2>2. IsDirEntry(slots[N][v]) BY <1>2 DEF IsDirEntry
  <2>3. Begun(slots[N][v].first) BY <1>1, <1>2, <1>3, <2>1, <2>2, NamedBegun DEF DiskSound
  <2> QED BY <1>2, <2>3
<1>5. PICK Y \in SUBSET Cluster : Closed(Y) /\ call.first \in Y /\ call.at[1] \notin Y
  <2>1. PICK Y \in SUBSET Cluster :
          /\ call.first \in Y /\ Closed(Y)
          /\ \A c \in Y : \E d \in Below(call.first) : c \in OnChainIn(fat, d)
    BY <1>1, <1>3, <1>named, BelowApart
  <2>2. call.at[1] \notin Y BY <2>1, Zenon DEF MovedInside
  <2> QED BY <2>1, <2>2
<1>6. N = call.at[1] /\ N \in Cluster BY <1>2 DEF NewPlace, InUse
<1>7. Reachable(N) BY <1>1, <1>6 DEF CallReachable
<1>8. IsDirEntry(slots[N][v]) BY <1>2 DEF IsDirEntry
<1> HIDE DEF o, u, N, v
<1>9. ReachGrows
  <2> SUFFICES ASSUME NEW c, Reachable(c), NEW X \in SUBSET Cluster, Root \in X, Closed(X)'
               PROVE  c \in X
    BY DEF ReachGrows, Reachable
  <2> DEFINE Z == X \cup Y
  <2>1. \A x \in X, s \in Slots :
          IsDirEntry(slots[x][s]) /\ ~(x = o /\ s = u) => slots[x][s].first \in X
    <3> SUFFICES ASSUME NEW x \in X, NEW s \in Slots, IsDirEntry(slots[x][s]), ~(x = o /\ s = u)
                 PROVE  slots[x][s].first \in X
      OBVIOUS
    <3>1. slots'[x][s] = slots[x][s] BY <1>4
    <3>2. IsDirEntry(slots'[x][s]) => slots'[x][s].first \in X BY <1>3 DEF Closed
    <3> QED BY <3>1, <3>2
  <2>2. \A x \in X : fat[x] \in Cluster => fat[x] \in X BY DEF Closed
  <2>3. \A x \in Z, s \in Slots : IsDirEntry(slots[x][s]) => slots[x][s].first \in Z
    <3> SUFFICES ASSUME NEW x \in Z, NEW s \in Slots, IsDirEntry(slots[x][s])
                 PROVE  slots[x][s].first \in Z
      OBVIOUS
    <3>1. CASE x \in Y BY <1>3, <1>5, <3>1 DEF Closed
    <3>2. CASE x \in X /\ ~(x = o /\ s = u) BY <2>1, <3>2
    <3>3. CASE x = o /\ s = u BY <1>2, <1>5, <3>3 DEF o, u
    <3> QED BY <3>1, <3>2, <3>3
  <2>4. \A x \in Z : fat[x] \in Cluster => fat[x] \in Z BY <1>5, <2>2 DEF Closed
  <2>5. Closed(Z) BY <2>3, <2>4 DEF Closed
  <2>6. Z \in SUBSET Cluster /\ Root \in Z BY DEF InUse
  <2> HIDE DEF Z
  <2>7. N \in Z BY <1>7, <2>5, <2>6 DEF Reachable
  <2>8. N \in X BY <1>5, <1>6, <2>7 DEF Z
  <2>9. call.first \in X BY <1>2, <1>8, <2>1, <2>8 DEF N, v
  <2>10. \A x \in X, s \in Slots : IsDirEntry(slots[x][s]) => slots[x][s].first \in X
    <3> SUFFICES ASSUME NEW x \in X, NEW s \in Slots, IsDirEntry(slots[x][s])
                 PROVE  slots[x][s].first \in X
      OBVIOUS
    <3>1. CASE x = o /\ s = u BY <1>2, <2>9, <3>1 DEF o, u
    <3> QED BY <2>1, <3>1
  <2>11. Closed(X) BY <2>2, <2>10 DEF Closed
  <2> QED BY <2>11 DEF Reachable
<1>10. ASSUME NEW c \in Cluster, NEW s \in Slots, IsDirEntry(slots'[c][s])
       PROVE  Reachable(c)' /\ slots'[c][s].first \in Cluster
  <2>1. slots'[c][s] = slots[c][s]
    <3>1. pc \in Writing BY DEF Writing
    <3> QED BY <1>1, <1>10, <3>1, WrittenEntries
  <2> QED BY <1>1, <1>9, <1>10, <2>1 DEF EntriesReachable, ReachGrows
<1>11. EntriesReachable' BY <1>10 DEF EntriesReachable
<1> QED BY <1>9, <1>11

\* Where nothing is written and nothing linked, everything is as it was.
LEMMA ReachSame ==
  ASSUME UNCHANGED <<fat, slots, raw>>, \A c, s : BeingUnlinked(c, s)' <=> BeingUnlinked(c, s)
  PROVE  /\ LinksEnd => LinksEnd'
         /\ EntriesReachable => EntriesReachable'
         /\ \A c : Reachable(c) => Reachable(c)'
<1>1. \A X : Closed(X) <=> Closed(X)' BY DEF Closed
<1>2. InUse' = InUse BY DEF InUse
<1>3. \A c : Reachable(c) => Reachable(c)' BY <1>1, Zenon DEF Reachable
<1>4. EntriesReachable => EntriesReachable' BY <1>3 DEF EntriesReachable
<1> QED BY <1>3, <1>4 DEF LinksEnd

\* Reading, and changing the directory.
LEMMA ReachQuiet ==
  ASSUME ReachInv, UNCHANGED <<fat, slots, raw, pc, call, tainted>>,
         ~tainted => Reachable(cwd')
  PROVE  Reaching'
<1> SUFFICES ASSUME ~tainted PROVE LinksEnd' /\ EntriesReachable' /\ CallReachable'
  BY DEF Reaching
<1>1. LinksEnd /\ EntriesReachable /\ CallReachable BY ReachParts
<1>2. \A c, s : BeingUnlinked(c, s)' <=> BeingUnlinked(c, s) BY DEF BeingUnlinked
<1>3. /\ LinksEnd' /\ EntriesReachable' /\ \A c : Reachable(c) => Reachable(c)'
  BY <1>1, <1>2, ReachSame
<1>4. CallReachable'
  <2>1. Reachable(cwd') => Reachable(cwd)'
    <3>1. \A c : Reachable(c) => Reachable(c)' BY <1>3
    <3>2. \A c : c = cwd' /\ Reachable(c)' => Reachable(cwd)' BY DEF Reachable
    <3> QED BY <3>1, <3>2
  <2>2. (Reachable(call.parent) => Reachable(call.parent)') /\ (Reachable(call.at[1]) => Reachable(call.at[1])')
    BY <1>3
  <2>3. Reachable(call.old[1]) => Reachable(call.old[1])' BY <1>3
  <2> QED BY <1>1, <2>1, <2>2, <2>3 DEF CallReachable, HasOld
<1> QED BY <1>3, <1>4

LEMMA ReachChangeDir ==
  ASSUME ReachInv, ChangeDir PROVE Reaching'
<1>1. /\ pc = "idle" /\ ~tainted /\ UNCHANGED <<fat, slots, raw, pc, call, tainted>>
      /\ cwd' \in (Directories \cup
           {ResolveCwd(start, path) : start \in {Root, cwd}, path \in Prefixes}) \ {None}
  BY DEF ChangeDir, Ready
<1>2. IsTable(fat) /\ TreeSoundness /\ EntriesReachable /\ Reachable(cwd)
  BY <1>1, ReachParts DEF CallReachable
<1>3. Reachable(cwd') BY <1>1, <1>2, PathsReach
<1> QED BY <1>1, <1>3, ReachQuiet

\* Calls that end without a write.
LEMMA ReachStops ==
  ASSUME ReachInv, PlaceFails \/ Restart \/ (CheckTarget /\ EndCall)
  PROVE  Reaching'
<1>1. /\ UNCHANGED <<fat, slots, raw, tainted>> /\ cwd' \in {cwd, Root} /\ EndCall
      /\ pc # "delete"
  BY DEF PlaceFails, Restart, Reboot, CheckTarget
<1> SUFFICES ASSUME ~tainted PROVE LinksEnd' /\ EntriesReachable' /\ CallReachable'
  BY <1>1 DEF Reaching
<1>2. LinksEnd /\ EntriesReachable /\ CallReachable BY ReachParts
<1>3. \A c, s : BeingUnlinked(c, s)' <=> BeingUnlinked(c, s)
  BY <1>1 DEF BeingUnlinked, EndCall
<1>4. LinksEnd' /\ EntriesReachable' /\ \A c : Reachable(c) => Reachable(c)'
  BY <1>1, <1>2, <1>3, ReachSame
<1>5. Reachable(cwd)'
  <2>1. CASE cwd' = cwd
    <3>1. Reachable(cwd) => Reachable(cwd)' BY <1>4, <2>1
    <3> QED BY <1>2, <3>1 DEF CallReachable
  <2>2. CASE cwd' = Root BY <2>2 DEF Reachable
  <2> QED BY <1>1, <2>1, <2>2
<1> QED BY <1>1, <1>4, <1>5, ReachEnded

LEMMA ReachOpen ==
  ASSUME ReachInv, NEW d \in Directories, NEW n \in Names, CallOpen(d, n)
  PROVE  Reaching'
<1>1. /\ pc = "idle" /\ pc' = "place" /\ ~tainted /\ UNCHANGED <<fat, slots, cwd, raw, tainted>>
      /\ call' = [NoCall EXCEPT !.op = "open", !.parent = d, !.name = n]
  BY DEF CallOpen, Ready
<1>2. call'.op = "open" /\ call'.parent = d BY <1>1 DEF NoCall
<1>3. IsTable(fat) /\ TreeSoundness /\ LinksEnd /\ EntriesReachable /\ Reachable(cwd)
  BY <1>1, ReachParts DEF CallReachable
<1>4. \A c, s : BeingUnlinked(c, s)' <=> BeingUnlinked(c, s) BY <1>1 DEF BeingUnlinked
<1>5. LinksEnd' /\ EntriesReachable' /\ \A c : Reachable(c) => Reachable(c)'
  BY <1>1, <1>3, <1>4, ReachSame
<1>6. Reachable(d) BY <1>1, <1>3, PathsReach
<1>7. Reachable(call.parent)'
  <2>1. Reachable(d)' BY <1>5, <1>6
  <2> QED BY <1>2, <2>1 DEF Reachable
<1>8. Reachable(cwd)'
  <2>1. Reachable(cwd) => Reachable(cwd)' BY <1>1, <1>5
  <2> QED BY <1>3, <2>1
<1>9. CallReachable' BY <1>1, <1>7, <1>8 DEF CallReachable
<1> QED BY <1>5, <1>9 DEF Reaching

LEMMA ReachRename ==
  ASSUME ReachInv, NEW d \in Directories, NEW n \in Names, CallRename(d, n)
  PROVE  Reaching'
<1>1. /\ pc = "idle" /\ ~tainted /\ UNCHANGED <<fat, slots, cwd, raw>> /\ pc' = "check"
  BY DEF CallRename, Ready
<1>2. PICK sl \in Looks(d), c \in Cluster, s \in Slots :
        /\ Finds(sl, d, n, c, s)
        /\ \E e \in Directories, m \in Names :
             call' = [NoCall EXCEPT !.op = "rename", !.parent = e, !.name = m,
               !.dir = sl[c][s].dir, !.first = sl[c][s].first, !.old = <<c, s>>]
        /\ tainted' = (tainted \/ sl # slots)
  BY Zenon DEF CallRename
<1>3. PICK e \in Directories, m \in Names :
        /\ call' = [NoCall EXCEPT !.op = "rename", !.parent = e, !.name = m,
                      !.dir = sl[c][s].dir, !.first = sl[c][s].first, !.old = <<c, s>>]
        /\ tainted' = (tainted \/ sl # slots)
  BY <1>2
<1>4. /\ call'.op = "rename" /\ call'.parent = e /\ call'.dir = sl[c][s].dir
      /\ call'.first = sl[c][s].first /\ call'.old = <<c, s>>
  BY <1>3 DEF NoCall
<1> SUFFICES ASSUME ~tainted' PROVE LinksEnd' /\ EntriesReachable' /\ CallReachable'
  BY DEF Reaching
<1>6. /\ IsTable(fat) /\ TreeSoundness /\ LinksEnd /\ EntriesReachable /\ Reachable(cwd)
      /\ SlotsSound /\ NothingLeft
  BY <1>1, ReachParts DEF CallReachable, TreeSoundness
<1>7. \A x, t : BeingUnlinked(x, t)' <=> BeingUnlinked(x, t) BY <1>1 DEF BeingUnlinked
<1>8. /\ LinksEnd' /\ EntriesReachable' /\ \A x : Reachable(x) => Reachable(x)'
  BY <1>1, <1>6, <1>7, ReachSame
<1>9. Reachable(e) /\ Start(e) BY <1>1, <1>6, PathsReach, DirectoriesStart
<1>10. Reachable(call.parent)'
  <2>1. Reachable(e)' BY <1>8, <1>9
  <2> QED BY <1>4, <2>1 DEF Reachable
<1>11. Reachable(cwd)'
  <2>1. Reachable(cwd) => Reachable(cwd)' BY <1>1, <1>8
  <2> QED BY <1>6, <2>1
<1>12. Reachable(call.old[1])'
  <2>1. sl = slots BY <1>3, Zenon
  <2>2. Start(d) /\ Reachable(d) BY <1>1, <1>6, PathsReach, DirectoriesStart
  <2>3. c \in OnChainIn(fat, d) BY <1>2, FoundShort
  <2>4. WalkEnds(fat, d) BY <1>6, <2>2, DirChain DEF TreeSoundness
  <2>5. Reachable(c)' BY <1>8, <2>2, <2>3, <2>4, LeadsAlong
  <2> QED BY <1>4, <2>5 DEF Reachable
<1>13. CallReachable' BY <1>1, <1>10, <1>11, <1>12 DEF CallReachable
<1> QED BY <1>8, <1>13

LEMMA ReachCheck ==
  ASSUME ReachInv, CheckTarget PROVE Reaching'
<1>1. CASE EndCall BY <1>1, ReachStops
<1>2. CASE ~EndCall
  <2>1. /\ UNCHANGED <<fat, slots, cwd, raw, tainted, call>> /\ pc = "check" /\ pc' = "place"
    BY <1>2 DEF CheckTarget
  <2> SUFFICES ASSUME ~tainted PROVE LinksEnd' /\ EntriesReachable' /\ CallReachable'
    BY <2>1 DEF Reaching
  <2>2. LinksEnd /\ EntriesReachable /\ CallReachable BY ReachParts
  <2>3. \A c, s : BeingUnlinked(c, s)' <=> BeingUnlinked(c, s) BY <2>1 DEF BeingUnlinked
  <2>4. /\ LinksEnd' /\ EntriesReachable' /\ \A c : Reachable(c) => Reachable(c)'
    BY <2>1, <2>2, <2>3, ReachSame
  <2>5. Reachable(cwd)' /\ Reachable(call.parent)'
    <3>1. Reachable(cwd) => Reachable(cwd)' BY <2>1, <2>4
    <3>2. Reachable(call.parent) => Reachable(call.parent)' BY <2>1, <2>4
    <3> QED BY <2>1, <2>2, <3>1, <3>2 DEF CallReachable
  <2>6. Reachable(call.old[1]) => Reachable(call.old[1])' BY <2>1, <2>4
  <2>7. CallReachable' BY <2>1, <2>2, <2>5, <2>6 DEF CallReachable, HasOld
  <2> QED BY <2>4, <2>7
<1> QED BY <1>1, <1>2

LEMMA ReachPlaceInside ==
  ASSUME ReachInv, PlaceInside PROVE Reaching'
<1>1. /\ pc = "place" /\ pc' = "entry" /\ UNCHANGED <<fat, slots, cwd, raw, tainted>>
  BY DEF PlaceInside
<1> SUFFICES ASSUME ~tainted PROVE LinksEnd' /\ EntriesReachable' /\ CallReachable'
  BY <1>1 DEF Reaching
<1>2. /\ LinksEnd /\ EntriesReachable /\ CallReachable
      /\ IsTable(fat) /\ TreeSoundness /\ EndsInv
  BY ReachParts
<1>3. PICK c \in Cluster, s \in Slots :
        /\ \E p \in FreeRuns(slots, Walk(call.parent), SlotsNeeded(call.name)) :
             <<Walk(call.parent)[p[1]], p[2]>> = <<c, s>>
        /\ call' = [call EXCEPT !.at = <<c, s>>]
  <2>1. PICK c \in Cluster, s \in Slots :
        /\ \E p \in FreeRuns(slots, Walk(call.parent), SlotsNeeded(call.name)) :
             /\ IsFirst(p, FreeRuns(slots, Walk(call.parent), SlotsNeeded(call.name)))
             /\ <<Walk(call.parent)[p[1]], p[2]>> = <<c, s>>
        /\ call' = [call EXCEPT !.at = <<c, s>>]
    BY Zenon DEF PlaceInside
  <2> QED BY <2>1
<1>4. /\ call'.at = <<c, s>> /\ call'.op = call.op /\ call'.first = call.first
      /\ call'.dir = call.dir /\ call'.old = call.old
  <2>1. CallShape BY <1>2 DEF EndsInv
  <2>2. /\ call'.at = <<c, s>> /\ call'.op = call.op /\ call'.first = call.first
        /\ call'.old = call.old
    BY <1>3, <2>1, CallPlaced
  <2>3. call'.dir = call.dir BY <1>3, <2>1 DEF CallShape
  <2> QED BY <2>2, <2>3
<1>5. c \in OnChainIn(fat, call.parent)
  <2>1. PICK p \in FreeRuns(slots, Walk(call.parent), SlotsNeeded(call.name)) :
          <<Walk(call.parent)[p[1]], p[2]>> = <<c, s>>
    BY <1>3
  <2>2. p[1] \in DOMAIN Walk(call.parent) BY <2>1 DEF FreeRuns, Places
  <2> QED BY <2>1, <2>2 DEF OnChainIn, Walk
<1>6. WalkEnds(fat, call.parent)
  BY <1>1, <1>2, DirChain DEF TreeSoundness, NewEntrySound
<1>7. \A x, t : BeingUnlinked(x, t)' <=> BeingUnlinked(x, t) BY <1>1 DEF BeingUnlinked
<1>8. /\ LinksEnd' /\ EntriesReachable' /\ \A x : Reachable(x) => Reachable(x)'
  BY <1>1, <1>2, <1>7, ReachSame
<1>9. Reachable(c)
  <2>1. Reachable(call.parent) BY <1>1, <1>2 DEF CallReachable
  <2> QED BY <1>5, <1>6, <2>1, LeadsAlong
<1>10. CallReachable'
  <2>1. Reachable(cwd)'
    <3>1. Reachable(cwd) => Reachable(cwd)' BY <1>1, <1>8
    <3> QED BY <1>2, <3>1 DEF CallReachable
  <2>2. Reachable(c)' BY <1>8, <1>9
  <2>3. Reachable(call.at[1])' BY <1>4, <2>2 DEF Reachable
  <2>4. call.op = "rename" => Reachable(call.old[1])'
    <3>1. call.op = "rename" => Reachable(call.old[1]) BY <1>1, <1>2 DEF CallReachable, HasOld
    <3>2. PICK o : o = call.old[1] OBVIOUS
    <3>3. Reachable(o) => Reachable(o)' BY <1>8
    <3> QED BY <1>4, <3>1, <3>2, <3>3 DEF Reachable
  <2> QED BY <1>1, <1>4, <2>1, <2>3, <2>4 DEF CallReachable
<1> QED BY <1>8, <1>10

LEMMA ReachMkdir ==
  ASSUME ReachInv, NEW d \in Directories, NEW n \in Names, CallMkdir(d, n)
  PROVE  Reaching'
<1> DEFINE new == Allocate(fat, hint, 1)
<1> SUFFICES ASSUME ~tainted' PROVE Reaching'
  BY DEF Reaching
<1>1. /\ pc = "idle" /\ ~tainted /\ new.ok /\ fat' = new.fat
      /\ pc' = "clear" /\ UNCHANGED <<slots, cwd, tainted>>
  BY DEF CallMkdir, Ready
<1>2. PICK e \in Cluster :
        /\ e = new.first
        /\ call' = [NoCall EXCEPT !.op = "mkdir", !.parent = d, !.name = n,
                                  !.dir = TRUE, !.first = e]
  BY Zenon DEF CallMkdir
<1>3. call'.op = "mkdir" /\ call'.parent = d BY <1>2 DEF NoCall
<1> HIDE DEF new
<1>4. /\ IsTable(fat) /\ hint \in Cluster /\ TreeSoundness
      /\ LinksEnd /\ EntriesReachable /\ Reachable(cwd)
  BY <1>1, ReachParts, TreeMeansDisk DEF CallReachable
<1>5. /\ fat[e] = FREE /\ fat'[e] = EndOfChain
      /\ \A c \in FatIndex : c # e => fat'[c] = fat[c]
  BY <1>1, <1>2, <1>4, OneTaken DEF new
<1>6. LinksStay BY <1>5, TableNumbers DEF LinksStay
<1>7. DirEntriesStay BY <1>1 DEF DirEntriesStay, BeingUnlinked
<1>8. ReachGrows BY <1>6, <1>7, ReachStays
<1>9. EntriesReachable' BY <1>1, <1>4, <1>8 DEF EntriesReachable, ReachGrows
<1>10. LinksEnd' BY <1>4, <1>5, TableNumbers DEF LinksEnd
<1>11. Reachable(d)' /\ Reachable(cwd)'
  <2>1. Reachable(d) BY <1>1, <1>4, PathsReach
  <2>2. Reachable(d)' BY <1>8, <2>1 DEF ReachGrows
  <2>3. Reachable(cwd) => Reachable(cwd)' BY <1>1, <1>8 DEF ReachGrows
  <2> QED BY <1>4, <2>2, <2>3
<1>12. Reachable(call.parent)' BY <1>3, <1>11 DEF Reachable
<1>13. CallReachable' BY <1>1, <1>3, <1>11, <1>12 DEF CallReachable
<1> QED BY <1>9, <1>10, <1>13 DEF Reaching

\* There is an end to the chain of a directory, where a cluster can be linked.
LEMMA DirectoryEnds ==
  ASSUME IsTable(fat), LinksSound, LinksEnd, pc # "extended", NEW d, Start(d)
  PROVE  EndOf(fat, d) # 0
<1> DEFINE ch == ChainIn(fat, d)
           last == ch[Len(ch)]
<1>1. WalkEnds(fat, d) /\ OnChainIn(fat, d) \subseteq InUse BY DirChain
<1>2. /\ OnChainIn(fat, d) = {ch[i] : i \in 1 .. Len(ch)}
      /\ Len(ch) \in Nat /\ Len(ch) >= 1
  BY <1>1, OnWalk
<1>3. Whole(fat, ch) BY <1>1, ChainOfWalk
<1>4. fat[last] \notin Cluster /\ ch # <<>> BY <1>2, <1>3 DEF Whole
<1> HIDE DEF ch
<1>5. Len(ch) \in 1 .. Len(ch) BY <1>2, SMT
<1>6. last \in InUse BY <1>1, <1>2, <1>5
<1>7. last \in Cluster /\ fat[last] = EndOfChain BY <1>4, <1>6 DEF InUse, LinksEnd
<1>8. NextIn(fat, last) = EndOfChain BY <1>7, TableNumbers DEF NextIn
<1>9. IsEndOfChain(EndOfChain) BY SMT DEF IsEndOfChain, EndOfChain, MediaEntry
<1>10. EndOf(fat, d) = last BY <1>4, <1>8, <1>9, Zenon DEF EndOf, ch
<1> QED BY <1>7, <1>10, TableNumbers

LEMMA ReachPlaceBehind ==
  ASSUME ReachInv, PlaceBehind PROVE Reaching'
<1> SUFFICES ASSUME ~tainted' PROVE LinksEnd' /\ EntriesReachable' /\ CallReachable'
  BY DEF Reaching
<1>1. pc = "place" /\ pc' = "extended" /\ ~tainted /\ UNCHANGED <<slots, cwd, tainted>>
  BY DEF PlaceBehind
<1>2. /\ TreeInv /\ LinksEnd /\ EntriesReachable /\ CallReachable
      /\ IsTable(fat) /\ TreeSoundness /\ LinksSound
  BY <1>1, ReachParts DEF TreeSoundness
<1>3. Start(call.parent) BY <1>1, <1>2 DEF TreeSoundness, NewEntrySound
<1>4. EndOf(fat, call.parent) # 0 BY <1>1, <1>2, <1>3, DirectoryEnds
<1>5. /\ call'.op = call.op /\ call'.first = call.first /\ call'.dir = call.dir
      /\ call'.old = call.old
      /\ \E e \in Cluster :
           /\ raw' = raw \cup {e} /\ call'.at = <<e, 1>>
           /\ fat[e] = FREE
           /\ ~tainted /\ ~tainted' =>
                /\ fat'[e] = EndOfChain
                /\ \/ EndOf(fat, call.parent) = 0 /\ \A c \in FatIndex : c # e => fat'[c] = fat[c]
                   \/ \E l \in Cluster :
                        /\ l = EndOf(fat, call.parent) /\ l \in OnChainIn(fat, call.parent)
                        /\ fat[l] # FREE /\ fat[l] \notin Cluster /\ fat'[l] = e
                        /\ \A c \in FatIndex : c # e /\ c # l => fat'[c] = fat[c]
  BY <1>2, DirectoryExtended
<1>6. PICK e \in Cluster :
        /\ raw' = raw \cup {e} /\ call'.at = <<e, 1>>
        /\ fat[e] = FREE /\ fat'[e] = EndOfChain
        /\ \E l \in Cluster :
             /\ l \in OnChainIn(fat, call.parent)
             /\ fat[l] # FREE /\ fat[l] \notin Cluster /\ fat'[l] = e
             /\ \A c \in FatIndex : c # e /\ c # l => fat'[c] = fat[c]
  BY <1>1, <1>4, <1>5
<1>7. PICK l \in Cluster :
        /\ l \in OnChainIn(fat, call.parent)
        /\ fat[l] # FREE /\ fat[l] \notin Cluster /\ fat'[l] = e
        /\ \A c \in FatIndex : c # e /\ c # l => fat'[c] = fat[c]
  BY <1>6
<1>8. LinksStay BY <1>6, <1>7, TableNumbers DEF LinksStay
<1>9. DirEntriesStay BY <1>1 DEF DirEntriesStay, BeingUnlinked
<1>10. ReachGrows BY <1>8, <1>9, ReachStays
<1>11. EntriesReachable' BY <1>1, <1>2, <1>10 DEF EntriesReachable, ReachGrows
<1>12. LinksEnd' BY <1>2, <1>6, <1>7, TableNumbers DEF LinksEnd
<1>13. WalkEnds(fat, call.parent) BY <1>2, <1>3, DirChain
<1>14. Reachable(e)'
  <2> SUFFICES ASSUME NEW X \in SUBSET Cluster, Root \in X, Closed(X)' PROVE e \in X
    BY DEF Reachable
  <2>1. Reachable(call.parent) BY <1>1, <1>2 DEF CallReachable
  <2>2. Reachable(l) BY <1>7, <1>13, <2>1, LeadsAlong
  <2>3. Reachable(l)' BY <1>10, <2>2 DEF ReachGrows
  <2>4. l \in X BY <2>3 DEF Reachable
  <2> QED BY <1>7, <2>4 DEF Closed
<1>15. CallReachable'
  <2>1. Reachable(cwd)'
    <3>1. Reachable(cwd) => Reachable(cwd)' BY <1>1, <1>10 DEF ReachGrows
    <3> QED BY <1>2, <3>1 DEF CallReachable
  <2>2. Reachable(call.at[1])' BY <1>6, <1>14 DEF Reachable
  <2>3. call.op = "rename" => Reachable(call.old[1])'
    <3>1. call.op = "rename" => Reachable(call.old[1]) BY <1>1, <1>2 DEF CallReachable, HasOld
    <3>2. PICK o : o = call.old[1] OBVIOUS
    <3>3. Reachable(o) => Reachable(o)' BY <1>10 DEF ReachGrows
    <3> QED BY <1>5, <3>1, <3>2, <3>3 DEF Reachable
  <2> QED BY <1>1, <1>5, <2>1, <2>2, <2>3 DEF CallReachable
<1> QED BY <1>11, <1>12, <1>15

\* The last write of a call, or a crash in place of it.
LEMMA ReachEnds ==
  ASSUME ReachInv, ~tainted, ~tainted', [Next]_dirVars, UNCHANGED fat, EndCall,
         cwd' \in {cwd, Root}, UNCHANGED slots \/ (pc \in Writing /\ (Written \/ Torn)),
         pc = "delete" => ~MovedInside
  PROVE  Reaching'
<1>1. call'.op # "unlink" BY DEF EndCall, NoCall
<1>2. EntriesReachable' /\ ReachGrows
  <2>1. CASE pc = "delete" /\ call.op = "rename" /\ call.dir BY <2>1, ReachErased
  <2>2. CASE ~(pc = "delete" /\ call.op = "rename" /\ call.dir) BY <1>1, <2>2, ReachWritten
  <2> QED BY <2>1, <2>2
<1>3. Reachable(cwd)'
  <2>1. CASE cwd' = cwd
    <3>1. Reachable(cwd) => Reachable(cwd)' BY <1>2, <2>1 DEF ReachGrows
    <3> QED BY <3>1, ReachParts DEF CallReachable
  <2>2. CASE cwd' = Root BY <2>2 DEF Reachable
  <2> QED BY <2>1, <2>2
<1>4. LinksEnd' BY ReachParts DEF LinksEnd
<1> QED BY <1>2, <1>3, <1>4, ReachEnded DEF Reaching

\* The writes before it.
LEMMA ReachGoesOn ==
  ASSUME ReachInv, ~tainted, ~tainted', [Next]_dirVars, UNCHANGED <<fat, cwd, call>>, raw' \subseteq raw,
         Written \/ Torn,
         \/ pc \in {"clear", "init"} /\ pc' \in {"init", "place"}
         \/ pc = "extended" /\ pc' = "entry"
         \/ pc = "entry" /\ pc' = "delete" /\ call.op = "rename"
  PROVE  Reaching'
<1>1. /\ TreeSoundness /\ EndsInv /\ LinksEnd /\ CallReachable /\ RenameSound
  BY ReachParts
<1>2. call.op # "unlink"
  <2>1. CASE pc \in {"clear", "init"} BY <1>1, <2>1 DEF EndsInv, NewClusterRaw
  <2>2. CASE pc \in {"extended", "entry"} BY <2>2 DEF ReachInv, Unlinking
  <2> QED BY <2>1, <2>2
<1>3. pc \in Writing /\ pc # "delete" BY DEF Writing
<1>4. EntriesReachable' /\ ReachGrows BY <1>2, <1>3, ReachWritten
<1>5. CallReachable'
  <2>1. /\ Reachable(cwd) => Reachable(cwd)'
        /\ Reachable(call.parent) => Reachable(call.parent)'
        /\ Reachable(call.at[1]) => Reachable(call.at[1])'
        /\ Reachable(call.old[1]) => Reachable(call.old[1])'
    BY <1>4 DEF ReachGrows
  <2>2. pc \in {"clear", "init"} => call.op = "mkdir" BY <1>1 DEF EndsInv, NewClusterRaw
  <2> QED BY <1>1, <2>1, <2>2 DEF CallReachable, HasOld
<1>6. LinksEnd' BY <1>1 DEF LinksEnd
<1> QED BY <1>4, <1>5, <1>6 DEF Reaching

LEMMA UnlinkingStep == TreeInv /\ Unlinking /\ [Next]_dirVars => Unlinking'
<1> SUFFICES ASSUME TreeInv, Unlinking, [Next]_dirVars PROVE Unlinking'
  OBVIOUS
<1>1. CASE EndCall BY <1>1 DEF EndCall, NoCall, Unlinking
<1>2. CASE UNCHANGED <<pc, call>> BY <1>2 DEF Unlinking
<1>3. CASE pc \notin {"idle", "delete"} /\ call'.op = call.op BY <1>3 DEF Unlinking
<1>4. CASE CallStarts
  <2>1. PICK d \in Directories :
          \/ \E n \in Names : CallMkdir(d, n) \/ CallOpen(d, n) \/ CallUnlink(d, n) \/ CallRename(d, n)
          \/ OpenDir(d)
    BY <1>4 DEF CallStarts
  <2>2. CASE OpenDir(d) BY <1>2, <2>2 DEF OpenDir
  <2>3. CASE \E n \in Names : CallMkdir(d, n)
    <3>1. PICK n \in Names, c \in Cluster :
            call' = [NoCall EXCEPT !.op = "mkdir", !.parent = d, !.name = n, !.dir = TRUE, !.first = c]
      BY <2>3, Zenon DEF CallMkdir
    <3> QED BY <3>1 DEF NoCall, Unlinking
  <2>4. CASE \E n \in Names : CallOpen(d, n)
    <3>1. PICK n \in Names : call' = [NoCall EXCEPT !.op = "open", !.parent = d, !.name = n]
      BY <2>4, Zenon DEF CallOpen
    <3> QED BY <3>1 DEF NoCall, Unlinking
  <2>5. CASE \E n \in Names : CallUnlink(d, n)
    <3>1. pc' = "delete" BY <2>5, Zenon DEF CallUnlink
    <3> QED BY <3>1 DEF Unlinking
  <2>6. CASE \E n \in Names : CallRename(d, n)
    <3>1. PICK n \in Names : CallRename(d, n) BY <2>6
    <3>2. PICK sl \in Looks(d), c \in Cluster, s \in Slots :
            \E e \in Directories, m \in Names :
              /\ call' = [NoCall EXCEPT !.op = "rename", !.parent = e, !.name = m,
                            !.dir = sl[c][s].dir, !.first = sl[c][s].first, !.old = <<c, s>>]
              /\ tainted' = (tainted \/ sl # slots)
      BY <3>1, Zenon DEF CallRename
    <3>3. PICK e, m :
            call' = [NoCall EXCEPT !.op = "rename", !.parent = e, !.name = m,
                        !.dir = sl[c][s].dir, !.first = sl[c][s].first, !.old = <<c, s>>]
      BY <3>2
    <3> QED BY <3>3 DEF NoCall, Unlinking
  <2> QED BY <2>1, <2>2, <2>3, <2>4, <2>5, <2>6, Zenon
<1>5. CASE ReadStops BY <1>2, <1>5, Zenon DEF ReadStops
<1>6. CASE ReadEnds \/ ReadFails \/ CloseDir \/ ChangeDir \/ UNCHANGED dirVars
  <2>1. UNCHANGED <<pc, call>>
    <3>1. CASE ReadEnds BY <3>1 DEF ReadEnds
    <3>2. CASE ReadFails BY <3>2, Zenon DEF ReadFails
    <3>3. CASE CloseDir BY <3>3 DEF CloseDir
    <3>4. CASE ChangeDir BY <3>4 DEF ChangeDir
    <3>5. CASE UNCHANGED dirVars BY <3>5 DEF dirVars
    <3> QED BY <1>6, <3>1, <3>2, <3>3, <3>4, <3>5
  <2> QED BY <1>2, <2>1
<1>7. CASE ClearNew \/ ClearExtension \/ InitNew \/ WriteEntry
  <2>1. pc \notin {"idle", "delete"} /\ (EndCall \/ UNCHANGED call)
    BY <1>7, Zenon DEF ClearNew, ClearExtension, InitNew, WriteEntry
  <2> QED BY <1>1, <1>3, <2>1
<1>8. CASE CheckTarget
  <2>1. pc \notin {"idle", "delete"} /\ (EndCall \/ UNCHANGED call) BY <1>8 DEF CheckTarget
  <2> QED BY <1>1, <1>3, <2>1
<1>9. CASE PlaceInside
  <2>1. PICK place : call' = [call EXCEPT !.at = place] BY <1>9, Zenon DEF PlaceInside
  <2>2. CallShape BY TreeMeansDisk DEF EndsInv
  <2>3. call'.op = call.op BY <2>1, <2>2, CallPlaced
  <2> QED BY <1>3, <1>9, <2>3 DEF PlaceInside
<1>10. CASE PlaceBehind
  <2>1. call'.op = call.op BY <1>10, DirectoryExtended
  <2> QED BY <1>3, <1>10, <2>1 DEF PlaceBehind
<1>11. CASE PlaceFails \/ DeleteEntry \/ Restart \/ Crash
  <2>1. EndCall BY <1>11 DEF PlaceFails, DeleteEntry, Restart, Crash, Reboot
  <2> QED BY <1>1, <2>1
<1> QED
  BY <1>4, <1>5, <1>6, <1>7, <1>8, <1>9, <1>10, <1>11, Zenon DEF Next

\* The chain of an empty directory is freed: nothing went through it.
LEMMA ReachFreed ==
  ASSUME IsTable(fat), LinksSound, EntriesReachable, LinksEnd, pc = "idle", UNCHANGED slots,
         NEW f, Begun(f), NEW c, NEW s, slots[c][s].first = f, ~InTheWay(f, c, s),
         fat' = Release(fat, f), \A x, t : BeingUnlinked(x, t)' => x = c /\ t = s
  PROVE  /\ EntriesReachable' /\ LinksEnd'
         /\ \A y : Start(y) /\ y # f /\ Reachable(y) => Reachable(y)'
<1> DEFINE F == OnChainIn(fat, f)
<1>1. First(fat, f) /\ WalkEnds(fat, f) /\ F \subseteq Cluster
  <2>1. Start(f) /\ pc # "extended" BY DEF Begun
  <2> QED BY <2>1, DirChain DEF InUse
<1>2. \A x \in Cluster : fat'[x] = IF x \in F THEN FREE ELSE fat[x]
  <2>1. f \in Entry /\ Cluster \subseteq FatIndex BY TableNumbers DEF Begun, Start, InUse
  <2> DEFINE g == fat'
  <2>2. g = Release(fat, f) OBVIOUS
  <2> HIDE DEF g, F
  <2>3. \A x \in FatIndex : g[x] = IF x \in OnChainIn(fat, f) THEN FREE ELSE fat[x]
    BY <2>1, <2>2, ReleaseFacts
  <2> QED BY <2>1, <2>3 DEF g, F
<1>3. \A x \in F, t \in Slots : ~IsEntry(slots[x][t]) BY Zenon DEF InTheWay
<1>4. \A x \in F : fat[x] \in Cluster => fat[x] \in F BY <1>1, WalkGoesOn
<1>5. \A y : Start(y) /\ y # f => y \notin F BY <1>1, NotOnChain DEF Start
<1>f. f \in F BY <1>1, OnWalk
<1> HIDE DEF F
<1>6. ASSUME NEW y, Reachable(y), y \notin F PROVE Reachable(y)'
  <2> SUFFICES ASSUME NEW X \in SUBSET Cluster, Root \in X, Closed(X)' PROVE y \in X
    BY DEF Reachable
  <2> DEFINE Z == X \cup F
  <2>1. \A x \in Z : fat[x] \in Cluster => fat[x] \in Z
    <3> SUFFICES ASSUME NEW x \in Z, fat[x] \in Cluster PROVE fat[x] \in Z
      OBVIOUS
    <3>1. CASE x \in F BY <1>4, <3>1
    <3>2. CASE x \notin F
      <4>1. fat'[x] = fat[x] BY <1>2, <3>2
      <4> QED BY <3>2, <4>1 DEF Closed
    <3> QED BY <3>1, <3>2
  <2>2. \A x \in Z, t \in Slots : IsDirEntry(slots[x][t]) => slots[x][t].first \in Z
    <3> SUFFICES ASSUME NEW x \in Z, NEW t \in Slots, IsDirEntry(slots[x][t])
                 PROVE  slots[x][t].first \in Z
      OBVIOUS
    <3>1. x \notin F /\ x \in X BY <1>3 DEF IsDirEntry
    <3>2. CASE x = c /\ t = s BY <1>f, <3>2
    <3>3. CASE ~(x = c /\ t = s)
      <4>1. ~BeingUnlinked(x, t)' BY <3>3
      <4> QED BY <3>1, <4>1 DEF Closed
    <3> QED BY <3>2, <3>3
  <2>3. Z \in SUBSET Cluster /\ Root \in Z BY <1>1
  <2>4. Closed(Z) BY <2>1, <2>2 DEF Closed
  <2> HIDE DEF Z
  <2>5. y \in Z BY <1>6, <2>3, <2>4 DEF Reachable
  <2> QED BY <1>6, <2>5 DEF Z
<1>7. EntriesReachable'
  <2> SUFFICES ASSUME NEW x \in Cluster, NEW t \in Slots, IsDirEntry(slots[x][t])
               PROVE  Reachable(x)' /\ slots[x][t].first \in Cluster
    BY DEF EntriesReachable
  <2>1. Reachable(x) /\ slots[x][t].first \in Cluster BY DEF EntriesReachable
  <2>2. x \notin F BY <1>3 DEF IsDirEntry
  <2> QED BY <1>6, <2>1, <2>2
<1>8. LinksEnd' BY <1>2 DEF LinksEnd
<1> QED BY <1>5, <1>6, <1>7, <1>8

LEMMA ReachUnlink ==
  ASSUME ReachInv, NEW d \in Directories, NEW n \in Names, CallUnlink(d, n)
  PROVE  Reaching'
<1>1. /\ pc = "idle" /\ ~tainted /\ UNCHANGED <<slots, cwd>> /\ pc' = "delete"
  BY DEF CallUnlink, Ready
<1>2. PICK sl \in Looks(d), c \in Cluster, s \in Slots :
        /\ Finds(sl, d, n, c, s)
        /\ call' = [NoCall EXCEPT !.op = "unlink", !.dir = sl[c][s].dir,
                       !.first = sl[c][s].first, !.old = <<c, s>>]
        /\ fat' = IF sl[c][s].first = None THEN fat ELSE Release(fat, sl[c][s].first)
        /\ tainted' = (tainted \/ sl # slots
                        \/ (sl[c][s].dir /\ InTheWay(sl[c][s].first, c, s)))
  BY Zenon DEF CallUnlink
<1>3. call'.op = "unlink" /\ call'.old = <<c, s>> BY <1>2 DEF NoCall
<1> SUFFICES ASSUME ~tainted' PROVE LinksEnd' /\ EntriesReachable' /\ CallReachable'
  BY DEF Reaching
<1>4. sl = slots /\ (slots[c][s].dir => ~InTheWay(slots[c][s].first, c, s))
  <2>1. sl = slots BY <1>2, Zenon
  <2>2. (sl[c][s].dir => ~InTheWay(sl[c][s].first, c, s)) BY <1>2, Zenon
  <2> QED BY <2>1, <2>2, Zenon
<1>5. /\ IsTable(fat) /\ TreeSoundness /\ LinksEnd /\ EntriesReachable /\ Reachable(cwd)
      /\ SlotsSound /\ LinksSound /\ NothingLeft
  BY <1>1, ReachParts DEF CallReachable, TreeSoundness
<1>6. c \in InUse /\ IsEntry(slots[c][s])
  <2>1. Start(d) BY <1>1, <1>5, DirectoriesStart
  <2> QED BY <1>1, <1>2, <1>4, <1>5, <2>1, FoundEntry
<1>7. \A x, t : ~BeingUnlinked(x, t) /\ (BeingUnlinked(x, t)' => x = c /\ t = s)
  BY <1>1, <1>3 DEF BeingUnlinked
<1>8. SlotSound(c, s) BY <1>5, <1>6 DEF SlotsSound
<1>9. slots[c][s].kind = "short" /\ slots[c][s].name # "." /\ slots[c][s].name # ".."
  BY <1>6, Stored DEF IsEntry
<1>10. \/ ~slots[c][s].dir /\ slots[c][s].first = None
       \/ slots[c][s].dir /\ Begun(slots[c][s].first)
  BY <1>7, <1>8, <1>9 DEF SlotSound, IsDirEntry
<1>11. EntriesReachable' /\ LinksEnd' /\ Reachable(cwd)'
  <2>1. CASE ~slots[c][s].dir /\ slots[c][s].first = None
    <3>1. UNCHANGED fat BY <1>2, <1>4, <2>1
    <3>2. LinksStay BY <3>1 DEF LinksStay
    <3>3. DirEntriesStay
      <4>1. \A x \in Cluster, t \in Slots : IsDirEntry(slots[x][t]) => ~(x = c /\ t = s)
        BY <2>1 DEF IsDirEntry
      <4> QED BY <1>1, <1>7, <4>1 DEF DirEntriesStay
    <3>4. ReachGrows BY <3>2, <3>3, ReachStays
    <3>5. Reachable(cwd) => Reachable(cwd)' BY <1>1, <3>4 DEF ReachGrows
    <3>6. EntriesReachable' BY <1>1, <1>5, <3>4 DEF EntriesReachable, ReachGrows
    <3>7. LinksEnd' BY <1>5, <3>1 DEF LinksEnd
    <3> QED BY <1>5, <3>5, <3>6, <3>7
  <2>2. CASE slots[c][s].dir /\ Begun(slots[c][s].first)
    <3>1. PICK f : f = slots[c][s].first OBVIOUS
    <3>2. Begun(f) /\ ~InTheWay(f, c, s) BY <1>4, <2>2, <3>1
    <3>3. f # None BY <3>2, TableNumbers DEF Begun, Start, InUse, None
    <3>4. fat' = Release(fat, f) BY <1>2, <1>4, <3>1, <3>3
    <3>5. \A x, t : BeingUnlinked(x, t)' => x = c /\ t = s BY <1>7
    <3>6. /\ EntriesReachable' /\ LinksEnd'
          /\ \A y : Start(y) /\ y # f /\ Reachable(y) => Reachable(y)'
      BY <1>1, <1>5, <3>1, <3>2, <3>4, <3>5, ReachFreed
    <3>7. cwd # f BY <3>2, Zenon DEF InTheWay
    <3>8. Start(cwd) BY <1>5 DEF TreeSoundness, Rooted
    <3>9. Reachable(cwd) => Reachable(cwd)' BY <1>1, <3>6, <3>7, <3>8
    <3> QED BY <1>5, <3>6, <3>9
  <2> QED BY <1>10, <2>1, <2>2
<1>12. CallReachable' BY <1>1, <1>3, <1>11 DEF CallReachable
<1> QED BY <1>11, <1>12

LEMMA ReachStep == ReachInv /\ [Next]_dirVars => ReachInv'
<1> SUFFICES ASSUME ReachInv, [Next]_dirVars PROVE ReachInv'
  OBVIOUS
<1>1. DirTypeInv' BY DirTypeStep DEF ReachInv
<1>2. RenameSound' BY RenameStep DEF ReachInv, DirTypeInv, StayInv
<1>3. Unlinking' BY UnlinkingStep DEF ReachInv, DirTypeInv
<1>4. Reaching'
  <2> SUFFICES ASSUME ~tainted' PROVE Reaching'
    BY DEF Reaching
  <2>1. ~tainted BY TaintStays
  <2>2. CASE CallStarts
    <3>1. PICK d \in Directories :
            \/ \E n \in Names : CallMkdir(d, n) \/ CallOpen(d, n) \/ CallUnlink(d, n) \/ CallRename(d, n)
            \/ OpenDir(d)
      BY <2>2 DEF CallStarts
    <3>2. CASE OpenDir(d)
      <4>1. UNCHANGED <<fat, slots, raw, pc, call, tainted>> /\ cwd' = cwd BY <3>2 DEF OpenDir
      <4>2. Reachable(cwd) BY <2>1, ReachParts DEF CallReachable
      <4> QED BY <4>1, <4>2, ReachQuiet
    <3>3. CASE \E n \in Names : CallMkdir(d, n) \/ CallOpen(d, n) \/ CallUnlink(d, n) \/ CallRename(d, n)
      BY <3>3, ReachMkdir, ReachOpen, ReachUnlink, ReachRename
    <3> QED BY <3>1, <3>2, <3>3
  <2>3. CASE ReadStops \/ ReadEnds \/ ReadFails \/ CloseDir \/ UNCHANGED dirVars
    <3>1. UNCHANGED <<fat, slots, raw, pc, call, tainted>> /\ cwd' = cwd
      <4>1. CASE ReadStops BY <4>1, Zenon DEF ReadStops
      <4>2. CASE ReadEnds BY <4>2 DEF ReadEnds
      <4>3. CASE ReadFails BY <4>3, Zenon DEF ReadFails
      <4>4. CASE CloseDir BY <4>4 DEF CloseDir
      <4>5. CASE UNCHANGED dirVars BY <4>5 DEF dirVars
      <4> QED BY <2>3, <4>1, <4>2, <4>3, <4>4, <4>5
    <3>2. Reachable(cwd) BY <2>1, ReachParts DEF CallReachable
    <3> QED BY <3>1, <3>2, ReachQuiet
  <2>4. CASE ClearNew
    <3>1. /\ pc = "clear" /\ pc' = "init" /\ UNCHANGED <<fat, cwd, call, raw>>
          /\ Written \/ Torn
      BY <2>4 DEF ClearNew, WriteWorks, WriteFails
    <3> QED BY <2>1, <3>1, ReachGoesOn
  <2>5. CASE InitNew
    <3>1. pc = "init" /\ UNCHANGED <<fat, cwd>> /\ (Written \/ Torn) /\ pc \in Writing
      BY <2>5 DEF InitNew, WriteWorks, WriteFails, Writing
    <3>2. EndCall \/ (pc' = "place" /\ UNCHANGED call /\ raw' \subseteq raw)
      BY <2>5 DEF InitNew
    <3> QED BY <2>1, <3>1, <3>2, ReachEnds, ReachGoesOn
  <2>6. CASE PlaceInside BY <2>6, ReachPlaceInside
  <2>7. CASE PlaceBehind BY <2>7, ReachPlaceBehind
  <2>8. CASE PlaceFails \/ Restart BY <2>8, ReachStops
  <2>9. CASE CheckTarget BY <2>9, ReachCheck
  <2>10. CASE ClearExtension
    <3>1. /\ pc = "extended" /\ pc' = "entry" /\ UNCHANGED <<fat, cwd, call>> /\ raw' \subseteq raw
          /\ Written \/ Torn
      BY <2>10 DEF ClearExtension, WriteWorks, WriteFails
    <3> QED BY <2>1, <3>1, ReachGoesOn
  <2>11. CASE WriteEntry
    <3>1. pc = "entry" /\ UNCHANGED <<fat, cwd, raw>> /\ (Written \/ Torn) /\ pc \in Writing
      BY <2>11 DEF WriteEntry, WriteWorks, WriteFails, Writing
    <3>2. EndCall \/ (pc' = "delete" /\ UNCHANGED call /\ call.op = "rename")
      BY <2>11 DEF WriteEntry
    <3> QED BY <2>1, <3>1, <3>2, ReachEnds, ReachGoesOn
  <2>12. CASE DeleteEntry
    <3>1. UNCHANGED <<fat, cwd>> /\ EndCall /\ (Written \/ Torn) /\ pc \in Writing
      BY <2>12, Zenon DEF DeleteEntry, WriteWorks, WriteFails, Writing
    <3>2. ~MovedInside BY <2>12, Zenon DEF DeleteEntry
    <3> QED BY <2>1, <3>1, <3>2, ReachEnds
  <2>13. CASE ChangeDir BY <2>13, ReachChangeDir
  <2>14. CASE Crash
    <3>1. /\ UNCHANGED fat /\ cwd' = Root /\ EndCall
          /\ UNCHANGED slots \/ (pc \in Writing /\ Torn)
      BY <2>14 DEF Crash, Reboot
    <3>2. pc = "delete" => ~MovedInside BY <2>14, Zenon DEF Crash
    <3> QED BY <2>1, <3>1, <3>2, ReachEnds
  <2> QED
    BY <2>2, <2>3, <2>4, <2>5, <2>6, <2>7, <2>8, <2>9, <2>10, <2>11, <2>12, <2>13, <2>14
       DEF Next
<1> QED BY <1>1, <1>2, <1>3, <1>4 DEF ReachInv

LEMMA ReachInit == Init => ReachInv
<1> SUFFICES ASSUME Init PROVE ReachInv
  OBVIOUS
<1>1. DirTypeInv BY DirTypeInit
<1>2. pc = "idle" /\ call.op = "none" /\ cwd = Root BY DEF Init, NoCall
<1>3. RenameSound /\ Unlinking BY <1>2 DEF RenameSound, HasOld, Unlinking
<1>4. LinksEnd
  <2>1. \A c \in Cluster : c \in FatIndex /\ c # 0 BY TableNumbers
  <2> QED BY <2>1 DEF LinksEnd, Init, EmptyFat
<1>5. EntriesReachable
  <2>1. \A c \in Cluster, s \in Slots : slots[c][s] = EndMark BY DEF Init, EmptyCluster
  <2> QED BY <2>1, SlotKinds DEF EntriesReachable, IsDirEntry, IsEntry
<1>6. CallReachable BY <1>2 DEF CallReachable, Reachable
<1> QED BY <1>1, <1>3, <1>4, <1>5, <1>6 DEF ReachInv, Reaching

-----------------------------------------------------------------------------
(* One entry for each directory, as long as nothing fails.                 *)

OneEntry ==
  \A c, d \in Cluster, s, t \in Slots :
    IsDirEntry(slots[c][s]) /\ IsDirEntry(slots[d][t])
      /\ slots[c][s].first = slots[d][t].first /\ <<c, s>> # <<d, t>>
    => pc = "delete" /\ {<<c, s>>, <<d, t>>} = {NewPlace, call.old}

\* What the new entry will name has no other than the one that f_rename found.
FirstUnnamed ==
  pc # "idle" /\ pc # "delete" /\ call.dir =>
    \A c \in Cluster, s \in Slots :
      IsDirEntry(slots[c][s]) /\ slots[c][s].first = call.first =>
        call.op = "rename" /\ c = call.old[1] /\ s = call.old[2]

Naming == ~tainted /\ faults = 0 /\ crashes = 0 => OneEntry /\ FirstUnnamed

\* No entry of a directory is new.
NoneNew ==
  \A c \in Cluster, s \in Slots : IsDirEntry(slots'[c][s]) => slots'[c][s] = slots[c][s]

LEMMA OneEntryStays ==
  ASSUME OneEntry, pc # "delete", NoneNew PROVE OneEntry'
BY DEF OneEntry, NoneNew

LEMMA FirstStays ==
  ASSUME FirstUnnamed, NoneNew, pc \notin {"idle", "delete"}, call'.op = call.op,
         call'.dir = call.dir, call'.first = call.first, call'.old = call.old
  PROVE  FirstUnnamed'
BY DEF FirstUnnamed, NoneNew

\* Failures are counted.
LEMMA NothingFailed ==
  ASSUME DirTypeInv, [Next]_dirVars, faults' = 0, crashes' = 0
  PROVE  faults = 0 /\ crashes = 0 /\ ~Fault /\ ~WriteFails /\ ~Crash
<1>1. faults \in Nat /\ crashes \in Nat
  <2>1. MaxFaults \in Nat /\ MaxCrashes \in Nat BY DirAssumption
  <2> QED BY <2>1, SMT DEF DirTypeInv, Counted
<1>2. ~Fault BY <1>1, SMT DEF Fault
<1>3. ~WriteFails BY <1>2 DEF WriteFails
<1>4. ~Crash BY <1>1, SMT DEF Crash
<1>5. \A sl : CountLook(sl) => UNCHANGED faults BY <1>1, SMT DEF CountLook
<1>6. \A d, n : NoDirectory(d, n) => UNCHANGED faults BY <1>2 DEF NoDirectory
<1>7. UNCHANGED <<faults, crashes>>
  <2>1. CASE CallStarts
    <3>1. PICK d \in Directories :
            \/ \E n \in Names : CallMkdir(d, n) \/ CallOpen(d, n) \/ CallUnlink(d, n) \/ CallRename(d, n)
            \/ OpenDir(d)
      BY <2>1 DEF CallStarts
    <3>2. CASE OpenDir(d) BY <3>2, Zenon DEF OpenDir
    <3>3. CASE \E n \in Names : CallMkdir(d, n) BY <1>2, <1>6, <3>3, Zenon DEF CallMkdir
    <3>4. CASE \E n \in Names : CallOpen(d, n) BY <1>2, <1>5, <3>4, Zenon DEF CallOpen
    <3>5. CASE \E n \in Names : CallUnlink(d, n) BY <1>5, <3>5, Zenon DEF CallUnlink
    <3>6. CASE \E n \in Names : CallRename(d, n) BY <1>5, <3>6, Zenon DEF CallRename
    <3> QED BY <3>1, <3>2, <3>3, <3>4, <3>5, <3>6, Zenon
  <2>2. CASE ReadStops BY <2>2, Zenon DEF ReadStops
  <2>3. CASE ReadEnds BY <1>2, <2>3, Zenon DEF ReadEnds
  <2>4. CASE ReadFails BY <1>2, <2>4 DEF ReadFails
  <2>5. CASE CloseDir BY <2>5 DEF CloseDir
  <2>6. CASE UNCHANGED dirVars BY <2>6 DEF dirVars
  <2>7. CASE ClearNew BY <1>3, <2>7 DEF ClearNew, WriteWorks
  <2>8. CASE InitNew BY <1>3, <2>8 DEF InitNew, WriteWorks
  <2>9. CASE ClearExtension BY <1>3, <2>9 DEF ClearExtension, WriteWorks
  <2>10. CASE WriteEntry BY <1>3, <2>10 DEF WriteEntry, WriteWorks
  <2>11. CASE DeleteEntry BY <1>3, <2>11 DEF DeleteEntry, WriteWorks
  <2>12. CASE PlaceInside BY <2>12, Zenon DEF PlaceInside
  <2>13. CASE PlaceBehind BY <1>2, <2>13, Zenon DEF PlaceBehind
  <2>14. CASE PlaceFails BY <1>2, <2>14 DEF PlaceFails
  <2>15. CASE CheckTarget BY <1>6, <2>15 DEF CheckTarget
  <2>16. CASE ChangeDir BY <2>16, Zenon DEF ChangeDir
  <2>17. CASE Restart BY <2>17 DEF Restart, Reboot
  <2> QED
    BY <1>4, <2>1, <2>2, <2>3, <2>4, <2>5, <2>6, <2>7, <2>8, <2>9, <2>10, <2>11, <2>12, <2>13,
       <2>14, <2>15, <2>16, <2>17, Zenon DEF Next
<1> QED BY <1>2, <1>3, <1>4, <1>7

\* The new directory has its cluster for itself.
LEMMA NamingMkdir ==
  ASSUME ReachInv, ~tainted, NEW d, NEW n, CallMkdir(d, n) PROVE FirstUnnamed'
<1> DEFINE new == Allocate(fat, hint, 1)
<1>1. pc = "idle" /\ new.ok /\ UNCHANGED slots BY DEF CallMkdir, Ready
<1>2. PICK e \in Cluster :
        /\ e = new.first
        /\ call' = [NoCall EXCEPT !.op = "mkdir", !.parent = d, !.name = n,
                                  !.dir = TRUE, !.first = e]
  BY Zenon DEF CallMkdir
<1>3. call'.first = e BY <1>2 DEF NoCall
<1> HIDE DEF new
<1>4. IsTable(fat) /\ hint \in Cluster /\ SlotsSound /\ NothingLeft
  BY ReachParts, TreeMeansDisk DEF TreeSoundness
<1>5. fat[e] = FREE BY <1>1, <1>2, <1>4, OneTaken DEF new
<1>6. ASSUME NEW c \in Cluster, NEW s \in Slots, IsDirEntry(slots[c][s]) PROVE slots[c][s].first # e
  <2>1. ~BeingUnlinked(c, s) BY <1>1 DEF BeingUnlinked
  <2>2. Begun(slots[c][s].first) BY <1>4, <1>6, <2>1, NamedBegun
  <2> QED BY <1>5, <2>2 DEF Begun, Start, InUse
<1> QED BY <1>1, <1>3, <1>6 DEF FirstUnnamed

LEMMA NamingRename ==
  ASSUME ReachInv, OneEntry, ~tainted', NEW d \in Directories, NEW n \in Names, CallRename(d, n)
  PROVE  FirstUnnamed'
<1>1. pc = "idle" /\ ~tainted /\ UNCHANGED slots
  BY DEF CallRename, Ready
<1>2. PICK sl \in Looks(d), c \in Cluster, s \in Slots :
        /\ Finds(sl, d, n, c, s)
        /\ \E e \in Directories, m \in Names :
             call' = [NoCall EXCEPT !.op = "rename", !.parent = e, !.name = m,
               !.dir = sl[c][s].dir, !.first = sl[c][s].first, !.old = <<c, s>>]
        /\ tainted' = (tainted \/ sl # slots)
  BY Zenon DEF CallRename
<1>3. PICK e \in Directories, m \in Names :
        /\ call' = [NoCall EXCEPT !.op = "rename", !.parent = e, !.name = m,
                      !.dir = sl[c][s].dir, !.first = sl[c][s].first, !.old = <<c, s>>]
        /\ tainted' = (tainted \/ sl # slots)
  BY <1>2
<1>4. /\ call'.op = "rename" /\ call'.dir = sl[c][s].dir
      /\ call'.first = sl[c][s].first /\ call'.old = <<c, s>>
  BY <1>3 DEF NoCall
<1>5. sl = slots BY <1>3, Zenon
<1>6. IsTable(fat) /\ TreeSoundness BY <1>1, ReachParts
<1>7. IsEntry(slots[c][s])
  <2>1. Start(d) BY <1>1, <1>6, DirectoriesStart
  <2> QED BY <1>1, <1>2, <1>5, <1>6, <2>1, FoundEntry
<1>8. ASSUME call'.dir PROVE IsDirEntry(slots[c][s])
  <2>1. slots[c][s].dir BY <1>4, <1>5, <1>8, Zenon
  <2> QED BY <1>7, <2>1 DEF IsDirEntry
<1>9. ASSUME call'.dir, NEW x \in Cluster, NEW t \in Slots, IsDirEntry(slots[x][t]),
             slots[x][t].first = call'.first
      PROVE  x = c /\ t = s
  <2>1. slots[x][t].first = slots[c][s].first BY <1>4, <1>5, <1>9
  <2> QED BY <1>1, <1>8, <1>9, <2>1 DEF OneEntry
<1> QED BY <1>1, <1>4, <1>9 DEF FirstUnnamed

LEMMA NamingWrite ==
  ASSUME ReachInv, OneEntry, FirstUnnamed, WriteEntry, ~WriteFails PROVE OneEntry' /\ FirstUnnamed'
<1>1. /\ pc = "entry" /\ Written /\ pc \in Writing
      /\ pc' = "idle" \/ (pc' = "delete" /\ UNCHANGED call)
      /\ call.op = "rename" => pc' = "delete" /\ UNCHANGED call
  <2>1. pc = "entry" /\ WriteWorks BY DEF WriteEntry
  <2>2. IF call.op = "rename" THEN pc' = "delete" /\ UNCHANGED call ELSE EndCall BY DEF WriteEntry
  <2>3. Written /\ pc \in Writing BY <2>1 DEF WriteWorks, Writing
  <2>4. CASE call.op = "rename" BY <2>1, <2>2, <2>3, <2>4
  <2>5. CASE call.op # "rename"
    <3>1. pc' = "idle" BY <2>2, <2>5 DEF EndCall
    <3> QED BY <2>1, <2>3, <2>5, <3>1
  <2> QED BY <2>4, <2>5
<1>2. EndsInv BY TreeMeansDisk DEF ReachInv, DirTypeInv
<1>3. ASSUME NEW c \in Cluster, NEW s \in Slots, IsDirEntry(slots'[c][s])
      PROVE  \/ slots'[c][s] = slots[c][s]
             \/ <<c, s>> = NewPlace /\ call.dir /\ slots'[c][s].first = call.first
  BY <1>1, <1>2, <1>3, WrittenEntries
<1>4. ASSUME NEW c \in Cluster, NEW s \in Slots, IsDirEntry(slots'[c][s]),
             <<c, s>> = NewPlace, call.dir, slots'[c][s].first = call.first,
             NEW d \in Cluster, NEW t \in Slots, IsDirEntry(slots'[d][t]),
             slots'[c][s].first = slots'[d][t].first, <<c, s>> # <<d, t>>
      PROVE  pc' = "delete" /\ {<<c, s>>, <<d, t>>} = {NewPlace, call.old}'
  <2>1. slots'[d][t] = slots[d][t] BY <1>3, <1>4
  <2>2. call.op = "rename" /\ d = call.old[1] /\ t = call.old[2]
    BY <1>1, <1>4, <2>1 DEF FirstUnnamed
  <2>3. call \in CallType BY DEF ReachInv, DirTypeInv, CallTyped
  <2>old. call.old \in Somewhere BY <2>3 DEF CallType
  <2>4. call.old = <<d, t>> BY <2>2, <2>old DEF Somewhere, Nowhere
  <2>5. NewPlace' = NewPlace /\ call'.old = call.old BY <1>1, <2>2 DEF NewPlace
  <2> QED BY <1>1, <1>4, <2>2, <2>4, <2>5
<1>5. OneEntry'
  <2> SUFFICES ASSUME NEW c \in Cluster, NEW d \in Cluster, NEW s \in Slots, NEW t \in Slots,
                      IsDirEntry(slots'[c][s]), IsDirEntry(slots'[d][t]),
                      slots'[c][s].first = slots'[d][t].first, <<c, s>> # <<d, t>>
               PROVE  pc' = "delete" /\ {<<c, s>>, <<d, t>>} = {NewPlace, call.old}'
    BY DEF OneEntry
  <2>1. CASE slots'[c][s] = slots[c][s] /\ slots'[d][t] = slots[d][t]
    BY <1>1, <2>1 DEF OneEntry
  <2>2. CASE <<c, s>> = NewPlace /\ call.dir /\ slots'[c][s].first = call.first BY <1>4, <2>2
  <2>3. CASE <<d, t>> = NewPlace /\ call.dir /\ slots'[d][t].first = call.first
    <3>1. pc' = "delete" /\ {<<d, t>>, <<c, s>>} = {NewPlace, call.old}' BY <1>4, <2>3
    <3> QED BY <3>1
  <2> QED BY <1>3, <2>1, <2>2, <2>3
<1>6. FirstUnnamed' BY <1>1 DEF FirstUnnamed
<1> QED BY <1>5, <1>6

LEMMA NamingDelete ==
  ASSUME ReachInv, OneEntry, DeleteEntry, ~WriteFails PROVE OneEntry' /\ FirstUnnamed'
<1>1. pc = "delete" /\ Written /\ pc \in Writing /\ pc' = "idle"
  BY DEF DeleteEntry, WriteWorks, Writing, EndCall
<1>2. EndsInv /\ call \in CallType BY TreeMeansDisk DEF ReachInv, DirTypeInv, CallTyped
<1> DEFINE o == call.old[1]
           u == call.old[2]
<1>3. o \in Cluster /\ u \in Slots BY <1>1, <1>2, OldInCluster DEF HasOld
<1>4. call.old = <<o, u>>
  <2>1. call.old \in Somewhere BY <1>2 DEF CallType
  <2> QED BY <2>1 DEF Somewhere, Nowhere
<1>5. ~IsDirEntry(slots'[o][u])
  <2>1. Target = o BY <1>1 DEF Target
  <2>2. slots'[o] = Content BY <1>1, <1>2, <2>1, SlotsWritten
  <2>3. Content = WithoutEntry(slots[o], u) BY <1>1, <2>1 DEF Content
  <2>4. slots[o] = [t \in Slots |-> slots[o][t]] BY <1>2, <1>3, ClusterShape DEF EndsInv
  <2>5. slots'[o][u] = Deleted BY <1>3, <2>2, <2>3, <2>4 DEF WithoutEntry
  <2> QED BY <2>5, SlotKinds DEF IsDirEntry, IsEntry
<1> HIDE DEF o, u
<1>6. NoneNew
  <2>1. Written \/ Torn BY <1>1
  <2>2. pc # "entry" BY <1>1
  <2> QED BY <1>1, <1>2, <2>1, <2>2, WrittenEntries DEF NoneNew
<1>7. OneEntry'
  <2> SUFFICES ASSUME NEW c \in Cluster, NEW d \in Cluster, NEW s \in Slots, NEW t \in Slots,
                      IsDirEntry(slots'[c][s]), IsDirEntry(slots'[d][t]),
                      slots'[c][s].first = slots'[d][t].first, <<c, s>> # <<d, t>>
               PROVE  FALSE
    BY DEF OneEntry
  <2>1. slots'[c][s] = slots[c][s] /\ slots'[d][t] = slots[d][t] BY <1>6 DEF NoneNew
  <2>2. {<<c, s>>, <<d, t>>} = {NewPlace, <<o, u>>} BY <1>4, <2>1 DEF OneEntry
  <2>3. (c = o /\ s = u) \/ (d = o /\ t = u)
    <3>1. <<o, u>> \in {<<c, s>>, <<d, t>>} BY <2>2
    <3> QED BY <3>1
  <2> QED BY <1>5, <2>3
<1>8. FirstUnnamed' BY <1>1 DEF FirstUnnamed
<1> QED BY <1>7, <1>8

LEMMA NamingStep ==
  ASSUME ReachInv, Naming, [Next]_dirVars PROVE Naming'
<1> SUFFICES ASSUME ~tainted', faults' = 0, crashes' = 0 PROVE OneEntry' /\ FirstUnnamed'
  BY DEF Naming
<1>1. /\ ~tainted /\ ~WriteFails /\ ~Crash /\ OneEntry /\ FirstUnnamed
      /\ EndsInv /\ call \in CallType
  <2>1. ~tainted BY TaintStays
  <2>2. faults = 0 /\ crashes = 0 /\ ~WriteFails /\ ~Crash BY NothingFailed DEF ReachInv
  <2> QED BY <2>1, <2>2, ReachParts DEF Naming
<1>2. UNCHANGED slots => NoneNew BY DEF NoneNew
<1>3. ASSUME pc \in {"clear", "init", "extended"}, Written PROVE NoneNew
  BY <1>1, <1>3, WrittenEntries DEF NoneNew, Writing
<1>4. pc' = "idle" => FirstUnnamed' BY DEF FirstUnnamed
<1>5. CASE CallStarts
  <2>1. PICK d \in Directories :
          \/ \E n \in Names : CallMkdir(d, n) \/ CallOpen(d, n) \/ CallUnlink(d, n) \/ CallRename(d, n)
          \/ OpenDir(d)
    BY <1>5 DEF CallStarts
  <2>2. pc = "idle" BY <1>5 DEF CallStarts
  <2>3. CASE OpenDir(d)
    <3>1. UNCHANGED <<slots, pc>> BY <2>3 DEF OpenDir
    <3> QED BY <1>1, <1>2, <1>4, <2>2, <3>1, OneEntryStays
  <2>4. CASE \E n \in Names : CallMkdir(d, n) \/ CallOpen(d, n) \/ CallUnlink(d, n) \/ CallRename(d, n)
    <3>1. PICK n \in Names : CallMkdir(d, n) \/ CallOpen(d, n) \/ CallUnlink(d, n) \/ CallRename(d, n)
      BY <2>4, Zenon
    <3>2. UNCHANGED slots BY <3>1 DEF CallMkdir, CallOpen, CallUnlink, CallRename
    <3>3. OneEntry' BY <1>1, <1>2, <2>2, <3>2, OneEntryStays
    <3>4. FirstUnnamed'
      <4>1. CASE CallMkdir(d, n) BY <1>1, <4>1, NamingMkdir
      <4>2. CASE CallOpen(d, n)
        <5>1. call' = [NoCall EXCEPT !.op = "open", !.parent = d, !.name = n] BY <4>2 DEF CallOpen
        <5>2. call'.dir = FALSE BY <5>1 DEF NoCall
        <5> QED BY <5>2 DEF FirstUnnamed
      <4>3. CASE CallUnlink(d, n)
        <5>1. pc' = "delete" BY <4>3 DEF CallUnlink
        <5> QED BY <5>1 DEF FirstUnnamed
      <4>4. CASE CallRename(d, n) BY <1>1, <4>4, NamingRename
      <4> QED BY <3>1, <4>1, <4>2, <4>3, <4>4
    <3> QED BY <3>3, <3>4
  <2> QED BY <2>1, <2>3, <2>4
<1>6. CASE ReadStops \/ ReadEnds \/ ReadFails \/ CloseDir \/ ChangeDir
  <2>1. pc = "idle" /\ UNCHANGED <<slots, pc>>
    <3>1. CASE ReadStops BY <3>1, Zenon DEF ReadStops, Ready
    <3>2. CASE ReadEnds BY <3>2 DEF ReadEnds, Ready
    <3>3. CASE ReadFails BY <3>3, Zenon DEF ReadFails, Ready
    <3>4. CASE CloseDir BY <3>4 DEF CloseDir, Ready
    <3>5. CASE ChangeDir BY <3>5 DEF ChangeDir, Ready
    <3> QED BY <1>6, <3>1, <3>2, <3>3, <3>4, <3>5
  <2> QED BY <1>1, <1>2, <1>4, <2>1, OneEntryStays
<1>7. CASE UNCHANGED dirVars BY <1>1, <1>7 DEF dirVars, OneEntry, FirstUnnamed, NewPlace
<1>8. CASE PlaceFails \/ Restart \/ (CheckTarget /\ EndCall)
  <2>1. pc # "delete" /\ UNCHANGED slots /\ pc' = "idle"
    BY <1>8 DEF PlaceFails, Restart, Reboot, CheckTarget, EndCall
  <2> QED BY <1>1, <1>2, <1>4, <2>1, OneEntryStays
<1>9. ASSUME pc \notin {"idle", "delete"}, NoneNew, call'.op = call.op,
             call'.dir = call.dir, call'.first = call.first, call'.old = call.old
      PROVE  OneEntry' /\ FirstUnnamed'
  BY <1>1, <1>9, OneEntryStays, FirstStays
<1>10. CASE CheckTarget /\ ~EndCall
  <2>1. pc = "check" /\ UNCHANGED <<call, slots>> BY <1>10 DEF CheckTarget
  <2> QED BY <1>2, <1>9, <2>1
<1>11. CASE PlaceInside
  <2>1. PICK place : call' = [call EXCEPT !.at = place] BY <1>11, Zenon DEF PlaceInside
  <2>2. CallShape BY <1>1 DEF EndsInv
  <2>3. call'.op = call.op /\ call'.first = call.first /\ call'.old = call.old
    BY <2>1, <2>2, CallPlaced
  <2>4. call'.dir = call.dir BY <2>1, <2>2 DEF CallShape
  <2>5. pc = "place" /\ UNCHANGED slots BY <1>11 DEF PlaceInside
  <2> QED BY <1>2, <1>9, <2>3, <2>4, <2>5
<1>12. CASE PlaceBehind
  <2>1. TreeInv BY DEF ReachInv, DirTypeInv
  <2>2. /\ call'.op = call.op /\ call'.first = call.first /\ call'.old = call.old
        /\ call'.dir = call.dir
    BY <1>12, <2>1, DirectoryExtended
  <2>3. pc = "place" /\ UNCHANGED slots BY <1>12 DEF PlaceBehind
  <2> QED BY <1>2, <1>9, <2>2, <2>3
<1>13. CASE ClearNew \/ ClearExtension
  <2>1. pc \in {"clear", "extended"} /\ Written /\ UNCHANGED call
    BY <1>1, <1>13 DEF ClearNew, ClearExtension, WriteWorks
  <2> QED BY <1>3, <1>9, <2>1
<1>14. CASE InitNew
  <2>1. pc = "init" /\ Written /\ UNCHANGED call BY <1>1, <1>14 DEF InitNew, WriteWorks
  <2> QED BY <1>3, <1>9, <2>1
<1>15. CASE WriteEntry BY <1>1, <1>15, NamingWrite
<1>16. CASE DeleteEntry BY <1>1, <1>16, NamingDelete
<1> QED
  BY <1>1, <1>5, <1>6, <1>7, <1>8, <1>10, <1>11, <1>12, <1>13, <1>14, <1>15, <1>16 DEF Next

LEMMA NamingInit == Init => Naming
<1> SUFFICES ASSUME Init PROVE OneEntry /\ FirstUnnamed
  BY DEF Naming
<1>1. \A c \in Cluster, s \in Slots : slots[c][s] = EndMark BY DEF Init, EmptyCluster
<1>2. \A c \in Cluster, s \in Slots : ~IsDirEntry(slots[c][s])
  BY <1>1, SlotKinds DEF IsDirEntry, IsEntry
<1> QED BY <1>2 DEF OneEntry, FirstUnnamed

-----------------------------------------------------------------------------
(* The tree.                                                               *)

LEMMA ReachMeans ==
  ASSUME ReachInv, Naming PROVE TreeSound
<1> SUFFICES ASSUME ~tainted
             PROVE  /\ Named \subseteq Below(Root)
                    /\ faults = 0 /\ crashes = 0 =>
                         \A c, d \in InUse, s, t \in Slots :
                           IsDirEntry(slots[c][s]) /\ IsDirEntry(slots[d][t])
                             /\ slots[c][s].first = slots[d][t].first /\ <<c, s>> # <<d, t>>
                           => pc = "delete" /\ {<<c, s>>, <<d, t>>} = {NewPlace, call.old}
  BY DEF TreeSound
<1>1. /\ EntriesReachable /\ IsTable(fat) /\ LinksSound /\ SlotsSound /\ NothingLeft
      /\ Start(Root)
  BY ReachParts DEF TreeSoundness, Rooted
<1>2. Named \subseteq Below(Root)
  <2> DEFINE X == ChainsBelow(Root)
             S == Cluster
  <2>1. \A c \in Cluster \ raw, s \in Slots : IsDirEntry(slots[c][s]) => slots[c][s].first \in S
    BY <1>1 DEF EntriesReachable
  <2>2. S \subseteq Cluster /\ Root \in S BY <1>1 DEF Start, InUse
  <2> HIDE DEF S
  <2>3. Root \in Below(Root) /\ WiderIn(slots, Below(Root)) = Below(Root) BY <2>1, <2>2, BelowEnds
  <2>4. WalkEnds(fat, Root) BY <1>1, DirChain
  <2>5. /\ Root \in X /\ Closed(X)
        /\ \A c \in X, s \in Slots : IsDirEntry(slots[c][s]) => slots[c][s].first \in Below(Root)
    BY <1>1, <2>3, <2>4, BelowClosed
  <2>6. X \in SUBSET Cluster BY DEF ChainsBelow
  <2> HIDE DEF X
  <2>7. ASSUME NEW c \in InUse, NEW s \in Slots, IsDirEntry(slots[c][s])
        PROVE  slots[c][s].first \in Below(Root)
    <3>1. Reachable(c) BY <1>1, <2>7 DEF EntriesReachable, InUse
    <3>2. c \in X BY <2>5, <2>6, <3>1 DEF Reachable
    <3> QED BY <2>5, <2>7, <3>2
  <2> QED BY <2>7 DEF Named
<1>3. faults = 0 /\ crashes = 0 => OneEntry BY DEF Naming
<1>4. InUse \subseteq Cluster BY DEF InUse
<1> QED BY <1>2, <1>3, <1>4 DEF OneEntry

\* The directories that entries name form a tree below the root, at every moment of
\* every call and after crashes and failed writes; and as long as nothing failed each
\* has one entry, but for the two of one that f_rename is moving.
THEOREM TreeSoundAlways == DirSpec => []TreeSound
<1>1. Init => ReachInv /\ Naming BY ReachInit, NamingInit
<1>2. ReachInv /\ Naming /\ [Next]_dirVars => (ReachInv /\ Naming)' BY ReachStep, NamingStep
<1>3. ReachInv /\ Naming => TreeSound BY ReachMeans
<1> QED BY <1>1, <1>2, <1>3, PTL DEF DirSpec

\* Below the root is what entries name.
LEMMA BelowNamed ==
  ASSUME ReachInv, ~tainted PROVE Root \in Below(Root) /\ Below(Root) \subseteq {Root} \cup Named
<1>1. EntriesReachable /\ NothingLeft /\ Start(Root)
  BY ReachParts DEF TreeSoundness, Rooted
<1> DEFINE S == {Root} \cup Named
<1>2. Named \subseteq Cluster BY <1>1 DEF Named, EntriesReachable, InUse
<1>3. S \subseteq Cluster /\ Root \in S BY <1>1, <1>2 DEF Start, InUse
<1>4. ASSUME NEW c \in Cluster \ raw, NEW s \in Slots, IsDirEntry(slots[c][s])
      PROVE  slots[c][s].first \in S
  <2>1. c \in InUse BY <1>1, <1>4 DEF NothingLeft, IsDirEntry
  <2>2. /\ <<c, s>> \in {q \in InUse \X Slots : IsDirEntry(slots[q[1]][q[2]])}
        /\ slots[<<c, s>>[1]][<<c, s>>[2]].first = slots[c][s].first
    BY <1>4, <2>1
  <2>3. slots[c][s].first \in Named BY <2>2, Zenon DEF Named
  <2> QED BY <2>3
<1> HIDE DEF S
<1>5. Root \in Below(Root) /\ Below(Root) \subseteq S BY <1>3, <1>4, BelowEnds
<1> QED BY <1>5 DEF S

RootBelow == ~tainted => Root \in Below(Root)

LEMMA StaysBelow ==
  ASSUME ReachInv, TreeSound', RootBelow', [Next]_dirVars,
         call.op # "unlink", call'.op # "unlink", ~tainted'
  PROVE  Below(Root) \subseteq Below(Root)'
<1>1. ~tainted BY TaintStays
<1>2. StayInv BY DEF StayInv, ReachInv, DirTypeInv
<1>3. \A f \in Named : f \in Named' BY <1>2, NamedStays
<1>4. Below(Root) \subseteq {Root} \cup Named BY <1>1, BelowNamed
<1>5. Named' \subseteq Below(Root)' BY DEF TreeSound
<1>6. Root \in Below(Root)' BY DEF RootBelow
<1> QED BY <1>3, <1>4, <1>5, <1>6

\* No directory that entries lead to from the root is ever lost but by f_unlink: by
\* no step of a rename, no crash, and no failed access but the ones that set tainted.
THEOREM EntryStaysAlways == DirSpec => EntryStays
<1>1. Init => ReachInv /\ Naming BY ReachInit, NamingInit
<1>2. ReachInv /\ Naming /\ [Next]_dirVars => (ReachInv /\ Naming)' BY ReachStep, NamingStep
<1>3. ReachInv /\ Naming => TreeSound /\ RootBelow BY ReachMeans, BelowNamed DEF RootBelow
<1>4. ReachInv /\ TreeSound' /\ RootBelow' /\ [Next]_dirVars =>
        [call.op # "unlink" /\ call'.op # "unlink" /\ ~tainted' =>
           Below(Root) \subseteq Below(Root)']_dirVars
  BY StaysBelow
<1> QED BY <1>1, <1>2, <1>3, <1>4, PTL DEF DirSpec, EntryStays
=============================================================================

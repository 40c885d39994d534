----------------------------- MODULE FileProofs -----------------------------
(***************************************************************************)
(* For every volume, any names, handles and buffers, any failures and      *)
(* crashes: handles, entries and calls are what the code takes them for;   *)
(* the files own separate chains of allocated clusters until an entry is   *)
(* left dangling; while nothing fails, the chains hold all the bytes of    *)
(* the files; a step changes the bytes of one file at most, and f_write    *)
(* those of its range; and every step is one of FileStore, the files       *)
(* without their clusters.                                                 *)
(***************************************************************************)
EXTENDS FileRefinement, FatChains

-----------------------------------------------------------------------------
(* Handles, entries and the call in progress.                              *)

CallType ==
  [op : {"none", "write", "copy", "unlink"}, handle : Handles \cup {NoName},
   slot : Slot \cup {0}, cluster : Entry, offset : Nat, buffer : Buffers, done : Nat]

\* A write belongs to the sole handle of its file, and ends within the volume.
Writing ==
  call.op \in {"write", "copy"} =>
    /\ call.handle \in Handles /\ IsOpen(call.handle) /\ Sole(call.handle)
    /\ files[call.handle].pos + Len(call.buffer) <= MaxSize
    /\ call.done <= Len(call.buffer)

\* What is being unlinked is not open.
Unlinking ==
  /\ call.op # "unlink" => call.slot = 0
  /\ call.op = "unlink" =>
       /\ call.slot \in Slot /\ slots[call.slot].name # NoName
       /\ \A h \in Handles : files[h].slot # call.slot

HandlesMean ==
  \A h \in Handles :
    /\ IsOpen(h) => slots[files[h].slot].name # NoName
    /\ ~IsOpen(h) => files[h] = ClosedFile
    /\ files[h].pos <= files[h].size

NamesOnce ==
  \A s, t \in Slot : slots[s].name = slots[t].name /\ slots[s].name # NoName => s = t

\* Two handles of one file agree with its entry.
PairsClean ==
  \A g, h \in Handles :
    g # h /\ IsOpen(h) /\ files[g].slot = files[h].slot => ~Dirty(h)

HandleInv ==
  FileTypeOK /\ call \in CallType /\ Writing /\ Unlinking /\ HandlesMean /\ NamesOnce
  /\ PairsClean

-----------------------------------------------------------------------------
(* Whose chain is whose.                                                   *)

\* A file is there until its unlinking has begun.
Live(s) == slots[s].name # NoName /\ s # call.slot

\* The first cluster of the file in slot s, as the program sees it.
Owns(s, c) ==
  \/ \E h \in Handles : files[h].slot = s /\ files[h].first = c
  \/ (\A h \in Handles : files[h].slot # s) /\ slots[s].first = c

Apart ==
  \A s, t \in Slot, c, d \in Cluster \cup {0} :
    Live(s) /\ Owns(s, c) =>
      /\ \A x \in OnChainIn(fat, c) : x \in 3 .. TotalClusters /\ fat[x] # FREE
      /\ s # t /\ Live(t) /\ Owns(t, d) => OnChainIn(fat, c) \cap OnChainIn(fat, d) = {}

-----------------------------------------------------------------------------
(* Slots and names.                                                        *)

LEMMA SlotNumbers ==
  /\ Cardinality(Names) \in Nat /\ Slot \subseteq Nat /\ 0 \notin Slot
  /\ ClusterSize \in Nat /\ ClusterSize >= 1 /\ MaxBuffer \in Nat /\ MaxExtent \in Nat
  /\ MaxSize \in Nat /\ IsFiniteSet(Slot) /\ Cardinality(Slot) = Cardinality(Names)
<1>1. Cardinality(Names) \in Nat
  BY FileAssumption, FS_CardinalityType
<1>2. ClusterSize \in Nat /\ ClusterSize >= 1 /\ MaxBuffer \in Nat /\ MaxExtent \in Nat
  BY FileAssumption
<1>3. Slot \subseteq Nat /\ 0 \notin Slot
  BY <1>1, SMT DEF Slot
<1>4. MaxSize \in Nat
  BY <1>2, TableNumbers, SMT DEF MaxSize
<1>5. IsFiniteSet(Slot) /\ Cardinality(Slot) = Cardinality(Names)
  <2> DEFINE n == Cardinality(Names)
  <2>1. 1 \in Int /\ n \in Int /\ (1 > n => n = 0) /\ n - 1 + 1 = n
    BY <1>1, SMT
  <2>2. Slot = 1 .. n
    BY DEF Slot
  <2> HIDE DEF n
  <2>3. IsFiniteSet(1 .. n) /\ Cardinality(1 .. n) = n
    BY <2>1, FS_Interval, Zenon
  <2> QED BY <2>2, <2>3 DEF n
<1> QED BY <1>1, <1>2, <1>3, <1>4, <1>5

LEMMA SlotOfFacts ==
  ASSUME NEW n \in Names
  PROVE  /\ SlotOf(n) \in Slot \cup {0}
         /\ SlotOf(n) # 0 => slots[SlotOf(n)].name = n
         /\ SlotOf(n) = 0 => \A s \in Slot : slots[s].name # n
<1> DEFINE S == {s \in Slot : slots[s].name = n}
<1>1. SlotOf(n) = IF \E s \in Slot : slots[s].name = n THEN Least(S) ELSE 0
  BY DEF SlotOf
<1>2. S # {} => Least(S) \in S
  BY SlotNumbers, LeastOf
<1> QED BY <1>1, <1>2, SlotNumbers

\* The name of a file leads to its slot.
LEMMA SlotOfName ==
  ASSUME NamesOnce, NEW s \in Slot, slots[s].name \in Names
  PROVE  SlotOf(slots[s].name) = s
<1>1. /\ SlotOf(slots[s].name) \in Slot
      /\ slots[SlotOf(slots[s].name)].name = slots[s].name
  BY SlotOfFacts
<1>2. slots[s].name # NoName
  BY FileAssumption
<1> QED BY <1>1, <1>2 DEF NamesOnce

\* As long as a name is missing there is room for it.
LEMMA FreeSlotFound ==
  ASSUME NamesOnce, FileTypeOK, NEW n \in Names, SlotOf(n) = 0
  PROVE  /\ {t \in Slot : slots[t].name = NoName} # {}
         /\ Least({t \in Slot : slots[t].name = NoName}) \in Slot
         /\ slots[Least({t \in Slot : slots[t].name = NoName})].name = NoName
<1> DEFINE Room == {t \in Slot : slots[t].name = NoName}
<1>1. Room # {}
  <2> SUFFICES ASSUME Room = {} PROVE FALSE
    OBVIOUS
  <2> DEFINE f == [s \in Slot |-> slots[s].name]
             T == Names \ {n}
  <2>1. \A s \in Slot : slots[s].name \in T
    <3>1. \A s \in Slot : slots[s].name \in Names \cup {NoName}
      BY DEF FileTypeOK
    <3>2. \A s \in Slot : slots[s].name # n
      BY SlotOfFacts
    <3> QED BY <3>1, <3>2
  <2>2. f \in [Slot -> T]
    BY <2>1
  <2>3. IsFiniteSet(T) /\ Cardinality(T) = Cardinality(Names) - 1
    BY FileAssumption, FS_RemoveElement
  <2>4. Cardinality(T) < Cardinality(Slot)
    BY <2>3, SlotNumbers, SMT
  <2>5. \A s \in Slot : f[s] = slots[s].name
    OBVIOUS
  <2>6. IsFiniteSet(Slot)
    BY SlotNumbers
  <2> HIDE DEF f, T
  <2>7. \E s, t \in Slot : s # t /\ f[s] = f[t]
    BY <2>2, <2>3, <2>4, <2>6, FS_PigeonHole
  <2> QED BY <2>5, <2>7 DEF NamesOnce
<1>2. Least(Room) \in Room
  BY <1>1, SlotNumbers, LeastOf
<1> QED BY <1>1, <1>2

-----------------------------------------------------------------------------
(* Steps that change one handle, and steps that change the call.           *)

HandleType ==
  [slot : Slot \cup {0}, first : Cluster \cup {0}, pos : 0 .. MaxSize, size : 0 .. MaxSize]

\* Everything but the FAT, the hint, the data and the call.
HandlesOK ==
  /\ slots \in [Slot -> [name : Names \cup {NoName}, first : Cluster \cup {0},
                         size : 0 .. MaxSize]]
  /\ files \in [Handles -> HandleType]
  /\ HandlesMean /\ NamesOnce /\ PairsClean

LEMMA HandlesAre == ASSUME HandleInv PROVE HandlesOK
BY DEF HandleInv, HandlesOK, FileTypeOK, HandleType

\* A handle moves, or is the sole one of its file and changes.
LEMMA HandleStep ==
  ASSUME HandlesOK, NEW h \in Handles, IsOpen(h), NEW r \in HandleType,
         files' = [files EXCEPT ![h] = r], r.slot = files[h].slot, r.pos <= r.size,
         UNCHANGED slots,
         Sole(h) \/ (r.first = files[h].first /\ r.size = files[h].size)
  PROVE  /\ HandlesOK'
         /\ \A g \in Handles : files'[g].slot = files[g].slot
         /\ \A g \in Handles : g # h => files'[g] = files[g]
         /\ files'[h] = r
<1>1. files \in [Handles -> HandleType]
  BY DEF HandlesOK
<1>2. /\ files' \in [Handles -> HandleType] /\ files'[h] = r
      /\ \A g \in Handles : g # h => files'[g] = files[g]
  BY <1>1
<1>3. \A g \in Handles : files'[g].slot = files[g].slot
  BY <1>2
<1>4. HandlesMean'
  <2> SUFFICES ASSUME NEW g \in Handles
               PROVE  /\ IsOpen(g)' => slots'[files'[g].slot].name # NoName
                      /\ ~IsOpen(g)' => files'[g] = ClosedFile
                      /\ files'[g].pos <= files'[g].size
    BY DEF HandlesMean
  <2>1. CASE g = h
    BY <1>2, <1>3, <2>1 DEF HandlesOK, HandlesMean, IsOpen
  <2>2. CASE g # h
    BY <1>2, <2>2 DEF HandlesOK, HandlesMean, IsOpen
  <2> QED BY <2>1, <2>2
<1>5. PairsClean'
  <2> SUFFICES ASSUME NEW g \in Handles, NEW k \in Handles, g # k, IsOpen(k)',
                      files'[g].slot = files'[k].slot
               PROVE  ~Dirty(k)'
    BY DEF PairsClean
  <2>1. files[g].slot = files[k].slot /\ IsOpen(k)
    BY <1>3 DEF IsOpen
  <2>2. ~Dirty(k)
    BY <2>1 DEF HandlesOK, PairsClean
  <2>3. files'[k].first = files[k].first /\ files'[k].size = files[k].size
    <3>1. CASE k # h
      BY <1>2, <3>1
    <3>2. CASE k = h
      <4>1. ~Sole(h)
        BY <2>1, <3>2 DEF Sole
      <4> QED BY <1>2, <3>2, <4>1
    <3> QED BY <3>1, <3>2
  <2> QED BY <1>3, <2>2, <2>3 DEF Dirty
<1>6. NamesOnce'
  BY DEF HandlesOK, NamesOnce
<1> QED BY <1>2, <1>3, <1>4, <1>5, <1>6 DEF HandlesOK

LEMMA HandlesKept ==
  ASSUME HandlesOK, UNCHANGED <<slots, files>>
  PROVE  HandlesOK'
BY DEF HandlesOK, HandlesMean, NamesOnce, PairsClean, IsOpen, Dirty

\* What a step that leaves the disk alone has to show.
LEMMA QuietStep ==
  ASSUME HandleInv, HandlesOK', UNCHANGED <<fat, hint, data, call, tainted>>,
         call.op = "none", faults' \in 0 .. MaxFaults, crashes' \in 0 .. MaxCrashes
  PROVE  HandleInv'
<1>1. FileTypeOK'
  BY DEF HandleInv, FileTypeOK, HandlesOK, HandleType
<1>2. call' \in CallType /\ Writing' /\ Unlinking'
  BY DEF HandleInv, Writing, Unlinking
<1> QED BY <1>1, <1>2 DEF HandleInv, HandlesOK

LEMMA FaultCount ==
  ASSUME HandleInv
  PROVE  /\ Fault \/ NoFault => faults' \in 0 .. MaxFaults
         /\ crashes \in 0 .. MaxCrashes /\ faults \in 0 .. MaxFaults
<1>1. faults \in 0 .. MaxFaults /\ crashes \in 0 .. MaxCrashes
  BY DEF HandleInv, FileTypeOK
<1>2. Fault => faults' \in 0 .. MaxFaults
  BY <1>1, FileAssumption, SMT DEF Fault
<1> QED BY <1>1, <1>2 DEF NoFault

-----------------------------------------------------------------------------
(* Every call keeps handles, entries and the call in progress in order.    *)

LEMMA OpenStep ==
  ASSUME HandleInv, NEW h \in Handles, NEW n \in Names, OpenFile(h, n)
  PROVE  HandleInv'
<1> DEFINE s == IF SlotOf(n) # 0 THEN SlotOf(n)
                ELSE Least({t \in Slot : slots[t].name = NoName})
           entry == IF SlotOf(n) # 0 THEN slots[s] ELSE [FreeSlot EXCEPT !.name = n]
           r == [slot |-> s, first |-> entry.first, pos |-> 0, size |-> entry.size]
<1>1. /\ ~IsOpen(h) /\ call.op = "none"
      /\ \A g \in Handles : IsOpen(g) /\ files[g].slot = SlotOf(n) => ~Dirty(g)
      /\ slots' = [slots EXCEPT ![s] = entry] /\ files' = [files EXCEPT ![h] = r]
      /\ UNCHANGED <<fat, hint, data, call, faults, crashes, tainted>>
  BY DEF OpenFile, Ready
<1>2. HandlesOK /\ NamesOnce /\ FileTypeOK
  BY HandlesAre DEF HandleInv
<1>3. /\ s \in Slot /\ entry.name = n
      /\ SlotOf(n) # 0 => s = SlotOf(n) /\ entry = slots[s]
      /\ SlotOf(n) = 0 => entry = [name |-> n, first |-> 0, size |-> 0]
                          /\ slots[s].name = NoName /\ \A t \in Slot : slots[t].name # n
  <2>1. SlotOf(n) \in Slot \cup {0} /\ (SlotOf(n) # 0 => slots[SlotOf(n)].name = n)
    BY SlotOfFacts
  <2>2. CASE SlotOf(n) # 0
    BY <2>1, <2>2
  <2>3. CASE SlotOf(n) = 0
    <3>1. s \in Slot /\ slots[s].name = NoName
      BY <1>2, <2>3, FreeSlotFound
    <3>2. entry = [name |-> n, first |-> 0, size |-> 0]
      BY <2>3 DEF FreeSlot
    <3>3. \A t \in Slot : slots[t].name # n
      BY <2>3, SlotOfFacts
    <3> QED BY <2>3, <3>1, <3>2, <3>3
  <2> QED BY <2>2, <2>3
<1>4. entry \in [name : Names \cup {NoName}, first : Cluster \cup {0}, size : 0 .. MaxSize]
  BY <1>2, <1>3, SlotNumbers DEF HandlesOK
<1>5. r \in HandleType /\ r.slot = s /\ r.first = entry.first /\ r.size = entry.size
      /\ r.pos = 0
  BY <1>3, <1>4, SlotNumbers DEF HandleType
<1> HIDE DEF s, entry, r
<1>6. /\ slots' \in [Slot -> [name : Names \cup {NoName}, first : Cluster \cup {0},
                              size : 0 .. MaxSize]]
      /\ slots'[s] = entry /\ \A t \in Slot : t # s => slots'[t] = slots[t]
      /\ files' \in [Handles -> HandleType]
      /\ files'[h] = r /\ \A g \in Handles : g # h => files'[g] = files[g]
  BY <1>1, <1>2, <1>3, <1>4, <1>5 DEF HandlesOK
<1>7. n # NoName
  BY FileAssumption
\* No handle was on a slot that was free.
<1>8. \A g \in Handles : IsOpen(g) /\ files[g].slot = s => SlotOf(n) # 0
  BY <1>2, <1>3 DEF HandlesOK, HandlesMean
<1>9. HandlesMean'
  <2> SUFFICES ASSUME NEW g \in Handles
               PROVE  /\ IsOpen(g)' => slots'[files'[g].slot].name # NoName
                      /\ ~IsOpen(g)' => files'[g] = ClosedFile
                      /\ files'[g].pos <= files'[g].size
    BY DEF HandlesMean
  <2>1. CASE g = h
    <3>1. 0 <= entry.size
      BY <1>4, SlotNumbers
    <3> QED BY <1>3, <1>5, <1>6, <1>7, <2>1, <3>1, SlotNumbers DEF IsOpen
  <2>2. CASE g # h
    <3>1. files'[g] = files[g] /\ files[g] \in HandleType
      BY <1>2, <1>6, <2>2 DEF HandlesOK
    <3>2. IsOpen(g) => slots[files[g].slot].name # NoName /\ files[g].slot \in Slot
      BY <1>2, <3>1 DEF HandlesOK, HandlesMean, IsOpen, HandleType
    <3>3. IsOpen(g) => slots'[files[g].slot].name # NoName
      BY <1>3, <1>6, <1>7, <3>2
    <3> QED BY <1>2, <3>1, <3>3 DEF HandlesOK, HandlesMean, IsOpen
  <2> QED BY <2>1, <2>2
<1>10. NamesOnce'
  <2> SUFFICES ASSUME NEW t \in Slot, NEW u \in Slot, slots'[t].name = slots'[u].name,
                      slots'[t].name # NoName
               PROVE  t = u
    BY DEF NamesOnce
  <2>1. \A v \in Slot : v # s => slots'[v].name # n
    BY <1>2, <1>3, <1>6, <1>7 DEF NamesOnce
  <2>2. slots'[s].name = n
    BY <1>3, <1>6
  <2>3. CASE t = s \/ u = s
    BY <2>1, <2>2, <2>3
  <2>4. CASE t # s /\ u # s
    BY <1>2, <1>6, <2>4 DEF NamesOnce
  <2> QED BY <2>3, <2>4
<1>11. PairsClean'
  <2>1. ASSUME NEW g \in Handles, g # h, IsOpen(g), files[g].slot = s PROVE ~Dirty(g)'
    BY <1>1, <1>3, <1>6, <1>8, <2>1 DEF Dirty
  <2>2. ~Dirty(h)'
    BY <1>5, <1>6 DEF Dirty
  <2>3. ASSUME NEW g \in Handles, NEW k \in Handles, g # k, IsOpen(k)',
               files'[g].slot = files'[k].slot
        PROVE  ~Dirty(k)'
    <3>1. CASE k = h
      BY <2>2, <3>1
    <3>2. CASE k # h /\ files[k].slot = s
      BY <1>6, <2>1, <2>3, <3>2 DEF IsOpen
    <3>3. CASE k # h /\ files[k].slot # s
      <4>1. g # h /\ files[g].slot = files[k].slot /\ IsOpen(k)
        BY <1>5, <1>6, <2>3, <3>3 DEF IsOpen
      <4>2. ~Dirty(k)
        BY <1>2, <2>3, <4>1 DEF HandlesOK, PairsClean
      <4>3. files[k].slot \in Slot
        BY <1>2, <4>1 DEF HandlesOK, HandleType, IsOpen
      <4>4. slots'[files[k].slot] = slots[files[k].slot] /\ files'[k] = files[k]
        BY <1>6, <3>3, <4>3
      <4> QED BY <4>2, <4>4 DEF Dirty
    <3> QED BY <3>1, <3>2, <3>3
  <2> QED BY <2>3 DEF PairsClean
<1>12. HandlesOK'
  BY <1>6, <1>9, <1>10, <1>11 DEF HandlesOK
<1>13. faults' \in 0 .. MaxFaults /\ crashes' \in 0 .. MaxCrashes
  BY <1>1, FaultCount
<1> QED BY <1>1, <1>12, <1>13, QuietStep

\* The size and first cluster go to the entry, from the sole handle or one that
\* agrees with it.
LEMMA UpdateStep ==
  ASSUME HandlesOK, NEW h \in Handles, IsOpen(h), UpdateEntry(h)
  PROVE  /\ slots' \in [Slot -> [name : Names \cup {NoName}, first : Cluster \cup {0},
                                 size : 0 .. MaxSize]]
         /\ \A s \in Slot : slots'[s].name = slots[s].name
         /\ files[h].slot \in Slot
         /\ slots'[files[h].slot].first = files[h].first
         /\ slots'[files[h].slot].size = files[h].size
         /\ \A s \in Slot : s # files[h].slot => slots'[s] = slots[s]
         /\ ~Dirty(h) => slots' = slots
         /\ ~Sole(h) => ~Dirty(h)
<1> DEFINE s == files[h].slot
<1>1. files[h] \in HandleType /\ s \in Slot /\ slots[s].name # NoName
  BY DEF HandlesOK, HandlesMean, HandleType, IsOpen
<1>2. slots' = [slots EXCEPT ![s].first = files[h].first, ![s].size = files[h].size]
  BY DEF UpdateEntry
<1>3. slots \in [Slot -> [name : Names \cup {NoName}, first : Cluster \cup {0},
                          size : 0 .. MaxSize]]
  BY DEF HandlesOK
<1>4. files[h].first \in Cluster \cup {0} /\ files[h].size \in 0 .. MaxSize
  BY <1>1 DEF HandleType
<1>5. ~Sole(h) => ~Dirty(h)
  BY DEF HandlesOK, PairsClean, Sole
<1>6. ~Dirty(h) => files[h].first = slots[s].first /\ files[h].size = slots[s].size
  BY DEF Dirty
<1> HIDE DEF s
<1>11. DOMAIN slots = Slot /\ DOMAIN slots[s] = {"name", "first", "size"}
  BY <1>1, <1>3
<1>12. slots' = [slots EXCEPT ![s] = [[slots[s] EXCEPT !.first = files[h].first]
                                      EXCEPT !.size = files[h].size]]
  BY <1>1, <1>2, <1>11
<1>7. slots' = [slots EXCEPT ![s] = [name |-> slots[s].name, first |-> files[h].first,
                                     size |-> files[h].size]]
  <2>1. slots[s] \in [name : Names \cup {NoName}, first : Cluster \cup {0}, size : 0 .. MaxSize]
    BY <1>1, <1>3
  <2> DEFINE e == [slots[s] EXCEPT !.first = files[h].first]
  <2>3. e = [name |-> slots[s].name, first |-> files[h].first, size |-> slots[s].size]
    BY <2>1
  <2> HIDE DEF e
  <2>4. [e EXCEPT !.size = files[h].size]
          = [name |-> slots[s].name, first |-> files[h].first, size |-> files[h].size]
    BY <2>3
  <2>2. [[slots[s] EXCEPT !.first = files[h].first] EXCEPT !.size = files[h].size]
          = [name |-> slots[s].name, first |-> files[h].first, size |-> files[h].size]
    BY <2>4 DEF e
  <2> QED BY <1>12, <2>2, Zenon
<1>8. slots[s] = [name |-> slots[s].name, first |-> slots[s].first, size |-> slots[s].size]
  BY <1>1, <1>3
<1>9. ~Dirty(h) => slots' = slots
  BY <1>1, <1>3, <1>6, <1>7, <1>8
<1>10. /\ slots' \in [Slot -> [name : Names \cup {NoName}, first : Cluster \cup {0},
                                 size : 0 .. MaxSize]]
       /\ \A t \in Slot : slots'[t].name = slots[t].name
       /\ slots'[s].first = files[h].first
       /\ slots'[s].size = files[h].size
       /\ \A t \in Slot : t # s => slots'[t] = slots[t]
  BY <1>1, <1>3, <1>4, <1>7
<1> QED BY <1>1, <1>5, <1>9, <1>10 DEF s

LEMMA CloseStep ==
  ASSUME HandleInv, NEW h \in Handles, CloseFile(h) \/ SyncFile(h)
  PROVE  HandleInv'
<1>1. /\ call.op = "none" /\ IsOpen(h) /\ UNCHANGED <<fat, hint, data, call, crashes, tainted>>
      /\ (Fault \/ NoFault)
      /\ \/ UpdateEntry(h) /\ (files' = files \/ files' = [files EXCEPT ![h] = ClosedFile])
         \/ UNCHANGED <<slots, files>>
  BY Zenon DEF CloseFile, SyncFile, EntryFails, Ready
<1>2. HandlesOK /\ files \in [Handles -> HandleType] /\ NamesOnce /\ HandlesMean /\ PairsClean
  BY HandlesAre DEF HandlesOK
<1>3. faults' \in 0 .. MaxFaults /\ crashes' \in 0 .. MaxCrashes
  BY <1>1, FaultCount
<1>4. ASSUME UNCHANGED <<slots, files>> PROVE HandleInv'
  <2>1. HandlesOK'
    BY <1>2, <1>4, HandlesKept
  <2> QED BY <1>1, <1>3, <2>1, QuietStep
<1>5. ASSUME UpdateEntry(h), files' = files \/ files' = [files EXCEPT ![h] = ClosedFile]
      PROVE  HandleInv'
  <2> DEFINE s == files[h].slot
  <2>1. /\ slots' \in [Slot -> [name : Names \cup {NoName}, first : Cluster \cup {0},
                                size : 0 .. MaxSize]]
        /\ \A t \in Slot : slots'[t].name = slots[t].name
        /\ s \in Slot /\ slots'[s].first = files[h].first /\ slots'[s].size = files[h].size
        /\ \A t \in Slot : t # s => slots'[t] = slots[t]
        /\ (~Dirty(h) => slots' = slots) /\ (~Sole(h) => ~Dirty(h))
    BY <1>1, <1>2, <1>5, UpdateStep
  <2>2. ClosedFile \in HandleType /\ ClosedFile.slot = 0 /\ ClosedFile.pos <= ClosedFile.size
    BY SlotNumbers, TableNumbers DEF ClosedFile, HandleType
  <2>3. /\ files' \in [Handles -> HandleType]
        /\ \A g \in Handles : g # h => files'[g] = files[g]
        /\ files'[h] = files[h] \/ files'[h] = ClosedFile
    BY <1>2, <1>5, <2>2
  <2> HIDE DEF s
  <2>4. HandlesMean'
    <3> SUFFICES ASSUME NEW g \in Handles
                 PROVE  /\ IsOpen(g)' => slots'[files'[g].slot].name # NoName
                        /\ ~IsOpen(g)' => files'[g] = ClosedFile
                        /\ files'[g].pos <= files'[g].size
      BY DEF HandlesMean
    <3>1. CASE files'[g] = ClosedFile
      BY <2>2, <3>1 DEF IsOpen
    <3>2. CASE files'[g] = files[g]
      <4>1. files[g] \in HandleType
        BY <1>2
      <4>2. IsOpen(g) => files[g].slot \in Slot
        BY <4>1 DEF IsOpen, HandleType
      <4> QED BY <1>2, <2>1, <3>2, <4>2 DEF HandlesMean, IsOpen
    <3> QED BY <2>3, <3>1, <3>2
  <2>5. NamesOnce'
    BY <1>2, <2>1 DEF NamesOnce
  <2>6. PairsClean'
    <3> SUFFICES ASSUME NEW g \in Handles, NEW k \in Handles, g # k, IsOpen(k)',
                        files'[g].slot = files'[k].slot
                 PROVE  ~Dirty(k)'
      BY DEF PairsClean
    <3>1. files'[k] = files[k] /\ files'[g] = files[g]
      BY <2>2, <2>3 DEF IsOpen
    <3>2. files[g].slot = files[k].slot /\ IsOpen(k) /\ ~Dirty(k) /\ files[k].slot \in Slot
      BY <1>2, <3>1 DEF PairsClean, IsOpen, HandleType
    <3>3. CASE files[k].slot # s
      BY <2>1, <3>1, <3>2, <3>3 DEF Dirty
    <3>4. CASE files[k].slot = s
      <4>1. ~Sole(h)
        BY <3>2, <3>4 DEF Sole, s
      <4>2. slots' = slots
        BY <2>1, <4>1
      <4> QED BY <3>1, <3>2, <4>2 DEF Dirty
    <3> QED BY <3>3, <3>4
  <2>7. HandlesOK'
    BY <2>1, <2>3, <2>4, <2>5, <2>6 DEF HandlesOK
  <2> QED BY <1>1, <1>3, <2>7, QuietStep
<1> QED BY <1>1, <1>4, <1>5

\* A position moves within the size of its file.
LEMMA MoveStep ==
  ASSUME HandleInv, NEW h \in Handles, IsOpen(h), NEW p \in Nat, p <= files[h].size,
         files' = [files EXCEPT ![h].pos = p], call.op = "none",
         UNCHANGED <<fat, hint, data, slots, call, crashes, tainted>>, Fault \/ NoFault
  PROVE  HandleInv'
<1>1. HandlesOK /\ files \in [Handles -> HandleType]
  BY HandlesAre DEF HandlesOK
<1> DEFINE r == [files[h] EXCEPT !.pos = p]
<1>2. files[h] \in HandleType /\ files[h].size \in 0 .. MaxSize
  BY <1>1 DEF HandleType
<1>3. p \in 0 .. MaxSize
  BY <1>2, SlotNumbers, SMT
<1>4. /\ r \in HandleType /\ r.slot = files[h].slot /\ r.first = files[h].first
      /\ r.size = files[h].size /\ r.pos = p
  BY <1>2, <1>3 DEF HandleType
<1>5. files' = [files EXCEPT ![h] = r]
  OBVIOUS
<1> HIDE DEF r
<1>6. HandlesOK'
  BY <1>1, <1>4, <1>5, HandleStep
<1>7. faults' \in 0 .. MaxFaults /\ crashes' \in 0 .. MaxCrashes
  BY FaultCount
<1> QED BY <1>6, <1>7, QuietStep

\* A handle stays where it is, and nothing else changes.
LEMMA StayStep ==
  ASSUME HandleInv, call.op = "none",
         UNCHANGED <<fat, hint, data, slots, files, call, crashes, tainted>>, Fault \/ NoFault
  PROVE  HandleInv'
<1>1. HandlesOK'
  BY HandlesAre, HandlesKept
<1>2. faults' \in 0 .. MaxFaults /\ crashes' \in 0 .. MaxCrashes
  BY FaultCount
<1> QED BY <1>1, <1>2, QuietStep

LEMMA RoomType ==
  ASSUME HandleInv, NEW h \in Handles
  PROVE  /\ files[h].pos \in Nat /\ files[h].size \in Nat /\ files[h].pos <= files[h].size
         /\ files[h].size <= MaxSize /\ files[h].first \in Entry
         /\ Capacity(files[h].first) \in Nat
<1>1. files[h] \in HandleType /\ files[h].pos <= files[h].size /\ IsTable(fat)
  BY HandlesAre DEF HandlesOK, HandlesMean, HandleInv, FileTypeOK, IsTable
<1>2. /\ files[h].pos \in Nat /\ files[h].size \in Nat /\ files[h].size <= MaxSize
      /\ files[h].first \in Entry
  <2>1. /\ files[h].pos \in 0 .. MaxSize /\ files[h].size \in 0 .. MaxSize
        /\ files[h].first \in Cluster \cup {0}
    BY ONLY <1>1, Zenon DEF HandleType
  <2>2. MaxSize \in Nat
    BY SlotNumbers
  <2>3. files[h].pos \in Nat /\ files[h].size \in Nat /\ files[h].size <= MaxSize
    BY ONLY <2>1, <2>2, SMT
  <2>4. files[h].first \in Entry
    BY <2>1, TableNumbers, Zenon DEF Entry
  <2> QED BY <2>3, <2>4
<1>3. Len(ChainIn(fat, files[h].first)) \in Nat
  BY <1>1, <1>2, ChainClusters
<1>4. Capacity(files[h].first) \in Nat
  BY <1>3, SlotNumbers, SMT DEF Capacity
<1> QED BY <1>1, <1>2, <1>4

LEMMA AvailableFacts ==
  ASSUME HandleInv, NEW h \in Handles, NEW n \in Nat
  PROVE  Available(h, n) \in Nat /\ files[h].pos + Available(h, n) <= files[h].size
BY RoomType, SMT DEF Available

LEMMA DeliverStep ==
  ASSUME HandleInv, NEW h \in Handles, IsOpen(h), NEW k \in Nat, NEW n,
         files[h].pos + k <= files[h].size, Deliver(h, k, n), call.op = "none",
         UNCHANGED <<fat, hint, data, slots, call, crashes, tainted>>, Fault \/ NoFault
  PROVE  HandleInv'
<1> DEFINE p == files[h].pos + k
<1>1. p \in Nat /\ p <= files[h].size
  BY RoomType, SMT
<1>2. files' = [files EXCEPT ![h].pos = p]
  BY DEF Deliver
<1> HIDE DEF p
<1> QED BY <1>1, <1>2, MoveStep

LEMMA ReadStep ==
  ASSUME HandleInv, NEW h \in Handles, NEW n \in Nat, ReadFile(h, n)
  PROVE  HandleInv'
<1> DEFINE k == Available(h, n)
           room == Capacity(files[h].first)
<1>1. /\ call.op = "none" /\ IsOpen(h)
      /\ UNCHANGED <<fat, hint, data, slots, call, crashes, tainted>>
      /\ \/ Deliver(h, k, n) /\ NoFault
         \/ PastChain(h, k) /\ NoFault
         \/ Fault /\ UNCHANGED files
         \/ \E short \in 0 .. k : Deliver(h, short, n) /\ Fault
  BY Zenon DEF ReadFile, Ready
<1>2. /\ k \in Nat /\ room \in Nat /\ files[h].pos \in Nat /\ files[h].size \in Nat
      /\ files[h].pos + k <= files[h].size
  BY RoomType, AvailableFacts
<1>3. CASE Deliver(h, k, n) /\ NoFault
  BY <1>1, <1>2, <1>3, DeliverStep
<1>4. CASE PastChain(h, k) /\ NoFault
  <2> DEFINE j == IF files[h].pos < room THEN room - files[h].pos ELSE 0
  <2>1. files[h].pos + k > room /\ (UNCHANGED files \/ Deliver(h, j, k))
    BY <1>4, Zenon DEF PastChain
  <2>2. j \in Nat /\ files[h].pos + j <= files[h].size
    BY <1>2, <2>1, SMT
  <2> HIDE DEF j
  <2>3. CASE Deliver(h, j, k)
    BY <1>1, <1>4, <2>2, <2>3, DeliverStep
  <2>4. CASE UNCHANGED files
    BY <1>1, <1>4, <2>4, StayStep
  <2> QED BY <2>1, <2>3, <2>4
<1>5. CASE Fault /\ UNCHANGED files
  BY <1>1, <1>5, StayStep
<1>6. ASSUME NEW short \in 0 .. k, Deliver(h, short, n), Fault PROVE HandleInv'
  <2>1. short \in Nat /\ files[h].pos + short <= files[h].size
    BY <1>2, SMT
  <2> QED BY <1>1, <1>6, <2>1, DeliverStep
<1> HIDE DEF k, room
<1> QED BY <1>1, <1>3, <1>4, <1>5, <1>6, Zenon

LEMMA ForwardStep ==
  ASSUME HandleInv, NEW h \in Handles, NEW n \in Nat, NEW k \in 0 .. n, Forward(h, n, k)
  PROVE  HandleInv'
<1>1. /\ call.op = "none" /\ IsOpen(h) /\ k <= Available(h, n) /\ Deliver(h, k, k)
      /\ UNCHANGED <<fat, hint, data, slots, call, crashes, tainted>> /\ NoFault
  BY DEF Forward, Ready, NoFault
<1>2. k \in Nat /\ files[h].pos + k <= files[h].size
  BY <1>1, RoomType, AvailableFacts, SMT
<1> QED BY <1>1, <1>2, DeliverStep

LEMMA SeekStep ==
  ASSUME HandleInv, NEW h \in Handles, NEW ofs \in Nat, Seek(h, ofs)
  PROVE  HandleInv'
<1> DEFINE p == IF ofs > files[h].size THEN files[h].size ELSE ofs
<1>1. /\ call.op = "none" /\ IsOpen(h) /\ files' = [files EXCEPT ![h].pos = p]
      /\ UNCHANGED <<fat, hint, data, slots, call, crashes, tainted>> /\ NoFault
  BY DEF Seek, Ready, NoFault
<1>2. p \in Nat /\ p <= files[h].size
  BY RoomType, SMT
<1> HIDE DEF p
<1> QED BY <1>1, <1>2, MoveStep

-----------------------------------------------------------------------------
(* The steps of f_write.                                                   *)

\* What remains to show of any step.
LEMMA Assemble ==
  ASSUME HandlesOK', IsTable(fat)', hint' \in Cluster,
         data' \in [Cluster -> [0 .. ClusterSize - 1 -> Byte]],
         call' \in CallType, Writing', Unlinking', faults' \in 0 .. MaxFaults,
         crashes' \in 0 .. MaxCrashes, tainted' \in BOOLEAN
  PROVE  HandleInv'
<1>1. call'.op \in {"none", "write", "copy", "unlink"} /\ call'.cluster \in Entry
  BY DEF CallType
<1> QED BY <1>1 DEF HandleInv, FileTypeOK, HandlesOK, HandleType, IsTable

LEMMA Types ==
  ASSUME HandleInv
  PROVE  /\ IsTable(fat) /\ hint \in Cluster /\ hint \in Nat
         /\ data \in [Cluster -> [0 .. ClusterSize - 1 -> Byte]]
         /\ faults \in 0 .. MaxFaults /\ crashes \in 0 .. MaxCrashes /\ tainted \in BOOLEAN
         /\ HandlesOK /\ files \in [Handles -> HandleType] /\ call \in CallType
         /\ Writing /\ Unlinking
BY HandlesAre, TableNumbers DEF HandleInv, FileTypeOK, HandlesOK, IsTable

LEMMA NoCallFacts ==
  ASSUME EndCall
  PROVE  call' \in CallType /\ Writing' /\ Unlinking' /\ call'.op = "none" /\ call'.slot = 0
<1>1. <<>> \in Buffers
  <2>1. 0 \in 0 .. MaxBuffer
    BY SlotNumbers
  <2>2. [i \in 1 .. 0 |-> i] = <<>>
    BY SMT
  <2> QED BY <2>1, <2>2 DEF Buffers
<1>2. call' = NoCall
  BY DEF EndCall
<1>3. NoCall \in CallType /\ NoCall.op = "none" /\ NoCall.slot = 0
  BY <1>1, TableNumbers DEF NoCall, CallType
<1> QED BY <1>2, <1>3 DEF Writing, Unlinking

\* A call that ends, whatever it did to the disk.
LEMMA EndStep ==
  ASSUME HandleInv, EndCall, HandlesOK', IsTable(fat)', hint' \in Cluster,
         data' \in [Cluster -> [0 .. ClusterSize - 1 -> Byte]],
         faults' \in 0 .. MaxFaults, crashes' \in 0 .. MaxCrashes, tainted' \in BOOLEAN
  PROVE  HandleInv'
BY NoCallFacts, Assemble

\* A call that goes on with the same handle and buffer.
LEMMA GoOnStep ==
  ASSUME HandleInv, call.op \in {"write", "copy"}, UNCHANGED <<slots, files, crashes, tainted>>,
         IsTable(fat)', hint' \in Cluster,
         data' \in [Cluster -> [0 .. ClusterSize - 1 -> Byte]],
         faults' \in 0 .. MaxFaults, call' \in CallType,
         call'.op \in {"write", "copy"}, call'.handle = call.handle,
         call'.slot = call.slot, call'.buffer = call.buffer, call'.done <= Len(call.buffer)
  PROVE  HandleInv'
<1>1. HandlesOK' /\ crashes' \in 0 .. MaxCrashes /\ tainted' \in BOOLEAN
  BY Types, HandlesKept
<1>2. Writing'
  BY Types DEF Writing, IsOpen, Sole
<1>3. Unlinking'
  <2>1. call.slot = 0 /\ call'.slot = 0 /\ call'.op # "unlink"
    BY Types DEF Unlinking
  <2> QED BY <2>1 DEF Unlinking
<1> QED BY <1>1, <1>2, <1>3, Assemble

\* The record of a call, field by field.
LEMMA CallUpdates ==
  ASSUME NEW k \in CallType
  PROVE  /\ \A e \in Entry : /\ [k EXCEPT !.cluster = e] \in CallType
                             /\ [k EXCEPT !.cluster = e].op = k.op
                             /\ [k EXCEPT !.cluster = e].handle = k.handle
                             /\ [k EXCEPT !.cluster = e].slot = k.slot
                             /\ [k EXCEPT !.cluster = e].buffer = k.buffer
                             /\ [k EXCEPT !.cluster = e].done = k.done
                             /\ [k EXCEPT !.cluster = e].offset = k.offset
                             /\ [k EXCEPT !.cluster = e].cluster = e
         /\ \A n \in Nat : /\ [k EXCEPT !.offset = n] \in CallType
                           /\ [k EXCEPT !.offset = n].op = k.op
                           /\ [k EXCEPT !.offset = n].handle = k.handle
                           /\ [k EXCEPT !.offset = n].slot = k.slot
                           /\ [k EXCEPT !.offset = n].buffer = k.buffer
                           /\ [k EXCEPT !.offset = n].done = k.done
                           /\ [k EXCEPT !.offset = n].cluster = k.cluster
                           /\ [k EXCEPT !.offset = n].offset = n
BY DEF CallType

LEMMA BufferFacts ==
  ASSUME NEW buffer \in Buffers
  PROVE  /\ Len(buffer) \in Nat /\ Len(buffer) <= MaxBuffer
         /\ \A i \in 1 .. Len(buffer) : buffer[i] \in Byte
<1>1. PICK m \in 0 .. MaxBuffer : buffer = [i \in 1 .. m |-> i]
  BY DEF Buffers
<1>2. m \in Nat /\ m <= MaxBuffer /\ MaxBuffer \in Nat
  BY SlotNumbers, SMT
<1>3. buffer \in Seq(Nat) /\ Len(buffer) = m
  BY <1>1, <1>2
<1>4. \A i \in 1 .. m : buffer[i] = i /\ i \in Byte
  BY <1>1, <1>2, SMT DEF Byte
<1> QED BY <1>2, <1>3, <1>4

\* The last write of a call puts the position past the bytes and extends the size.
LEMMA FinishStep ==
  ASSUME HandleInv, call.op = "write", NEW n \in Nat, n <= Len(call.buffer), FinishWrite(n)
  PROVE  /\ HandlesOK' \/ slots' # slots
         /\ \A g \in Handles : files'[g].slot = files[g].slot /\ files'[g].first = files[g].first
         /\ \A g \in Handles : g # call.handle => files'[g] = files[g]
         /\ files'[call.handle].pos = files[call.handle].pos + n
         /\ files'[call.handle].size = IF files[call.handle].pos + n > files[call.handle].size
                                      THEN files[call.handle].pos + n
                                      ELSE files[call.handle].size
<1> DEFINE h == call.handle
           p == files[h].pos + n
           z == IF p > files[h].size THEN p ELSE files[h].size
           r == [slot |-> files[h].slot, first |-> files[h].first, pos |-> p, size |-> z]
<1>1. /\ h \in Handles /\ IsOpen(h) /\ Sole(h) /\ files[h].pos + Len(call.buffer) <= MaxSize
      /\ files \in [Handles -> HandleType] /\ HandlesOK
  BY Types DEF Writing
<1>2. files' = [files EXCEPT ![h].pos = p, ![h].size = IF p > @ THEN p ELSE @]
  BY DEF FinishWrite
<1>3. files[h] \in HandleType /\ files[h].pos \in Nat /\ files[h].size \in Nat
      /\ files[h].size <= MaxSize
  BY <1>1, RoomType
<1>4. Len(call.buffer) \in Nat
  BY Types, BufferFacts DEF CallType
<1>5. p \in 0 .. MaxSize /\ z \in 0 .. MaxSize /\ p <= z
  BY <1>1, <1>3, <1>4, SlotNumbers, SMT
<1> HIDE DEF p, h
<1>6. [[files[h] EXCEPT !.pos = p] EXCEPT !.size = z] = r
  <2> DEFINE e == [files[h] EXCEPT !.pos = p]
  <2>1. e = [slot |-> files[h].slot, first |-> files[h].first, pos |-> p, size |-> files[h].size]
    BY <1>3 DEF HandleType
  <2> HIDE DEF e, z
  <2>2. [e EXCEPT !.size = z] = r
    BY <2>1
  <2> QED BY <2>2 DEF e
<1>7. files' = [files EXCEPT ![h] = r]
  <2>1. DOMAIN files = Handles /\ "pos" \in DOMAIN files[h] /\ "size" \in DOMAIN files[h]
    BY <1>1, <1>3 DEF HandleType
  <2>2. files' = [files EXCEPT ![h] = [[files[h] EXCEPT !.pos = p] EXCEPT !.size = z]]
    BY <1>1, <1>2, <1>3, <2>1 DEF HandleType
  <2> QED BY <1>6, <2>2, Zenon
<1> HIDE DEF z
<1>8. r \in HandleType /\ r.slot = files[h].slot /\ r.first = files[h].first /\ r.pos = p
      /\ r.size = z /\ r.pos <= r.size
  BY <1>3, <1>5 DEF HandleType
<1> HIDE DEF r
<1>9. /\ \A g \in Handles : g # h => files'[g] = files[g]
      /\ files'[h] = r
  BY <1>1, <1>7
<1>10. UNCHANGED slots => HandlesOK'
  BY <1>1, <1>7, <1>8, HandleStep
<1> QED BY <1>8, <1>9, <1>10 DEF h, p, z

LEMMA BeginWriteStep ==
  ASSUME HandleInv, NEW h \in Handles, NEW buffer \in Buffers, BeginWrite(h, buffer)
  PROVE  HandleInv'
<1> DEFINE new == Allocate(fat, hint, 1)
           first == IF files[h].first = 0 THEN new.first ELSE files[h].first
           r == [files[h] EXCEPT !.first = first]
           k == [op |-> "write", handle |-> h, slot |-> 0, cluster |-> first,
                 offset |-> files[h].pos, buffer |-> buffer, done |-> 0]
<1>1. /\ call.op = "none" /\ IsOpen(h) /\ Sole(h) /\ files[h].pos + Len(buffer) <= MaxSize
      /\ UNCHANGED <<data, slots, faults, crashes, tainted>>
      /\ \/ UNCHANGED <<fat, hint, files, call>>
         \/ /\ first # 0
            /\ (fat' = new.fat /\ hint' = new.hint) \/ UNCHANGED <<fat, hint>>
            /\ files' = [files EXCEPT ![h].first = first]
            /\ call' = [NoCall EXCEPT !.op = "write", !.handle = h,
                          !.cluster = first, !.offset = files[h].pos, !.buffer = buffer]
  BY DEF BeginWrite, Ready
<1>2. CASE UNCHANGED <<fat, hint, files, call>>
  BY <1>1, <1>2, StayStep DEF NoFault
<1>3. ASSUME first # 0, (fat' = new.fat /\ hint' = new.hint) \/ UNCHANGED <<fat, hint>>,
             files' = [files EXCEPT ![h].first = first],
             call' = [NoCall EXCEPT !.op = "write", !.handle = h,
                        !.cluster = first, !.offset = files[h].pos, !.buffer = buffer]
      PROVE  HandleInv'
  <2>1. call' = k
    BY <1>3, Zenon DEF NoCall
  <2>2. /\ files[h] \in HandleType /\ files[h].pos \in Nat
        /\ files[h].pos <= files[h].size
    BY Types, RoomType
  <2>3. /\ IsTable(new.fat) /\ new.hint \in Cluster /\ new.first \in Cluster \cup {0}
    BY Types, AllocateFacts, ZenonT(30)
  <2>4. first \in Cluster
    BY <1>3, <2>2, <2>3 DEF HandleType
  <2>5. r \in HandleType /\ r.slot = files[h].slot /\ r.pos = files[h].pos /\ r.size = files[h].size
    BY <2>2, <2>4 DEF HandleType
  <2>6. files' = [files EXCEPT ![h] = r]
    BY <1>3
  <2>7. k \in CallType /\ k.op = "write" /\ k.handle = h /\ k.slot = 0 /\ k.done = 0
        /\ k.buffer = buffer
    BY <2>2, <2>4, TableNumbers DEF CallType
  <2> HIDE DEF r, k
  <2>8. /\ HandlesOK' /\ \A g \in Handles : files'[g].slot = files[g].slot
        /\ files'[h] = r
    BY <1>1, <2>2, <2>5, <2>6, Types, HandleStep
  <2>9. Writing'
    BY <1>1, <2>1, <2>5, <2>7, <2>8, BufferFacts DEF Writing, IsOpen, Sole
  <2>10. Unlinking'
    BY <2>1, <2>7 DEF Unlinking
  <2>11. IsTable(fat)' /\ hint' \in Cluster
    BY <1>3, <2>3, Types DEF IsTable
  <2> QED BY <1>1, <2>1, <2>7, <2>8, <2>9, <2>10, <2>11, Types, Assemble
<1> QED BY <1>1, <1>2, <1>3

\* The next cluster comes from the FAT, or is appended, or the call fails.
LEMMA NextClusterStep ==
  ASSUME HandleInv, call.op \in {"write", "copy"}, NEW next \in Entry, NEW frame \in CallType,
         frame.op = "write", frame.handle = call.handle, frame.slot = call.slot,
         frame.buffer = call.buffer, frame.done = call.done,
         NextCluster(next, frame), Fault \/ NoFault,
         UNCHANGED <<data, slots, files, crashes, tainted>>
  PROVE  HandleInv'
<1> DEFINE new == Append1(fat, hint, call.cluster)
<1>1. call.cluster \in Entry
  BY Types DEF CallType
<1>2. IsTable(new.fat) /\ new.hint \in Cluster /\ new.first \in Entry
  <2>1. /\ Allocate(fat, hint, 1).hint \in Cluster
        /\ Allocate(fat, hint, 1).first \in Cluster \cup {0}
    BY Types, AllocateFacts
  <2>2. /\ IsTable(new.fat) /\ new.hint = Allocate(fat, hint, 1).hint
        /\ new.first = Allocate(fat, hint, 1).first
    BY <1>1, Types, AppendFacts
  <2> QED BY <2>1, <2>2, TableNumbers
<1> HIDE DEF new
<1>3. /\ IsTable(fat)' /\ hint' \in Cluster
      /\ EndCall \/ \E e \in Entry : call' = [frame EXCEPT !.cluster = e]
  <2>1. CASE next # 0
    BY <2>1, Types DEF NextCluster, IsTable
  <2>2. CASE next = 0
    BY <1>2, <2>2 DEF NextCluster, new, IsTable
  <2> QED BY <2>1, <2>2
<1>4. faults' \in 0 .. MaxFaults
  BY FaultCount
<1>5. CASE EndCall
  <2>1. HandlesOK'
    BY Types, HandlesKept
  <2> QED BY <1>3, <1>4, <1>5, <2>1, Types, EndStep
<1>6. ASSUME NEW e \in Entry, call' = [frame EXCEPT !.cluster = e] PROVE HandleInv'
  <2>1. /\ call' \in CallType /\ call'.op = "write" /\ call'.handle = call.handle
        /\ call'.slot = call.slot /\ call'.buffer = call.buffer /\ call'.done = call.done
    BY <1>6, CallUpdates
  <2>2. call.done <= Len(call.buffer)
    BY Types DEF Writing
  <2> QED BY <1>3, <1>4, <2>1, <2>2, Types, GoOnStep
<1> QED BY <1>3, <1>5, <1>6

LEMMA WalkStep ==
  ASSUME HandleInv, WalkToPosition \/ AdvanceWrite
  PROVE  HandleInv'
<1>1. NextIn(fat, call.cluster) \in Entry /\ 0 \in Entry
  BY Types, NextInType, TableNumbers
<1>2. ASSUME NEW frame, GoToNext(frame)
      PROVE  \E next \in Entry : NextCluster(next, frame) /\ (Fault \/ NoFault)
  BY <1>1, <1>2 DEF GoToNext
<1>3. CASE WalkToPosition
  <2> DEFINE n == call.offset - ClusterSize
             frame == [call EXCEPT !.offset = n]
  <2>1. /\ call.op = "write" /\ call.offset >= ClusterSize /\ GoToNext(frame)
        /\ UNCHANGED <<data, slots, files, crashes, tainted>>
    BY <1>3 DEF WalkToPosition
  <2>2. n \in Nat
    <3>1. call.offset \in Nat
      BY Types DEF CallType
    <3> QED BY <2>1, <3>1, SlotNumbers, SMT
  <2>3. /\ frame \in CallType /\ frame.op = "write" /\ frame.handle = call.handle
        /\ frame.slot = call.slot /\ frame.buffer = call.buffer /\ frame.done = call.done
    BY <2>1, <2>2, Types, CallUpdates
  <2> HIDE DEF frame
  <2>4. PICK next \in Entry : NextCluster(next, frame) /\ (Fault \/ NoFault)
    BY <1>2, <2>1
  <2> QED BY <2>1, <2>3, <2>4, NextClusterStep
<1>4. CASE AdvanceWrite
  <2> DEFINE frame == [call EXCEPT !.op = "write", !.offset = 0]
  <2>1. /\ call.op = "copy" /\ GoToNext(frame)
        /\ UNCHANGED <<data, slots, files, crashes, tainted>>
    BY <1>4 DEF AdvanceWrite
  <2>3. /\ frame \in CallType /\ frame.op = "write" /\ frame.handle = call.handle
        /\ frame.slot = call.slot /\ frame.buffer = call.buffer /\ frame.done = call.done
    <3> DEFINE k == [call EXCEPT !.op = "write"]
    <3>1. /\ k \in CallType /\ k.op = "write" /\ k.handle = call.handle
          /\ k.slot = call.slot /\ k.buffer = call.buffer /\ k.done = call.done
      BY Types DEF CallType
    <3>2. frame = [k EXCEPT !.offset = 0]
      BY Types DEF CallType
    <3> HIDE DEF k, frame
    <3> QED BY <3>1, <3>2, CallUpdates
  <2> HIDE DEF frame
  <2>4. PICK next \in Entry : NextCluster(next, frame) /\ (Fault \/ NoFault)
    BY <1>2, <2>1
  <2> QED BY <2>1, <2>3, <2>4, NextClusterStep
<1> QED BY <1>3, <1>4

LEMMA ChunkFacts ==
  ASSUME HandleInv, call.op = "write", call.offset < ClusterSize
  PROVE  /\ Chunk \in Nat /\ call.done + Chunk <= Len(call.buffer) /\ call.done \in Nat
         /\ call.offset \in Nat /\ call.offset + Chunk <= ClusterSize
         /\ Len(call.buffer) \in Nat
<1>1. call.done \in Nat /\ call.offset \in Nat /\ Len(call.buffer) \in Nat
      /\ call.done <= Len(call.buffer)
  BY Types, BufferFacts DEF CallType, Writing
<1> QED BY <1>1, SlotNumbers, SMTT(30) DEF Chunk

LEMMA PatchedType ==
  ASSUME HandleInv, call.op = "write", call.offset < ClusterSize,
         NEW bytes \in [0 .. ClusterSize - 1 -> Byte]
  PROVE  Patched(bytes) \in [0 .. ClusterSize - 1 -> Byte]
<1> DEFINE V(i) == IF call.offset <= i /\ i < call.offset + Chunk
                   THEN call.buffer[call.done + i - call.offset + 1] ELSE bytes[i]
<1>1. \A i \in 0 .. ClusterSize - 1 : V(i) \in Byte
  <2> SUFFICES ASSUME NEW i \in 0 .. ClusterSize - 1 PROVE V(i) \in Byte
    OBVIOUS
  <2>1. CASE call.offset <= i /\ i < call.offset + Chunk
    <3> DEFINE a == call.done
               o == call.offset
               m == Chunk
               l == Len(call.buffer)
    <3>2. /\ a \in Nat /\ o \in Nat /\ m \in Nat /\ l \in Nat /\ i \in Int
          /\ a + m <= l /\ o <= i /\ i < o + m
      BY <2>1, ChunkFacts, SlotNumbers
    <3> HIDE DEF a, o, m, l
    <3>3. a + i - o + 1 \in 1 .. l
      BY <3>2, SMT
    <3>1. call.done + i - call.offset + 1 \in 1 .. Len(call.buffer)
      BY <3>3 DEF a, o, l
    <3> QED BY <2>1, <3>1, Types, BufferFacts DEF CallType
  <2>2. CASE ~(call.offset <= i /\ i < call.offset + Chunk)
    BY <2>2
  <2> QED BY <2>1, <2>2
<1>2. Patched(bytes) = [i \in 0 .. ClusterSize - 1 |-> V(i)]
  BY DEF Patched, Patch
<1> HIDE DEF V
<1> QED BY <1>1, <1>2

LEMMA WriteClusterStep ==
  ASSUME HandleInv, WriteCluster \/ WriteClusterFails
  PROVE  HandleInv'
<1>1. /\ call.op = "write" /\ call.offset < ClusterSize
      /\ UNCHANGED <<fat, hint, slots, crashes, tainted>>
      /\ data' = data \/ (call.cluster \in Cluster
                          /\ data' = [data EXCEPT ![call.cluster] = Patched(@)])
      /\ (Fault \/ NoFault)
      /\ \/ \E n \in {0, call.done + Chunk} : FinishWrite(n)
         \/ call' = [call EXCEPT !.op = "copy", !.done = @ + Chunk] /\ files' = files
         \/ EndCall /\ files' = files
  BY DEF WriteCluster, WriteClusterFails, NoFault
<1>2. data' \in [Cluster -> [0 .. ClusterSize - 1 -> Byte]]
  BY <1>1, Types, PatchedType
<1>3. faults' \in 0 .. MaxFaults
  BY <1>1, FaultCount
<1>4. IsTable(fat)' /\ hint' \in Cluster /\ tainted' \in BOOLEAN /\ crashes' \in 0 .. MaxCrashes
  BY <1>1, Types DEF IsTable
<1>5. ASSUME NEW n \in {0, call.done + Chunk}, FinishWrite(n) PROVE HandleInv'
  <2>1. n \in Nat /\ n <= Len(call.buffer)
    BY <1>1, ChunkFacts, SMT
  <2>2. HandlesOK'
    BY <1>1, <1>5, <2>1, FinishStep
  <2>3. EndCall
    BY <1>5 DEF FinishWrite
  <2> QED BY <1>2, <1>3, <1>4, <2>2, <2>3, EndStep
<1>6. CASE call' = [call EXCEPT !.op = "copy", !.done = @ + Chunk] /\ files' = files
  <2> DEFINE n == call.done + Chunk
             k == [call EXCEPT !.op = "copy"]
  <2>1. n \in Nat /\ n <= Len(call.buffer)
    BY <1>1, ChunkFacts, SMT
  <2>2. /\ k \in CallType /\ k.op = "copy" /\ k.handle = call.handle
        /\ k.slot = call.slot /\ k.buffer = call.buffer
    BY Types DEF CallType
  <2>3. call' = [k EXCEPT !.done = n]
    BY <1>6, Types DEF CallType
  <2> HIDE DEF k, n
  <2>4. /\ call' \in CallType /\ call'.op = "copy" /\ call'.handle = call.handle
        /\ call'.slot = call.slot /\ call'.buffer = call.buffer /\ call'.done = n
    BY <2>1, <2>2, <2>3 DEF CallType
  <2> QED BY <1>1, <1>2, <1>3, <1>4, <1>6, <2>1, <2>4, GoOnStep
<1>7. CASE EndCall /\ files' = files
  <2>1. HandlesOK'
    BY <1>1, <1>7, Types, HandlesKept
  <2> QED BY <1>2, <1>3, <1>4, <1>7, <2>1, EndStep
<1> QED BY <1>1, <1>5, <1>6, <1>7

-----------------------------------------------------------------------------
(* f_truncate, f_expand, f_unlink and the end of the program.              *)

\* A call that changes the chain of a file and its sole handle.
LEMMA ResizeStep ==
  ASSUME HandleInv, NEW h \in Handles, call.op = "none", IsOpen(h), Sole(h),
         NEW r \in HandleType, files' = [files EXCEPT ![h] = r],
         r.slot = files[h].slot, r.pos <= r.size, Fault \/ NoFault,
         IsTable(fat)', hint' \in Cluster, UNCHANGED <<data, slots, call, crashes, tainted>>
  PROVE  HandleInv'
<1>1. HandlesOK'
  BY Types, HandleStep
<1>2. call' \in CallType /\ Writing' /\ Unlinking'
  BY Types DEF Writing, Unlinking
<1>3. faults' \in 0 .. MaxFaults /\ crashes' \in 0 .. MaxCrashes
  BY FaultCount
<1>4. tainted' \in BOOLEAN /\ data' \in [Cluster -> [0 .. ClusterSize - 1 -> Byte]]
  BY Types
<1> QED BY <1>1, <1>2, <1>3, <1>4, Assemble

LEMMA ClusterAtType ==
  ASSUME NEW first \in Entry, IsTable(fat), NEW pos \in Nat
  PROVE  ClusterAt(first, pos) \in Entry
<1> DEFINE chain == ChainIn(fat, first)
           k == pos \div ClusterSize
<1>1. k \in Nat
  BY SlotNumbers, SMT
<1>2. Len(chain) \in Nat /\ \A i \in 1 .. Len(chain) : chain[i] \in Cluster
  BY ChainClusters
<1>3. ClusterAt(first, pos) =
        IF k < Len(chain) THEN chain[k + 1]
        ELSE IF k = Len(chain) /\ k > 0 THEN NextIn(fat, chain[k]) ELSE 0
  BY DEF ClusterAt
<1> HIDE DEF chain, k
<1>4. k < Len(chain) => k + 1 \in 1 .. Len(chain)
  BY <1>1, <1>2, SMT
<1>5. NextIn(fat, chain[k]) \in Entry
  BY NextInType
<1> QED BY <1>2, <1>3, <1>4, <1>5, TableNumbers

LEMMA CutType ==
  ASSUME NEW c \in Entry, IsTable(fat)
  PROVE  /\ IsTable(CutAfter(c))
         /\ c \in Cluster => IsTable([fat EXCEPT ![c] = EndOfChain])
<1> DEFINE cut == [fat EXCEPT ![c] = EndOfChain]
<1>1. IsTable(cut)
  BY TableNumbers DEF IsTable
<1>2. NextIn(fat, c) \in Entry
  BY NextInType
<1> HIDE DEF cut
<1>3. IsTable(Release(cut, NextIn(fat, c)))
  BY <1>1, <1>2, ReleaseFacts
<1> QED BY <1>1, <1>3 DEF CutAfter, cut

LEMMA TruncateStep ==
  ASSUME HandleInv, NEW h \in Handles, TruncateFile(h)
  PROVE  HandleInv'
<1> DEFINE last == ClusterAt(files[h].first, files[h].pos)
<1>1. /\ call.op = "none" /\ IsOpen(h) /\ Sole(h) /\ (Fault \/ NoFault)
      /\ UNCHANGED <<hint, data, slots, call, crashes, tainted>>
      /\ \/ /\ files[h].pos = 0 /\ fat' = Release(fat, files[h].first)
            /\ files' = [files EXCEPT ![h].first = 0, ![h].size = 0]
         \/ /\ fat' = CutAfter(last) \/ (last \in Cluster /\ fat' = [fat EXCEPT ![last] = EndOfChain])
            /\ files' = [files EXCEPT ![h].size = files[h].pos]
         \/ UNCHANGED <<fat, files>>
  BY Zenon DEF TruncateFile, Ready
<1>2. /\ files[h] \in HandleType /\ files[h].first \in Entry /\ files[h].pos \in Nat
      /\ files[h].size \in Nat /\ files[h].pos <= files[h].size
      /\ DOMAIN files = Handles
  BY Types, RoomType
<1>3. last \in Entry
  BY <1>2, Types, ClusterAtType
<1> HIDE DEF last
<1>4. CASE /\ files[h].pos = 0 /\ fat' = Release(fat, files[h].first)
           /\ files' = [files EXCEPT ![h].first = 0, ![h].size = 0]
  <2> DEFINE e == [files[h] EXCEPT !.first = 0]
             r == [slot |-> files[h].slot, first |-> 0, pos |-> files[h].pos, size |-> 0]
  <2>1. e = [slot |-> files[h].slot, first |-> 0, pos |-> files[h].pos, size |-> files[h].size]
    BY <1>2 DEF HandleType
  <2>2. files' = [files EXCEPT ![h] = [e EXCEPT !.size = 0]]
    BY <1>2, <1>4 DEF HandleType
  <2> HIDE DEF e
  <2>3. [e EXCEPT !.size = 0] = r
    BY <2>1
  <2>4. files' = [files EXCEPT ![h] = r]
    BY <2>2, <2>3, Zenon
  <2>5. r \in HandleType /\ r.slot = files[h].slot /\ r.pos <= r.size
    BY <1>2, <1>4, TableNumbers, SlotNumbers DEF HandleType
  <2>6. IsTable(fat)' /\ hint' \in Cluster
    BY <1>1, <1>2, <1>4, Types, ReleaseFacts DEF IsTable
  <2> HIDE DEF r
  <2> QED BY <1>1, <2>4, <2>5, <2>6, ResizeStep
<1>5. CASE /\ fat' = CutAfter(last) \/ (last \in Cluster /\ fat' = [fat EXCEPT ![last] = EndOfChain])
           /\ files' = [files EXCEPT ![h].size = files[h].pos]
  <2> DEFINE r == [files[h] EXCEPT !.size = files[h].pos]
  <2>1. files' = [files EXCEPT ![h] = r]
    BY <1>5
  <2>2. r \in HandleType /\ r.slot = files[h].slot /\ r.pos <= r.size
    BY <1>2, SlotNumbers DEF HandleType
  <2>3. IsTable(fat)' /\ hint' \in Cluster
    BY <1>1, <1>3, <1>5, Types, CutType DEF IsTable
  <2> HIDE DEF r
  <2> QED BY <1>1, <2>1, <2>2, <2>3, ResizeStep
<1>6. CASE UNCHANGED <<fat, files>>
  BY <1>1, <1>6, StayStep
<1> QED BY <1>1, <1>4, <1>5, <1>6

\* What f_expand can do to the FAT and to the handle.
LEMMA GrowFacts ==
  ASSUME HandleInv, NEW h \in Handles, NEW n \in Int, NEW broken \in BOOLEAN, Grow(h, n, broken),
         NEW new, new = Allocate(fat, hint, n)
  PROVE  \/ UNCHANGED <<fat, hint, files>>
         \/ /\ n \in Nat /\ n > 0 /\ hint' = new.hint
            /\ files' = [files EXCEPT ![h].first = IF new.ok /\ @ = 0 THEN new.first ELSE @]
            /\ \/ fat' = new.fat
               \/ new.ok /\ \E c \in OnChainIn(new.fat, files[h].first) :
                    /\ broken \/ NextIn(new.fat, c) = 0
                    /\ fat' = [new.fat EXCEPT ![c] = new.first]
<1>1. CASE n <= 0
  BY <1>1 DEF Grow
<1>2. CASE ~(n <= 0)
  <2>1. n \in Nat /\ n > 0
    BY <1>2, SMT
  <2> QED BY <1>2, <2>1, Zenon DEF Grow
<1> QED BY <1>1, <1>2

LEMMA GrowStep ==
  ASSUME HandleInv, NEW h \in Handles, NEW n \in Int, NEW broken \in BOOLEAN, Grow(h, n, broken),
         call.op = "none", IsOpen(h), Sole(h), Fault \/ NoFault,
         UNCHANGED <<data, slots, call, crashes, tainted>>
  PROVE  HandleInv'
<1> DEFINE new == Allocate(fat, hint, n)
<1> DEFINE first == IF new.ok /\ files[h].first = 0 THEN new.first ELSE files[h].first
           r == [files[h] EXCEPT !.first = first]
<1>1. CASE UNCHANGED <<fat, hint, files>>
  BY <1>1, StayStep
<1>2. ASSUME n \in Nat, hint' = new.hint,
             files' = [files EXCEPT ![h].first = IF new.ok /\ @ = 0 THEN new.first ELSE @],
             \/ fat' = new.fat
             \/ \E c \in OnChainIn(new.fat, files[h].first) :
                  fat' = [new.fat EXCEPT ![c] = new.first]
      PROVE  HandleInv'
  <2>1. IsTable(new.fat) /\ new.hint \in Cluster /\ new.first \in Cluster \cup {0}
    BY <1>2, Types, AllocateFacts
  <2>2. files[h] \in HandleType /\ files[h].first \in Entry /\ files[h].pos <= files[h].size
    BY Types, RoomType
  <2>3. OnChainIn(new.fat, files[h].first) \subseteq Cluster
    BY <2>1, <2>2, ChainClusters
  <2>4. IsTable(fat)'
    <3>1. \A c \in Cluster : IsTable([new.fat EXCEPT ![c] = new.first])
      BY <2>1, TableNumbers DEF IsTable
    <3> QED BY <1>2, <2>1, <2>3, <3>1 DEF IsTable
  <2>5. first \in Cluster \cup {0}
    BY <2>1, <2>2 DEF HandleType
  <2>6. r \in HandleType /\ r.slot = files[h].slot /\ r.pos <= r.size
    BY <2>2, <2>5 DEF HandleType
  <2>7. files' = [files EXCEPT ![h] = r]
    BY <1>2
  <2> HIDE DEF r
  <2> QED BY <1>2, <2>1, <2>4, <2>6, <2>7, ResizeStep
<1> QED BY <1>1, <1>2, GrowFacts

\* f_expand is one of three ways to grow by some number of clusters.
LEMMA ExpandCases ==
  ASSUME HandleInv, NEW h \in Handles, NEW size \in Nat, Expand(h, size)
  PROVE  /\ call.op = "none" /\ IsOpen(h) /\ Sole(h) /\ (Fault \/ NoFault)
         /\ UNCHANGED <<data, slots, call, crashes, tainted>>
         /\ \E n \in Int, broken \in BOOLEAN : Grow(h, n, broken)
<1> DEFINE length == Len(ChainIn(fat, files[h].first))
<1>1. /\ call.op = "none" /\ IsOpen(h) /\ Sole(h)
      /\ UNCHANGED <<data, slots, call, crashes, tainted>>
      /\ \/ Grow(h, Needed(size) - length, FALSE) /\ NoFault
         \/ Grow(h, Needed(size) - length, TRUE) /\ Fault
         \/ \E n \in 1 .. length : Grow(h, Needed(size) - n, FALSE) /\ Fault
  BY Zenon DEF Expand, Ready
<1>2. Needed(size) \in Int
  BY SlotNumbers, SMT DEF Needed
<1>3. length \in Nat
  BY Types, RoomType, ChainClusters
<1> HIDE DEF length
<1>4. Needed(size) - length \in Int /\ \A n \in 1 .. length : Needed(size) - n \in Int
  BY <1>2, <1>3, SMT
<1> QED BY <1>1, <1>4

LEMMA ExpandStep ==
  ASSUME HandleInv, NEW h \in Handles, NEW size \in Nat, Expand(h, size)
  PROVE  HandleInv'
BY ExpandCases, GrowStep

LEMMA BeginUnlinkStep ==
  ASSUME HandleInv, NEW n \in Names, BeginUnlink(n)
  PROVE  HandleInv'
<1> DEFINE s == SlotOf(n)
           k == [op |-> "unlink", handle |-> NoName, slot |-> s,
                 cluster |-> 0, offset |-> 0, buffer |-> <<>>, done |-> 0]
<1>1. /\ call.op = "none" /\ s # 0 /\ \A h \in Handles : files[h].slot # s
      /\ fat' = Release(fat, slots[s].first)
      /\ call' = [NoCall EXCEPT !.op = "unlink", !.slot = s]
      /\ UNCHANGED <<hint, data, slots, files, faults, crashes, tainted>>
  BY DEF BeginUnlink, Ready
<1>2. s \in Slot /\ slots[s].name = n /\ n # NoName
  BY <1>1, SlotOfFacts, FileAssumption
<1>3. call' = k
  BY <1>1, Zenon DEF NoCall
<1> HIDE DEF s
<1>4. <<>> \in Buffers
  <2>1. 0 \in 0 .. MaxBuffer
    BY SlotNumbers
  <2>2. [i \in 1 .. 0 |-> i] = <<>>
    BY SMT
  <2> QED BY <2>1, <2>2 DEF Buffers
<1>5. k \in CallType /\ k.op = "unlink" /\ k.slot = s
  BY <1>2, <1>4, TableNumbers DEF CallType
<1> HIDE DEF k
<1>6. Writing' /\ Unlinking'
  BY <1>1, <1>2, <1>3, <1>5 DEF Writing, Unlinking
<1>7. slots[s].first \in Entry
  BY <1>2, Types, TableNumbers DEF HandlesOK
<1>8. IsTable(fat)'
  BY <1>1, <1>7, Types, ReleaseFacts DEF IsTable
<1>9. HandlesOK'
  BY <1>1, Types, HandlesKept
<1> QED BY <1>1, <1>3, <1>5, <1>6, <1>8, <1>9, Types, Assemble

LEMMA EndUnlinkStep ==
  ASSUME HandleInv, EndUnlink
  PROVE  HandleInv'
<1>1. /\ call.op = "unlink" /\ EndCall /\ (Fault \/ NoFault)
      /\ UNCHANGED <<fat, hint, data, files, crashes>>
      /\ tainted' \in BOOLEAN
      /\ slots' = [slots EXCEPT ![call.slot] = FreeSlot] \/ UNCHANGED slots
  BY Types DEF EndUnlink, CheckVolume
<1>2. faults' \in 0 .. MaxFaults
  BY <1>1, FaultCount
<1>3. HandlesOK'
  <2>1. CASE UNCHANGED slots
    BY <1>1, <2>1, Types, HandlesKept
  <2>2. CASE slots' = [slots EXCEPT ![call.slot] = FreeSlot]
    <3> DEFINE s == call.slot
    <3>1. s \in Slot /\ \A h \in Handles : files[h].slot # s
      BY <1>1, Types DEF Unlinking
    <3>2. HandlesOK /\ HandlesMean /\ NamesOnce /\ PairsClean
      BY Types DEF HandlesOK
    <3>3. /\ FreeSlot \in [name : Names \cup {NoName}, first : Cluster \cup {0},
                           size : 0 .. MaxSize]
          /\ FreeSlot.name = NoName
      BY SlotNumbers DEF FreeSlot
    <3>4. /\ slots' \in [Slot -> [name : Names \cup {NoName}, first : Cluster \cup {0},
                                  size : 0 .. MaxSize]]
          /\ slots'[s] = FreeSlot /\ \A t \in Slot : t # s => slots'[t] = slots[t]
      BY <2>2, <3>1, <3>2, <3>3 DEF HandlesOK
    <3> HIDE DEF s
    <3>5. \A h \in Handles : IsOpen(h) => files[h].slot \in Slot
      BY Types DEF IsOpen, HandleType
    <3>6. HandlesMean'
      BY <1>1, <3>1, <3>2, <3>4, <3>5 DEF HandlesMean, IsOpen
    <3>7. NamesOnce'
      BY <3>2, <3>3, <3>4 DEF NamesOnce
    <3>8. PairsClean'
      BY <1>1, <3>1, <3>2, <3>4, <3>5 DEF PairsClean, IsOpen, Dirty
    <3> QED BY <1>1, <3>2, <3>4, <3>6, <3>7, <3>8 DEF HandlesOK
  <2> QED BY <1>1, <2>1, <2>2
<1> QED BY <1>1, <1>2, <1>3, Types, EndStep DEF IsTable

LEMMA RebootStep ==
  ASSUME HandleInv, Reboot, crashes' \in 0 .. MaxCrashes
  PROVE  HandleInv'
<1>1. /\ hint' = 2 /\ files' = [h \in Handles |-> ClosedFile] /\ EndCall
      /\ UNCHANGED <<fat, data, slots, faults>> /\ tainted' \in BOOLEAN
  BY Types DEF Reboot, CheckVolume
<1>2. 2 \in Cluster
  BY TableNumbers, SMT DEF Cluster
<1>3. ClosedFile \in HandleType /\ ClosedFile.slot = 0 /\ ClosedFile.pos <= ClosedFile.size
  BY SlotNumbers, TableNumbers DEF ClosedFile, HandleType
<1>4. files' \in [Handles -> HandleType] /\ \A h \in Handles : files'[h] = ClosedFile
  BY <1>1, <1>3
<1>5. HandlesOK'
  <2>1. HandlesMean' /\ PairsClean'
    BY <1>3, <1>4 DEF HandlesMean, PairsClean, IsOpen
  <2>2. NamesOnce'
    BY <1>1, Types DEF HandlesOK, NamesOnce
  <2> QED BY <1>1, <1>4, <2>1, <2>2, Types DEF HandlesOK
<1> QED BY <1>1, <1>2, <1>5, Types, EndStep DEF IsTable

-----------------------------------------------------------------------------
(* The handle invariant, and with it the types.                            *)

LEMMA HandleInit == Init => HandleInv
<1> SUFFICES ASSUME Init PROVE HandleInv
  OBVIOUS
<1>1. /\ fat = EmptyFat /\ hint = 2 /\ data = [c \in Cluster |-> [i \in 0 .. ClusterSize - 1 |-> 0]]
      /\ slots = [s \in Slot |-> FreeSlot] /\ files = [h \in Handles |-> ClosedFile]
      /\ call = NoCall /\ faults = 0 /\ crashes = 0 /\ tainted = FALSE
  BY DEF Init
<1>2. 2 \in Cluster /\ MediaEntry \in Entry /\ 0 \in Byte
  BY TableNumbers, SlotNumbers, SMT DEF Cluster, Entry, Byte
<1>3. fat \in [FatIndex -> Entry]
  BY <1>1, <1>2, TableNumbers DEF EmptyFat
<1>4. data \in [Cluster -> [0 .. ClusterSize - 1 -> Byte]]
  BY <1>1, <1>2
<1>5. FreeSlot \in [name : Names \cup {NoName}, first : Cluster \cup {0}, size : 0 .. MaxSize]
      /\ FreeSlot.name = NoName
  BY SlotNumbers DEF FreeSlot
<1>6. ClosedFile \in HandleType /\ ClosedFile.slot = 0 /\ ClosedFile.pos <= ClosedFile.size
  BY SlotNumbers, TableNumbers DEF ClosedFile, HandleType
<1>7. /\ \A h \in Handles : files[h] = ClosedFile
      /\ \A s \in Slot : slots[s] = FreeSlot
  BY <1>1
<1>8. HandlesMean /\ NamesOnce /\ PairsClean
  BY <1>5, <1>6, <1>7 DEF HandlesMean, NamesOnce, PairsClean, IsOpen
<1>9. /\ call \in CallType /\ call.op = "none" /\ call.slot = 0
  <2>1. <<>> \in Buffers
    <3>1. 0 \in 0 .. MaxBuffer
      BY SlotNumbers
    <3>2. [i \in 1 .. 0 |-> i] = <<>>
      BY SMT
    <3> QED BY <3>1, <3>2 DEF Buffers
  <2> QED BY <1>1, <2>1, TableNumbers DEF NoCall, CallType
<1>10. Writing /\ Unlinking
  BY <1>9 DEF Writing, Unlinking
<1>11. faults \in 0 .. MaxFaults /\ crashes \in 0 .. MaxCrashes
  BY <1>1, FileAssumption, SMT
<1>12. FileTypeOK
  <2>1. call.op \in {"none", "write", "copy", "unlink"} /\ call.cluster \in Entry
    BY <1>9 DEF CallType
  <2>2. slots \in [Slot -> [name : Names \cup {NoName}, first : Cluster \cup {0},
                            size : 0 .. MaxSize]]
    BY <1>1, <1>5
  <2>3. files \in [Handles -> [slot : Slot \cup {0}, first : Cluster \cup {0},
                               pos : 0 .. MaxSize, size : 0 .. MaxSize]]
    BY <1>1, <1>6 DEF HandleType
  <2> QED BY <1>1, <1>2, <1>3, <1>4, <1>11, <2>1, <2>2, <2>3 DEF FileTypeOK
<1> QED BY <1>8, <1>9, <1>10, <1>12 DEF HandleInv

\* The step of one call, in the form the cases of Next need.
LEMMA NextCases ==
  ASSUME Next
  PROVE  \/ \E h \in Handles, n \in Names : OpenFile(h, n)
         \/ \E h \in Handles : CloseFile(h) \/ SyncFile(h)
         \/ \E h \in Handles : TruncateFile(h)
         \/ \E h \in Handles, n \in Nat : ReadFile(h, n) \/ Seek(h, n)
         \/ \E h \in Handles, n \in Nat : \E k \in 0 .. n : Forward(h, n, k)
         \/ \E h \in Handles, n \in Nat : Expand(h, n)
         \/ \E h \in Handles, buffer \in Buffers : BeginWrite(h, buffer)
         \/ \E n \in Names : Stat(n)
         \/ \E n \in Names : BeginUnlink(n)
         \/ WalkToPosition \/ AdvanceWrite
         \/ WriteCluster \/ WriteClusterFails
         \/ EndUnlink
         \/ Restart \/ Crash
<1>1. \A n \in 1 .. MaxBuffer : n \in Nat
  BY SlotNumbers, SMT
<1>2. \A n \in 0 .. MaxExtent : n \in Nat
  BY SlotNumbers, SMT
<1> QED BY <1>1, <1>2, Zenon DEF Next, CallStep

LEMMA HandleNext == HandleInv /\ [Next]_fileVars => HandleInv'
<1> SUFFICES ASSUME HandleInv, [Next]_fileVars PROVE HandleInv'
  OBVIOUS
<1>1. CASE UNCHANGED fileVars
  BY <1>1 DEF fileVars, HandleInv, FileTypeOK, Writing, Unlinking, HandlesMean, NamesOnce,
              PairsClean, IsOpen, Sole, Dirty
<1>2. CASE Next
  <2>1. ASSUME NEW h \in Handles, NEW n \in Names, OpenFile(h, n) PROVE HandleInv'
    BY <2>1, OpenStep
  <2>2. ASSUME NEW h \in Handles, CloseFile(h) \/ SyncFile(h) PROVE HandleInv'
    BY <2>2, CloseStep
  <2>3. ASSUME NEW h \in Handles, TruncateFile(h) PROVE HandleInv'
    BY <2>3, TruncateStep
  <2>4. ASSUME NEW h \in Handles, NEW n \in Nat, ReadFile(h, n) \/ Seek(h, n) PROVE HandleInv'
    BY <2>4, ReadStep, SeekStep
  <2>5. ASSUME NEW h \in Handles, NEW n \in Nat, NEW k \in 0 .. n, Forward(h, n, k)
        PROVE  HandleInv'
    BY <2>5, ForwardStep
  <2>6. ASSUME NEW h \in Handles, NEW n \in Nat, Expand(h, n) PROVE HandleInv'
    BY <2>6, ExpandStep
  <2>7. ASSUME NEW h \in Handles, NEW buffer \in Buffers, BeginWrite(h, buffer)
        PROVE  HandleInv'
    BY <2>7, BeginWriteStep
  <2>8. ASSUME NEW n \in Names, Stat(n) PROVE HandleInv'
    BY <2>8, StayStep DEF Stat, Ready, NoFault
  <2>9. ASSUME NEW n \in Names, BeginUnlink(n) PROVE HandleInv'
    BY <2>9, BeginUnlinkStep
  <2>10. CASE WalkToPosition \/ AdvanceWrite
    BY <2>10, WalkStep
  <2>11. CASE WriteCluster \/ WriteClusterFails
    BY <2>11, WriteClusterStep
  <2>12. CASE EndUnlink
    BY <2>12, EndUnlinkStep
  <2>13. CASE Restart \/ Crash
    <3>1. Reboot /\ (crashes' = crashes \/ (crashes < MaxCrashes /\ crashes' = crashes + 1))
      BY <2>13 DEF Restart, Crash
    <3>2. crashes' \in 0 .. MaxCrashes
      BY <3>1, Types, FileAssumption, SMT
    <3> QED BY <3>1, <3>2, RebootStep
  <2>14. Next
    BY <1>2
  <2> QED
    BY <2>1, <2>2, <2>3, <2>4, <2>5, <2>6, <2>7, <2>8, <2>9, <2>10, <2>11, <2>12, <2>13,
       <2>14, NextCases, Zenon
<1> QED BY <1>1, <1>2

LEMMA HandleAlways == FileSpec => []HandleInv
<1>1. Init => HandleInv
  BY HandleInit
<1>2. HandleInv /\ [Next]_fileVars => HandleInv'
  BY HandleNext
<1> QED BY <1>1, <1>2, PTL DEF FileSpec

\* The types of all that the file calls of file_manager.c keep on disk and in
\* memory: no position passes its file's size, no size the volume.
THEOREM FileTypeCorrect == FileSpec => []FileTypeOK
<1>1. HandleInv => FileTypeOK
  BY DEF HandleInv
<1> QED BY <1>1, HandleAlways, PTL

-----------------------------------------------------------------------------
(* What the program sees of a file, and whose chain is whose.              *)

\* All handles of a file and, if it has none, its entry name one first cluster.
LEMMA OwnsOnce ==
  ASSUME HandleInv, NEW s \in Slot, NEW c, NEW d, Owns(s, c), Owns(s, d)
  PROVE  c = d
<1>1. \A g, h \in Handles :
        files[g].slot = s /\ files[h].slot = s => files[g].first = files[h].first
  <2> SUFFICES ASSUME NEW g \in Handles, NEW h \in Handles, files[g].slot = s, files[h].slot = s,
                      g # h
               PROVE  files[g].first = files[h].first
    OBVIOUS
  <2>1. IsOpen(g) /\ IsOpen(h) /\ PairsClean
    BY Types, SlotNumbers DEF IsOpen, HandlesOK
  <2>2. ~Dirty(g) /\ ~Dirty(h)
    BY <2>1 DEF PairsClean
  <2> QED BY <2>2 DEF Dirty
<1> QED BY <1>1 DEF Owns

LEMMA OwnerType ==
  ASSUME HandleInv, NEW s \in Slot, NEW c, Owns(s, c)
  PROVE  c \in Cluster \cup {0} /\ c \in Entry
BY Types, TableNumbers DEF Owns, HandlesOK, HandleType

LEMMA ViewOwns ==
  ASSUME HandleInv, NEW n \in Names, Exists(n)
  PROVE  /\ SlotOf(n) \in Slot /\ Live(SlotOf(n)) /\ slots[SlotOf(n)].name = n
         /\ Owns(SlotOf(n), View(n).first)
<1> DEFINE s == SlotOf(n)
           H == {h \in Handles : IsOpen(h) /\ slots[files[h].slot].name = n}
<1>1. s \in Slot /\ slots[s].name = n /\ n # NoName /\ s # call.slot
  BY SlotOfFacts, FileAssumption DEF Exists
<1>2. Live(s)
  BY <1>1 DEF Live
<1>3. \A h \in Handles : IsOpen(h) => files[h].slot \in Slot
  BY Types DEF IsOpen, HandleType
<1>4. NamesOnce
  BY DEF HandleInv
<1> HIDE DEF s
<1>5. CASE H # {}
  <2> DEFINE g == CHOOSE h \in Handles : IsOpen(h) /\ slots[files[h].slot].name = n
  <2>1. g \in Handles /\ IsOpen(g) /\ slots[files[g].slot].name = n
    BY <1>5
  <2>2. View(n) = files[g]
    BY <1>5, SMTT(30) DEF View
  <2>3. files[g].slot = s
    BY <1>1, <1>3, <1>4, <2>1 DEF NamesOnce
  <2> HIDE DEF g
  <2>4. Owns(s, View(n).first)
    BY <2>1, <2>2, <2>3 DEF Owns
  <2> QED BY <1>1, <1>2, <2>4 DEF s
<1>6. CASE H = {}
  <2>1. View(n) = slots[s]
    BY <1>6 DEF View, s
  <2>2. \A h \in Handles : files[h].slot # s
    BY <1>1, <1>6, SlotNumbers DEF IsOpen
  <2>3. Owns(s, View(n).first)
    BY <2>1, <2>2 DEF Owns
  <2> QED BY <1>1, <1>2, <2>3 DEF s
<1> QED BY <1>5, <1>6

LEMMA OwnsView ==
  ASSUME HandleInv, NEW s \in Slot, NEW c, Live(s), Owns(s, c)
  PROVE  /\ slots[s].name \in Names /\ Exists(slots[s].name)
         /\ SlotOf(slots[s].name) = s /\ View(slots[s].name).first = c
<1> DEFINE n == slots[s].name
<1>1. n \in Names
  BY Types DEF HandlesOK, Live
<1>2. SlotOf(n) = s
  BY <1>1, SlotOfName DEF HandleInv
<1>3. Exists(n)
  BY <1>2, SlotNumbers DEF Live, Exists
<1> HIDE DEF n
<1>4. Owns(s, View(n).first)
  BY <1>1, <1>2, <1>3, ViewOwns
<1>5. View(n).first = c
  BY <1>4, OwnsOnce
<1> QED BY <1>1, <1>2, <1>3, <1>5 DEF n

\* The property is about names, the proof about slots.
LEMMA ApartIsDisjoint ==
  ASSUME HandleInv
  PROVE  Apart <=> FilesDisjoint
<1>1. ASSUME Apart, NEW m \in Names, NEW n \in Names
      PROVE  /\ \A c \in ClustersOf(m) : c \in 3 .. TotalClusters /\ fat[c] # FREE
             /\ m # n => ClustersOf(m) \cap ClustersOf(n) = {}
  <2>1. CASE ~Exists(m)
    BY <2>1 DEF ClustersOf
  <2>2. CASE Exists(m) /\ ~Exists(n)
    <3>1. \A c \in ClustersOf(m) : c \in 3 .. TotalClusters /\ fat[c] # FREE
      BY <1>1, <2>2, ViewOwns, OwnerType DEF ClustersOf, Apart
    <3> QED BY <2>2, <3>1 DEF ClustersOf
  <2>3. CASE Exists(m) /\ Exists(n)
    <3> DEFINE s == SlotOf(m)
               t == SlotOf(n)
               c == View(m).first
               d == View(n).first
    <3>1. /\ s \in Slot /\ Live(s) /\ Owns(s, c) /\ slots[s].name = m
          /\ t \in Slot /\ Live(t) /\ Owns(t, d) /\ slots[t].name = n
      BY <2>3, ViewOwns
    <3>2. ClustersOf(m) = OnChainIn(fat, c) /\ ClustersOf(n) = OnChainIn(fat, d)
      BY <2>3 DEF ClustersOf
    <3> HIDE DEF s, t, c, d
    <3>3. c \in Cluster \cup {0} /\ d \in Cluster \cup {0}
      BY <3>1, OwnerType
    <3> QED BY <1>1, <3>1, <3>2, <3>3 DEF Apart
  <2> QED BY <2>1, <2>2, <2>3
<1>2. ASSUME FilesDisjoint, NEW s \in Slot, NEW t \in Slot, NEW c \in Cluster \cup {0},
             NEW d \in Cluster \cup {0}, Live(s), Owns(s, c)
      PROVE  /\ \A x \in OnChainIn(fat, c) : x \in 3 .. TotalClusters /\ fat[x] # FREE
             /\ s # t /\ Live(t) /\ Owns(t, d) => OnChainIn(fat, c) \cap OnChainIn(fat, d) = {}
  <2> DEFINE m == slots[s].name
             n == slots[t].name
  <2>1. m \in Names /\ Exists(m) /\ SlotOf(m) = s /\ View(m).first = c
    BY <1>2, OwnsView
  <2>2. ASSUME s # t, Live(t), Owns(t, d)
        PROVE  /\ n \in Names /\ Exists(n) /\ SlotOf(n) = t /\ View(n).first = d
               /\ m # n
    BY <2>1, <2>2, OwnsView
  <2> HIDE DEF m, n
  <2>3. ClustersOf(m) = OnChainIn(fat, c)
    BY <2>1 DEF ClustersOf
  <2>4. \A x \in OnChainIn(fat, c) : x \in 3 .. TotalClusters /\ fat[x] # FREE
    BY <1>2, <2>1, <2>3 DEF FilesDisjoint
  <2>5. ASSUME s # t, Live(t), Owns(t, d) PROVE OnChainIn(fat, c) \cap OnChainIn(fat, d) = {}
    <3>1. n \in Names /\ m # n /\ ClustersOf(n) = OnChainIn(fat, d)
      BY <2>2, <2>5 DEF ClustersOf
    <3> QED BY <1>2, <2>1, <2>3, <3>1 DEF FilesDisjoint
  <2> QED BY <2>4, <2>5
<1>3. Apart => FilesDisjoint
  BY <1>1 DEF FilesDisjoint
<1>4. FilesDisjoint => Apart
  BY <1>2 DEF Apart
<1> QED BY <1>3, <1>4

-----------------------------------------------------------------------------
(* How a change of the FAT or of an owner keeps the chains apart.          *)

\* What is true of a volume that nothing has damaged: the root directory's
\* cluster is never handed out either, and no chain runs in a circle.
FilesApart == Apart /\ Acyclic(fat) /\ fat[2] # FREE

\* The clusters of one file may gain some that were free.
LEMMA ApartFrom ==
  ASSUME Apart, NEW gained, \A x \in gained : x \in 3 .. TotalClusters /\ fat[x] = FREE,
         NEW owner,
         \A s \in Slot, c \in Cluster \cup {0} : (Live(s) /\ Owns(s, c))' =>
           /\ \A x \in OnChainIn(fat', c) : fat'[x] # FREE
           /\ \A x \in OnChainIn(fat', c) :
                \/ s = owner /\ x \in gained
                \/ \E d \in Cluster \cup {0} : Live(s) /\ Owns(s, d) /\ x \in OnChainIn(fat, d)
  PROVE  Apart'
<1> SUFFICES ASSUME NEW s \in Slot, NEW t \in Slot, NEW c \in Cluster \cup {0},
                    NEW d \in Cluster \cup {0}, (Live(s) /\ Owns(s, c))'
             PROVE  /\ \A x \in OnChainIn(fat', c) : x \in 3 .. TotalClusters /\ fat'[x] # FREE
                    /\ (s # t /\ (Live(t) /\ Owns(t, d))') =>
                         OnChainIn(fat', c) \cap OnChainIn(fat', d) = {}
  BY ZenonT(30) DEF Apart
<1>1. ASSUME NEW x \in OnChainIn(fat', c) PROVE x \in 3 .. TotalClusters /\ fat'[x] # FREE
  BY <1>1 DEF Apart
<1>2. ASSUME s # t, (Live(t) /\ Owns(t, d))', NEW x, x \in OnChainIn(fat', c),
             x \in OnChainIn(fat', d)
      PROVE  FALSE
  <2>1. \/ s = owner /\ x \in gained
        \/ \E e \in Cluster \cup {0} : Live(s) /\ Owns(s, e) /\ x \in OnChainIn(fat, e)
    BY <1>2
  <2>2. \/ t = owner /\ x \in gained
        \/ \E e \in Cluster \cup {0} : Live(t) /\ Owns(t, e) /\ x \in OnChainIn(fat, e)
    BY <1>2
  <2>3. \A u \in Slot, e \in Cluster \cup {0} :
          Live(u) /\ Owns(u, e) /\ x \in OnChainIn(fat, e) => x \notin gained
    BY DEF Apart
  <2>4. CASE x \in gained
    BY <1>2, <2>1, <2>2, <2>3, <2>4
  <2>5. CASE x \notin gained
    BY <1>2, <2>1, <2>2, <2>5 DEF Apart
  <2> QED BY <2>4, <2>5
<1> QED BY <1>1, <1>2

LEMMA ApartWithin ==
  ASSUME Apart,
         \A s \in Slot, c \in Cluster \cup {0} : (Live(s) /\ Owns(s, c))' =>
           /\ \A x \in OnChainIn(fat', c) : fat'[x] # FREE
           /\ \A x \in OnChainIn(fat', c) :
                \E d \in Cluster \cup {0} : Live(s) /\ Owns(s, d) /\ x \in OnChainIn(fat, d)
  PROVE  Apart'
<1> DEFINE None == {}
<1>1. \A x \in None : x \in 3 .. TotalClusters /\ fat[x] = FREE
  OBVIOUS
<1>2. \A s \in Slot, c \in Cluster \cup {0} : (Live(s) /\ Owns(s, c))' =>
        /\ \A x \in OnChainIn(fat', c) : fat'[x] # FREE
        /\ \A x \in OnChainIn(fat', c) :
             \/ s = 0 /\ x \in None
             \/ \E d \in Cluster \cup {0} : Live(s) /\ Owns(s, d) /\ x \in OnChainIn(fat, d)
  OBVIOUS
<1> HIDE DEF None
<1> QED BY <1>1, <1>2, ApartFrom

\* Owners who owned before, in a FAT that has not changed.
LEMMA SameFat ==
  ASSUME FilesApart, UNCHANGED fat,
         \A s \in Slot, c \in Cluster \cup {0} : (Live(s) /\ Owns(s, c))' =>
           OnChainIn(fat, c) = {} \/ (Live(s) /\ Owns(s, c))
  PROVE  FilesApart'
<1>1. Apart
  BY DEF FilesApart
<1>2. \A s \in Slot, c \in Cluster \cup {0} : (Live(s) /\ Owns(s, c))' =>
        /\ \A x \in OnChainIn(fat', c) : fat'[x] # FREE
        /\ \A x \in OnChainIn(fat', c) :
             \E d \in Cluster \cup {0} : Live(s) /\ Owns(s, d) /\ x \in OnChainIn(fat, d)
  <2> SUFFICES ASSUME NEW s \in Slot, NEW c \in Cluster \cup {0}, (Live(s) /\ Owns(s, c))',
                      NEW x \in OnChainIn(fat, c)
               PROVE  /\ fat[x] # FREE
                      /\ \E d \in Cluster \cup {0} :
                           Live(s) /\ Owns(s, d) /\ x \in OnChainIn(fat, d)
    OBVIOUS
  <2>1. Live(s) /\ Owns(s, c)
    OBVIOUS
  <2> QED BY <1>1, <2>1 DEF Apart
<1>3. Apart'
  BY <1>1, <1>2, ApartWithin
<1> QED BY <1>3 DEF FilesApart, Acyclic, IsTable, WalkEnds

\* Handles that stay on their slots with their first clusters, and entries that
\* stay, own the same.
LEMMA SameOwners ==
  ASSUME \A h \in Handles : files'[h].slot = files[h].slot /\ files'[h].first = files[h].first,
         UNCHANGED slots, call'.slot = call.slot,
         NEW s, NEW c, (Live(s) /\ Owns(s, c))'
  PROVE  Live(s) /\ Owns(s, c)
BY DEF Live, Owns

LEMMA ChainNotFree ==
  ASSUME FilesApart, NEW s \in Slot, NEW c \in Cluster \cup {0}, Live(s), Owns(s, c)
  PROVE  /\ \A x \in OnChainIn(fat, c) : x \in 3 .. TotalClusters /\ fat[x] # FREE
                                        /\ x \in FatIndex /\ x # 0
         /\ \A t \in Slot, d \in Cluster \cup {0} : t # s /\ Live(t) /\ Owns(t, d) =>
              OnChainIn(fat, c) \cap OnChainIn(fat, d) = {}
<1>1. \A x \in 3 .. TotalClusters : x \in FatIndex /\ x # 0
  BY TableNumbers, SMT DEF FatIndex
<1> QED BY <1>1 DEF FilesApart, Apart

\* The walk of a file over entries that have not changed.
LEMMA OwnWalkKept ==
  ASSUME FilesApart, IsTable(fat)', NEW c \in Cluster \cup {0},
         \A x \in OnChainIn(fat, c) : fat'[x] = fat[x]
  PROVE  ChainIn(fat', c) = ChainIn(fat, c) /\ OnChainIn(fat', c) = OnChainIn(fat, c)
<1>1. CASE c \in Cluster
  <2>1. WalkEnds(fat, c)
    BY <1>1 DEF FilesApart, Acyclic
  <2>2. IsTable(fat')
    BY DEF IsTable
  <2> QED BY <2>1, <2>2, WalkKept
<1>2. CASE c = 0
  <2>1. ChainIn(fat, c) = <<>> /\ ChainIn(fat', c) = <<>>
    BY <1>2, TableNumbers, NoChain
  <2> QED BY <2>1 DEF OnChainIn
<1> QED BY <1>1, <1>2

LEMMA NoClusters ==
  ASSUME NEW f
  PROVE  OnChainIn(f, 0) = {}
<1>1. ChainIn(f, 0) = <<>>
  BY TableNumbers, NoChain
<1> QED BY <1>1 DEF OnChainIn

\* Clusters that f_write or f_expand took from the free ones: not the root's.
LEMMA TakenClusters ==
  ASSUME FilesApart, hint \in Cluster, NEW n, NEW T, T = Taken(fat, hint, n)
  PROVE  /\ \A x \in T : x \in 3 .. TotalClusters /\ fat[x] = FREE /\ x \in FatIndex
         /\ 2 \notin T /\ T \subseteq Cluster
<1>1. T \subseteq Cluster /\ \A x \in T : fat[x] = FREE /\ x <= TotalClusters
  BY TakenFacts
<1>2. 2 \notin T
  BY <1>1 DEF FilesApart
<1>3. \A x \in Cluster : x # 2 /\ x <= TotalClusters => x \in 3 .. TotalClusters /\ x \in FatIndex
  BY TableNumbers, SMT DEF Cluster, FatIndex
<1> QED BY <1>1, <1>2, <1>3

\* A walk among new clusters, linked to each other only.
LEMMA WalkInTaken ==
  ASSUME NEW f, NEW c, WalkEnds(f, c), NEW T, c \in T, \A x \in T : f[x] \in Cluster => f[x] \in T
  PROVE  OnChainIn(f, c) \subseteq T
BY WalkWithin

\* New clusters are linked to each other, and perhaps to the end of one chain.
LEMMA GrownApart ==
  ASSUME FilesApart, Acyclic(fat)', hint \in Cluster,
         NEW n, NEW T, T = Taken(fat, hint, n), NEW d \in Cluster \cup {0},
         \A x \in FatIndex : x \notin T /\ x # d => fat'[x] = fat[x],
         \A x \in T : fat'[x] # FREE /\ (fat'[x] \in Cluster => fat'[x] \in T),
         d \notin T, d # 0 => fat'[d] = fat[d] \/ fat'[d] \in T,
         NEW s0 \in Slot,
         \A s \in Slot, c \in Cluster \cup {0} : (Live(s) /\ Owns(s, c))' =>
           \/ Live(s) /\ Owns(s, c) /\ (d \in OnChainIn(fat, c) => s = s0)
           \/ s = s0 /\ c \in T
  PROVE  FilesApart'
<1>1. /\ \A x \in T : x \in 3 .. TotalClusters /\ fat[x] = FREE /\ x \in FatIndex
      /\ 2 \notin T /\ T \subseteq Cluster
  BY TakenClusters
<1>2. Apart /\ Acyclic(fat) /\ IsTable(fat) /\ IsTable(fat') /\ Acyclic(fat')
  BY DEF FilesApart, Acyclic, IsTable, WalkEnds
<1>3. \A c \in T : OnChainIn(fat', c) \subseteq T
  <2> SUFFICES ASSUME NEW c \in T PROVE OnChainIn(fat', c) \subseteq T
    OBVIOUS
  <2>1. WalkEnds(fat', c)
    BY <1>1, <1>2 DEF Acyclic
  <2> QED BY <2>1, WalkInTaken
<1>4. ASSUME NEW s \in Slot, NEW c \in Cluster \cup {0}, Live(s), Owns(s, c)
      PROVE  /\ OnChainIn(fat', c) \subseteq OnChainIn(fat, c) \cup T
             /\ d \notin OnChainIn(fat, c) => OnChainIn(fat', c) = OnChainIn(fat, c)
             /\ \A x \in OnChainIn(fat, c) : fat'[x] # FREE
  <2> DEFINE S == OnChainIn(fat, c)
             X == S \cup T
  <2>1. \A x \in S : x \in FatIndex /\ fat[x] # FREE /\ x \notin T /\ x # 0
    BY <1>1, <1>4, ChainNotFree
  <2>2. \A x \in S : x # d => fat'[x] = fat[x]
    BY <2>1
  <2>3. \A x \in S : fat'[x] # FREE
    BY <1>1, <2>1, <2>2, TableNumbers
  <2>4. d \notin S => OnChainIn(fat', c) = S
    <3>1. IsTable(fat)'
      BY <1>2 DEF IsTable
    <3> QED BY <2>2, <3>1, OwnWalkKept
  <2>5. OnChainIn(fat', c) \subseteq X
    <3>1. CASE c = 0
      BY <3>1, NoClusters
    <3>2. CASE c \in Cluster
      <4>1. WalkEnds(fat, c) /\ WalkEnds(fat', c)
        BY <1>2, <3>2 DEF Acyclic
      <4>2. c \in X
        BY <4>1, OnWalk
      <4>3. \A x \in X : x \in Cluster /\ fat'[x] \in Cluster => fat'[x] \in X
        <5> SUFFICES ASSUME NEW x \in X, fat'[x] \in Cluster PROVE fat'[x] \in X
          OBVIOUS
        <5>1. CASE x \in T
          BY <5>1
        <5>2. CASE x \in S /\ fat'[x] = fat[x]
          <6>1. fat[x] \in S
            BY <4>1, <5>2, WalkGoesOn
          <6> QED BY <5>2, <6>1
        <5>3. CASE x \in S /\ fat'[x] # fat[x]
          <6>1. x = d
            BY <2>2, <5>3
          <6>2. fat'[x] \in T
            BY <2>1, <5>3, <6>1
          <6> QED BY <6>2
        <5> QED BY <5>1, <5>2, <5>3
      <4> HIDE DEF X
      <4> QED BY <4>1, <4>2, <4>3, WalkWithin
    <3> QED BY <3>1, <3>2
  <2> QED BY <2>3, <2>4, <2>5
<1>5. \A s \in Slot, c \in Cluster \cup {0} : (Live(s) /\ Owns(s, c))' =>
        /\ \A x \in OnChainIn(fat', c) : fat'[x] # FREE
        /\ \A x \in OnChainIn(fat', c) :
             \/ s = s0 /\ x \in T
             \/ \E e \in Cluster \cup {0} : Live(s) /\ Owns(s, e) /\ x \in OnChainIn(fat, e)
  <2> SUFFICES ASSUME NEW s \in Slot, NEW c \in Cluster \cup {0}, (Live(s) /\ Owns(s, c))',
                      NEW x \in OnChainIn(fat', c)
               PROVE  /\ fat'[x] # FREE
                      /\ \/ s = s0 /\ x \in T
                         \/ \E e \in Cluster \cup {0} :
                              Live(s) /\ Owns(s, e) /\ x \in OnChainIn(fat, e)
    OBVIOUS
  <2>1. CASE s = s0 /\ c \in T
    BY <1>3, <2>1
  <2>2. CASE Live(s) /\ Owns(s, c) /\ (d \in OnChainIn(fat, c) => s = s0)
    <3>1. x \in OnChainIn(fat, c) \/ (x \in T /\ d \in OnChainIn(fat, c))
      BY <1>4, <2>2
    <3> QED BY <1>4, <2>2, <3>1
  <2> QED BY <2>1, <2>2
<1>8. \A x \in T : x \in 3 .. TotalClusters /\ fat[x] = FREE
  BY <1>1
<1>6. Apart'
  BY ONLY <1>2, <1>5, <1>8, ApartFrom
<1>7. fat'[2] # FREE
  <2>1. 2 \in FatIndex
    BY TableNumbers, SMT DEF FatIndex
  <2> QED BY <1>1, <2>1, TableNumbers DEF FilesApart
<1> QED BY <1>6, <1>7 DEF FilesApart

\* A FAT in which only clusters of one file have changed, its chain has become a
\* part of what it was, or the file is gone.
LEMMA ShrunkApart ==
  ASSUME FilesApart, Acyclic(fat)', NEW s0 \in Slot, NEW c0 \in Cluster \cup {0},
         Live(s0), Owns(s0, c0),
         \A x \in FatIndex : x \notin OnChainIn(fat, c0) => fat'[x] = fat[x],
         \A s \in Slot, c \in Cluster \cup {0} : (Live(s) /\ Owns(s, c))' =>
           \/ s # s0 /\ Live(s) /\ Owns(s, c)
           \/ /\ s = s0 /\ OnChainIn(fat', c) \subseteq OnChainIn(fat, c0)
              /\ \A x \in OnChainIn(fat', c) : fat'[x] # FREE
  PROVE  FilesApart'
<1>1. Apart /\ IsTable(fat')
  BY DEF FilesApart, Acyclic, IsTable, WalkEnds
<1>2. ASSUME NEW s \in Slot, NEW c \in Cluster \cup {0}, s # s0, Live(s), Owns(s, c)
      PROVE  /\ OnChainIn(fat', c) = OnChainIn(fat, c)
             /\ \A x \in OnChainIn(fat, c) : fat'[x] # FREE
  <2>1. \A x \in OnChainIn(fat, c) : fat[x] # FREE /\ x \in FatIndex /\ x \notin OnChainIn(fat, c0)
    BY <1>2, ChainNotFree
  <2>2. \A x \in OnChainIn(fat, c) : fat'[x] = fat[x]
    BY <2>1
  <2>3. IsTable(fat)'
    BY <1>1 DEF IsTable
  <2> QED BY <2>1, <2>2, <2>3, OwnWalkKept
<1>3. \A s \in Slot, c \in Cluster \cup {0} : (Live(s) /\ Owns(s, c))' =>
        /\ \A x \in OnChainIn(fat', c) : fat'[x] # FREE
        /\ \A x \in OnChainIn(fat', c) :
             \E e \in Cluster \cup {0} : Live(s) /\ Owns(s, e) /\ x \in OnChainIn(fat, e)
  <2> SUFFICES ASSUME NEW s \in Slot, NEW c \in Cluster \cup {0}, (Live(s) /\ Owns(s, c))',
                      NEW x \in OnChainIn(fat', c)
               PROVE  /\ fat'[x] # FREE
                      /\ \E e \in Cluster \cup {0} :
                           Live(s) /\ Owns(s, e) /\ x \in OnChainIn(fat, e)
    OBVIOUS
  <2>1. CASE s # s0 /\ Live(s) /\ Owns(s, c)
    BY <1>2, <2>1
  <2>2. CASE /\ s = s0 /\ OnChainIn(fat', c) \subseteq OnChainIn(fat, c0)
             /\ \A y \in OnChainIn(fat', c) : fat'[y] # FREE
    BY <2>2
  <2> QED BY <2>1, <2>2
<1>4. Apart'
  BY <1>1, <1>3, ApartWithin
<1>5. fat'[2] # FREE
  <2>1. 2 \in FatIndex /\ 2 \notin 3 .. TotalClusters
    BY TableNumbers, SMT DEF FatIndex
  <2>2. 2 \notin OnChainIn(fat, c0)
    BY <2>1, ChainNotFree
  <2> QED BY <2>1, <2>2 DEF FilesApart
<1> QED BY <1>4, <1>5 DEF FilesApart

-----------------------------------------------------------------------------
(* Every call keeps the chains of the files apart.                         *)

\* Steps of the calls that change no chain and no first cluster.
LEMMA QuietApart ==
  ASSUME FilesApart, UNCHANGED <<fat, slots>>, call'.slot = call.slot,
         \A h \in Handles : files'[h].slot = files[h].slot /\ files'[h].first = files[h].first
  PROVE  FilesApart'
<1>1. \A s \in Slot, c \in Cluster \cup {0} : (Live(s) /\ Owns(s, c))' =>
        OnChainIn(fat, c) = {} \/ (Live(s) /\ Owns(s, c))
  BY SameOwners
<1> QED BY ONLY <1>1, FilesApart, UNCHANGED <<fat, slots>>, SameFat

LEMMA OpenApart ==
  ASSUME HandleInv, FilesApart, NEW h \in Handles, NEW n \in Names, OpenFile(h, n)
  PROVE  FilesApart'
<1> DEFINE s == IF SlotOf(n) # 0 THEN SlotOf(n)
                ELSE Least({t \in Slot : slots[t].name = NoName})
           entry == IF SlotOf(n) # 0 THEN slots[s] ELSE [FreeSlot EXCEPT !.name = n]
           r == [slot |-> s, first |-> entry.first, pos |-> 0, size |-> entry.size]
<1>1. /\ ~IsOpen(h) /\ call.op = "none"
      /\ \A g \in Handles : IsOpen(g) /\ files[g].slot = SlotOf(n) => ~Dirty(g)
      /\ slots' = [slots EXCEPT ![s] = entry] /\ files' = [files EXCEPT ![h] = r]
      /\ UNCHANGED <<fat, call>>
  BY DEF OpenFile, Ready
<1>2. HandlesOK /\ HandlesMean /\ NamesOnce /\ FileTypeOK
  BY HandlesAre DEF HandleInv
<1>3. /\ s \in Slot
      /\ SlotOf(n) # 0 => s = SlotOf(n) /\ entry = slots[s] /\ slots[s].name = n
      /\ SlotOf(n) = 0 => entry.first = 0 /\ slots[s].name = NoName
  <2>1. CASE SlotOf(n) # 0
    BY <2>1, SlotOfFacts
  <2>2. CASE SlotOf(n) = 0
    BY <1>2, <2>2, FreeSlotFound DEF FreeSlot
  <2> QED BY <2>1, <2>2
<1>4. r.slot = s /\ r.first = entry.first
  OBVIOUS
<1> HIDE DEF s, entry, r
<1>5. /\ slots'[s] = entry /\ \A t \in Slot : t # s => slots'[t] = slots[t]
      /\ files'[h] = r /\ \A g \in Handles : g # h => files'[g] = files[g]
  BY <1>1, <1>2, <1>3 DEF HandlesOK
<1>6. \A g \in Handles : files[g].slot = s => SlotOf(n) # 0 /\ IsOpen(g) /\ g # h
  BY <1>1, <1>2, <1>3, SlotNumbers DEF HandlesMean, IsOpen
<1>7. \A g \in Handles : files[g].slot = s => files[g].first = slots[s].first
  BY <1>1, <1>3, <1>6 DEF Dirty
<1>8. ASSUME NEW t \in Slot, NEW c \in Cluster \cup {0}, (Live(t) /\ Owns(t, c))'
      PROVE  OnChainIn(fat, c) = {} \/ (Live(t) /\ Owns(t, c))
  <2>1. CASE t # s
    <3>1. Live(t)
      BY <1>1, <1>5, <1>8, <2>1 DEF Live
    <3>2. Owns(t, c)
      <4>1. \A g \in Handles : files'[g].slot = t => files'[g] = files[g]
        BY <1>4, <1>5, <2>1
      <4>2. \A g \in Handles : files[g].slot = t => files'[g] = files[g]
        BY <1>1, <1>5, SlotNumbers DEF IsOpen
      <4> QED BY <1>5, <1>8, <2>1, <4>1, <4>2 DEF Owns
    <3> QED BY <3>1, <3>2
  <2>2. CASE t = s /\ SlotOf(n) = 0
    <3>1. \A g \in Handles : files'[g].slot = s => g = h
      BY <1>5, <1>6, <2>2
    <3>2. c = 0
      BY <1>3, <1>4, <1>5, <1>8, <2>2, <3>1 DEF Owns
    <3> QED BY <3>2, NoClusters
  <2>3. CASE t = s /\ SlotOf(n) # 0
    <3>1. slots[s].name # NoName /\ Live(t)
      BY <1>1, <1>3, <1>5, <1>8, <2>3 DEF Live
    <3>2. c = slots[s].first
      BY <1>3, <1>4, <1>5, <1>7, <1>8, <2>3 DEF Owns
    <3>3. Owns(t, c)
      BY <1>7, <2>3, <3>2 DEF Owns
    <3> QED BY <3>1, <3>3
  <2> QED BY <2>1, <2>2, <2>3
<1>9. UNCHANGED fat
  BY <1>1
<1> QED BY ONLY <1>8, <1>9, FilesApart, SameFat

LEMMA CloseApart ==
  ASSUME HandleInv, FilesApart, NEW h \in Handles, CloseFile(h) \/ SyncFile(h)
  PROVE  FilesApart'
<1>1. /\ IsOpen(h) /\ UNCHANGED <<fat, call>>
      /\ \/ UpdateEntry(h) /\ (files' = files \/ files' = [files EXCEPT ![h] = ClosedFile])
         \/ UNCHANGED <<slots, files>>
  BY Zenon DEF CloseFile, SyncFile, EntryFails, Ready
<1>2. HandlesOK /\ files \in [Handles -> HandleType]
  BY HandlesAre DEF HandlesOK
<1>3. CASE UNCHANGED <<slots, files>>
  BY <1>1, <1>3, QuietApart
<1>4. ASSUME UpdateEntry(h), files' = files \/ files' = [files EXCEPT ![h] = ClosedFile]
      PROVE  FilesApart'
  <2> DEFINE s == files[h].slot
  <2>1. /\ \A t \in Slot : slots'[t].name = slots[t].name
        /\ slots'[s].first = files[h].first
        /\ \A t \in Slot : t # s => slots'[t] = slots[t]
    BY <1>1, <1>2, <1>4, UpdateStep
  <2>2. ClosedFile.slot = 0
    BY DEF ClosedFile
  <2>3. /\ \A g \in Handles : g # h => files'[g] = files[g]
        /\ files'[h] = files[h] \/ files'[h] = ClosedFile
    BY <1>2, <1>4
  <2> HIDE DEF s
  <2>4. ASSUME NEW t \in Slot, NEW c \in Cluster \cup {0}, (Live(t) /\ Owns(t, c))'
        PROVE  OnChainIn(fat, c) = {} \/ (Live(t) /\ Owns(t, c))
    <3>1. Live(t)
      BY <1>1, <2>1, <2>4 DEF Live
    <3>2. CASE \E g \in Handles : files'[g].slot = t /\ files'[g].first = c
      BY <2>2, <2>3, <3>1, <3>2, SlotNumbers DEF Owns
    <3>3. CASE (\A g \in Handles : files'[g].slot # t) /\ slots'[t].first = c
      <4>1. CASE t = s
        BY <2>1, <3>1, <3>3, <4>1 DEF Owns, s
      <4>2. CASE t # s
        BY <2>1, <2>3, <3>1, <3>3, <4>2 DEF Owns, s
      <4> QED BY <4>1, <4>2
    <3> QED BY <2>4, <3>2, <3>3 DEF Owns
  <2>5. UNCHANGED fat
    BY <1>1
  <2> QED BY ONLY <2>4, <2>5, FilesApart, SameFat
<1> QED BY <1>1, <1>3, <1>4

LEMMA MoveApart ==
  ASSUME HandleInv, FilesApart, UNCHANGED <<fat, slots, call>>,
         files' = files \/ \E h \in Handles, p \in Nat : files' = [files EXCEPT ![h].pos = p]
  PROVE  FilesApart'
<1>1. files \in [Handles -> HandleType]
  BY Types
<1>2. \A h \in Handles : files'[h].slot = files[h].slot /\ files'[h].first = files[h].first
  <2>1. ASSUME NEW h \in Handles, NEW p \in Nat, files' = [files EXCEPT ![h].pos = p],
               NEW g \in Handles
        PROVE  files'[g].slot = files[g].slot /\ files'[g].first = files[g].first
    BY <1>1, <2>1 DEF HandleType
  <2> QED BY <2>1
<1> QED BY <1>2, QuietApart

\* f_read, f_forward, f_lseek and f_stat.
LEMMA ReadMoves ==
  ASSUME HandleInv,
         \/ \E h \in Handles, n \in Nat : ReadFile(h, n) \/ Seek(h, n)
         \/ \E h \in Handles, n \in Nat : \E k \in 0 .. n : Forward(h, n, k)
         \/ \E n \in Names : Stat(n)
  PROVE  /\ UNCHANGED <<fat, slots, call>> /\ call.op = "none"
         /\ files' = files \/ \E h \in Handles, p \in Nat : files' = [files EXCEPT ![h].pos = p]
<1>1. ASSUME NEW h \in Handles, NEW k \in Nat, NEW n, Deliver(h, k, n)
      PROVE  \E p \in Nat : files' = [files EXCEPT ![h].pos = p]
  <2> DEFINE p == files[h].pos + k
  <2>1. p \in Nat
    BY RoomType, SMT
  <2>2. files' = [files EXCEPT ![h].pos = p]
    BY <1>1 DEF Deliver
  <2> HIDE DEF p
  <2> QED BY <2>1, <2>2
<1>2. ASSUME NEW h \in Handles, NEW n \in Nat, ReadFile(h, n)
      PROVE  /\ UNCHANGED <<fat, slots, call>> /\ call.op = "none"
             /\ files' = files \/ \E p \in Nat : files' = [files EXCEPT ![h].pos = p]
  <2> DEFINE k == Available(h, n)
             room == Capacity(files[h].first)
             j == IF files[h].pos < room THEN room - files[h].pos ELSE 0
  <2>1. /\ UNCHANGED <<fat, slots, call>> /\ call.op = "none"
        /\ \/ Deliver(h, k, n) \/ UNCHANGED files \/ Deliver(h, j, k)
           \/ \E short \in 0 .. k : Deliver(h, short, n)
    BY <1>2, Zenon DEF ReadFile, PastChain, Ready
  <2>2. k \in Nat /\ j \in Nat /\ \A short \in 0 .. k : short \in Nat
    BY RoomType, AvailableFacts, SMT
  <2> HIDE DEF k, j
  <2> QED BY <1>1, <2>1, <2>2
<1>3. ASSUME NEW h \in Handles, NEW n \in Nat, NEW k \in 0 .. n, Forward(h, n, k)
      PROVE  /\ UNCHANGED <<fat, slots, call>> /\ call.op = "none"
             /\ \E p \in Nat : files' = [files EXCEPT ![h].pos = p]
  <2>1. UNCHANGED <<fat, slots, call>> /\ call.op = "none" /\ Deliver(h, k, k) /\ k \in Nat
    BY <1>3 DEF Forward, Ready
  <2> QED BY <1>1, <2>1
<1>4. ASSUME NEW h \in Handles, NEW n \in Nat, Seek(h, n)
      PROVE  /\ UNCHANGED <<fat, slots, call>> /\ call.op = "none"
             /\ \E p \in Nat : files' = [files EXCEPT ![h].pos = p]
  <2> DEFINE p == IF n > files[h].size THEN files[h].size ELSE n
  <2>1. p \in Nat
    BY RoomType
  <2>2. /\ UNCHANGED <<fat, slots, call>> /\ call.op = "none"
        /\ files' = [files EXCEPT ![h].pos = p]
    BY <1>4 DEF Seek, Ready
  <2> HIDE DEF p
  <2> QED BY <2>1, <2>2
<1>5. ASSUME NEW n \in Names, Stat(n)
      PROVE  UNCHANGED <<fat, slots, call>> /\ call.op = "none" /\ files' = files
  BY <1>5 DEF Stat, Ready
<1> QED BY <1>2, <1>3, <1>4, <1>5

LEMMA ReadApart ==
  ASSUME HandleInv, FilesApart,
         \/ \E h \in Handles, n \in Nat : ReadFile(h, n) \/ Seek(h, n)
         \/ \E h \in Handles, n \in Nat : \E k \in 0 .. n : Forward(h, n, k)
         \/ \E n \in Names : Stat(n)
  PROVE  FilesApart'
BY ReadMoves, MoveApart

LEMMA WriteClusterApart ==
  ASSUME HandleInv, FilesApart, WriteCluster \/ WriteClusterFails
  PROVE  FilesApart'
<1>1. /\ call.op = "write" /\ call.offset < ClusterSize /\ UNCHANGED <<fat, slots>>
      /\ \/ \E n \in {0, call.done + Chunk} : FinishWrite(n)
         \/ call' = [call EXCEPT !.op = "copy", !.done = @ + Chunk] /\ files' = files
         \/ EndCall /\ files' = files
  BY DEF WriteCluster, WriteClusterFails
<1>2. call.slot = 0
  BY <1>1, Types DEF Unlinking
<1>3. ASSUME NEW n \in {0, call.done + Chunk}, FinishWrite(n) PROVE FilesApart'
  <2>1. n \in Nat /\ n <= Len(call.buffer)
    BY <1>1, ChunkFacts, SMT
  <2>2. \A g \in Handles : files'[g].slot = files[g].slot /\ files'[g].first = files[g].first
    BY <1>1, <1>3, <2>1, FinishStep
  <2>3. call'.slot = call.slot
    BY <1>2, <1>3, NoCallFacts DEF FinishWrite
  <2> QED BY <1>1, <2>2, <2>3, QuietApart
<1>4. CASE call' = [call EXCEPT !.op = "copy", !.done = @ + Chunk] /\ files' = files
  <2>1. call'.slot = call.slot
    BY <1>4, Types DEF CallType
  <2> QED BY <1>1, <1>4, <2>1, QuietApart
<1>5. CASE EndCall /\ files' = files
  BY <1>1, <1>2, <1>5, NoCallFacts, QuietApart
<1> QED BY <1>1, <1>3, <1>4, <1>5

\* A sole handle whose first cluster changes: the others own what they owned.
LEMMA SoleOwner ==
  ASSUME HandleInv, NEW h \in Handles, IsOpen(h), Sole(h), UNCHANGED slots,
         \A g \in Handles : files'[g].slot = files[g].slot,
         \A g \in Handles : g # h => files'[g] = files[g],
         NEW s \in Slot, NEW c, Owns(s, c)'
  PROVE  /\ files[h].slot \in Slot /\ Owns(files[h].slot, files[h].first)
         /\ s # files[h].slot => Owns(s, c)
         /\ s = files[h].slot => c = files'[h].first
<1>1. files[h].slot \in Slot /\ Owns(files[h].slot, files[h].first)
  BY Types DEF Owns, IsOpen, HandleType
<1>2. ASSUME s # files[h].slot PROVE Owns(s, c)
  BY <1>2 DEF Owns
<1>3. ASSUME s = files[h].slot PROVE c = files'[h].first
  BY <1>3 DEF Owns, Sole
<1> QED BY <1>1, <1>2, <1>3

\* An open file is there, unless its unlinking has begun.
LEMMA OpenLive ==
  ASSUME HandleInv, NEW h \in Handles, IsOpen(h)
  PROVE  Live(files[h].slot)
<1>1. files[h].slot \in Slot /\ slots[files[h].slot].name # NoName
  BY Types DEF HandlesOK, HandlesMean, IsOpen, HandleType
<1>2. files[h].slot # call.slot
  BY <1>1, Types, SlotNumbers DEF Unlinking
<1> QED BY <1>1, <1>2 DEF Live

LEMMA BeginWriteApart ==
  ASSUME HandleInv, FilesApart, NEW h \in Handles, NEW buffer \in Buffers, BeginWrite(h, buffer)
  PROVE  FilesApart'
<1> DEFINE new == Allocate(fat, hint, 1)
           T == Taken(fat, hint, 1)
<1>1. /\ call.op = "none" /\ IsOpen(h) /\ Sole(h) /\ UNCHANGED slots
      /\ \/ UNCHANGED <<fat, files, call>>
         \/ /\ call' = [NoCall EXCEPT !.op = "write", !.handle = h,
                          !.cluster = IF files[h].first = 0 THEN new.first ELSE files[h].first,
                          !.offset = files[h].pos, !.buffer = buffer]
            /\ \/ /\ files[h].first # 0 /\ UNCHANGED fat
                  /\ files' = [files EXCEPT ![h].first = files[h].first]
               \/ /\ files[h].first = 0 /\ new.first # 0 /\ fat' = new.fat
                  /\ files' = [files EXCEPT ![h].first = new.first]
  BY DEF BeginWrite, Ready
<1>2. CASE UNCHANGED <<fat, files, call>>
  BY <1>1, <1>2, QuietApart
<1>3. ASSUME ~UNCHANGED <<fat, files, call>> PROVE call'.slot = call.slot
  BY <1>1, <1>3, Types, Zenon DEF NoCall, Unlinking
<1>4. files \in [Handles -> HandleType] /\ hint \in Cluster /\ IsTable(fat) /\ 1 \in Nat
  BY Types
<1>5. ASSUME call'.slot = call.slot, UNCHANGED fat,
             files' = [files EXCEPT ![h].first = files[h].first]
      PROVE  FilesApart'
  <2>1. files' = files
    BY <1>4, <1>5 DEF HandleType
  <2> QED BY <1>1, <1>5, <2>1, QuietApart
<1>6. ASSUME call'.slot = call.slot, files[h].first = 0, new.first # 0, fat' = new.fat,
             files' = [files EXCEPT ![h].first = new.first]
      PROVE  FilesApart'
  <2> DEFINE e == new.first
             s0 == files[h].slot
  <2>1. /\ e \in T /\ \A x \in FatIndex : x \notin T => fat'[x] = fat[x]
        /\ \A x \in T : fat'[x] = EndOfChain \/ fat'[x] \in T
    BY <1>4, <1>6, AllocateFacts
  <2>2. /\ \A x \in T : x \in 3 .. TotalClusters
        /\ 2 \notin T /\ T \subseteq Cluster
    BY <1>4, TakenClusters
  <2>3. \A x \in T : fat'[x] # FREE /\ (fat'[x] \in Cluster => fat'[x] \in T)
    BY <2>1, <2>2, TableNumbers
  <2>4. Acyclic(fat')
    BY <1>4, <1>6, AllocateAcyclic DEF FilesApart
  <2>5. /\ \A g \in Handles : files'[g].slot = files[g].slot
        /\ \A g \in Handles : g # h => files'[g] = files[g]
        /\ files'[h].first = e
    BY <1>4, <1>6 DEF HandleType
  <2> HIDE DEF e
  <2>6. s0 \in Slot
    BY <1>1, <1>4 DEF IsOpen, HandleType
  <2>7. ASSUME NEW s \in Slot, NEW c \in Cluster \cup {0}, (Live(s) /\ Owns(s, c))'
        PROVE  \/ Live(s) /\ Owns(s, c) /\ (0 \in OnChainIn(fat, c) => s = s0)
               \/ s = s0 /\ c \in T
    <3>1. Live(s)
      BY <1>1, <1>6, <2>7 DEF Live
    <3>2. s # s0 => Owns(s, c)
      BY <1>1, <2>5, <2>7, SoleOwner
    <3>3. s = s0 => c = e
      BY <1>1, <2>5, <2>7, SoleOwner
    <3>4. s # s0 => 0 \notin OnChainIn(fat, c)
      BY <2>7, <3>1, <3>2, ChainNotFree
    <3> QED BY <2>1, <3>1, <3>2, <3>3, <3>4
  <2>8. 0 \notin T /\ 0 \in Cluster \cup {0} /\ Acyclic(fat)'
    BY <2>2, <2>4, TableNumbers DEF Acyclic, IsTable, WalkEnds
  <2>9. \A x \in FatIndex : x \notin T /\ x # 0 => fat'[x] = fat[x]
    BY <2>1
  <2>10. T = Taken(fat, hint, 1) /\ hint \in Cluster
    BY <1>4
  <2> HIDE DEF T, s0
  <2>11. \A s \in Slot, c \in Cluster \cup {0} : (Live(s) /\ Owns(s, c))' =>
           \/ Live(s) /\ Owns(s, c) /\ (0 \in OnChainIn(fat, c) => s = s0)
           \/ s = s0 /\ c \in T
    BY <2>7
  <2> QED BY ONLY FilesApart, <2>3, <2>6, <2>8, <2>9, <2>10, <2>11, GrownApart
<1> QED BY <1>1, <1>2, <1>3, <1>5, <1>6

LEMMA AppendApart ==
  ASSUME HandleInv, FilesApart, NEW fc \in Entry, fat' = Append1(fat, hint, fc).fat,
         UNCHANGED <<slots, files>>, call'.slot = call.slot
  PROVE  FilesApart'
<1> DEFINE T == Taken(fat, hint, 1)
           d == EndOf(fat, fc)
<1>1. hint \in Cluster /\ IsTable(fat) /\ Acyclic(fat) /\ 1 \in Nat
  BY Types DEF FilesApart
<1>2. /\ \A x \in FatIndex : x \notin T /\ x # d => fat'[x] = fat[x]
      /\ \A x \in T : fat'[x] = Allocate(fat, hint, 1).fat[x] /\ x # d
      /\ d # 0 => fat'[d] = fat[d] \/ fat'[d] \in T
  BY <1>1, AppendFacts
<1>3. \A x \in T : \/ Allocate(fat, hint, 1).fat[x] = EndOfChain
                   \/ Allocate(fat, hint, 1).fat[x] \in T
  BY <1>1, AllocateFacts
<1>4. T \subseteq Cluster
  BY <1>1, TakenClusters
<1>5. \A x \in T : fat'[x] # FREE /\ (fat'[x] \in Cluster => fat'[x] \in T)
  BY <1>2, <1>3, <1>4, TableNumbers
<1>6. d \in Cluster \cup {0} /\ d \notin T
  BY <1>1, <1>2, EndOfFacts
<1>7. Acyclic(fat')
  BY <1>1, AppendAcyclic
<1>8. Acyclic(fat)' /\ T = Taken(fat, hint, 1)
  BY <1>7 DEF Acyclic, IsTable, WalkEnds
<1> HIDE DEF d, T
\* The end of the chain belongs to one file at most.
<1>9. PICK s0 \in Slot \cup {0} :
        \A s \in Slot, c \in Cluster \cup {0} :
          Live(s) /\ Owns(s, c) /\ d \in OnChainIn(fat, c) => s = s0
  <2>1. CASE \E s \in Slot, c \in Cluster \cup {0} :
               Live(s) /\ Owns(s, c) /\ d \in OnChainIn(fat, c)
    <3>1. PICK s1 \in Slot, c1 \in Cluster \cup {0} :
            Live(s1) /\ Owns(s1, c1) /\ d \in OnChainIn(fat, c1)
      BY <2>1
    <3>2. \A s \in Slot, c \in Cluster \cup {0} :
            Live(s) /\ Owns(s, c) /\ d \in OnChainIn(fat, c) => s = s1
      BY <3>1, ChainNotFree
    <3> QED BY <3>2
  <2>2. CASE ~\E s \in Slot, c \in Cluster \cup {0} :
               Live(s) /\ Owns(s, c) /\ d \in OnChainIn(fat, c)
    BY <2>2
  <2> QED BY <2>1, <2>2
<1>10. ASSUME NEW s \in Slot, NEW c \in Cluster \cup {0}, (Live(s) /\ Owns(s, c))'
       PROVE  Live(s) /\ Owns(s, c) /\ (d \in OnChainIn(fat, c) => s = s0)
  <2>1. Live(s) /\ Owns(s, c)
    BY <1>10, SameOwners
  <2> QED BY <1>9, <2>1
<1>11. CASE s0 \in Slot
  <2>1. \A s \in Slot, c \in Cluster \cup {0} : (Live(s) /\ Owns(s, c))' =>
          \/ Live(s) /\ Owns(s, c) /\ (d \in OnChainIn(fat, c) => s = s0)
          \/ s = s0 /\ c \in T
    BY <1>10
  <2> QED BY ONLY FilesApart, <1>1, <1>2, <1>5, <1>6, <1>8, <1>11, <2>1, GrownApart
<1>12. CASE s0 \notin Slot
  <2>1. CASE Slot = {}
    <3>1. Apart'
      BY <2>1 DEF Apart
    <3>2. fat'[2] # FREE
      <4>1. 2 \in FatIndex /\ 2 \notin T
        BY <1>1, <1>8, TakenClusters, TableNumbers, SMT DEF FatIndex
      <4>2. CASE d = 2
        BY <1>2, <1>5, <1>6, <4>1, <4>2, <1>4, TableNumbers DEF FilesApart
      <4>3. CASE d # 2
        BY <1>2, <4>1, <4>3 DEF FilesApart
      <4> QED BY <4>2, <4>3
    <3> QED BY <1>8, <3>1, <3>2 DEF FilesApart
  <2>2. CASE Slot # {}
    <3>1. PICK s1 \in Slot : TRUE
      BY <2>2
    <3>2. \A s \in Slot, c \in Cluster \cup {0} : (Live(s) /\ Owns(s, c))' =>
            \/ Live(s) /\ Owns(s, c) /\ (d \in OnChainIn(fat, c) => s = s1)
            \/ s = s1 /\ c \in T
      BY <1>10, <1>12
    <3> QED BY ONLY FilesApart, <1>1, <1>2, <1>5, <1>6, <1>8, <3>1, <3>2, GrownApart
  <2> QED BY <2>1, <2>2
<1> QED BY <1>11, <1>12

LEMMA WalkApart ==
  ASSUME HandleInv, FilesApart, WalkToPosition \/ AdvanceWrite
  PROVE  FilesApart'
<1>1. /\ call.op \in {"write", "copy"} /\ UNCHANGED <<slots, files>>
      /\ \E frame : GoToNext(frame) /\ frame.slot = call.slot /\ "cluster" \in DOMAIN frame
                    /\ frame \in CallType
  <2>1. CASE WalkToPosition
    <3> DEFINE n == call.offset - ClusterSize
               frame == [call EXCEPT !.offset = n]
    <3>1. /\ call.op = "write" /\ call.offset >= ClusterSize /\ GoToNext(frame)
          /\ UNCHANGED <<slots, files>>
      BY <2>1 DEF WalkToPosition
    <3>2. call.offset \in Nat
      BY Types DEF CallType
    <3>3. n \in Nat
      BY <3>1, <3>2, SlotNumbers, SMT
    <3>4. frame \in CallType /\ frame.slot = call.slot
      BY <3>3, Types, CallUpdates
    <3> HIDE DEF frame
    <3>5. "cluster" \in DOMAIN frame
      BY <3>4 DEF CallType
    <3> QED BY <3>1, <3>4, <3>5
  <2>2. CASE AdvanceWrite
    <3> DEFINE k == [call EXCEPT !.op = "write"]
               frame == [call EXCEPT !.op = "write", !.offset = 0]
    <3>1. call.op = "copy" /\ GoToNext(frame) /\ UNCHANGED <<slots, files>>
      BY <2>2 DEF AdvanceWrite
    <3>2. k \in CallType /\ k.slot = call.slot
      BY Types DEF CallType
    <3>3. frame = [k EXCEPT !.offset = 0]
      BY Types DEF CallType
    <3> HIDE DEF k, frame
    <3>4. frame \in CallType /\ frame.slot = call.slot
      BY <3>2, <3>3, CallUpdates
    <3>5. "cluster" \in DOMAIN frame
      BY <3>4 DEF CallType
    <3> QED BY <3>1, <3>4, <3>5
  <2> QED BY <2>1, <2>2
<1>2. PICK frame : GoToNext(frame) /\ frame.slot = call.slot /\ frame \in CallType
  BY <1>1
<1>3. call.slot = 0 /\ call.cluster \in Entry
  BY <1>1, Types DEF Unlinking, CallType
<1>4. \/ UNCHANGED fat /\ \E e : call' = [frame EXCEPT !.cluster = e]
      \/ /\ fat' = Append1(fat, hint, call.cluster).fat
         /\ EndCall \/ \E e : call' = [frame EXCEPT !.cluster = e]
  BY <1>2 DEF GoToNext, NextCluster
<1>5. call'.slot = call.slot
  <2>1. ASSUME NEW e, call' = [frame EXCEPT !.cluster = e] PROVE call'.slot = call.slot
    BY <1>2, <2>1 DEF CallType
  <2> QED BY <1>3, <1>4, <2>1, NoCallFacts
<1>6. CASE UNCHANGED fat
  BY <1>1, <1>5, <1>6, QuietApart
<1>7. CASE fat' = Append1(fat, hint, call.cluster).fat
  BY <1>1, <1>3, <1>5, <1>7, AppendApart
<1> QED BY <1>4, <1>6, <1>7

\* A position lies in the cluster that the division finds.
LEMMA InLastCluster ==
  ASSUME NEW c \in Nat, c >= 1, NEW pos \in Nat
  PROVE  pos <= c * ((pos \div c) + 1)
OBVIOUS

\* Where the walk of f_truncate ends on a chain that ends.
LEMMA ClusterAtFacts ==
  ASSUME Acyclic(fat), NEW first \in Cluster \cup {0}, NEW pos \in Nat
  PROVE  ClusterAt(first, pos) \in Cluster =>
           /\ first \in Cluster
           /\ \E i \in 1 .. Len(ChainIn(fat, first)) :
                ClusterAt(first, pos) = ChainIn(fat, first)[i] /\ pos <= ClusterSize * i
<1> DEFINE chain == ChainIn(fat, first)
           k == pos \div ClusterSize
           last == ClusterAt(first, pos)
<1>1. k \in Nat
  BY SlotNumbers, SMT
<1>2. last = IF k < Len(chain) THEN chain[k + 1]
             ELSE IF k = Len(chain) /\ k > 0 THEN NextIn(fat, chain[k]) ELSE 0
  BY DEF ClusterAt
<1>3. Len(chain) \in Nat
  BY TableNumbers, ChainClusters DEF Acyclic
<1>4. pos <= ClusterSize * (k + 1)
  BY SlotNumbers, InLastCluster
<1> HIDE DEF k, last
<1>5. CASE first = 0
  <2>1. chain = <<>>
    BY <1>5, TableNumbers, NoChain
  <2>2. Len(chain) = 0
    BY <2>1
  <2> HIDE DEF chain
  <2>3. last = 0
    BY <1>1, <1>2, <2>2, SMT
  <2> QED BY <2>3, TableNumbers DEF last
<1>6. CASE first \in Cluster
  <2>1. Whole(fat, chain) /\ \A i \in 1 .. Len(chain) : chain[i] \in Cluster
    BY <1>6, ChainOfWalk, PathFacts DEF Acyclic, Whole
  <2> HIDE DEF chain
  <2>2. CASE k < Len(chain)
    <3>1. k + 1 \in 1 .. Len(chain) /\ last = chain[k + 1]
      BY <1>1, <1>2, <1>3, <2>2, SMT
    <3>2. pos <= ClusterSize * (k + 1)
      BY <1>4
    <3> QED BY <1>6, <3>1, <3>2 DEF last, chain
  <2>3. CASE k = Len(chain) /\ k > 0
    <3>1. k \in 1 .. Len(chain) /\ ~(k < Len(chain))
      BY <1>1, <2>3, SMT
    <3>2. last = NextIn(fat, chain[k])
      BY <1>2, <2>3, <3>1
    <3>3. chain[k] \in FatIndex
      BY <2>1, <3>1, TableNumbers
    <3>4. fat[chain[k]] \notin Cluster
      BY <2>1, <2>3, <3>1 DEF Whole
    <3>5. last \notin Cluster
      BY <3>2, <3>3, <3>4 DEF NextIn
    <3> QED BY <3>5 DEF last
  <2>4. CASE ~(k < Len(chain)) /\ ~(k = Len(chain) /\ k > 0)
    <3>1. last = 0
      BY <1>2, <2>4
    <3> QED BY <3>1, TableNumbers DEF last
  <2> QED BY <2>2, <2>3, <2>4
<1> QED BY <1>5, <1>6

LEMMA TruncateApart ==
  ASSUME HandleInv, FilesApart, NEW h \in Handles, TruncateFile(h)
  PROVE  FilesApart'
<1> DEFINE c0 == files[h].first
           s0 == files[h].slot
           last == ClusterAt(c0, files[h].pos)
<1>1. /\ call.op = "none" /\ IsOpen(h) /\ Sole(h) /\ UNCHANGED <<slots, call>>
      /\ \/ /\ fat' = Release(fat, c0)
            /\ files' = [files EXCEPT ![h].first = 0, ![h].size = 0]
         \/ /\ fat' = CutAfter(last) \/ (last \in Cluster /\ fat' = [fat EXCEPT ![last] = EndOfChain])
            /\ files' = [files EXCEPT ![h].size = files[h].pos]
         \/ UNCHANGED <<fat, files>>
  BY Zenon DEF TruncateFile, Ready
<1>2. /\ files \in [Handles -> HandleType] /\ files[h].pos \in Nat /\ IsTable(fat)
      /\ c0 \in Cluster \cup {0} /\ c0 \in Entry /\ Acyclic(fat)
  BY Types, RoomType DEF FilesApart, HandleType
<1>3. s0 \in Slot /\ Live(s0) /\ Owns(s0, c0)
  BY <1>1, <1>2, OpenLive DEF Owns, IsOpen, HandleType
<1> HIDE DEF s0, last
\* Whoever owns a chain afterwards, owned it before, or is this file.
<1>4. ASSUME NEW e \in Cluster \cup {0}, files'[h].first = e,
             \A g \in Handles : files'[g].slot = files[g].slot,
             \A g \in Handles : g # h => files'[g] = files[g],
             NEW s \in Slot, NEW c \in Cluster \cup {0}, (Live(s) /\ Owns(s, c))'
      PROVE  (s # s0 /\ Live(s) /\ Owns(s, c)) \/ (s = s0 /\ c = e)
  <2>1. Live(s)
    BY <1>1, <1>4 DEF Live
  <2> QED BY <1>1, <1>4, <2>1, SoleOwner DEF s0
<1>5. CASE /\ fat' = Release(fat, c0)
           /\ files' = [files EXCEPT ![h].first = 0, ![h].size = 0]
  <2>1. /\ files'[h].first = 0
        /\ \A g \in Handles : files'[g].slot = files[g].slot
        /\ \A g \in Handles : g # h => files'[g] = files[g]
    BY <1>2, <1>5 DEF HandleType
  <2>2. \A x \in FatIndex : x \notin OnChainIn(fat, c0) => fat'[x] = fat[x]
    BY <1>2, <1>5, ReleaseFacts
  <2>3. Acyclic(fat')
    BY <1>2, <1>5, ReleaseAcyclic
  <2>4. Acyclic(fat)'
    BY <2>3 DEF Acyclic, IsTable, WalkEnds
  <2>5. OnChainIn(fat', 0) = {}
    BY NoClusters
  <2>6. \A s \in Slot, c \in Cluster \cup {0} : (Live(s) /\ Owns(s, c))' =>
          \/ s # s0 /\ Live(s) /\ Owns(s, c)
          \/ /\ s = s0 /\ OnChainIn(fat', c) \subseteq OnChainIn(fat, c0)
             /\ \A x \in OnChainIn(fat', c) : fat'[x] # FREE
    BY <1>4, <2>1, <2>5
  <2> HIDE DEF c0
  <2> QED BY ONLY FilesApart, <1>2, <1>3, <2>2, <2>4, <2>6, ShrunkApart
<1>6. ASSUME last \in Cluster,
             fat' = CutAfter(last) \/ fat' = [fat EXCEPT ![last] = EndOfChain],
             files' = [files EXCEPT ![h].size = files[h].pos]
      PROVE  FilesApart'
  <2>1. /\ files'[h].first = c0
        /\ \A g \in Handles : files'[g].slot = files[g].slot
        /\ \A g \in Handles : g # h => files'[g] = files[g]
    BY <1>2, <1>6 DEF HandleType
  <2> DEFINE cut == [fat EXCEPT ![last] = EndOfChain]
             rest == Release(cut, NextIn(fat, last))
  <2>2. fat' = cut \/ fat' = rest
    <3>1. IsValidCluster(last)
      BY <1>6, ValidEntry, TableNumbers
    <3> QED BY <1>6, <3>1 DEF CutAfter
  <2>3. c0 \in Cluster /\ \E i \in 1 .. Len(ChainIn(fat, c0)) : last = ChainIn(fat, c0)[i]
    BY <1>2, <1>6, ClusterAtFacts DEF last
  <2>4. PICK n : n \in 1 .. Len(ChainIn(fat, c0)) /\ last = ChainIn(fat, c0)[n]
    BY <2>3
  <2>5. Changed(fat, cut, last, EndOfChain) /\ rest = Release(cut, NextIn(fat, last))
    BY <1>2, <1>6, TableNumbers DEF Changed, IsTable
  <2> HIDE DEF c0, cut, rest
  <2>6. /\ Acyclic(cut) /\ Acyclic(rest)
        /\ \A x \in FatIndex : x \notin OnChainIn(fat, c0) => cut[x] = fat[x] /\ rest[x] = fat[x]
        /\ OnChainIn(cut, c0) \subseteq OnChainIn(fat, c0)
        /\ OnChainIn(rest, c0) \subseteq OnChainIn(fat, c0)
        /\ \A x \in OnChainIn(cut, c0) : cut[x] = fat[x] \/ cut[x] = EndOfChain
        /\ \A x \in OnChainIn(rest, c0) : rest[x] = fat[x] \/ rest[x] = EndOfChain
    BY ONLY <1>2, <2>3, <2>4, <2>5, CutFacts
  <2>7. /\ Acyclic(fat')
        /\ \A x \in FatIndex : x \notin OnChainIn(fat, c0) => fat'[x] = fat[x]
        /\ OnChainIn(fat', c0) \subseteq OnChainIn(fat, c0)
        /\ \A x \in OnChainIn(fat', c0) : fat'[x] = fat[x] \/ fat'[x] = EndOfChain
    BY <2>2, <2>6
  <2>8. Acyclic(fat)'
    BY <2>7 DEF Acyclic, IsTable, WalkEnds
  <2>9. \A x \in OnChainIn(fat', c0) : fat'[x] # FREE
    BY <1>2, <1>3, <2>7, ChainNotFree, TableNumbers
  <2>10. \A s \in Slot, c \in Cluster \cup {0} : (Live(s) /\ Owns(s, c))' =>
           \/ s # s0 /\ Live(s) /\ Owns(s, c)
           \/ /\ s = s0 /\ OnChainIn(fat', c) \subseteq OnChainIn(fat, c0)
              /\ \A x \in OnChainIn(fat', c) : fat'[x] # FREE
    BY <1>2, <1>4, <2>1, <2>7, <2>9
  <2> QED BY ONLY FilesApart, <1>2, <1>3, <2>7, <2>8, <2>10, ShrunkApart
<1>7. ASSUME last \notin Cluster, fat' = CutAfter(last),
             files' = [files EXCEPT ![h].size = files[h].pos]
      PROVE  FilesApart'
  <2>1. last \in Entry
    BY <1>2, ClusterAtType DEF last
  <2>2. ~IsValidCluster(last)
    BY <1>7, <2>1, ValidEntry
  <2>3. UNCHANGED fat
    BY <1>7, <2>2 DEF CutAfter
  <2>4. \A g \in Handles : files'[g].slot = files[g].slot /\ files'[g].first = files[g].first
    BY <1>2, <1>7 DEF HandleType
  <2> QED BY <1>1, <2>3, <2>4, QuietApart
<1>8. CASE UNCHANGED <<fat, files>>
  BY <1>1, <1>8, QuietApart
<1> QED BY <1>1, <1>5, <1>6, <1>7, <1>8

LEMMA ExpandApart ==
  ASSUME HandleInv, FilesApart, NEW h \in Handles, NEW size \in Nat, Expand(h, size)
  PROVE  FilesApart'
<1>1. /\ call.op = "none" /\ IsOpen(h) /\ Sole(h) /\ UNCHANGED <<slots, call>>
      /\ \E n \in Int, broken \in BOOLEAN : Grow(h, n, broken)
  BY ExpandCases
<1>2. PICK n \in Int, broken \in BOOLEAN : Grow(h, n, broken)
  BY <1>1
<1> DEFINE new == Allocate(fat, hint, n)
           T == Taken(fat, hint, n)
           c0 == files[h].first
           s0 == files[h].slot
           e == new.first
<1>3. \/ UNCHANGED <<fat, files>>
      \/ /\ n \in Nat /\ n > 0
         /\ files' = [files EXCEPT ![h].first = IF new.ok /\ c0 = 0 THEN e ELSE c0]
         /\ \/ fat' = new.fat
            \/ new.ok /\ \E c \in OnChainIn(new.fat, c0) : fat' = [new.fat EXCEPT ![c] = e]
  BY <1>2, GrowFacts
<1>4. /\ files \in [Handles -> HandleType] /\ hint \in Cluster /\ IsTable(fat)
      /\ c0 \in Cluster \cup {0} /\ Acyclic(fat)
  BY Types, RoomType DEF FilesApart, HandleType
<1>5. s0 \in Slot /\ Live(s0) /\ Owns(s0, c0)
  BY <1>1, <1>4, OpenLive DEF Owns, IsOpen, HandleType
<1>6. CASE UNCHANGED <<fat, files>>
  BY <1>1, <1>6, QuietApart
<1>7. ASSUME n \in Nat, n > 0,
             files' = [files EXCEPT ![h].first = IF new.ok /\ c0 = 0 THEN e ELSE c0],
             \/ fat' = new.fat
             \/ new.ok /\ \E c \in OnChainIn(new.fat, c0) : fat' = [new.fat EXCEPT ![c] = e]
      PROVE  FilesApart'
  <2> DEFINE k == new.fat
             ok == new.ok
  <2>1. /\ IsTable(k) /\ e \in Cluster \cup {0} /\ (ok => e \in T)
        /\ \A x \in FatIndex : x \notin T => k[x] = fat[x]
        /\ \A x \in T : k[x] = EndOfChain \/ k[x] \in T
    <3>1. n # 0
      BY <1>7, SMT
    <3> QED BY <1>4, <1>7, <3>1, AllocateFacts
  <2>2. Acyclic(k)
    BY <1>4, <1>7, AllocateAcyclic
  <2>3. /\ \A x \in T : x \in 3 .. TotalClusters /\ fat[x] = FREE
        /\ 2 \notin T /\ T \subseteq Cluster
    BY <1>4, TakenClusters
  <2>4. T = Taken(fat, hint, n) /\ (fat' = k \/ (ok /\ \E c \in OnChainIn(k, c0) :
                                                         fat' = [k EXCEPT ![c] = e]))
        /\ files' = [files EXCEPT ![h].first = IF ok /\ c0 = 0 THEN e ELSE c0]
    BY <1>7
  <2>5. \A x \in OnChainIn(fat, c0) : x \in FatIndex /\ fat[x] # FREE
    BY <1>4, <1>5, ChainNotFree
  <2> HIDE DEF k, ok, e, T, c0, s0, new
  <2>6. OnChainIn(k, c0) = OnChainIn(fat, c0)
    <3>1. CASE c0 = 0
      BY <3>1, NoClusters
    <3>2. CASE c0 \in Cluster
      <4>1. WalkEnds(fat, c0)
        BY <1>4, <3>2 DEF Acyclic
      <4>2. \A x \in OnChainIn(fat, c0) : k[x] = fat[x]
        BY <2>1, <2>3, <2>5
      <4> QED BY ONLY <2>1, <4>1, <4>2, WalkKept
    <3> QED BY <1>4, <3>1, <3>2
  <2>7. \A x \in T : k[x] # FREE /\ (k[x] \in Cluster => k[x] \in T)
    BY <2>1, <2>3, TableNumbers
  <2>8. PICK d \in Cluster \cup {0} :
          /\ d = 0 => fat' = k
          /\ d # 0 => ok /\ d \in OnChainIn(fat, c0) /\ fat' = [k EXCEPT ![d] = e]
    <3>1. CASE fat' = k
      BY <3>1, TableNumbers
    <3>2. ASSUME NEW c \in OnChainIn(k, c0), ok, fat' = [k EXCEPT ![c] = e]
          PROVE  \E d \in Cluster \cup {0} :
                   /\ d = 0 => fat' = k
                   /\ d # 0 => ok /\ d \in OnChainIn(fat, c0) /\ fat' = [k EXCEPT ![d] = e]
      <4>1. c \in Cluster
        BY <1>4, <2>1, ChainClusters, TableNumbers
      <4>2. c # 0 /\ c \in OnChainIn(fat, c0)
        BY <2>6, <4>1, TableNumbers
      <4> QED BY <3>2, <4>1, <4>2
    <3> QED BY <2>4, <3>1, <3>2
  <2>9. d \notin T
    BY <2>3, <2>5, <2>8, TableNumbers
  <2>10. DOMAIN k = FatIndex /\ (d # 0 => d \in FatIndex)
    BY <2>1, TableNumbers DEF IsTable
  <2>11. /\ \A x \in FatIndex : x # d => fat'[x] = k[x]
         /\ d # 0 => fat'[d] = e /\ e \in T
    <3>1. CASE d = 0
      BY <2>8, <3>1
    <3>2. CASE d # 0
      BY <2>1, <2>8, <2>10, <3>2
    <3> QED BY <3>1, <3>2
  <2>12. IsTable(fat')
    <3>1. CASE d = 0
      BY <2>1, <2>8, <3>1
    <3>2. CASE d # 0
      <4>1. e \in Entry
        BY <2>1, TableNumbers
      <4> QED BY <2>1, <2>8, <3>2, <4>1 DEF IsTable
    <3> QED BY <3>1, <3>2
  <2>13. Acyclic(fat')
    <3>1. CASE d = 0
      BY <2>2, <2>8, <3>1
    <3>2. CASE d # 0
      <4>1. WalkEnds(k, e)
        BY <2>2, <2>3, <2>11, <3>2 DEF Acyclic
      <4>2. OnChainIn(k, e) \subseteq T
        BY <2>7, <2>11, <3>2, <4>1, WalkInTaken
      <4>3. d \in Cluster /\ fat'[d] = e /\ d \notin OnChainIn(k, e)
        BY <2>9, <2>11, <3>2, <4>2
      <4> QED BY ONLY <2>2, <2>11, <2>12, <4>1, <4>3, RelinkAcyclic
    <3> QED BY <3>1, <3>2
  <2>14. Acyclic(fat)'
    BY <2>13 DEF Acyclic, IsTable, WalkEnds
  <2>15. /\ \A g \in Handles : files'[g].slot = files[g].slot
         /\ \A g \in Handles : g # h => files'[g] = files[g]
         /\ files'[h].first = IF ok /\ c0 = 0 THEN e ELSE c0
    BY <1>4, <2>4 DEF HandleType
  <2>16. ASSUME NEW s \in Slot, NEW c \in Cluster \cup {0}, (Live(s) /\ Owns(s, c))'
         PROVE  \/ Live(s) /\ Owns(s, c) /\ (d \in OnChainIn(fat, c) => s = s0)
                \/ s = s0 /\ c \in T
    <3>1. Live(s)
      BY <1>1, <2>16 DEF Live
    <3>2. CASE s # s0
      <4>1. Owns(s, c)
        BY <1>1, <2>15, <2>16, <3>2, SoleOwner DEF s0
      <4>2. d \notin OnChainIn(fat, c)
        <5>1. CASE d = 0
          BY <2>16, <3>1, <4>1, <5>1, ChainNotFree
        <5>2. CASE d # 0
          BY <1>4, <1>5, <2>8, <2>16, <3>1, <3>2, <4>1, <5>2, ChainNotFree
        <5> QED BY <5>1, <5>2
      <4> QED BY <3>1, <4>1, <4>2
    <3>3. CASE s = s0
      <4>1. c = IF ok /\ c0 = 0 THEN e ELSE c0
        BY <1>1, <2>15, <2>16, <3>3, SoleOwner DEF s0
      <4> QED BY <1>5, <2>1, <3>1, <3>3, <4>1
    <3> QED BY <3>2, <3>3
  <2>17. \A s \in Slot, c \in Cluster \cup {0} : (Live(s) /\ Owns(s, c))' =>
           \/ Live(s) /\ Owns(s, c) /\ (d \in OnChainIn(fat, c) => s = s0)
           \/ s = s0 /\ c \in T
    BY <2>16
  <2>18. \A x \in FatIndex : x \notin T /\ x # d => fat'[x] = fat[x]
    BY <2>1, <2>11
  <2>19. \A x \in T : fat'[x] # FREE /\ (fat'[x] \in Cluster => fat'[x] \in T)
    <3>1. \A x \in T : x \in FatIndex /\ x # d
      BY <2>3, <2>9, TableNumbers
    <3> QED BY <2>7, <2>11, <3>1
  <2> QED BY ONLY FilesApart, <1>4, <1>5, <2>4, <2>8, <2>9, <2>11, <2>14, <2>17, <2>18, <2>19,
                  GrownApart
<1> QED BY <1>3, <1>6, <1>7

LEMMA BeginUnlinkApart ==
  ASSUME HandleInv, FilesApart, NEW n \in Names, BeginUnlink(n)
  PROVE  FilesApart'
<1> DEFINE s0 == SlotOf(n)
           c0 == slots[s0].first
<1>1. /\ call.op = "none" /\ s0 # 0 /\ \A h \in Handles : files[h].slot # s0
      /\ fat' = Release(fat, c0) /\ UNCHANGED <<slots, files>>
      /\ call' = [NoCall EXCEPT !.op = "unlink", !.slot = s0]
  BY DEF BeginUnlink, Ready
<1>2. s0 \in Slot /\ slots[s0].name = n /\ n # NoName
  BY <1>1, SlotOfFacts, FileAssumption
<1>3. call.slot = 0 /\ call'.slot = s0
  BY <1>1, Types DEF NoCall, Unlinking
<1>4. Live(s0) /\ Owns(s0, c0) /\ c0 \in Cluster \cup {0} /\ c0 \in Entry
  BY <1>1, <1>2, <1>3, Types, TableNumbers, SlotNumbers DEF Live, Owns, HandlesOK
<1> HIDE DEF s0, c0
<1>5. /\ IsTable(fat) /\ Acyclic(fat)
  BY DEF FilesApart, Acyclic
<1>6. \A x \in FatIndex : x \notin OnChainIn(fat, c0) => fat'[x] = fat[x]
  BY <1>1, <1>4, <1>5, ReleaseFacts
<1>7. Acyclic(fat')
  BY <1>1, <1>4, <1>5, ReleaseAcyclic
<1>8. Acyclic(fat)'
  BY <1>7 DEF Acyclic, IsTable, WalkEnds
<1>9. ASSUME NEW s \in Slot, NEW c \in Cluster \cup {0}, (Live(s) /\ Owns(s, c))'
      PROVE  s # s0 /\ Live(s) /\ Owns(s, c)
  <2>1. s # s0 /\ Live(s)
    BY <1>1, <1>3, <1>9, SlotNumbers DEF Live
  <2>2. Owns(s, c)
    BY <1>1, <1>9 DEF Owns
  <2> QED BY <2>1, <2>2
<1>10. \A s \in Slot, c \in Cluster \cup {0} : (Live(s) /\ Owns(s, c))' =>
         \/ s # s0 /\ Live(s) /\ Owns(s, c)
         \/ /\ s = s0 /\ OnChainIn(fat', c) \subseteq OnChainIn(fat, c0)
            /\ \A x \in OnChainIn(fat', c) : fat'[x] # FREE
  BY <1>9
<1> QED BY ONLY FilesApart, <1>2, <1>4, <1>6, <1>8, <1>10, ShrunkApart

-----------------------------------------------------------------------------
(* The files own separate chains, until an entry is left dangling.         *)

FilesInv == HandleInv /\ (tainted \/ FilesApart)

LEMMA FilesInit == Init => FilesInv
<1> SUFFICES ASSUME Init PROVE FilesInv
  OBVIOUS
<1>1. HandleInv
  BY HandleInit
<1>2. /\ fat = EmptyFat /\ slots = [s \in Slot |-> FreeSlot] /\ call = NoCall
      /\ files = [h \in Handles |-> ClosedFile]
  BY DEF Init
<1>3. IsTable(fat)
  BY <1>1, Types
<1>4. \A c \in Cluster : fat[c] = IF c <= 2 THEN EndOfChain ELSE FREE
  BY <1>2, TableNumbers DEF EmptyFat
<1>5. 2 \in Cluster
  BY TableNumbers, SMT DEF Cluster
<1>6. fat[2] # FREE
  BY <1>4, <1>5, TableNumbers
<1>7. \A c \in Cluster : WalkEnds(fat, c)
  <2>1. \A c \in Cluster : fat[c] \notin Cluster
    BY <1>4, TableNumbers
  <2> QED BY <1>3, <2>1, LoneWalk
<1>8. Apart
  <2>1. \A s \in Slot : ~Live(s)
    BY <1>2 DEF Live, FreeSlot
  <2> QED BY <2>1 DEF Apart
<1> QED BY <1>1, <1>3, <1>6, <1>7, <1>8 DEF FilesInv, FilesApart, Acyclic

\* What a step may do to the counts and to the history.
Counts ==
  /\ faults' = faults \/ Fault
  /\ crashes' = crashes \/ (Crash /\ crashes' = crashes + 1)
  /\ \/ tainted' = tainted
     \/ tainted' = (tainted \/ ~FilesDisjoint') /\ (EndUnlink \/ Restart \/ Crash)

LEMMA NextCounts == ASSUME Next PROVE Counts
<1>1. ASSUME NEW h \in Handles, NEW n \in Names, OpenFile(h, n) PROVE Counts
  BY <1>1 DEF OpenFile, Counts
<1>2. ASSUME NEW h \in Handles, CloseFile(h) \/ SyncFile(h) PROVE Counts
  BY <1>2 DEF CloseFile, SyncFile, EntryFails, NoFault, Counts
<1>3. ASSUME NEW h \in Handles, TruncateFile(h) PROVE Counts
  BY <1>3 DEF TruncateFile, NoFault, Counts
<1>4. ASSUME NEW h \in Handles, NEW n \in Nat, ReadFile(h, n) \/ Seek(h, n) PROVE Counts
  <2>1. CASE ReadFile(h, n)
    BY <2>1, Zenon DEF ReadFile, NoFault, Counts
  <2>2. CASE Seek(h, n)
    BY <2>2, Zenon DEF Seek, NoFault, Counts
  <2> QED BY <1>4, <2>1, <2>2
<1>5. ASSUME NEW h \in Handles, NEW n \in Nat, NEW k \in 0 .. n, Forward(h, n, k) PROVE Counts
  BY <1>5, Zenon DEF Forward, NoFault, Counts
<1>6. ASSUME NEW h \in Handles, NEW n \in Nat, Expand(h, n) PROVE Counts
  BY <1>6, Zenon DEF Expand, NoFault, Counts
<1>7. ASSUME NEW h \in Handles, NEW buffer \in Buffers, BeginWrite(h, buffer) PROVE Counts
  BY <1>7, Zenon DEF BeginWrite, NoFault, Counts
<1>8. ASSUME NEW n \in Names, Stat(n) \/ BeginUnlink(n) PROVE Counts
  BY <1>8, Zenon DEF Stat, BeginUnlink, NoFault, Counts
<1>9. ASSUME WalkToPosition \/ AdvanceWrite PROVE Counts
  BY <1>9, Zenon DEF WalkToPosition, AdvanceWrite, GoToNext, NoFault, Counts
<1>10. ASSUME WriteCluster \/ WriteClusterFails PROVE Counts
  BY <1>10, Zenon DEF WriteCluster, WriteClusterFails, NoFault, Counts
<1>11. ASSUME EndUnlink PROVE Counts
  BY <1>11, Zenon DEF EndUnlink, CheckVolume, NoFault, Counts
<1>12. ASSUME Restart \/ Crash PROVE Counts
  BY <1>12, Zenon DEF Restart, Crash, Reboot, CheckVolume, Counts
<1> QED BY <1>1, <1>2, <1>3, <1>4, <1>5, <1>6, <1>7, <1>8, <1>9, <1>10, <1>11, <1>12,
           NextCases, Zenon

LEMMA FilesNext == FilesInv /\ [Next]_fileVars => FilesInv'
<1> SUFFICES ASSUME FilesInv, [Next]_fileVars PROVE FilesInv'
  OBVIOUS
<1>1. HandleInv /\ HandleInv'
  BY HandleNext DEF FilesInv
<1>2. CASE tainted
  <2>1. tainted'
    <3>1. CASE UNCHANGED fileVars
      BY <1>2, <3>1 DEF fileVars
    <3>2. CASE Next
      BY <1>2, <3>2, NextCounts, Zenon DEF Counts
    <3> QED BY <3>1, <3>2
  <2> QED BY <1>1, <2>1 DEF FilesInv
<1>3. CASE ~tainted
  <2>1. FilesApart
    BY <1>3 DEF FilesInv
  <2>2. CASE UNCHANGED fileVars
    BY <2>1, <2>2, QuietApart, <1>1 DEF fileVars, FilesInv
  <2>3. CASE Next
    <3>1. ASSUME NEW h \in Handles, NEW n \in Names, OpenFile(h, n) PROVE FilesApart'
      BY <1>1, <2>1, <3>1, OpenApart
    <3>2. ASSUME NEW h \in Handles, CloseFile(h) \/ SyncFile(h) PROVE FilesApart'
      BY <1>1, <2>1, <3>2, CloseApart
    <3>3. ASSUME NEW h \in Handles, TruncateFile(h) PROVE FilesApart'
      BY <1>1, <2>1, <3>3, TruncateApart
    <3>4. ASSUME NEW h \in Handles, NEW n \in Nat, ReadFile(h, n) \/ Seek(h, n)
          PROVE  FilesApart'
      BY <1>1, <2>1, <3>4, ReadApart
    <3>5. ASSUME NEW h \in Handles, NEW n \in Nat, NEW k \in 0 .. n, Forward(h, n, k)
          PROVE  FilesApart'
      BY <1>1, <2>1, <3>5, ReadApart
    <3>6. ASSUME NEW h \in Handles, NEW n \in Nat, Expand(h, n) PROVE FilesApart'
      BY <1>1, <2>1, <3>6, ExpandApart
    <3>7. ASSUME NEW h \in Handles, NEW buffer \in Buffers, BeginWrite(h, buffer)
          PROVE  FilesApart'
      BY <1>1, <2>1, <3>7, BeginWriteApart
    <3>8. ASSUME NEW n \in Names, Stat(n) PROVE FilesApart'
      BY <1>1, <2>1, <3>8, ReadApart
    <3>9. ASSUME NEW n \in Names, BeginUnlink(n) PROVE FilesApart'
      BY <1>1, <2>1, <3>9, BeginUnlinkApart
    <3>10. ASSUME WalkToPosition \/ AdvanceWrite PROVE FilesApart'
      BY <1>1, <2>1, <3>10, WalkApart
    <3>11. ASSUME WriteCluster \/ WriteClusterFails PROVE FilesApart'
      BY <1>1, <2>1, <3>11, WriteClusterApart
    <3>12. ASSUME UNCHANGED fat, CheckVolume PROVE tainted' \/ FilesApart'
      <4>1. ~tainted' => FilesDisjoint'
        BY <3>12, Zenon DEF CheckVolume
      <4>2. FilesDisjoint' => Apart'
        BY <1>1, ApartIsDisjoint, PTL
      <4>3. Acyclic(fat)' /\ fat'[2] # FREE
        BY <2>1, <3>12 DEF FilesApart, Acyclic, IsTable, WalkEnds
      <4> QED BY <4>1, <4>2, <4>3 DEF FilesApart
    <3>13. ASSUME EndUnlink \/ Restart \/ Crash PROVE tainted' \/ FilesApart'
      BY <3>12, <3>13 DEF EndUnlink, Restart, Crash, Reboot
    <3>14. Next
      BY <2>3
    <3>15. tainted' \/ FilesApart'
      BY <3>1, <3>2, <3>3, <3>4, <3>5, <3>6, <3>7, <3>8, <3>9, <3>10, <3>11, <3>13,
         <3>14, NextCases, Zenon
    <3> QED BY <1>1, <3>15 DEF FilesInv
  <2> QED BY <2>2, <2>3
<1> QED BY <1>2, <1>3

LEMMA FilesAlways == FileSpec => []FilesInv
<1>1. Init => FilesInv
  BY FilesInit
<1>2. FilesInv /\ [Next]_fileVars => FilesInv'
  BY FilesNext
<1> QED BY <1>1, <1>2, PTL DEF FileSpec

\* An f_unlink that ends well has freed a chain and removed its entry.
LEMMA UnlinkedApart ==
  ASSUME HandleInv, FilesApart, call.op = "unlink", UNCHANGED <<fat, files>>, EndCall,
         slots' = [slots EXCEPT ![call.slot] = FreeSlot]
  PROVE  FilesApart'
<1>1. call.slot \in Slot /\ \A h \in Handles : files[h].slot # call.slot
  BY Types DEF Unlinking
<1>2. /\ slots'[call.slot].name = NoName
      /\ \A s \in Slot : s # call.slot => slots'[s] = slots[s]
  BY <1>1, Types DEF HandlesOK, FreeSlot
<1>3. ASSUME NEW s \in Slot, NEW c \in Cluster \cup {0}, (Live(s) /\ Owns(s, c))'
      PROVE  OnChainIn(fat, c) = {} \/ (Live(s) /\ Owns(s, c))
  <2>1. s # call.slot
    BY <1>2, <1>3 DEF Live
  <2> QED BY <1>2, <1>3, <2>1 DEF Live, Owns
<1>4. UNCHANGED fat
  OBVIOUS
<1> QED BY ONLY <1>3, <1>4, FilesApart, SameFat

\* A program that closed its files finds their entries as it left them.
LEMMA RestartApart ==
  ASSUME HandleInv, FilesApart, Restart
  PROVE  FilesApart'
<1>1. /\ call.op = "none" /\ \A h \in Handles : ~IsOpen(h)
      /\ files' = [h \in Handles |-> ClosedFile] /\ UNCHANGED <<fat, slots>> /\ EndCall
  BY DEF Restart, Reboot
<1>2. call.slot = 0 /\ call'.slot = 0
  BY <1>1, Types, NoCallFacts DEF Unlinking
<1>3. \A h \in Handles : files[h] = ClosedFile /\ files'[h] = ClosedFile
  BY <1>1, Types DEF HandlesOK, HandlesMean
<1>4. \A h \in Handles : files'[h].slot = files[h].slot /\ files'[h].first = files[h].first
  BY <1>3
<1> QED BY <1>1, <1>2, <1>4, QuietApart

Blameless == tainted => faults > 0 \/ crashes > 0

LEMMA BlamelessNext == FilesInv /\ Blameless /\ [Next]_fileVars => Blameless'
<1> SUFFICES ASSUME FilesInv, Blameless, [Next]_fileVars PROVE Blameless'
  OBVIOUS
<1>1. HandleInv /\ HandleInv' /\ faults \in Nat /\ crashes \in Nat
  BY HandleNext, Types DEF FilesInv
<1>2. CASE UNCHANGED fileVars
  BY <1>2 DEF fileVars, Blameless
<1>3. CASE Next
  <2>1. /\ faults' = faults \/ faults' = faults + 1
        /\ crashes' = crashes \/ crashes' = crashes + 1
        /\ \/ tainted' = tainted
           \/ tainted' = (tainted \/ ~FilesDisjoint') /\ (EndUnlink \/ Restart \/ Crash)
    BY <1>3, NextCounts, Zenon DEF Counts, Fault
  <2>2. CASE tainted
    BY <1>1, <2>1, <2>2, SMT DEF Blameless
  <2>3. CASE ~tainted /\ tainted' = tainted
    BY <2>3 DEF Blameless
  <2>4. CASE ~tainted /\ tainted' = (tainted \/ ~FilesDisjoint') /\ (EndUnlink \/ Restart \/ Crash)
    <3>1. FilesApart
      BY <2>4 DEF FilesInv
    <3>2. ASSUME FilesApart' PROVE Blameless'
      <4>1. Apart'
        BY <3>2 DEF FilesApart
      <4>2. FilesDisjoint'
        BY <1>1, <4>1, ApartIsDisjoint, PTL
      <4> QED BY <2>4, <4>2 DEF Blameless
    <3>3. CASE EndUnlink
      <4>1. CASE Fault
        BY <1>1, <4>1, SMT DEF Fault, Blameless
      <4>2. CASE slots' = [slots EXCEPT ![call.slot] = FreeSlot]
        <5>1. call.op = "unlink" /\ UNCHANGED <<fat, files>> /\ EndCall
          BY <3>3 DEF EndUnlink
        <5> QED BY <1>1, <3>1, <3>2, <4>2, <5>1, UnlinkedApart
      <4> QED BY <3>3, <4>1, <4>2 DEF EndUnlink
    <3>4. CASE Restart
      BY <1>1, <3>1, <3>2, <3>4, RestartApart
    <3>5. CASE Crash
      BY <1>1, <3>5, SMT DEF Crash, Blameless
    <3> QED BY <2>4, <3>3, <3>4, <3>5
  <2> QED BY <2>1, <2>2, <2>3, <2>4
<1> QED BY <1>2, <1>3

\* Through every allocation, append, expansion, truncation, unlinking, failure
\* and crash: the files own separate chains of allocated clusters, none of them
\* the root directory's, unless a call that was cut off left an entry that names
\* clusters not its own.
THEOREM FilesStayApart == FileSpec => [](tainted \/ FilesDisjoint)
<1>1. FilesInv => tainted \/ FilesDisjoint
  BY ApartIsDisjoint DEF FilesInv, FilesApart
<1> QED BY <1>1, FilesAlways, PTL

\* And as long as no access failed and the machine did not stop, no f_truncate,
\* f_unlink or restart leaves such an entry.
THEOREM FilesApartAlways == FileSpec => [](faults = 0 /\ crashes = 0 => FilesDisjoint)
<1>1. Init => Blameless
  BY DEF Init, Blameless
<1>2. FilesInv /\ Blameless /\ [Next]_fileVars => Blameless'
  BY BlamelessNext
<1>3. FilesInv /\ Blameless => (faults = 0 /\ crashes = 0 => FilesDisjoint)
  BY ApartIsDisjoint DEF FilesInv, FilesApart, Blameless
<1> QED BY <1>1, <1>2, <1>3, FilesAlways, PTL DEF FileSpec

-----------------------------------------------------------------------------
(* Every byte of a file is in its chain.                                   *)

Fits(f, size, c) == size <= ClusterSize * Len(ChainIn(f, c))

EntriesFollow ==
  /\ \A s \in Slot : slots[s].name = NoName => slots[s].size = 0
  /\ "truncate" \notin Calls =>
       \A h \in Handles : IsOpen(h) => slots[files[h].slot].first \in {0, files[h].first}
  /\ call.op = "unlink" => "unlink" \in Calls

\* An f_write is at the cluster of its file in which its position lies, or past
\* the end of the chain, at the start of what is no cluster.
At(i) ==
  i \in 1 .. Len(ChainIn(fat, files[call.handle].first))
    /\ call.cluster = ChainIn(fat, files[call.handle].first)[i]

Reached == files[call.handle].pos + call.done

InPlace ==
  /\ call.op = "write" =>
       \/ \E i \in Nat :
            /\ At(i) /\ (i - 1) * ClusterSize + call.offset = Reached
            /\ (call.offset = 0 \/ call.done = 0)
       \/ call.cluster \notin Cluster /\ call.offset = 0
  /\ call.op = "copy" => \E i \in Nat : At(i) /\ i * ClusterSize = Reached

Covered == SizesCovered /\ EntriesFollow /\ InPlace

LEMMA SizesFit ==
  SizesCovered <=>
    /\ \A h \in Handles : Fits(fat, files[h].size, files[h].first)
    /\ \A s \in Slot :
         /\ s # call.slot
         /\ "truncate" \notin Calls \/ \A h \in Handles : files[h].slot # s
         => Fits(fat, slots[s].size, slots[s].first)
BY DEF SizesCovered, Fits, Capacity

LEMMA SameFit ==
  ASSUME NEW f, NEW g, NEW c, ChainIn(g, c) = ChainIn(f, c), NEW z
  PROVE  Fits(g, z, c) <=> Fits(f, z, c)
BY DEF Fits

LEMMA NothingFits ==
  ASSUME NEW f, IsTable(f), NEW c \in Cluster \cup {0}
  PROVE  Fits(f, 0, c)
<1>1. Len(ChainIn(f, c)) \in Nat
  BY ChainClusters, TableNumbers
<1>2. ClusterSize \in Nat
  BY SlotNumbers
<1> QED BY <1>1, <1>2, SMT DEF Fits

LEMMA FitsNothing ==
  ASSUME NEW f, NEW z \in Nat, Fits(f, z, 0)
  PROVE  z = 0
<1>1. ChainIn(f, 0) = <<>>
  BY TableNumbers, NoChain
<1>2. Len(ChainIn(f, 0)) = 0
  BY <1>1
<1>3. ClusterSize \in Nat
  BY SlotNumbers
<1> QED BY <1>2, <1>3, SMT DEF Fits

\* i clusters of c bytes are one more than i - 1.
LEMMA OneMore ==
  ASSUME NEW c \in Nat, NEW i \in Nat, i >= 1
  PROVE  i * c = (i - 1) * c + c /\ (i - 1) * c \in Nat /\ i * c \in Nat
OBVIOUS

LEMMA NoMore ==
  ASSUME NEW c \in Nat, NEW i \in Nat, NEW n \in Nat, i <= n
  PROVE  i * c <= c * n /\ c * n \in Nat
OBVIOUS

\* A change of the FAT outside a chain.
LEMMA OthersKept ==
  ASSUME Acyclic(fat), NEW g, IsTable(g), NEW X, \A x \in FatIndex : x \notin X => g[x] = fat[x],
         NEW c \in Cluster \cup {0}, OnChainIn(fat, c) \cap X = {}
  PROVE  ChainIn(g, c) = ChainIn(fat, c)
<1>1. CASE c \in Cluster
  <2>1. WalkEnds(fat, c)
    BY <1>1 DEF Acyclic
  <2>2. \A x \in OnChainIn(fat, c) : x \in FatIndex
    BY <2>1, OnWalk, TableNumbers
  <2>3. \A x \in OnChainIn(fat, c) : g[x] = fat[x]
    BY <2>2
  <2> QED BY ONLY <2>1, <2>3, IsTable(g), WalkKept
<1>2. CASE c = 0
  <2>1. ChainIn(fat, c) = <<>> /\ ChainIn(g, c) = <<>>
    BY <1>2, TableNumbers, NoChain
  <2> QED BY <2>1
<1> QED BY <1>1, <1>2

\* Every chain that a file owns, but for that of the file in slot s0.
ChainsKept(g, s0) ==
  \A s \in Slot, c \in Cluster \cup {0} :
    s # s0 /\ Live(s) /\ Owns(s, c) => ChainIn(g, c) = ChainIn(fat, c)

\* The clusters that are handed out are on no chain, those of a file on no other.
LEMMA TakenKept ==
  ASSUME HandleInv, FilesApart, NEW n, NEW g, IsTable(g),
         \A x \in FatIndex : x \notin Taken(fat, hint, n) => g[x] = fat[x],
         NEW s0
  PROVE  ChainsKept(g, s0)
<1>1. hint \in Cluster /\ Acyclic(fat)
  BY Types DEF FilesApart
<1>2. \A x \in Taken(fat, hint, n) : fat[x] = FREE
  BY <1>1, TakenClusters
<1>3. ASSUME NEW s \in Slot, NEW c \in Cluster \cup {0}, Live(s), Owns(s, c)
      PROVE  ChainIn(g, c) = ChainIn(fat, c)
  <2>1. \A x \in OnChainIn(fat, c) : fat[x] # FREE
    BY <1>3, ChainNotFree
  <2>2. OnChainIn(fat, c) \cap Taken(fat, hint, n) = {}
    BY <1>2, <2>1
  <2> QED BY <1>1, <2>2, OthersKept
<1> QED BY <1>3 DEF ChainsKept

LEMMA OwnKept ==
  ASSUME HandleInv, FilesApart, NEW s0 \in Slot, NEW c0 \in Cluster \cup {0},
         Live(s0), Owns(s0, c0), NEW g, IsTable(g),
         \A x \in FatIndex : x \notin OnChainIn(fat, c0) => g[x] = fat[x]
  PROVE  ChainsKept(g, s0)
<1>1. ASSUME NEW s \in Slot, NEW c \in Cluster \cup {0}, s # s0, Live(s), Owns(s, c)
      PROVE  ChainIn(g, c) = ChainIn(fat, c)
  <2>1. OnChainIn(fat, c) \cap OnChainIn(fat, c0) = {}
    BY <1>1, ChainNotFree
  <2>2. Acyclic(fat)
    BY DEF FilesApart
  <2> QED BY <2>1, <2>2, OthersKept
<1> QED BY <1>1 DEF ChainsKept


\* A step that changes the chain, the size or the handle of one file at most.
LEMMA SizesKept ==
  ASSUME HandleInv, HandleInv', SizesCovered, EntriesFollow, UNCHANGED slots,
         NEW s0 \in Slot \cup {0}, ChainsKept(fat', s0),
         \A h \in Handles : files'[h].slot = files[h].slot,
         \A h \in Handles : files[h].slot # s0 =>
           files'[h].first = files[h].first /\ files'[h].size = files[h].size,
         \A h \in Handles : IsOpen(h) /\ files[h].slot = s0 =>
           Fits(fat', files'[h].size, files'[h].first),
         call.slot \in {0, s0, call'.slot},
         \/ s0 \in {0, call'.slot}
         \/ Fits(fat', slots[s0].size, slots[s0].first)
         \/ "truncate" \in Calls /\ \E h \in Handles : files[h].slot = s0
  PROVE  SizesCovered'
<1>1. /\ HandlesOK /\ HandlesMean /\ IsTable(fat)' /\ HandlesMean'
      /\ files \in [Handles -> HandleType]
      /\ \A s \in Slot : slots[s].first \in Cluster \cup {0} /\ slots[s].size \in Nat
                         /\ slots[s].name \in Names \cup {NoName}
  BY Types, SlotNumbers, SMTT(30) DEF HandleInv, HandlesOK, FileTypeOK, IsTable
<1>2. IsTable(fat')
  BY <1>1 DEF IsTable
<1>3. ASSUME NEW s \in Slot, NEW c \in Cluster \cup {0}, s # s0, Live(s), Owns(s, c), NEW z,
             Fits(fat, z, c)
      PROVE  Fits(fat', z, c)
  <2>1. ChainIn(fat', c) = ChainIn(fat, c)
    BY <1>3 DEF ChainsKept
  <2> QED BY <1>3, <2>1, SameFit
<1>4. ASSUME NEW h \in Handles PROVE Fits(fat', files'[h].size, files'[h].first)
  <2>1. CASE ~IsOpen(h)
    <3>1. files'[h] = ClosedFile
      BY <1>1, <2>1 DEF HandlesMean, IsOpen
    <3>2. files'[h].size = 0 /\ files'[h].first = 0
      BY <3>1 DEF ClosedFile
    <3> QED BY <1>2, <3>2, NothingFits
  <2>2. CASE IsOpen(h) /\ files[h].slot # s0
    <3>1. Live(files[h].slot) /\ files[h].slot \in Slot
      BY <1>1, <2>2, OpenLive DEF IsOpen, HandleType
    <3>2. Owns(files[h].slot, files[h].first) /\ files[h].first \in Cluster \cup {0}
      BY <1>1 DEF Owns, HandleType
    <3>3. Fits(fat, files[h].size, files[h].first)
      BY SizesFit
    <3> QED BY <1>3, <2>2, <3>1, <3>2, <3>3
  <2>3. CASE IsOpen(h) /\ files[h].slot = s0
    BY <2>3
  <2> QED BY <2>1, <2>2, <2>3
<1>5. ASSUME NEW s \in Slot, s # call'.slot,
             "truncate" \notin Calls \/ \A h \in Handles : files[h].slot # s
      PROVE  Fits(fat', slots[s].size, slots[s].first)
  <2>1. CASE s = s0
    BY <1>5, <2>1, SlotNumbers
  <2>2. CASE s # s0 /\ slots[s].name = NoName
    <3>1. slots[s].size = 0
      BY <2>2 DEF EntriesFollow
    <3> QED BY <1>1, <1>2, <3>1, NothingFits
  <2>3. CASE s # s0 /\ slots[s].name # NoName
    <3>1. s # call.slot /\ Live(s)
      BY <1>5, <2>3, SlotNumbers DEF Live
    <3>2. Fits(fat, slots[s].size, slots[s].first)
      BY <1>5, <3>1, SizesFit
    <3>3. CASE \A h \in Handles : files[h].slot # s
      <4>1. Owns(s, slots[s].first)
        BY <3>3 DEF Owns
      <4> QED BY <1>1, <1>3, <2>3, <3>1, <3>2, <4>1
    <3>4. ASSUME NEW h \in Handles, files[h].slot = s
          PROVE  Fits(fat', slots[s].size, slots[s].first)
      <4>1. slots[s].first \in {0, files[h].first}
        BY <1>5, <3>4, SlotNumbers DEF EntriesFollow, IsOpen
      <4>2. CASE slots[s].first = 0
        <5>1. slots[s].size = 0
          BY <1>1, <3>2, <4>2, FitsNothing
        <5> QED BY <1>1, <1>2, <5>1, NothingFits
      <4>3. CASE slots[s].first = files[h].first
        <5>1. Owns(s, slots[s].first)
          BY <3>4, <4>3 DEF Owns
        <5> QED BY <1>1, <1>3, <2>3, <3>1, <3>2, <5>1
      <4> QED BY <4>1, <4>2, <4>3
    <3> QED BY <3>3, <3>4
  <2> QED BY <2>1, <2>2, <2>3
<1>6. SizesCovered' <=>
        /\ \A h \in Handles : Fits(fat', files'[h].size, files'[h].first)
        /\ \A s \in Slot :
             /\ s # call'.slot
             /\ "truncate" \notin Calls \/ \A h \in Handles : files'[h].slot # s
             => Fits(fat', slots'[s].size, slots'[s].first)
  BY DEF SizesCovered, Fits, Capacity
<1> QED BY <1>4, <1>5, <1>6

\* A step that leaves the FAT and the sizes alone.
LEMMA SizesStay ==
  ASSUME HandleInv, HandleInv', SizesCovered, EntriesFollow, UNCHANGED <<fat, slots>>,
         call'.slot = call.slot,
         \A h \in Handles : /\ files'[h].slot = files[h].slot /\ files'[h].first = files[h].first
                            /\ files'[h].size = files[h].size
  PROVE  SizesCovered'
BY SizesFit DEF SizesCovered, Capacity

\* The same of EntriesFollow.
LEMMA EntriesStay ==
  ASSUME EntriesFollow, UNCHANGED slots, call'.op \in {call.op, "none", "write", "copy"},
         \A h \in Handles : files'[h].slot = files[h].slot
                            /\ (files[h].first # 0 => files'[h].first = files[h].first),
         HandleInv
  PROVE  EntriesFollow'
<1>1. "truncate" \notin Calls =>
        \A h \in Handles : IsOpen(h)' => slots'[files'[h].slot].first \in {0, files'[h].first}
  BY DEF EntriesFollow, IsOpen
<1>2. call'.op = "unlink" => "unlink" \in Calls
  BY DEF EntriesFollow
<1>3. \A s \in Slot : slots'[s].name = NoName => slots'[s].size = 0
  BY DEF EntriesFollow
<1> QED BY <1>1, <1>2, <1>3 DEF EntriesFollow

\* Outside f_write there is no place to keep.
LEMMA NoPlace ==
  ASSUME call'.op \in {"none", "unlink"}
  PROVE  InPlace'
BY DEF InPlace

-----------------------------------------------------------------------------
(* Every call keeps the files covered.                                     *)

LEMMA ReadCovers ==
  ASSUME HandleInv, HandleInv', Covered,
         \/ \E h \in Handles, n \in Nat : ReadFile(h, n) \/ Seek(h, n)
         \/ \E h \in Handles, n \in Nat : \E k \in 0 .. n : Forward(h, n, k)
         \/ \E n \in Names : Stat(n)
  PROVE  Covered'
<1>1. /\ UNCHANGED <<fat, slots, call>> /\ call.op = "none"
      /\ files' = files \/ \E h \in Handles, p \in Nat : files' = [files EXCEPT ![h].pos = p]
  BY ReadMoves
<1>2. files \in [Handles -> HandleType]
  BY Types
<1>3. \A h \in Handles : /\ files'[h].slot = files[h].slot /\ files'[h].first = files[h].first
                         /\ files'[h].size = files[h].size
  <2>1. ASSUME NEW h \in Handles, NEW p \in Nat, files' = [files EXCEPT ![h].pos = p],
               NEW g \in Handles
        PROVE  /\ files'[g].slot = files[g].slot /\ files'[g].first = files[g].first
               /\ files'[g].size = files[g].size
    BY <1>2, <2>1 DEF HandleType
  <2> QED BY <1>1, <2>1
<1>4. SizesCovered'
  BY <1>1, <1>3, SizesStay DEF Covered
<1>5. EntriesFollow'
  BY <1>1, <1>3, EntriesStay DEF Covered
<1> QED BY <1>1, <1>4, <1>5, NoPlace DEF Covered

LEMMA OpenCovers ==
  ASSUME HandleInv, HandleInv', Covered, NEW h \in Handles, NEW n \in Names, OpenFile(h, n)
  PROVE  Covered'
<1> DEFINE s == IF SlotOf(n) # 0 THEN SlotOf(n)
                ELSE Least({t \in Slot : slots[t].name = NoName})
           entry == IF SlotOf(n) # 0 THEN slots[s] ELSE [FreeSlot EXCEPT !.name = n]
           r == [slot |-> s, first |-> entry.first, pos |-> 0, size |-> entry.size]
<1>1. /\ ~IsOpen(h) /\ call.op = "none"
      /\ \A g \in Handles : IsOpen(g) /\ files[g].slot = SlotOf(n) => ~Dirty(g)
      /\ slots' = [slots EXCEPT ![s] = entry] /\ files' = [files EXCEPT ![h] = r]
      /\ UNCHANGED <<fat, call>>
  BY DEF OpenFile, Ready
<1>2. HandlesOK /\ HandlesMean /\ NamesOnce /\ FileTypeOK /\ IsTable(fat) /\ call.slot = 0
  BY HandlesAre, <1>1, Types DEF HandleInv, Unlinking
<1>3. /\ s \in Slot
      /\ SlotOf(n) # 0 => s = SlotOf(n) /\ entry = slots[s] /\ slots[s].name = n
      /\ SlotOf(n) = 0 => /\ entry.first = 0 /\ entry.size = 0 /\ entry.name = n
                          /\ slots[s].name = NoName
  <2>1. CASE SlotOf(n) # 0
    BY <2>1, SlotOfFacts
  <2>2. CASE SlotOf(n) = 0
    <3>1. s \in Slot /\ slots[s].name = NoName
      BY <1>2, <2>2, FreeSlotFound
    <3>2. entry = [FreeSlot EXCEPT !.name = n]
      BY <2>2
    <3>3. entry.first = 0 /\ entry.size = 0 /\ entry.name = n
      BY <3>2 DEF FreeSlot
    <3> QED BY <2>2, <3>1, <3>3
  <2> QED BY <2>1, <2>2
<1>4. r.slot = s /\ r.first = entry.first /\ r.size = entry.size
  OBVIOUS
<1> HIDE DEF s, entry, r
<1>5. /\ slots'[s] = entry /\ \A t \in Slot : t # s => slots'[t] = slots[t]
      /\ files'[h] = r /\ \A g \in Handles : g # h => files'[g] = files[g]
  BY <1>1, <1>2, <1>3 DEF HandlesOK
<1>6. \A g \in Handles : files[g].slot = s => SlotOf(n) # 0 /\ IsOpen(g) /\ g # h
  BY <1>1, <1>2, <1>3, SlotNumbers DEF HandlesMean, IsOpen
<1>7. \A g \in Handles : files[g].slot = s =>
        files[g].first = slots[s].first /\ files[g].size = slots[s].size
  BY <1>1, <1>3, <1>6 DEF Dirty
<1>8. Fits(fat, entry.size, entry.first)
  <2>1. CASE SlotOf(n) = 0
    BY <1>2, <1>3, <2>1, NothingFits
  <2>2. ASSUME SlotOf(n) # 0, NEW g \in Handles, files[g].slot = s
        PROVE  Fits(fat, entry.size, entry.first)
    BY <1>3, <1>7, <2>2, SizesFit DEF Covered
  <2>3. CASE SlotOf(n) # 0 /\ \A g \in Handles : files[g].slot # s
    BY <1>2, <1>3, <2>3, SizesFit, SlotNumbers DEF Covered
  <2> QED BY <2>1, <2>2, <2>3
<1>9. SizesCovered'
  <2>1. \A g \in Handles : Fits(fat, files'[g].size, files'[g].first)
    BY <1>4, <1>5, <1>8, SizesFit DEF Covered
  <2>2. ASSUME NEW t \in Slot, t # s,
               "truncate" \notin Calls \/ \A g \in Handles : files'[g].slot # t
        PROVE  Fits(fat, slots'[t].size, slots'[t].first)
    <3>1. \A g \in Handles : files[g].slot = t => files'[g].slot = t
      BY <1>1, <1>5, <2>2, SlotNumbers DEF IsOpen
    <3>2. "truncate" \notin Calls \/ \A g \in Handles : files[g].slot # t
      BY <2>2, <3>1
    <3>3. t # call.slot
      BY <1>2, SlotNumbers
    <3> QED BY <1>5, <2>2, <3>2, <3>3, SizesFit DEF Covered
  <2>3. \A t \in Slot : "truncate" \notin Calls \/ (\A g \in Handles : files'[g].slot # t) =>
          Fits(fat, slots'[t].size, slots'[t].first)
    BY <1>5, <1>8, <2>2
  <2> QED BY <1>1, <2>1, <2>3 DEF SizesCovered, Fits, Capacity
<1>10. EntriesFollow'
  <2>1. \A t \in Slot : slots'[t].name = NoName => slots'[t].size = 0
    BY <1>3, <1>5, FileAssumption DEF Covered, EntriesFollow
  <2>2. ASSUME "truncate" \notin Calls, NEW g \in Handles, IsOpen(g)'
        PROVE  slots'[files'[g].slot].first \in {0, files'[g].first}
    <3>1. CASE g = h
      BY <1>4, <1>5, <3>1
    <3>2. CASE g # h /\ files[g].slot = s
      BY <1>3, <1>5, <1>6, <1>7, <3>2
    <3>3. CASE g # h /\ files[g].slot # s
      <4>1. IsOpen(g) /\ files[g].slot \in Slot
        BY <1>2, <1>5, <2>2, <3>3 DEF IsOpen, HandlesOK, HandleType
      <4> QED BY <1>5, <2>2, <3>3, <4>1 DEF Covered, EntriesFollow
    <3> QED BY <3>1, <3>2, <3>3
  <2>3. call'.op # "unlink"
    BY <1>1
  <2> QED BY <2>1, <2>2, <2>3 DEF EntriesFollow
<1> QED BY <1>1, <1>9, <1>10, NoPlace DEF Covered

LEMMA CloseCovers ==
  ASSUME HandleInv, HandleInv', Covered, NEW h \in Handles, CloseFile(h) \/ SyncFile(h)
  PROVE  Covered'
<1>1. /\ IsOpen(h) /\ call.op = "none" /\ UNCHANGED <<fat, call>>
      /\ \/ UpdateEntry(h) /\ (files' = files \/ files' = [files EXCEPT ![h] = ClosedFile])
         \/ UNCHANGED <<slots, files>>
  BY Zenon DEF CloseFile, SyncFile, EntryFails, Ready
<1>2. /\ HandlesOK /\ HandlesMean /\ files \in [Handles -> HandleType] /\ IsTable(fat)
      /\ call.slot = 0
  BY HandlesAre, <1>1, Types DEF HandlesOK, Unlinking
<1>3. CASE UNCHANGED <<slots, files>>
  <2>1. SizesCovered'
    BY <1>1, <1>3, SizesStay DEF Covered
  <2>2. EntriesFollow'
    BY <1>1, <1>3, EntriesStay DEF Covered
  <2> QED BY <1>1, <2>1, <2>2, NoPlace DEF Covered
<1>4. ASSUME UpdateEntry(h), files' = files \/ files' = [files EXCEPT ![h] = ClosedFile]
      PROVE  Covered'
  <2> DEFINE s == files[h].slot
  <2>1. /\ \A t \in Slot : slots'[t].name = slots[t].name
        /\ slots'[s].first = files[h].first /\ slots'[s].size = files[h].size
        /\ \A t \in Slot : t # s => slots'[t] = slots[t]
        /\ s \in Slot /\ slots[s].name # NoName
    BY <1>1, <1>2, <1>4, UpdateStep DEF HandlesMean, IsOpen, HandleType
  <2>2. ClosedFile.slot = 0 /\ ClosedFile.first = 0 /\ ClosedFile.size = 0
    BY DEF ClosedFile
  <2>3. /\ \A g \in Handles : g # h => files'[g] = files[g]
        /\ files'[h] = files[h] \/ files'[h] = ClosedFile
    BY <1>2, <1>4
  <2> HIDE DEF s
  <2>4. SizesCovered'
    <3>1. \A g \in Handles : Fits(fat, files'[g].size, files'[g].first)
      <4>1. Fits(fat, 0, 0)
        BY <1>2, NothingFits
      <4> QED BY <2>2, <2>3, <4>1, SizesFit DEF Covered
    <3>2. ASSUME NEW t \in Slot, t # s,
                 "truncate" \notin Calls \/ \A g \in Handles : files'[g].slot # t
          PROVE  Fits(fat, slots'[t].size, slots'[t].first)
      <4>1. \A g \in Handles : files[g].slot = t => files'[g].slot = t
        BY <2>3, <3>2 DEF s
      <4>2. t # call.slot
        BY <1>2, SlotNumbers
      <4> QED BY <2>1, <3>2, <4>1, <4>2, SizesFit DEF Covered
    <3>3. Fits(fat, slots'[s].size, slots'[s].first)
      BY <2>1, SizesFit DEF Covered
    <3>4. \A t \in Slot : "truncate" \notin Calls \/ (\A g \in Handles : files'[g].slot # t) =>
            Fits(fat, slots'[t].size, slots'[t].first)
      BY <3>2, <3>3
    <3> QED BY <1>1, <3>1, <3>4 DEF SizesCovered, Fits, Capacity
  <2>5. EntriesFollow'
    <3>1. \A t \in Slot : slots'[t].name = NoName => slots'[t].size = 0
      BY <2>1 DEF Covered, EntriesFollow
    <3>2. ASSUME "truncate" \notin Calls, NEW g \in Handles, IsOpen(g)'
          PROVE  slots'[files'[g].slot].first \in {0, files'[g].first}
      <4>1. files'[g] = files[g] /\ IsOpen(g) /\ files[g].slot \in Slot
        BY <1>2, <2>2, <2>3, <3>2 DEF IsOpen, HandleType
      <4>2. CASE files[g].slot = s
        <5>1. Owns(s, files[g].first) /\ Owns(s, files[h].first)
          BY <4>2 DEF Owns, s
        <5> QED BY <2>1, <4>1, <4>2, <5>1, OwnsOnce
      <4>3. CASE files[g].slot # s
        BY <2>1, <3>2, <4>1, <4>3 DEF Covered, EntriesFollow
      <4> QED BY <4>2, <4>3
    <3>3. call'.op # "unlink"
      BY <1>1
    <3> QED BY <3>1, <3>2, <3>3 DEF EntriesFollow
  <2> QED BY <1>1, <2>4, <2>5, NoPlace DEF Covered
<1> QED BY <1>1, <1>3, <1>4

LEMMA FirstOfChain ==
  ASSUME NEW f, Acyclic(f), NEW c \in Cluster
  PROVE  /\ Len(ChainIn(f, c)) \in Nat /\ 1 \in 1 .. Len(ChainIn(f, c))
         /\ ChainIn(f, c)[1] = c
<1>1. WalkEnds(f, c)
  BY DEF Acyclic
<1>2. ChainIn(f, c)[1] = c
  BY <1>1, ChainOfWalk
<1>3. Len(ChainIn(f, c)) \in Nat /\ Len(ChainIn(f, c)) >= 1
  BY <1>1, OnWalk
<1>4. 1 \in 1 .. Len(ChainIn(f, c))
  BY <1>3, SMT
<1> QED BY <1>2, <1>3, <1>4

\* Where an f_write may be.
LEMMA PlaceAt ==
  ASSUME NEW h, call'.op = "write", call'.handle = h, NEW c, c = files'[h].first,
         NEW i \in Nat, i \in 1 .. Len(ChainIn(fat', c)), call'.cluster = ChainIn(fat', c)[i],
         (i - 1) * ClusterSize + call'.offset = files'[h].pos + call'.done,
         call'.offset = 0 \/ call'.done = 0
  PROVE  InPlace'
<1>1. At(i)'
  BY DEF At
<1>2. ((i - 1) * ClusterSize + call.offset = Reached)'
  BY DEF Reached
<1> QED BY <1>1, <1>2, Zenon DEF InPlace

LEMMA PlaceBehind ==
  ASSUME call'.op = "write", call'.cluster \notin Cluster, call'.offset = 0
  PROVE  InPlace'
BY Zenon DEF InPlace

LEMMA PlaceCopied ==
  ASSUME NEW h, call'.op = "copy", call'.handle = h, NEW c, c = files'[h].first,
         NEW i \in Nat, i \in 1 .. Len(ChainIn(fat', c)), call'.cluster = ChainIn(fat', c)[i],
         i * ClusterSize = files'[h].pos + call'.done
  PROVE  InPlace'
<1>1. At(i)'
  BY DEF At
<1>2. (i * ClusterSize = Reached)'
  BY DEF Reached
<1> QED BY <1>1, <1>2, Zenon DEF InPlace

LEMMA BeginWriteCovers ==
  ASSUME HandleInv, HandleInv', FilesApart, FilesApart', Covered,
         NEW h \in Handles, NEW buffer \in Buffers, BeginWrite(h, buffer)
  PROVE  Covered'
<1> DEFINE new == Allocate(fat, hint, 1)
           T == Taken(fat, hint, 1)
           first == IF files[h].first = 0 THEN new.first ELSE files[h].first
<1>1. /\ call.op = "none" /\ IsOpen(h) /\ Sole(h) /\ UNCHANGED slots
      /\ \/ UNCHANGED <<fat, files, call>>
         \/ /\ call' = [NoCall EXCEPT !.op = "write", !.handle = h, !.cluster = first,
                          !.offset = files[h].pos, !.buffer = buffer]
            /\ first # 0 /\ files' = [files EXCEPT ![h].first = first]
            /\ \/ files[h].first # 0 /\ UNCHANGED fat
               \/ files[h].first = 0 /\ fat' = new.fat
  BY DEF BeginWrite, Ready
<1>2. CASE UNCHANGED <<fat, files, call>>
  <2>1. SizesCovered'
    BY <1>1, <1>2, SizesStay DEF Covered
  <2>2. EntriesFollow'
    BY <1>1, <1>2, EntriesStay DEF Covered
  <2> QED BY <1>1, <1>2, <2>1, <2>2, NoPlace DEF Covered
<1>3. /\ files \in [Handles -> HandleType] /\ hint \in Cluster /\ IsTable(fat) /\ call.slot = 0
      /\ Acyclic(fat') /\ files'[h].first \in Cluster \cup {0}
  <2>1. Acyclic(fat)'
    BY DEF FilesApart
  <2>2. files' \in [Handles -> HandleType]
    BY DEF HandleInv, FileTypeOK, HandleType
  <2>3. Acyclic(fat')
    BY <2>1 DEF Acyclic, IsTable, WalkEnds
  <2> QED BY <1>1, <2>2, <2>3, Types DEF Unlinking, HandleType
<1>4. ASSUME call' = [NoCall EXCEPT !.op = "write", !.handle = h, !.cluster = first,
                        !.offset = files[h].pos, !.buffer = buffer],
             first # 0, files' = [files EXCEPT ![h].first = first],
             \/ files[h].first # 0 /\ UNCHANGED fat
             \/ files[h].first = 0 /\ fat' = new.fat
      PROVE  Covered'
  <2> DEFINE s0 == files[h].slot
  <2>1. /\ call'.op = "write" /\ call'.handle = h /\ call'.cluster = first /\ call'.slot = 0
        /\ call'.offset = files[h].pos /\ call'.done = 0
    BY <1>4 DEF NoCall
  <2>2. /\ \A g \in Handles : files'[g].slot = files[g].slot /\ files'[g].size = files[g].size
        /\ \A g \in Handles : g # h => files'[g] = files[g]
        /\ files'[h].first = first /\ files'[h].pos = files[h].pos
        /\ first = IF files[h].first = 0 THEN new.first ELSE files[h].first
    BY <1>3, <1>4 DEF HandleType
  <2>3. first \in Cluster
    BY <1>3, <1>4, <2>2
  <2> HIDE DEF first, new
  <2>4. InPlace'
    <3>1. 1 \in 1 .. Len(ChainIn(fat', first)) /\ ChainIn(fat', first)[1] = first
      BY <1>3, <2>3, FirstOfChain
    <3>2. (1 - 1) * ClusterSize + call'.offset = files'[h].pos + call'.done
      <4>1. files[h].pos \in Nat /\ ClusterSize \in Nat
        BY RoomType, SlotNumbers
      <4> QED BY <2>1, <2>2, <4>1, SMT
    <3> QED BY <2>1, <2>2, <3>1, <3>2, PlaceAt
  <2>5. EntriesFollow'
    BY <1>1, <2>1, <2>2, EntriesStay DEF Covered
  <2>6. CASE UNCHANGED fat /\ files[h].first # 0
    <3>1. \A g \in Handles : files'[g].first = files[g].first
      BY <2>2, <2>6
    <3> QED BY <1>1, <1>3, <2>1, <2>2, <2>4, <2>5, <2>6, <3>1, SizesStay DEF Covered
  <2>7. CASE files[h].first = 0 /\ fat' = new.fat
    <3>1. s0 \in Slot /\ Live(s0)
      BY <1>1, <1>3, OpenLive DEF IsOpen, HandleType
    <3>2. /\ IsTable(fat') /\ \A x \in FatIndex : x \notin T => fat'[x] = fat[x]
      BY <1>3, <2>7, AllocateFacts DEF new
    <3>3. ChainsKept(fat', s0)
      BY <3>2, TakenKept
    <3>4. files[h].size = 0
      <4>1. Fits(fat, files[h].size, 0) /\ files[h].size \in Nat
        BY <2>7, SizesFit, RoomType DEF Covered
      <4> QED BY <4>1, FitsNothing
    <3>5. Fits(fat', files'[h].size, files'[h].first)
      BY <2>2, <2>3, <3>2, <3>4, NothingFits
    <3>6. \A g \in Handles : files[g].slot = s0 => g = h
      BY <1>1 DEF Sole
    <3>7. \/ Fits(fat', slots[s0].size, slots[s0].first)
          \/ "truncate" \in Calls /\ \E g \in Handles : files[g].slot = s0
      <4>1. CASE "truncate" \in Calls
        BY <4>1
      <4>2. CASE "truncate" \notin Calls
        <5>1. slots[s0].first = 0
          BY <1>1, <2>7, <4>2 DEF Covered, EntriesFollow
        <5>2. Fits(fat, slots[s0].size, 0) /\ slots[s0].size \in Nat
          <6>1. s0 # call.slot
            BY <1>3, <3>1, SlotNumbers
          <6>2. \A s \in Slot : slots[s].size \in Nat
            BY Types, SlotNumbers DEF HandlesOK
          <6> QED BY <3>1, <4>2, <5>1, <6>1, <6>2, SizesFit DEF Covered
        <5>3. slots[s0].size = 0
          BY <5>2, FitsNothing
        <5> QED BY <3>2, <5>1, <5>3, NothingFits
      <4> QED BY <4>1, <4>2
    <3>8. SizesCovered'
      BY <1>1, <1>3, <2>1, <2>2, <3>1, <3>3, <3>5, <3>6, <3>7, SizesKept DEF Covered
    <3> QED BY <2>4, <2>5, <3>8 DEF Covered
  <2> QED BY <1>4, <2>2, <2>6, <2>7
<1> QED BY <1>1, <1>2, <1>4

\* The chain of the file an f_write is about.
LEMMA WritersLinks ==
  ASSUME HandleInv, FilesApart, call.op \in {"write", "copy"},
         NEW h, h = call.handle, NEW c, c = files[h].first
  PROVE  /\ h \in Handles /\ c \in Cluster \cup {0} /\ Len(ChainIn(fat, c)) \in Nat
         /\ files[h].slot \in Slot /\ Live(files[h].slot) /\ Owns(files[h].slot, c)
         /\ files[h].pos \in Nat /\ files[h].size \in Nat /\ files[h].pos <= files[h].size
         /\ \A i \in 1 .. Len(ChainIn(fat, c)) :
              /\ ChainIn(fat, c)[i] \in Cluster
              /\ NextIn(fat, ChainIn(fat, c)[i]) # 0
              /\ NextIn(fat, ChainIn(fat, c)[i]) \in Cluster =>
                   /\ i + 1 \in 1 .. Len(ChainIn(fat, c))
                   /\ NextIn(fat, ChainIn(fat, c)[i]) = ChainIn(fat, c)[i + 1]
              /\ NextIn(fat, ChainIn(fat, c)[i]) \notin Cluster => i = Len(ChainIn(fat, c))
<1>1. h \in Handles /\ IsOpen(h)
  BY Types DEF Writing
<1>2. c \in Cluster \cup {0} /\ files[h].slot \in Slot
  BY <1>1, Types DEF HandleType, IsOpen
<1>3. files[h].pos \in Nat /\ files[h].size \in Nat /\ files[h].pos <= files[h].size
  BY <1>1, RoomType, Types DEF HandlesOK, HandlesMean
<1>4. IsTable(fat) /\ Acyclic(fat) /\ c \in Entry
  BY <1>2, Types, TableNumbers DEF FilesApart
<1>5. Len(ChainIn(fat, c)) \in Nat /\ \A i \in 1 .. Len(ChainIn(fat, c)) : ChainIn(fat, c)[i] \in Cluster
  BY <1>4, ChainClusters
<1>6. Live(files[h].slot) /\ Owns(files[h].slot, c)
  BY <1>1, OpenLive DEF Owns
<1>7. ASSUME NEW i \in 1 .. Len(ChainIn(fat, c))
      PROVE  LET x == ChainIn(fat, c)[i] IN
             /\ x \in Cluster /\ NextIn(fat, x) # 0
             /\ NextIn(fat, x) \in Cluster =>
                  i + 1 \in 1 .. Len(ChainIn(fat, c)) /\ NextIn(fat, x) = ChainIn(fat, c)[i + 1]
             /\ NextIn(fat, x) \notin Cluster => i = Len(ChainIn(fat, c))
  <2> DEFINE s == ChainIn(fat, c)
             x == s[i]
  <2>1. c \in Cluster
    <3>1. CASE c = 0
      <4>1. s = <<>>
        BY <3>1, TableNumbers, NoChain
      <4>2. Len(s) = 0
        BY <4>1
      <4> QED BY <1>7, <4>2, SMT
    <3> QED BY <1>2, <3>1
  <2>2. WalkEnds(fat, c)
    BY <1>4, <2>1 DEF Acyclic
  <2>3. Whole(fat, s) /\ Path(fat, s) /\ x \in OnChainIn(fat, c)
    BY <1>7, <2>2, ChainOfWalk, OnWalk DEF Whole
  <2>4. x \in Cluster /\ x \in FatIndex /\ fat[x] # FREE /\ NextIn(fat, x) = fat[x]
    BY <1>2, <1>5, <1>6, <1>7, <2>3, ChainNotFree, TableNumbers DEF NextIn
  <2> HIDE DEF s
  <2>5. i \in 1 .. Len(s)
    BY <1>7 DEF s
  <2>6. fat[x] \in Cluster => i + 1 \in 1 .. Len(s) /\ s[i + 1] = fat[x]
    BY ONLY <2>3, <2>5, NextOfChain
  <2>7. fat[x] \notin Cluster => i = Len(s)
    BY ONLY <2>3, <2>5, LastOfChain
  <2> QED BY <2>4, <2>6, <2>7, TableNumbers DEF s
<1> QED BY <1>1, <1>2, <1>3, <1>5, <1>6, <1>7

LEMMA WritersChain ==
  ASSUME HandleInv, FilesApart, SizesCovered, call.op \in {"write", "copy"},
         NEW h, h = call.handle, NEW c, c = files[h].first
  PROVE  /\ h \in Handles /\ c \in Cluster \cup {0} /\ Len(ChainIn(fat, c)) \in Nat
         /\ files[h].pos \in Nat /\ files[h].size \in Nat /\ files[h].pos <= files[h].size
         /\ files[h].size <= ClusterSize * Len(ChainIn(fat, c))
         /\ \A i \in 1 .. Len(ChainIn(fat, c)) :
              /\ ChainIn(fat, c)[i] \in Cluster
              /\ NextIn(fat, ChainIn(fat, c)[i]) # 0
              /\ NextIn(fat, ChainIn(fat, c)[i]) \in Cluster =>
                   /\ i + 1 \in 1 .. Len(ChainIn(fat, c))
                   /\ NextIn(fat, ChainIn(fat, c)[i]) = ChainIn(fat, c)[i + 1]
              /\ NextIn(fat, ChainIn(fat, c)[i]) \notin Cluster => i = Len(ChainIn(fat, c))
<1>1. h \in Handles
  BY WritersLinks
<1>2. files[h].size <= ClusterSize * Len(ChainIn(fat, c))
  BY <1>1 DEF SizesCovered, Capacity
<1> QED BY <1>2, WritersLinks

\* On to the next cluster: the next one of the chain, or past its end.
LEMMA WalkCovers ==
  ASSUME HandleInv, HandleInv', FilesApart, Covered, WalkToPosition \/ AdvanceWrite,
         faults' = 0
  PROVE  Covered'
<1> DEFINE h == call.handle
           c == files[h].first
           s == ChainIn(fat, c)
           reached == files[h].pos + call.done
           next == NextIn(fat, call.cluster)
           offset == IF call.op = "write" THEN call.offset - ClusterSize ELSE 0
           frame == IF call.op = "write" THEN [call EXCEPT !.offset = offset]
                    ELSE [call EXCEPT !.op = "write", !.offset = 0]
<1>1. /\ call.op \in {"write", "copy"} /\ GoToNext(frame) /\ UNCHANGED <<slots, files>>
      /\ call.op = "write" => call.offset >= ClusterSize
  BY DEF WalkToPosition, AdvanceWrite
<1>2. /\ call \in CallType /\ call.offset \in Nat /\ call.done \in Nat /\ call.slot = 0
      /\ ClusterSize \in Nat /\ ClusterSize >= 1 /\ offset \in Nat
  <2>1. call.offset \in Nat /\ call.done \in Nat
    BY Types DEF CallType
  <2>2. ClusterSize \in Nat /\ ClusterSize >= 1
    BY SlotNumbers
  <2>3. offset \in Nat
    BY <1>1, <2>1, <2>2, SMT
  <2> QED BY <1>1, <2>1, <2>2, <2>3, Types DEF Unlinking
<1>3. /\ h \in Handles /\ c \in Cluster \cup {0} /\ Len(s) \in Nat
      /\ files[h].pos \in Nat /\ files[h].size \in Nat /\ files[h].pos <= files[h].size
      /\ files[h].size <= ClusterSize * Len(s)
      /\ \A i \in 1 .. Len(s) : /\ s[i] \in Cluster /\ NextIn(fat, s[i]) # 0
                                /\ NextIn(fat, s[i]) \in Cluster =>
                                     i + 1 \in 1 .. Len(s) /\ NextIn(fat, s[i]) = s[i + 1]
                                /\ NextIn(fat, s[i]) \notin Cluster => i = Len(s)
  BY <1>1, WritersChain DEF Covered
<1>4. PICK i : /\ i \in Nat /\ i \in 1 .. Len(s) /\ call.cluster = s[i]
               /\ call.op = "write" =>
                    (i - 1) * ClusterSize + call.offset = reached /\ call.done = 0
               /\ call.op = "copy" => i * ClusterSize = reached
  <2>1. CASE call.op = "write"
    <3>1. call.offset # 0
      BY <1>1, <1>2, <2>1, SMT
    <3>2. PICK i \in Nat : /\ At(i) /\ (i - 1) * ClusterSize + call.offset = Reached
                           /\ (call.offset = 0 \/ call.done = 0)
      BY <2>1, <3>1 DEF Covered, InPlace
    <3> QED BY <2>1, <3>1, <3>2 DEF At, Reached
  <2>2. CASE call.op = "copy"
    <3>1. PICK i \in Nat : At(i) /\ i * ClusterSize = Reached
      BY <2>2 DEF Covered, InPlace
    <3> QED BY <2>2, <3>1 DEF At, Reached
  <2> QED BY <1>1, <2>1, <2>2
<1>5. /\ frame \in CallType /\ frame.op = "write" /\ frame.handle = h /\ frame.slot = 0
      /\ frame.done = call.done /\ frame.offset = offset
  <2>1. CASE call.op = "write"
    <3>1. frame = [call EXCEPT !.offset = offset]
      BY <2>1
    <3> HIDE DEF frame, offset
    <3> QED BY <1>2, <2>1, <3>1, CallUpdates DEF CallType
  <2>2. CASE call.op = "copy"
    <3> DEFINE k == [call EXCEPT !.op = "write"]
    <3>1. frame = [k EXCEPT !.offset = 0] /\ offset = 0
      BY <1>2, <2>2 DEF CallType
    <3>2. /\ k \in CallType /\ k.op = "write" /\ k.handle = h /\ k.slot = 0
          /\ k.done = call.done
      BY <1>2 DEF CallType
    <3> HIDE DEF frame, offset, k
    <3> QED BY <3>1, <3>2, CallUpdates DEF CallType
  <2> QED BY <1>1, <2>1, <2>2
<1>6. next # 0 /\ next \in Entry
  <2>1. next # 0
    BY <1>3, <1>4
  <2> QED BY <2>1, Types, NextInType
<1>7. UNCHANGED fat /\ call' = [frame EXCEPT !.cluster = next]
  <2>1. ~Fault
    <3>1. faults \in Nat
      BY FaultCount, FileAssumption
    <3> QED BY <3>1, SMT DEF Fault
  <2>2. NextCluster(next, frame)
    BY <1>1, <2>1 DEF GoToNext
  <2> HIDE DEF next, frame
  <2> QED BY <1>6, <2>2 DEF NextCluster
<1>8. /\ call'.op = "write" /\ call'.handle = h /\ call'.slot = 0 /\ call'.done = call.done
      /\ call'.offset = offset /\ call'.cluster = next
  <2> HIDE DEF frame, next, offset
  <2> QED BY <1>5, <1>6, <1>7, CallUpdates DEF CallType
<1>9. SizesCovered'
  BY <1>1, <1>2, <1>7, <1>8, SizesStay DEF Covered
<1>10. EntriesFollow'
  BY <1>1, <1>8, EntriesStay DEF Covered
<1>11. InPlace'
  <2> HIDE DEF offset
  <2>1. CASE next \in Cluster
    <3>1. i + 1 \in Nat /\ i + 1 \in 1 .. Len(s) /\ next = s[i + 1]
      BY <1>3, <1>4, <2>1
    <3>2. ((i + 1) - 1) * ClusterSize + offset = reached
      <4>1. CASE call.op = "write"
        <5>1. (i - 1) * ClusterSize + call.offset = reached /\ offset = call.offset - ClusterSize
          BY <1>4, <4>1 DEF offset
        <5>2. reached \in Nat
          BY <1>2, <1>3, SMT
        <5>3. ((i + 1) - 1) * ClusterSize = (i - 1) * ClusterSize + ClusterSize
          BY <1>2, <1>4, SMT
        <5> HIDE DEF reached
        <5> QED BY <1>2, <1>4, <5>1, <5>2, <5>3, SMT
      <4>2. CASE call.op = "copy"
        <5>1. i * ClusterSize = reached /\ offset = 0
          BY <1>4, <4>2 DEF offset
        <5>2. ((i + 1) - 1) * ClusterSize = i * ClusterSize /\ i * ClusterSize \in Nat
          BY <1>2, <1>4, SMT
        <5> HIDE DEF reached
        <5> QED BY <5>1, <5>2, SMT
      <4> QED BY <1>1, <4>1, <4>2
    <3>3. offset = 0 \/ call.done = 0
      BY <1>1, <1>4 DEF offset
    <3> HIDE DEF next
    <3> QED BY <1>1, <1>7, <1>8, <3>1, <3>2, <3>3, PlaceAt
  <2>2. CASE next \notin Cluster
    <3>1. i = Len(s)
      BY <1>3, <1>4, <2>2
    <3>2. offset = 0
      <4>1. CASE call.op = "write"
        <5>1. /\ (i - 1) * ClusterSize + call.offset = files[h].pos + 0
              /\ offset = call.offset - ClusterSize
          BY <1>4, <4>1 DEF offset
        <5>2. ClusterSize * i = (i - 1) * ClusterSize + ClusterSize
          BY <1>2, <1>4, SMT
        <5>3. files[h].size <= ClusterSize * i
          BY <1>3, <3>1
        <5> QED BY <1>2, <1>3, <1>4, <5>1, <5>2, <5>3, SMTT(30)
      <4>2. CASE call.op = "copy"
        BY <4>2 DEF offset
      <4> QED BY <1>1, <4>1, <4>2
    <3> QED BY <1>8, <2>2, <3>2, PlaceBehind
  <2> QED BY <2>1, <2>2
<1> QED BY <1>9, <1>10, <1>11 DEF Covered

LEMMA WriteClusterCovers ==
  ASSUME HandleInv, HandleInv', FilesApart, Covered, WriteCluster \/ WriteClusterFails
  PROVE  Covered'
<1> DEFINE h == call.handle
           c == files[h].first
           s == ChainIn(fat, c)
<1>1. /\ call.op = "write" /\ call.offset < ClusterSize /\ UNCHANGED <<fat, slots>>
      /\ \/ Len(call.buffer) = 0 /\ FinishWrite(0)
         \/ /\ call.cluster \in Cluster
            /\ \/ FinishWrite(call.done + Chunk)
               \/ /\ call.done + Chunk # Len(call.buffer) /\ files' = files
                  /\ call' = [call EXCEPT !.op = "copy", !.done = @ + Chunk]
         \/ EndCall /\ files' = files
  BY DEF WriteCluster, WriteClusterFails
<1>2. /\ call \in CallType /\ call.offset \in Nat /\ call.done \in Nat /\ call.slot = 0
      /\ ClusterSize \in Nat /\ ClusterSize >= 1
      /\ Chunk \in Nat /\ call.done + Chunk <= Len(call.buffer)
      /\ call.offset + Chunk <= ClusterSize /\ Len(call.buffer) \in Nat
  BY <1>1, ChunkFacts, SlotNumbers, Types DEF Unlinking
<1>3. /\ h \in Handles /\ c \in Cluster \cup {0} /\ Len(s) \in Nat
      /\ files[h].pos \in Nat /\ files[h].size \in Nat /\ files[h].pos <= files[h].size
      /\ files[h].size <= ClusterSize * Len(s)
      /\ files \in [Handles -> HandleType] /\ IsOpen(h) /\ Sole(h)
      /\ files[h].slot \in Slot /\ Live(files[h].slot)
  BY <1>1, WritersChain, Types, OpenLive DEF Covered, Writing, HandleType, IsOpen
<1>4. ASSUME call.cluster \in Cluster
      PROVE  \E i \in Nat : /\ i \in 1 .. Len(s) /\ call.cluster = s[i]
                            /\ (i - 1) * ClusterSize + call.offset = files[h].pos + call.done
  BY <1>1, <1>4 DEF Covered, InPlace, At, Reached
<1>5. CASE EndCall /\ files' = files
  <2>1. call'.op = "none" /\ call'.slot = call.slot
    BY <1>2, <1>5, NoCallFacts
  <2>2. SizesCovered'
    BY <1>1, <1>5, <2>1, SizesStay DEF Covered
  <2>3. EntriesFollow'
    BY <1>1, <1>5, <2>1, EntriesStay DEF Covered
  <2> QED BY <2>1, <2>2, <2>3, NoPlace DEF Covered
<1>6. ASSUME NEW n \in Nat, n <= Len(call.buffer), FinishWrite(n),
             files[h].pos + n <= files[h].size
               \/ files[h].pos + n <= ClusterSize * Len(s)
      PROVE  Covered'
  <2>1. /\ \A g \in Handles : files'[g].slot = files[g].slot /\ files'[g].first = files[g].first
        /\ \A g \in Handles : g # h => files'[g] = files[g]
        /\ files'[h].size = IF files[h].pos + n > files[h].size
                            THEN files[h].pos + n ELSE files[h].size
    BY <1>1, <1>6, FinishStep
  <2>2. call'.op = "none" /\ call'.slot = call.slot
    BY <1>2, <1>6, NoCallFacts DEF FinishWrite
  <2>3. files'[h].size <= ClusterSize * Len(s)
    <3> HIDE DEF s
    <3> QED BY <1>3, <1>6, <2>1, SMT
  <2>4. Fits(fat', files'[h].size, files'[h].first)
    BY <1>1, <1>3, <2>1, <2>3 DEF Fits
  <2>5. \A g \in Handles : files[g].slot = files[h].slot => g = h
    BY <1>3 DEF Sole
  <2>6. ChainsKept(fat', files[h].slot)
    BY <1>1 DEF ChainsKept
  <2>7. \/ Fits(fat', slots[files[h].slot].size, slots[files[h].slot].first)
        \/ "truncate" \in Calls /\ \E g \in Handles : files[g].slot = files[h].slot
    <3>1. CASE "truncate" \in Calls
      BY <1>3, <3>1
    <3>2. CASE "truncate" \notin Calls
      <4>1. files[h].slot # call.slot
        BY <1>2, <1>3, SlotNumbers
      <4> QED BY <1>1, <1>3, <3>2, <4>1, SizesFit DEF Covered
    <3> QED BY <3>1, <3>2
  <2>8. SizesCovered'
    BY <1>1, <1>2, <1>3, <2>1, <2>2, <2>4, <2>5, <2>6, <2>7, SizesKept, SMTT(30) DEF Covered
  <2>9. EntriesFollow'
    BY <1>1, <2>1, <2>2, EntriesStay DEF Covered
  <2> QED BY <2>2, <2>8, <2>9, NoPlace DEF Covered
<1>7. CASE Len(call.buffer) = 0 /\ FinishWrite(0)
  <2>1. 0 \in Nat /\ 0 <= Len(call.buffer) /\ files[h].pos + 0 <= files[h].size
    BY <1>3, <1>7, SMT
  <2> QED BY <1>6, <1>7, <2>1
<1>8. ASSUME call.cluster \in Cluster PROVE files[h].pos + (call.done + Chunk) <= ClusterSize * Len(s)
  <2>1. PICK i : /\ i \in Nat /\ i \in 1 .. Len(s)
                 /\ (i - 1) * ClusterSize + call.offset = files[h].pos + call.done
    BY <1>4, <1>8
  <2>2. i >= 1 /\ i <= Len(s)
    BY <1>3, <2>1, SMT
  <2>3. i * ClusterSize = (i - 1) * ClusterSize + ClusterSize /\ (i - 1) * ClusterSize \in Nat
    BY <1>2, <2>1, <2>2, OneMore
  <2>4. i * ClusterSize <= ClusterSize * Len(s) /\ ClusterSize * Len(s) \in Nat
    BY <1>2, <1>3, <2>1, <2>2, NoMore
  <2> DEFINE before == (i - 1) * ClusterSize
             behind == i * ClusterSize
             room == ClusterSize * Len(s)
             pos == files[h].pos
  <2>5. /\ before + call.offset = pos + call.done /\ before \in Nat /\ pos \in Nat
        /\ behind = before + ClusterSize /\ behind <= room /\ room \in Nat
    BY <1>3, <2>1, <2>3, <2>4
  <2> HIDE DEF before, behind, room, pos
  <2>6. pos + (call.done + Chunk) <= room
    BY <1>2, <2>5, SMTT(30)
  <2> QED BY <2>6 DEF pos, room
<1>9. CASE call.cluster \in Cluster /\ FinishWrite(call.done + Chunk)
  <2>1. call.done + Chunk \in Nat /\ call.done + Chunk <= Len(call.buffer)
    BY <1>2, SMT
  <2> QED BY <1>6, <1>8, <1>9, <2>1
<1>10. ASSUME call.cluster \in Cluster, call.done + Chunk # Len(call.buffer), files' = files,
              call' = [call EXCEPT !.op = "copy", !.done = @ + Chunk]
       PROVE  Covered'
  <2>1. /\ call'.op = "copy" /\ call'.handle = h /\ call'.slot = call.slot
        /\ call'.cluster = call.cluster /\ call'.done = call.done + Chunk
    BY <1>2, <1>10 DEF CallType
  <2>2. SizesCovered'
    BY <1>1, <1>10, <2>1, SizesStay DEF Covered
  <2>3. EntriesFollow'
    BY <1>1, <1>10, <2>1, EntriesStay DEF Covered
  <2>4. call.offset + Chunk = ClusterSize
    BY <1>1, <1>2, <1>10, SMT DEF Chunk
  <2>5. PICK i : /\ i \in Nat /\ i \in 1 .. Len(s) /\ call.cluster = s[i]
                 /\ (i - 1) * ClusterSize + call.offset = files[h].pos + call.done
    BY <1>4, <1>10
  <2>6. i * ClusterSize = (i - 1) * ClusterSize + ClusterSize /\ (i - 1) * ClusterSize \in Nat
    <3>1. i >= 1
      BY <2>5, SMT
    <3> QED BY <1>2, <2>5, <3>1, OneMore
  <2>7. i * ClusterSize = files'[h].pos + call'.done
    <3> DEFINE before == (i - 1) * ClusterSize
               pos == files[h].pos
    <3>1. /\ before + call.offset = pos + call.done /\ before \in Nat /\ pos \in Nat
          /\ i * ClusterSize = before + ClusterSize
      BY <1>3, <2>5, <2>6
    <3> HIDE DEF before, pos
    <3>2. /\ call.offset \in Nat /\ call.done \in Nat /\ Chunk \in Nat /\ ClusterSize \in Nat
          /\ call.offset + Chunk = ClusterSize
      BY <1>2, <2>4
    <3>3. before + ClusterSize = pos + (call.done + Chunk)
      BY ONLY <3>1, <3>2, SMT
    <3> QED BY <1>10, <2>1, <3>1, <3>3 DEF pos
  <2>8. InPlace'
    BY <1>1, <1>10, <2>1, <2>5, <2>7, PlaceCopied
  <2> QED BY <2>2, <2>3, <2>8 DEF Covered
<1> QED BY <1>1, <1>5, <1>7, <1>9, <1>10

LEMMA TruncateCovers ==
  ASSUME HandleInv, HandleInv', FilesApart, Covered, NEW h \in Handles, TruncateFile(h),
         faults' = 0
  PROVE  Covered'
<1> DEFINE c0 == files[h].first
           s0 == files[h].slot
           last == ClusterAt(c0, files[h].pos)
<1>1. ~Fault
  <2>1. faults \in Nat
    BY FaultCount, FileAssumption
  <2> QED BY <2>1, SMT DEF Fault
<1>2. /\ call.op = "none" /\ IsOpen(h) /\ Sole(h) /\ "truncate" \in Calls
      /\ UNCHANGED <<slots, call>>
      /\ \/ /\ fat' = Release(fat, c0)
            /\ files' = [files EXCEPT ![h].first = 0, ![h].size = 0]
         \/ /\ fat' = CutAfter(last)
            /\ files' = [files EXCEPT ![h].size = files[h].pos]
         \/ UNCHANGED <<fat, files>>
  BY <1>1, Zenon DEF TruncateFile, Ready
<1>3. /\ files \in [Handles -> HandleType] /\ IsTable(fat) /\ Acyclic(fat)
      /\ files[h].pos \in Nat /\ files[h].size \in Nat /\ files[h].pos <= files[h].size
      /\ c0 \in Cluster \cup {0} /\ c0 \in Entry /\ call.slot = 0
  BY <1>2, Types, RoomType DEF FilesApart, HandleType, HandlesOK, HandlesMean, Unlinking
<1>4. s0 \in Slot /\ Live(s0) /\ Owns(s0, c0)
  BY <1>2, <1>3, OpenLive DEF Owns, IsOpen, HandleType
<1>5. \A g \in Handles : files[g].slot = s0 => g = h
  BY <1>2 DEF Sole
\* What is left to show: the new size fits into what is left of the chain.
<1>6. ASSUME NEW e, NEW z, files'[h].first = e, files'[h].size = z, Fits(fat', z, e),
             ChainsKept(fat', s0),
             \A g \in Handles : files'[g].slot = files[g].slot,
             \A g \in Handles : g # h => files'[g] = files[g]
      PROVE  Covered'
  <2>1. SizesCovered'
    BY <1>2, <1>3, <1>4, <1>5, <1>6, SizesKept DEF Covered
  <2>2. EntriesFollow'
    BY <1>2, <1>6 DEF EntriesFollow, Covered
  <2> QED BY <1>2, <2>1, <2>2, NoPlace DEF Covered
<1>7. CASE /\ fat' = Release(fat, c0)
           /\ files' = [files EXCEPT ![h].first = 0, ![h].size = 0]
  <2>1. /\ files'[h].first = 0 /\ files'[h].size = 0
        /\ \A g \in Handles : files'[g].slot = files[g].slot
        /\ \A g \in Handles : g # h => files'[g] = files[g]
    BY <1>3, <1>7 DEF HandleType
  <2>2. IsTable(fat') /\ \A x \in FatIndex : x \notin OnChainIn(fat, c0) => fat'[x] = fat[x]
    BY <1>3, <1>7, ReleaseFacts
  <2>3. ChainsKept(fat', s0)
    BY <1>3, <1>4, <2>2, OwnKept
  <2>4. Fits(fat', 0, 0)
    BY <2>2, NothingFits
  <2> QED BY <1>6, <2>1, <2>3, <2>4
<1>8. CASE fat' = CutAfter(last) /\ files' = [files EXCEPT ![h].size = files[h].pos]
  <2>1. /\ files'[h].first = c0 /\ files'[h].size = files[h].pos
        /\ \A g \in Handles : files'[g].slot = files[g].slot
        /\ \A g \in Handles : g # h => files'[g] = files[g]
    BY <1>3, <1>8 DEF HandleType
  <2> HIDE DEF last, s0
  <2>2. CASE last \in Cluster
    <3> DEFINE cut == [fat EXCEPT ![last] = EndOfChain]
               rest == Release(cut, NextIn(fat, last))
    <3>1. fat' = rest
      <4>1. IsValidCluster(last)
        BY <2>2, ValidEntry, TableNumbers
      <4> QED BY <1>8, <4>1 DEF CutAfter
    <3>2. /\ c0 \in Cluster
          /\ \E i \in 1 .. Len(ChainIn(fat, c0)) :
               last = ChainIn(fat, c0)[i] /\ files[h].pos <= ClusterSize * i
      BY <1>3, <2>2, ClusterAtFacts DEF last
    <3>3. PICK n : /\ n \in 1 .. Len(ChainIn(fat, c0)) /\ last = ChainIn(fat, c0)[n]
                   /\ files[h].pos <= ClusterSize * n
      BY <3>2
    <3>4. Changed(fat, cut, last, EndOfChain) /\ rest = Release(cut, NextIn(fat, last))
      BY <1>3, <2>2, TableNumbers DEF Changed, IsTable
    <3> HIDE DEF c0, cut, rest
    <3>5. /\ Acyclic(rest) /\ ChainIn(rest, c0) = SubSeq(ChainIn(fat, c0), 1, n)
          /\ \A x \in FatIndex : x \notin OnChainIn(fat, c0) => rest[x] = fat[x]
      BY ONLY <1>3, <3>2, <3>3, <3>4, CutFacts
    <3>6. Len(ChainIn(rest, c0)) = n
      <4>1. WalkEnds(fat, c0)
        BY <1>3, <3>2 DEF Acyclic
      <4>2. Path(fat, ChainIn(fat, c0))
        BY <4>1, ChainOfWalk DEF Whole
      <4>3. Len(SubSeq(ChainIn(fat, c0), 1, n)) = n
        BY ONLY <3>3, <4>2, PathPieces
      <4> QED BY <3>5, <4>3
    <3>7. Fits(fat', files[h].pos, c0)
      BY <3>1, <3>3, <3>6 DEF Fits
    <3>8. ChainsKept(fat', s0)
      <4>1. IsTable(fat')
        BY <3>1, <3>5 DEF Acyclic
      <4> QED BY <1>3, <1>4, <3>1, <3>5, <4>1, OwnKept
    <3> QED BY <1>6, <2>1, <3>7, <3>8
  <2>3. CASE last \notin Cluster
    <3>1. last \in Entry
      BY <1>3, ClusterAtType DEF last
    <3>2. ~IsValidCluster(last)
      BY <2>3, <3>1, ValidEntry
    <3>3. UNCHANGED fat
      BY <1>8, <3>2 DEF CutAfter
    <3>4. Fits(fat', files[h].pos, c0)
      <4>1. Fits(fat, files[h].size, c0)
        BY SizesFit DEF Covered
      <4>2. ClusterSize * Len(ChainIn(fat, c0)) \in Nat
        BY <1>3, ChainClusters, SlotNumbers
      <4>3. Fits(fat, files[h].pos, c0)
        BY <1>3, <4>1, <4>2, SMT DEF Fits
      <4> QED BY <3>3, <4>3
    <3>5. ChainsKept(fat', s0)
      BY <3>3 DEF ChainsKept
    <3> QED BY <1>6, <2>1, <3>4, <3>5
  <2> QED BY <2>2, <2>3
<1>9. CASE UNCHANGED <<fat, files>>
  <2>1. SizesCovered'
    BY <1>2, <1>9, SizesStay DEF Covered
  <2>2. EntriesFollow'
    BY <1>2, <1>9, EntriesStay DEF Covered
  <2> QED BY <1>2, <2>1, <2>2, NoPlace DEF Covered
<1> QED BY <1>2, <1>7, <1>8, <1>9

\* f_expand leaves the chain that the file has as it is.
LEMMA ExpandKeeps ==
  ASSUME HandleInv, HandleInv', FilesApart, NEW h \in Handles, NEW size \in Nat,
         Expand(h, size), faults' = 0
  PROVE  /\ call.op = "none" /\ IsOpen(h) /\ Sole(h) /\ UNCHANGED <<data, slots, call>>
         /\ Return(TRUE) \/ Return(FALSE)
         /\ \/ UNCHANGED <<fat, files>>
            \/ /\ \A g \in Handles : /\ files'[g].slot = files[g].slot
                                     /\ files'[g].pos = files[g].pos
                                     /\ files'[g].size = files[g].size
               /\ \A g \in Handles : g # h => files'[g] = files[g]
               /\ files[h].first # 0 => files'[h].first = files[h].first
               /\ ChainsKept(fat', files[h].slot)
               /\ ChainIn(fat', files[h].first) = ChainIn(fat, files[h].first)
<1>1. ~Fault
  <2>1. faults \in Nat
    BY FaultCount, FileAssumption
  <2> QED BY <2>1, SMT DEF Fault
<1>2. /\ call.op = "none" /\ IsOpen(h) /\ Sole(h) /\ UNCHANGED <<data, slots, call>>
      /\ \E n \in Int : Grow(h, n, FALSE)
  <2>1. IsTable(fat) /\ files[h].first \in Entry
    BY Types, TableNumbers DEF HandleType
  <2>2. Len(ChainIn(fat, files[h].first)) \in Nat
    BY <2>1, ChainClusters
  <2>3. Needed(size) \in Int
    BY SlotNumbers, SMT DEF Needed
  <2>4. Needed(size) - Len(ChainIn(fat, files[h].first)) \in Int
    BY <2>2, <2>3, SMT
  <2> QED BY <1>1, <2>4, Zenon DEF Expand, Ready
<1>3. PICK n \in Int : Grow(h, n, FALSE)
  BY <1>2
<1> DEFINE new == Allocate(fat, hint, n)
           T == Taken(fat, hint, n)
           c0 == files[h].first
           s0 == files[h].slot
<1>4. \/ UNCHANGED <<fat, files>>
      \/ /\ n \in Nat /\ n > 0
         /\ files' = [files EXCEPT ![h].first = IF new.ok /\ @ = 0 THEN new.first ELSE @]
         /\ \/ fat' = new.fat
            \/ \E c \in OnChainIn(new.fat, c0) : NextIn(new.fat, c) = 0
  <2> HIDE DEF new, c0
  <2>1. CASE n <= 0
    BY <1>3, <2>1 DEF Grow
  <2>2. CASE ~(n <= 0)
    <3>1. n \in Nat /\ n > 0
      BY <2>2, SMT
    <3>2. /\ files' = [files EXCEPT ![h].first = IF new.ok /\ @ = 0 THEN new.first ELSE @]
          /\ \/ fat' = new.fat
             \/ {c \in OnChainIn(new.fat, c0) : FALSE \/ NextIn(new.fat, c) = 0} # {}
      BY <1>3, <2>2, Zenon DEF Grow, new, c0
    <3> QED BY <3>1, <3>2
  <2> QED BY <2>1, <2>2
<1>5. /\ files \in [Handles -> HandleType] /\ hint \in Cluster /\ IsTable(fat)
      /\ c0 \in Cluster \cup {0} /\ Acyclic(fat) /\ call.slot = 0
  BY <1>2, Types DEF FilesApart, HandleType, Unlinking
<1>6. s0 \in Slot /\ Live(s0) /\ Owns(s0, c0)
  BY <1>2, <1>5, OpenLive DEF Owns, IsOpen, HandleType
<1>7. Return(TRUE) \/ Return(FALSE)
  <2>1. CASE n <= 0
    BY <1>3, <2>1 DEF Grow
  <2>2. CASE ~(n <= 0)
    <3>1. n \in Nat
      BY <2>2, SMT
    <3>2. new.ok \in BOOLEAN
      BY <1>5, <3>1, AllocateFacts
    <3>3. Return(new.ok)
      BY <1>3, <2>2, Zenon DEF Grow
    <3> QED BY <3>2, <3>3
  <2> QED BY <2>1, <2>2
<1>8. ASSUME n \in Nat, n > 0,
             files' = [files EXCEPT ![h].first = IF new.ok /\ @ = 0 THEN new.first ELSE @],
             \/ fat' = new.fat
             \/ \E c \in OnChainIn(new.fat, c0) : NextIn(new.fat, c) = 0
      PROVE  /\ \A g \in Handles : /\ files'[g].slot = files[g].slot /\ files'[g].pos = files[g].pos
                                   /\ files'[g].size = files[g].size
             /\ \A g \in Handles : g # h => files'[g] = files[g]
             /\ c0 # 0 => files'[h].first = c0
             /\ ChainsKept(fat', s0) /\ ChainIn(fat', c0) = ChainIn(fat, c0)
  <2>1. IsTable(new.fat) /\ \A x \in FatIndex : x \notin T => new.fat[x] = fat[x]
    BY <1>5, <1>8, AllocateFacts
  <2>2. \A x \in T : fat[x] = FREE
    BY <1>5, TakenClusters
  <2>3. \A x \in OnChainIn(fat, c0) : x \in FatIndex /\ fat[x] # FREE
    BY <1>5, <1>6, ChainNotFree
  <2>4. ChainsKept(new.fat, s0)
    BY <2>1, TakenKept
  <2>5. ChainIn(new.fat, c0) = ChainIn(fat, c0)
    <3>1. OnChainIn(fat, c0) \cap T = {}
      BY <2>2, <2>3
    <3> HIDE DEF c0, T, new
    <3> QED BY <1>5, <2>1, <3>1, OthersKept
  <2>6. OnChainIn(new.fat, c0) = OnChainIn(fat, c0)
    BY <2>5 DEF OnChainIn
  <2>7. fat' = new.fat
    <3>1. ASSUME NEW c \in OnChainIn(new.fat, c0), NextIn(new.fat, c) = 0 PROVE FALSE
      <4>1. c \in FatIndex /\ fat[c] # FREE /\ c \notin T
        BY <2>2, <2>3, <2>6
      <4>2. new.fat[c] # 0
        BY <2>1, <4>1, TableNumbers
      <4> QED BY <3>1, <4>1, <4>2 DEF NextIn
    <3> QED BY <1>8, <3>1
  <2>8. /\ \A g \in Handles : /\ files'[g].slot = files[g].slot /\ files'[g].pos = files[g].pos
                              /\ files'[g].size = files[g].size
        /\ \A g \in Handles : g # h => files'[g] = files[g]
        /\ c0 # 0 => files'[h].first = c0
    BY <1>5, <1>8 DEF HandleType
  <2> HIDE DEF new, T, c0, s0
  <2> QED BY <2>4, <2>5, <2>7, <2>8
<1>9. \/ UNCHANGED <<fat, files>>
      \/ /\ \A g \in Handles : /\ files'[g].slot = files[g].slot /\ files'[g].pos = files[g].pos
                               /\ files'[g].size = files[g].size
         /\ \A g \in Handles : g # h => files'[g] = files[g]
         /\ c0 # 0 => files'[h].first = c0
         /\ ChainsKept(fat', s0) /\ ChainIn(fat', c0) = ChainIn(fat, c0)
  <2> HIDE DEF new, c0, s0
  <2> QED BY <1>4, <1>8
<1> QED BY <1>2, <1>7, <1>9

LEMMA ExpandCovers ==
  ASSUME HandleInv, HandleInv', FilesApart, Covered, NEW h \in Handles, NEW size \in Nat,
         Expand(h, size), faults' = 0
  PROVE  Covered'
<1> DEFINE c0 == files[h].first
           s0 == files[h].slot
<1>1. /\ call.op = "none" /\ IsOpen(h) /\ Sole(h) /\ UNCHANGED <<slots, call>>
  BY ExpandKeeps
<1>2. \/ UNCHANGED <<fat, files>>
      \/ /\ \A g \in Handles : files'[g].slot = files[g].slot /\ files'[g].size = files[g].size
         /\ \A g \in Handles : g # h => files'[g] = files[g]
         /\ c0 # 0 => files'[h].first = c0
         /\ ChainsKept(fat', s0) /\ ChainIn(fat', c0) = ChainIn(fat, c0)
  BY ExpandKeeps
<1>3. /\ files \in [Handles -> HandleType] /\ c0 \in Cluster \cup {0} /\ call.slot = 0
      /\ IsTable(fat')
  BY <1>1, Types DEF HandleType, Unlinking, HandleInv, FileTypeOK, IsTable
<1>4. s0 \in Slot /\ Live(s0)
  BY <1>1, <1>3, OpenLive DEF IsOpen, HandleType
<1>5. CASE UNCHANGED <<fat, files>>
  <2>1. SizesCovered'
    BY <1>1, <1>5, SizesStay DEF Covered
  <2>2. EntriesFollow'
    BY <1>1, <1>5, EntriesStay DEF Covered
  <2> QED BY <1>1, <1>3, <2>1, <2>2, NoPlace DEF Covered
<1>6. ASSUME \A g \in Handles : files'[g].slot = files[g].slot /\ files'[g].size = files[g].size,
             \A g \in Handles : g # h => files'[g] = files[g],
             c0 # 0 => files'[h].first = c0,
             ChainsKept(fat', s0), ChainIn(fat', c0) = ChainIn(fat, c0)
      PROVE  Covered'
  <2>1. files'[h].first \in Cluster \cup {0}
    BY DEF HandleInv, FileTypeOK
  <2>2. EntriesFollow'
    BY <1>1, <1>6, EntriesStay DEF Covered
  <2>3. Fits(fat', files'[h].size, files'[h].first)
    <3>1. CASE c0 = 0
      <4>1. Fits(fat, files[h].size, 0) /\ files[h].size \in Nat
        BY <3>1, SizesFit, RoomType DEF Covered
      <4>2. files'[h].size = 0
        BY <1>6, <4>1, FitsNothing
      <4> QED BY <1>3, <2>1, <4>2, NothingFits
    <3>2. CASE c0 # 0
      <4>1. Fits(fat, files[h].size, c0)
        BY SizesFit DEF Covered
      <4> QED BY <1>6, <3>2, <4>1, SameFit
    <3> QED BY <3>1, <3>2
  <2>4. \/ Fits(fat', slots[s0].size, slots[s0].first)
        \/ "truncate" \in Calls /\ \E g \in Handles : files[g].slot = s0
    <3>1. CASE "truncate" \in Calls
      BY <3>1
    <3>2. CASE "truncate" \notin Calls
      <4>1. slots[s0].first \in {0, c0}
        BY <1>1, <3>2 DEF Covered, EntriesFollow
      <4>2. s0 # call.slot
        BY <1>4 DEF Live
      <4>3. Fits(fat, slots[s0].size, slots[s0].first)
        BY <1>4, <3>2, <4>2, SizesFit DEF Covered
      <4>4. CASE slots[s0].first = c0
        BY <1>6, <4>3, <4>4, SameFit
      <4>5. CASE slots[s0].first = 0
        <5>1. \A s \in Slot : slots[s].size \in Nat
          BY Types, SlotNumbers DEF HandlesOK
        <5>2. slots[s0].size = 0
          BY <1>4, <4>3, <4>5, <5>1, FitsNothing
        <5> QED BY <1>3, <4>5, <5>2, NothingFits
      <4> QED BY <4>1, <4>4, <4>5
    <3> QED BY <3>1, <3>2
  <2>5. \A g \in Handles : files[g].slot = s0 => g = h
    BY <1>1 DEF Sole
  <2>6. SizesCovered'
    BY <1>1, <1>3, <1>4, <1>6, <2>3, <2>4, <2>5, SizesKept DEF Covered
  <2> QED BY <1>1, <1>3, <2>2, <2>6, NoPlace DEF Covered
<1> QED BY <1>2, <1>5, <1>6

LEMMA BeginUnlinkCovers ==
  ASSUME HandleInv, HandleInv', FilesApart, Covered, NEW n \in Names, BeginUnlink(n)
  PROVE  Covered'
<1> DEFINE s0 == SlotOf(n)
           c0 == slots[s0].first
<1>1. /\ call.op = "none" /\ "unlink" \in Calls /\ s0 # 0 /\ \A h \in Handles : files[h].slot # s0
      /\ fat' = Release(fat, c0) /\ UNCHANGED <<slots, files>>
      /\ call' = [NoCall EXCEPT !.op = "unlink", !.slot = s0]
  BY DEF BeginUnlink, Ready
<1>2. s0 \in Slot /\ slots[s0].name = n /\ n # NoName
  BY <1>1, SlotOfFacts, FileAssumption
<1>3. call.slot = 0 /\ call'.slot = s0 /\ call'.op = "unlink"
  BY <1>1, Types DEF NoCall, Unlinking
<1>4. Live(s0) /\ Owns(s0, c0) /\ c0 \in Cluster \cup {0} /\ c0 \in Entry
  BY <1>1, <1>2, <1>3, Types, TableNumbers, SlotNumbers DEF Live, Owns, HandlesOK
<1> HIDE DEF s0, c0
<1>5. IsTable(fat') /\ \A x \in FatIndex : x \notin OnChainIn(fat, c0) => fat'[x] = fat[x]
  BY <1>1, <1>4, Types, ReleaseFacts
<1>6. ChainsKept(fat', s0)
  BY <1>2, <1>4, <1>5, OwnKept
<1>7. SizesCovered'
  BY <1>1, <1>2, <1>3, <1>6, SizesKept DEF Covered
<1>8. EntriesFollow'
  <2>1. \A s \in Slot : slots'[s].name = NoName => slots'[s].size = 0
    BY <1>1 DEF Covered, EntriesFollow
  <2>2. "truncate" \notin Calls =>
          \A h \in Handles : IsOpen(h)' => slots'[files'[h].slot].first \in {0, files'[h].first}
    BY <1>1 DEF Covered, EntriesFollow, IsOpen
  <2> QED BY <1>1, <2>1, <2>2 DEF EntriesFollow
<1> QED BY <1>3, <1>7, <1>8, NoPlace DEF Covered

LEMMA EndUnlinkCovers ==
  ASSUME HandleInv, Covered, call.op = "unlink", UNCHANGED <<fat, files>>, EndCall,
         slots' = [slots EXCEPT ![call.slot] = FreeSlot]
  PROVE  Covered'
<1>1. call.slot \in Slot /\ \A h \in Handles : files[h].slot # call.slot
  BY Types DEF Unlinking
<1>2. /\ slots'[call.slot].size = 0 /\ slots'[call.slot].first = 0
      /\ \A s \in Slot : s # call.slot => slots'[s] = slots[s]
  BY <1>1, Types DEF HandlesOK, FreeSlot
<1>3. call'.op = "none"
  BY NoCallFacts
<1>4. Fits(fat, 0, 0)
  BY Types, NothingFits
<1>5. SizesCovered'
  <2>1. \A h \in Handles : Fits(fat, files[h].size, files[h].first)
    BY SizesFit DEF Covered
  <2>2. ASSUME NEW s \in Slot, "truncate" \notin Calls \/ \A h \in Handles : files[h].slot # s
        PROVE  Fits(fat, slots'[s].size, slots'[s].first)
    <3>1. CASE s = call.slot
      BY <1>2, <1>4, <3>1
    <3>2. CASE s # call.slot
      BY <1>2, <2>2, <3>2, SizesFit DEF Covered
    <3> QED BY <3>1, <3>2
  <2> QED BY <2>1, <2>2 DEF SizesCovered, Fits, Capacity
<1>6. EntriesFollow'
  <2>1. \A s \in Slot : slots'[s].name = NoName => slots'[s].size = 0
    BY <1>2 DEF Covered, EntriesFollow
  <2>2. ASSUME "truncate" \notin Calls, NEW h \in Handles, IsOpen(h)'
        PROVE  slots'[files'[h].slot].first \in {0, files'[h].first}
    <3>1. IsOpen(h) /\ files[h].slot \in Slot
      BY <2>2, Types DEF IsOpen, HandleType
    <3> QED BY <1>1, <1>2, <2>2, <3>1 DEF Covered, EntriesFollow
  <2> QED BY <1>3, <2>1, <2>2 DEF EntriesFollow
<1> QED BY <1>3, <1>5, <1>6, NoPlace DEF Covered

\* A program that starts again has only the entries.
LEMMA RebootCovers ==
  ASSUME HandleInv, Covered, Reboot, call.op # "unlink",
         "truncate" \notin Calls \/ \A h \in Handles : ~IsOpen(h)
  PROVE  Covered'
<1>1. /\ UNCHANGED <<fat, slots>> /\ EndCall
      /\ \A h \in Handles : files'[h].slot = 0 /\ files'[h].first = 0 /\ files'[h].size = 0
  BY DEF Reboot, ClosedFile
<1>2. call'.op = "none" /\ call.slot = 0
  BY <1>1, NoCallFacts, Types DEF Unlinking
<1>3. Fits(fat, 0, 0)
  BY Types, NothingFits
<1>4. SizesCovered'
  <2>1. \A s \in Slot : Fits(fat, slots[s].size, slots[s].first)
    <3>1. ASSUME NEW s \in Slot PROVE s # call.slot /\ s # 0
      BY <1>2, SlotNumbers
    <3>2. ASSUME NEW s \in Slot PROVE "truncate" \notin Calls \/ \A h \in Handles : files[h].slot # s
      BY <3>1, <3>2 DEF IsOpen
    <3> QED BY <3>1, <3>2, SizesFit DEF Covered
  <2> QED BY <1>1, <1>3, <2>1 DEF SizesCovered, Fits, Capacity
<1>5. EntriesFollow'
  BY <1>1, <1>2 DEF Covered, EntriesFollow, IsOpen
<1> QED BY <1>2, <1>4, <1>5, NoPlace DEF Covered

\* If no call frees what an entry names, a crash leaves the files apart.
LEMMA CrashApart ==
  ASSUME HandleInv, FilesApart, EntriesFollow, Reboot, call.op # "unlink",
         "truncate" \notin Calls
  PROVE  FilesApart'
<1>1. /\ UNCHANGED <<fat, slots>> /\ EndCall /\ \A h \in Handles : files'[h].slot = 0
  BY DEF Reboot, ClosedFile
<1>2. call'.slot = call.slot
  BY <1>1, NoCallFacts, Types DEF Unlinking
<1>3. ASSUME NEW s \in Slot, NEW c \in Cluster \cup {0}, (Live(s) /\ Owns(s, c))'
      PROVE  OnChainIn(fat, c) = {} \/ (Live(s) /\ Owns(s, c))
  <2>1. Live(s) /\ slots[s].first = c /\ s # 0
    BY <1>1, <1>2, <1>3, SlotNumbers DEF Live, Owns
  <2>2. CASE \A h \in Handles : files[h].slot # s
    BY <2>1, <2>2 DEF Owns
  <2>3. ASSUME NEW h \in Handles, files[h].slot = s
        PROVE  OnChainIn(fat, c) = {} \/ Owns(s, c)
    <3>1. c = 0 \/ c = files[h].first
      BY <2>1, <2>3 DEF EntriesFollow, IsOpen
    <3> QED BY <2>3, <3>1, NoClusters DEF Owns
  <2> QED BY <2>1, <2>2, <2>3
<1>4. UNCHANGED fat
  BY <1>1
<1> QED BY ONLY <1>3, <1>4, FilesApart, SameFat

\* How a step counts failures and crashes, and when it looks at the volume.
CoveredInv == Clean => ~tainted /\ Covered

LEMMA CoveredInit == Init => CoveredInv
<1> SUFFICES ASSUME Init PROVE CoveredInv
  OBVIOUS
<1>1. /\ fat = EmptyFat /\ slots = [s \in Slot |-> FreeSlot] /\ call = NoCall /\ ~tainted
      /\ files = [h \in Handles |-> ClosedFile]
  BY DEF Init
<1>2. IsTable(fat)
  BY HandleInit, Types
<1>3. \A s \in Slot : slots[s].size = 0 /\ slots[s].first = 0
  BY <1>1 DEF FreeSlot
<1>4. \A h \in Handles : files[h].size = 0 /\ files[h].first = 0 /\ ~IsOpen(h)
  BY <1>1 DEF ClosedFile, IsOpen
<1>5. call.op = "none"
  BY <1>1 DEF NoCall
<1>6. Fits(fat, 0, 0)
  BY <1>2, NothingFits
<1>7. SizesCovered
  BY <1>3, <1>4, <1>6, SizesFit
<1>8. EntriesFollow /\ InPlace
  BY <1>3, <1>4, <1>5 DEF EntriesFollow, InPlace
<1> QED BY <1>1, <1>7, <1>8 DEF CoveredInv, Covered

LEMMA CoveredNext == FilesInv /\ CoveredInv /\ [Next]_fileVars => CoveredInv'
<1> SUFFICES ASSUME FilesInv, CoveredInv, [Next]_fileVars, Clean' PROVE ~tainted' /\ Covered'
  BY DEF CoveredInv
<1>1. HandleInv /\ HandleInv' /\ FilesInv'
  BY FilesNext, HandleNext DEF FilesInv
<1>2. faults \in Nat /\ crashes \in Nat
  BY <1>1, FaultCount, FileAssumption
<1>3. faults' = 0 /\ (crashes' = 0 \/ Calls \cap {"truncate", "unlink"} = {})
  BY DEF Clean
<1>4. ~Fault
  BY <1>2, <1>3, SMT DEF Fault
<1>5. CASE UNCHANGED fileVars
  <2>1. Clean
    BY <1>3, <1>5 DEF Clean, fileVars
  <2>2. ~tainted /\ Covered
    BY <2>1 DEF CoveredInv
  <2>3. UNCHANGED <<fat, slots, files, call, tainted>>
    BY <1>5 DEF fileVars
  <2>4. SizesCovered' /\ EntriesFollow'
    BY <1>1, <2>2, <2>3, SizesStay, EntriesStay DEF Covered
  <2>5. InPlace'
    BY <2>2, <2>3 DEF Covered, InPlace, At, Reached
  <2> QED BY <2>2, <2>3, <2>4, <2>5 DEF Covered
<1>6. CASE Next
  <2>1. Clean
    <3>1. faults = 0
      BY <1>3, <1>4, <1>6, NextCounts DEF Counts
    <3>2. crashes' = 0 => crashes = 0
      BY <1>2, <1>6, NextCounts, SMT DEF Counts
    <3> QED BY <1>3, <3>1, <3>2 DEF Clean
  <2>2. ~tainted /\ Covered /\ FilesApart
    BY <2>1 DEF CoveredInv, FilesInv
  <2>3. ASSUME Crash
        PROVE  "truncate" \notin Calls /\ "unlink" \notin Calls /\ call.op # "unlink" /\ Reboot
    <3>1. crashes' # 0 /\ Reboot
      BY <1>2, <2>3, SMT DEF Crash
    <3>2. "truncate" \notin Calls /\ "unlink" \notin Calls
      BY <1>3, <3>1
    <3> QED BY <2>2, <3>1, <3>2 DEF Covered, EntriesFollow
  <2>4. ASSUME EndUnlink
        PROVE  /\ call.op = "unlink" /\ UNCHANGED <<fat, files>> /\ EndCall
               /\ slots' = [slots EXCEPT ![call.slot] = FreeSlot]
    BY <1>4, <2>4 DEF EndUnlink
  <2>5. ~tainted' /\ FilesApart'
    <3>1. CASE EndUnlink \/ Restart \/ Crash
      <4>1. FilesApart'
        <5>1. CASE EndUnlink
          BY <1>1, <2>2, <2>4, <5>1, UnlinkedApart
        <5>2. CASE Restart
          BY <1>1, <2>2, <5>2, RestartApart
        <5>3. CASE Crash
          BY <1>1, <2>2, <2>3, <5>3, CrashApart DEF Covered
        <5> QED BY <3>1, <5>1, <5>2, <5>3
      <4>2. Apart'
        BY <4>1 DEF FilesApart
      <4>3. FilesDisjoint'
        BY <1>1, <4>2, ApartIsDisjoint, PTL
      <4>4. tainted' = tainted \/ tainted' = (tainted \/ ~FilesDisjoint')
        BY <1>6, NextCounts, Zenon DEF Counts
      <4>5. ~tainted'
        <5>1. CASE tainted' = tainted
          BY ONLY <2>2, <5>1
        <5>2. CASE tainted' = (tainted \/ ~FilesDisjoint')
          BY ONLY <2>2, <4>3, <5>2, Zenon
        <5> QED BY <4>4, <5>1, <5>2, Zenon
      <4> QED BY <4>1, <4>5
    <3>2. CASE ~(EndUnlink \/ Restart \/ Crash)
      <4>1. ~tainted'
        BY <1>6, <2>2, <3>2, NextCounts DEF Counts
      <4> QED BY <1>1, <4>1 DEF FilesInv
    <3> QED BY <3>1, <3>2
  <2>6. Covered'
    <3>1. ASSUME NEW h \in Handles, NEW n \in Names, OpenFile(h, n) PROVE Covered'
      BY <1>1, <2>2, <3>1, OpenCovers
    <3>2. ASSUME NEW h \in Handles, CloseFile(h) \/ SyncFile(h) PROVE Covered'
      BY <1>1, <2>2, <3>2, CloseCovers
    <3>3. ASSUME NEW h \in Handles, TruncateFile(h) PROVE Covered'
      BY <1>1, <1>3, <2>2, <3>3, TruncateCovers
    <3>4. ASSUME NEW h \in Handles, NEW n \in Nat, ReadFile(h, n) \/ Seek(h, n)
          PROVE  Covered'
      BY <1>1, <2>2, <3>4, ReadCovers
    <3>5. ASSUME NEW h \in Handles, NEW n \in Nat, NEW k \in 0 .. n, Forward(h, n, k)
          PROVE  Covered'
      BY <1>1, <2>2, <3>5, ReadCovers
    <3>6. ASSUME NEW h \in Handles, NEW n \in Nat, Expand(h, n) PROVE Covered'
      BY <1>1, <1>3, <2>2, <3>6, ExpandCovers
    <3>7. ASSUME NEW h \in Handles, NEW buffer \in Buffers, BeginWrite(h, buffer)
          PROVE  Covered'
      BY <1>1, <2>2, <2>5, <3>7, BeginWriteCovers
    <3>8. ASSUME NEW n \in Names, Stat(n) PROVE Covered'
      BY <1>1, <2>2, <3>8, ReadCovers
    <3>9. ASSUME NEW n \in Names, BeginUnlink(n) PROVE Covered'
      BY <1>1, <2>2, <3>9, BeginUnlinkCovers
    <3>10. ASSUME WalkToPosition \/ AdvanceWrite PROVE Covered'
      BY <1>1, <1>3, <2>2, <3>10, WalkCovers
    <3>11. ASSUME WriteCluster \/ WriteClusterFails PROVE Covered'
      BY <1>1, <2>2, <3>11, WriteClusterCovers
    <3>12. ASSUME EndUnlink PROVE Covered'
      BY <1>1, <2>2, <2>4, <3>12, EndUnlinkCovers
    <3>13. ASSUME Restart \/ Crash PROVE Covered'
      <4>1. CASE Restart
        <5>1. Reboot /\ call.op # "unlink" /\ \A h \in Handles : ~IsOpen(h)
          BY <4>1 DEF Restart
        <5> QED BY <1>1, <2>2, <5>1, RebootCovers
      <4>2. CASE Crash
        BY <1>1, <2>2, <2>3, <4>2, RebootCovers
      <4> QED BY <3>13, <4>1, <4>2
    <3> QED BY <1>6, <3>1, <3>2, <3>3, <3>4, <3>5, <3>6, <3>7, <3>8, <3>9, <3>10, <3>11,
               <3>12, <3>13, NextCases, Zenon
  <2> QED BY <2>5, <2>6
<1> QED BY <1>5, <1>6

\* As long as no access fails, every byte that a handle or an entry promises is
\* in the chain it names, before, during and after every call, for volumes of
\* any size and clusters of any size; across crashes too, if the program neither
\* truncates nor unlinks (the two calls that free a chain before the entry on
\* disk is changed).
THEOREM SizesCoveredAlways ==
  FileSpec => [](faults = 0 /\ (crashes = 0 \/ Calls \cap {"truncate", "unlink"} = {})
                   => SizesCovered)
<1>1. Init => CoveredInv
  BY CoveredInit
<1>2. FilesInv /\ CoveredInv /\ [Next]_fileVars => CoveredInv'
  BY CoveredNext
<1>3. CoveredInv => (faults = 0 /\ (crashes = 0 \/ Calls \cap {"truncate", "unlink"} = {})
                       => SizesCovered)
  BY DEF CoveredInv, Clean, Covered
<1> QED BY <1>1, <1>2, <1>3, FilesAlways, PTL DEF FileSpec

-----------------------------------------------------------------------------
(* The bytes of a file.                                                    *)

\* The file in slot s has first cluster c and z bytes, as the program sees it.
Shows(s, c, z) ==
  \/ \E h \in Handles : files[h].slot = s /\ files[h].first = c /\ files[h].size = z
  \/ (\A h \in Handles : files[h].slot # s) /\ slots[s].first = c /\ slots[s].size = z

Bytes(d, chain, z) ==
  [i \in 1 .. (IF z <= ClusterSize * Len(chain) THEN z ELSE ClusterSize * Len(chain)) |->
     d[chain[((i - 1) \div ClusterSize) + 1]][(i - 1) % ClusterSize]]

\* Where byte i of a chain is.
LEMMA ByteAt ==
  ASSUME NEW k \in Nat, k >= 1, NEW n \in Nat, NEW i \in Nat, i >= 1, i <= k * n
  PROVE  /\ ((i - 1) \div k) + 1 \in 1 .. n /\ (i - 1) % k \in 0 .. k - 1
         /\ i - 1 = k * ((i - 1) \div k) + ((i - 1) % k)
         /\ (i - 1) \div k \in Nat
<1> DEFINE q == (i - 1) \div k
           r == (i - 1) % k
<1>1. q \in Nat /\ r \in 0 .. k - 1 /\ i - 1 = k * q + r
  BY SMT
<1> HIDE DEF q, r
<1>2. q < n
  <2> SUFFICES ASSUME q >= n PROVE FALSE
    BY <1>1, SMT
  <2>1. k * q >= k * n /\ k * q \in Nat /\ k * n \in Nat
    BY <1>1, SMT
  <2> QED BY <1>1, <2>1, SMT
<1>3. q + 1 \in 1 .. n
  BY <1>1, <1>2, SMT
<1> QED BY <1>1, <1>3 DEF q, r

LEMMA BytesIndex ==
  ASSUME NEW d, NEW chain, Len(chain) \in Nat, NEW z \in Nat, NEW i
  PROVE  i \in DOMAIN Bytes(d, chain, z) <=>
           i \in Nat /\ i >= 1 /\ i <= z /\ i <= ClusterSize * Len(chain)
<1> DEFINE L == ClusterSize * Len(chain)
<1>1. ClusterSize \in Nat /\ ClusterSize >= 1 /\ L \in Nat
  BY SlotNumbers, SMT
<1>2. DOMAIN Bytes(d, chain, z) = 1 .. (IF z <= L THEN z ELSE L)
  BY DEF Bytes
<1> HIDE DEF L
<1>3. i \in DOMAIN Bytes(d, chain, z) <=> i \in Nat /\ i >= 1 /\ i <= z /\ i <= L
  BY <1>1, <1>2, SMT
<1> QED BY <1>3 DEF L

\* Byte i is in place r of the q-th cluster.
InPlaceOf(i, q, r) == i - 1 = ClusterSize * (q - 1) + r

LEMMA BytesFacts ==
  ASSUME NEW d, NEW chain, Len(chain) \in Nat, NEW z \in Nat, NEW i \in DOMAIN Bytes(d, chain, z),
         NEW q, q = ((i - 1) \div ClusterSize) + 1, NEW r, r = (i - 1) % ClusterSize
  PROVE  /\ Bytes(d, chain, z)[i] = d[chain[q]][r]
         /\ q \in 1 .. Len(chain) /\ r \in 0 .. ClusterSize - 1
         /\ InPlaceOf(i, q, r)
<1>1. i \in Nat /\ i >= 1 /\ i <= ClusterSize * Len(chain)
  BY BytesIndex
<1>2. Bytes(d, chain, z)[i] =
        d[chain[((i - 1) \div ClusterSize) + 1]][(i - 1) % ClusterSize]
  BY Zenon DEF Bytes
<1>3. ClusterSize \in Nat /\ ClusterSize >= 1
  BY SlotNumbers
<1> DEFINE p == (i - 1) \div ClusterSize
<1>4. p + 1 \in 1 .. Len(chain) /\ r \in 0 .. ClusterSize - 1
      /\ i - 1 = ClusterSize * p + r /\ p \in Nat
  BY <1>1, <1>3, ByteAt
<1>5. q = p + 1
  OBVIOUS
<1> HIDE DEF p
<1>6. q - 1 = p
  BY <1>4, <1>5, SMT
<1>7. InPlaceOf(i, q, r)
  BY <1>4, <1>6 DEF InPlaceOf
<1> QED BY <1>2, <1>4, <1>5, <1>7

LEMMA StoredIs ==
  ASSUME NEW c, NEW z
  PROVE  /\ Stored(c, z) = Bytes(data, ChainIn(fat, c), z)
         /\ Stored(c, z)' = Bytes(data', ChainIn(fat', c), z)
BY DEF Stored, BytesIn, Bytes

LEMMA ShowsOnce ==
  ASSUME HandleInv, NEW s \in Slot, NEW c, NEW z, Shows(s, c, z), NEW d, NEW y, Shows(s, d, y)
  PROVE  c = d /\ z = y
<1>1. \A g, h \in Handles :
        files[g].slot = s /\ files[h].slot = s =>
          files[g].first = files[h].first /\ files[g].size = files[h].size
  <2> SUFFICES ASSUME NEW g \in Handles, NEW h \in Handles, files[g].slot = s, files[h].slot = s,
                      g # h
               PROVE  files[g].first = files[h].first /\ files[g].size = files[h].size
    OBVIOUS
  <2>1. IsOpen(g) /\ IsOpen(h) /\ PairsClean
    BY Types, SlotNumbers DEF IsOpen, HandlesOK
  <2>2. ~Dirty(g) /\ ~Dirty(h)
    BY <2>1 DEF PairsClean
  <2> QED BY <2>2 DEF Dirty
<1> QED BY <1>1 DEF Shows

LEMMA ViewShows ==
  ASSUME HandleInv, NEW n \in Names, Exists(n)
  PROVE  SlotOf(n) \in Slot /\ Shows(SlotOf(n), View(n).first, View(n).size)
<1> DEFINE s == SlotOf(n)
           H == {h \in Handles : IsOpen(h) /\ slots[files[h].slot].name = n}
<1>1. s \in Slot /\ slots[s].name = n /\ n # NoName
  BY SlotOfFacts, FileAssumption DEF Exists
<1>2. \A h \in Handles : IsOpen(h) => files[h].slot \in Slot
  BY Types DEF IsOpen, HandleType
<1>3. NamesOnce
  BY DEF HandleInv
<1> HIDE DEF s
<1>4. CASE H # {}
  <2> DEFINE g == CHOOSE h \in Handles : IsOpen(h) /\ slots[files[h].slot].name = n
  <2>1. g \in Handles /\ IsOpen(g) /\ slots[files[g].slot].name = n
    BY <1>4
  <2>2. View(n) = files[g]
    BY <1>4, SMTT(30) DEF View
  <2>3. files[g].slot = s
    BY <1>1, <1>2, <1>3, <2>1 DEF NamesOnce
  <2> HIDE DEF g
  <2> QED BY <1>1, <2>1, <2>2, <2>3 DEF Shows, s
<1>5. CASE H = {}
  <2>1. View(n) = slots[s]
    BY <1>5 DEF View, s
  <2>2. \A h \in Handles : files[h].slot # s
    BY <1>1, <1>5, SlotNumbers DEF IsOpen
  <2> QED BY <1>1, <2>1, <2>2 DEF Shows, s
<1> QED BY <1>4, <1>5

ContentShown ==
  \A n \in Names :
    /\ ~Exists(n) => Content(n) = <<>>
    /\ \A c, z : Exists(n) /\ Shows(SlotOf(n), c, z) => Content(n) = Stored(c, z)

LEMMA ContentIs == ASSUME HandleInv PROVE ContentShown
<1> SUFFICES ASSUME NEW n \in Names, Exists(n), NEW c, NEW z, Shows(SlotOf(n), c, z)
             PROVE  Content(n) = Stored(c, z)
  BY DEF Content, ContentShown
<1>1. View(n).first = c /\ View(n).size = z
  BY ViewShows, ShowsOnce
<1> QED BY <1>1 DEF Content

-----------------------------------------------------------------------------
(* What a step leaves alone.                                               *)

SameBytes(c) ==
  ChainIn(fat', c) = ChainIn(fat, c) /\ \A x \in OnChainIn(fat, c) : data'[x] = data[x]

FileKept(s) ==
  /\ slots'[s].name = slots[s].name
  /\ s = call'.slot <=> s = call.slot
  /\ Live(s) => \E c \in Cluster \cup {0}, z \in Nat :
                  Shows(s, c, z) /\ Shows(s, c, z)' /\ SameBytes(c)

LEMMA StoredKept ==
  ASSUME HandleInv, NEW c \in Cluster \cup {0}, NEW z \in Nat, SameBytes(c)
  PROVE  Stored(c, z)' = Stored(c, z)
<1> DEFINE s == ChainIn(fat, c)
<1>1. Len(s) \in Nat /\ OnChainIn(fat, c) = {s[i] : i \in DOMAIN s} /\ DOMAIN s = 1 .. Len(s)
  <2>1. IsTable(fat) /\ c \in Entry
    BY Types, TableNumbers
  <2>2. s \in Seq(Cluster)
    BY <2>1, ChainType
  <2> HIDE DEF s
  <2>3. Len(s) \in Nat /\ DOMAIN s = 1 .. Len(s)
    BY <2>2, LenProperties
  <2> QED BY <2>3 DEF OnChainIn, s
<1>2. ChainIn(fat', c) = s /\ \A i \in 1 .. Len(s) : data'[s[i]] = data[s[i]]
  BY <1>1 DEF SameBytes
<1> HIDE DEF s
<1>3. Bytes(data', s, z) = Bytes(data, s, z)
  <2> DEFINE old == Bytes(data, s, z)
             new == Bytes(data', s, z)
  <2>1. DOMAIN old = DOMAIN new
    BY DEF Bytes
  <2>2. ASSUME NEW i \in DOMAIN old PROVE old[i] = new[i]
    <3> DEFINE q == ((i - 1) \div ClusterSize) + 1
               r == (i - 1) % ClusterSize
    <3>1. q = ((i - 1) \div ClusterSize) + 1 /\ r = (i - 1) % ClusterSize
      OBVIOUS
    <3> HIDE DEF q, r
    <3>2. Len(s) \in Nat /\ i \in DOMAIN Bytes(data, s, z) /\ i \in DOMAIN Bytes(data', s, z)
      BY <1>1, <2>1, <2>2
    <3>3. old[i] = data[s[q]][r]
      BY ONLY <3>1, <3>2, z \in Nat, BytesFacts DEF old
    <3>4. q \in 1 .. Len(s)
      BY ONLY <3>1, <3>2, z \in Nat, BytesFacts, Zenon
    <3>5. new[i] = data'[s[q]][r]
      BY ONLY <3>1, <3>2, z \in Nat, BytesFacts DEF new
    <3> HIDE DEF old, new
    <3> QED BY <1>2, <3>3, <3>4, <3>5
  <2>3. old = [i \in DOMAIN old |-> old[i]] /\ new = [i \in DOMAIN new |-> new[i]]
    BY DEF Bytes
  <2> HIDE DEF old, new
  <2> QED BY <2>1, <2>2, <2>3 DEF old, new
<1> QED BY <1>2, <1>3, StoredIs DEF s

LEMMA ContentKept ==
  ASSUME HandleInv, HandleInv', NEW n \in Names, NEW s0, \A s \in Slot : s # s0 => FileKept(s),
         s0 \in Slot => n # slots[s0].name /\ n # slots'[s0].name
  PROVE  Content(n)' = Content(n)
<1>1. \A s \in Slot : slots'[s].name = n <=> slots[s].name = n
  BY DEF FileKept
<1>2. SlotOf(n)' = SlotOf(n)
  BY <1>1 DEF SlotOf
<1> DEFINE s == SlotOf(n)
<1>3. s \in Slot \cup {0} /\ (s # 0 => s # s0 /\ s \in Slot /\ slots[s].name = n)
  BY SlotOfFacts
<1>4. n # NoName
  BY FileAssumption
<1>5. ContentShown
  BY ContentIs
<1>6. HandleInv' => ContentShown'
  BY ContentIs, PTL
<1>7. CASE s # 0 /\ s # call.slot
  <2>1. Live(s) /\ FileKept(s) /\ Exists(n)
    BY <1>3, <1>4, <1>7 DEF Live, Exists
  <2>2. Exists(n)'
    BY <1>2, <1>7, <2>1 DEF Exists, FileKept
  <2>3. PICK c \in Cluster \cup {0}, z \in Nat : Shows(s, c, z) /\ Shows(s, c, z)' /\ SameBytes(c)
    BY <2>1 DEF FileKept
  <2>4. Content(n) = Stored(c, z)
    BY <1>5, <2>1, <2>3 DEF ContentShown
  <2>5. Shows(SlotOf(n), c, z)'
    <3>1. Shows(s, c, z)' <=> \/ \E h \in Handles : files'[h].slot = s /\ files'[h].first = c
                                                    /\ files'[h].size = z
                              \/ /\ \A h \in Handles : files'[h].slot # s
                                 /\ slots'[s].first = c /\ slots'[s].size = z
      BY <1>2 DEF Shows
    <3> QED BY <1>2, <2>3
  <2>6. Content(n)' = Stored(c, z)'
    BY <1>6, <2>2, <2>5 DEF ContentShown
  <2> QED BY <2>3, <2>4, <2>6, StoredKept
<1>8. CASE ~(s # 0 /\ s # call.slot)
  <2>1. ~Exists(n)
    BY <1>8 DEF Exists
  <2>2. ~Exists(n)'
    <3>1. s # 0 => s = call'.slot
      BY <1>3, <1>8 DEF FileKept
    <3> QED BY <1>2, <3>1 DEF Exists
  <2>3. Content(n) = <<>>
    BY <1>5, <2>1 DEF ContentShown
  <2>4. Content(n)' = <<>>
    BY <1>6, <2>2 DEF ContentShown
  <2> QED BY <2>3, <2>4
<1> QED BY <1>7, <1>8

-----------------------------------------------------------------------------
(* A step changes the chain, the bytes, the entry or the handles of one    *)
(* file at most.                                                           *)

Elsewhere(s0) ==
  /\ ChainsKept(fat', s0)
  /\ \A s \in Slot, c \in Cluster \cup {0} :
       s # s0 /\ Live(s) /\ Owns(s, c) => \A x \in OnChainIn(fat, c) : data'[x] = data[x]
  /\ \A s \in Slot : s # s0 => slots'[s] = slots[s] /\ (s = call'.slot <=> s = call.slot)
  /\ \A h \in Handles :
       /\ files'[h].slot = files[h].slot \/ {files'[h].slot, files[h].slot} \subseteq {0, s0}
       /\ files[h].slot \notin {0, s0} =>
            files'[h].first = files[h].first /\ files'[h].size = files[h].size

\* The file of that slot keeps its name, gets one or loses it.
ChangesOne ==
  \E s0 : /\ Elsewhere(s0)
          /\ s0 \in Slot => \/ slots'[s0].name = slots[s0].name
                            \/ NoName \in {slots[s0].name, slots'[s0].name}

LEMMA Stays ==
  ASSUME HandleInv, NEW s0, Elsewhere(s0), NEW s \in Slot, s # s0
  PROVE  FileKept(s)
<1>1. slots'[s] = slots[s] /\ (s = call'.slot <=> s = call.slot) /\ s # 0
  BY SlotNumbers DEF Elsewhere
<1>2. \A h \in Handles : files'[h].slot = s <=> files[h].slot = s
  BY <1>1 DEF Elsewhere
<1>3. \A h \in Handles : files[h].slot = s =>
        files'[h].first = files[h].first /\ files'[h].size = files[h].size
  BY <1>1 DEF Elsewhere
<1>4. ASSUME NEW c \in Cluster \cup {0}, NEW z \in Nat, Live(s), Owns(s, c), Shows(s, c, z)
      PROVE  Shows(s, c, z)' /\ SameBytes(c)
  <2>1. ChainIn(fat', c) = ChainIn(fat, c) /\ \A x \in OnChainIn(fat, c) : data'[x] = data[x]
    BY <1>4 DEF Elsewhere, ChainsKept
  <2>2. Shows(s, c, z)'
    BY <1>1, <1>2, <1>3, <1>4 DEF Shows
  <2> QED BY <2>1, <2>2 DEF SameBytes
<1>5. ASSUME Live(s)
      PROVE  \E c \in Cluster \cup {0}, z \in Nat : Owns(s, c) /\ Shows(s, c, z)
  <2>1. CASE \E h \in Handles : files[h].slot = s
    <3>1. PICK h \in Handles : files[h].slot = s
      BY <2>1
    <3>2. files[h].first \in Cluster \cup {0} /\ files[h].size \in Nat
      BY Types, SlotNumbers DEF HandleType
    <3> QED BY <3>1, <3>2 DEF Owns, Shows
  <2>2. CASE \A h \in Handles : files[h].slot # s
    <3>1. slots[s].first \in Cluster \cup {0} /\ slots[s].size \in Nat
      BY Types, SlotNumbers DEF HandlesOK
    <3> QED BY <2>2, <3>1 DEF Owns, Shows
  <2> QED BY <2>1, <2>2
<1> QED BY <1>1, <1>4, <1>5 DEF FileKept

LEMMA OnlyOne ==
  ASSUME HandleInv, HandleInv', NEW s0, Elsewhere(s0), NEW n \in Names,
         s0 \in Slot => n # slots[s0].name /\ n # slots'[s0].name
  PROVE  Content(n)' = Content(n)
BY Stays, ContentKept

LEMMA OneContent ==
  ASSUME HandleInv, HandleInv', ChangesOne
  PROVE  Cardinality({n \in Names : Content(n)' # Content(n)}) <= 1
<1> DEFINE S == {n \in Names : Content(n)' # Content(n)}
<1>1. PICK s0 : /\ Elsewhere(s0)
                /\ s0 \in Slot => \/ slots'[s0].name = slots[s0].name
                                  \/ NoName \in {slots[s0].name, slots'[s0].name}
  BY DEF ChangesOne
<1>2. PICK m : s0 \in Slot => \A n \in Names : n # m => n # slots[s0].name /\ n # slots'[s0].name
  <2>1. NoName \notin Names
    BY FileAssumption
  <2>2. CASE slots[s0].name = NoName
    <3> WITNESS slots'[s0].name
    <3> QED BY <2>1, <2>2
  <2>3. CASE slots[s0].name # NoName
    <3> WITNESS slots[s0].name
    <3> QED BY <1>1, <2>1, <2>3
  <2> QED BY <2>2, <2>3
<1>3. S \subseteq {m}
  <2> SUFFICES ASSUME NEW n \in Names, n # m PROVE Content(n)' = Content(n)
    OBVIOUS
  <2> QED BY <1>1, <1>2, OnlyOne
<1> HIDE DEF S
<1>4. IsFiniteSet({m}) /\ Cardinality({m}) = 1
  BY FS_Singleton
<1>5. Cardinality(S) <= 1
  BY <1>3, <1>4, FS_Subset
<1> QED BY <1>5 DEF S

\* FAT[1], which no file owns.
LEMMA SecondEntry == 1 \in FatIndex /\ 1 \notin Cluster /\ 1 # 0
BY TableNumbers, SMT DEF FatIndex, Cluster

\* The clusters of one file and clusters that were free.
LEMMA FatElsewhere ==
  ASSUME HandleInv, FilesApart, NEW s0 \in Slot, NEW c0 \in Cluster \cup {0}, Live(s0), Owns(s0, c0),
         NEW T, \A x \in T : x \in Cluster /\ fat[x] = FREE, NEW g, IsTable(g),
         \A x \in FatIndex : x \notin T /\ x \notin OnChainIn(fat, c0) => g[x] = fat[x]
  PROVE  ChainsKept(g, s0) /\ g[1] = fat[1]
<1>1. ASSUME NEW s \in Slot, NEW c \in Cluster \cup {0}, s # s0, Live(s), Owns(s, c)
      PROVE  ChainIn(g, c) = ChainIn(fat, c)
  <2> DEFINE X == T \cup OnChainIn(fat, c0)
  <2>1. OnChainIn(fat, c) \cap OnChainIn(fat, c0) = {} /\ \A x \in OnChainIn(fat, c) : fat[x] # FREE
    BY <1>1, ChainNotFree
  <2>2. OnChainIn(fat, c) \cap X = {} /\ \A x \in FatIndex : x \notin X => g[x] = fat[x]
    BY <2>1
  <2>3. Acyclic(fat)
    BY DEF FilesApart
  <2> HIDE DEF X
  <2> QED BY <2>2, <2>3, OthersKept
<1>2. g[1] = fat[1]
  <2>1. OnChainIn(fat, c0) \subseteq Cluster
    BY Types, TableNumbers, ChainClusters
  <2> QED BY <2>1, SecondEntry
<1> QED BY <1>1, <1>2 DEF ChainsKept

LEMMA QuietElsewhere ==
  ASSUME NEW s0, UNCHANGED <<fat, data, slots>>, call'.slot = call.slot,
         \A h \in Handles : /\ files'[h].slot = files[h].slot /\ files'[h].first = files[h].first
                            /\ files'[h].size = files[h].size
  PROVE  Elsewhere(s0) /\ ChangesOne /\ fat'[1] = fat[1]
<1>1. Elsewhere(s0)
  BY DEF Elsewhere, ChainsKept
<1> QED BY <1>1 DEF ChangesOne

LEMMA ReadElsewhere ==
  ASSUME HandleInv,
         \/ \E h \in Handles, n \in Nat : ReadFile(h, n) \/ Seek(h, n)
         \/ \E h \in Handles, n \in Nat : \E k \in 0 .. n : Forward(h, n, k)
         \/ \E n \in Names : Stat(n)
  PROVE  ChangesOne /\ fat'[1] = fat[1]
<1>1. /\ UNCHANGED <<fat, slots, call>>
      /\ files' = files \/ \E h \in Handles, p \in Nat : files' = [files EXCEPT ![h].pos = p]
  BY ReadMoves
<1>2. UNCHANGED data
  BY Zenon DEF ReadFile, Seek, Forward, Stat
<1>3. files \in [Handles -> HandleType]
  BY Types
<1>4. \A h \in Handles : /\ files'[h].slot = files[h].slot /\ files'[h].first = files[h].first
                         /\ files'[h].size = files[h].size
  BY <1>1, <1>3 DEF HandleType
<1> QED BY <1>1, <1>2, <1>4, QuietElsewhere

LEMMA OpenElsewhere ==
  ASSUME HandleInv, NEW h \in Handles, NEW n \in Names, OpenFile(h, n)
  PROVE  Elsewhere(files'[h].slot) /\ ChangesOne /\ fat'[1] = fat[1]
<1> DEFINE s0 == IF SlotOf(n) # 0 THEN SlotOf(n)
                 ELSE Least({t \in Slot : slots[t].name = NoName})
           entry == IF SlotOf(n) # 0 THEN slots[s0] ELSE [FreeSlot EXCEPT !.name = n]
           r == [slot |-> s0, first |-> entry.first, pos |-> 0, size |-> entry.size]
<1>1. /\ ~IsOpen(h) /\ slots' = [slots EXCEPT ![s0] = entry] /\ files' = [files EXCEPT ![h] = r]
      /\ UNCHANGED <<fat, data, call>>
  BY DEF OpenFile
<1>2. /\ s0 \in Slot
      /\ SlotOf(n) # 0 => entry = slots[s0]
      /\ SlotOf(n) = 0 => slots[s0].name = NoName
  <2>1. SlotOf(n) \in Slot \cup {0} /\ NamesOnce /\ FileTypeOK
    BY SlotOfFacts DEF HandleInv
  <2> QED BY <2>1, FreeSlotFound
<1>3. r.slot = s0
  OBVIOUS
<1> HIDE DEF s0, entry, r
<1>4. /\ \A s \in Slot : s # s0 => slots'[s] = slots[s]
      /\ slots'[s0] = entry
      /\ \A g \in Handles : g # h => files'[g] = files[g]
      /\ files'[h].slot = s0 /\ files[h].slot = 0
  BY <1>1, <1>2, <1>3, Types DEF IsOpen, HandlesOK
<1>5. Elsewhere(s0)
  BY <1>1, <1>4 DEF Elsewhere, ChainsKept
<1>6. slots'[s0].name = slots[s0].name \/ NoName \in {slots[s0].name, slots'[s0].name}
  BY <1>2, <1>4
<1>7. Elsewhere(files'[h].slot)
  BY <1>4, <1>5
<1>8. ChangesOne
  BY <1>5, <1>6 DEF ChangesOne
<1> QED BY <1>1, <1>7, <1>8

LEMMA CloseElsewhere ==
  ASSUME HandleInv, NEW h \in Handles, CloseFile(h) \/ SyncFile(h)
  PROVE  Elsewhere(files[h].slot) /\ ChangesOne /\ fat'[1] = fat[1]
<1> DEFINE s0 == files[h].slot
<1>1. /\ IsOpen(h) /\ UNCHANGED <<fat, data, call>>
      /\ \/ UNCHANGED <<slots, files>>
         \/ UpdateEntry(h) /\ (files' = files \/ files' = [files EXCEPT ![h] = ClosedFile])
  BY DEF CloseFile, SyncFile, EntryFails
<1>2. CASE UNCHANGED <<slots, files>>
  BY <1>1, <1>2, QuietElsewhere
<1>3. CASE UpdateEntry(h) /\ (files' = files \/ files' = [files EXCEPT ![h] = ClosedFile])
  <2>1. /\ \A s \in Slot : slots'[s].name = slots[s].name
        /\ \A s \in Slot : s # s0 => slots'[s] = slots[s]
    BY <1>1, <1>3, Types, UpdateStep
  <2>2. \A g \in Handles : files'[g] = files[g] \/ (g = h /\ files'[g].slot = 0)
    BY <1>3, Types DEF ClosedFile
  <2>3. Elsewhere(s0)
    BY <1>1, <2>1, <2>2 DEF Elsewhere, ChainsKept
  <2> QED BY <1>1, <2>1, <2>3 DEF ChangesOne
<1> QED BY <1>1, <1>2, <1>3

\* A call on one handle that changes the chain of its file.
LEMMA OwnElsewhere ==
  ASSUME HandleInv, HandleInv', FilesApart, NEW h \in Handles, IsOpen(h),
         NEW T, \A x \in T : x \in Cluster /\ fat[x] = FREE,
         \A x \in FatIndex : x \notin T /\ x \notin OnChainIn(fat, files[h].first) => fat'[x] = fat[x],
         UNCHANGED <<data, slots>>, call'.slot = call.slot, files'[h].slot = files[h].slot,
         \A g \in Handles : g # h => files'[g] = files[g]
  PROVE  Elsewhere(files[h].slot) /\ ChangesOne /\ fat'[1] = fat[1]
<1> DEFINE s0 == files[h].slot
           c0 == files[h].first
<1>1. s0 \in Slot /\ c0 \in Cluster \cup {0} /\ Live(s0) /\ Owns(s0, c0)
  BY Types, OpenLive DEF Owns, IsOpen, HandleType
<1>2. IsTable(fat')
  BY DEF HandleInv, FileTypeOK, IsTable
<1>3. ChainsKept(fat', s0) /\ fat'[1] = fat[1]
  BY <1>1, <1>2, FatElsewhere
<1>4. Elsewhere(s0)
  BY <1>3 DEF Elsewhere
<1> QED BY <1>3, <1>4 DEF ChangesOne

LEMMA TruncateElsewhere ==
  ASSUME HandleInv, HandleInv', FilesApart, NEW h \in Handles, TruncateFile(h)
  PROVE  Elsewhere(files[h].slot) /\ ChangesOne /\ fat'[1] = fat[1]
<1> DEFINE c0 == files[h].first
           last == ClusterAt(c0, files[h].pos)
<1>1. /\ IsOpen(h) /\ UNCHANGED <<data, slots, call>>
      /\ \/ /\ fat' = Release(fat, c0)
            /\ files' = [files EXCEPT ![h].first = 0, ![h].size = 0]
         \/ /\ fat' = CutAfter(last) \/ (last \in Cluster /\ fat' = [fat EXCEPT ![last] = EndOfChain])
            /\ files' = [files EXCEPT ![h].size = files[h].pos]
         \/ UNCHANGED <<fat, files>>
  BY Zenon DEF TruncateFile, Ready
<1>2. /\ files \in [Handles -> HandleType] /\ files[h].pos \in Nat /\ IsTable(fat)
      /\ c0 \in Cluster \cup {0} /\ c0 \in Entry /\ Acyclic(fat)
  BY Types, RoomType DEF FilesApart, HandleType
<1>3. /\ files'[h].slot = files[h].slot
      /\ \A g \in Handles : g # h => files'[g] = files[g]
  <2> HIDE DEF last
  <2> QED BY <1>1, <1>2 DEF HandleType
<1> HIDE DEF last
<1>4. \A x \in FatIndex : x \notin OnChainIn(fat, c0) => fat'[x] = fat[x]
  <2>1. CASE fat' = Release(fat, c0)
    BY <1>2, <2>1, ReleaseFacts
  <2>2. CASE /\ last \in Cluster
             /\ fat' = CutAfter(last) \/ fat' = [fat EXCEPT ![last] = EndOfChain]
    <3> DEFINE cut == [fat EXCEPT ![last] = EndOfChain]
               rest == Release(cut, NextIn(fat, last))
    <3>1. fat' = cut \/ fat' = rest
      <4>1. IsValidCluster(last)
        BY <2>2, ValidEntry, TableNumbers
      <4> QED BY <2>2, <4>1 DEF CutAfter
    <3>2. c0 \in Cluster /\ \E i \in 1 .. Len(ChainIn(fat, c0)) : last = ChainIn(fat, c0)[i]
      BY <1>2, <2>2, ClusterAtFacts DEF last
    <3>3. PICK n : n \in 1 .. Len(ChainIn(fat, c0)) /\ last = ChainIn(fat, c0)[n]
      BY <3>2
    <3>4. Changed(fat, cut, last, EndOfChain) /\ rest = Release(cut, NextIn(fat, last))
      BY <1>2, <2>2, TableNumbers DEF Changed, IsTable
    <3> HIDE DEF c0, cut, rest
    <3>5. \A x \in FatIndex : x \notin OnChainIn(fat, c0) => cut[x] = fat[x] /\ rest[x] = fat[x]
      BY ONLY <1>2, <3>2, <3>3, <3>4, CutFacts
    <3> QED BY <3>1, <3>5
  <2>3. CASE last \notin Cluster /\ fat' = CutAfter(last)
    <3>1. last \in Entry
      BY <1>2, ClusterAtType DEF last
    <3>2. ~IsValidCluster(last)
      BY <2>3, <3>1, ValidEntry
    <3> QED BY <2>3, <3>2 DEF CutAfter
  <2> QED BY <1>1, <2>1, <2>2, <2>3
<1>5. PICK T : T = {}
  OBVIOUS
<1>6. \A x \in T : x \in Cluster /\ fat[x] = FREE
  BY <1>5
<1> QED BY <1>1, <1>3, <1>4, <1>6, OwnElsewhere

LEMMA BeginWriteElsewhere ==
  ASSUME HandleInv, HandleInv', FilesApart, NEW h \in Handles, NEW buffer \in Buffers,
         BeginWrite(h, buffer)
  PROVE  Elsewhere(files[h].slot) /\ ChangesOne /\ fat'[1] = fat[1]
<1> DEFINE new == Allocate(fat, hint, 1)
           T == Taken(fat, hint, 1)
           first == IF files[h].first = 0 THEN new.first ELSE files[h].first
<1>1. /\ call.op = "none" /\ IsOpen(h) /\ UNCHANGED <<data, slots>>
      /\ fat' = fat \/ fat' = new.fat
      /\ files' = files \/ files' = [files EXCEPT ![h].first = first]
      /\ \/ call' = call
         \/ call' = [NoCall EXCEPT !.op = "write", !.handle = h, !.cluster = first,
                       !.offset = files[h].pos, !.buffer = buffer]
  BY DEF BeginWrite, Ready
<1>2. /\ files \in [Handles -> HandleType] /\ IsTable(fat) /\ hint \in Cluster /\ call.slot = 0
  BY <1>1, Types DEF Unlinking
<1> HIDE DEF first
<1>3. /\ files'[h].slot = files[h].slot
      /\ \A g \in Handles : g # h => files'[g] = files[g]
  BY <1>1, <1>2 DEF HandleType
<1>4. call'.slot = call.slot
  BY <1>1, <1>2 DEF NoCall
<1>5. \A x \in T : x \in Cluster /\ fat[x] = FREE
  BY <1>2, TakenClusters
<1>6. \A x \in FatIndex : x \notin T => fat'[x] = fat[x]
  BY <1>1, <1>2, AllocateFacts
<1> HIDE DEF T
<1> QED BY <1>1, <1>3, <1>4, <1>5, <1>6, OwnElsewhere

LEMMA ExpandElsewhere ==
  ASSUME HandleInv, HandleInv', FilesApart, NEW h \in Handles, NEW size \in Nat, Expand(h, size)
  PROVE  Elsewhere(files[h].slot) /\ ChangesOne /\ fat'[1] = fat[1]
<1>1. /\ IsOpen(h) /\ UNCHANGED <<data, slots, call>>
      /\ \E n \in Int, broken \in BOOLEAN : Grow(h, n, broken)
  BY ExpandCases
<1>2. PICK n \in Int, broken \in BOOLEAN : Grow(h, n, broken)
  BY <1>1
<1> DEFINE new == Allocate(fat, hint, n)
           T == Taken(fat, hint, n)
           c0 == files[h].first
           s0 == files[h].slot
<1>3. \/ UNCHANGED <<fat, files>>
      \/ /\ n \in Nat
         /\ files' = [files EXCEPT ![h].first = IF new.ok /\ @ = 0 THEN new.first ELSE @]
         /\ \/ fat' = new.fat
            \/ \E c \in OnChainIn(new.fat, c0) : fat' = [new.fat EXCEPT ![c] = new.first]
  BY <1>2, GrowFacts
<1>4. /\ files \in [Handles -> HandleType] /\ IsTable(fat) /\ hint \in Cluster /\ Acyclic(fat)
      /\ c0 \in Cluster \cup {0} /\ s0 \in Slot /\ Live(s0) /\ Owns(s0, c0)
  BY <1>1, Types, OpenLive DEF FilesApart, Owns, IsOpen, HandleType
<1>5. CASE UNCHANGED <<fat, files>>
  BY <1>1, <1>5, QuietElsewhere
<1>6. ASSUME n \in Nat,
             files' = [files EXCEPT ![h].first = IF new.ok /\ @ = 0 THEN new.first ELSE @],
             \/ fat' = new.fat
             \/ \E c \in OnChainIn(new.fat, c0) : fat' = [new.fat EXCEPT ![c] = new.first]
      PROVE  Elsewhere(files[h].slot) /\ ChangesOne /\ fat'[1] = fat[1]
  <2>1. \A x \in T : x \in Cluster /\ fat[x] = FREE
    BY <1>4, TakenClusters
  <2>2. IsTable(new.fat) /\ \A x \in FatIndex : x \notin T => new.fat[x] = fat[x]
    BY <1>4, <1>6, AllocateFacts
  <2>3. OnChainIn(new.fat, c0) = OnChainIn(fat, c0)
    <3>1. \A x \in OnChainIn(fat, c0) : fat[x] # FREE
      BY <1>4, ChainNotFree
    <3>2. OnChainIn(fat, c0) \cap T = {}
      BY <2>1, <3>1
    <3> HIDE DEF c0, T, new
    <3>3. ChainIn(new.fat, c0) = ChainIn(fat, c0)
      BY <1>4, <2>2, <3>2, OthersKept
    <3> QED BY <3>3 DEF OnChainIn
  <2>4. /\ files'[h].slot = files[h].slot
        /\ \A g \in Handles : g # h => files'[g] = files[g]
    BY <1>4, <1>6 DEF HandleType
  <2>5. \A x \in FatIndex : x \notin T /\ x \notin OnChainIn(fat, c0) => fat'[x] = fat[x]
    <3> HIDE DEF T, new, c0
    <3> QED BY <1>6, <2>2, <2>3 DEF IsTable
  <2> HIDE DEF T, new
  <2> QED BY <1>1, <2>1, <2>4, <2>5, OwnElsewhere
<1> QED BY <1>3, <1>5, <1>6

LEMMA BeginUnlinkElsewhere ==
  ASSUME HandleInv, HandleInv', FilesApart, NEW n \in Names, BeginUnlink(n)
  PROVE  Elsewhere(SlotOf(n)) /\ ChangesOne /\ fat'[1] = fat[1]
<1> DEFINE s0 == SlotOf(n)
           c0 == slots[s0].first
<1>1. /\ call.op = "none" /\ s0 # 0 /\ \A h \in Handles : files[h].slot # s0
      /\ fat' = Release(fat, c0) /\ UNCHANGED <<data, slots, files>>
      /\ call' = [NoCall EXCEPT !.op = "unlink", !.slot = s0]
  BY DEF BeginUnlink, Ready
<1>2. s0 \in Slot /\ slots[s0].name = n /\ n # NoName
  BY <1>1, SlotOfFacts, FileAssumption
<1>3. call.slot = 0 /\ call'.slot = s0
  BY <1>1, Types DEF NoCall, Unlinking
<1>4. Live(s0) /\ Owns(s0, c0) /\ c0 \in Cluster \cup {0} /\ c0 \in Entry
  BY <1>1, <1>2, <1>3, Types, TableNumbers, SlotNumbers DEF Live, Owns, HandlesOK
<1> HIDE DEF s0, c0
<1>5. IsTable(fat') /\ \A x \in FatIndex : x \notin OnChainIn(fat, c0) => fat'[x] = fat[x]
  BY <1>1, <1>4, Types, ReleaseFacts
<1>6. PICK T : T = {}
  OBVIOUS
<1>7. \A x \in T : x \in Cluster /\ fat[x] = FREE
  BY <1>6
<1>8. ChainsKept(fat', s0) /\ fat'[1] = fat[1]
  BY <1>2, <1>4, <1>5, <1>7, FatElsewhere
<1>9. Elsewhere(s0)
  BY <1>1, <1>3, <1>8, SlotNumbers DEF Elsewhere
<1>10. Elsewhere(SlotOf(n))
  BY <1>9 DEF s0
<1>11. ChangesOne
  BY <1>1, <1>9 DEF ChangesOne
<1> QED BY <1>8, <1>10, <1>11

LEMMA EndUnlinkElsewhere ==
  ASSUME HandleInv, EndUnlink
  PROVE  ChangesOne /\ fat'[1] = fat[1]
<1> DEFINE s0 == call.slot
<1>1. /\ call.op = "unlink" /\ EndCall /\ UNCHANGED <<fat, data, files>>
      /\ slots' = slots \/ slots' = [slots EXCEPT ![s0] = FreeSlot]
  BY DEF EndUnlink
<1>2. s0 \in Slot
  BY <1>1, Types DEF Unlinking
<1>3. call'.slot = 0
  BY <1>1, NoCallFacts
<1>4. /\ \A s \in Slot : s # s0 => slots'[s] = slots[s]
      /\ slots'[s0].name = slots[s0].name \/ slots'[s0].name = NoName
  BY <1>1, <1>2, Types DEF HandlesOK, FreeSlot
<1>5. Elsewhere(s0)
  BY <1>1, <1>3, <1>4, SlotNumbers DEF Elsewhere, ChainsKept
<1> QED BY <1>1, <1>4, <1>5 DEF ChangesOne

LEMMA RestartElsewhere ==
  ASSUME HandleInv, Restart
  PROVE  ChangesOne /\ fat'[1] = fat[1]
<1>1. /\ call.op = "none" /\ EndCall /\ UNCHANGED <<fat, data, slots>>
      /\ \A h \in Handles : ~IsOpen(h)
      /\ files' = [h \in Handles |-> ClosedFile]
  BY DEF Restart, Reboot
<1>2. \A h \in Handles : files'[h] = files[h]
  BY <1>1, Types DEF HandlesOK, HandlesMean
<1>3. call'.slot = call.slot
  BY <1>1, Types, NoCallFacts DEF Unlinking
<1> QED BY <1>1, <1>2, <1>3, QuietElsewhere

-----------------------------------------------------------------------------
(* An f_write stays away from the other files.                             *)

\* What follows call.cluster in the FAT is on no other file's chain.
Aside ==
  call.op \in {"write", "copy"} =>
    /\ call.cluster # 0
    /\ call.cluster \in Cluster =>
         \A s \in Slot, c \in Cluster \cup {0} :
           s # files[call.handle].slot /\ Live(s) /\ Owns(s, c) =>
             OnChainIn(fat, call.cluster) \cap OnChainIn(fat, c) = {}

\* The two ways from one cluster to the next.
Follows ==
  /\ UNCHANGED fat /\ NoFault
  /\ call'.cluster = NextIn(fat, call.cluster) /\ call'.cluster # 0

Appends ==
  LET new == Append1(fat, hint, call.cluster) IN
  /\ fat' = new.fat /\ new.ok /\ call'.cluster = new.first
  /\ NextIn(fat, call.cluster) = 0 \/ Fault

GivesUp ==
  fat' = Append1(fat, hint, call.cluster).fat /\ EndCall /\ Return(FALSE)

LEMMA WalkMoves ==
  ASSUME HandleInv, WalkToPosition \/ AdvanceWrite
  PROVE  /\ call.op \in {"write", "copy"} /\ UNCHANGED <<data, slots, files, crashes, tainted>>
         /\ \/ GivesUp
            \/ /\ Follows \/ Appends
               /\ call'.op = "write" /\ call'.handle = call.handle /\ call'.slot = call.slot
               /\ call'.done = call.done /\ call'.buffer = call.buffer /\ UNCHANGED result
               /\ call.op = "write" => /\ call.offset >= ClusterSize
                                       /\ call'.offset = call.offset - ClusterSize
               /\ call.op = "copy" => call'.offset = 0
<1> DEFINE offset == IF call.op = "write" THEN call.offset - ClusterSize ELSE 0
           k == [call EXCEPT !.op = "write"]
           frame == IF call.op = "write" THEN [call EXCEPT !.offset = offset]
                    ELSE [call EXCEPT !.op = "write", !.offset = 0]
<1>1. /\ call.op \in {"write", "copy"} /\ GoToNext(frame)
      /\ UNCHANGED <<data, slots, files, crashes, tainted>>
      /\ call.op = "write" => call.offset >= ClusterSize
  BY DEF WalkToPosition, AdvanceWrite
<1>2. call \in CallType /\ call.offset \in Nat
  BY Types DEF CallType
<1>3. offset \in Nat
  BY <1>1, <1>2, SlotNumbers, SMT
<1>4. /\ k \in CallType /\ k.op = "write" /\ k.handle = call.handle /\ k.slot = call.slot
      /\ k.done = call.done /\ k.offset = call.offset /\ k.buffer = call.buffer
  BY <1>2 DEF CallType
<1>5. frame = [k EXCEPT !.offset = offset]
  BY <1>1, <1>2 DEF CallType
<1> HIDE DEF offset, k, frame
<1>6. /\ frame \in CallType /\ frame.op = "write" /\ frame.handle = call.handle
      /\ frame.slot = call.slot /\ frame.done = call.done /\ frame.offset = offset
      /\ frame.buffer = call.buffer
  BY <1>3, <1>4, <1>5, CallUpdates
<1>7. ASSUME NEW e, call' = [frame EXCEPT !.cluster = e]
      PROVE  /\ call'.op = "write" /\ call'.handle = call.handle /\ call'.slot = call.slot
             /\ call'.done = call.done /\ call'.offset = offset /\ call'.cluster = e
             /\ call'.buffer = call.buffer
  BY <1>6, <1>7 DEF CallType
<1>8. \/ GivesUp
      \/ \E e : /\ call' = [frame EXCEPT !.cluster = e] /\ UNCHANGED result
                /\ Follows \/ Appends
  <2>1. CASE NextCluster(NextIn(fat, call.cluster), frame) /\ NoFault
    <3>1. CASE NextIn(fat, call.cluster) # 0
      <4>1. /\ UNCHANGED <<fat, result>>
            /\ call' = [frame EXCEPT !.cluster = NextIn(fat, call.cluster)]
        BY <2>1, <3>1 DEF NextCluster
      <4> QED BY <1>7, <2>1, <3>1, <4>1 DEF Follows
    <3>2. CASE NextIn(fat, call.cluster) = 0
      <4> DEFINE new == Append1(fat, hint, call.cluster)
      <4>1. /\ fat' = new.fat
            /\ \/ new.ok /\ call' = [frame EXCEPT !.cluster = new.first] /\ UNCHANGED result
               \/ EndCall /\ Return(FALSE)
        BY <2>1, <3>2 DEF NextCluster
      <4> QED BY <1>7, <3>2, <4>1 DEF Appends, GivesUp
    <3> QED BY <3>1, <3>2
  <2>2. CASE NextCluster(0, frame) /\ Fault
    <3> DEFINE new == Append1(fat, hint, call.cluster)
    <3>1. /\ fat' = new.fat
          /\ \/ new.ok /\ call' = [frame EXCEPT !.cluster = new.first] /\ UNCHANGED result
             \/ EndCall /\ Return(FALSE)
      BY <2>2 DEF NextCluster
    <3> QED BY <1>7, <2>2, <3>1 DEF Appends, GivesUp
  <2> QED BY <1>1, <2>1, <2>2 DEF GoToNext
<1> QED BY <1>1, <1>7, <1>8 DEF offset

\* The cluster that is appended, and the entry that is linked to it.
LEMMA AppendedCluster ==
  ASSUME HandleInv, FilesApart, call.op \in {"write", "copy"},
         fat' = Append1(fat, hint, call.cluster).fat,
         NEW e, e = Append1(fat, hint, call.cluster).first, NEW d, d = EndOf(fat, call.cluster)
  PROVE  /\ IsTable(fat') /\ Acyclic(fat')
         /\ d \in Cluster \cup {0}
         /\ d # 0 => d \in OnChainIn(fat, call.cluster) /\ fat[d] \notin Cluster
                     /\ call.cluster \in Cluster
         /\ e = 0 \/ (e \in Cluster /\ fat[e] = FREE /\ e # d)
         /\ \A x \in FatIndex : x # e /\ x # d => fat'[x] = fat[x]
         /\ d # 0 => fat'[d] = fat[d] \/ (fat'[d] = e /\ e # 0)
         /\ e # 0 => fat'[e] \notin Cluster
         /\ Append1(fat, hint, call.cluster).ok => e # 0
<1> DEFINE T == Taken(fat, hint, 1)
           k == call.cluster
           new == Allocate(fat, hint, 1)
<1>1. /\ hint \in Cluster /\ IsTable(fat) /\ Acyclic(fat) /\ k \in Entry /\ 1 \in Nat /\ 1 # 0
  BY Types DEF FilesApart, CallType
<1>2. /\ Append1(fat, hint, k).ok = new.ok /\ e = new.first /\ IsTable(fat')
      /\ \A x \in FatIndex : x \notin T /\ x # d => fat'[x] = fat[x]
      /\ \A x \in T : fat'[x] = new.fat[x] /\ x # d
      /\ d # 0 => fat'[d] = fat[d] \/ (fat'[d] = e /\ e \in T)
  BY <1>1, AppendFacts
<1>3. /\ e \in Cluster \cup {0} /\ (e # 0 => e \in T)
      /\ new.ok => e \in T
      /\ \A c \in T : new.fat[c] = EndOfChain \/ (new.fat[c] \in T /\ c < new.fat[c])
  BY <1>1, <1>2, AllocateFacts
<1>4. /\ \A x \in T : x \in Cluster /\ fat[x] = FREE /\ x \in Nat
      /\ 0 \notin T
  BY <1>1, TakenClusters, TableNumbers
\* T is {e} or empty.
<1>5. \A x \in T : x = e
  <2> DEFINE F == FreeIn(fat, hint)
  <2>1. T = {c \in F : Cardinality({d0 \in F : d0 < c}) < 1}
    BY DEF Taken
  <2>2. F \subseteq hint .. TotalClusters /\ hint \in Int /\ TotalClusters \in Int
    BY <1>1, TableNumbers, SMT DEF FreeIn
  <2>3. IsFiniteSet(F)
    BY <2>2, FS_Interval, FS_Subset
  <2>4. ASSUME NEW x \in T, NEW y \in F PROVE ~(y < x)
    <3> DEFINE B == {d0 \in F : d0 < x}
    <3>1. IsFiniteSet(B) /\ Cardinality(B) < 1
      BY <2>1, <2>3, <2>4, FS_Subset
    <3>2. Cardinality(B) \in Nat
      BY <3>1, FS_CardinalityType
    <3>3. Cardinality(B) = 0
      BY <3>1, <3>2, SMT
    <3>4. B = {}
      BY <3>1, <3>3, FS_EmptySet
    <3> QED BY <3>4
  <2>5. T \subseteq F
    BY <2>1
  <2>6. ASSUME NEW x \in T, NEW y \in T PROVE x = y
    <3>1. x \in Nat /\ y \in Nat /\ ~(y < x) /\ ~(x < y)
      BY <1>4, <2>4, <2>5, <2>6
    <3> QED BY <3>1, SMT
  <2>7. T # {} => e \in T
    <3>1. T # {} => Least(T) \in T
      BY <1>4, LeastOf
    <3>2. new.first = (IF Taken(fat, hint, 1) = {} THEN 0 ELSE Least(Taken(fat, hint, 1)))
      BY DEF Allocate, Taken
    <3> QED BY <1>2, <3>1, <3>2
  <2> QED BY <2>6, <2>7
<1>6. Acyclic(fat')
  BY <1>1, AppendAcyclic
<1>7. /\ d \in Cluster \cup {0}
      /\ d # 0 => d \in OnChainIn(fat, k) /\ fat[d] \notin Cluster
  BY <1>1, EndOfFacts
<1>8. d # 0 => k \in Cluster
  <2>1. ASSUME k \notin Cluster PROVE OnChainIn(fat, k) = {}
    <3>1. ChainIn(fat, k) = <<>>
      BY <1>1, <2>1, NoChain
    <3> QED BY <3>1 DEF OnChainIn
  <2> QED BY <1>7, <2>1
<1>9. e # 0 => fat'[e] \notin Cluster
  <2>1. ASSUME e # 0 PROVE fat'[e] \notin Cluster
    <3>1. e \in T /\ fat'[e] = new.fat[e]
      BY <1>2, <1>3, <2>1
    <3>2. ~(e < e)
      BY <1>4, <3>1, SMT
    <3> HIDE DEF T, new
    <3>3. new.fat[e] = EndOfChain \/ e < e
      BY <1>3, <1>5, <3>1
    <3> QED BY <3>1, <3>2, <3>3, TableNumbers
  <2> QED BY <2>1
<1> HIDE DEF T, new
<1> QED BY <1>2, <1>3, <1>4, <1>5, <1>6, <1>7, <1>8, <1>9

LEMMA WalkElsewhere ==
  ASSUME HandleInv, HandleInv', FilesApart, Aside, WalkToPosition \/ AdvanceWrite
  PROVE  Elsewhere(files[call.handle].slot) /\ ChangesOne /\ fat'[1] = fat[1]
<1> DEFINE s0 == files[call.handle].slot
           e == Append1(fat, hint, call.cluster).first
           d == EndOf(fat, call.cluster)
<1>1. /\ call.op \in {"write", "copy"} /\ UNCHANGED <<data, slots, files>>
      /\ \/ UNCHANGED fat
         \/ fat' = Append1(fat, hint, call.cluster).fat
  BY WalkMoves DEF GivesUp, Follows, Appends
<1>2. call'.slot = call.slot
  <2>1. call.slot = 0
    BY <1>1, Types DEF Unlinking
  <2> QED BY <2>1, WalkMoves, NoCallFacts DEF GivesUp
<1>3. ChainsKept(fat', s0) /\ fat'[1] = fat[1]
  <2>1. CASE UNCHANGED fat
    BY <2>1 DEF ChainsKept
  <2>2. CASE fat' = Append1(fat, hint, call.cluster).fat
    <3>1. /\ IsTable(fat') /\ d \in Cluster \cup {0}
          /\ d # 0 => d \in OnChainIn(fat, call.cluster) /\ call.cluster \in Cluster
          /\ e = 0 \/ (e \in Cluster /\ fat[e] = FREE)
          /\ \A x \in FatIndex : x # e /\ x # d => fat'[x] = fat[x]
      BY <1>1, <2>2, AppendedCluster
    <3> HIDE DEF s0, e, d
    <3>2. ASSUME NEW s \in Slot, NEW c \in Cluster \cup {0}, s # s0, Live(s), Owns(s, c)
          PROVE  ChainIn(fat', c) = ChainIn(fat, c)
      <4>1. \A x \in OnChainIn(fat, c) : fat[x] # FREE /\ x # 0
        BY <3>2, ChainNotFree
      <4>2. d # 0 => d \notin OnChainIn(fat, c)
        BY <1>1, <3>1, <3>2 DEF Aside, s0
      <4>3. OnChainIn(fat, c) \cap {e, d} = {}
        BY <3>1, <4>1, <4>2
      <4>4. Acyclic(fat) /\ \A x \in FatIndex : x \notin {e, d} => fat'[x] = fat[x]
        BY <3>1 DEF FilesApart
      <4> QED BY <3>1, <4>3, <4>4, OthersKept
    <3> QED BY <3>1, <3>2, SecondEntry DEF ChainsKept
  <2> QED BY <1>1, <2>1, <2>2
<1>4. Elsewhere(s0)
  BY <1>1, <1>2, <1>3 DEF Elsewhere
<1> QED BY <1>1, <1>3, <1>4 DEF ChangesOne

LEMMA WriteClusterElsewhere ==
  ASSUME HandleInv, FilesApart, Aside, WriteCluster \/ WriteClusterFails
  PROVE  Elsewhere(files[call.handle].slot) /\ ChangesOne /\ fat'[1] = fat[1]
<1> DEFINE h == call.handle
           s0 == files[h].slot
<1>1. /\ call.op = "write" /\ call.offset < ClusterSize /\ UNCHANGED <<fat, slots>>
      /\ \/ data' = data
         \/ call.cluster \in Cluster /\ data' = [data EXCEPT ![call.cluster] = Patched(@)]
      /\ \/ Len(call.buffer) = 0 /\ FinishWrite(0)
         \/ FinishWrite(call.done + Chunk)
         \/ files' = files /\ call' = [call EXCEPT !.op = "copy", !.done = @ + Chunk]
         \/ files' = files /\ EndCall
  BY DEF WriteCluster, WriteClusterFails
<1>2. /\ call \in CallType /\ call.slot = 0 /\ h \in Handles
      /\ Chunk \in Nat /\ call.done + Chunk <= Len(call.buffer) /\ call.done \in Nat
      /\ Len(call.buffer) \in Nat
  BY <1>1, ChunkFacts, Types DEF Unlinking, Writing
<1>3. call'.slot = call.slot
  BY <1>1, <1>2, NoCallFacts DEF FinishWrite, CallType
<1>4. \A g \in Handles : /\ files'[g].slot = files[g].slot
                         /\ files[g].slot \notin {0, s0} => files'[g] = files[g]
  <2>1. ASSUME NEW n \in Nat, n <= Len(call.buffer), FinishWrite(n)
        PROVE  \A g \in Handles : /\ files'[g].slot = files[g].slot
                                  /\ g # h => files'[g] = files[g]
    BY <1>1, <2>1, FinishStep
  <2>2. call.done + Chunk \in Nat /\ (Len(call.buffer) = 0 => 0 <= Len(call.buffer))
    BY <1>2, SMT
  <2> QED BY <1>1, <1>2, <2>1, <2>2
<1>5. ASSUME NEW s \in Slot, NEW c \in Cluster \cup {0}, s # s0, Live(s), Owns(s, c),
             NEW x \in OnChainIn(fat, c)
      PROVE  data'[x] = data[x]
  <2>1. CASE call.cluster \in Cluster
    <3>1. WalkEnds(fat, call.cluster)
      BY <2>1 DEF FilesApart, Acyclic
    <3>2. call.cluster \in OnChainIn(fat, call.cluster)
      BY <3>1, OnWalk
    <3>3. call.cluster # x
      BY <1>1, <1>5, <2>1, <3>2 DEF Aside
    <3>4. x \in Cluster /\ data \in [Cluster -> [0 .. ClusterSize - 1 -> Byte]]
      BY <1>5, Types, TableNumbers, ChainClusters
    <3> QED BY <1>1, <3>3, <3>4
  <2>2. CASE call.cluster \notin Cluster
    BY <1>1, <2>2
  <2> QED BY <2>1, <2>2
<1>6. Elsewhere(s0)
  BY <1>1, <1>3, <1>4, <1>5 DEF Elsewhere, ChainsKept
<1> QED BY <1>1, <1>6 DEF ChangesOne

LEMMA NotAside ==
  ASSUME call'.op \notin {"write", "copy"}
  PROVE  Aside'
BY DEF Aside

LEMMA BeginWriteAside ==
  ASSUME HandleInv, FilesApart', NEW h \in Handles, NEW buffer \in Buffers, BeginWrite(h, buffer)
  PROVE  Aside'
<1> DEFINE new == IF files[h].first = 0 THEN Allocate(fat, hint, 1).first ELSE files[h].first
<1>1. /\ call.op = "none" /\ IsOpen(h) /\ UNCHANGED slots
      /\ \/ call' = call
         \/ /\ new # 0 /\ files' = [files EXCEPT ![h].first = new]
            /\ call' = [NoCall EXCEPT !.op = "write", !.handle = h, !.cluster = new,
                          !.offset = files[h].pos, !.buffer = buffer]
  BY DEF BeginWrite, Ready
<1>2. PICK first : first = new
  OBVIOUS
<1>3. PICK s0 : s0 = files[h].slot
  OBVIOUS
<1> HIDE DEF new
<1>4. CASE call' = call
  BY <1>1, <1>4, NotAside
<1>5. ASSUME first # 0, files' = [files EXCEPT ![h].first = first],
             call' = [NoCall EXCEPT !.op = "write", !.handle = h, !.cluster = first,
                        !.offset = files[h].pos, !.buffer = buffer]
      PROVE  Aside'
  <2>1. call'.cluster = first /\ call'.handle = h /\ call'.slot = 0 /\ call.slot = 0
    BY <1>1, <1>5, Types DEF NoCall, Unlinking
  <2>2. files'[h].first = first /\ files'[h].slot = s0
    BY <1>3, <1>5, Types DEF HandleType
  <2>3. s0 \in Slot /\ slots[s0].name # NoName /\ s0 # 0
    BY <1>1, <1>3, Types, OpenLive, SlotNumbers DEF IsOpen, HandleType, Live
  <2>4. Live(s0)' /\ Owns(s0, first)'
    BY <1>1, <2>1, <2>2, <2>3 DEF Live, Owns
  <2>5. Apart'
    BY DEF FilesApart
  <2>6. ASSUME first \in Cluster, NEW s \in Slot, NEW c \in Cluster \cup {0},
               s # s0, (Live(s) /\ Owns(s, c))'
        PROVE  OnChainIn(fat', first) \cap OnChainIn(fat', c) = {}
    BY <2>3, <2>4, <2>5, <2>6 DEF Apart
  <2> QED BY <1>5, <2>1, <2>2, <2>6 DEF Aside
<1> QED BY <1>1, <1>2, <1>4, <1>5

LEMMA WalkAside ==
  ASSUME HandleInv, HandleInv', FilesApart, FilesApart', Aside, fat[1] \notin Cluster,
         WalkToPosition \/ AdvanceWrite
  PROVE  Aside'
<1> DEFINE k == call.cluster
           s0 == files[call.handle].slot
<1>1. call.op \in {"write", "copy"} /\ UNCHANGED <<slots, files>> /\ k # 0 /\ k \in Entry
  BY WalkMoves, Types DEF Aside, CallType
<1>2. CASE GivesUp
  BY <1>2, NoCallFacts, NotAside DEF GivesUp
<1>3. ASSUME Follows \/ Appends, call'.handle = call.handle, call'.slot = call.slot
      PROVE  Aside'
  <2>1. \A s \in Slot, c \in Cluster \cup {0} : (Live(s) /\ Owns(s, c))' => Live(s) /\ Owns(s, c)
    BY <1>1, <1>3, SameOwners
  <2>2. CASE Follows
    <3>1. UNCHANGED fat /\ call'.cluster = NextIn(fat, k) /\ call'.cluster # 0
      BY <2>2 DEF Follows
    <3>2. ASSUME call'.cluster \in Cluster
          PROVE  k \in Cluster /\ OnChainIn(fat, call'.cluster) \subseteq OnChainIn(fat, k)
      <4>1. k \in FatIndex /\ fat[k] = call'.cluster
        BY <3>1 DEF NextIn
      <4>2. k \in Cluster
        <5>1. k \in 0 .. TotalClusters + 1 /\ k # 0 /\ k # 1
          BY <1>1, <3>2, <4>1 DEF FatIndex
        <5> HIDE DEF k
        <5> QED BY <5>1, TableNumbers, SMT DEF Cluster
      <4>3. WalkEnds(fat, k)
        BY <4>2 DEF FilesApart, Acyclic
      <4>4. k \in OnChainIn(fat, k)
        BY <4>3, OnWalk
      <4>5. fat[k] \in OnChainIn(fat, k)
        BY <3>2, <4>1, <4>3, <4>4, WalkGoesOn
      <4>6. OnChainIn(fat, fat[k]) \subseteq OnChainIn(fat, k)
        BY <4>3, <4>5, WalkFrom
      <4> QED BY <4>1, <4>2, <4>6
    <3>3. ASSUME call'.cluster \in Cluster, NEW s \in Slot, NEW c \in Cluster \cup {0},
                 s # s0, (Live(s) /\ Owns(s, c))'
          PROVE  OnChainIn(fat', call'.cluster) \cap OnChainIn(fat', c) = {}
      <4>1. OnChainIn(fat, k) \cap OnChainIn(fat, c) = {}
        BY <1>1, <2>1, <3>2, <3>3 DEF Aside
      <4> QED BY <3>1, <3>2, <3>3, <4>1
    <3> QED BY <1>1, <1>3, <3>1, <3>3 DEF Aside
  <2>3. CASE Appends
    <3> DEFINE e == Append1(fat, hint, k).first
    <3>1. /\ fat' = Append1(fat, hint, k).fat /\ call'.cluster = e
          /\ Append1(fat, hint, k).ok
      BY <2>3 DEF Appends
    <3>2. e \in Cluster /\ fat[e] = FREE /\ fat'[e] \notin Cluster /\ IsTable(fat') /\ e # 0
      BY <1>1, <3>1, AppendedCluster
    <3> HIDE DEF e
    <3>3. OnChainIn(fat', e) = {e}
      BY <3>2, LoneChain
    <3>4. ASSUME NEW s \in Slot, NEW c \in Cluster \cup {0}, s # s0, (Live(s) /\ Owns(s, c))'
          PROVE  OnChainIn(fat', e) \cap OnChainIn(fat', c) = {}
      <4>1. Live(s) /\ Owns(s, c)
        BY <2>1, <3>4
      <4>2. ChainIn(fat', c) = ChainIn(fat, c)
        BY <3>4, <4>1, WalkElsewhere DEF Elsewhere, ChainsKept
      <4>3. e \notin OnChainIn(fat, c)
        BY <3>2, <4>1, ChainNotFree
      <4> QED BY <3>3, <4>2, <4>3 DEF OnChainIn
    <3> QED BY <1>1, <1>3, <3>1, <3>2, <3>4 DEF Aside
  <2> QED BY <1>3, <2>2, <2>3
<1> QED BY <1>2, <1>3, WalkMoves

LEMMA WriteClusterAside ==
  ASSUME HandleInv, FilesApart, Aside, WriteCluster \/ WriteClusterFails
  PROVE  Aside'
<1>1. /\ call.op = "write" /\ UNCHANGED <<fat, slots>>
      /\ \/ EndCall
         \/ files' = files /\ call' = [call EXCEPT !.op = "copy", !.done = @ + Chunk]
  BY DEF WriteCluster, WriteClusterFails, FinishWrite
<1>2. CASE EndCall
  BY <1>2, NoCallFacts, NotAside
<1>3. CASE files' = files /\ call' = [call EXCEPT !.op = "copy", !.done = @ + Chunk]
  <2>1. call'.cluster = call.cluster /\ call'.handle = call.handle /\ call'.slot = call.slot
    BY <1>3, Types DEF CallType
  <2>2. \A s \in Slot, c \in Cluster \cup {0} : (Live(s) /\ Owns(s, c))' => Live(s) /\ Owns(s, c)
    BY <1>1, <1>3, <2>1, SameOwners
  <2> QED BY <1>1, <1>3, <2>1, <2>2 DEF Aside
<1> QED BY <1>1, <1>2, <1>3

-----------------------------------------------------------------------------
(* One file at most changes.                                               *)

SideInv == ~tainted => fat[1] \notin Cluster /\ Aside

LEMMA StepChangesOne ==
  ASSUME HandleInv, HandleInv', FilesApart, Aside, Next
  PROVE  Crash \/ (ChangesOne /\ fat'[1] = fat[1])
<1> DEFINE Goal == ChangesOne /\ fat'[1] = fat[1]
<1>1. ASSUME NEW h \in Handles, NEW n \in Names, OpenFile(h, n) PROVE Goal
  BY <1>1, OpenElsewhere
<1>2. ASSUME NEW h \in Handles, CloseFile(h) \/ SyncFile(h) PROVE Goal
  BY <1>2, CloseElsewhere
<1>3. ASSUME NEW h \in Handles, TruncateFile(h) PROVE Goal
  BY <1>3, TruncateElsewhere
<1>4. ASSUME NEW h \in Handles, NEW n \in Nat, ReadFile(h, n) \/ Seek(h, n) PROVE Goal
  BY <1>4, ReadElsewhere
<1>5. ASSUME NEW h \in Handles, NEW n \in Nat, NEW k \in 0 .. n, Forward(h, n, k) PROVE Goal
  BY <1>5, ReadElsewhere
<1>6. ASSUME NEW h \in Handles, NEW n \in Nat, Expand(h, n) PROVE Goal
  BY <1>6, ExpandElsewhere
<1>7. ASSUME NEW h \in Handles, NEW buffer \in Buffers, BeginWrite(h, buffer) PROVE Goal
  BY <1>7, BeginWriteElsewhere
<1>8. ASSUME NEW n \in Names, Stat(n) PROVE Goal
  BY <1>8, ReadElsewhere
<1>9. ASSUME NEW n \in Names, BeginUnlink(n) PROVE Goal
  BY <1>9, BeginUnlinkElsewhere
<1>10. ASSUME WalkToPosition \/ AdvanceWrite PROVE Goal
  BY <1>10, WalkElsewhere
<1>11. ASSUME WriteCluster \/ WriteClusterFails PROVE Goal
  BY <1>11, WriteClusterElsewhere
<1>12. ASSUME EndUnlink PROVE Goal
  BY <1>12, EndUnlinkElsewhere
<1>13. ASSUME Restart PROVE Goal
  BY <1>13, RestartElsewhere
<1> HIDE DEF Goal
<1>14. Crash \/ Goal
  BY <1>1, <1>2, <1>3, <1>4, <1>5, <1>6, <1>7, <1>8, <1>9, <1>10, <1>11, <1>12, <1>13,
     NextCases, Zenon
<1> QED BY <1>14 DEF Goal

\* Only f_write starts and carries on an f_write.
LEMMA WritesFollow ==
  ASSUME HandleInv, Next
  PROVE  \/ \E h \in Handles, buffer \in Buffers : BeginWrite(h, buffer)
         \/ WalkToPosition \/ AdvanceWrite \/ WriteCluster \/ WriteClusterFails
         \/ call'.op \notin {"write", "copy"}
<1>1. ASSUME call.op = "none", UNCHANGED call PROVE call'.op \notin {"write", "copy"}
  BY <1>1
<1>2. ASSUME NEW h \in Handles, NEW n \in Names, OpenFile(h, n)
      PROVE  call'.op \notin {"write", "copy"}
  BY <1>1, <1>2 DEF OpenFile, Ready
<1>3. ASSUME NEW h \in Handles, CloseFile(h) \/ SyncFile(h)
      PROVE  call'.op \notin {"write", "copy"}
  BY <1>1, <1>3 DEF CloseFile, SyncFile, Ready
<1>4. ASSUME NEW h \in Handles, TruncateFile(h) PROVE call'.op \notin {"write", "copy"}
  BY <1>1, <1>4 DEF TruncateFile, Ready
<1>5. ASSUME \/ \E h \in Handles, n \in Nat : ReadFile(h, n) \/ Seek(h, n)
             \/ \E h \in Handles, n \in Nat : \E k \in 0 .. n : Forward(h, n, k)
             \/ \E n \in Names : Stat(n)
      PROVE  call'.op \notin {"write", "copy"}
  BY <1>1, <1>5, ReadMoves
<1>6. ASSUME NEW h \in Handles, NEW n \in Nat, Expand(h, n)
      PROVE  call'.op \notin {"write", "copy"}
  BY <1>1, <1>6, ExpandCases
<1>7. ASSUME NEW n \in Names, BeginUnlink(n) PROVE call'.op \notin {"write", "copy"}
  BY <1>7 DEF BeginUnlink, NoCall
<1>8. ASSUME EndUnlink \/ Restart \/ Crash PROVE call'.op \notin {"write", "copy"}
  BY <1>8, NoCallFacts DEF EndUnlink, Restart, Crash, Reboot
<1> QED BY <1>2, <1>3, <1>4, <1>5, <1>6, <1>7, <1>8, NextCases, Zenon

LEMMA Untainted ==
  ASSUME FilesInv, FilesInv', [Next]_fileVars, ~tainted'
  PROVE  ~tainted /\ HandleInv /\ HandleInv' /\ FilesApart /\ FilesApart'
<1>1. ~tainted
  <2>1. CASE UNCHANGED fileVars
    BY <2>1 DEF fileVars
  <2>2. CASE Next
    BY <2>2, NextCounts, Zenon DEF Counts
  <2> QED BY <2>1, <2>2
<1> QED BY <1>1 DEF FilesInv

LEMMA SideInit == Init => SideInv
<1> SUFFICES ASSUME Init PROVE SideInv
  OBVIOUS
<1>1. fat = EmptyFat /\ call.op = "none"
  BY DEF Init, NoCall
<1>2. fat[1] = EndOfChain
  BY <1>1, SecondEntry, SMT DEF EmptyFat
<1> QED BY <1>1, <1>2, TableNumbers DEF SideInv, Aside

LEMMA SideNext == FilesInv /\ FilesInv' /\ SideInv /\ [Next]_fileVars => SideInv'
<1> SUFFICES ASSUME FilesInv, FilesInv', SideInv, [Next]_fileVars, ~tainted'
             PROVE  fat'[1] \notin Cluster /\ Aside'
  BY DEF SideInv
<1>1. ~tainted /\ HandleInv /\ HandleInv' /\ FilesApart /\ FilesApart'
  BY Untainted
<1>2. fat[1] \notin Cluster /\ Aside
  BY <1>1 DEF SideInv
<1>3. CASE UNCHANGED fileVars
  <2>1. Aside'
    <3>1. Aside' <=> Aside
      BY <1>3 DEF fileVars, Aside, Live, Owns
    <3> QED BY <1>2, <3>1
  <2> QED BY <1>2, <1>3, <2>1 DEF fileVars
<1>4. CASE Next
  <2>1. fat'[1] = fat[1]
    <3>1. Crash => fat' = fat
      BY DEF Crash, Reboot
    <3> QED BY <1>1, <1>2, <1>4, <3>1, StepChangesOne
  <2>2. ASSUME NEW h \in Handles, NEW buffer \in Buffers, BeginWrite(h, buffer) PROVE Aside'
    BY <1>1, <2>2, BeginWriteAside
  <2>3. WalkToPosition \/ AdvanceWrite => Aside'
    BY <1>1, <1>2, WalkAside
  <2>4. WriteCluster \/ WriteClusterFails => Aside'
    BY <1>1, <1>2, WriteClusterAside
  <2>5. Aside'
    BY <1>1, <1>4, <2>2, <2>3, <2>4, WritesFollow, NotAside
  <2> QED BY <1>2, <2>1, <2>5
<1> QED BY <1>3, <1>4

LEMMA SideAlways == FileSpec => [](FilesInv /\ SideInv)
<1>1. Init => FilesInv /\ SideInv
  BY FilesInit, SideInit
<1>2. FilesInv /\ SideInv /\ [Next]_fileVars => (FilesInv /\ SideInv)'
  BY FilesNext, SideNext
<1> QED BY <1>1, <1>2, PTL DEF FileSpec

\* Whatever fails and wherever a call is cut off, a step changes the bytes of one file
\* at most, until an entry names clusters that are not its own.
THEOREM OneFileChangesAlways == FileSpec => OneFileChanges
<1> DEFINE OneOnly == ~tainted' /\ crashes' = crashes =>
                        Cardinality({n \in Names : Content(n)' # Content(n)}) <= 1
<1>1. FilesInv /\ FilesInv' /\ SideInv /\ [Next]_fileVars => [OneOnly]_fileVars
  <2> SUFFICES ASSUME FilesInv, FilesInv', SideInv, Next, ~tainted', crashes' = crashes
               PROVE  Cardinality({n \in Names : Content(n)' # Content(n)}) <= 1
    BY DEF fileVars
  <2>1. ~tainted /\ HandleInv /\ HandleInv' /\ FilesApart
    BY Untainted
  <2>2. ~Crash
    <3>1. crashes \in Nat
      BY <2>1, Types, FileAssumption, SMT
    <3> QED BY <3>1, SMT DEF Crash
  <2>3. ChangesOne
    BY <2>1, <2>2, StepChangesOne DEF SideInv
  <2> QED BY <2>1, <2>3, OneContent
<1> HIDE DEF OneOnly
<1>2. FileSpec => [][OneOnly]_fileVars
  BY <1>1, SideAlways, PTL DEF FileSpec
<1> QED BY <1>2, PTL DEF OneFileChanges, OneOnly

-----------------------------------------------------------------------------
(* Where an f_write puts its bytes.                                        *)

\* It is off the chain of its file, where nothing follows; or at the cluster its
\* position lies in; or at the end of the chain, past every byte of the file.
Off ==
  /\ call.cluster \notin OnChainIn(fat, files[call.handle].first)
  /\ call.cluster \in Cluster => fat[call.cluster] \notin Cluster

Exact(i) ==
  /\ At(i)
  /\ call.op = "write" => (i - 1) * ClusterSize + call.offset = Reached
  /\ call.op = "copy" => i * ClusterSize = Reached

Behind(i) ==
  /\ At(i) /\ i = Len(ChainIn(fat, files[call.handle].first))
  /\ files[call.handle].size <= (i - 1) * ClusterSize

Place ==
  call.op \in {"write", "copy"} => Off \/ \E i \in Nat : Exact(i) \/ Behind(i)

LEMMA PlacedOff ==
  ASSUME NEW h, call'.handle = h, NEW c, c = files'[h].first,
         call'.cluster \notin OnChainIn(fat', c),
         call'.cluster \in Cluster => fat'[call'.cluster] \notin Cluster
  PROVE  Place'
<1>1. Off'
  BY DEF Off
<1> QED BY <1>1, Zenon DEF Place

LEMMA PlacedExact ==
  ASSUME NEW h, call'.handle = h, NEW c, c = files'[h].first,
         NEW i \in Nat, i \in 1 .. Len(ChainIn(fat', c)), call'.cluster = ChainIn(fat', c)[i],
         call'.op = "write" => (i - 1) * ClusterSize + call'.offset = files'[h].pos + call'.done,
         call'.op = "copy" => i * ClusterSize = files'[h].pos + call'.done
  PROVE  Place'
<1>1. At(i)'
  BY DEF At
<1>2. Exact(i)'
  BY <1>1 DEF Exact, Reached
<1> QED BY <1>2, Zenon DEF Place

LEMMA PlacedBehind ==
  ASSUME NEW h, call'.handle = h, NEW c, c = files'[h].first,
         NEW i \in Nat, i \in 1 .. Len(ChainIn(fat', c)), call'.cluster = ChainIn(fat', c)[i],
         i = Len(ChainIn(fat', c)), files'[h].size <= (i - 1) * ClusterSize
  PROVE  Place'
<1>1. At(i)'
  BY DEF At
<1>2. Behind(i)'
  BY <1>1 DEF Behind
<1> QED BY <1>2, Zenon DEF Place

LEMMA Displaced ==
  ASSUME call'.op \notin {"write", "copy"}
  PROVE  Place'
BY DEF Place

\* What appending a cluster does to the chain of the file.
LEMMA AppendedChain ==
  ASSUME HandleInv, FilesApart, call.op \in {"write", "copy"},
         fat' = Append1(fat, hint, call.cluster).fat,
         NEW c, c = files[call.handle].first,
         NEW e, e = Append1(fat, hint, call.cluster).first,
         \/ call.cluster \in OnChainIn(fat, c)
         \/ call.cluster \in Cluster => fat[call.cluster] \notin Cluster
  PROVE  /\ \/ ChainIn(fat', c) = ChainIn(fat, c) /\ (e # 0 => e \notin OnChainIn(fat', c))
            \/ /\ call.cluster \in OnChainIn(fat, c) /\ e \in Cluster
               /\ ChainIn(fat', c) = Append(ChainIn(fat, c), e)
         /\ e # 0 => e \in Cluster /\ fat'[e] \notin Cluster
<1> DEFINE k == call.cluster
           d == EndOf(fat, k)
           s == ChainIn(fat, c)
           s0 == files[call.handle].slot
<1>1. /\ IsTable(fat') /\ Acyclic(fat) /\ IsTable(fat)
      /\ d # 0 => d \in OnChainIn(fat, k) /\ fat[d] \notin Cluster /\ k \in Cluster
      /\ e = 0 \/ (e \in Cluster /\ fat[e] = FREE /\ e # d)
      /\ \A x \in FatIndex : x # e /\ x # d => fat'[x] = fat[x]
      /\ d # 0 => fat'[d] = fat[d] \/ (fat'[d] = e /\ e # 0)
      /\ e # 0 => fat'[e] \notin Cluster
  BY AppendedCluster, Types DEF FilesApart
<1>2. /\ c \in Cluster \cup {0} /\ s0 \in Slot /\ Live(s0) /\ Owns(s0, c)
  BY WritersLinks
<1>3. \A x \in OnChainIn(fat, c) : x \in FatIndex /\ fat[x] # FREE /\ x # 0 /\ x # e
  <2>1. \A x \in OnChainIn(fat, c) : x \in FatIndex /\ fat[x] # FREE /\ x # 0
    BY <1>2, ChainNotFree
  <2> QED BY <1>1, <2>1
<1> HIDE DEF k, d, s, s0
<1>4. CASE d \in OnChainIn(fat, c) /\ fat'[d] # fat[d]
  <2>1. d # 0 /\ fat'[d] = e /\ e \in Cluster /\ fat[d] \notin Cluster /\ fat'[e] \notin Cluster
        /\ k \in Cluster
    BY <1>1, <1>3, <1>4
  <2>2. k \in OnChainIn(fat, c)
    <3>1. SUFFICES ASSUME fat[k] \notin Cluster PROVE k \in OnChainIn(fat, c)
      BY <2>1 DEF k
    <3>2. OnChainIn(fat, k) = {k}
      BY <1>1, <2>1, <3>1, LoneChain
    <3> QED BY <1>1, <1>4, <2>1, <3>2
  <2>3. c \in Cluster
    <3>1. c # 0
      BY <1>4, NoClusters
    <3> QED BY <1>2, <3>1
  <2>4. WalkEnds(fat, c)
    BY <1>1, <2>3 DEF Acyclic
  <2>5. /\ Whole(fat, s) /\ s[1] = c /\ Path(fat, s)
        /\ OnChainIn(fat, c) = {s[i] : i \in 1 .. Len(s)}
    BY <2>4, ChainOfWalk, OnWalk DEF Whole, s
  <2>6. PICK n : n \in 1 .. Len(s) /\ d = s[n]
    BY <1>4, <2>5
  <2>7. d = s[Len(s)]
    BY <2>1, <2>5, <2>6, LastOfChain
  <2>8. /\ s \in Seq(Cluster) /\ Len(s) >= 1 /\ Len(s) \in Nat
        /\ \A i \in 1 .. Len(s) - 1 : fat[s[i]] = s[i + 1]
    BY <2>5, PathFacts DEF Path
  <2>9. Path(fat', s)
    <3>1. ASSUME NEW i \in 1 .. Len(s) - 1 PROVE fat'[s[i]] = s[i + 1]
      <4>1. i \in 1 .. Len(s) /\ i + 1 \in 1 .. Len(s)
        BY <2>8, SMT
      <4>2. s[i] \in OnChainIn(fat, c) /\ s[i + 1] \in Cluster
        BY <2>5, <2>8, <4>1, ElementOfSeq
      <4>3. fat[s[i]] = s[i + 1]
        BY <2>8
      <4>4. s[i] # d /\ s[i] # e /\ s[i] \in FatIndex
        BY <1>3, <2>1, <4>2, <4>3
      <4> QED BY <1>1, <4>3, <4>4
    <3> QED BY <2>8, <3>1 DEF Path
  <2>10. /\ Path(fat', Append(s, e)) /\ Append(s, e)[1] = c
         /\ Len(Append(s, e)) = Len(s) + 1
    BY <2>1, <2>5, <2>7, <2>9, AppendPath
  <2>11. Append(s, e)[Len(Append(s, e))] = e
    BY <2>8, <2>10
  <2>12. Whole(fat', Append(s, e))
    BY <2>1, <2>10, <2>11 DEF Whole
  <2>13. ChainIn(fat', c) = Append(s, e)
    BY <1>1, <2>10, <2>12, WholeIsChain
  <2> QED BY <2>1, <2>2, <2>13 DEF k, s
<1>5. CASE ~(d \in OnChainIn(fat, c) /\ fat'[d] # fat[d])
  <2>1. \A x \in OnChainIn(fat, c) : fat'[x] = fat[x]
    BY <1>1, <1>3, <1>5
  <2>2. ChainIn(fat', c) = ChainIn(fat, c) /\ OnChainIn(fat', c) = OnChainIn(fat, c)
    BY <1>1, <1>2, <2>1, OwnWalkKept
  <2> QED BY <1>1, <1>3, <2>2
<1> QED BY <1>4, <1>5

\* The chain of the file stays, or one cluster is appended to it.
Extends(c) ==
  \/ ChainIn(fat', c) = ChainIn(fat, c)
  \/ \E e \in Cluster : ChainIn(fat', c) = Append(ChainIn(fat, c), e)

LEMMA PlaceOf ==
  ASSUME HandleInv, FilesApart, Place, call.op \in {"write", "copy"},
         NEW h, h = call.handle, NEW c, c = files[h].first, NEW s, s = ChainIn(fat, c)
  PROVE  \/ call.cluster \notin OnChainIn(fat, c)
            /\ (call.cluster \in Cluster => fat[call.cluster] \notin Cluster)
         \/ \E i \in Nat :
              /\ i \in 1 .. Len(s) /\ call.cluster = s[i] /\ s[i] \in OnChainIn(fat, c)
              /\ \/ /\ call.op = "write" =>
                         (i - 1) * ClusterSize + call.offset = files[h].pos + call.done
                    /\ call.op = "copy" => i * ClusterSize = files[h].pos + call.done
                 \/ i = Len(s) /\ files[h].size <= (i - 1) * ClusterSize
<1>1. CASE Off
  BY <1>1 DEF Off
<1>2. CASE \E i \in Nat : Exact(i) \/ Behind(i)
  <2>1. PICK i \in Nat : Exact(i) \/ Behind(i)
    BY <1>2
  <2>2. /\ At(i)
        /\ \/ /\ call.op = "write" => (i - 1) * ClusterSize + call.offset = Reached
              /\ call.op = "copy" => i * ClusterSize = Reached
           \/ i = Len(s) /\ files[h].size <= (i - 1) * ClusterSize
    BY <2>1 DEF Exact, Behind
  <2>3. i \in 1 .. Len(s) /\ call.cluster = s[i] /\ Reached = files[h].pos + call.done
    BY <2>2 DEF At, Reached
  <2>4. s[i] \in OnChainIn(fat, c)
    <3>1. c \in Cluster \cup {0}
      BY WritersLinks
    <3>2. s \in Seq(Cluster)
      BY <3>1, TableNumbers, Types, ChainType
    <3>3. DOMAIN s = 1 .. Len(s)
      BY <3>2, LenProperties
    <3> QED BY <2>3, <3>3 DEF OnChainIn
  <2> QED BY <2>2, <2>3, <2>4
<1> QED BY <1>1, <1>2 DEF Place

LEMMA BeginWritePlaced ==
  ASSUME HandleInv, HandleInv', FilesApart', NEW h \in Handles, NEW buffer \in Buffers,
         BeginWrite(h, buffer)
  PROVE  Place'
<1> DEFINE new == IF files[h].first = 0 THEN Allocate(fat, hint, 1).first ELSE files[h].first
<1>1. /\ call.op = "none"
      /\ \/ call' = call
         \/ /\ new # 0 /\ files' = [files EXCEPT ![h].first = new]
            /\ call' = [NoCall EXCEPT !.op = "write", !.handle = h, !.cluster = new,
                          !.offset = files[h].pos, !.buffer = buffer]
  BY DEF BeginWrite, Ready
<1>2. PICK first : first = new
  OBVIOUS
<1> HIDE DEF new
<1>3. CASE call' = call
  BY <1>1, <1>3, Displaced
<1>4. ASSUME first # 0, files' = [files EXCEPT ![h].first = first],
             call' = [NoCall EXCEPT !.op = "write", !.handle = h, !.cluster = first,
                        !.offset = files[h].pos, !.buffer = buffer]
      PROVE  Place'
  <2>1. /\ call'.cluster = first /\ call'.handle = h /\ call'.op = "write"
        /\ call'.offset = files[h].pos /\ call'.done = 0
    BY <1>4 DEF NoCall
  <2>2. files'[h].first = first /\ files'[h].pos = files[h].pos /\ files[h].pos \in Nat
    BY <1>4, Types, RoomType DEF HandleType
  <2>3. first \in Cluster
    <3>1. files'[h].first \in Cluster \cup {0}
      <4>1. HandleInv' => (files \in [Handles -> HandleType])'
        BY Types, PTL
      <4> QED BY <4>1 DEF HandleType
    <3> QED BY <1>4, <2>2, <3>1
  <2>4. Acyclic(fat')
    BY DEF FilesApart
  <2>5. 1 \in 1 .. Len(ChainIn(fat', first)) /\ ChainIn(fat', first)[1] = first
    BY <2>3, <2>4, FirstOfChain
  <2>6. (1 - 1) * ClusterSize + call'.offset = files'[h].pos + call'.done /\ 1 \in Nat
    <3>1. (1 - 1) * ClusterSize = 0
      BY SlotNumbers, SMT
    <3> QED BY <2>1, <2>2, <3>1, SMT
  <2> QED BY <2>1, <2>2, <2>5, <2>6, PlacedExact
<1> QED BY <1>1, <1>2, <1>3, <1>4

LEMMA WalkPlaced ==
  ASSUME HandleInv, HandleInv', FilesApart, Aside, Place, fat[1] \notin Cluster,
         WalkToPosition \/ AdvanceWrite, NEW h, h = call.handle, NEW c, c = files[h].first,
         Fault => files[h].size <= ClusterSize * Len(ChainIn(fat, c))
  PROVE  Place' /\ Extends(c)
<1> DEFINE s == ChainIn(fat, c)
           k == call.cluster
           e == Append1(fat, hint, k).first
<1>1. /\ call.op \in {"write", "copy"} /\ UNCHANGED <<slots, files>>
      /\ call.cluster # 0 /\ call.cluster \in Entry /\ IsTable(fat)
      /\ call.offset \in Nat /\ call.done \in Nat /\ ClusterSize \in Nat /\ ClusterSize >= 1
  BY WalkMoves, Types, SlotNumbers DEF Aside, CallType
<1>2. /\ h \in Handles /\ Len(s) \in Nat /\ s \in Seq(Cluster)
      /\ files[h].pos \in Nat /\ files[h].size \in Nat
      /\ \A i \in 1 .. Len(s) :
           /\ s[i] \in Cluster /\ NextIn(fat, s[i]) # 0
           /\ NextIn(fat, s[i]) \in Cluster =>
                i + 1 \in 1 .. Len(s) /\ NextIn(fat, s[i]) = s[i + 1]
           /\ NextIn(fat, s[i]) \notin Cluster => i = Len(s)
  <2>1. c \in Cluster \cup {0}
    BY <1>1, WritersLinks
  <2>2. s \in Seq(Cluster)
    BY <2>1, <1>1, TableNumbers, ChainType
  <2>3. /\ h \in Handles /\ Len(s) \in Nat /\ files[h].pos \in Nat /\ files[h].size \in Nat
        /\ \A i \in 1 .. Len(s) :
             /\ s[i] \in Cluster /\ NextIn(fat, s[i]) # 0
             /\ NextIn(fat, s[i]) \in Cluster =>
                  i + 1 \in 1 .. Len(s) /\ NextIn(fat, s[i]) = s[i + 1]
             /\ NextIn(fat, s[i]) \notin Cluster => i = Len(s)
    BY <1>1, WritersLinks
  <2> HIDE DEF s
  <2> QED BY <2>2, <2>3
<1>3. OnChainIn(fat, c) \subseteq Cluster
  <2>1. c \in Cluster \cup {0}
    BY <1>1, WritersLinks
  <2> QED BY <2>1, <1>1, TableNumbers, ChainClusters
<1>4. \/ k \notin OnChainIn(fat, c) /\ (k \in Cluster => fat[k] \notin Cluster)
      \/ \E i \in Nat :
           /\ i \in 1 .. Len(s) /\ k = s[i] /\ s[i] \in OnChainIn(fat, c)
           /\ \/ /\ call.op = "write" =>
                      (i - 1) * ClusterSize + call.offset = files[h].pos + call.done
                 /\ call.op = "copy" => i * ClusterSize = files[h].pos + call.done
              \/ i = Len(s) /\ files[h].size <= (i - 1) * ClusterSize
  BY <1>1, PlaceOf
<1>5. \/ GivesUp
      \/ /\ Follows \/ Appends
         /\ call'.op = "write" /\ call'.handle = h /\ call'.done = call.done
         /\ call.op = "write" => /\ call.offset >= ClusterSize
                                 /\ call'.offset = call.offset - ClusterSize
         /\ call.op = "copy" => call'.offset = 0
  BY WalkMoves
<1>6. files'[h].first = c /\ files'[h] = files[h]
  BY <1>1
<1> HIDE DEF s, k, e
<1>7. ASSUME fat' = Append1(fat, hint, k).fat
      PROVE  /\ \/ ChainIn(fat', c) = s /\ (e # 0 => e \notin OnChainIn(fat', c))
                \/ k \in OnChainIn(fat, c) /\ e \in Cluster /\ ChainIn(fat', c) = Append(s, e)
             /\ e # 0 => e \in Cluster /\ fat'[e] \notin Cluster
  <2>1. k \in OnChainIn(fat, c) \/ (k \in Cluster => fat[k] \notin Cluster)
    BY <1>4
  <2> QED BY <1>1, <1>7, <2>1, AppendedChain DEF s, k, e
<1>8. CASE GivesUp
  <2>1. Extends(c)
    BY <1>7, <1>8 DEF GivesUp, Extends, k, s
  <2> QED BY <1>8, <2>1, NoCallFacts, Displaced DEF GivesUp
<1>9. ASSUME Follows, call'.op = "write", call'.handle = h, call'.done = call.done,
             call.op = "write" => /\ call.offset >= ClusterSize
                                  /\ call'.offset = call.offset - ClusterSize,
             call.op = "copy" => call'.offset = 0
      PROVE  Place' /\ Extends(c)
  <2>1. UNCHANGED fat /\ call'.cluster = NextIn(fat, k) /\ call'.cluster # 0
    BY <1>9 DEF Follows, k
  <2>2. ChainIn(fat', c) = s /\ OnChainIn(fat', c) = OnChainIn(fat, c)
    BY <2>1 DEF s
  <2>3. CASE NextIn(fat, k) \notin Cluster
    BY <1>3, <1>6, <1>9, <2>1, <2>2, <2>3, PlacedOff DEF Extends, s
  <2>4. CASE NextIn(fat, k) \in Cluster
    <3>1. k \in FatIndex /\ fat[k] \in Cluster
      BY <2>1, <2>4 DEF NextIn
    <3>2. k \in Cluster
      <4>1. k \in 0 .. TotalClusters + 1 /\ k # 0 /\ k # 1
        BY <1>1, <3>1 DEF FatIndex, k
      <4> QED BY <4>1, TableNumbers, SMT DEF Cluster
    <3>3. PICK i \in Nat : /\ i \in 1 .. Len(s) /\ k = s[i]
                           /\ \/ /\ call.op = "write" =>
                                      (i - 1) * ClusterSize + call.offset
                                        = files[h].pos + call.done
                                 /\ call.op = "copy" =>
                                      i * ClusterSize = files[h].pos + call.done
                              \/ i = Len(s) /\ files[h].size <= (i - 1) * ClusterSize
      BY <1>4, <3>1, <3>2
    <3>4. i + 1 \in 1 .. Len(s) /\ call'.cluster = s[i + 1] /\ i + 1 \in Nat /\ i # Len(s)
      <4>1. i + 1 \in 1 .. Len(s) /\ NextIn(fat, k) = s[i + 1]
        BY <1>2, <2>4, <3>3
      <4> QED BY <1>2, <2>1, <4>1, SMT
    <3>5. ((i + 1) - 1) * ClusterSize + call'.offset = files[h].pos + call'.done
      <4> DEFINE reached == files[h].pos + call.done
      <4>1. /\ reached \in Nat /\ i >= 1 /\ ((i + 1) - 1) * ClusterSize = i * ClusterSize
            /\ i * ClusterSize = (i - 1) * ClusterSize + ClusterSize
            /\ (i - 1) * ClusterSize \in Nat /\ i * ClusterSize \in Nat
        <5>1. i >= 1 /\ (i + 1) - 1 = i
          BY <3>3, SMT
        <5> QED BY <1>1, <1>2, <5>1, OneMore
      <4>2. CASE call.op = "write"
        <5>1. (i - 1) * ClusterSize + call.offset = reached
              /\ call'.offset = call.offset - ClusterSize
          BY <1>9, <3>3, <3>4, <4>2
        <5>2. i * ClusterSize + (call.offset - ClusterSize) = reached
          <6> HIDE DEF reached
          <6> QED BY <1>1, <4>1, <5>1, SMT
        <5> QED BY <1>9, <4>1, <5>1, <5>2
      <4>3. CASE call.op = "copy"
        <5>1. i * ClusterSize = reached /\ call'.offset = 0
          BY <1>9, <3>3, <3>4, <4>3
        <5>2. i * ClusterSize + 0 = reached
          <6> HIDE DEF reached
          <6> QED BY <4>1, <5>1, SMT
        <5> QED BY <1>9, <4>1, <5>1, <5>2
      <4> QED BY <1>1, <4>2, <4>3
    <3>6. Place'
      BY <1>6, <1>9, <2>2, <3>4, <3>5, PlacedExact
    <3> QED BY <2>2, <3>6 DEF Extends, s
  <2> QED BY <2>3, <2>4
<1>10. ASSUME Appends, call'.op = "write", call'.handle = h PROVE Place' /\ Extends(c)
  <2>1. /\ fat' = Append1(fat, hint, k).fat /\ call'.cluster = e /\ Append1(fat, hint, k).ok
        /\ NextIn(fat, k) = 0 \/ Fault
    BY <1>10 DEF Appends, k, e
  <2>2. e # 0
    BY <1>1, <2>1, AppendedCluster DEF k, e
  <2>3. e \in Cluster /\ fat'[e] \notin Cluster
    BY <1>7, <2>1, <2>2
  <2>4. CASE ChainIn(fat', c) = s /\ e \notin OnChainIn(fat', c)
    BY <1>6, <1>10, <2>1, <2>3, <2>4, PlacedOff DEF Extends, s
  <2>5. CASE k \in OnChainIn(fat, c) /\ ChainIn(fat', c) = Append(s, e)
    <3> DEFINE n == Len(s) + 1
    <3>1. /\ n \in Nat /\ n \in 1 .. Len(ChainIn(fat', c)) /\ ChainIn(fat', c)[n] = e
          /\ n = Len(ChainIn(fat', c)) /\ n - 1 = Len(s)
      BY <1>2, <2>3, <2>5
    <3>2. files[h].size <= (n - 1) * ClusterSize
      <4>1. Fault
        <5>1. \E i \in 1 .. Len(s) : k = s[i]
          BY <1>4, <2>5
        <5> QED BY <1>2, <2>1, <5>1
      <4>2. files[h].size <= ClusterSize * Len(s)
        BY <4>1 DEF s
      <4>3. ClusterSize * Len(s) = Len(s) * ClusterSize
        BY <1>1, <1>2, SMT
      <4> HIDE DEF n
      <4> QED BY <3>1, <4>2, <4>3
    <3> HIDE DEF n
    <3>3. Place'
      BY <1>6, <1>10, <2>1, <3>1, <3>2, PlacedBehind
    <3> QED BY <2>3, <2>5, <3>3 DEF Extends, s
  <2> QED BY <1>7, <2>1, <2>2, <2>4, <2>5
<1> QED BY <1>5, <1>8, <1>9, <1>10

LEMMA WriteClusterPlaced ==
  ASSUME HandleInv, HandleInv', FilesApart, Place, WriteCluster \/ WriteClusterFails
  PROVE  Place'
<1> DEFINE h == call.handle
           c == files[h].first
           s == ChainIn(fat, c)
<1>1. /\ call.op = "write" /\ call.offset < ClusterSize /\ UNCHANGED fat
      /\ \/ EndCall
         \/ /\ files' = files /\ call' = [call EXCEPT !.op = "copy", !.done = @ + Chunk]
            /\ call.done + Chunk # Len(call.buffer)
  BY DEF WriteCluster, WriteClusterFails, FinishWrite
<1>2. CASE EndCall
  BY <1>2, NoCallFacts, Displaced
<1>3. ASSUME files' = files, call' = [call EXCEPT !.op = "copy", !.done = @ + Chunk],
             call.done + Chunk # Len(call.buffer)
      PROVE  Place'
  <2>1. /\ call.done \in Nat /\ call.offset \in Nat /\ Len(call.buffer) \in Nat
        /\ ClusterSize \in Nat /\ ClusterSize >= 1 /\ files[h].pos \in Nat
        /\ files[h].size \in Nat /\ h \in Handles /\ Chunk \in Nat
    BY <1>1, ChunkFacts, WritersLinks, SlotNumbers
  <2>2. Chunk = ClusterSize - call.offset
    BY <1>3, <2>1, SMT DEF Chunk
  <2>3. /\ call'.op = "copy" /\ call'.handle = h /\ call'.cluster = call.cluster
        /\ call'.done = call.done + Chunk
    BY <1>3, Types DEF CallType
  <2>4. \/ /\ call.cluster \notin OnChainIn(fat, c)
           /\ call.cluster \in Cluster => fat[call.cluster] \notin Cluster
        \/ \E i \in Nat :
             /\ i \in 1 .. Len(s) /\ call.cluster = s[i]
             /\ \/ (i - 1) * ClusterSize + call.offset = files[h].pos + call.done
                \/ i = Len(s) /\ files[h].size <= (i - 1) * ClusterSize
    BY <1>1, PlaceOf
  <2>5. /\ ChainIn(fat', c) = s /\ OnChainIn(fat', c) = OnChainIn(fat, c)
        /\ files'[h].first = c /\ files'[h] = files[h] /\ fat' = fat
    BY <1>1, <1>3
  <2> HIDE DEF h, c, s
  <2>6. CASE /\ call.cluster \notin OnChainIn(fat, c)
             /\ call.cluster \in Cluster => fat[call.cluster] \notin Cluster
    BY <2>3, <2>5, <2>6, PlacedOff
  <2>7. ASSUME NEW i \in Nat, i \in 1 .. Len(s), call.cluster = s[i],
               (i - 1) * ClusterSize + call.offset = files[h].pos + call.done
        PROVE  Place'
    <3>1. /\ i * ClusterSize = (i - 1) * ClusterSize + ClusterSize
          /\ (i - 1) * ClusterSize \in Nat /\ i * ClusterSize \in Nat
      <4>1. i >= 1
        BY <2>7
      <4> QED BY <2>1, <4>1, OneMore
    <3>2. i * ClusterSize = files[h].pos + (call.done + Chunk)
      <4> DEFINE x == (i - 1) * ClusterSize
                 y == i * ClusterSize
                 p == files[h].pos
                 d == call.done
                 o == call.offset
      <4>1. /\ x + o = p + d /\ y = x + ClusterSize /\ Chunk = ClusterSize - o
            /\ x \in Nat /\ y \in Nat /\ p \in Nat /\ d \in Nat /\ o \in Nat
            /\ ClusterSize \in Nat
        BY <2>1, <2>2, <2>7, <3>1
      <4> HIDE DEF x, y, p, d, o
      <4>2. y = p + (d + Chunk)
        BY ONLY <4>1, SMT
      <4> QED BY <4>2 DEF y, p, d
    <3> QED BY <2>3, <2>5, <2>7, <3>2, PlacedExact
  <2>8. ASSUME NEW i \in Nat, i \in 1 .. Len(s), call.cluster = s[i], i = Len(s),
               files[h].size <= (i - 1) * ClusterSize
        PROVE  Place'
    BY <2>3, <2>5, <2>8, PlacedBehind
  <2> QED BY <2>4, <2>6, <2>7, <2>8
<1> QED BY <1>1, <1>2, <1>3

\* While nothing fails but crashes, or one access and nothing else.
PlaceInv == ~tainted /\ SingleFailure => Place

LEMMA FailuresCount ==
  ASSUME HandleInv, Next
  PROVE  /\ SingleFailure' => SingleFailure
         /\ SingleFailure' /\ Fault /\ crashes' = crashes => faults = 0 /\ crashes = 0
<1>1. faults \in Nat /\ crashes \in Nat
  BY Types, FileAssumption, SMT
<1>2. /\ faults' = faults \/ faults' = faults + 1
      /\ crashes' = crashes \/ crashes' = crashes + 1
      /\ Fault => faults' = faults + 1
  BY NextCounts DEF Counts, Fault
<1> QED BY <1>1, <1>2, SMT DEF SingleFailure

\* The chain of an f_write holds the file until the first failure.
LEMMA CoveredBefore ==
  ASSUME HandleInv, FilesApart, CoveredInv, call.op \in {"write", "copy"},
         SingleFailure', Next, crashes' = crashes,
         NEW h, h = call.handle, NEW c, c = files[h].first
  PROVE  Fault => files[h].size <= ClusterSize * Len(ChainIn(fat, c))
<1> SUFFICES ASSUME Fault PROVE files[h].size <= ClusterSize * Len(ChainIn(fat, c))
  OBVIOUS
<1>1. Clean
  BY FailuresCount DEF Clean
<1>2. SizesCovered
  BY <1>1 DEF CoveredInv, Covered
<1> QED BY <1>2, WritersChain

LEMMA PlaceNext ==
  FilesInv /\ FilesInv' /\ SideInv /\ CoveredInv /\ PlaceInv /\ [Next]_fileVars => PlaceInv'
<1> SUFFICES ASSUME FilesInv, FilesInv', SideInv, CoveredInv, PlaceInv, [Next]_fileVars,
                    ~tainted', SingleFailure'
             PROVE  Place'
  BY DEF PlaceInv
<1>1. /\ ~tainted /\ HandleInv /\ HandleInv' /\ FilesApart /\ FilesApart'
      /\ fat[1] \notin Cluster /\ Aside
  BY Untainted DEF SideInv
<1>2. CASE UNCHANGED fileVars
  <2>1. SingleFailure
    BY <1>2 DEF fileVars, SingleFailure
  <2>2. Place
    BY <1>1, <2>1 DEF PlaceInv
  <2>3. Place' <=> Place
    BY <1>2 DEF fileVars, Place, Off, Exact, Behind, At, Reached
  <2> QED BY <2>2, <2>3
<1>3. CASE Next
  <2>1. Place
    BY <1>1, <1>3, FailuresCount DEF PlaceInv
  <2>2. ASSUME NEW h \in Handles, NEW buffer \in Buffers, BeginWrite(h, buffer) PROVE Place'
    BY <1>1, <2>2, BeginWritePlaced
  <2>3. ASSUME WalkToPosition \/ AdvanceWrite PROVE Place'
    <3>1. PICK h : h = call.handle
      OBVIOUS
    <3>2. PICK c : c = files[h].first
      OBVIOUS
    <3>3. call.op \in {"write", "copy"} /\ crashes' = crashes
      BY <1>1, <2>3, WalkMoves
    <3>4. Fault => files[h].size <= ClusterSize * Len(ChainIn(fat, c))
      BY <1>1, <1>3, <3>1, <3>2, <3>3, CoveredBefore
    <3> QED BY <1>1, <2>1, <2>3, <3>1, <3>2, <3>4, WalkPlaced
  <2>4. WriteCluster \/ WriteClusterFails => Place'
    BY <1>1, <2>1, WriteClusterPlaced
  <2> QED BY <1>1, <1>3, <2>2, <2>3, <2>4, WritesFollow, Displaced
<1> QED BY <1>2, <1>3

LEMMA PlaceAlways == FileSpec => [](FilesInv /\ CoveredInv /\ SideInv /\ PlaceInv)
<1>1. Init => FilesInv /\ CoveredInv /\ SideInv /\ PlaceInv
  <2>1. Init => PlaceInv
    BY DEF Init, NoCall, PlaceInv, Place
  <2> QED BY <2>1, FilesInit, CoveredInit, SideInit
<1>2. FilesInv /\ CoveredInv /\ SideInv /\ PlaceInv /\ [Next]_fileVars =>
        (FilesInv /\ CoveredInv /\ SideInv /\ PlaceInv)'
  BY FilesNext, CoveredNext, SideNext, PlaceNext
<1> QED BY <1>1, <1>2, PTL DEF FileSpec

-----------------------------------------------------------------------------
(* A write changes the bytes of its range.                                 *)

\* While an f_write is in progress, it is the program's only call.
LEMMA OnlyWrites ==
  ASSUME HandleInv, Next, call.op \in {"write", "copy"}, crashes' = crashes
  PROVE  WalkToPosition \/ AdvanceWrite \/ WriteCluster \/ WriteClusterFails
<1>1. ASSUME NEW h \in Handles, NEW n \in Names, OpenFile(h, n) PROVE FALSE
  BY <1>1 DEF OpenFile, Ready
<1>2. ASSUME NEW h \in Handles, CloseFile(h) \/ SyncFile(h) PROVE FALSE
  BY <1>2 DEF CloseFile, SyncFile, Ready
<1>3. ASSUME NEW h \in Handles, TruncateFile(h) PROVE FALSE
  BY <1>3 DEF TruncateFile, Ready
<1>4. ASSUME \/ \E h \in Handles, n \in Nat : ReadFile(h, n) \/ Seek(h, n)
             \/ \E h \in Handles, n \in Nat : \E k \in 0 .. n : Forward(h, n, k)
             \/ \E n \in Names : Stat(n)
      PROVE  FALSE
  BY <1>4, ReadMoves
<1>5. ASSUME NEW h \in Handles, NEW n \in Nat, Expand(h, n) PROVE FALSE
  BY <1>5, ExpandCases
<1>6. ASSUME NEW h \in Handles, NEW buffer \in Buffers, BeginWrite(h, buffer) PROVE FALSE
  BY <1>6 DEF BeginWrite, Ready
<1>7. ASSUME NEW n \in Names, BeginUnlink(n) PROVE FALSE
  BY <1>7 DEF BeginUnlink, Ready
<1>8. ASSUME EndUnlink \/ Restart PROVE FALSE
  BY <1>8 DEF EndUnlink, Restart
<1>9. ~Crash
  <2>1. crashes \in Nat
    BY Types, FileAssumption, SMT
  <2> QED BY <2>1, SMT DEF Crash
<1> QED BY <1>1, <1>2, <1>3, <1>4, <1>5, <1>6, <1>7, <1>8, <1>9, NextCases, Zenon

StartsWith(t, s) ==
  Len(s) \in Nat /\ Len(t) \in Nat /\ Len(s) <= Len(t) /\ \A q \in 1 .. Len(s) : t[q] = s[q]

SameByte(i, d, g, s) ==
  \A q \in 1 .. Len(s), r \in 0 .. ClusterSize - 1 :
    InPlaceOf(i, q, r) => g[s[q]][r] = d[s[q]][r]

\* A byte stays where the chain, the size and its place in its cluster do.
LEMMA ByteKept ==
  ASSUME NEW d, NEW g, NEW s, NEW t, StartsWith(t, s),
         NEW z \in Nat, NEW y \in Nat, z <= y, NEW i \in DOMAIN Bytes(d, s, z),
         SameByte(i, d, g, s)
  PROVE  i \in DOMAIN Bytes(g, t, y) /\ Bytes(g, t, y)[i] = Bytes(d, s, z)[i]
<1>0. Len(s) \in Nat /\ Len(t) \in Nat /\ Len(s) <= Len(t) /\ \A q \in 1 .. Len(s) : t[q] = s[q]
  BY DEF StartsWith
<1>1. i \in Nat /\ i >= 1 /\ i <= z /\ i <= ClusterSize * Len(s)
  BY <1>0, BytesIndex
<1>2. ClusterSize * Len(s) <= ClusterSize * Len(t)
      /\ ClusterSize * Len(s) \in Nat /\ ClusterSize * Len(t) \in Nat
  <2>1. ClusterSize \in Nat
    BY SlotNumbers
  <2>2. Len(s) * ClusterSize <= ClusterSize * Len(t) /\ ClusterSize * Len(t) \in Nat
    BY <1>0, <2>1, NoMore
  <2>3. Len(s) * ClusterSize = ClusterSize * Len(s) /\ ClusterSize * Len(s) \in Nat
    BY <1>0, <2>1, SMT
  <2> QED BY <2>2, <2>3
<1>3. i <= y /\ i <= ClusterSize * Len(t)
  BY <1>1, <1>2, SMT
<1>4. i \in DOMAIN Bytes(g, t, y)
  BY <1>0, <1>1, <1>3, BytesIndex
<1>5. PICK q : q = ((i - 1) \div ClusterSize) + 1
  OBVIOUS
<1>6. PICK r : r = (i - 1) % ClusterSize
  OBVIOUS
<1>7. Bytes(d, s, z)[i] = d[s[q]][r]
  BY ONLY <1>0, <1>5, <1>6, z \in Nat, i \in DOMAIN Bytes(d, s, z), BytesFacts
<1>8. q \in 1 .. Len(s)
  BY ONLY <1>0, <1>5, <1>6, z \in Nat, i \in DOMAIN Bytes(d, s, z), BytesFacts, Zenon
<1>9. r \in 0 .. ClusterSize - 1
  BY ONLY <1>0, <1>5, <1>6, z \in Nat, i \in DOMAIN Bytes(d, s, z), BytesFacts, Zenon
<1>10. InPlaceOf(i, q, r)
  BY ONLY <1>0, <1>5, <1>6, z \in Nat, i \in DOMAIN Bytes(d, s, z), BytesFacts, Zenon
<1>11. Bytes(g, t, y)[i] = g[t[q]][r]
  BY <1>0, <1>4, <1>5, <1>6, BytesFacts
<1>12. d[s[q]][r] = g[s[q]][r]
  BY <1>8, <1>9, <1>10 DEF SameByte
<1> QED BY <1>0, <1>4, <1>7, <1>8, <1>11, <1>12

\* The file of the f_write, before and after a step of it.
LEMMA TargetIs ==
  ASSUME HandleInv, HandleInv', call.op \in {"write", "copy"},
         NEW h, h = call.handle, NEW c, c = files[h].first, FilesApart,
         UNCHANGED slots, call'.slot = call.slot,
         files'[h].slot = files[h].slot, files'[h].first = c, NEW n, n = Target
  PROVE  /\ n \in Names /\ n = slots[files[h].slot].name
         /\ Content(n) = Bytes(data, ChainIn(fat, c), files[h].size)
         /\ Content(n)' = Bytes(data', ChainIn(fat', c), files'[h].size)
<1>2. PICK s : s = files[h].slot
  OBVIOUS
<1>3. h \in Handles /\ s \in Slot /\ Live(s)
  BY <1>2, WritersLinks
<1>4. n = slots[s].name /\ n \in Names
  BY <1>2, <1>3, Types DEF Target, Live, HandlesOK
<1>5. SlotOf(n) = s /\ SlotOf(n)' = s
  <2>1. NamesOnce
    BY DEF HandleInv
  <2>2. SlotOf(n) = s
    BY <1>3, <1>4, <2>1, SlotOfName
  <2> QED BY <2>2 DEF SlotOf
<1>6. s # 0 /\ s # call.slot /\ Exists(n) /\ Exists(n)'
  BY <1>3, <1>5, SlotNumbers DEF Exists, Live
<1>7. PICK z : z = files[h].size
  OBVIOUS
<1>8. PICK y : y = files'[h].size
  OBVIOUS
<1>9. Shows(SlotOf(n), c, z) /\ Shows(SlotOf(n), c, y)'
  BY <1>2, <1>3, <1>5, <1>7, <1>8 DEF Shows
<1>10. ContentShown
  BY ContentIs
<1>11. HandleInv' => ContentShown'
  BY ContentIs, PTL
<1>12. Content(n) = Stored(c, z) /\ Content(n)' = Stored(c, y)'
  BY <1>4, <1>6, <1>9, <1>10, <1>11 DEF ContentShown
<1>13. Stored(c, z) = Bytes(data, ChainIn(fat, c), z)
       /\ Stored(c, y)' = Bytes(data', ChainIn(fat', c), y)
  BY StoredIs
<1> QED BY <1>2, <1>4, <1>7, <1>8, <1>12, <1>13

LEMMA WalkInRange ==
  ASSUME HandleInv, HandleInv', FilesApart, Aside, Place, fat[1] \notin Cluster,
         WalkToPosition \/ AdvanceWrite,
         NEW h, h = call.handle, NEW c, c = files[h].first, NEW n, n = Target,
         Fault => files[h].size <= ClusterSize * Len(ChainIn(fat, c)),
         NEW i \in DOMAIN Content(n)
  PROVE  i \in DOMAIN Content(n)' /\ Content(n)'[i] = Content(n)[i]
<1>1. call.op \in {"write", "copy"} /\ UNCHANGED <<data, slots, files>>
  BY WalkMoves
<1>2. call'.slot = call.slot
  <2>1. call.slot = 0
    BY <1>1, Types DEF Unlinking
  <2> QED BY <2>1, WalkMoves, NoCallFacts DEF GivesUp
<1>3. PICK s : s = ChainIn(fat, c)
  OBVIOUS
<1>4. PICK t : t = ChainIn(fat', c)
  OBVIOUS
<1>5. PICK z : z = files[h].size
  OBVIOUS
<1>6. Content(n) = Bytes(data, s, z) /\ Content(n)' = Bytes(data, t, z)
  <2>1. Content(n) = Bytes(data, ChainIn(fat, c), files[h].size)
        /\ Content(n)' = Bytes(data', ChainIn(fat', c), files'[h].size)
    BY <1>1, <1>2, TargetIs
  <2> QED BY <1>1, <1>3, <1>4, <1>5, <2>1
<1>7. z \in Nat /\ s \in Seq(Cluster) /\ Len(s) \in Nat
  <2>1. c \in Cluster \cup {0} /\ files[h].size \in Nat /\ Len(ChainIn(fat, c)) \in Nat
    BY <1>1, WritersLinks
  <2>2. ChainIn(fat, c) \in Seq(Cluster)
    BY <2>1, TableNumbers, Types, ChainType
  <2> QED BY <1>3, <1>5, <2>1, <2>2
<1>8. t = s \/ \E e \in Cluster : t = Append(s, e)
  BY <1>3, <1>4, WalkPlaced DEF Extends
<1>9. StartsWith(t, s)
  BY <1>7, <1>8 DEF StartsWith
<1>10. z <= z /\ i \in DOMAIN Bytes(data, s, z)
  BY <1>6, <1>7
<1>11. SameByte(i, data, data, s)
  BY DEF SameByte
<1>12. i \in DOMAIN Bytes(data, t, z) /\ Bytes(data, t, z)[i] = Bytes(data, s, z)[i]
  BY ONLY <1>7, <1>9, <1>10, <1>11, ByteKept
<1> QED BY <1>6, <1>12, Zenon

LEMMA WriteClusterInRange ==
  ASSUME HandleInv, HandleInv', FilesApart, Place, WriteCluster \/ WriteClusterFails,
         NEW h, h = call.handle, NEW n, n = Target,
         NEW i \in DOMAIN Content(n), i \notin WriteRange
  PROVE  i \in DOMAIN Content(n)' /\ Content(n)'[i] = Content(n)[i]
<1>1. /\ call.op = "write" /\ call.offset < ClusterSize /\ UNCHANGED <<fat, slots>>
      /\ \/ data' = data
         \/ call.cluster \in Cluster /\ data' = [data EXCEPT ![call.cluster] = Patched(@)]
      /\ \/ Len(call.buffer) = 0 /\ FinishWrite(0)
         \/ FinishWrite(call.done + Chunk)
         \/ files' = files /\ call' = [call EXCEPT !.op = "copy", !.done = @ + Chunk]
         \/ files' = files /\ EndCall
  BY DEF WriteCluster, WriteClusterFails
<1>2. PICK c : c = files[h].first
  OBVIOUS
<1>3. PICK s : s = ChainIn(fat, c)
  OBVIOUS
<1>4. PICK z : z = files[h].size
  OBVIOUS
<1>5. PICK y : y = files'[h].size
  OBVIOUS
<1>6. /\ call \in CallType /\ call.slot = 0 /\ h \in Handles
      /\ Chunk \in Nat /\ call.done + Chunk <= Len(call.buffer) /\ call.done \in Nat
      /\ call.offset \in Nat /\ Len(call.buffer) \in Nat
      /\ ClusterSize \in Nat /\ ClusterSize >= 1
  BY <1>1, ChunkFacts, SlotNumbers, Types DEF Unlinking, Writing
<1>7. call'.slot = call.slot
  BY <1>1, <1>6, NoCallFacts DEF FinishWrite, CallType
<1>8. /\ c \in Cluster \cup {0} /\ Len(s) \in Nat /\ z \in Nat /\ files[h].pos \in Nat
  BY <1>1, <1>2, <1>3, <1>4, WritersLinks
<1>9. files'[h].slot = files[h].slot /\ files'[h].first = c /\ y \in Nat /\ z <= y
  <2>1. ASSUME NEW m \in Nat, m <= Len(call.buffer), FinishWrite(m)
        PROVE  files'[h].slot = files[h].slot /\ files'[h].first = c /\ y \in Nat /\ z <= y
    <3>1. /\ files'[h].slot = files[h].slot /\ files'[h].first = c
          /\ y = IF files[h].pos + m > z THEN files[h].pos + m ELSE z
      BY <1>1, <1>2, <1>4, <1>5, <1>6, <2>1, FinishStep
    <3>2. y \in Nat /\ z <= y
      BY <1>8, <3>1, SMT
    <3> QED BY <3>1, <3>2
  <2>2. call.done + Chunk \in Nat /\ (Len(call.buffer) = 0 => 0 <= Len(call.buffer))
    BY <1>6, SMT
  <2>3. files' = files =>
          files'[h].slot = files[h].slot /\ files'[h].first = c /\ y \in Nat /\ z <= y
    BY <1>2, <1>4, <1>5, <1>8
  <2> QED BY <1>1, <1>6, <2>1, <2>2, <2>3
<1>10. Content(n) = Bytes(data, s, z) /\ Content(n)' = Bytes(data', s, y)
  <2>1. Content(n) = Bytes(data, ChainIn(fat, c), files[h].size)
        /\ Content(n)' = Bytes(data', ChainIn(fat', c), files'[h].size)
    BY <1>1, <1>2, <1>7, <1>9, TargetIs
  <2> QED BY <1>1, <1>3, <1>4, <1>5, <2>1
<1>11. i \in Nat /\ i >= 1 /\ i <= z
  BY <1>8, <1>10, BytesIndex
<1>12. ASSUME NEW q \in 1 .. Len(s), NEW r \in 0 .. ClusterSize - 1, InPlaceOf(i, q, r)
       PROVE  data'[s[q]][r] = data[s[q]][r]
  <2>1. s[q] \in Cluster /\ s[q] \in OnChainIn(fat, c)
    <3>1. \A j \in 1 .. Len(s) : s[j] \in Cluster
      BY <1>1, <1>2, <1>3, WritersLinks
    <3>2. s \in Seq(Cluster)
      BY <1>3, <1>8, TableNumbers, Types, ChainType
    <3>3. DOMAIN s = 1 .. Len(s)
      BY <3>2, LenProperties
    <3> QED BY <1>3, <3>1, <3>3 DEF OnChainIn
  <2>2. CASE data' = data \/ s[q] # call.cluster
    BY <1>1, <2>1, <2>2, Types
  <2>3. CASE /\ s[q] = call.cluster /\ call.cluster \in Cluster
             /\ data' = [data EXCEPT ![call.cluster] = Patched(@)]
    <3>1. PICK j \in Nat :
            /\ j \in 1 .. Len(s) /\ call.cluster = s[j]
            /\ \/ (j - 1) * ClusterSize + call.offset = files[h].pos + call.done
               \/ j = Len(s) /\ z <= (j - 1) * ClusterSize
      BY <1>1, <1>2, <1>3, <1>4, <2>1, <2>3, PlaceOf
    <3>2. j = q
      <4>1. c \in Cluster
        <5>1. c # 0
          BY <2>1, NoClusters
        <5> QED BY <1>8, <5>1
      <4>2. Whole(fat, s)
        BY <1>3, <4>1, ChainOfWalk DEF FilesApart, Acyclic
      <4> QED BY <2>3, <3>1, <4>2, WholeOnce
    <3> DEFINE x == (q - 1) * ClusterSize
    <3>3. x \in Nat /\ i - 1 = x + r /\ r \in Nat /\ r <= ClusterSize - 1
      <4>1. q \in Nat /\ q >= 1
        BY <1>8
      <4>2. x \in Nat
        BY <1>6, <4>1, OneMore
      <4>3. x = ClusterSize * (q - 1)
        BY <1>6, <4>1, SMT
      <4>4. r \in Nat /\ r <= ClusterSize - 1
        BY <1>6, SMT
      <4> QED BY <1>12, <4>2, <4>3, <4>4 DEF InPlaceOf
    <3>4. \/ x + call.offset = files[h].pos + call.done
          \/ z <= x
      BY <3>1, <3>2
    <3> HIDE DEF x
    <3>5. ~(z <= x)
      BY <1>8, <1>11, <3>3, SMT
    <3>6. ~(call.offset <= r /\ r < call.offset + Chunk)
      <4>1. SUFFICES ASSUME call.offset <= r, r < call.offset + Chunk
                     PROVE  i \in files[h].pos + 1 .. files[h].pos + Len(call.buffer)
        BY DEF WriteRange
      <4>2. x + call.offset = files[h].pos + call.done
        BY <3>4, <3>5
      <4> DEFINE p == files[h].pos
                 o == call.offset
                 d == call.done
                 k == Chunk
                 b == Len(call.buffer)
      <4>3. /\ x + o = p + d /\ i - 1 = x + r /\ o <= r /\ r < o + k /\ d + k <= b
            /\ x \in Nat /\ o \in Nat /\ p \in Nat /\ d \in Nat /\ k \in Nat /\ b \in Nat
            /\ i \in Nat /\ r \in Nat
        BY <1>6, <1>8, <1>11, <3>3, <4>1, <4>2
      <4> HIDE DEF p, o, d, k, b
      <4>4. i \in p + 1 .. p + b
        BY ONLY <4>3, SMT
      <4> QED BY <4>4 DEF p, b
    <3>7. r \in DOMAIN data[s[q]] /\ data'[s[q]] = Patched(data[s[q]])
      BY <2>1, <2>3, Types
    <3>8. Patched(data[s[q]])[r] = data[s[q]][r]
      BY <3>6, <3>7 DEF Patched, Patch
    <3> QED BY <3>7, <3>8
  <2> QED BY <1>1, <2>2, <2>3
<1>13. StartsWith(s, s) /\ SameByte(i, data, data', s)
  BY <1>8, <1>12 DEF StartsWith, SameByte
<1>14. i \in DOMAIN Bytes(data, s, z)
  BY <1>10
<1>15. i \in DOMAIN Bytes(data', s, y) /\ Bytes(data', s, y)[i] = Bytes(data, s, z)[i]
  BY ONLY <1>8, <1>9, <1>13, <1>14, ByteKept
<1> QED BY <1>10, <1>15, Zenon

\* A write that does not end well has not touched its handle.
LEMMA OnlyOkMoves ==
  ASSUME HandleInv,
         WalkToPosition \/ AdvanceWrite \/ WriteCluster \/ WriteClusterFails,
         ~(call'.op = "none" /\ result'.ok)
  PROVE  files' = files
<1>1. CASE WalkToPosition \/ AdvanceWrite
  BY <1>1, WalkMoves
<1>2. CASE WriteClusterFails
  BY <1>2 DEF WriteClusterFails
<1>3. CASE WriteCluster
  <2>1. files' = files \/ (EndCall /\ Return(TRUE))
    BY <1>3, Zenon DEF WriteCluster, FinishWrite
  <2>2. EndCall => call'.op = "none"
    BY NoCallFacts
  <2>3. Return(TRUE) => result'.ok
    BY DEF Return, Give
  <2> QED BY <2>1, <2>2, <2>3
<1> QED BY <1>1, <1>2, <1>3

\* The files the f_write is not about.
LEMMA OtherFiles ==
  ASSUME HandleInv, HandleInv', FilesApart, Aside, call.op \in {"write", "copy"},
         WalkToPosition \/ AdvanceWrite \/ WriteCluster \/ WriteClusterFails,
         NEW n \in Names, n # Target
  PROVE  Content(n)' = Content(n)
<1> DEFINE s0 == files[call.handle].slot
<1>1. Elsewhere(s0)
  BY WalkElsewhere, WriteClusterElsewhere
<1>2. UNCHANGED slots
  BY WalkMoves DEF WriteCluster, WriteClusterFails
<1>3. n # slots[s0].name /\ n # slots'[s0].name
  BY <1>2 DEF Target
<1> HIDE DEF s0
<1> QED BY <1>1, <1>3, OnlyOne

\* An f_write changes no byte of another file, whatever fails; and none of its own file
\* outside the range it was given, as long as one access fails at most or the program is
\* only ever cut off.  One that returns false leaves size and position alone.
THEOREM WritesInRangeAlways == FileSpec => WritesInRange
<1> DEFINE InRange ==
      ~tainted' /\ call.op \in {"write", "copy"} /\ crashes' = crashes =>
        /\ \A n \in Names : \A i \in DOMAIN Content(n) :
             n # Target \/ (SingleFailure' /\ i \notin WriteRange) =>
               i \in DOMAIN Content(n)' /\ Content(n)'[i] = Content(n)[i]
        /\ ~(call'.op = "none" /\ result'.ok) => files' = files
<1>1. FilesInv /\ FilesInv' /\ CoveredInv /\ SideInv /\ PlaceInv /\ [Next]_fileVars =>
        [InRange]_fileVars
  <2> SUFFICES ASSUME FilesInv, FilesInv', CoveredInv, SideInv, PlaceInv, Next,
                      ~tainted', call.op \in {"write", "copy"}, crashes' = crashes
               PROVE  /\ \A n \in Names : \A i \in DOMAIN Content(n) :
                           n # Target \/ (SingleFailure' /\ i \notin WriteRange) =>
                             i \in DOMAIN Content(n)' /\ Content(n)'[i] = Content(n)[i]
                      /\ ~(call'.op = "none" /\ result'.ok) => files' = files
    BY DEF fileVars
  <2>1. /\ ~tainted /\ HandleInv /\ HandleInv' /\ FilesApart /\ FilesApart'
        /\ fat[1] \notin Cluster /\ Aside
    BY Untainted DEF SideInv
  <2>2. WalkToPosition \/ AdvanceWrite \/ WriteCluster \/ WriteClusterFails
    BY <2>1, OnlyWrites
  <2>3. ~(call'.op = "none" /\ result'.ok) => files' = files
    BY <2>1, <2>2, OnlyOkMoves
  <2>4. ASSUME NEW n \in Names, n # Target PROVE Content(n)' = Content(n)
    BY <2>1, <2>2, <2>4, OtherFiles
  <2>5. ASSUME NEW n \in Names, n = Target, NEW i \in DOMAIN Content(n),
               SingleFailure', i \notin WriteRange
        PROVE  i \in DOMAIN Content(n)' /\ Content(n)'[i] = Content(n)[i]
    <3>1. Place
      BY <2>1, <2>5, FailuresCount DEF PlaceInv
    <3>2. PICK h : h = call.handle
      OBVIOUS
    <3>3. PICK c : c = files[h].first
      OBVIOUS
    <3>4. Fault => files[h].size <= ClusterSize * Len(ChainIn(fat, c))
      BY <2>1, <2>5, <3>2, <3>3, CoveredBefore
    <3>5. CASE WalkToPosition \/ AdvanceWrite
      BY <2>1, <2>5, <3>1, <3>2, <3>3, <3>4, <3>5, WalkInRange
    <3>6. CASE WriteCluster \/ WriteClusterFails
      BY <2>1, <2>5, <3>1, <3>2, <3>6, WriteClusterInRange
    <3> QED BY <2>2, <3>5, <3>6
  <2> QED BY <2>3, <2>4, <2>5
<1> HIDE DEF InRange
<1>2. FileSpec => [][InRange]_fileVars
  BY <1>1, PlaceAlways, PTL DEF FileSpec
<1> QED BY <1>2, PTL DEF WritesInRange, InRange

-----------------------------------------------------------------------------
(* To the program the file calls are a FileStore.  First what the mapped   *)
(* state is, before and after a step.                                      *)

LEMMA StoreValues ==
  /\ \A n \in Names : /\ Contents[n] = Content(n) /\ Contents'[n] = Content(n)'
                      /\ SavedSizes[n] = IF Exists(n) THEN slots[SlotOf(n)].size ELSE -1
                      /\ SavedSizes'[n] = IF Exists(n)' THEN slots'[SlotOf(n)'].size ELSE -1
  /\ \A h \in Handles :
       /\ Positions[h] = IF IsOpen(h)
                         THEN [name |-> slots[files[h].slot].name, pos |-> files[h].pos]
                         ELSE [name |-> NoName, pos |-> 0]
       /\ Positions'[h] = IF IsOpen(h)'
                          THEN [name |-> slots'[files'[h].slot].name, pos |-> files'[h].pos]
                          ELSE [name |-> NoName, pos |-> 0]
BY DEF Contents, SavedSizes, Positions

LEMMA StoreMaps ==
  ASSUME NEW n \in Names, NEW v
  PROVE  /\ (\A m \in Names : Contents'[m] = IF m = n THEN v ELSE Contents[m])
              => Contents' = [Contents EXCEPT ![n] = v]
         /\ (\A m \in Names : SavedSizes'[m] = IF m = n THEN v ELSE SavedSizes[m])
              => SavedSizes' = [SavedSizes EXCEPT ![n] = v]
BY DEF Contents, SavedSizes

LEMMA PositionMaps ==
  ASSUME NEW h \in Handles, NEW v,
         \A g \in Handles : Positions'[g] = IF g = h THEN v ELSE Positions[g]
  PROVE  Positions' = [Positions EXCEPT ![h] = v]
BY DEF Positions

LEMMA SameContents ==
  ASSUME \A m \in Names : Content(m)' = Content(m)
  PROVE  Contents' = Contents
BY DEF Contents

LEMMA SameSizes ==
  ASSUME UNCHANGED slots, call'.slot = call.slot
  PROVE  SavedSizes' = SavedSizes /\ \A n : (Exists(n)' <=> Exists(n)) /\ SlotOf(n)' = SlotOf(n)
<1>1. \A n : SlotOf(n)' = SlotOf(n)
  BY DEF SlotOf
<1>2. \A n : Exists(n)' <=> Exists(n)
  BY <1>1 DEF Exists
<1> QED BY <1>1, <1>2 DEF SavedSizes

LEMMA SamePositions ==
  ASSUME \A h \in Handles : files'[h].slot = files[h].slot /\ files'[h].pos = files[h].pos,
         \A h \in Handles : IsOpen(h) => slots'[files[h].slot].name = slots[files[h].slot].name
  PROVE  Positions' = Positions
<1>1. \A h \in Handles : IsOpen(h)' <=> IsOpen(h)
  BY DEF IsOpen
<1>2. ASSUME NEW h \in Handles PROVE Positions'[h] = Positions[h]
  <2>1. CASE IsOpen(h)
    <3>1. Positions'[h] = [name |-> slots'[files'[h].slot].name, pos |-> files'[h].pos]
          /\ Positions[h] = [name |-> slots[files[h].slot].name, pos |-> files[h].pos]
      BY <1>1, <2>1, StoreValues
    <3>2. files'[h].slot = files[h].slot /\ files'[h].pos = files[h].pos
          /\ slots'[files[h].slot].name = slots[files[h].slot].name
      BY <2>1
    <3> QED BY <3>1, <3>2
  <2>2. CASE ~IsOpen(h)
    BY <1>1, <2>2, StoreValues
  <2> QED BY <2>1, <2>2
<1> QED BY <1>2 DEF Positions

\* Only the position of handle h changes.
LEMMA Moved ==
  ASSUME NEW h \in Handles, IsOpen(h), NEW p, UNCHANGED slots,
         \A g \in Handles : files'[g].slot = files[g].slot,
         \A g \in Handles : files'[g].pos = IF g = h THEN p ELSE files[g].pos
  PROVE  Positions' = [Positions EXCEPT ![h].pos = p]
<1>1. \A g \in Handles : IsOpen(g)' <=> IsOpen(g)
  BY DEF IsOpen
<1>2. \A g \in Handles : g # h => Positions'[g] = Positions[g]
  <2> SUFFICES ASSUME NEW g \in Handles, g # h PROVE Positions'[g] = Positions[g]
    OBVIOUS
  <2>1. files'[g].slot = files[g].slot /\ files'[g].pos = files[g].pos /\ (IsOpen(g)' <=> IsOpen(g))
    BY <1>1
  <2> QED BY <2>1, StoreValues
<1>3. Positions'[h] = [name |-> slots[files[h].slot].name, pos |-> p]
  BY <1>1, StoreValues
<1>4. Positions[h] = [name |-> slots[files[h].slot].name, pos |-> files[h].pos]
  BY StoreValues
<1>5. Positions' = [Positions EXCEPT ![h] = [name |-> slots[files[h].slot].name, pos |-> p]]
  BY <1>2, <1>3, PositionMaps
<1>6. [[name |-> slots[files[h].slot].name, pos |-> files[h].pos] EXCEPT !.pos = p]
        = [name |-> slots[files[h].slot].name, pos |-> p]
  OBVIOUS
<1>7. [Positions[h] EXCEPT !.pos = p] = [name |-> slots[files[h].slot].name, pos |-> p]
  BY <1>4, <1>6
<1> QED BY <1>5, <1>7

LEMMA NoWriteIdle ==
  /\ call.op \notin {"write", "copy"} => Store!Idle
  /\ call'.op \notin {"write", "copy"} => WriteInProgress' = Store!NotWriting
BY DEF Store!Idle, Store!NotWriting, WriteInProgress

LEMMA StoreReturned ==
  ASSUME NEW ok, NEW out, NEW asked, Give(ok, out, asked)
  PROVE  Store!Returned(ok, out, asked)
BY DEF Give, Store!Returned

-----------------------------------------------------------------------------
(* Sequences of bytes.                                                     *)

LEMMA FunctionSequence ==
  ASSUME NEW f, NEW n \in Nat, f = [i \in 1 .. n |-> f[i]]
  PROVE  f \in Seq({f[i] : i \in 1 .. n}) /\ Len(f) = n /\ DOMAIN f = 1 .. n
<1> DEFINE S == {f[i] : i \in 1 .. n}
<1>1. f \in [1 .. n -> S]
  OBVIOUS
<1> HIDE DEF S
<1>2. f \in Seq(S)
  BY <1>1, IsASeq
<1>3. DOMAIN f = 1 .. n
  BY <1>1
<1>4. Len(f) = n
  BY <1>2, <1>3, LenProperties
<1> QED BY <1>2, <1>3, <1>4 DEF S

\* The sequence of all z bytes.
LEMMA BytesSequence ==
  ASSUME NEW d, NEW chain, Len(chain) \in Nat, NEW z \in Nat, z <= ClusterSize * Len(chain),
         NEW f, f = Bytes(d, chain, z)
  PROVE  /\ f = [i \in 1 .. z |-> f[i]]
         /\ f \in Seq({f[i] : i \in 1 .. z}) /\ Len(f) = z /\ DOMAIN f = 1 .. z
<1>1. f = [i \in 1 .. z |-> f[i]]
  BY Zenon DEF Bytes
<1> QED BY <1>1, FunctionSequence

LEMMA SameSequence ==
  ASSUME NEW f, NEW g, NEW n \in Nat, f = [i \in 1 .. n |-> f[i]], g = [i \in 1 .. n |-> g[i]],
         \A i \in 1 .. n : f[i] = g[i]
  PROVE  f = g
OBVIOUS

\* The first n bytes, and all of them.
LEMMA FirstBytes ==
  ASSUME NEW f, NEW z \in Nat, f = [i \in 1 .. z |-> f[i]], NEW n \in Nat, n <= z
  PROVE  /\ SubSeq(f, 1, n) = [i \in 1 .. n |-> f[i]]
         /\ n = z => SubSeq(f, 1, n) = f
<1> DEFINE S == {f[i] : i \in 1 .. z}
<1>1. f \in Seq(S) /\ Len(f) = z
  BY FunctionSequence
<1> HIDE DEF S
<1> DEFINE g == SubSeq(f, 1, n)
<1>2. CASE n = 0
  BY <1>1, <1>2
<1>3. CASE n >= 1
  <2>1. g \in Seq(S) /\ Len(g) = n /\ \A i \in 1 .. n : g[i] = f[i]
    BY <1>1, <1>3, SubSeqProperties
  <2>2. DOMAIN g = 1 .. n /\ g = [i \in DOMAIN g |-> g[i]]
    BY <2>1, LenProperties
  <2> HIDE DEF g
  <2>3. g = [i \in 1 .. n |-> f[i]]
    BY <2>1, <2>2
  <2> QED BY <2>3 DEF g
<1>4. SubSeq(f, 1, n) = [i \in 1 .. n |-> f[i]]
  BY <1>2, <1>3
<1> QED BY <1>4

\* Handle h is open on the file of name n, with the bytes f.
OpenOn(h, n, f) ==
  /\ n \in Names /\ n # NoName /\ SlotOf(n) = files[h].slot /\ Exists(n)
  /\ n = slots[files[h].slot].name /\ files[h].slot \in Slot
  /\ Positions[h] = [name |-> n, pos |-> files[h].pos]
  /\ Store!File(h) = n /\ Store!Open(h)
  /\ f = Bytes(data, ChainIn(fat, files[h].first), files[h].size)
  /\ f = [i \in 1 .. files[h].size |-> f[i]] /\ Len(f) = files[h].size
  /\ SavedSizes[n] = slots[files[h].slot].size
  /\ Contents[n] = f /\ Content(n) = f

LEMMA OpenStore ==
  ASSUME HandleInv, SizesCovered, NEW h \in Handles, IsOpen(h),
         NEW n, n = slots[files[h].slot].name, NEW f, f = Content(n)
  PROVE  OpenOn(h, n, f)
<1>1. PICK s : s = files[h].slot
  OBVIOUS
<1>2. s \in Slot /\ Live(s) /\ slots[s].name \in Names
  <2>1. Live(s)
    BY <1>1, OpenLive
  <2>2. files[h] \in HandleType
    BY Types
  <2>3. s \in Slot
    BY <1>1, <2>2 DEF HandleType, IsOpen
  <2> QED BY <2>1, <2>3, Types DEF Live, HandlesOK
<1>3. SlotOf(n) = s
  BY <1>1, <1>2, SlotOfName DEF HandleInv
<1>4. Exists(n) /\ n \in Names /\ n # NoName
  BY <1>1, <1>2, <1>3, SlotNumbers, FileAssumption DEF Exists, Live
<1>5. Positions[h] = [name |-> n, pos |-> files[h].pos]
  BY <1>1, StoreValues
<1>6. Shows(s, files[h].first, files[h].size)
  BY <1>1 DEF Shows
<1>7. f = Stored(files[h].first, files[h].size)
  BY <1>3, <1>4, <1>6, ContentIs DEF ContentShown
<1>8. f = Bytes(data, ChainIn(fat, files[h].first), files[h].size)
  BY <1>7, StoredIs
<1>9. /\ files[h].size \in Nat /\ Len(ChainIn(fat, files[h].first)) \in Nat
      /\ files[h].size <= ClusterSize * Len(ChainIn(fat, files[h].first))
  <2>1. files[h].size \in Nat /\ files[h].first \in Entry
    BY RoomType
  <2>2. Len(ChainIn(fat, files[h].first)) \in Nat
    BY <2>1, Types, ChainType, LenProperties
  <2>3. files[h].size <= Capacity(files[h].first)
    BY DEF SizesCovered
  <2> QED BY <2>1, <2>2, <2>3 DEF Capacity
<1>10. f = [i \in 1 .. files[h].size |-> f[i]] /\ Len(f) = files[h].size
  <2>1. PICK z : z = files[h].size
    OBVIOUS
  <2>2. PICK t : t = ChainIn(fat, files[h].first)
    OBVIOUS
  <2>3. z \in Nat /\ Len(t) \in Nat /\ z <= ClusterSize * Len(t) /\ f = Bytes(data, t, z)
    BY <1>8, <1>9, <2>1, <2>2
  <2>4. f = [i \in 1 .. z |-> f[i]]
    BY ONLY <2>3, Zenon DEF Bytes
  <2>5. Len(f) = z
    BY ONLY <2>3, <2>4, FunctionSequence
  <2> QED BY <2>1, <2>4, <2>5
<1>11. Store!File(h) = n /\ Store!Open(h)
  BY <1>4, <1>5 DEF Store!File, Store!Open
<1>12. SavedSizes[n] = slots[s].size /\ Contents[n] = f
  BY <1>3, <1>4, StoreValues
<1> QED BY <1>1, <1>2, <1>3, <1>4, <1>5, <1>8, <1>10, <1>11, <1>12 DEF OpenOn

-----------------------------------------------------------------------------
(* A step that concerns one file.                                          *)

SlotsShown ==
  \A s \in Slot : \A n, c, z :
    slots[s].name = n /\ Live(s) /\ Shows(s, c, z) =>
      /\ n \in Names /\ SlotOf(n) = s /\ Exists(n)
      /\ Content(n) = Bytes(data, ChainIn(fat, c), z)

LEMMA SlotsShow == ASSUME HandleInv PROVE SlotsShown
<1> SUFFICES ASSUME NEW s \in Slot, NEW n, NEW c, NEW z,
                    slots[s].name = n, Live(s), Shows(s, c, z)
             PROVE  /\ n \in Names /\ SlotOf(n) = s /\ Exists(n)
                    /\ Content(n) = Bytes(data, ChainIn(fat, c), z)
  BY DEF SlotsShown
<1>1. n \in Names
  BY Types DEF Live, HandlesOK
<1>2. SlotOf(n) = s
  BY <1>1, SlotOfName DEF HandleInv
<1>3. Exists(n)
  BY <1>2, SlotNumbers DEF Exists, Live
<1>4. Content(n) = Stored(c, z)
  BY <1>1, <1>2, <1>3, ContentIs DEF ContentShown
<1> QED BY <1>1, <1>2, <1>3, <1>4, StoredIs

\* What the step makes of the file in slot s0.
LEMMA OneStored ==
  ASSUME HandleInv, HandleInv', NEW s0 \in Slot, Elsewhere(s0), NEW n \in Names,
         slots'[s0].name = n, slots[s0].name \in {n, NoName}, call'.slot # s0,
         NEW c, NEW z, Shows(s0, c, z)', NEW f, f = Bytes(data', ChainIn(fat', c), z)
  PROVE  /\ Content(n)' = f /\ Exists(n)' /\ SlotOf(n)' = s0
         /\ Contents' = [Contents EXCEPT ![n] = f]
         /\ f = Content(n) => Contents' = Contents
<1>1. HandleInv' => SlotsShown'
  BY SlotsShow, PTL
<1>2. n # NoName
  BY FileAssumption
<1>3. Live(s0)'
  BY <1>2 DEF Live
<1>4. (slots[s0].name = n /\ Live(s0) /\ Shows(s0, c, z))'
  BY <1>3
<1>5. SlotOf(n)' = s0 /\ Exists(n)' /\ Content(n)' = f
  <2>1. SlotsShown'
    BY <1>1
  <2>2. (SlotOf(n) = s0 /\ Exists(n) /\ Content(n) = Bytes(data, ChainIn(fat, c), z))'
    BY <1>4, <2>1 DEF SlotsShown
  <2> QED BY <2>2
<1>6. \A m \in Names : m # n => Content(m)' = Content(m)
  BY <1>2, OnlyOne, FileAssumption
<1>7. \A m \in Names : Contents'[m] = IF m = n THEN f ELSE Contents[m]
  BY <1>5, <1>6, StoreValues
<1>8. Contents' = [Contents EXCEPT ![n] = f]
  BY <1>7, StoreMaps
<1>9. f = Content(n) => Contents' = Contents
  BY <1>5, <1>6, SameContents
<1> QED BY <1>5, <1>8, <1>9

LEMMA NoBytes ==
  ASSUME NEW d, NEW g, IsTable(g), NEW c \in Cluster \cup {0}
  PROVE  Bytes(d, ChainIn(g, c), 0) = <<>>
<1>1. PICK s : s = ChainIn(g, c)
  OBVIOUS
<1>2. Len(s) \in Nat
  BY <1>1, TableNumbers, ChainType, LenProperties
<1>3. 0 <= ClusterSize * Len(s)
  BY <1>2, SlotNumbers, SMT
<1>4. DOMAIN Bytes(d, s, 0) = {}
  BY <1>3, SMT DEF Bytes
<1>5. Bytes(d, s, 0) = [i \in {} |-> 0]
  BY <1>4 DEF Bytes
<1>6. <<>> = [i \in {} |-> 0]
  BY SMT
<1> QED BY <1>1, <1>5, <1>6

\* Files other than n, when a step changes only the entry in slot s0.
LEMMA OtherSizes ==
  ASSUME HandleInv, NEW s0 \in Slot, NEW n \in Names, UNCHANGED call, call.slot = 0,
         \A s \in Slot : s # s0 => slots'[s] = slots[s],
         slots'[s0].name = n, slots[s0].name \in {n, NoName}
  PROVE  \A m \in Names : m # n => SavedSizes'[m] = SavedSizes[m]
<1> SUFFICES ASSUME NEW m \in Names, m # n PROVE SavedSizes'[m] = SavedSizes[m]
  OBVIOUS
<1>1. m # NoName
  BY FileAssumption
<1>2. \A s \in Slot : slots'[s].name = m <=> slots[s].name = m
  BY <1>1
<1>3. SlotOf(m)' = SlotOf(m)
  BY <1>2 DEF SlotOf
<1>4. Exists(m)' <=> Exists(m)
  BY <1>3 DEF Exists
<1>5. SlotOf(m) # 0 => SlotOf(m) \in Slot /\ SlotOf(m) # s0
  BY <1>1, SlotOfFacts
<1>6. Exists(m) => slots'[SlotOf(m)'].size = slots[SlotOf(m)].size
  BY <1>3, <1>5 DEF Exists
<1> QED BY <1>4, <1>6, StoreValues

LEMMA OpenImplements ==
  ASSUME HandleInv, HandleInv', NEW h \in Handles, NEW n \in Names, OpenFile(h, n)
  PROVE  Store!OpenFile(h, n)
<1>0. PICK s0 : s0 = IF SlotOf(n) # 0 THEN SlotOf(n)
                     ELSE Least({t \in Slot : slots[t].name = NoName})
  OBVIOUS
<1> DEFINE entry == IF SlotOf(n) # 0 THEN slots[s0] ELSE [FreeSlot EXCEPT !.name = n]
           r == [slot |-> s0, first |-> entry.first, pos |-> 0, size |-> entry.size]
<1>1. /\ ~IsOpen(h) /\ slots' = [slots EXCEPT ![s0] = entry] /\ files' = [files EXCEPT ![h] = r]
      /\ UNCHANGED <<fat, data, call>> /\ call.op = "none" /\ Return(TRUE)
      /\ \A g \in Handles : IsOpen(g) /\ files[g].slot = SlotOf(n) => ~Dirty(g)
  BY <1>0 DEF OpenFile, Ready
<1>2. /\ s0 \in Slot /\ s0 # 0
      /\ SlotOf(n) # 0 => entry = slots[s0] /\ s0 = SlotOf(n) /\ slots[s0].name = n
      /\ SlotOf(n) = 0 => slots[s0].name = NoName /\ entry.name = n
                          /\ entry.first = 0 /\ entry.size = 0
  <2>1. SlotOf(n) \in Slot \cup {0} /\ NamesOnce /\ FileTypeOK
        /\ (SlotOf(n) # 0 => slots[SlotOf(n)].name = n)
    BY SlotOfFacts DEF HandleInv
  <2> QED BY <1>0, <2>1, FreeSlotFound, SlotNumbers DEF FreeSlot
<1>3. r.slot = s0 /\ r.first = entry.first /\ r.size = entry.size /\ r.pos = 0
  OBVIOUS
<1> HIDE DEF entry, r
<1>4. /\ \A s \in Slot : s # s0 => slots'[s] = slots[s]
      /\ slots'[s0] = entry /\ entry.name = n /\ slots[s0].name \in {n, NoName}
      /\ \A g \in Handles : g # h => files'[g] = files[g]
      /\ files'[h] = r
  BY <1>1, <1>2, Types DEF HandlesOK
<1>5. Elsewhere(s0)
  BY <1>3, <1>4, OpenElsewhere
<1>6. call.slot = 0 /\ call'.slot # s0
  BY <1>1, <1>2, Types DEF Unlinking
<1>7. n # NoName
  BY FileAssumption
<1>8. PICK c : c = entry.first
  OBVIOUS
<1>9. PICK z : z = entry.size
  OBVIOUS
<1>10. Shows(s0, c, z)'
  <2>1. files'[h].slot = s0 /\ files'[h].first = c /\ files'[h].size = z
    BY <1>3, <1>4, <1>8, <1>9
  <2> QED BY <2>1 DEF Shows
<1>11. Bytes(data', ChainIn(fat', c), z) = Content(n)
  <2>1. CASE SlotOf(n) # 0
    <3>1. Live(s0)
      BY <1>2, <1>6, <1>7, <2>1 DEF Live
    <3>2. Shows(s0, c, z)
      <4>1. \A g \in Handles : files[g].slot = s0 => files[g].first = c /\ files[g].size = z
        BY <1>1, <1>2, <1>8, <1>9, <2>1 DEF IsOpen, Dirty
      <4> QED BY <1>2, <1>8, <1>9, <2>1, <4>1 DEF Shows
    <3>3. slots[s0].name = n
      BY <1>2, <2>1
    <3>4. Content(n) = Bytes(data, ChainIn(fat, c), z)
      BY <1>2, <3>1, <3>2, <3>3, SlotsShow DEF SlotsShown
    <3> QED BY <1>1, <3>4
  <2>2. CASE SlotOf(n) = 0
    <3>1. Content(n) = <<>>
      BY <2>2 DEF Content, Exists
    <3>2. c = 0 /\ z = 0
      BY <1>2, <1>8, <1>9, <2>2
    <3>3. Bytes(data, ChainIn(fat, 0), 0) = <<>>
      BY Types, NoBytes
    <3> QED BY <1>1, <3>1, <3>2, <3>3
  <2> QED BY <2>1, <2>2
<1>12. Contents' = Contents /\ Exists(n)' /\ SlotOf(n)' = s0
  <2>1. slots'[s0].name = n /\ slots[s0].name \in {n, NoName}
    BY <1>4
  <2>2. PICK f : f = Content(n)
    OBVIOUS
  <2>3. f = Bytes(data', ChainIn(fat', c), z)
    BY <1>11, <2>2
  <2>4. s0 \in Slot
    BY <1>2
  <2>5. Content(n)' = f /\ Exists(n)' /\ SlotOf(n)' = s0 /\ (f = Content(n) => Contents' = Contents)
    BY ONLY HandleInv, HandleInv', n \in Names, <1>5, <1>6, <1>10, <2>1, <2>3, <2>4, OneStored, Zenon
  <2> QED BY <2>2, <2>5
<1>13. SavedSizes' = [SavedSizes EXCEPT ![n] = IF @ = -1 THEN 0 ELSE @]
  <2>1. \A m \in Names : m # n => SavedSizes'[m] = SavedSizes[m]
    BY <1>1, <1>2, <1>4, <1>6, OtherSizes
  <2>2. SavedSizes'[n] = z
    BY <1>4, <1>9, <1>12, StoreValues
  <2>3. z = IF SavedSizes[n] = -1 THEN 0 ELSE SavedSizes[n]
    <3>1. CASE SlotOf(n) # 0
      <4>1. SavedSizes[n] = z
        BY <1>2, <1>6, <1>9, <3>1, StoreValues DEF Exists
      <4>2. z \in Nat
        BY <1>2, <1>9, <3>1, Types, SlotNumbers DEF HandlesOK
      <4> QED BY <4>1, <4>2, SMT
    <3>2. CASE SlotOf(n) = 0
      <4>1. SavedSizes[n] = -1
        BY <3>2, StoreValues DEF Exists
      <4> QED BY <1>2, <1>9, <3>2, <4>1
    <3> QED BY <3>1, <3>2
  <2> QED BY <2>1, <2>2, <2>3, StoreMaps
<1>14. Positions' = [Positions EXCEPT ![h] = [name |-> n, pos |-> 0]]
  <2>1. ASSUME NEW g \in Handles, g # h PROVE Positions'[g] = Positions[g]
    <3>1. files'[g] = files[g] /\ (IsOpen(g)' <=> IsOpen(g))
      BY <1>4, <2>1 DEF IsOpen
    <3>2. IsOpen(g) => slots'[files[g].slot].name = slots[files[g].slot].name
      <4>1. IsOpen(g) => files[g].slot \in Slot /\ slots[files[g].slot].name # NoName
        BY Types DEF IsOpen, HandleType, HandlesOK, HandlesMean
      <4> QED BY <1>4, <4>1
    <3> QED BY <3>1, <3>2, StoreValues
  <2>2. Positions'[h] = [name |-> n, pos |-> 0]
    <3>1. IsOpen(h)' /\ files'[h].slot = s0 /\ files'[h].pos = 0
      BY <1>2, <1>3, <1>4 DEF IsOpen
    <3> QED BY <1>4, <3>1, StoreValues
  <2> QED BY <2>1, <2>2, PositionMaps
<1>15. Store!Idle /\ WriteInProgress' = WriteInProgress
  BY <1>1, NoWriteIdle DEF Store!Idle
<1>16. ~Store!Open(h)
  <2>1. Positions[h] = [name |-> NoName, pos |-> 0]
    BY <1>1, StoreValues
  <2> QED BY <2>1 DEF Store!Open, Store!File
<1>17. Store!Returned(TRUE, <<>>, 0)
  BY <1>1, StoreReturned DEF Return
<1> QED BY <1>12, <1>13, <1>14, <1>15, <1>16, <1>17, Zenon DEF Store!OpenFile

LEMMA NoFaults ==
  ASSUME HandleInv, faults' = 0
  PROVE  ~Fault
<1>1. faults \in Nat
  BY Types, FileAssumption, SMT
<1> QED BY <1>1, SMT DEF Fault

\* The entry of an open file gets what its handle holds, and the handle stays or goes.
LEMMA SaveImplements ==
  ASSUME HandleInv, HandleInv', SizesCovered, NEW h \in Handles, IsOpen(h), UpdateEntry(h),
         CloseFile(h) \/ SyncFile(h), call.op = "none", UNCHANGED <<fat, data, call>>,
         files' = files \/ files' = [files EXCEPT ![h] = ClosedFile]
  PROVE  Contents' = Contents /\ Store!Save(h)
<1>1. PICK s0 : s0 = files[h].slot
  OBVIOUS
<1>2. PICK n : n = slots[s0].name
  OBVIOUS
<1>3. PICK c : c = files[h].first
  OBVIOUS
<1>4. PICK z : z = files[h].size
  OBVIOUS
<1>5. PICK f : f = Content(n)
  OBVIOUS
<1>6. /\ n \in Names /\ SlotOf(n) = s0 /\ s0 \in Slot /\ Store!File(h) = n
      /\ f = Bytes(data, ChainIn(fat, c), z) /\ Len(f) = z /\ Contents[n] = f
  <2>1. n = slots[files[h].slot].name
    BY <1>1, <1>2
  <2>2. OpenOn(h, n, f)
    BY <1>5, <2>1, OpenStore
  <2> QED BY <1>1, <1>3, <1>4, <2>2 DEF OpenOn
<1>7. /\ \A s \in Slot : slots'[s].name = slots[s].name
      /\ \A s \in Slot : s # s0 => slots'[s] = slots[s]
      /\ slots'[s0].first = c /\ slots'[s0].size = z
  BY <1>1, <1>3, <1>4, Types, UpdateStep
<1>8. Elsewhere(s0)
  BY <1>1, CloseElsewhere
<1>9. call.slot = 0 /\ call'.slot # s0
  BY <1>6, Types, SlotNumbers DEF Unlinking
<1>10. \A g \in Handles : files[g].slot = s0 => files[g].first = c /\ files[g].size = z
  <2> SUFFICES ASSUME NEW g \in Handles, files[g].slot = s0, g # h
               PROVE  files[g].first = c /\ files[g].size = z
    BY <1>3, <1>4
  <2>1. IsOpen(g) /\ PairsClean
    BY <1>1, Types DEF IsOpen, HandlesOK
  <2>2. ~Dirty(g) /\ ~Dirty(h)
    BY <1>1, <2>1 DEF PairsClean
  <2> QED BY <1>1, <1>3, <1>4, <2>2 DEF Dirty
<1>11. Shows(s0, c, z)'
  <2>1. \A g \in Handles : files'[g].slot = s0 => files'[g].first = c /\ files'[g].size = z
    <3>1. \A g \in Handles : files'[g].slot = s0 => files'[g] = files[g]
      BY <1>6, Types, SlotNumbers DEF ClosedFile
    <3> QED BY <1>10, <3>1
  <2> QED BY <1>7, <2>1 DEF Shows
<1>12. f = Bytes(data', ChainIn(fat', c), z)
  BY <1>6
<1>13. slots'[s0].name = n /\ slots[s0].name \in {n, NoName} /\ s0 \in Slot /\ n \in Names
  BY <1>2, <1>6, <1>7
<1>14. Exists(n)' /\ SlotOf(n)' = s0 /\ (f = Content(n) => Contents' = Contents)
  BY ONLY HandleInv, HandleInv', <1>8, <1>9, <1>11, <1>12, <1>13, OneStored, Zenon
<1>15. SavedSizes'[n] = z
  BY <1>6, <1>7, <1>14, StoreValues
<1>16. \A m \in Names : m # n => SavedSizes'[m] = SavedSizes[m]
  BY <1>7, <1>9, <1>13, OtherSizes
<1>17. SavedSizes' = [SavedSizes EXCEPT ![n] = z]
  BY <1>13, <1>15, <1>16, StoreMaps
<1>18. Store!Save(h)
  BY <1>6, <1>17 DEF Store!Save
<1> QED BY <1>5, <1>14, <1>18

LEMMA CloseImplements ==
  ASSUME HandleInv, HandleInv', SizesCovered, NEW h \in Handles, faults' = 0
  PROVE  /\ CloseFile(h) => Store!Close(h)
         /\ SyncFile(h) => Store!Sync(h)
<1>1. ASSUME CloseFile(h) PROVE Store!Close(h)
  <2>1. /\ call.op = "none" /\ IsOpen(h) /\ UNCHANGED <<fat, data, call>>
        /\ UpdateEntry(h) /\ files' = [files EXCEPT ![h] = ClosedFile] /\ Return(TRUE)
    BY <1>1, NoFaults DEF CloseFile, Ready, EntryFails
  <2>2. Contents' = Contents /\ Store!Save(h)
    BY <1>1, <2>1, SaveImplements
  <2>3. Store!Open(h)
    BY <2>1, OpenStore DEF OpenOn
  <2>4. Positions' = [Positions EXCEPT ![h] = Store!Closed]
    <3>1. /\ \A g \in Handles : g # h => files'[g] = files[g]
          /\ files'[h].slot = 0
      BY <2>1, Types DEF ClosedFile
    <3>2. ASSUME NEW g \in Handles, g # h PROVE Positions'[g] = Positions[g]
      <4>1. files'[g] = files[g] /\ (IsOpen(g)' <=> IsOpen(g))
        BY <3>1, <3>2 DEF IsOpen
      <4>2. IsOpen(g) => slots'[files[g].slot].name = slots[files[g].slot].name
        BY <2>1, Types, UpdateStep DEF IsOpen, HandleType
      <4> QED BY <4>1, <4>2, StoreValues
    <3>3. Positions'[h] = Store!Closed
      BY <3>1, StoreValues DEF Store!Closed, IsOpen
    <3> QED BY <3>2, <3>3, PositionMaps
  <2>5. Store!Idle /\ WriteInProgress' = WriteInProgress
    BY <2>1, NoWriteIdle DEF Store!Idle
  <2>6. Store!Returned(TRUE, <<>>, 0)
    BY <2>1, StoreReturned DEF Return
  <2> QED BY <2>2, <2>3, <2>4, <2>5, <2>6, Zenon DEF Store!Close
<1>2. ASSUME SyncFile(h) PROVE Store!Sync(h)
  <2>1. /\ call.op = "none" /\ IsOpen(h) /\ UNCHANGED <<fat, data, call>>
        /\ UpdateEntry(h) /\ files' = files /\ Return(TRUE)
    BY <1>2, NoFaults DEF SyncFile, Ready, EntryFails
  <2>2. Contents' = Contents /\ Store!Save(h)
    BY <1>2, <2>1, SaveImplements
  <2>3. Store!Open(h)
    BY <2>1, OpenStore DEF OpenOn
  <2>4. Positions' = Positions
    <3>1. \A g \in Handles : IsOpen(g) => slots'[files[g].slot].name = slots[files[g].slot].name
      BY <2>1, Types, UpdateStep DEF IsOpen, HandleType
    <3> QED BY <2>1, <3>1, SamePositions
  <2>5. Store!Idle /\ WriteInProgress' = WriteInProgress
    BY <2>1, NoWriteIdle DEF Store!Idle
  <2>6. Store!Returned(TRUE, <<>>, 0)
    BY <2>1, StoreReturned DEF Return
  <2> QED BY <2>2, <2>3, <2>4, <2>5, <2>6, Zenon DEF Store!Sync
<1> QED BY <1>1, <1>2

\* A step that moves positions at most.
LEMMA QuietStore ==
  ASSUME HandleInv, HandleInv', UNCHANGED <<fat, data, slots>>, call'.slot = call.slot,
         \A h \in Handles : /\ files'[h].slot = files[h].slot /\ files'[h].first = files[h].first
                            /\ files'[h].size = files[h].size
  PROVE  Contents' = Contents /\ SavedSizes' = SavedSizes
<1>1. Elsewhere(0)
  BY QuietElsewhere
<1>2. \A m \in Names : Content(m)' = Content(m)
  BY <1>1, SlotNumbers, OnlyOne
<1> QED BY <1>2, SameContents, SameSizes

LEMMA DeliverImplements ==
  ASSUME HandleInv, HandleInv', SizesCovered, NEW h \in Handles, IsOpen(h), call.op = "none",
         NEW k \in Nat, NEW asked \in Nat, Deliver(h, k, asked),
         k = Store!Smaller(asked, files[h].size - files[h].pos),
         UNCHANGED <<fat, data, slots, call>>
  PROVE  Store!Read(h)
<1>1. PICK n : n = slots[files[h].slot].name
  OBVIOUS
<1>2. PICK f : f = Content(n)
  OBVIOUS
<1>3. OpenOn(h, n, f)
  BY <1>1, <1>2, OpenStore
<1>4. /\ Store!File(h) = n /\ Store!Open(h) /\ Contents[n] = f /\ Len(f) = files[h].size
      /\ Positions[h].pos = files[h].pos
      /\ f = Stored(files[h].first, files[h].size)
  <2>1. Positions[h] = [name |-> n, pos |-> files[h].pos]
    BY <1>3 DEF OpenOn
  <2>2. Positions[h].pos = files[h].pos
    BY <2>1
  <2> QED BY <1>3, <2>2, StoredIs DEF OpenOn
<1>5. /\ result'.ok /\ result'.asked = asked
      /\ result'.out = SubSeq(f, files[h].pos + 1, files[h].pos + k)
      /\ files' = [files EXCEPT ![h].pos = files[h].pos + k]
  BY <1>4, Zenon DEF Deliver, Give, BytesFrom
<1>6. /\ \A g \in Handles : /\ files'[g].slot = files[g].slot /\ files'[g].first = files[g].first
                            /\ files'[g].size = files[g].size
      /\ \A g \in Handles : files'[g].pos = IF g = h THEN files[h].pos + k ELSE files[g].pos
  BY <1>5, Types DEF HandleType
<1>7. Contents' = Contents /\ SavedSizes' = SavedSizes
  BY <1>6, QuietStore
<1>8. Positions' = [Positions EXCEPT ![h].pos = files[h].pos + k]
  BY <1>6, Moved
<1>9. Store!Idle /\ WriteInProgress' = WriteInProgress
  BY NoWriteIdle DEF Store!Idle
<1>10. Store!Smaller(result'.asked, Len(Contents[Store!File(h)]) - Positions[h].pos) = k
  BY <1>4, <1>5
<1>11. /\ Positions' = [Positions EXCEPT ![h].pos = @ + k]
       /\ result'.out = SubSeq(Contents[Store!File(h)], Positions[h].pos + 1, Positions[h].pos + k)
  BY <1>4, <1>5, <1>8
<1> QED BY <1>4, <1>5, <1>7, <1>9, <1>10, <1>11, Zenon DEF Store!Read

LEMMA ReadImplements ==
  ASSUME HandleInv, HandleInv', SizesCovered, NEW h \in Handles, NEW n \in Nat, faults' = 0
  PROVE  /\ ReadFile(h, n) => Store!Read(h)
         /\ \A k \in 0 .. n : Forward(h, n, k) => Store!Read(h)
<1>1. /\ files[h].pos \in Nat /\ files[h].size \in Nat /\ files[h].pos <= files[h].size
      /\ files[h].size <= Capacity(files[h].first)
      /\ Available(h, n) \in Nat /\ files[h].pos + Available(h, n) <= files[h].size
      /\ Capacity(files[h].first) \in Nat
  BY RoomType, AvailableFacts DEF SizesCovered
<1>2. Available(h, n) = Store!Smaller(n, files[h].size - files[h].pos)
  BY <1>1, SMT DEF Available, Store!Smaller
<1>3. ASSUME ReadFile(h, n) PROVE Store!Read(h)
  <2>1. PICK k \in Nat : k = Available(h, n)
    BY <1>1
  <2>2. ~ PastChain(h, k)
    <3>1. ~ (files[h].pos + k > Capacity(files[h].first))
      BY <1>1, <2>1, SMT
    <3> QED BY <3>1, Zenon DEF PastChain
  <2>3. /\ call.op = "none" /\ IsOpen(h) /\ UNCHANGED <<fat, data, slots, call>>
        /\ Deliver(h, k, n)
    BY <1>3, <2>1, <2>2, NoFaults, Zenon DEF ReadFile, Ready
  <2> QED BY <1>2, <2>1, <2>3, DeliverImplements
<1>4. ASSUME NEW k \in 0 .. n, Forward(h, n, k) PROVE Store!Read(h)
  <2>1. /\ call.op = "none" /\ IsOpen(h) /\ UNCHANGED <<fat, data, slots, call>>
        /\ Deliver(h, k, k) /\ k <= Available(h, n)
    BY <1>4, Zenon DEF Forward, Ready
  <2>2. k \in Nat /\ k = Store!Smaller(k, files[h].size - files[h].pos)
    BY <1>1, <2>1, SMT DEF Store!Smaller
  <2> QED BY <2>1, <2>2, DeliverImplements
<1> QED BY <1>3, <1>4

LEMMA SeekImplements ==
  ASSUME HandleInv, HandleInv', SizesCovered, NEW h \in Handles, NEW ofs \in Nat, Seek(h, ofs)
  PROVE  Store!Seek(h)
<1>0. /\ call.op = "none" /\ IsOpen(h) /\ UNCHANGED <<fat, data, slots, call>> /\ Return(TRUE)
  BY DEF Seek, Ready
<1>1. PICK n : n = slots[files[h].slot].name
  OBVIOUS
<1>2. PICK f : f = Content(n)
  OBVIOUS
<1>3. OpenOn(h, n, f)
  BY <1>0, <1>1, <1>2, OpenStore
<1>4. /\ Store!File(h) = n /\ Store!Open(h) /\ Contents[n] = f /\ Len(f) = files[h].size
  BY <1>3 DEF OpenOn
<1>5. PICK p : p = IF ofs > files[h].size THEN files[h].size ELSE ofs
  OBVIOUS
<1>6. p \in 0 .. files[h].size /\ files' = [files EXCEPT ![h].pos = p]
  <2>1. files[h].size \in Nat
    BY RoomType
  <2>2. p \in 0 .. files[h].size
    BY <1>5, <2>1, SMT
  <2> QED BY <1>5, <2>2 DEF Seek
<1>7. /\ \A g \in Handles : /\ files'[g].slot = files[g].slot /\ files'[g].first = files[g].first
                            /\ files'[g].size = files[g].size
      /\ \A g \in Handles : files'[g].pos = IF g = h THEN p ELSE files[g].pos
  BY <1>6, Types DEF HandleType
<1>8. Contents' = Contents /\ SavedSizes' = SavedSizes
  BY <1>0, <1>7, QuietStore
<1>9. Positions' = [Positions EXCEPT ![h].pos = p]
  BY <1>0, <1>7, Moved
<1>10. p \in 0 .. Len(Contents[Store!File(h)])
  BY <1>4, <1>6
<1>11. Store!Idle /\ WriteInProgress' = WriteInProgress
  BY <1>0, NoWriteIdle DEF Store!Idle
<1>12. Store!Returned(TRUE, <<>>, 0)
  BY <1>0, StoreReturned DEF Return
<1> QED BY <1>4, <1>8, <1>9, <1>10, <1>11, <1>12, Zenon DEF Store!Seek

LEMMA StatImplements ==
  ASSUME HandleInv, HandleInv', NEW n \in Names, Stat(n)
  PROVE  Store!Stat(n)
<1>1. /\ call.op = "none" /\ SlotOf(n) # 0 /\ UNCHANGED <<fat, data, slots, files, call>>
      /\ Give(TRUE, <<slots[SlotOf(n)].size>>, 0)
  BY DEF Stat, Ready
<1>2. Contents' = Contents /\ SavedSizes' = SavedSizes
  BY <1>1, QuietStore
<1>3. Positions' = Positions
  BY <1>1, SamePositions
<1>4. SavedSizes[n] = slots[SlotOf(n)].size /\ SavedSizes[n] # -1
  <2>1. call.slot = 0 /\ SlotOf(n) \in Slot
    BY <1>1, Types, SlotOfFacts DEF Unlinking
  <2>2. SavedSizes[n] = slots[SlotOf(n)].size
    BY <1>1, <2>1, StoreValues DEF Exists
  <2>3. slots[SlotOf(n)].size \in Nat
    <3>1. SlotOf(n) \in Slot
      BY <1>1, <2>1
    <3>2. slots[SlotOf(n)].size \in 0 .. MaxSize
      BY <3>1, Types DEF HandlesOK
    <3> QED BY <3>2, SlotNumbers, SMT
  <2> QED BY <2>2, <2>3, SMT
<1>5. Store!Idle /\ WriteInProgress' = WriteInProgress
  BY <1>1, NoWriteIdle DEF Store!Idle
<1>6. Store!Returned(TRUE, <<SavedSizes[n]>>, 0)
  BY <1>1, <1>4, StoreReturned
<1> QED BY <1>2, <1>3, <1>4, <1>5, <1>6, Zenon DEF Store!Stat

\* A step that changes the chain or the bytes of the file of one open handle.
LEMMA OwnStore ==
  ASSUME HandleInv, HandleInv', NEW h \in Handles, IsOpen(h), Elsewhere(files[h].slot),
         UNCHANGED slots, call'.slot = call.slot, files'[h].slot = files[h].slot,
         NEW n, NEW f, OpenOn(h, n, f),
         NEW g, g = Bytes(data', ChainIn(fat', files'[h].first), files'[h].size)
  PROVE  /\ Contents' = [Contents EXCEPT ![n] = g]
         /\ g = f => Contents' = Contents
         /\ SavedSizes' = SavedSizes
<1>1. PICK s0 : s0 = files[h].slot
  OBVIOUS
<1>2. PICK c : c = files'[h].first
  OBVIOUS
<1>3. PICK z : z = files'[h].size
  OBVIOUS
<1>4. /\ n \in Names /\ s0 \in Slot /\ slots'[s0].name = n /\ slots[s0].name \in {n, NoName}
      /\ f = Content(n) /\ Elsewhere(s0) /\ g = Bytes(data', ChainIn(fat', c), z)
  BY <1>1, <1>2, <1>3 DEF OpenOn
<1>5. call'.slot # s0
  BY <1>1, OpenLive DEF Live
<1>6. Shows(s0, c, z)'
  <2>1. files'[h].slot = s0 /\ files'[h].first = c /\ files'[h].size = z
    BY <1>1, <1>2, <1>3
  <2> QED BY <2>1 DEF Shows
<1>7. Contents' = [Contents EXCEPT ![n] = g] /\ (g = Content(n) => Contents' = Contents)
  BY ONLY HandleInv, HandleInv', <1>4, <1>5, <1>6, OneStored, Zenon
<1> QED BY <1>4, <1>7, SameSizes

LEMMA EmptyStays ==
  ASSUME HandleInv, HandleInv', SizesCovered, NEW h \in Handles, files[h].first = 0,
         files'[h].size = files[h].size
  PROVE  Bytes(data', ChainIn(fat', files'[h].first), files'[h].size)
           = Bytes(data, ChainIn(fat, files[h].first), files[h].size)
<1>1. Fits(fat, files[h].size, 0) /\ files[h].size \in Nat
  BY SizesFit, RoomType
<1>2. files[h].size = 0
  BY <1>1, FitsNothing
<1>3. IsTable(fat) /\ IsTable(fat') /\ files'[h].first \in Cluster \cup {0}
  BY DEF HandleInv, FileTypeOK, IsTable
<1>4. Bytes(data', ChainIn(fat', files'[h].first), 0) = <<>>
      /\ Bytes(data, ChainIn(fat, 0), 0) = <<>>
  BY <1>3, NoBytes
<1> QED BY <1>2, <1>4

LEMMA NothingHappens ==
  ASSUME call.op \notin {"write", "copy"}, call'.op \notin {"write", "copy"},
         UNCHANGED <<Contents, SavedSizes, Positions>>, Return(TRUE) \/ Return(FALSE)
  PROVE  Store!Nothing
<1>1. Store!Idle /\ WriteInProgress' = WriteInProgress
  BY NoWriteIdle DEF Store!Idle
<1>2. PICK ok \in BOOLEAN : Return(ok)
  OBVIOUS
<1>3. Store!Returned(ok, <<>>, 0)
  BY <1>2, StoreReturned DEF Return
<1> QED BY <1>1, <1>3, Zenon DEF Store!Nothing

LEMMA ExpandImplements ==
  ASSUME HandleInv, HandleInv', FilesApart, SizesCovered,
         NEW h \in Handles, NEW size \in Nat, Expand(h, size), faults' = 0
  PROVE  Store!Nothing
<1>1. /\ call.op = "none" /\ IsOpen(h) /\ UNCHANGED <<data, slots, call>>
      /\ Return(TRUE) \/ Return(FALSE)
  BY ExpandKeeps
<1>2. CASE UNCHANGED <<fat, files>>
  BY <1>1, <1>2, QuietStore, SamePositions, NothingHappens
<1>3. ASSUME \A g \in Handles : /\ files'[g].slot = files[g].slot /\ files'[g].pos = files[g].pos
                                /\ files'[g].size = files[g].size,
             files[h].first # 0 => files'[h].first = files[h].first,
             ChainIn(fat', files[h].first) = ChainIn(fat, files[h].first)
      PROVE  Store!Nothing
  <2>1. PICK n : n = slots[files[h].slot].name
    OBVIOUS
  <2>2. PICK f : f = Content(n)
    OBVIOUS
  <2>3. OpenOn(h, n, f)
    BY <1>1, <2>1, <2>2, OpenStore
  <2>4. Elsewhere(files[h].slot)
    BY ExpandElsewhere
  <2>5. Bytes(data', ChainIn(fat', files'[h].first), files'[h].size)
          = Bytes(data, ChainIn(fat, files[h].first), files[h].size)
    <3>1. CASE files[h].first = 0
      BY <1>3, <3>1, EmptyStays
    <3>2. CASE files[h].first # 0
      BY <1>1, <1>3, <3>2
    <3> QED BY <3>1, <3>2
  <2>6. f = Bytes(data', ChainIn(fat', files'[h].first), files'[h].size)
    BY <2>3, <2>5 DEF OpenOn
  <2>7. Contents' = Contents /\ SavedSizes' = SavedSizes
    BY <1>1, <1>3, <2>3, <2>4, <2>6, OwnStore
  <2>8. Positions' = Positions
    BY <1>1, <1>3, SamePositions
  <2> QED BY <1>1, <2>7, <2>8, NothingHappens
<1> QED BY <1>2, <1>3, ExpandKeeps

LEMMA BeginWriteImplements ==
  ASSUME HandleInv, HandleInv', FilesApart, SizesCovered,
         NEW h \in Handles, NEW buffer \in Buffers, BeginWrite(h, buffer)
  PROVE  Store!BeginWrite(h) \/ Store!Nothing
<1> DEFINE new   == Allocate(fat, hint, 1)
           first == IF files[h].first = 0 THEN new.first ELSE files[h].first
<1>1. /\ call.op = "none" /\ IsOpen(h) /\ UNCHANGED <<data, slots>>
      /\ \/ first = 0 /\ Return(FALSE) /\ UNCHANGED <<fat, hint, files, call>>
         \/ /\ first # 0 /\ (files[h].first # 0 => UNCHANGED fat)
            /\ files' = [files EXCEPT ![h].first = first]
            /\ call' = [NoCall EXCEPT !.op = "write", !.handle = h, !.cluster = first,
                          !.offset = files[h].pos, !.buffer = buffer]
            /\ UNCHANGED result
  BY DEF BeginWrite, Ready
<1>2. files[h].first # 0 => first = files[h].first
  OBVIOUS
<1> HIDE DEF first
<1>3. CASE UNCHANGED <<fat, hint, files, call>> /\ Return(FALSE)
  BY <1>1, <1>3, QuietStore, SamePositions, NothingHappens
<1>4. ASSUME files[h].first # 0 => UNCHANGED fat,
             files' = [files EXCEPT ![h].first = first],
             call' = [NoCall EXCEPT !.op = "write", !.handle = h, !.cluster = first,
                        !.offset = files[h].pos, !.buffer = buffer],
             UNCHANGED result
      PROVE  Store!BeginWrite(h)
  <2>1. PICK n : n = slots[files[h].slot].name
    OBVIOUS
  <2>2. PICK f : f = Content(n)
    OBVIOUS
  <2>3. OpenOn(h, n, f)
    BY <1>1, <2>1, <2>2, OpenStore
  <2>4. Elsewhere(files[h].slot)
    BY BeginWriteElsewhere
  <2>5. /\ \A g \in Handles : /\ files'[g].slot = files[g].slot /\ files'[g].pos = files[g].pos
                              /\ files'[g].size = files[g].size
        /\ files'[h].first = first
    BY <1>4, Types DEF HandleType
  <2>6. /\ call'.op = "write" /\ call'.handle = h /\ call'.buffer = buffer /\ call'.done = 0
        /\ call'.slot = call.slot
    BY <1>1, <1>4, Types DEF NoCall, Unlinking
  <2>7. Bytes(data', ChainIn(fat', files'[h].first), files'[h].size)
          = Bytes(data, ChainIn(fat, files[h].first), files[h].size)
    <3>1. CASE files[h].first = 0
      BY <2>5, <3>1, EmptyStays
    <3>2. CASE files[h].first # 0
      BY <1>1, <1>2, <1>4, <2>5, <3>2
    <3> QED BY <3>1, <3>2
  <2>8. f = Bytes(data', ChainIn(fat', files'[h].first), files'[h].size)
    BY <2>3, <2>7 DEF OpenOn
  <2>9. Contents' = Contents /\ SavedSizes' = SavedSizes
    BY <1>1, <2>3, <2>4, <2>5, <2>6, <2>8, OwnStore
  <2>10. Positions' = Positions
    BY <1>1, <2>5, SamePositions
  <2>11. /\ Store!Idle /\ Store!Open(h)
    BY <1>1, <2>3, NoWriteIdle DEF OpenOn
  <2>12. WriteInProgress' = [name |-> Store!File(h), buffer |-> buffer, done |-> 0]
    <3>1. Positions'[h].name = Store!File(h)
      BY <2>10 DEF Store!File
    <3>2. WriteInProgress' = [name |-> Positions'[call'.handle].name, buffer |-> call'.buffer,
                              done |-> call'.done]
      BY <2>6 DEF WriteInProgress
    <3> QED BY <2>6, <3>1, <3>2
  <2> QED BY <1>4, <2>9, <2>10, <2>11, <2>12, Zenon DEF Store!BeginWrite
<1> QED BY <1>1, <1>3, <1>4

-----------------------------------------------------------------------------
(* The bytes an f_write has stored.                                        *)

\* Byte j of a chain.
ByteOf(d, s, j) == d[s[((j - 1) \div ClusterSize) + 1]][(j - 1) % ClusterSize]

Room(s) == ClusterSize * Len(s)

LEMMA BytesAre ==
  ASSUME NEW d, NEW s, NEW z, z <= Room(s)
  PROVE  Bytes(d, s, z) = [j \in 1 .. z |-> ByteOf(d, s, j)]
BY Zenon DEF Bytes, ByteOf, Room

LEMMA PlaceOfByte ==
  ASSUME NEW s, Len(s) \in Nat, NEW j \in Nat, j >= 1, j <= Room(s)
  PROVE  \E q \in 1 .. Len(s), r \in 0 .. ClusterSize - 1 :
           InPlaceOf(j, q, r) /\ \A d : ByteOf(d, s, j) = d[s[q]][r]
<1>1. ClusterSize \in Nat /\ ClusterSize >= 1
  BY SlotNumbers
<1>2. PICK p : p = (j - 1) \div ClusterSize
  OBVIOUS
<1>3. PICK r : r = (j - 1) % ClusterSize
  OBVIOUS
<1>4. /\ p + 1 \in 1 .. Len(s) /\ r \in 0 .. ClusterSize - 1
      /\ j - 1 = ClusterSize * p + r /\ p \in Nat
  BY <1>1, <1>2, <1>3, ByteAt DEF Room
<1>5. InPlaceOf(j, p + 1, r)
  <2>1. (p + 1) - 1 = p
    BY <1>4, SMT
  <2> QED BY <1>4, <2>1 DEF InPlaceOf
<1>6. \A d : ByteOf(d, s, j) = d[s[p + 1]][r]
  BY <1>2, <1>3, Zenon DEF ByteOf
<1> QED BY <1>4, <1>5, <1>6

LEMMA RoomNumber ==
  ASSUME NEW s, Len(s) \in Nat
  PROVE  Room(s) \in Nat
BY SlotNumbers, SMT DEF Room

\* The bytes counted as done are in the file's chain, in their places.
Written ==
  call.op \in {"write", "copy"} =>
    \A m \in 1 .. call.done :
      LET s == ChainIn(fat, files[call.handle].first)
          j == files[call.handle].pos + m
      IN  j <= Room(s) /\ ByteOf(data, s, j) = call.buffer[m]

\* Where the bytes of the current cluster are in the file.
LEMMA ChunkRange ==
  ASSUME NEW c \in Nat, c >= 1, NEW i \in Nat, i >= 1, NEW n \in Nat, i <= n,
         NEW o \in Nat, NEW k \in Nat, o + k <= c, NEW p \in Nat, (i - 1) * c + o = p,
         NEW j \in Nat, NEW q \in Nat, q >= 1, NEW r \in 0 .. c - 1, j - 1 = c * (q - 1) + r
  PROVE  /\ p + k <= c * n
         /\ p < j /\ j <= p + k <=> q = i /\ o <= r /\ r < o + k
<1> DEFINE x == (i - 1) * c
           y == (q - 1) * c
<1>1. /\ x \in Nat /\ i * c = x + c /\ i * c \in Nat
      /\ y \in Nat /\ q * c = y + c /\ q * c \in Nat
  BY OneMore
<1>2. i * c <= c * n /\ c * n \in Nat
  BY NoMore
<1>3. j - 1 = y + r /\ r \in Nat /\ r < c
  BY SMT
<1>4. q < i => y + c <= x
  <2>1. ASSUME q < i PROVE q * c <= c * (i - 1) /\ c * (i - 1) = x
    <3>1. i - 1 \in Nat /\ q <= i - 1
      BY <2>1
    <3> QED BY <3>1, NoMore, SMT
  <2> QED BY <1>1, <2>1
<1>5. i < q => x + c <= y
  <2>1. ASSUME i < q PROVE i * c <= c * (q - 1) /\ c * (q - 1) = y
    <3>1. q - 1 \in Nat /\ i <= q - 1
      BY <2>1
    <3> QED BY <3>1, NoMore, SMT
  <2> QED BY <1>1, <2>1
<1>6. q = i => x = y
  OBVIOUS
<1> HIDE DEF x, y
<1>7. x + o = p
  BY DEF x
<1>8. p + k <= c * n
  BY <1>1, <1>2, <1>7, SMT
<1>9. p < j /\ j <= p + k <=> q = i /\ o <= r /\ r < o + k
  BY <1>1, <1>3, <1>4, <1>5, <1>6, <1>7, SMT
<1> QED BY <1>8, <1>9

\* What patching the current cluster makes of the bytes of the chain.
ChunkPut(s, p, k) ==
  /\ p + call.done + k <= Room(s)
  /\ \A j \in 1 .. Room(s) :
       ByteOf(data', s, j) = IF p + call.done < j /\ j <= p + call.done + k
                             THEN call.buffer[j - p] ELSE ByteOf(data, s, j)

LEMMA ChunkStored ==
  ASSUME HandleInv, FilesApart, InPlace, call.op = "write", call.offset < ClusterSize,
         call.cluster \in Cluster, data' = [data EXCEPT ![call.cluster] = Patched(@)],
         NEW h, h = call.handle, NEW s, s = ChainIn(fat, files[h].first),
         NEW p, p = files[h].pos, NEW k, k = Chunk
  PROVE  ChunkPut(s, p, k)
<1>1. /\ k \in Nat /\ call.done + k <= Len(call.buffer) /\ call.done \in Nat
      /\ call.offset \in Nat /\ call.offset + k <= ClusterSize /\ Len(call.buffer) \in Nat
      /\ ClusterSize \in Nat /\ ClusterSize >= 1
  BY ChunkFacts, SlotNumbers
<1>2. /\ Len(s) \in Nat /\ p \in Nat /\ files[h].first \in Cluster \cup {0}
      /\ \A i \in 1 .. Len(s) : s[i] \in Cluster
  BY WritersLinks
<1>3. PICK i \in Nat : /\ i \in 1 .. Len(s) /\ call.cluster = s[i]
                       /\ (i - 1) * ClusterSize + call.offset = p + call.done
  BY DEF InPlace, At, Reached
<1>4. PICK o : o = call.offset
  OBVIOUS
<1>5. PICK d : d = call.done
  OBVIOUS
<1>6. PICK c : c = ClusterSize
  OBVIOUS
<1>7. PICK n : n = Len(s)
  OBVIOUS
<1>8. /\ c \in Nat /\ c >= 1 /\ i \in Nat /\ i >= 1 /\ n \in Nat /\ i <= n /\ o \in Nat
      /\ k \in Nat /\ o + k <= c /\ p + d \in Nat /\ (i - 1) * c + o = p + d
  BY <1>1, <1>2, <1>3, <1>4, <1>5, <1>6, <1>7
<1>9. ASSUME NEW j \in Nat, NEW q \in Nat, q >= 1, NEW r \in 0 .. c - 1, j - 1 = c * (q - 1) + r
      PROVE  /\ p + d + k <= c * n
             /\ p + d < j /\ j <= p + d + k <=> q = i /\ o <= r /\ r < o + k
  <2>1. PICK x \in Nat : x = p + d
    BY <1>8
  <2>2. (i - 1) * c + o = x
    BY <1>8, <2>1
  <2>3. x + k <= c * n /\ (x < j /\ j <= x + k <=> q = i /\ o <= r /\ r < o + k)
    BY ONLY <1>8, <1>9, <2>2, x \in Nat, ChunkRange
  <2> QED BY <2>1, <2>3
<1>10. p + d + k <= Room(s)
  <2>1. 0 \in 0 .. c - 1 /\ c * (1 - 1) + 0 = 0
    BY <1>8, SMT
  <2>2. 1 - 1 = c * (1 - 1) + 0
    BY <2>1
  <2> QED BY <1>6, <1>7, <1>9, <2>1, <2>2 DEF Room
<1>11. Whole(fat, s)
  <2>1. files[h].first \in Cluster
    <3>1. s[i] \in OnChainIn(fat, files[h].first)
      <4>1. s \in Seq(Cluster)
        BY <1>2, TableNumbers, Types, ChainType
      <4>2. DOMAIN s = 1 .. Len(s)
        BY <4>1, LenProperties
      <4> QED BY <1>3, <4>2 DEF OnChainIn
    <3>2. files[h].first # 0
      BY <3>1, NoClusters
    <3> QED BY <1>2, <3>2
  <2> QED BY <2>1, ChainOfWalk DEF FilesApart, Acyclic
<1>12. ASSUME NEW j \in 1 .. Room(s)
       PROVE  ByteOf(data', s, j) = IF p + d < j /\ j <= p + d + k
                                    THEN call.buffer[j - p] ELSE ByteOf(data, s, j)
  <2>0. Room(s) \in Nat /\ j \in Nat /\ j >= 1 /\ j <= Room(s)
    BY <1>2, RoomNumber, SMT
  <2>1. PICK q \in 1 .. Len(s), r \in 0 .. ClusterSize - 1 :
          InPlaceOf(j, q, r) /\ \A t : ByteOf(t, s, j) = t[s[q]][r]
    BY <1>2, <2>0, PlaceOfByte
  <2>2. q \in Nat /\ q >= 1 /\ r \in 0 .. c - 1 /\ j - 1 = c * (q - 1) + r
    BY <1>2, <1>6, <2>1 DEF InPlaceOf
  <2>3. p + d < j /\ j <= p + d + k <=> q = i /\ o <= r /\ r < o + k
    BY <1>9, <2>0, <2>2
  <2>4. ByteOf(data', s, j) = data'[s[q]][r] /\ ByteOf(data, s, j) = data[s[q]][r]
    BY <2>1
  <2>5. CASE q # i
    <3>1. s[q] # call.cluster
      BY <1>3, <1>11, <2>1, <2>5, WholeOnce
    <3>2. data'[s[q]] = data[s[q]]
      BY <1>2, <2>1, <3>1, Types
    <3> QED BY <2>3, <2>4, <2>5, <3>2
  <2>6. CASE q = i
    <3>1. data'[s[q]] = Patched(data[s[q]]) /\ r \in DOMAIN data[s[q]]
      BY <1>2, <1>3, <2>1, <2>6, Types
    <3>2. data'[s[q]][r] = IF o <= r /\ r < o + k THEN call.buffer[d + r - o + 1]
                           ELSE data[s[q]][r]
      BY <1>4, <1>5, <3>1 DEF Patched, Patch
    <3>3. d + r - o + 1 = j - p
      <4>1. (q - 1) * c = c * (q - 1) /\ c * (q - 1) \in Nat
        BY <1>8, <2>2, SMT
      <4>2. PICK x \in Nat : x = c * (q - 1)
        BY <4>1
      <4>3. x + o = p + d /\ j - 1 = x + r /\ r \in Nat /\ o \in Nat /\ p \in Nat /\ d \in Nat
        BY <1>1, <1>2, <1>5, <1>8, <2>2, <2>6, <4>1, <4>2
      <4> QED BY ONLY <2>0, <4>3, x \in Nat, SMT
    <3> QED BY <2>3, <2>4, <2>6, <3>2, <3>3
  <2> QED BY <2>5, <2>6
<1> QED BY <1>5, <1>10, <1>12 DEF ChunkPut

\* Walking on keeps the bytes of the chain.
LEMMA WalkExtends ==
  ASSUME NEW s, NEW t, Len(s) \in Nat, s \in Seq(Cluster),
         t = s \/ \E e \in Cluster : t = Append(s, e)
  PROVE  /\ Len(t) \in Nat /\ Room(s) <= Room(t)
         /\ \A d : \A j \in 1 .. Room(s) : ByteOf(d, t, j) = ByteOf(d, s, j)
<1>1. Len(t) \in Nat /\ Len(s) <= Len(t) /\ \A q \in 1 .. Len(s) : t[q] = s[q]
  OBVIOUS
<1>2. Room(s) <= Room(t) /\ Room(s) \in Nat /\ Room(t) \in Nat
  <2>1. ClusterSize \in Nat
    BY SlotNumbers
  <2>2. Len(s) * ClusterSize <= ClusterSize * Len(t)
    BY <1>1, <2>1, NoMore
  <2>3. Len(s) * ClusterSize = ClusterSize * Len(s)
    BY <2>1, SMT
  <2> QED BY <1>1, <2>2, <2>3, RoomNumber DEF Room
<1>3. ASSUME NEW d, NEW j \in 1 .. Room(s) PROVE ByteOf(d, t, j) = ByteOf(d, s, j)
  <2>1. PICK q : q = ((j - 1) \div ClusterSize) + 1
    OBVIOUS
  <2>2. q \in 1 .. Len(s)
    <3>1. ClusterSize \in Nat /\ ClusterSize >= 1 /\ j \in Nat /\ j >= 1 /\ j <= Room(s)
      BY <1>2, SlotNumbers, SMT
    <3> QED BY <2>1, <3>1, ByteAt DEF Room
  <2> QED BY <1>1, <2>1, <2>2 DEF ByteOf
<1> QED BY <1>1, <1>2, <1>3

\* The chain of an f_write after a step of its walk.
LEMMA WalkChain ==
  ASSUME HandleInv, HandleInv', FilesApart, Aside, Place, fat[1] \notin Cluster,
         WalkToPosition \/ AdvanceWrite, ~Fault,
         NEW h, h = call.handle, NEW s, s = ChainIn(fat, files[h].first),
         NEW t, t = ChainIn(fat', files[h].first)
  PROVE  /\ Len(s) \in Nat /\ Len(t) \in Nat /\ Room(s) <= Room(t)
         /\ \A d : \A j \in 1 .. Room(s) : ByteOf(d, t, j) = ByteOf(d, s, j)
<1>1. PICK c : c = files[h].first
  OBVIOUS
<1>2. Extends(c)
  BY <1>1, WalkPlaced
<1>3. t = s \/ \E e \in Cluster : t = Append(s, e)
  BY <1>1, <1>2 DEF Extends
<1>4. Len(s) \in Nat /\ s \in Seq(Cluster)
  <2>1. c \in Cluster \cup {0} /\ Len(s) \in Nat
    BY <1>1, WritersLinks, WalkMoves
  <2>2. s \in Seq(Cluster)
    BY <1>1, <2>1, TableNumbers, Types, ChainType
  <2> QED BY <2>1, <2>2
<1> QED BY <1>3, <1>4, WalkExtends

LEMMA WalkWritten ==
  ASSUME HandleInv, HandleInv', FilesApart, Aside, Place, fat[1] \notin Cluster,
         WalkToPosition \/ AdvanceWrite, ~Fault, Written
  PROVE  Written'
<1>1. call.op \in {"write", "copy"} /\ UNCHANGED <<data, files>>
  BY WalkMoves
<1>2. CASE GivesUp
  BY <1>2, NoCallFacts DEF GivesUp, Written
<1>3. CASE /\ call'.handle = call.handle /\ call'.done = call.done
           /\ call'.buffer = call.buffer
  <2>1. PICK h : h = call.handle
    OBVIOUS
  <2>2. PICK s : s = ChainIn(fat, files[h].first)
    OBVIOUS
  <2>3. PICK t : t = ChainIn(fat', files[h].first)
    OBVIOUS
  <2>4. /\ Len(s) \in Nat /\ Len(t) \in Nat /\ Room(s) <= Room(t)
        /\ \A d : \A j \in 1 .. Room(s) : ByteOf(d, t, j) = ByteOf(d, s, j)
    BY <2>1, <2>2, <2>3, WalkChain
  <2>5. Room(s) \in Nat /\ Room(t) \in Nat /\ files[h].pos \in Nat /\ call.done \in Nat
    BY <1>1, <2>1, <2>4, RoomNumber, WritersLinks, Types DEF CallType
  <2>6. ASSUME NEW m \in 1 .. call.done
        PROVE  files[h].pos + m <= Room(t) /\ ByteOf(data, t, files[h].pos + m) = call.buffer[m]
    <3>1. files[h].pos + m <= Room(s) /\ ByteOf(data, s, files[h].pos + m) = call.buffer[m]
      BY <1>1, <2>1, <2>2, <2>6, Zenon DEF Written
    <3>2. PICK j : j = files[h].pos + m
      OBVIOUS
    <3>3. j \in 1 .. Room(s) /\ j <= Room(t)
      BY <2>4, <2>5, <3>1, <3>2, SMT
    <3> QED BY <2>4, <3>1, <3>2, <3>3
  <2> QED BY <1>1, <1>3, <2>1, <2>3, <2>6, Zenon DEF Written
<1> QED BY <1>2, <1>3, WalkMoves

LEMMA WriteClusterWritten ==
  ASSUME HandleInv, FilesApart, InPlace, WriteCluster \/ WriteClusterFails, Written
  PROVE  Written'
<1>1. /\ call.op = "write" /\ call.offset < ClusterSize /\ UNCHANGED fat
      /\ \/ EndCall
         \/ /\ call.cluster \in Cluster /\ data' = [data EXCEPT ![call.cluster] = Patched(@)]
            /\ files' = files /\ call' = [call EXCEPT !.op = "copy", !.done = @ + Chunk]
  BY Zenon DEF WriteCluster, WriteClusterFails, FinishWrite
<1>2. CASE EndCall
  BY <1>2, NoCallFacts DEF Written
<1>3. CASE /\ call.cluster \in Cluster /\ data' = [data EXCEPT ![call.cluster] = Patched(@)]
           /\ files' = files /\ call' = [call EXCEPT !.op = "copy", !.done = @ + Chunk]
  <2>1. PICK h : h = call.handle
    OBVIOUS
  <2>2. PICK s : s = ChainIn(fat, files[h].first)
    OBVIOUS
  <2>3. PICK p : p = files[h].pos
    OBVIOUS
  <2>4. PICK k : k = Chunk
    OBVIOUS
  <2>5. ChunkPut(s, p, k)
    BY <1>1, <1>3, <2>1, <2>2, <2>3, <2>4, ChunkStored
  <2>6. /\ k \in Nat /\ call.done \in Nat /\ p \in Nat /\ Room(s) \in Nat
    BY <1>1, <2>1, <2>2, <2>3, <2>4, ChunkFacts, WritersLinks, RoomNumber
  <2>7. call'.handle = h /\ call'.done = call.done + k /\ call'.buffer = call.buffer
    BY <1>3, <2>1, <2>4, Types DEF CallType
  <2>8. ASSUME NEW m \in 1 .. call.done + k
        PROVE  p + m <= Room(s) /\ ByteOf(data', s, p + m) = call.buffer[m]
    <3>1. PICK j : j = p + m
      OBVIOUS
    <3>2. p + call.done + k <= Room(s)
      BY <2>5 DEF ChunkPut
    <3>3. j \in 1 .. Room(s) /\ j - p = m /\ j <= p + call.done + k
      BY <2>6, <3>1, <3>2, SMT
    <3>4. ByteOf(data', s, j) = IF p + call.done < j /\ j <= p + call.done + k
                                THEN call.buffer[m] ELSE ByteOf(data, s, j)
      BY <2>5, <3>3 DEF ChunkPut
    <3>5. CASE p + call.done < j
      BY <2>6, <3>1, <3>3, <3>4, <3>5
    <3>6. CASE ~(p + call.done < j)
      <4>1. m \in 1 .. call.done
        BY <2>6, <3>1, <3>6, SMT
      <4>2. ByteOf(data, s, p + m) = call.buffer[m]
        BY <1>1, <2>1, <2>2, <2>3, <4>1, Zenon DEF Written
      <4> QED BY <2>6, <3>1, <3>3, <3>4, <3>6, <4>2
    <3> QED BY <3>5, <3>6
  <2> QED BY <1>1, <1>3, <2>2, <2>3, <2>7, <2>8, Zenon DEF Written
<1> QED BY <1>1, <1>2, <1>3

-----------------------------------------------------------------------------
(* The steps of f_write.                                                   *)

\* The f_write in progress, as the store sees it.
OnWrite(h, n, f) ==
  /\ h = call.handle /\ h \in Handles /\ IsOpen(h) /\ OpenOn(h, n, f)
  /\ WriteInProgress = [name |-> n, buffer |-> call.buffer, done |-> call.done]
  /\ ~Store!Idle
  /\ Len(ChainIn(fat, files[h].first)) \in Nat /\ files[h].size \in Nat
  /\ files[h].pos \in Nat /\ files[h].pos <= files[h].size
  /\ files[h].size <= Room(ChainIn(fat, files[h].first))

LEMMA WritingStore ==
  ASSUME HandleInv, FilesApart, SizesCovered, call.op \in {"write", "copy"}
  PROVE  \E h, n, f : OnWrite(h, n, f)
<1>1. PICK h : h = call.handle
  OBVIOUS
<1>2. PICK n : n = slots[files[h].slot].name
  OBVIOUS
<1>3. PICK f : f = Content(n)
  OBVIOUS
<1>4. h \in Handles /\ IsOpen(h)
  BY <1>1, Types DEF Writing
<1>5. OpenOn(h, n, f)
  BY <1>2, <1>3, <1>4, OpenStore
<1>6. WriteInProgress = [name |-> n, buffer |-> call.buffer, done |-> call.done]
  <2>1. Positions[h].name = n
    BY <1>5 DEF OpenOn
  <2> QED BY <1>1, <2>1 DEF WriteInProgress
<1>7. ~Store!Idle
  <2>1. n # NoName
    BY <1>5 DEF OpenOn
  <2> QED BY <1>6, <2>1 DEF Store!Idle, Store!NotWriting
<1>8. /\ Len(ChainIn(fat, files[h].first)) \in Nat /\ files[h].size \in Nat
      /\ files[h].pos \in Nat /\ files[h].pos <= files[h].size
      /\ files[h].size <= Room(ChainIn(fat, files[h].first))
  BY <1>1, WritersChain DEF Room
<1> QED BY <1>1, <1>4, <1>5, <1>6, <1>7, <1>8 DEF OnWrite

\* A call that gives up after what it has stored.
LEMMA GivingUp ==
  ASSUME NEW h, NEW n, NEW f, OnWrite(h, n, f), EndCall, Return(FALSE),
         UNCHANGED <<Contents, SavedSizes, Positions>>
  PROVE  Store!FailWrite
<1>1. ~Store!Idle
  BY DEF OnWrite
<1>2. call'.op = "none"
  BY NoCallFacts
<1>3. WriteInProgress' = Store!NotWriting
  BY <1>2, NoWriteIdle
<1>4. Store!Returned(FALSE, <<>>, 0)
  BY StoreReturned DEF Return
<1> QED BY <1>1, <1>3, <1>4, Zenon DEF Store!FailWrite

LEMMA WalkImplements ==
  ASSUME HandleInv, HandleInv', FilesApart, Aside, Place, fat[1] \notin Cluster, SizesCovered,
         WalkToPosition \/ AdvanceWrite, ~Fault
  PROVE  \/ Store!FailWrite
         \/ UNCHANGED <<Contents, SavedSizes, Positions, WriteInProgress, result>>
<1>1. call.op \in {"write", "copy"} /\ UNCHANGED <<data, slots, files>>
  BY WalkMoves
<1>2. PICK h, n, f : OnWrite(h, n, f)
  BY <1>1, WritingStore
<1>3. /\ h = call.handle /\ h \in Handles /\ IsOpen(h) /\ OpenOn(h, n, f)
      /\ files[h].size \in Nat
  BY <1>2 DEF OnWrite
<1>4. call'.slot = call.slot
  <2>1. call.slot = 0
    BY <1>1, Types DEF Unlinking
  <2> QED BY <2>1, WalkMoves, NoCallFacts DEF GivesUp
<1>5. Elsewhere(files[h].slot)
  BY <1>3, WalkElsewhere
<1>6. Bytes(data', ChainIn(fat', files'[h].first), files'[h].size) = f
  <2>1. PICK s : s = ChainIn(fat, files[h].first)
    OBVIOUS
  <2>2. PICK t : t = ChainIn(fat', files[h].first)
    OBVIOUS
  <2>3. PICK z : z = files[h].size
    OBVIOUS
  <2>4. /\ Len(s) \in Nat /\ Len(t) \in Nat /\ Room(s) <= Room(t)
        /\ \A d : \A j \in 1 .. Room(s) : ByteOf(d, t, j) = ByteOf(d, s, j)
    BY <1>3, <2>1, <2>2, WalkChain
  <2>5. z \in Nat /\ z <= Room(s) /\ Room(s) \in Nat /\ Room(t) \in Nat
    BY <1>2, <2>1, <2>3, <2>4, RoomNumber DEF OnWrite
  <2>6. /\ Bytes(data, s, z) = [j \in 1 .. z |-> ByteOf(data, s, j)]
        /\ Bytes(data, t, z) = [j \in 1 .. z |-> ByteOf(data, t, j)]
    BY <2>4, <2>5, BytesAre, SMT
  <2>7. \A j \in 1 .. z : ByteOf(data, t, j) = ByteOf(data, s, j)
    BY <2>4, <2>5, SMT
  <2>8. f = Bytes(data, s, z)
    BY <1>3, <2>1, <2>3 DEF OpenOn
  <2> QED BY <1>1, <2>2, <2>3, <2>6, <2>7, <2>8
<1>7. f = Bytes(data', ChainIn(fat', files'[h].first), files'[h].size)
  BY <1>6
<1>8. UNCHANGED slots /\ files'[h].slot = files[h].slot
  BY <1>1
<1>9. Contents' = Contents /\ SavedSizes' = SavedSizes
  BY <1>3, <1>4, <1>5, <1>7, <1>8, OwnStore
<1>10. Positions' = Positions
  BY <1>1, SamePositions
<1>11. CASE GivesUp
  BY <1>2, <1>9, <1>10, <1>11, GivingUp DEF GivesUp
<1>12. CASE /\ call'.op = "write" /\ call'.handle = call.handle /\ call'.done = call.done
            /\ call'.buffer = call.buffer /\ UNCHANGED result
  <2>1. WriteInProgress' = WriteInProgress
    BY <1>1, <1>10, <1>12 DEF WriteInProgress
  <2> QED BY <1>9, <1>10, <1>12, <2>1
<1> QED BY <1>11, <1>12, WalkMoves

\* The first d bytes of the buffer are in the chain, from position p on.
Overlaid(s, p, d) ==
  /\ p + d <= Room(s)
  /\ \A j \in 1 .. Room(s) :
       ByteOf(data', s, j) = IF p < j /\ j <= p + d THEN call.buffer[j - p]
                             ELSE ByteOf(data, s, j)

Larger(m, n) == IF m > n THEN m ELSE n

\* They are laid over the bytes f of a file of z bytes, which then has y bytes.
Overlays(s, p, d, z, f, y) ==
  /\ Overlaid(s, p, d) /\ Len(s) \in Nat /\ p \in Nat /\ d \in Nat /\ z \in Nat
  /\ p <= z /\ z <= Room(s) /\ y = Larger(p + d, z)
  /\ f = Bytes(data, s, z) /\ f = [j \in 1 .. z |-> f[j]] /\ Len(f) = z

LEMMA OverlaidBytes ==
  ASSUME NEW s, NEW p, NEW d, NEW z, NEW f, NEW y, Overlays(s, p, d, z, f, y)
  PROVE  /\ Bytes(data', s, y) = Store!Overlay(f, p, call.buffer, d)
         /\ Bytes(data', s, z) = Store!Within(f, p, call.buffer, d)
<1>0. /\ Overlaid(s, p, d) /\ Len(s) \in Nat /\ p \in Nat /\ d \in Nat /\ z \in Nat
      /\ p <= z /\ z <= Room(s) /\ y = Larger(p + d, z)
      /\ f = Bytes(data, s, z) /\ f = [j \in 1 .. z |-> f[j]] /\ Len(f) = z
  BY DEF Overlays
<1>1. Room(s) \in Nat /\ p + d <= Room(s) /\ y \in Nat /\ z <= y /\ y <= Room(s)
  BY <1>0, RoomNumber, SMT DEF Overlaid, Larger
<1>2. /\ Bytes(data', s, y) = [j \in 1 .. y |-> ByteOf(data', s, j)]
      /\ Bytes(data', s, z) = [j \in 1 .. z |-> ByteOf(data', s, j)]
  <2>1. Bytes(data', s, y) = [j \in 1 .. y |-> ByteOf(data', s, j)]
    BY ONLY <1>1, BytesAre, Zenon
  <2>2. Bytes(data', s, z) = [j \in 1 .. z |-> ByteOf(data', s, j)]
    BY <1>0, BytesAre
  <2> QED BY <2>1, <2>2
<1>3. PICK g : g = Store!Overlay(f, p, call.buffer, d)
  OBVIOUS
<1>4. g = [j \in 1 .. y |-> IF p < j /\ j <= p + d THEN call.buffer[j - p] ELSE f[j]]
  BY <1>0, <1>3, Zenon DEF Store!Overlay, Larger
<1>5. \A j \in 1 .. z : f[j] = ByteOf(data, s, j)
  <2>1. f = [j \in 1 .. z |-> ByteOf(data, s, j)]
    BY <1>0, BytesAre
  <2> QED BY <2>1
<1>6. ASSUME NEW j \in 1 .. y PROVE g[j] = ByteOf(data', s, j)
  <2>1. j \in 1 .. Room(s)
    BY <1>1, SMT
  <2>2. ByteOf(data', s, j) = IF p < j /\ j <= p + d THEN call.buffer[j - p]
                              ELSE ByteOf(data, s, j)
    BY <1>0, <2>1 DEF Overlaid
  <2>3. g[j] = IF p < j /\ j <= p + d THEN call.buffer[j - p] ELSE f[j]
    BY <1>4, <1>6
  <2>4. ~(p < j /\ j <= p + d) => j \in 1 .. z
    BY <1>0, <1>1, SMT DEF Larger
  <2> QED BY <1>5, <2>2, <2>3, <2>4
<1>7. Bytes(data', s, y) = g
  BY <1>2, <1>4, <1>6
<1>8. g = [j \in 1 .. y |-> g[j]]
  BY <1>4
<1>9. SubSeq(g, 1, z) = [j \in 1 .. z |-> g[j]]
  BY <1>0, <1>1, <1>8, FirstBytes
<1>10. Bytes(data', s, z) = SubSeq(g, 1, z)
  <2>1. \A j \in 1 .. z : j \in 1 .. y
    BY <1>0, <1>1, SMT
  <2> QED BY <1>2, <1>6, <1>9, <2>1
<1>11. Store!Within(f, p, call.buffer, d) = SubSeq(g, 1, z)
  BY <1>0, <1>3, Zenon DEF Store!Within
<1> QED BY <1>3, <1>7, <1>10, <1>11

\* What a step of f_write makes of the bytes of its file.
LEMMA WritePuts ==
  ASSUME HandleInv, FilesApart, InPlace, Written, WriteCluster,
         NEW h, NEW n, NEW f, OnWrite(h, n, f),
         NEW s, s = ChainIn(fat, files[h].first), NEW p, p = files[h].pos
  PROVE  \/ FinishWrite(Len(call.buffer)) /\ Overlaid(s, p, Len(call.buffer))
         \/ \E d \in call.done + 1 .. Len(call.buffer) - 1 :
              /\ files' = files /\ UNCHANGED result
              /\ call' = [call EXCEPT !.op = "copy", !.done = d]
              /\ Overlaid(s, p, d)
<1>1. /\ h = call.handle /\ Len(s) \in Nat /\ p \in Nat /\ p <= files[h].size
      /\ files[h].size \in Nat /\ files[h].size <= Room(s) /\ Room(s) \in Nat
  BY RoomNumber DEF OnWrite
<1>2. /\ call.op = "write" /\ call.offset < ClusterSize
  BY DEF WriteCluster
<1>3. PICK k : k = Chunk
  OBVIOUS
<1>4. PICK l : l = Len(call.buffer)
  OBVIOUS
<1>5. /\ k \in Nat /\ call.done + k <= l /\ call.done \in Nat
      /\ call.offset \in Nat /\ call.offset + k <= ClusterSize /\ l \in Nat
      /\ ClusterSize \in Nat /\ ClusterSize >= 1
  BY <1>2, <1>3, <1>4, ChunkFacts, SlotNumbers
<1>6. CASE l = 0
  <2>1. FinishWrite(0) /\ UNCHANGED data
    BY <1>4, <1>6 DEF WriteCluster
  <2>2. p + 0 <= Room(s)
    BY <1>1, SMT
  <2>3. \A j \in 1 .. Room(s) : ~(p < j /\ j <= p + 0)
    BY <1>1, SMT
  <2>4. Overlaid(s, p, 0)
    BY <2>1, <2>2, <2>3 DEF Overlaid
  <2> QED BY <1>4, <1>6, <2>1, <2>4
<1>7. CASE l # 0
  <2>1. /\ call.cluster \in Cluster /\ data' = [data EXCEPT ![call.cluster] = Patched(@)]
        /\ \/ call.done + k = l /\ FinishWrite(call.done + k)
           \/ /\ call.done + k # l /\ call' = [call EXCEPT !.op = "copy", !.done = @ + k]
              /\ UNCHANGED <<files, result>>
    BY <1>3, <1>4, <1>7, Zenon DEF WriteCluster
  <2>2. ChunkPut(s, p, k)
    BY <1>1, <1>2, <1>3, <2>1, ChunkStored
  <2>3. Overlaid(s, p, call.done + k)
    <3>1. p + call.done + k <= Room(s)
      BY <2>2 DEF ChunkPut
    <3>2. p + (call.done + k) <= Room(s)
      BY <1>1, <1>5, <3>1, SMT
    <3>3. ASSUME NEW j \in 1 .. Room(s)
          PROVE  ByteOf(data', s, j) = IF p < j /\ j <= p + (call.done + k) THEN call.buffer[j - p]
                                       ELSE ByteOf(data, s, j)
      <4>1. ByteOf(data', s, j) = IF p + call.done < j /\ j <= p + call.done + k
                                  THEN call.buffer[j - p] ELSE ByteOf(data, s, j)
        BY <2>2 DEF ChunkPut
      <4>2. /\ p + call.done < j /\ j <= p + call.done + k
               => p < j /\ j <= p + (call.done + k)
            /\ p < j /\ j <= p + (call.done + k) /\ ~(p + call.done < j)
               => j - p \in 1 .. call.done /\ p + (j - p) = j
            /\ j <= p + (call.done + k) => j <= p + call.done + k
        BY <1>1, <1>5, SMT
      <4>3. \A m \in 1 .. call.done : ByteOf(data, s, p + m) = call.buffer[m]
        BY <1>1, <1>2, Zenon DEF Written
      <4>4. CASE p < j /\ j <= p + (call.done + k) /\ ~(p + call.done < j)
        <5>1. ByteOf(data, s, j) = call.buffer[j - p]
          <6>1. PICK m : m = j - p
            OBVIOUS
          <6>2. m \in 1 .. call.done /\ p + m = j
            BY <4>2, <4>4, <6>1
          <6> QED BY <4>3, <6>1, <6>2
        <5> QED BY <4>1, <4>4, <5>1
      <4> QED BY <4>1, <4>2, <4>4
    <3> QED BY <3>2, <3>3 DEF Overlaid
  <2>4. CASE call.done + k = l /\ FinishWrite(call.done + k)
    BY <1>4, <2>3, <2>4
  <2>5. CASE /\ call.done + k # l /\ call' = [call EXCEPT !.op = "copy", !.done = @ + k]
             /\ UNCHANGED <<files, result>>
    <3>1. call.done + k \in call.done + 1 .. l - 1
      <4>1. k = ClusterSize - call.offset
        BY <1>3, <1>4, <1>5, <2>5, SMT DEF Chunk
      <4> QED BY <1>2, <1>5, <2>5, <4>1, SMT
    <3> QED BY <1>4, <2>3, <2>5, <3>1
  <2> QED BY <2>1, <2>4, <2>5
<1> QED BY <1>6, <1>7

LEMMA WriteClusterImplements ==
  ASSUME HandleInv, HandleInv', FilesApart, Aside, SizesCovered, InPlace, Written, WriteCluster
  PROVE  \E h \in Handles : Store!WritePart(h) \/ Store!EndWrite(h)
<1>1. call.op = "write" /\ UNCHANGED <<fat, slots>>
  BY DEF WriteCluster
<1>2. PICK h, n, f : OnWrite(h, n, f)
  BY <1>1, WritingStore
<1>3. PICK s : s = ChainIn(fat, files[h].first)
  OBVIOUS
<1>4. PICK p : p = files[h].pos
  OBVIOUS
<1>5. PICK z : z = files[h].size
  OBVIOUS
<1>6. /\ h = call.handle /\ h \in Handles /\ IsOpen(h) /\ OpenOn(h, n, f)
      /\ WriteInProgress = [name |-> n, buffer |-> call.buffer, done |-> call.done]
      /\ Len(s) \in Nat /\ z \in Nat /\ p \in Nat /\ p <= z /\ z <= Room(s)
  BY <1>2, <1>3, <1>4, <1>5 DEF OnWrite
<1>7. /\ f = Bytes(data, s, z) /\ f = [i \in 1 .. z |-> f[i]] /\ Len(f) = z
      /\ n # NoName /\ Store!File(h) = n /\ Contents[n] = f /\ Positions[h].pos = p
  <2>1. Positions[h] = [name |-> n, pos |-> files[h].pos]
    BY <1>6 DEF OpenOn
  <2>2. Positions[h].pos = p
    BY <1>4, <2>1
  <2> QED BY <1>3, <1>5, <1>6, <2>2 DEF OpenOn
<1>8. Elsewhere(files[h].slot) /\ call.slot = 0
  BY <1>1, <1>6, WriteClusterElsewhere, Types DEF Unlinking
<1>9. /\ WriteInProgress.name = n /\ WriteInProgress.buffer = call.buffer
      /\ WriteInProgress.done = call.done
  BY <1>6
<1>10. ASSUME FinishWrite(Len(call.buffer)), Overlaid(s, p, Len(call.buffer))
       PROVE  Store!EndWrite(h)
  <2>1. PICK d : d = Len(call.buffer)
    OBVIOUS
  <2>2. d \in Nat
    BY <1>1, <2>1, Types, BufferFacts DEF CallType
  <2>3. /\ \A g \in Handles : files'[g].slot = files[g].slot /\ files'[g].first = files[g].first
        /\ \A g \in Handles : g # h => files'[g] = files[g]
        /\ files'[h].pos = p + d
        /\ files'[h].size = Larger(p + d, z)
    <3>1. d <= Len(call.buffer) /\ FinishWrite(d)
      BY <1>10, <2>1, <2>2
    <3> QED BY <1>1, <1>4, <1>5, <1>6, <2>2, <3>1, FinishStep DEF Larger
  <2>4. EndCall /\ Return(TRUE)
    BY <1>10 DEF FinishWrite
  <2>5. call'.slot = call.slot /\ call'.op = "none"
    BY <1>8, <2>4, NoCallFacts
  <2>6. PICK y : y = Larger(p + d, z)
    OBVIOUS
  <2>7. PICK g : g = Store!Overlay(f, p, call.buffer, d)
    OBVIOUS
  <2>8. Bytes(data', s, y) = g
    <3>1. Overlays(s, p, d, z, f, y)
      BY <1>6, <1>7, <1>10, <2>1, <2>2, <2>6 DEF Overlays
    <3> QED BY <2>7, <3>1, OverlaidBytes
  <2>9. g = Bytes(data', ChainIn(fat', files'[h].first), files'[h].size)
    BY <1>1, <1>3, <1>6, <2>3, <2>6, <2>8
  <2>10. UNCHANGED slots /\ files'[h].slot = files[h].slot
    BY <1>1, <1>6, <2>3
  <2>11. Contents' = [Contents EXCEPT ![n] = g]
    BY <1>6, <1>8, <2>5, <2>9, <2>10, OwnStore
  <2>12. SavedSizes' = SavedSizes
    BY <1>1, <2>5, SameSizes
  <2>13. Positions' = [Positions EXCEPT ![h].pos = p + d]
    <3>1. \A i \in Handles : files'[i].slot = files[i].slot
      BY <2>3
    <3>2. \A i \in Handles : files'[i].pos = IF i = h THEN p + d ELSE files[i].pos
      BY <2>3
    <3>3. h \in Handles /\ IsOpen(h) /\ UNCHANGED slots
      BY <1>1, <1>6
    <3> QED BY ONLY <3>1, <3>2, <3>3, Moved
  <2>14. WriteInProgress' = Store!NotWriting
    BY <2>5, NoWriteIdle
  <2>15. Store!Returned(TRUE, <<>>, 0)
    BY <2>4, StoreReturned DEF Return
  <2>16. /\ Contents' = [Contents EXCEPT ![n] = Store!Overlay(@, p, call.buffer, d)]
         /\ Positions' = [Positions EXCEPT ![h].pos = @ + d]
    BY <1>7, <2>7, <2>11, <2>13
  <2> QED BY <1>7, <1>9, <2>1, <2>12, <2>14, <2>15, <2>16, Zenon DEF Store!EndWrite
<1>11. ASSUME NEW d \in call.done + 1 .. Len(call.buffer) - 1, files' = files, UNCHANGED result,
              call' = [call EXCEPT !.op = "copy", !.done = d], Overlaid(s, p, d)
       PROVE  Store!WritePart(h)
  <2>1. d \in Nat
    <3>1. call.done \in Nat /\ Len(call.buffer) \in Nat
      BY <1>1, Types, BufferFacts DEF CallType
    <3> QED BY <1>11, <3>1, SMT
  <2>2. /\ call'.slot = call.slot /\ call'.op = "copy" /\ call'.handle = h
        /\ call'.buffer = call.buffer /\ call'.done = d
    BY <1>6, <1>11, Types DEF CallType
  <2>3. PICK g : g = Store!Within(f, p, call.buffer, d)
    OBVIOUS
  <2>4. PICK y : y = Larger(p + d, z)
    OBVIOUS
  <2>5. Bytes(data', s, z) = g
    <3>1. Overlays(s, p, d, z, f, y)
      BY <1>6, <1>7, <1>11, <2>1, <2>4 DEF Overlays
    <3> QED BY <2>3, <3>1, OverlaidBytes
  <2>6. g = Bytes(data', ChainIn(fat', files'[h].first), files'[h].size)
    BY <1>1, <1>3, <1>5, <1>11, <2>5
  <2>7. UNCHANGED slots /\ files'[h].slot = files[h].slot
    BY <1>1, <1>11
  <2>8. Contents' = [Contents EXCEPT ![n] = g]
    BY <1>6, <1>8, <2>2, <2>6, <2>7, OwnStore
  <2>9. SavedSizes' = SavedSizes
    BY <1>1, <2>2, SameSizes
  <2>10. Positions' = Positions
    BY <1>1, <1>11, SamePositions
  <2>11. WriteInProgress' = [WriteInProgress EXCEPT !.done = d]
    <3>1. WriteInProgress' = [name |-> Positions'[call'.handle].name, buffer |-> call'.buffer,
                              done |-> call'.done]
      BY <2>2 DEF WriteInProgress
    <3>2. Positions'[h].name = n
      BY <1>7, <2>10 DEF Store!File
    <3> QED BY <1>6, <2>2, <3>1, <3>2
  <2>12. Contents' = [Contents EXCEPT ![n] = Store!Within(@, p, call.buffer, d)]
    BY <1>7, <2>3, <2>8
  <2> QED BY <1>7, <1>9, <1>11, <2>9, <2>10, <2>11, <2>12, Zenon DEF Store!WritePart
<1> QED BY <1>2, <1>3, <1>4, <1>6, <1>10, <1>11, WritePuts

LEMMA WriteFailsImplements ==
  ASSUME HandleInv, HandleInv', FilesApart, SizesCovered, WriteClusterFails, ~Fault
  PROVE  Store!FailWrite
<1>1. /\ call.op = "write" /\ UNCHANGED <<fat, data, slots, files>> /\ EndCall /\ Return(FALSE)
  BY DEF WriteClusterFails
<1>2. PICK h, n, f : OnWrite(h, n, f)
  BY <1>1, WritingStore
<1>3. call'.slot = call.slot
  BY <1>1, NoCallFacts, Types DEF Unlinking
<1>4. Contents' = Contents /\ SavedSizes' = SavedSizes /\ Positions' = Positions
  BY <1>1, <1>3, QuietStore, SamePositions
<1> QED BY <1>1, <1>2, <1>4, GivingUp

-----------------------------------------------------------------------------
(* f_truncate, f_unlink, and a crash.                                      *)

\* The clusters t are the first ones of s, and hold n bytes.
FrontOf(t, s, n) ==
  /\ Len(s) \in Nat /\ Len(t) \in Nat /\ Len(t) <= Len(s)
  /\ \A q \in 1 .. Len(t) : t[q] = s[q]
  /\ n <= Room(t)

\* What is in the first n bytes does not change when the rest is cut off.
LEMMA FrontBytes ==
  ASSUME NEW s, NEW t, NEW n \in Nat, FrontOf(t, s, n), NEW z \in Nat, n <= z, z <= Room(s),
         NEW d, NEW f, f = Bytes(d, s, z)
  PROVE  Bytes(d, t, n) = SubSeq(f, 1, n)
<1>1. /\ Len(s) \in Nat /\ Len(t) \in Nat /\ Len(t) <= Len(s) /\ n <= Room(t)
      /\ \A q \in 1 .. Len(t) : t[q] = s[q]
  BY DEF FrontOf
<1>2. f = [j \in 1 .. z |-> ByteOf(d, s, j)]
  BY BytesAre
<1>3. Bytes(d, t, n) = [j \in 1 .. n |-> ByteOf(d, t, j)]
  BY <1>1, BytesAre
<1>4. ASSUME NEW j \in 1 .. n PROVE ByteOf(d, t, j) = ByteOf(d, s, j)
  <2>1. Room(t) \in Nat /\ j \in Nat /\ j >= 1 /\ j <= Room(t)
    BY <1>1, RoomNumber, SMT
  <2>2. PICK p : p = (j - 1) \div ClusterSize
    OBVIOUS
  <2>3. p + 1 \in 1 .. Len(t)
    <3>1. ClusterSize \in Nat /\ ClusterSize >= 1 /\ j <= ClusterSize * Len(t)
      BY <2>1, SlotNumbers DEF Room
    <3> QED BY <1>1, <2>1, <2>2, <3>1, ByteAt
  <2> QED BY <1>1, <2>2, <2>3, Zenon DEF ByteOf
<1>5. \A j \in 1 .. n : j \in 1 .. z
  BY SMT
<1>6. f = [j \in 1 .. z |-> f[j]] /\ \A j \in 1 .. n : f[j] = ByteOf(d, s, j)
  BY <1>2, <1>5
<1>7. SubSeq(f, 1, n) = [j \in 1 .. n |-> f[j]]
  BY <1>6, FirstBytes
<1> QED BY <1>3, <1>4, <1>6, <1>7

\* f_truncate keeps the first clusters, enough for the position.
LEMMA TruncateCuts ==
  ASSUME HandleInv, HandleInv', FilesApart, SizesCovered, NEW h \in Handles, TruncateFile(h),
         faults' = 0, NEW s, s = ChainIn(fat, files[h].first),
         NEW t, t = ChainIn(fat', files'[h].first)
  PROVE  /\ call.op = "none" /\ IsOpen(h) /\ UNCHANGED <<data, slots, call>>
         /\ \/ Return(FALSE) /\ UNCHANGED <<fat, files>>
            \/ /\ Return(TRUE) /\ FrontOf(t, s, files[h].pos)
               /\ \A g \in Handles : files'[g].slot = files[g].slot /\ files'[g].pos = files[g].pos
               /\ files'[h].size = files[h].pos
<1> DEFINE c0 == files[h].first
           last == ClusterAt(c0, files[h].pos)
<1>1. ~Fault
  BY NoFaults
<1>2. /\ call.op = "none" /\ IsOpen(h) /\ UNCHANGED <<data, slots, call>>
      /\ \/ /\ fat' = Release(fat, c0) /\ files[h].pos = 0
            /\ files' = [files EXCEPT ![h].first = 0, ![h].size = 0]
            /\ Return(TRUE)
         \/ /\ fat' = CutAfter(last)
            /\ files' = [files EXCEPT ![h].size = files[h].pos]
            /\ Return(TRUE)
         \/ UNCHANGED <<fat, files>> /\ Return(FALSE)
  BY <1>1, Zenon DEF TruncateFile, Ready
<1>3. /\ files \in [Handles -> HandleType] /\ IsTable(fat) /\ Acyclic(fat)
      /\ files[h].pos \in Nat /\ files[h].size \in Nat /\ files[h].pos <= files[h].size
      /\ c0 \in Cluster \cup {0} /\ c0 \in Entry
  BY <1>2, Types, RoomType DEF FilesApart, HandleType, HandlesOK, HandlesMean, Unlinking
<1>4. Len(s) \in Nat
  BY <1>3, ChainType, LenProperties
<1>5. files[h].pos <= Room(s)
  <2>1. files[h].size <= Room(s)
    BY DEF SizesCovered, Capacity, Room
  <2>2. Room(s) \in Nat
    BY <1>4, RoomNumber
  <2> QED BY <1>3, <2>1, <2>2, SMT
<1>6. CASE /\ fat' = Release(fat, c0) /\ files[h].pos = 0 /\ Return(TRUE)
           /\ files' = [files EXCEPT ![h].first = 0, ![h].size = 0]
  <2>1. /\ \A g \in Handles : files'[g].slot = files[g].slot /\ files'[g].pos = files[g].pos
        /\ files'[h].size = 0 /\ files'[h].first = 0
    BY <1>3, <1>6 DEF HandleType
  <2>2. t = <<>>
    BY <2>1, TableNumbers, NoChain
  <2>3. Len(t) = 0
    BY <2>2
  <2>4. FrontOf(t, s, 0)
    BY <1>4, <2>3, SlotNumbers, SMT DEF FrontOf, Room
  <2> QED BY <1>2, <1>6, <2>1, <2>4
<1>7. CASE /\ fat' = CutAfter(last) /\ Return(TRUE)
           /\ files' = [files EXCEPT ![h].size = files[h].pos]
  <2>1. /\ \A g \in Handles : files'[g].slot = files[g].slot /\ files'[g].pos = files[g].pos
        /\ files'[h].size = files[h].pos /\ files'[h].first = c0
    BY <1>3, <1>7 DEF HandleType
  <2> HIDE DEF last
  <2>2. CASE last \in Cluster
    <3> DEFINE cut == [fat EXCEPT ![last] = EndOfChain]
               rest == Release(cut, NextIn(fat, last))
    <3>1. fat' = rest
      <4>1. IsValidCluster(last)
        BY <2>2, ValidEntry, TableNumbers
      <4> QED BY <1>7, <4>1 DEF CutAfter
    <3>2. /\ c0 \in Cluster
          /\ \E i \in 1 .. Len(ChainIn(fat, c0)) :
               last = ChainIn(fat, c0)[i] /\ files[h].pos <= ClusterSize * i
      BY <1>3, <2>2, ClusterAtFacts DEF last
    <3>3. PICK n : /\ n \in 1 .. Len(ChainIn(fat, c0)) /\ last = ChainIn(fat, c0)[n]
                   /\ files[h].pos <= ClusterSize * n
      BY <3>2
    <3>4. Changed(fat, cut, last, EndOfChain) /\ rest = Release(cut, NextIn(fat, last))
      BY <1>3, <2>2, TableNumbers DEF Changed, IsTable
    <3>5. t = ChainIn(fat', c0)
      BY <2>1
    <3>6. s = ChainIn(fat, c0)
      OBVIOUS
    <3> HIDE DEF c0, cut, rest
    <3>7. /\ Acyclic(rest) /\ ChainIn(rest, c0) = SubSeq(ChainIn(fat, c0), 1, n)
          /\ \A x \in FatIndex : x \notin OnChainIn(fat, c0) => rest[x] = fat[x]
      BY ONLY <1>3, <3>2, <3>3, <3>4, CutFacts
    <3>8. t = SubSeq(s, 1, n)
      BY <3>1, <3>5, <3>6, <3>7
    <3>9. Path(fat, s)
      <4>1. WalkEnds(fat, c0)
        BY <1>3, <3>2 DEF Acyclic
      <4> QED BY <3>6, <4>1, ChainOfWalk DEF Whole
    <3>10. Len(t) = n /\ \A q \in 1 .. n : t[q] = s[q]
      BY ONLY <3>3, <3>6, <3>8, <3>9, PathPieces
    <3>11. FrontOf(t, s, files[h].pos)
      BY <1>4, <3>3, <3>6, <3>10, Zenon, SMT DEF FrontOf, Room
    <3> QED BY <1>2, <1>7, <2>1, <3>11
  <2>3. CASE last \notin Cluster
    <3>1. last \in Entry
      BY <1>3, ClusterAtType DEF last
    <3>2. ~IsValidCluster(last)
      BY <2>3, <3>1, ValidEntry
    <3>3. UNCHANGED fat
      BY <1>7, <3>2 DEF CutAfter
    <3>4. t = s
      BY <2>1, <3>3
    <3>5. FrontOf(t, s, files[h].pos)
      BY <1>4, <1>5, <3>4, SMT DEF FrontOf
    <3> QED BY <1>2, <1>7, <2>1, <3>5
  <2> QED BY <2>2, <2>3
<1> HIDE DEF last
<1> QED BY <1>2, <1>6, <1>7

LEMMA TruncateImplements ==
  ASSUME HandleInv, HandleInv', FilesApart, SizesCovered, NEW h \in Handles, TruncateFile(h),
         faults' = 0
  PROVE  Store!Truncate(h) \/ Store!Nothing
<1>1. PICK s : s = ChainIn(fat, files[h].first)
  OBVIOUS
<1>2. PICK t : t = ChainIn(fat', files'[h].first)
  OBVIOUS
<1>3. /\ call.op = "none" /\ IsOpen(h) /\ UNCHANGED <<data, slots, call>>
      /\ \/ Return(FALSE) /\ UNCHANGED <<fat, files>>
         \/ /\ Return(TRUE) /\ FrontOf(t, s, files[h].pos)
            /\ \A g \in Handles : files'[g].slot = files[g].slot /\ files'[g].pos = files[g].pos
            /\ files'[h].size = files[h].pos
  BY <1>1, <1>2, TruncateCuts
<1>4. CASE UNCHANGED <<fat, files>> /\ Return(FALSE)
  BY <1>3, <1>4, QuietStore, SamePositions, NothingHappens
<1>5. CASE /\ Return(TRUE) /\ FrontOf(t, s, files[h].pos)
           /\ \A g \in Handles : files'[g].slot = files[g].slot /\ files'[g].pos = files[g].pos
           /\ files'[h].size = files[h].pos
  <2>1. PICK n : n = slots[files[h].slot].name
    OBVIOUS
  <2>2. PICK f : f = Content(n)
    OBVIOUS
  <2>3. OpenOn(h, n, f)
    BY <1>3, <2>1, <2>2, OpenStore
  <2>4. PICK p : p = files[h].pos
    OBVIOUS
  <2>5. PICK z : z = files[h].size
    OBVIOUS
  <2>6. PICK g : g = SubSeq(f, 1, p)
    OBVIOUS
  <2>7. p \in Nat /\ z \in Nat /\ p <= z /\ z <= Room(s)
    BY <1>1, <2>4, <2>5, RoomType DEF SizesCovered, Capacity, Room
  <2>8. f = Bytes(data, s, z) /\ FrontOf(t, s, p)
    BY <1>1, <1>5, <2>3, <2>4, <2>5 DEF OpenOn
  <2>9. Bytes(data, t, p) = g
    BY <2>6, <2>7, <2>8, FrontBytes
  <2>10. g = Bytes(data', ChainIn(fat', files'[h].first), files'[h].size)
    BY <1>2, <1>3, <1>5, <2>4, <2>9
  <2>11. Elsewhere(files[h].slot)
    BY TruncateElsewhere
  <2>12. Contents' = [Contents EXCEPT ![n] = g] /\ SavedSizes' = SavedSizes
    BY <1>3, <1>5, <2>3, <2>10, <2>11, OwnStore
  <2>13. Positions' = Positions
    BY <1>3, <1>5, SamePositions
  <2>14. /\ Store!File(h) = n /\ Store!Open(h) /\ Contents[n] = f /\ Positions[h].pos = p
    <3>1. Positions[h] = [name |-> n, pos |-> p]
      BY <2>3, <2>4 DEF OpenOn
    <3>2. Positions[h].pos = p
      BY <3>1
    <3> QED BY <2>3, <3>2 DEF OpenOn
  <2>15. Contents' = [Contents EXCEPT ![Store!File(h)] = SubSeq(@, 1, Positions[h].pos)]
    BY <2>6, <2>12, <2>14
  <2>16. Store!Idle /\ WriteInProgress' = WriteInProgress
    BY <1>3, NoWriteIdle DEF Store!Idle
  <2>17. Store!Returned(TRUE, <<>>, 0)
    BY <1>5, StoreReturned DEF Return
  <2> QED BY <2>12, <2>13, <2>14, <2>15, <2>16, <2>17, Zenon DEF Store!Truncate
<1> QED BY <1>3, <1>4, <1>5

\* The file is gone when its chain is freed,
LEMMA UnlinkImplements ==
  ASSUME HandleInv, HandleInv', FilesApart, NEW n \in Names, BeginUnlink(n)
  PROVE  Store!Unlink(n)
<1>1. PICK s0 : s0 = SlotOf(n)
  OBVIOUS
<1>2. /\ call.op = "none" /\ s0 # 0 /\ \A h \in Handles : files[h].slot # s0
      /\ UNCHANGED <<data, slots, files, result>>
      /\ call' = [NoCall EXCEPT !.op = "unlink", !.slot = s0]
  BY <1>1 DEF BeginUnlink, Ready
<1>3. s0 \in Slot /\ slots[s0].name = n /\ n # NoName
  BY <1>1, <1>2, SlotOfFacts, FileAssumption
<1>4. call.slot = 0 /\ call'.slot = s0 /\ call'.op = "unlink"
  BY <1>2, Types DEF NoCall, Unlinking
<1>5. Elsewhere(s0)
  BY <1>1, BeginUnlinkElsewhere
<1>6. SlotOf(n)' = s0 /\ ~Exists(n)' /\ Exists(n)
  <2>1. \A m \in Names : SlotOf(m)' = SlotOf(m)
    BY <1>2 DEF SlotOf
  <2>2. SlotOf(n)' = s0
    BY <1>1, <2>1
  <2> QED BY <1>1, <1>2, <1>4, <2>2 DEF Exists
<1>7. \A m \in Names : m # n => Content(m)' = Content(m)
  BY <1>2, <1>3, <1>5, OnlyOne
<1>8. Content(n)' = <<>>
  <2>1. HandleInv' => ContentShown'
    BY ContentIs, PTL
  <2> QED BY <1>6, <2>1 DEF ContentShown
<1>9. Contents' = [Contents EXCEPT ![n] = <<>>]
  <2>1. \A m \in Names : Contents'[m] = IF m = n THEN <<>> ELSE Contents[m]
    BY <1>7, <1>8, StoreValues
  <2> QED BY <2>1, StoreMaps
<1>10. ASSUME NEW m \in Names, m # n PROVE SavedSizes'[m] = SavedSizes[m]
  <2>1. SlotOf(m)' = SlotOf(m) /\ (SlotOf(m) # 0 => slots[SlotOf(m)].name = m)
    BY <1>2, <1>10, SlotOfFacts DEF SlotOf
  <2>2. SlotOf(m) # s0
    BY <1>2, <1>3, <1>10, <2>1
  <2>3. Exists(m)' <=> Exists(m)
    BY <1>4, <2>1, <2>2 DEF Exists
  <2> QED BY <1>2, <2>1, <2>3, StoreValues
<1>11. SavedSizes'[n] = -1 /\ SavedSizes[n] # -1
  <2>1. SavedSizes'[n] = -1
    BY <1>6, StoreValues
  <2>2. SavedSizes[n] = slots[s0].size
    BY <1>1, <1>6, StoreValues
  <2>3. slots[s0].size \in Nat
    <3>1. slots[s0].size \in 0 .. MaxSize
      BY <1>3, Types DEF HandlesOK
    <3> QED BY <3>1, SlotNumbers, SMT
  <2> QED BY <2>1, <2>2, <2>3, SMT
<1>12. SavedSizes' = [SavedSizes EXCEPT ![n] = -1]
  <2>1. \A m \in Names : SavedSizes'[m] = IF m = n THEN -1 ELSE SavedSizes[m]
    BY <1>10, <1>11
  <2> QED BY <2>1, StoreMaps
<1>13. Positions' = Positions
  BY <1>2, SamePositions
<1>14. \A h \in Handles : Store!File(h) # n
  <2> SUFFICES ASSUME NEW h \in Handles PROVE Positions[h].name # n
    BY DEF Store!File
  <2>1. CASE IsOpen(h)
    <3>1. Positions[h] = [name |-> slots[files[h].slot].name, pos |-> files[h].pos]
      BY <2>1, StoreValues
    <3>2. files[h].slot \in Slot
      BY <2>1, Types DEF IsOpen, HandleType
    <3>3. slots[files[h].slot].name # n
      BY <1>2, <1>3, <3>2 DEF HandleInv, NamesOnce
    <3> QED BY <3>1, <3>3
  <2>2. CASE ~IsOpen(h)
    <3>1. Positions[h] = [name |-> NoName, pos |-> 0]
      BY <2>2, StoreValues
    <3> QED BY <1>3, <3>1
  <2> QED BY <2>1, <2>2
<1>15. Store!Idle /\ WriteInProgress' = WriteInProgress
  BY <1>2, <1>4, NoWriteIdle DEF Store!Idle
<1> QED BY <1>2, <1>9, <1>11, <1>12, <1>13, <1>14, <1>15, Zenon DEF Store!Unlink

\* and clearing its entry afterwards changes nothing the program can see.
LEMMA EndUnlinkImplements ==
  ASSUME HandleInv, HandleInv', EndUnlink, faults' = 0
  PROVE  Store!Nothing
<1>1. PICK s0 : s0 = call.slot
  OBVIOUS
<1>2. /\ call.op = "unlink" /\ EndCall /\ UNCHANGED <<fat, data, files>>
      /\ slots' = [slots EXCEPT ![s0] = FreeSlot] /\ Return(TRUE)
  BY <1>1, NoFaults DEF EndUnlink
<1>3. /\ s0 \in Slot /\ slots[s0].name # NoName /\ \A h \in Handles : files[h].slot # s0
      /\ slots[s0].name \in Names
  BY <1>1, <1>2, Types DEF Unlinking, HandlesOK
<1>4. call'.slot = 0 /\ call'.op = "none"
  BY <1>2, NoCallFacts
<1>5. /\ \A s \in Slot : s # s0 => slots'[s] = slots[s]
      /\ slots'[s0].name = NoName
  BY <1>2, <1>3, Types DEF HandlesOK, FreeSlot
<1>6. Elsewhere(s0)
  BY <1>1, <1>2, <1>3, <1>4, <1>5, SlotNumbers DEF Elsewhere, ChainsKept
<1>7. PICK n : n = slots[s0].name
  OBVIOUS
<1>8. n \in Names /\ n # NoName /\ SlotOf(n) = s0 /\ ~Exists(n)
  BY <1>1, <1>3, <1>7, SlotOfName DEF HandleInv, Exists
<1>9. \A m \in Names : m # n => Content(m)' = Content(m)
  BY <1>5, <1>6, <1>7, OnlyOne, FileAssumption
<1>10. SlotOf(n)' = 0 /\ ~Exists(n)'
  <2>1. \A s \in Slot : slots'[s].name # n
    <3> SUFFICES ASSUME NEW s \in Slot PROVE slots'[s].name # n
      OBVIOUS
    <3>1. CASE s = s0
      BY <1>5, <1>8, <3>1
    <3>2. CASE s # s0
      <4>1. slots[s].name # slots[s0].name
        BY <1>3, <3>2 DEF HandleInv, NamesOnce
      <4> QED BY <1>5, <1>7, <3>2, <4>1
    <3> QED BY <3>1, <3>2
  <2> QED BY <2>1 DEF SlotOf, Exists
<1>11. Content(n)' = <<>> /\ Content(n) = <<>>
  <2>1. HandleInv' => ContentShown'
    BY ContentIs, PTL
  <2> QED BY <1>8, <1>10, <2>1, ContentIs DEF ContentShown
<1>12. Contents' = Contents
  BY <1>9, <1>11, SameContents
<1>13. ASSUME NEW m \in Names, m # n PROVE SavedSizes'[m] = SavedSizes[m]
  <2>1. \A s \in Slot : slots'[s].name = m <=> slots[s].name = m
    <3>1. m # NoName
      BY FileAssumption
    <3> QED BY <1>5, <1>7, <1>13, <3>1
  <2>2. SlotOf(m)' = SlotOf(m)
    BY <2>1 DEF SlotOf
  <2>3. SlotOf(m) \in Slot \cup {0} /\ (SlotOf(m) # 0 => slots[SlotOf(m)].name = m)
    BY SlotOfFacts
  <2>4. SlotOf(m) # s0
    BY <1>3, <1>7, <1>13, <2>3, SlotNumbers
  <2>5. Exists(m)' <=> Exists(m)
    BY <1>1, <1>4, <2>2, <2>3, <2>4, SlotNumbers DEF Exists
  <2>6. Exists(m) => slots'[SlotOf(m)'] = slots[SlotOf(m)]
    BY <1>5, <2>2, <2>3, <2>4 DEF Exists
  <2> QED BY <2>5, <2>6, StoreValues
<1>14. SavedSizes'[n] = -1 /\ SavedSizes[n] = -1
  BY <1>8, <1>10, StoreValues
<1>15. SavedSizes' = SavedSizes
  <2>1. \A m \in Names : SavedSizes'[m] = SavedSizes[m]
    BY <1>13, <1>14
  <2>2. /\ SavedSizes = [m \in Names |-> SavedSizes[m]]
        /\ SavedSizes' = [m \in Names |-> SavedSizes'[m]]
    BY DEF SavedSizes
  <2> QED BY <2>1, <2>2
<1>16. Positions' = Positions
  <2>1. \A h \in Handles : IsOpen(h) => slots'[files[h].slot].name = slots[files[h].slot].name
    <3> SUFFICES ASSUME NEW h \in Handles, IsOpen(h)
                 PROVE  slots'[files[h].slot].name = slots[files[h].slot].name
      OBVIOUS
    <3>1. files[h].slot \in Slot
      BY Types DEF IsOpen, HandleType
    <3> QED BY <1>3, <1>5, <3>1
  <2> QED BY <1>2, <2>1, SamePositions
<1> QED BY <1>2, <1>4, <1>12, <1>15, <1>16, NothingHappens

\* While nothing is truncated, no entry runs ahead of its handle.
Grows ==
  "truncate" \notin Calls =>
    \A h \in Handles : IsOpen(h) => slots[files[h].slot].size <= files[h].size

\* What the directory entry says of a file that is shown with c and z.
LEMMA EntryShort ==
  ASSUME HandleInv, SizesCovered, EntriesFollow, Grows,
         "truncate" \notin Calls \/ \A h \in Handles : ~IsOpen(h),
         NEW s \in Slot, s # call.slot, NEW c, NEW z, Shows(s, c, z),
         NEW e, e = slots[s].first, NEW y, y = slots[s].size
  PROVE  /\ c \in Cluster \cup {0} /\ e \in Cluster \cup {0} /\ y \in Nat /\ z \in Nat /\ y <= z
         /\ Fits(fat, z, c) /\ (e = c \/ y = 0)
<1>1. e \in Cluster \cup {0} /\ y \in Nat
  <2>1. e \in Cluster \cup {0} /\ y \in 0 .. MaxSize
    BY Types DEF HandlesOK
  <2> QED BY <2>1, SlotNumbers, SMT
<1>2. CASE \E h \in Handles : files[h].slot = s
  <2>1. PICK h \in Handles : files[h].slot = s /\ files[h].first = c /\ files[h].size = z
    BY <1>2 DEF Shows
  <2>2. IsOpen(h) /\ "truncate" \notin Calls
    BY <2>1, SlotNumbers DEF IsOpen
  <2>3. y <= z /\ e \in {0, c}
    BY <2>1, <2>2 DEF Grows, EntriesFollow
  <2>4. Fits(fat, z, c) /\ Fits(fat, y, e)
    BY <2>1, <2>2, SizesFit
  <2>5. c \in Cluster \cup {0} /\ z \in Nat
    BY <2>1, RoomType, Types DEF HandleType
  <2>6. e = c \/ y = 0
    BY <1>1, <2>3, <2>4, FitsNothing
  <2> QED BY <1>1, <2>3, <2>4, <2>5, <2>6
<1>3. CASE \A h \in Handles : files[h].slot # s
  <2>1. c = e /\ z = y
    BY <1>3 DEF Shows
  <2>2. Fits(fat, y, e)
    BY <1>3, SizesFit
  <2> QED BY <1>1, <2>1, <2>2
<1> QED BY <1>2, <1>3

LEMMA ShortBytes ==
  ASSUME HandleInv, NEW c \in Cluster \cup {0}, NEW e \in Cluster \cup {0},
         NEW y \in Nat, NEW z \in Nat, y <= z, Fits(fat, z, c), e = c \/ y = 0,
         NEW f, f = Bytes(data, ChainIn(fat, c), z)
  PROVE  Bytes(data, ChainIn(fat, e), y) = SubSeq(f, 1, Store!Smaller(y, Len(f)))
<1>1. PICK s : s = ChainIn(fat, c)
  OBVIOUS
<1>2. Len(s) \in Nat /\ z <= ClusterSize * Len(s) /\ f = Bytes(data, s, z)
  BY <1>1, Types, TableNumbers, ChainType, LenProperties DEF Fits
<1>3. f = [i \in 1 .. z |-> f[i]] /\ Len(f) = z
  <2>1. f = [i \in 1 .. z |-> f[i]]
    BY ONLY <1>2, z \in Nat, Zenon DEF Bytes
  <2> QED BY ONLY z \in Nat, <2>1, FunctionSequence
<1>4. Store!Smaller(y, Len(f)) = y
  BY <1>3, SMT DEF Store!Smaller
<1>5. CASE y = 0
  <2>1. Bytes(data, ChainIn(fat, e), 0) = <<>>
    BY Types, NoBytes
  <2>2. SubSeq(f, 1, 0) = [i \in 1 .. 0 |-> f[i]]
    BY <1>3, FirstBytes
  <2>3. SubSeq(f, 1, 0) = <<>>
    BY <2>2, SMT
  <2> QED BY <1>4, <1>5, <2>1, <2>3
<1>6. CASE e = c
  <2>1. z <= Room(s) /\ Room(s) \in Nat
    BY <1>2, RoomNumber DEF Room
  <2>2. FrontOf(s, s, y)
    BY <1>2, <2>1, SMT DEF FrontOf
  <2>3. Bytes(data, s, y) = SubSeq(f, 1, y)
    BY <1>2, <2>1, <2>2, FrontBytes
  <2> QED BY <1>1, <1>4, <1>6, <2>3
<1> QED BY <1>5, <1>6

\* After a crash the entries are the truth.
LEMMA RebootImplements ==
  ASSUME HandleInv, HandleInv', SizesCovered, EntriesFollow, Grows, Reboot, call.op # "unlink",
         "truncate" \notin Calls \/ \A h \in Handles : ~IsOpen(h)
  PROVE  Store!Crash
<1>1. /\ files' = [h \in Handles |-> ClosedFile] /\ EndCall /\ Return(TRUE)
      /\ UNCHANGED <<fat, data, slots>>
  BY DEF Reboot
<1>2. call.slot = 0 /\ call'.slot = 0 /\ call'.op = "none"
  BY <1>1, Types, NoCallFacts DEF Unlinking
<1>3. /\ SavedSizes' = SavedSizes
      /\ \A n : (Exists(n)' <=> Exists(n)) /\ SlotOf(n)' = SlotOf(n)
  BY <1>1, <1>2, SameSizes
<1>4. WriteInProgress' = Store!NotWriting
  BY <1>2, NoWriteIdle
<1>5. Positions' = [h \in Handles |-> Store!Closed]
  <2>1. \A h \in Handles : ~IsOpen(h)'
    BY <1>1 DEF IsOpen, ClosedFile
  <2>2. \A h \in Handles : Positions'[h] = Store!Closed
    BY <2>1, StoreValues DEF Store!Closed
  <2>3. Positions' = [h \in Handles |-> Positions'[h]]
    BY DEF Positions
  <2> QED BY <2>2, <2>3
<1>6. ASSUME NEW n \in Names
      PROVE  Content(n)' = SubSeq(Contents[n], 1, Store!Smaller(SavedSizes[n], Len(Contents[n])))
  <2>1. HandleInv' => ContentShown' /\ SlotsShown'
    BY ContentIs, SlotsShow, PTL
  <2>2. PICK f : f = Contents[n]
    OBVIOUS
  <2>3. f = Content(n)
    BY <2>2, StoreValues
  <2>4. CASE ~Exists(n)
    <3>1. Content(n) = <<>> /\ SavedSizes[n] = -1
      BY <2>4, ContentIs, StoreValues DEF ContentShown
    <3>2. Content(n)' = <<>>
      BY <1>3, <2>1, <2>4 DEF ContentShown
    <3>3. Store!Smaller(-1, Len(f)) = -1
      BY <2>3, <3>1, SMT DEF Store!Smaller
    <3>4. SubSeq(<<>>, 1, -1) = <<>>
      BY SMT
    <3> QED BY <2>2, <2>3, <3>1, <3>2, <3>3, <3>4
  <2>5. CASE Exists(n)
    <3>1. PICK s : s = SlotOf(n)
      OBVIOUS
    <3>2. PICK c : c = View(n).first
      OBVIOUS
    <3>3. PICK z : z = View(n).size
      OBVIOUS
    <3>4. s \in Slot /\ Shows(s, c, z) /\ slots[s].name = n /\ s # call.slot /\ n # NoName
      BY <2>5, <3>1, <3>2, <3>3, ViewShows, SlotOfFacts, FileAssumption DEF Exists
    <3>5. PICK e : e = slots[s].first
      OBVIOUS
    <3>6. PICK y : y = slots[s].size
      OBVIOUS
    <3>7. /\ c \in Cluster \cup {0} /\ e \in Cluster \cup {0} /\ y \in Nat /\ z \in Nat /\ y <= z
          /\ Fits(fat, z, c) /\ (e = c \/ y = 0)
      BY <3>4, <3>5, <3>6, EntryShort
    <3>8. f = Bytes(data, ChainIn(fat, c), z)
      BY <2>3, <3>4, SlotsShow DEF SlotsShown, Live
    <3>9. SavedSizes[n] = y
      BY <2>5, <3>1, <3>6, StoreValues
    <3>10. Bytes(data, ChainIn(fat, e), y) = SubSeq(f, 1, Store!Smaller(y, Len(f)))
      BY <3>7, <3>8, ShortBytes
    <3>11. Content(n)' = Bytes(data, ChainIn(fat, e), y)
      <4>1. (slots[s].name = n /\ Live(s) /\ Shows(s, e, y))'
        <5>1. slots'[s].name = n /\ Live(s)'
          BY <1>1, <1>2, <3>4, SlotNumbers DEF Live
        <5>2. \A h \in Handles : files'[h].slot # s
          BY <1>1, <3>4, SlotNumbers DEF ClosedFile
        <5>3. Shows(s, e, y)'
          BY <1>1, <3>5, <3>6, <5>2 DEF Shows
        <5> QED BY <5>1, <5>3
      <4>2. SlotsShown'
        BY <2>1
      <4>3. (Content(n) = Bytes(data, ChainIn(fat, e), y))'
        BY <3>4, <4>1, <4>2 DEF SlotsShown
      <4> QED BY <1>1, <4>3
    <3> QED BY <2>2, <3>9, <3>10, <3>11
  <2> QED BY <2>4, <2>5
<1>7. Contents' = [n \in Names |-> SubSeq(Contents[n], 1,
                                          Store!Smaller(SavedSizes[n], Len(Contents[n])))]
  <2>1. Contents' = [n \in Names |-> Content(n)']
    BY DEF Contents
  <2> QED BY <1>6, <2>1
<1>8. Store!Returned(TRUE, <<>>, 0)
  BY <1>1, StoreReturned DEF Return
<1> QED BY <1>3, <1>4, <1>5, <1>7, <1>8, Zenon DEF Store!Crash

LEMMA OpenOnSlot ==
  ASSUME HandleInv, NEW h \in Handles, IsOpen(h)
  PROVE  files[h].slot \in Slot
BY Types DEF IsOpen, HandleType

\* The size of a handle grows, or is the one of the entry.
LEMMA StillGrows ==
  ASSUME HandleInv, HandleInv', Grows,
         \A h \in Handles : IsOpen(h)' =>
           \/ slots'[files'[h].slot].size = files'[h].size
           \/ /\ files'[h].slot = files[h].slot /\ files[h].size <= files'[h].size
              /\ slots'[files[h].slot].size = slots[files[h].slot].size
  PROVE  Grows'
<1> SUFFICES ASSUME "truncate" \notin Calls, NEW h \in Handles, IsOpen(h)'
             PROVE  slots'[files'[h].slot].size <= files'[h].size
  BY DEF Grows
<1>1. files'[h].size \in Nat /\ files'[h].slot \in Slot
  <2>1. files'[h] \in [slot : Slot \cup {0}, first : Cluster \cup {0}, pos : 0 .. MaxSize,
                       size : 0 .. MaxSize]
    BY DEF HandleInv, FileTypeOK
  <2>2. files'[h].slot \in Slot \cup {0} /\ files'[h].size \in 0 .. MaxSize
    BY <2>1
  <2> QED BY <2>2, SlotNumbers, SMT DEF IsOpen
<1>2. CASE slots'[files'[h].slot].size = files'[h].size
  BY <1>1, <1>2, SMT
<1>3. CASE /\ files'[h].slot = files[h].slot /\ files[h].size <= files'[h].size
           /\ slots'[files[h].slot].size = slots[files[h].slot].size
  <2>1. IsOpen(h)
    BY <1>3 DEF IsOpen
  <2>2. slots[files[h].slot].size <= files[h].size
    BY <2>1 DEF Grows
  <2>3. files[h].size \in Nat /\ slots[files[h].slot].size \in Nat
    <3>1. files[h].slot \in Slot
      BY <2>1, OpenOnSlot
    <3>2. slots[files[h].slot].size \in 0 .. MaxSize
      BY <3>1, Types DEF HandlesOK
    <3> QED BY <3>2, RoomType, SlotNumbers, SMT
  <2> QED BY <1>1, <1>3, <2>2, <2>3, SMT
<1> QED BY <1>2, <1>3

LEMMA OpenGrows ==
  ASSUME HandleInv, HandleInv', Grows, NEW h \in Handles, NEW n \in Names, OpenFile(h, n)
  PROVE  Grows'
<1> DEFINE s0 == IF SlotOf(n) # 0 THEN SlotOf(n)
                 ELSE Least({t \in Slot : slots[t].name = NoName})
           entry == IF SlotOf(n) # 0 THEN slots[s0] ELSE [FreeSlot EXCEPT !.name = n]
           r == [slot |-> s0, first |-> entry.first, pos |-> 0, size |-> entry.size]
<1>1. slots' = [slots EXCEPT ![s0] = entry] /\ files' = [files EXCEPT ![h] = r]
  BY DEF OpenFile
<1>2. /\ s0 \in Slot
      /\ SlotOf(n) # 0 => entry = slots[s0]
      /\ SlotOf(n) = 0 => slots[s0].name = NoName
  <2>1. SlotOf(n) \in Slot \cup {0} /\ NamesOnce /\ FileTypeOK
    BY SlotOfFacts DEF HandleInv
  <2> QED BY <2>1, FreeSlotFound
<1>3. r.slot = s0 /\ r.size = entry.size
  OBVIOUS
<1> HIDE DEF s0, entry, r
<1>4. /\ \A s \in Slot : s # s0 => slots'[s] = slots[s]
      /\ slots'[s0] = entry
      /\ \A g \in Handles : g # h => files'[g] = files[g]
      /\ files'[h].slot = s0 /\ files'[h].size = entry.size
  BY <1>1, <1>2, <1>3, Types DEF HandlesOK
<1>5. ASSUME NEW g \in Handles, g # h, IsOpen(g)'
      PROVE  /\ files'[g].slot = files[g].slot /\ files[g].size <= files'[g].size
             /\ slots'[files[g].slot].size = slots[files[g].slot].size
  <2>1. files'[g] = files[g] /\ IsOpen(g)
    BY <1>4, <1>5 DEF IsOpen
  <2>2. slots'[files[g].slot] = slots[files[g].slot]
    <3>1. files[g].slot \in Slot /\ slots[files[g].slot].name # NoName
      BY <2>1, OpenLive, OpenOnSlot DEF Live
    <3>2. CASE files[g].slot # s0
      BY <1>4, <3>1, <3>2
    <3>3. CASE files[g].slot = s0
      BY <1>2, <1>4, <3>1, <3>3
    <3> QED BY <3>2, <3>3
  <2>3. files[g].size <= files[g].size
    BY RoomType, SMT
  <2> QED BY <2>1, <2>2, <2>3
<1>6. \A g \in Handles : IsOpen(g)' =>
        \/ slots'[files'[g].slot].size = files'[g].size
        \/ /\ files'[g].slot = files[g].slot /\ files[g].size <= files'[g].size
           /\ slots'[files[g].slot].size = slots[files[g].slot].size
  BY <1>4, <1>5
<1> QED BY <1>6, StillGrows

LEMMA CloseGrows ==
  ASSUME HandleInv, HandleInv', Grows, NEW h \in Handles, CloseFile(h) \/ SyncFile(h)
  PROVE  Grows'
<1>1. /\ IsOpen(h)
      /\ \/ UpdateEntry(h) /\ (files' = files \/ files' = [files EXCEPT ![h] = ClosedFile])
         \/ UNCHANGED <<slots, files>>
  BY Zenon DEF CloseFile, SyncFile, EntryFails
<1>2. ASSUME UNCHANGED <<slots, files>> PROVE Grows'
  BY <1>2 DEF Grows, IsOpen
<1>3. ASSUME UpdateEntry(h), files' = files \/ files' = [files EXCEPT ![h] = ClosedFile]
      PROVE  Grows'
  <2>1. /\ files[h].slot \in Slot /\ slots'[files[h].slot].size = files[h].size
        /\ \A s \in Slot : s # files[h].slot => slots'[s] = slots[s]
    BY <1>1, <1>3, Types, UpdateStep
  <2>2. \A g \in Handles : IsOpen(g)' => files'[g] = files[g]
    BY <1>3, Types DEF IsOpen, ClosedFile
  <2>3. \A g \in Handles : files[g].slot = files[h].slot => files[g].size = files[h].size
    <3> SUFFICES ASSUME NEW g \in Handles, files[g].slot = files[h].slot, g # h
                 PROVE  files[g].size = files[h].size
      OBVIOUS
    <3>1. PairsClean /\ IsOpen(g)
      BY <1>1 DEF HandleInv, IsOpen
    <3>2. ~Dirty(g) /\ ~Dirty(h)
      BY <1>1, <3>1 DEF PairsClean
    <3> QED BY <3>2 DEF Dirty
  <2>4. ASSUME NEW g \in Handles, IsOpen(g)'
        PROVE  \/ slots'[files'[g].slot].size = files'[g].size
               \/ /\ files'[g].slot = files[g].slot /\ files[g].size <= files'[g].size
                  /\ slots'[files[g].slot].size = slots[files[g].slot].size
    <3>1. files'[g] = files[g] /\ IsOpen(g)
      BY <2>2, <2>4 DEF IsOpen
    <3>2. files[g].slot \in Slot /\ files[g].size <= files[g].size
      BY <3>1, OpenOnSlot, RoomType, SMT
    <3>3. CASE files[g].slot = files[h].slot
      BY <2>1, <2>3, <3>1, <3>3
    <3>4. CASE files[g].slot # files[h].slot
      BY <2>1, <3>1, <3>2, <3>4
    <3> QED BY <3>3, <3>4
  <2> QED BY <2>4, StillGrows
<1> QED BY <1>1, <1>2, <1>3

LEMMA WriteGrows ==
  ASSUME HandleInv, HandleInv', Grows,
         \/ WalkToPosition \/ AdvanceWrite \/ WriteCluster \/ WriteClusterFails
         \/ \E h \in Handles, buffer \in Buffers : BeginWrite(h, buffer)
  PROVE  Grows'
<1>1. ASSUME UNCHANGED slots, \A g \in Handles : files'[g].slot = files[g].slot
                                                /\ files[g].size <= files'[g].size
      PROVE  Grows'
  BY <1>1, StillGrows
<1>2. \A g \in Handles : files[g].size \in Nat /\ files[g].size <= files[g].size
  BY RoomType, SMT
<1>3. ASSUME WalkToPosition \/ AdvanceWrite PROVE Grows'
  <2>1. UNCHANGED <<slots, files>>
    BY <1>3, WalkMoves
  <2> QED BY <1>1, <1>2, <2>1
<1>4. ASSUME WriteCluster \/ WriteClusterFails PROVE Grows'
  <2>1. /\ call.op = "write" /\ call.offset < ClusterSize /\ UNCHANGED slots
        /\ \/ \E n \in {0, call.done + Chunk} : FinishWrite(n)
           \/ files' = files
    BY <1>4 DEF WriteCluster, WriteClusterFails
  <2>2. CASE files' = files
    BY <1>1, <1>2, <2>1, <2>2
  <2>3. ASSUME NEW n \in {0, call.done + Chunk}, FinishWrite(n) PROVE Grows'
    <3>1. n \in Nat /\ n <= Len(call.buffer)
      BY <2>1, ChunkFacts, SMT
    <3>2. PICK h : h = call.handle
      OBVIOUS
    <3>3. /\ \A g \in Handles : files'[g].slot = files[g].slot
          /\ \A g \in Handles : g # h => files'[g] = files[g]
          /\ files'[h].size = IF files[h].pos + n > files[h].size THEN files[h].pos + n
                              ELSE files[h].size
      BY <2>1, <2>3, <3>1, <3>2, FinishStep
    <3>4. h \in Handles /\ files[h].pos \in Nat /\ files[h].size \in Nat
      BY <2>1, <3>2, RoomType, Types DEF Writing
    <3>5. files[h].size <= files'[h].size
      BY <3>1, <3>3, <3>4, SMT
    <3>6. \A g \in Handles : files'[g].slot = files[g].slot /\ files[g].size <= files'[g].size
      BY <1>2, <3>3, <3>5
    <3> QED BY <1>1, <2>1, <3>6
  <2> QED BY <2>1, <2>2, <2>3
<1>5. ASSUME NEW h \in Handles, NEW buffer \in Buffers, BeginWrite(h, buffer) PROVE Grows'
  <2>1. UNCHANGED slots /\ (files' = files \/ \E c : files' = [files EXCEPT ![h].first = c])
    BY <1>5 DEF BeginWrite
  <2>2. \A g \in Handles : files'[g].slot = files[g].slot /\ files'[g].size = files[g].size
    BY <2>1, Types DEF HandleType
  <2> QED BY <1>1, <1>2, <2>1, <2>2
<1> QED BY <1>3, <1>4, <1>5

LEMMA OtherGrows ==
  ASSUME HandleInv, HandleInv', Grows,
         \/ \E h \in Handles : TruncateFile(h)
         \/ \E h \in Handles, n \in Nat : ReadFile(h, n) \/ Seek(h, n)
         \/ \E h \in Handles, n \in Nat : \E k \in 0 .. n : Forward(h, n, k)
         \/ \E n \in Names : Stat(n) \/ BeginUnlink(n)
         \/ EndUnlink \/ Restart \/ Crash
  PROVE  Grows'
<1>1. ASSUME UNCHANGED slots, \A g \in Handles : files'[g].slot = files[g].slot
                                                /\ files[g].size = files'[g].size
      PROVE  Grows'
  <2>1. \A g \in Handles : files[g].size \in Nat /\ files[g].size <= files[g].size
    BY RoomType, SMT
  <2> QED BY <1>1, <2>1, StillGrows
<1>2. ASSUME NEW h \in Handles, TruncateFile(h) PROVE Grows'
  BY <1>2 DEF TruncateFile, Ready, Grows
<1>3. ASSUME \/ \E h \in Handles, n \in Nat : ReadFile(h, n) \/ Seek(h, n)
             \/ \E h \in Handles, n \in Nat : \E k \in 0 .. n : Forward(h, n, k)
             \/ \E n \in Names : Stat(n)
      PROVE  Grows'
  <2>1. /\ UNCHANGED slots
        /\ files' = files \/ \E h \in Handles, p \in Nat : files' = [files EXCEPT ![h].pos = p]
    BY <1>3, ReadMoves
  <2>2. \A g \in Handles : files'[g].slot = files[g].slot /\ files'[g].size = files[g].size
    BY <2>1, Types DEF HandleType
  <2> QED BY <1>1, <2>1, <2>2
<1>4. ASSUME NEW n \in Names, BeginUnlink(n) PROVE Grows'
  BY <1>1, <1>4 DEF BeginUnlink
<1>5. ASSUME EndUnlink PROVE Grows'
  <2>1. /\ call.op = "unlink" /\ UNCHANGED files
        /\ slots' = slots \/ slots' = [slots EXCEPT ![call.slot] = FreeSlot]
    BY <1>5 DEF EndUnlink
  <2>2. ASSUME NEW g \in Handles, IsOpen(g)'
        PROVE  /\ files'[g].slot = files[g].slot /\ files[g].size <= files'[g].size
               /\ slots'[files[g].slot].size = slots[files[g].slot].size
    <3>1. IsOpen(g) /\ files[g].slot # call.slot
      BY <2>1, <2>2, Types DEF Unlinking, IsOpen
    <3>2. slots'[files[g].slot] = slots[files[g].slot]
      BY <2>1, <3>1, OpenOnSlot, Types DEF HandlesOK
    <3>3. files[g].size <= files[g].size
      BY RoomType, SMT
    <3> QED BY <2>1, <3>2, <3>3
  <2> QED BY <2>2, StillGrows
<1>6. ASSUME Restart \/ Crash PROVE Grows'
  <2>1. files' = [h \in Handles |-> ClosedFile]
    BY <1>6 DEF Restart, Crash, Reboot
  <2> QED BY <2>1 DEF Grows, IsOpen, ClosedFile
<1> QED BY <1>2, <1>3, <1>4, <1>5, <1>6

-----------------------------------------------------------------------------
(* Every step is one of the store.                                         *)

\* What is known of a state from which no access has failed.
Sound ==
  HandleInv /\ FilesApart /\ SizesCovered /\ EntriesFollow /\ InPlace /\ Place /\ Aside
  /\ fat[1] \notin Cluster

KeptInv == FilesInv /\ CoveredInv /\ SideInv /\ PlaceInv

MoreInv == Clean => Written /\ Grows

LEMMA CleanSound == KeptInv /\ Clean => Sound
<1> SUFFICES ASSUME KeptInv, Clean PROVE Sound
  OBVIOUS
<1>1. ~tainted /\ Covered
  BY DEF KeptInv, CoveredInv
<1>2. SingleFailure
  BY DEF Clean, SingleFailure
<1> QED BY <1>1, <1>2 DEF KeptInv, Sound, FilesInv, SideInv, PlaceInv, Covered

LEMMA CleanStep ==
  ASSUME KeptInv, Next, Clean'
  PROVE  /\ Clean /\ Sound /\ ~Fault /\ faults' = 0
         /\ Crash => "truncate" \notin Calls /\ call.op # "unlink" /\ Reboot
<1>1. HandleInv /\ faults' = 0 /\ (crashes' = 0 \/ Calls \cap {"truncate", "unlink"} = {})
  BY DEF KeptInv, FilesInv, Clean
<1>2. faults \in Nat /\ crashes \in Nat
  BY <1>1, FaultCount, FileAssumption
<1>3. ~Fault
  BY <1>1, <1>2, SMT DEF Fault
<1>4. Clean
  <2>1. faults = 0
    BY <1>1, <1>3, NextCounts DEF Counts
  <2>2. crashes' = 0 => crashes = 0
    BY <1>2, NextCounts, SMT DEF Counts
  <2> QED BY <1>1, <2>1, <2>2 DEF Clean
<1>5. Sound
  BY <1>4, CleanSound
<1>6. ASSUME Crash PROVE "truncate" \notin Calls /\ call.op # "unlink" /\ Reboot
  <2>1. crashes' # 0 /\ Reboot
    BY <1>2, <1>6, SMT DEF Crash
  <2>2. "truncate" \notin Calls /\ "unlink" \notin Calls
    BY <1>1, <2>1
  <2> QED BY <1>5, <2>1, <2>2 DEF Sound, EntriesFollow
<1> QED BY <1>1, <1>3, <1>4, <1>5, <1>6

\* What f_write has stored stays stored, and no entry runs ahead.
LEMMA MoreNext == KeptInv /\ KeptInv' /\ MoreInv /\ [Next]_fileVars => MoreInv'
<1> SUFFICES ASSUME KeptInv, KeptInv', MoreInv, [Next]_fileVars, Clean'
             PROVE  Written' /\ Grows'
  BY DEF MoreInv
<1>1. CASE UNCHANGED fileVars
  <2>1. Clean
    BY <1>1 DEF Clean, fileVars
  <2>2. Written' <=> Written
    BY <1>1 DEF fileVars, Written
  <2>3. Grows' <=> Grows
    BY <1>1 DEF fileVars, Grows, IsOpen
  <2> QED BY <2>1, <2>2, <2>3 DEF MoreInv
<1>2. CASE Next
  <2>1. /\ Clean /\ ~Fault /\ faults' = 0
        /\ HandleInv /\ FilesApart /\ InPlace /\ Place /\ Aside /\ fat[1] \notin Cluster
    BY <1>2, CleanStep DEF Sound
  <2>2. Written /\ Grows
    BY <2>1 DEF MoreInv
  <2>3. HandleInv'
    BY DEF KeptInv, FilesInv
  <2>4. Written'
    <3>1. ASSUME NEW h \in Handles, NEW buffer \in Buffers, BeginWrite(h, buffer)
          PROVE  Written'
      <4>1. \/ call' = call /\ call.op = "none"
            \/ \E c, o : call' = [NoCall EXCEPT !.op = "write", !.handle = h, !.cluster = c,
                                    !.offset = o, !.buffer = buffer]
        BY <3>1 DEF BeginWrite, Ready
      <4>2. call'.op = "none" \/ call'.done = 0
        BY <4>1 DEF NoCall
      <4> QED BY <4>2, SMT DEF Written
    <3>2. WalkToPosition \/ AdvanceWrite => Written'
      BY <2>1, <2>2, <2>3, WalkWritten
    <3>3. WriteCluster \/ WriteClusterFails => Written'
      BY <2>1, <2>2, WriteClusterWritten
    <3>4. call'.op \notin {"write", "copy"} => Written'
      BY DEF Written
    <3> QED BY <1>2, <2>1, <3>1, <3>2, <3>3, <3>4, WritesFollow
  <2>5. Grows'
    <3>1. ASSUME NEW h \in Handles, NEW n \in Names, OpenFile(h, n) PROVE Grows'
      BY <2>1, <2>2, <2>3, <3>1, OpenGrows
    <3>2. ASSUME NEW h \in Handles, CloseFile(h) \/ SyncFile(h) PROVE Grows'
      BY <2>1, <2>2, <2>3, <3>2, CloseGrows
    <3>3. ASSUME NEW h \in Handles, NEW n \in Nat, Expand(h, n) PROVE Grows'
      <4>1. /\ UNCHANGED slots
            /\ \/ files' = files
               \/ \A g \in Handles : files'[g].slot = files[g].slot /\ files'[g].size = files[g].size
        BY <2>1, <2>3, <3>3, ExpandKeeps
      <4>2. \A g \in Handles : files[g].size \in Nat /\ files[g].size <= files[g].size
        BY <2>1, RoomType, SMT
      <4> QED BY <2>1, <2>2, <2>3, <4>1, <4>2, StillGrows
    <3>4. \/ WalkToPosition \/ AdvanceWrite \/ WriteCluster \/ WriteClusterFails
          \/ \E h \in Handles, buffer \in Buffers : BeginWrite(h, buffer)
          => Grows'
      BY <2>1, <2>2, <2>3, WriteGrows
    <3>5. \/ \E h \in Handles : TruncateFile(h)
          \/ \E h \in Handles, n \in Nat : ReadFile(h, n) \/ Seek(h, n)
          \/ \E h \in Handles, n \in Nat : \E k \in 0 .. n : Forward(h, n, k)
          \/ \E n \in Names : Stat(n) \/ BeginUnlink(n)
          \/ EndUnlink \/ Restart \/ Crash
          => Grows'
      BY <2>1, <2>2, <2>3, OtherGrows
    <3> QED BY <1>2, <3>1, <3>2, <3>3, <3>4, <3>5, NextCases, Zenon
  <2> QED BY <2>4, <2>5
<1> QED BY <1>1, <1>2

LEMMA StoreInit == Init => Store!Init
<1> SUFFICES ASSUME Init PROVE Store!Init
  OBVIOUS
<1>1. /\ slots = [s \in Slot |-> FreeSlot] /\ files = [h \in Handles |-> ClosedFile]
      /\ call = NoCall /\ result = [ok |-> TRUE, out |-> <<>>, asked |-> 0]
  BY DEF Init
<1>2. \A n \in Names : ~Exists(n)
  <2> SUFFICES ASSUME NEW n \in Names PROVE ~Exists(n)
    OBVIOUS
  <2>1. \A s \in Slot : slots[s].name # n
    BY <1>1, FileAssumption DEF FreeSlot
  <2> QED BY <2>1 DEF SlotOf, Exists
<1>3. Contents = [n \in Names |-> <<>>]
  BY <1>2 DEF Contents, Content
<1>4. SavedSizes = [n \in Names |-> -1]
  BY <1>2 DEF SavedSizes
<1>5. Positions = [h \in Handles |-> Store!Closed]
  <2>1. \A h \in Handles : ~IsOpen(h)
    BY <1>1 DEF IsOpen, ClosedFile
  <2> QED BY <2>1 DEF Positions, Store!Closed
<1>6. WriteInProgress = Store!NotWriting
  BY <1>1 DEF WriteInProgress, NoCall, Store!NotWriting
<1> QED BY <1>1, <1>3, <1>4, <1>5, <1>6 DEF Store!Init

StoreStays == UNCHANGED <<Contents, SavedSizes, Positions, WriteInProgress, result>>

\* One step of the program is one of the store or none.
LEMMA StoreStep ==
  ASSUME KeptInv, KeptInv', MoreInv, Next, Clean'
  PROVE  Store!Next \/ StoreStays
<1> DEFINE Goal == Store!Next \/ StoreStays
<1>1. /\ Clean /\ ~Fault /\ faults' = 0
      /\ HandleInv /\ FilesApart /\ InPlace /\ Place /\ Aside /\ fat[1] \notin Cluster
      /\ SizesCovered /\ EntriesFollow
  BY CleanStep DEF Sound
<1>2. Written /\ Grows /\ HandleInv'
  BY <1>1 DEF MoreInv, KeptInv, FilesInv
<1>3. ASSUME NEW h \in Handles, NEW n \in Names, OpenFile(h, n) PROVE Goal
  <2>1. Store!OpenFile(h, n)
    BY <1>1, <1>2, <1>3, OpenImplements
  <2> QED BY <2>1, Zenon DEF Store!Next
<1>4. ASSUME NEW h \in Handles, CloseFile(h) \/ SyncFile(h) PROVE Goal
  <2>1. Store!Close(h) \/ Store!Sync(h)
    BY <1>1, <1>2, <1>4, CloseImplements
  <2> QED BY <2>1, Zenon DEF Store!Next
<1>5. ASSUME NEW h \in Handles, TruncateFile(h) PROVE Goal
  <2>1. Store!Truncate(h) \/ Store!Nothing
    BY <1>1, <1>2, <1>5, TruncateImplements
  <2> QED BY <2>1, Zenon DEF Store!Next
<1>6. ASSUME NEW h \in Handles, NEW n \in Nat, ReadFile(h, n) \/ Seek(h, n) PROVE Goal
  <2>1. Store!Read(h) \/ Store!Seek(h)
    BY <1>1, <1>2, <1>6, ReadImplements, SeekImplements
  <2> QED BY <2>1, Zenon DEF Store!Next
<1>7. ASSUME NEW h \in Handles, NEW n \in Nat, NEW k \in 0 .. n, Forward(h, n, k) PROVE Goal
  <2>1. Store!Read(h)
    BY <1>1, <1>2, <1>7, ReadImplements
  <2> QED BY <2>1, Zenon DEF Store!Next
<1>8. ASSUME NEW h \in Handles, NEW n \in Nat, Expand(h, n) PROVE Goal
  <2>1. Store!Nothing
    BY <1>1, <1>2, <1>8, ExpandImplements
  <2> QED BY <2>1, Zenon DEF Store!Next
<1>9. ASSUME NEW h \in Handles, NEW buffer \in Buffers, BeginWrite(h, buffer) PROVE Goal
  <2>1. Store!BeginWrite(h) \/ Store!Nothing
    BY <1>1, <1>2, <1>9, BeginWriteImplements
  <2> QED BY <2>1, Zenon DEF Store!Next
<1>10. ASSUME NEW n \in Names, Stat(n) PROVE Goal
  <2>1. Store!Stat(n)
    BY <1>1, <1>2, <1>10, StatImplements
  <2> QED BY <2>1, Zenon DEF Store!Next
<1>11. ASSUME NEW n \in Names, BeginUnlink(n) PROVE Goal
  <2>1. Store!Unlink(n)
    BY <1>1, <1>2, <1>11, UnlinkImplements
  <2> QED BY <2>1, Zenon DEF Store!Next
<1>12. ASSUME WalkToPosition \/ AdvanceWrite PROVE Goal
  <2>1. Store!FailWrite \/ StoreStays
    BY <1>1, <1>2, <1>12, WalkImplements DEF StoreStays
  <2> QED BY <2>1, Zenon DEF Store!Next
<1>13. ASSUME WriteCluster \/ WriteClusterFails PROVE Goal
  <2>1. (\E h \in Handles : Store!WritePart(h) \/ Store!EndWrite(h)) \/ Store!FailWrite
    BY <1>1, <1>2, <1>13, WriteClusterImplements, WriteFailsImplements
  <2> QED BY <2>1, Zenon DEF Store!Next
<1>14. ASSUME EndUnlink PROVE Goal
  <2>1. Store!Nothing
    BY <1>1, <1>2, <1>14, EndUnlinkImplements
  <2> QED BY <2>1, Zenon DEF Store!Next
<1>15. ASSUME Restart \/ Crash PROVE Goal
  <2>1. /\ Reboot /\ call.op # "unlink"
        /\ "truncate" \notin Calls \/ \A h \in Handles : ~IsOpen(h)
    <3>1. CASE Restart
      BY <3>1 DEF Restart
    <3>2. CASE Crash
      BY <3>2, CleanStep
    <3> QED BY <1>15, <3>1, <3>2
  <2>2. Store!Crash
    BY <1>1, <1>2, <2>1, RebootImplements
  <2> QED BY <2>2, Zenon DEF Store!Next
<1> HIDE DEF Goal
<1>16. Goal
  BY <1>3, <1>4, <1>5, <1>6, <1>7, <1>8, <1>9, <1>10, <1>11, <1>12, <1>13, <1>14, <1>15,
     NextCases, Zenon
<1> QED BY <1>16 DEF Goal

\* For volumes and clusters of any size, any names, handles and buffers, the program
\* that opens, reads, writes, truncates and removes files through clusters and
\* directory entries sees byte sequences, as long as no access fails: a read returns
\* what was written last, a write stores its buffer at the position and nothing else,
\* an open handle's position and size stay in step, and a crash leaves every file its
\* bytes up to the length saved last (unless a chain was freed before its entry).
THEOREM FileImplementsStore == FileSpec => ImplementsFileStore
<1>1. Init => MoreInv
  BY SMT DEF Init, MoreInv, Written, Grows, NoCall, IsOpen, ClosedFile
<1>2. KeptInv /\ KeptInv' /\ MoreInv /\ [Next]_fileVars => MoreInv'
  BY MoreNext
<1>3. KeptInv /\ KeptInv' /\ MoreInv /\ [Next]_fileVars =>
        [Clean' => Store!Next]_<<Contents, SavedSizes, Positions, WriteInProgress, result>>
  <2> SUFFICES ASSUME KeptInv, KeptInv', MoreInv, [Next]_fileVars
               PROVE  (Clean' => Store!Next) \/ StoreStays
    BY DEF StoreStays
  <2>1. CASE UNCHANGED fileVars
    <3>1. Contents' = Contents /\ SavedSizes' = SavedSizes
      BY <2>1 DEF fileVars, Contents, Content, SavedSizes, Exists, SlotOf, Stored, BytesIn, View,
                  IsOpen
    <3>2. Positions' = Positions /\ WriteInProgress' = WriteInProgress
      BY <2>1 DEF fileVars, Positions, WriteInProgress, IsOpen
    <3> QED BY <2>1, <3>1, <3>2 DEF StoreStays, fileVars
  <2>2. CASE Next
    BY <2>2, StoreStep
  <2> QED BY <2>1, <2>2
<1>4. FileSpec => []KeptInv
  BY PlaceAlways DEF KeptInv
<1>5. FileSpec => Store!Init
  BY StoreInit, PTL DEF FileSpec
<1>6. FileSpec => [][Clean' => Store!Next]_<<Contents, SavedSizes, Positions, WriteInProgress, result>>
  BY <1>1, <1>2, <1>3, <1>4, PTL DEF FileSpec
<1> QED BY <1>5, <1>6 DEF ImplementsFileStore
=============================================================================

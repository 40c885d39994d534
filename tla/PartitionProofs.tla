--------------------------- MODULE PartitionProofs ---------------------------
(***************************************************************************)
(* For every disk, every size of the table, any partitions, failures and   *)
(* crashes: a call keeps the other entries of the primary table as long as *)
(* the backup lies behind it, a call that returns true leaves two valid    *)
(* copies of what it wrote, and a call that began with two valid copies    *)
(* leaves one that can be read, wherever it stops, but for the window the  *)
(* code leaves open.                                                       *)
(***************************************************************************)
EXTENDS PartitionManager, TLAPS

-----------------------------------------------------------------------------
(* The inductive invariant.                                                *)

Sizes ==
  /\ DOMAIN disk = Lba
  /\ DOMAIN call = {"op", "range", "index", "table"}
  /\ total \in 0 .. DiskSectors
  /\ pc \in Locations
  /\ pc = "backupheader" => total >= MinSectors

\* Every sector of the table, on disk and about to be written, holds entries.
Shape ==
  /\ \A k \in Offset : DOMAIN disk[EntriesStart + k].entries = 0 .. EntriesPerSector - 1
  /\ pc \in {"primary", "backup"} =>
       \A k \in Offset : DOMAIN call.table[k] = 0 .. EntriesPerSector - 1

\* The entries of the primary table are the call's but for the one it is about.
SameBut(table, i) ==
  \A k \in Offset, j \in 0 .. EntriesPerSector - 1 :
    <<k, j>> # i => table[k][j] = disk[EntriesStart + k].entries[j]

TableRead == pc = "primary" => SameBut(call.table, call.index)

\* What the writes of a call have put down, where the size leaves room for it.
Progress ==
  /\ pc = "backup" => HoldsTable(EntriesStart, call.table)
  /\ pc = "header" /\ total >= MinSectors =>
       HoldsTable(EntriesStart, call.table) /\ HoldsTable(BackupLba(total), call.table)
  /\ pc = "backupheader" =>
       /\ HoldsTable(EntriesStart, call.table) /\ HoldsTable(BackupLba(total), call.table)
       /\ disk[1] = HeaderSector(1, total - 1, EntriesStart, call.table)

PartInv == Sizes /\ Shape /\ TableRead /\ Progress /\ CopiesAgree

-----------------------------------------------------------------------------
(* Sectors.                                                                *)

LEMMA SizeFacts ==
  /\ EntrySectors \in Nat /\ EntrySectors >= 1
  /\ MinSectors \in Nat /\ MinSectors >= 2 * EntrySectors + 3
  /\ DiskSectors \in Nat /\ DiskSectors >= MinSectors
  /\ EntriesStart = 2
<1>1. EntrySectors >= 1 BY PartitionAssumption, SMT
<1> QED BY <1>1, PartitionAssumption DEF EntriesStart

LEMMA TableOnDisk == \A k \in Offset : EntriesStart + k \in Lba /\ EntriesStart + k \in 2 .. EntrySectors + 1
BY SizeFacts, SMT DEF Offset, Lba

\* A write of n sectors of the table from l on.
LEMMA SectorsWritten ==
  ASSUME NEW l \in Int, NEW n \in 0 .. EntrySectors, WriteEntries(l, n)
  PROVE  /\ DOMAIN disk' = Lba
         /\ \A s \in Lba : s \in l .. l + n - 1 =>
              disk'[s] = EntriesSector(call.table[s - l]) /\ s - l \in Offset
         /\ \A s \in Lba : s \notin l .. l + n - 1 => disk'[s] = disk[s]
<1>1. DOMAIN disk' = Lba BY DEF WriteEntries
<1>2. ASSUME NEW s \in Lba, s \in l .. l + n - 1
      PROVE  disk'[s] = EntriesSector(call.table[s - l]) /\ s - l \in Offset
  <2>1. disk'[s] = EntriesSector(call.table[s - l]) BY <1>2 DEF WriteEntries
  <2>2. s - l \in Offset BY <1>2, SizeFacts, SMT DEF Offset, Lba
  <2> QED BY <2>1, <2>2
<1>3. ASSUME NEW s \in Lba, s \notin l .. l + n - 1 PROVE disk'[s] = disk[s]
  BY <1>3 DEF WriteEntries
<1> QED BY <1>1, <1>2, <1>3

\* Such a write keeps the shape of the table, wherever it goes.
LEMMA ShapeWritten ==
  ASSUME Shape, pc \in {"primary", "backup"},
         NEW l \in Int, NEW n \in 0 .. EntrySectors, WriteEntries(l, n)
  PROVE  \A k \in Offset : DOMAIN disk'[EntriesStart + k].entries = 0 .. EntriesPerSector - 1
<1> SUFFICES ASSUME NEW k \in Offset
             PROVE  DOMAIN disk'[EntriesStart + k].entries = 0 .. EntriesPerSector - 1
  OBVIOUS
<1> DEFINE s == EntriesStart + k
<1>1. s \in Lba BY TableOnDisk
<1>2. CASE s \in l .. l + n - 1
  <2>1. disk'[s] = EntriesSector(call.table[s - l]) /\ s - l \in Offset
    BY <1>1, <1>2, SectorsWritten
  <2>2. disk'[s].entries = call.table[s - l] BY <2>1 DEF EntriesSector
  <2> QED BY <2>1, <2>2 DEF Shape
<1>3. CASE s \notin l .. l + n - 1
  <2>1. disk'[s] = disk[s] BY <1>1, <1>3, SectorsWritten
  <2> QED BY <2>1 DEF Shape
<1> QED BY <1>2, <1>3

\* A write of the whole table, inside the disk.
LEMMA TableWritten ==
  ASSUME NEW l \in Nat, l + EntrySectors <= DiskSectors, WriteEntries(l, EntrySectors)
  PROVE  \A k \in Offset : disk'[l + k] = EntriesSector(call.table[k])
<1> SUFFICES ASSUME NEW k \in Offset PROVE disk'[l + k] = EntriesSector(call.table[k])
  OBVIOUS
<1>1. l + k \in Lba /\ l + k \in l .. l + EntrySectors - 1 /\ (l + k) - l = k
  BY SizeFacts, SMT DEF Offset, Lba
<1>2. l \in Int /\ EntrySectors \in 0 .. EntrySectors BY SizeFacts, SMT
<1> QED BY <1>1, <1>2, SectorsWritten

\* With room for both headers and both tables, they lie apart.
LEMMA BackupPlace ==
  ASSUME total \in 0 .. DiskSectors, total >= MinSectors
  PROVE  /\ BackupLba(total) \in Nat /\ PlaceOf(BackupLba(total)) = BackupLba(total)
         /\ BackupLba(total) >= EntrySectors + 2
         /\ BackupLba(total) + EntrySectors = total - 1
         /\ total - 1 \in Lba /\ total - 1 > EntrySectors + 1
BY SizeFacts, SMT DEF BackupLba, PlaceOf, Lba
-----------------------------------------------------------------------------
(* One lemma per action.                                                   *)

\* What a step does to the entries of the primary table.
Keeps ==
  \A i \in Index : EntryAt(i)' # EntryAt(i) =>
    i = call.index \/ (pc = "backup" /\ ~Apart)

ShapeOnDisk ==
  \A k \in Offset : DOMAIN disk[EntriesStart + k].entries = 0 .. EntriesPerSector - 1

LEMMA SameTable ==
  ASSUME Shape, \A k \in Offset : disk'[EntriesStart + k] = disk[EntriesStart + k]
  PROVE  Keeps /\ ShapeOnDisk'
<1>1. Keeps
  <2> SUFFICES ASSUME NEW i \in Index PROVE EntryAt(i)' = EntryAt(i)
    BY DEF Keeps
  <2>1. i[1] \in Offset BY DEF Index
  <2> QED BY <2>1 DEF EntryAt
<1>2. ShapeOnDisk' BY DEF Shape, ShapeOnDisk
<1> QED BY <1>1, <1>2

\* A step after which no call is running and none has returned true.
LEMMA Stopped ==
  ASSUME DOMAIN disk' = Lba, DOMAIN call' = {"op", "range", "index", "table"},
         total' \in 0 .. DiskSectors, ShapeOnDisk',
         pc' = "idle", result' = FALSE
  PROVE  PartInv'
BY DEF PartInv, Sizes, Shape, ShapeOnDisk, TableRead, Progress, CopiesAgree, Locations

LEMMA BeginCreateStep ==
  ASSUME PartInv, NEW r \in Ranges, BeginCreate(r)
  PROVE  PartInv' /\ Keeps
<1>1. \A k \in Offset : disk'[EntriesStart + k] = disk[EntriesStart + k]
  <2> SUFFICES ASSUME NEW k \in Offset PROVE disk'[EntriesStart + k] = disk[EntriesStart + k]
    OBVIOUS
  <2>1. EntriesStart + k # 0 BY TableOnDisk, SizeFacts, SMT
  <2>2. EntriesStart + k \in DOMAIN disk BY TableOnDisk DEF PartInv, Sizes
  <2> QED BY <2>1, <2>2 DEF BeginCreate
<1>2. DOMAIN disk' = Lba BY DEF BeginCreate, PartInv, Sizes
<1>3. Keeps /\ ShapeOnDisk' BY <1>1, SameTable DEF PartInv
<1>4. total' \in 0 .. DiskSectors BY PartitionAssumption DEF BeginCreate
<1>5. DOMAIN call' = {"op", "range", "index", "table"} BY DEF BeginCreate, NoCall
<1>6. CASE pc' = "read"
  BY <1>2, <1>3, <1>4, <1>5, <1>6
     DEF PartInv, Sizes, Shape, ShapeOnDisk, TableRead, Progress, CopiesAgree, Locations
<1>7. CASE Return(FALSE)
  BY <1>2, <1>3, <1>4, <1>5, <1>7, Stopped DEF Return
<1> QED BY <1>3, <1>6, <1>7 DEF BeginCreate

\* The table read from the disk, with one entry replaced.
LEMMA TableOfCall ==
  ASSUME Shape, NEW a, NEW b, NEW e, NEW table,
         table = [TableAt(EntriesStart) EXCEPT ![a][b] = e]
  PROVE  /\ \A k \in Offset : DOMAIN table[k] = 0 .. EntriesPerSector - 1
         /\ SameBut(table, <<a, b>>)
<1>1. ASSUME NEW k \in Offset
      PROVE  table[k] = IF k = a THEN [disk[EntriesStart + k].entries EXCEPT ![b] = e]
                        ELSE disk[EntriesStart + k].entries
  BY DEF TableAt
<1>2. ASSUME NEW k \in Offset
      PROVE  DOMAIN disk[EntriesStart + k].entries = 0 .. EntriesPerSector - 1
  BY DEF Shape
<1>3. ASSUME NEW k \in Offset PROVE DOMAIN table[k] = 0 .. EntriesPerSector - 1
  <2> DEFINE old == disk[EntriesStart + k].entries
  <2>1. DOMAIN old = 0 .. EntriesPerSector - 1 BY <1>2
  <2>2. table[k] = [old EXCEPT ![b] = e] \/ table[k] = old BY <1>1
  <2> HIDE DEF old
  <2>3. DOMAIN [old EXCEPT ![b] = e] = DOMAIN old OBVIOUS
  <2> QED BY <2>1, <2>2, <2>3
<1>4. SameBut(table, <<a, b>>)
  <2> SUFFICES ASSUME NEW k \in Offset, NEW j \in 0 .. EntriesPerSector - 1, <<k, j>> # <<a, b>>
               PROVE  table[k][j] = disk[EntriesStart + k].entries[j]
    BY DEF SameBut
  <2> DEFINE old == disk[EntriesStart + k].entries
  <2>1. j \in DOMAIN old BY <1>2
  <2>2. \/ k = a /\ table[k] = [old EXCEPT ![b] = e]
        \/ k # a /\ table[k] = old
    BY <1>1
  <2> HIDE DEF old
  <2>3. k = a => j # b OBVIOUS
  <2>4. j # b => [old EXCEPT ![b] = e][j] = old[j] BY <2>1
  <2>5. table[k][j] = old[j] BY <2>2, <2>3, <2>4
  <2> QED BY <2>5 DEF old
<1> QED BY <1>3, <1>4

\* A step that leaves the disk and the size alone and has the table ready.
LEMMA TableReady ==
  ASSUME PartInv, UNCHANGED <<disk, total>>, pc' = "primary",
         DOMAIN call' = {"op", "range", "index", "table"}, NEW a, NEW b, NEW e,
         call'.index = <<a, b>>,
         call'.table = [TableAt(EntriesStart) EXCEPT ![a][b] = e]
  PROVE  PartInv' /\ Keeps
<1>1. Keeps /\ ShapeOnDisk' BY SameTable DEF PartInv
<1>2. /\ \A k \in Offset : DOMAIN call'.table[k] = 0 .. EntriesPerSector - 1
      /\ SameBut(call'.table, call'.index)
  <2> DEFINE new == [TableAt(EntriesStart) EXCEPT ![a][b] = e]
  <2>1. /\ \A k \in Offset : DOMAIN new[k] = 0 .. EntriesPerSector - 1
        /\ SameBut(new, <<a, b>>)
    BY TableOfCall DEF PartInv
  <2>2. call'.table = new OBVIOUS
  <2> HIDE DEF new
  <2> QED BY <2>1, <2>2
<1>3. Sizes' BY DEF PartInv, Sizes, Locations
<1>4. Shape' BY <1>1, <1>2 DEF Shape, ShapeOnDisk
<1>5. TableRead' BY <1>2 DEF TableRead, SameBut
<1>6. Progress' /\ CopiesAgree' BY DEF Progress, CopiesAgree
<1> QED BY <1>1, <1>3, <1>4, <1>5, <1>6 DEF PartInv

LEMMA ReadEntriesStep ==
  ASSUME PartInv, ReadEntries
  PROVE  PartInv' /\ Keeps
<1>1. disk' = disk /\ total' = total BY DEF ReadEntries
<1>2. CASE Return(FALSE) /\ UNCHANGED call
  <2>1. pc' = "idle" /\ result' = FALSE BY <1>2 DEF Return
  <2>2. Keeps /\ ShapeOnDisk' BY <1>1, SameTable DEF PartInv
  <2>3. Sizes BY DEF PartInv
  <2> QED BY <1>1, <1>2, <2>1, <2>2, <2>3, Stopped DEF Sizes
<1>3. ASSUME pc' = "primary",
        call' = [call EXCEPT
             !.index = AtIndex(count),
             !.table = [TableAt(EntriesStart) EXCEPT
                          ![AtIndex(count)[1]][AtIndex(count)[2]] = call.range]]
      PROVE  PartInv' /\ Keeps
  <2>1. DOMAIN call = {"op", "range", "index", "table"} BY DEF PartInv, Sizes
  <2>2. DOMAIN call' = {"op", "range", "index", "table"} BY <1>3, <2>1
  <2>3. call'.index = AtIndex(count) BY <1>3, <2>1
  <2>4. call'.table = [TableAt(EntriesStart) EXCEPT
                         ![AtIndex(count)[1]][AtIndex(count)[2]] = call.range]
    BY <1>3, <2>1
  <2>5. AtIndex(count) = <<AtIndex(count)[1], AtIndex(count)[2]>> BY DEF AtIndex
  <2> QED BY <1>1, <1>3, <2>2, <2>3, <2>4, <2>5, TableReady
<1> QED BY <1>2, <1>3 DEF ReadEntries

LEMMA BeginUpdateStep ==
  ASSUME PartInv, NEW i \in Index, NEW r \in Ranges, BeginUpdate(i, r)
  PROVE  PartInv' /\ Keeps
<1>1. i = <<i[1], i[2]>> BY DEF Index
<1>2. /\ DOMAIN call' = {"op", "range", "index", "table"}
      /\ call'.index = i
      /\ call'.table = [TableAt(EntriesStart) EXCEPT ![i[1]][i[2]] = EntryOf(r)]
  BY DEF BeginUpdate
<1>3. UNCHANGED <<disk, total>> /\ pc' = "primary" BY DEF BeginUpdate
<1> QED BY <1>1, <1>2, <1>3, TableReady

\* A write of the table that keeps its sectors apart from the primary entries, or
\* writes the primary entries.
LEMMA KeepsWritten ==
  ASSUME PartInv, NEW l \in Int, NEW n \in 0 .. EntrySectors, WriteEntries(l, n),
         \/ pc = "primary" /\ l = EntriesStart
         \/ pc = "backup" /\ (Apart => l > EntrySectors + 1)
  PROVE  Keeps
<1> SUFFICES ASSUME NEW i \in Index, i # call.index, ~(pc = "backup" /\ ~Apart)
             PROVE  EntryAt(i)' = EntryAt(i)
  BY DEF Keeps
<1> DEFINE k == i[1]
           s == EntriesStart + k
<1>1. /\ k \in Offset /\ i[2] \in 0 .. EntriesPerSector - 1
      /\ i = <<k, i[2]>>
  BY DEF Index
<1>2. s \in Lba /\ s \in 2 .. EntrySectors + 1 BY <1>1, TableOnDisk
<1>3. CASE s \notin l .. l + n - 1
  <2>1. disk'[s] = disk[s] BY <1>2, <1>3, SectorsWritten
  <2> QED BY <2>1 DEF EntryAt
<1>4. CASE s \in l .. l + n - 1
  <2>1. ~(l > EntrySectors + 1) BY <1>2, <1>4, SizeFacts, SMT
  <2>2. pc = "primary" /\ l = EntriesStart BY <2>1
  <2>3. disk'[s] = EntriesSector(call.table[s - l]) BY <1>2, <1>4, SectorsWritten
  <2>4. s - l = k BY <1>1, <2>2, SizeFacts, SMT DEF Offset
  <2>5. call.table[k][i[2]] = disk[s].entries[i[2]]
    BY <1>1, <2>2 DEF PartInv, TableRead, SameBut
  <2>6. disk'[s].entries = call.table[k] BY <2>3, <2>4 DEF EntriesSector
  <2> QED BY <2>5, <2>6 DEF EntryAt
<1> QED BY <1>3, <1>4

LEMMA WriteSizes ==
  EntrySectors \in 0 .. EntrySectors /\ \A n \in Partial : n \in 0 .. EntrySectors
BY SizeFacts, SMT DEF Partial

LEMMA WritePrimaryStep ==
  ASSUME PartInv, WritePrimary
  PROVE  PartInv' /\ Keeps
<1>1. PICK n \in 0 .. EntrySectors :
        /\ WriteEntries(EntriesStart, n)
        /\ \/ n = EntrySectors /\ pc' = "backup"
           \/ Return(FALSE)
  BY WriteSizes, Zenon DEF WritePrimary
<1>2. pc = "primary" /\ UNCHANGED <<total, call>> BY DEF WritePrimary
<1>3. EntriesStart \in Int BY SizeFacts
<1>4. Keeps BY <1>1, <1>2, <1>3, KeepsWritten
<1>5. ShapeOnDisk' BY <1>1, <1>2, <1>3, ShapeWritten DEF PartInv, ShapeOnDisk
<1>6. DOMAIN disk' = Lba BY <1>1, <1>3, SectorsWritten
<1>7. CASE Return(FALSE)
  <2>1. pc' = "idle" /\ result' = FALSE BY <1>7 DEF Return
  <2>2. Sizes BY DEF PartInv
  <2> QED BY <1>2, <1>4, <1>5, <1>6, <2>1, <2>2, Stopped DEF Sizes
<1>8. CASE n = EntrySectors /\ pc' = "backup"
  <2>1. EntriesStart \in Nat /\ EntriesStart + EntrySectors <= DiskSectors
    BY SizeFacts, SMT
  <2>2. \A k \in Offset : disk'[EntriesStart + k] = EntriesSector(call.table[k])
    BY <1>1, <1>8, <2>1, TableWritten
  <2>3. Progress' BY <1>2, <1>8, <2>2 DEF Progress, HoldsTable
  <2>4. Sizes' BY <1>2, <1>6, <1>8 DEF PartInv, Sizes, Locations
  <2>5. Shape' BY <1>2, <1>5, <1>8 DEF PartInv, Shape, ShapeOnDisk
  <2>6. TableRead' /\ CopiesAgree' BY <1>8 DEF TableRead, CopiesAgree
  <2> QED BY <1>4, <2>3, <2>4, <2>5, <2>6 DEF PartInv
<1> QED BY <1>1, <1>7, <1>8

LEMMA BackupApart ==
  ASSUME PartInv
  PROVE  /\ PlaceOf(BackupLba(total)) \in Int
         /\ Apart => PlaceOf(BackupLba(total)) > EntrySectors + 1
<1>1. total \in 0 .. DiskSectors BY DEF PartInv, Sizes
<1> QED BY <1>1, SizeFacts, SMT DEF Apart, PlaceOf, BackupLba

LEMMA WriteBackupStep ==
  ASSUME PartInv, WriteBackup
  PROVE  PartInv' /\ Keeps
<1> DEFINE l == PlaceOf(BackupLba(total))
<1>1. PICK n \in 0 .. EntrySectors :
        /\ WriteEntries(l, n)
        /\ \/ n = EntrySectors /\ pc' = "header" /\ UNCHANGED result
           \/ Return(FALSE)
  BY WriteSizes, Zenon DEF WriteBackup
<1>2. pc = "backup" /\ UNCHANGED <<total, call>> BY DEF WriteBackup
<1>3. l \in Int /\ (Apart => l > EntrySectors + 1) BY BackupApart
<1> HIDE DEF l
<1>4. Keeps BY <1>1, <1>2, <1>3, KeepsWritten
<1>5. ShapeOnDisk' BY <1>1, <1>2, <1>3, ShapeWritten DEF PartInv, ShapeOnDisk
<1>6. DOMAIN disk' = Lba BY <1>1, <1>3, SectorsWritten
<1>7. CASE Return(FALSE)
  <2>1. pc' = "idle" /\ result' = FALSE BY <1>7 DEF Return
  <2>2. Sizes BY DEF PartInv
  <2> QED BY <1>2, <1>4, <1>5, <1>6, <2>1, <2>2, Stopped DEF Sizes
<1>8. CASE n = EntrySectors /\ pc' = "header"
  <2>1. ASSUME total >= MinSectors
        PROVE  HoldsTable(EntriesStart, call.table)' /\ HoldsTable(BackupLba(total), call.table)'
    <3>1. total \in 0 .. DiskSectors BY DEF PartInv, Sizes
    <3>2. /\ l = BackupLba(total) /\ l \in Nat /\ l >= EntrySectors + 2
          /\ l + EntrySectors = total - 1
      BY <2>1, <3>1, BackupPlace DEF l
    <3>3. l + EntrySectors <= DiskSectors BY <3>1, <3>2, SizeFacts, SMT
    <3>4. \A k \in Offset : disk'[l + k] = EntriesSector(call.table[k])
      BY <1>1, <1>8, <3>2, <3>3, TableWritten
    <3>5. ASSUME NEW k \in Offset PROVE disk'[EntriesStart + k] = EntriesSector(call.table[k])
      <4>1. EntriesStart + k \in Lba /\ EntriesStart + k \in 2 .. EntrySectors + 1
        BY TableOnDisk
      <4>2. EntriesStart + k \notin l .. l + n - 1 BY <3>2, <4>1, SizeFacts, SMT
      <4>3. disk'[EntriesStart + k] = disk[EntriesStart + k]
        BY <1>1, <1>3, <4>1, <4>2, SectorsWritten
      <4> QED BY <1>2, <4>3 DEF PartInv, Progress, HoldsTable
    <3> QED BY <1>2, <3>2, <3>4, <3>5 DEF HoldsTable
  <2>2. Progress' BY <1>2, <1>8, <2>1 DEF Progress
  <2>3. Sizes' BY <1>2, <1>6, <1>8 DEF PartInv, Sizes, Locations
  <2>4. Shape' BY <1>2, <1>5, <1>8 DEF PartInv, Shape, ShapeOnDisk
  <2>5. TableRead' /\ CopiesAgree' BY <1>8 DEF TableRead, CopiesAgree
  <2> QED BY <1>4, <2>2, <2>3, <2>4, <2>5 DEF PartInv
<1> QED BY <1>1, <1>7, <1>8

\* A step that changes no sector of the primary entries and stops.
LEMMA StopsApart ==
  ASSUME PartInv, UNCHANGED call, total' \in 0 .. DiskSectors, DOMAIN disk' = Lba,
         \A k \in Offset : disk'[EntriesStart + k] = disk[EntriesStart + k],
         pc' = "idle", result' = FALSE
  PROVE  PartInv' /\ Keeps
<1>1. Keeps /\ ShapeOnDisk' BY SameTable DEF PartInv
<1>2. DOMAIN call' = {"op", "range", "index", "table"} BY DEF PartInv, Sizes
<1> QED BY <1>1, <1>2, Stopped

LEMMA WriteHeaderStep ==
  ASSUME PartInv, WriteHeader
  PROVE  PartInv' /\ Keeps
<1>1. pc = "header" /\ UNCHANGED <<total, call>> BY DEF WriteHeader
<1>2. Sizes BY DEF PartInv
<1>3. CASE Return(FALSE) /\ UNCHANGED disk
  <2>1. pc' = "idle" /\ result' = FALSE BY <1>3 DEF Return
  <2> QED BY <1>1, <1>2, <1>3, <2>1, StopsApart DEF Sizes
<1>4. ASSUME total >= MinSectors, pc' = "backupheader",
             disk' = [disk EXCEPT ![1] = HeaderSector(1, total - 1, EntriesStart, call.table)]
      PROVE  PartInv' /\ Keeps
  <2>1. total \in 0 .. DiskSectors /\ DOMAIN disk = Lba BY <1>2 DEF Sizes
  <2>2. BackupLba(total) \in Nat /\ BackupLba(total) >= EntrySectors + 2
        /\ BackupLba(total) + EntrySectors = total - 1
    BY <1>4, <2>1, BackupPlace
  <2>3. \A s \in Lba : s # 1 => disk'[s] = disk[s] BY <1>4, <2>1
  <2>4. DOMAIN disk' = Lba BY <1>4, <2>1
  <2>5. 1 \in Lba BY SizeFacts, SMT DEF Lba
  <2>6. disk'[1] = HeaderSector(1, total - 1, EntriesStart, call.table)
    BY <1>4, <2>1, <2>5
  <2>7. ASSUME NEW k \in Offset PROVE disk'[EntriesStart + k] = disk[EntriesStart + k]
    <3>1. EntriesStart + k \in Lba /\ EntriesStart + k # 1 BY TableOnDisk, SizeFacts, SMT
    <3> QED BY <2>3, <3>1
  <2>8. ASSUME NEW k \in Offset PROVE disk'[BackupLba(total) + k] = disk[BackupLba(total) + k]
    <3>1. BackupLba(total) + k \in Lba /\ BackupLba(total) + k # 1
      BY <2>1, <2>2, SizeFacts, SMT DEF Offset, Lba
    <3> QED BY <2>3, <3>1
  <2>9. Keeps /\ ShapeOnDisk' BY <2>7, SameTable DEF PartInv
  <2>10. Sizes' BY <1>1, <1>2, <1>4, <2>4 DEF Sizes, Locations
  <2>11. Shape' BY <1>4, <2>9 DEF Shape, ShapeOnDisk
  <2>12. HoldsTable(EntriesStart, call.table) /\ HoldsTable(BackupLba(total), call.table)
    BY <1>1, <1>4 DEF PartInv, Progress
  <2>13. HoldsTable(EntriesStart, call.table)' /\ HoldsTable(BackupLba(total), call.table)'
    BY <1>1, <2>7, <2>8, <2>12 DEF HoldsTable
  <2>14. Progress' BY <1>1, <1>4, <2>6, <2>13 DEF Progress
  <2>15. TableRead' /\ CopiesAgree' BY <1>4 DEF TableRead, CopiesAgree
  <2> QED BY <2>9, <2>10, <2>11, <2>14, <2>15 DEF PartInv
<1> QED BY <1>3, <1>4 DEF WriteHeader

LEMMA WriteBackupHeaderStep ==
  ASSUME PartInv, WriteBackupHeader
  PROVE  PartInv' /\ Keeps
<1>1. pc = "backupheader" /\ UNCHANGED <<total, call>> BY DEF WriteBackupHeader
<1>2. Sizes BY DEF PartInv
<1>3. CASE Return(FALSE) /\ UNCHANGED disk
  <2>1. pc' = "idle" /\ result' = FALSE BY <1>3 DEF Return
  <2> QED BY <1>1, <1>2, <1>3, <2>1, StopsApart DEF Sizes
<1>4. ASSUME pc' = "idle",
             disk' = [disk EXCEPT ![total - 1] =
               HeaderSector(total - 1, 1, total - EntrySectors - 1, call.table)]
      PROVE  PartInv' /\ Keeps
  <2> DEFINE b == total - 1
             t == call.table
  <2>1. total \in 0 .. DiskSectors /\ total >= MinSectors /\ DOMAIN disk = Lba
    BY <1>1, <1>2 DEF Sizes
  <2>2. /\ BackupLba(total) \in Nat /\ BackupLba(total) >= EntrySectors + 2
        /\ BackupLba(total) + EntrySectors = b
        /\ b \in Lba /\ b > EntrySectors + 1
    BY <2>1, BackupPlace
  <2>3. \A s \in Lba : s # b => disk'[s] = disk[s] BY <1>4, <2>1
  <2>4. DOMAIN disk' = Lba BY <1>4, <2>1
  <2>5. disk'[b] = HeaderSector(b, 1, BackupLba(total), t)
    BY <1>4, <2>1, <2>2 DEF BackupLba
  <2>6. ASSUME NEW k \in Offset PROVE disk'[EntriesStart + k] = disk[EntriesStart + k]
    <3>1. EntriesStart + k \in Lba /\ EntriesStart + k # b
      BY <2>2, TableOnDisk, SizeFacts, SMT
    <3> QED BY <2>3, <3>1
  <2>7. ASSUME NEW k \in Offset PROVE disk'[BackupLba(total) + k] = disk[BackupLba(total) + k]
    <3>1. BackupLba(total) + k \in Lba /\ BackupLba(total) + k # b
      BY <2>1, <2>2, SizeFacts, SMT DEF Offset, Lba
    <3> QED BY <2>3, <3>1
  <2>8. 1 \in Lba /\ 1 # b BY <2>2, SizeFacts, SMT DEF Lba
  <2>9. disk'[1] = HeaderSector(1, b, EntriesStart, t)
    <3>1. disk'[1] = disk[1] BY <2>3, <2>8
    <3> QED BY <1>1, <3>1 DEF PartInv, Progress
  <2>10. \A k \in Offset : disk'[EntriesStart + k] = EntriesSector(t[k])
    BY <1>1, <2>6 DEF PartInv, Progress, HoldsTable
  <2>11. \A k \in Offset : disk'[BackupLba(total) + k] = EntriesSector(t[k])
    BY <1>1, <2>7 DEF PartInv, Progress, HoldsTable
  <2>12. Keeps /\ ShapeOnDisk' BY <2>6, SameTable DEF PartInv
  <2>13. Sizes' BY <1>1, <1>2, <1>4, <2>4 DEF Sizes, Locations
  <2>14. Shape' /\ TableRead' /\ Progress'
    BY <1>4, <2>12 DEF Shape, ShapeOnDisk, TableRead, Progress
  <2> HIDE DEF b, t
  <2>15. /\ disk'[1].kind = "header" /\ disk'[1].at = 1 /\ disk'[1].other = b
         /\ disk'[1].entries = EntriesStart /\ disk'[1].crc = t
    BY <2>9 DEF HeaderSector
  <2>16. /\ disk'[b].kind = "header" /\ disk'[b].at = b
         /\ disk'[b].entries = BackupLba(total) /\ disk'[b].crc = t
    BY <2>5 DEF HeaderSector
  <2>17. Valid(1)' BY <2>8, <2>10, <2>15 DEF Valid, IsHeader, HoldsTable
  <2>18. Valid(disk[1].other)' BY <2>2, <2>11, <2>15, <2>16 DEF Valid, IsHeader, HoldsTable
  <2>19. BothValid' BY <2>8, <2>15, <2>16, <2>17, <2>18 DEF BothValid, BackupValid, IsHeader
  <2>20. CopiesAgree' BY <1>1, <2>15, <2>19 DEF CopiesAgree, t
  <2> QED BY <2>12, <2>13, <2>14, <2>20 DEF PartInv
<1> QED BY <1>3, <1>4 DEF WriteBackupHeader, Return

LEMMA RestartStep ==
  ASSUME PartInv, Restart
  PROVE  PartInv' /\ Keeps
<1>1. UNCHANGED <<disk, call>> /\ total' = 0 /\ pc' = "idle" /\ result' = FALSE
  BY DEF Restart, Reboot, Return
<1>2. total' \in 0 .. DiskSectors BY <1>1, SizeFacts, SMT
<1>3. Sizes BY DEF PartInv
<1> QED BY <1>1, <1>2, <1>3, StopsApart DEF Sizes

LEMMA CrashStep ==
  ASSUME PartInv, Crash
  PROVE  PartInv' /\ Keeps
<1>1. UNCHANGED call /\ total' = 0 /\ pc' = "idle" /\ result' = FALSE
  BY DEF Crash, Reboot, Return
<1>2. total' \in 0 .. DiskSectors BY <1>1, SizeFacts, SMT
<1>3. Sizes BY DEF PartInv
<1>4. CASE UNCHANGED disk
  BY <1>1, <1>2, <1>3, <1>4, StopsApart DEF Sizes
<1>5. ASSUME NEW l \in Int, NEW n \in 0 .. EntrySectors, WriteEntries(l, n),
             \/ pc = "primary" /\ l = EntriesStart
             \/ pc = "backup" /\ (Apart => l > EntrySectors + 1)
      PROVE  PartInv' /\ Keeps
  <2>1. Keeps BY <1>5, KeepsWritten
  <2>2. ShapeOnDisk' BY <1>5, ShapeWritten DEF PartInv, ShapeOnDisk
  <2>3. DOMAIN disk' = Lba BY <1>5, SectorsWritten
  <2>4. DOMAIN call' = {"op", "range", "index", "table"} BY <1>1, <1>3 DEF Sizes
  <2> QED BY <1>1, <1>2, <2>1, <2>2, <2>3, <2>4, Stopped
<1>6. CASE pc = "primary" /\ \E n \in Partial : WriteEntries(EntriesStart, n)
  <2>1. PICK n \in 0 .. EntrySectors : WriteEntries(EntriesStart, n)
    BY <1>6, WriteSizes, Zenon
  <2>2. EntriesStart \in Int BY SizeFacts
  <2> QED BY <1>5, <1>6, <2>1, <2>2
<1>7. CASE pc = "backup" /\ \E n \in Partial \ {0} : WriteEntries(PlaceOf(BackupLba(total)), n)
  <2>1. PICK n \in 0 .. EntrySectors : WriteEntries(PlaceOf(BackupLba(total)), n)
    BY <1>7, WriteSizes, Zenon
  <2> QED BY <1>5, <1>7, <2>1, BackupApart
<1> QED BY <1>4, <1>6, <1>7, Zenon DEF Crash

LEMMA PartNext ==
  ASSUME PartInv, [Next]_partVars
  PROVE  PartInv' /\ Keeps
<1>1. CASE \E r \in Ranges : BeginCreate(r) \/ \E i \in Index : BeginUpdate(i, r)
  BY <1>1, BeginCreateStep, BeginUpdateStep
<1>2. CASE ReadEntries BY <1>2, ReadEntriesStep
<1>3. CASE WritePrimary BY <1>3, WritePrimaryStep
<1>4. CASE WriteBackup BY <1>4, WriteBackupStep
<1>5. CASE WriteHeader BY <1>5, WriteHeaderStep
<1>6. CASE WriteBackupHeader BY <1>6, WriteBackupHeaderStep
<1>7. CASE Restart BY <1>7, RestartStep
<1>8. CASE Crash BY <1>8, CrashStep
<1>9. CASE UNCHANGED partVars
  <2>1. UNCHANGED <<disk, total, pc, call, result>> BY <1>9 DEF partVars
  <2>2. Keeps BY <2>1, SameTable DEF PartInv
  <2>3. PartInv' BY <2>1
    DEF PartInv, Sizes, Shape, TableRead, SameBut, Progress, HoldsTable, CopiesAgree,
        BothValid, BackupValid, Valid, IsHeader
  <2> QED BY <2>2, <2>3
<1> QED BY <1>1, <1>2, <1>3, <1>4, <1>5, <1>6, <1>7, <1>8, <1>9 DEF Next, CallStep

LEMMA PartInit == Init => PartInv
<1> SUFFICES ASSUME Init PROVE PartInv
  OBVIOUS
<1>1. pc = "idle" /\ total = 0 /\ result = FALSE BY DEF Init
<1>2. total \in 0 .. DiskSectors BY <1>1, SizeFacts, SMT
<1>3. DOMAIN disk = Lba /\ \A l \in Lba : disk[l] = Blank BY DEF Init
<1>4. ASSUME NEW k \in Offset
      PROVE  DOMAIN disk[EntriesStart + k].entries = 0 .. EntriesPerSector - 1
  <2>1. disk[EntriesStart + k] = Blank BY <1>3, TableOnDisk
  <2> QED BY <2>1 DEF Blank, EntriesSector, UnusedEntries
<1>5. DOMAIN call = {"op", "range", "index", "table"} BY DEF Init, NoCall
<1> QED BY <1>1, <1>2, <1>3, <1>4, <1>5
  DEF PartInv, Sizes, Shape, TableRead, Progress, CopiesAgree, Locations

-----------------------------------------------------------------------------
(* The theorems.                                                           *)

\* For all values of the constants: when create_partition or update_partition has
\* returned true, the table and its backup are both valid and hold what it wrote.
THEOREM CopiesAgreeAlways == PartSpec => []CopiesAgree
<1>1. PartInv /\ [Next]_partVars => PartInv' BY PartNext
<1>2. PartInv => CopiesAgree BY DEF PartInv
<1> QED BY PartInit, <1>1, <1>2, PTL DEF PartSpec

\* For all values of the constants: whatever fails and wherever a call is cut off,
\* the entries of the primary table that it is not about stay, as long as the size
\* puts the backup behind them.
THEOREM OtherEntriesAlways == PartSpec => OtherEntriesKept
<1>1. PartInv /\ [Next]_partVars => PartInv' BY PartNext
<1>2. PartInv /\ [Next]_partVars =>
        [\A i \in Index : EntryAt(i)' # EntryAt(i) =>
           i = call.index \/ (pc = "backup" /\ ~Apart)]_partVars
  BY PartNext DEF Keeps
<1> QED BY PartInit, <1>1, <1>2, PTL DEF PartSpec, OtherEntriesKept

-----------------------------------------------------------------------------
(* The inductive invariant, on top of PartInv.                             *)

\* What PartTypeOK says of the disk, and of the rest.
DiskTyped ==
  /\ DOMAIN disk = Lba
  /\ \A l \in Lba :
       /\ disk[l].kind \in SectorKinds
       /\ disk[l].kind = "entries" =>
            disk[l].entries \in [0 .. EntriesPerSector - 1 -> EntrySet]
       /\ disk[l].kind = "header" => disk[l].crc \in TableSet /\ disk[l].other \in Lba

VarsTyped ==
  /\ count \in 0 .. MaxPartitions
  /\ pc \in Locations
  /\ call \in CallType
  /\ result \in BOOLEAN
  /\ before \in TableSet
  /\ sound \in BOOLEAN /\ lost \in BOOLEAN
  /\ faults \in 0 .. MaxFaults /\ crashes \in 0 .. MaxCrashes

\* A header is where it says it is, and the backup header and its entries lie
\* behind the primary table, whatever size they were written for.
SectorsFit ==
  \A l \in Lba :
    /\ disk[l].kind = "mbr" => l = 0
    /\ disk[l].kind = "header" =>
         /\ disk[l].at = l
         /\ l = 1 => disk[l].entries = EntriesStart /\ disk[l].other >= MinSectors - 1
         /\ l # 1 => disk[l].entries = l - EntrySectors /\ l >= MinSectors - 1

\* A call that has found room keeps it: nothing else counts partitions meanwhile.
RoomKept ==
  pc \in {"primary", "backup", "header", "backupheader"} /\ call.op = "create" =>
    count < MaxPartitions

\* The backup copy is valid and is the table, and so says the primary header.
BackupHolds(table) ==
  BackupValid /\ disk[1].crc = table /\ disk[disk[1].other].crc = table

\* Up to the write of the backup entries the backup holds the old table.
OldOrNew ==
  sound /\ ~lost =>
    /\ pc \in {"read", "primary", "backup"} => BackupHolds(before)
    /\ pc = "idle" => Readable(before) \/ Readable(call.table)

\* Only a call that has stopped is lost.
LostAtEnd == pc # "idle" => ~lost

RecoveryInv ==
  PartInv /\ DiskTyped /\ VarsTyped /\ SectorsFit /\ RoomKept /\ OldOrNew /\ LostAtEnd

-----------------------------------------------------------------------------
(* Tables and the numbers of their entries.                                *)

\* A number below the count of entries names an entry.
LEMMA IndexOfCount ==
  ASSUME NEW n \in Nat, n < MaxPartitions
  PROVE  AtIndex(n) \in Index
<1> DEFINE e == EntriesPerSector
           q == n \div e
           r == n % e
<1>1. e \in Nat \ {0} /\ EntrySectors \in Nat \ {0} /\ MaxPartitions \in 1 .. EntrySectors * e
  BY PartitionAssumption
<1>2. /\ q \in Nat /\ r \in 0 .. e - 1 /\ n = e * q + r
  BY <1>1, SMT
<1>3. n < EntrySectors * e BY <1>1, SMT
<1> HIDE DEF q, r, e
<1>4. ASSUME q >= EntrySectors PROVE FALSE
  <2>1. e * q >= e * EntrySectors BY <1>1, <1>2, <1>4, SMT
  <2> QED BY <1>1, <1>2, <1>3, <2>1, SMT
<1>5. q \in 0 .. EntrySectors - 1 BY <1>1, <1>2, <1>4, SMT
<1> QED BY <1>2, <1>5 DEF AtIndex, Index, Offset, q, r, e

LEMMA TableChanged ==
  ASSUME NEW t \in TableSet, NEW a \in Offset, NEW b \in 0 .. EntriesPerSector - 1,
         NEW e \in EntrySet
  PROVE  [t EXCEPT ![a][b] = e] \in TableSet
<1>1. t[a] \in [0 .. EntriesPerSector - 1 -> EntrySet] BY DEF TableSet
<1>2. [t[a] EXCEPT ![b] = e] \in [0 .. EntriesPerSector - 1 -> EntrySet] BY <1>1
<1> QED BY <1>2 DEF TableSet

\* The sectors of the primary table hold entries.
LEMMA TableOfDisk ==
  ASSUME DiskTyped, SectorsFit
  PROVE  TableAt(EntriesStart) \in TableSet
<1>1. ASSUME NEW k \in Offset
      PROVE  disk[EntriesStart + k].entries \in [0 .. EntriesPerSector - 1 -> EntrySet]
  <2> DEFINE s == EntriesStart + k
  <2>1. s \in Lba /\ s \in 2 .. EntrySectors + 1 BY TableOnDisk
  <2>2. s # 0 /\ s # 1 /\ ~(s >= MinSectors - 1) BY <2>1, SizeFacts, SMT
  <2>3. disk[s].kind # "mbr" /\ disk[s].kind # "header" BY <2>1, <2>2 DEF SectorsFit
  <2>4. disk[s].kind = "entries" BY <2>1, <2>3 DEF DiskTyped, SectorKinds
  <2> QED BY <2>1, <2>4 DEF DiskTyped
<1> QED BY <1>1 DEF TableAt, TableSet

LEMMA EmptyTables ==
  /\ Unused \in EntrySet
  /\ UnusedEntries \in [0 .. EntriesPerSector - 1 -> EntrySet]
  /\ EmptyTable \in TableSet
  /\ AtIndex(0) \in Index
<1>1. Unused \in EntrySet BY DEF EntrySet
<1>2. UnusedEntries \in [0 .. EntriesPerSector - 1 -> EntrySet] BY <1>1 DEF UnusedEntries
<1>3. EmptyTable \in TableSet BY <1>2 DEF EmptyTable, TableSet
<1>4. 0 < MaxPartitions /\ 0 \in Nat BY PartitionAssumption, SMT
<1> QED BY <1>1, <1>2, <1>3, <1>4, IndexOfCount

-----------------------------------------------------------------------------
(* What a step writes, and that the sectors keep their types.              *)

\* A step writes sectors of the table, the protective MBR, or one of the headers.
WritesTable ==
  \E l \in Int, n \in 0 .. EntrySectors :
    /\ WriteEntries(l, n)
    /\ (pc = "primary" /\ l = EntriesStart) \/ pc = "backup"

WritesMbr == pc = "idle" /\ \E n \in Nat : disk' = [disk EXCEPT ![0] = MbrSector(n)]

WritesHeader ==
  /\ pc = "header" /\ total >= MinSectors
  /\ disk' = [disk EXCEPT ![1] = HeaderSector(1, total - 1, EntriesStart, call.table)]

WritesBackupHeader ==
  /\ pc = "backupheader" /\ total >= MinSectors
  /\ disk' = [disk EXCEPT ![total - 1] =
                HeaderSector(total - 1, 1, total - EntrySectors - 1, call.table)]

LEMMA DiskWrites ==
  ASSUME RecoveryInv, [Next]_partVars
  PROVE  \/ UNCHANGED disk
         \/ WritesTable \/ WritesMbr \/ WritesHeader \/ WritesBackupHeader
<1>1. CASE \E r \in Ranges : BeginCreate(r) \/ \E i \in Index : BeginUpdate(i, r)
  <2>1. PICK r \in Ranges : BeginCreate(r) \/ \E i \in Index : BeginUpdate(i, r)
    BY <1>1
  <2>2. r.sectors \in Nat BY PartitionAssumption, SMT
  <2>3. CASE BeginCreate(r) BY <2>2, <2>3 DEF BeginCreate, WritesMbr
  <2>4. CASE \E i \in Index : BeginUpdate(i, r) BY <2>4 DEF BeginUpdate
  <2> QED BY <2>1, <2>3, <2>4
<1>2. CASE ReadEntries BY <1>2 DEF ReadEntries
<1>3. EntriesStart \in Int /\ PlaceOf(BackupLba(total)) \in Int
  BY SizeFacts, BackupApart DEF RecoveryInv
<1>4. CASE WritePrimary
  <2>1. pc = "primary" BY <1>4 DEF WritePrimary
  <2>2. PICK n \in 0 .. EntrySectors : WriteEntries(EntriesStart, n)
    BY <1>4, WriteSizes, Zenon DEF WritePrimary
  <2> QED BY <1>3, <2>1, <2>2 DEF WritesTable
<1>5. CASE WriteBackup
  <2>1. pc = "backup" BY <1>5 DEF WriteBackup
  <2>2. PICK n \in 0 .. EntrySectors : WriteEntries(PlaceOf(BackupLba(total)), n)
    BY <1>5, WriteSizes, Zenon DEF WriteBackup
  <2> QED BY <1>3, <2>1, <2>2 DEF WritesTable
<1>6. CASE WriteHeader BY <1>6 DEF WriteHeader, WritesHeader
<1>7. CASE WriteBackupHeader
  BY <1>7 DEF WriteBackupHeader, WritesBackupHeader, RecoveryInv, PartInv, Sizes
<1>8. CASE Restart BY <1>8 DEF Restart
<1>9. CASE Crash
  <2>1. CASE UNCHANGED disk BY <2>1
  <2>2. CASE pc = "primary" /\ \E n \in Partial : WriteEntries(EntriesStart, n)
    <3>1. PICK n \in 0 .. EntrySectors : WriteEntries(EntriesStart, n)
      BY <2>2, WriteSizes, Zenon
    <3> QED BY <1>3, <2>2, <3>1 DEF WritesTable
  <2>3. CASE pc = "backup" /\ \E n \in Partial \ {0} : WriteEntries(PlaceOf(BackupLba(total)), n)
    <3>1. PICK n \in 0 .. EntrySectors : WriteEntries(PlaceOf(BackupLba(total)), n)
      BY <2>3, WriteSizes, Zenon
    <3> QED BY <1>3, <2>3, <3>1 DEF WritesTable
  <2> QED BY <1>9, <2>1, <2>2, <2>3, Zenon DEF Crash
<1>10. CASE UNCHANGED partVars BY <1>10 DEF partVars
<1> QED BY <1>1, <1>2, <1>4, <1>5, <1>6, <1>7, <1>8, <1>9, <1>10 DEF Next, CallStep

\* What the disk invariants say of one sector.
SectorTyped(l, sector) ==
  /\ sector.kind \in SectorKinds
  /\ sector.kind = "entries" => sector.entries \in [0 .. EntriesPerSector - 1 -> EntrySet]
  /\ sector.kind = "header" => sector.crc \in TableSet /\ sector.other \in Lba
  /\ sector.kind = "mbr" => l = 0
  /\ sector.kind = "header" =>
       /\ sector.at = l
       /\ l = 1 => sector.entries = EntriesStart /\ sector.other >= MinSectors - 1
       /\ l # 1 => sector.entries = l - EntrySectors /\ l >= MinSectors - 1

LEMMA SectorsTyped ==
  /\ DiskTyped /\ SectorsFit <=> DOMAIN disk = Lba /\ \A l \in Lba : SectorTyped(l, disk[l])
  /\ (DiskTyped /\ SectorsFit)' <=> DOMAIN disk' = Lba /\ \A l \in Lba : SectorTyped(l, disk'[l])
BY DEF DiskTyped, SectorsFit, SectorTyped

LEMMA DiskStep ==
  ASSUME RecoveryInv, [Next]_partVars
  PROVE  DiskTyped' /\ SectorsFit'
<1>1. DOMAIN disk = Lba /\ \A l \in Lba : SectorTyped(l, disk[l])
  BY SectorsTyped DEF RecoveryInv
<1>2. call.table \in TableSet BY DEF RecoveryInv, VarsTyped, CallType
<1>3. total \in 0 .. DiskSectors BY DEF RecoveryInv, PartInv, Sizes
<1>4. CASE UNCHANGED disk
  BY <1>1, <1>4, SectorsTyped
<1>5. CASE WritesTable
  <2>1. PICK l \in Int, n \in 0 .. EntrySectors : WriteEntries(l, n) BY <1>5 DEF WritesTable
  <2>2. DOMAIN disk' = Lba BY <2>1, SectorsWritten
  <2>3. ASSUME NEW s \in Lba PROVE SectorTyped(s, disk'[s])
    <3>1. CASE s \notin l .. l + n - 1
      <4>1. disk'[s] = disk[s] BY <2>1, <3>1, SectorsWritten
      <4> QED BY <1>1, <4>1
    <3>2. CASE s \in l .. l + n - 1
      <4>1. disk'[s] = EntriesSector(call.table[s - l]) /\ s - l \in Offset
        BY <2>1, <3>2, SectorsWritten
      <4>2. call.table[s - l] \in [0 .. EntriesPerSector - 1 -> EntrySet]
        BY <1>2, <4>1 DEF TableSet
      <4> HIDE DEF TableSet
      <4> QED BY <4>1, <4>2 DEF EntriesSector, SectorTyped, SectorKinds
    <3> QED BY <3>1, <3>2
  <2> QED BY <2>2, <2>3, SectorsTyped
<1>6. CASE WritesMbr
  <2>1. PICK n \in Nat : disk' = [disk EXCEPT ![0] = MbrSector(n)] BY <1>6 DEF WritesMbr
  <2>2. DOMAIN disk' = Lba BY <1>1, <2>1
  <2>3. \A s \in Lba : IF s = 0 THEN disk'[s] = MbrSector(n) ELSE disk'[s] = disk[s]
    BY <1>1, <2>1
  <2>4. SectorTyped(0, MbrSector(n)) BY DEF SectorTyped, MbrSector, SectorKinds
  <2> QED BY <1>1, <2>2, <2>3, <2>4, SectorsTyped
<1>7. CASE WritesHeader
  <2> DEFINE h == HeaderSector(1, total - 1, EntriesStart, call.table)
  <2>1. DOMAIN disk' = Lba BY <1>1, <1>7 DEF WritesHeader
  <2>2. \A s \in Lba : IF s = 1 THEN disk'[s] = h ELSE disk'[s] = disk[s]
    BY <1>1, <1>7 DEF WritesHeader
  <2>3. total - 1 \in Lba /\ total - 1 >= MinSectors - 1
    BY <1>3, <1>7, SizeFacts, SMT DEF WritesHeader, Lba
  <2>4. SectorTyped(1, h) BY <1>2, <2>3 DEF SectorTyped, HeaderSector, SectorKinds
  <2> HIDE DEF h
  <2> QED BY <1>1, <2>1, <2>2, <2>4, SectorsTyped
<1>8. CASE WritesBackupHeader
  <2> DEFINE b == total - 1
             h == HeaderSector(b, 1, total - EntrySectors - 1, call.table)
  <2>1. DOMAIN disk' = Lba BY <1>1, <1>8 DEF WritesBackupHeader
  <2>2. \A s \in Lba : IF s = b THEN disk'[s] = h ELSE disk'[s] = disk[s]
    BY <1>1, <1>8 DEF WritesBackupHeader
  <2>3. /\ b >= MinSectors - 1 /\ b # 1 /\ 1 \in Lba
        /\ total - EntrySectors - 1 = b - EntrySectors
    BY <1>3, <1>8, SizeFacts, SMT DEF WritesBackupHeader, Lba
  <2>4. SectorTyped(b, h) BY <1>2, <2>3 DEF SectorTyped, HeaderSector, SectorKinds
  <2> HIDE DEF h, b
  <2> QED BY <1>1, <2>1, <2>2, <2>4, SectorsTyped
<1> QED BY <1>4, <1>5, <1>6, <1>7, <1>8, DiskWrites

-----------------------------------------------------------------------------
(* The other variables.                                                    *)

\* What a fault, or none, and a crash leave of the counters.
LEMMA CountersBounded ==
  ASSUME VarsTyped
  PROVE  /\ NoFault \/ Fault => faults' \in 0 .. MaxFaults
         /\ crashes < MaxCrashes /\ crashes' = crashes + 1 => crashes' \in 0 .. MaxCrashes
<1>1. faults \in 0 .. MaxFaults /\ crashes \in 0 .. MaxCrashes BY DEF VarsTyped
<1>2. MaxFaults \in Nat /\ MaxCrashes \in Nat BY PartitionAssumption
<1> QED BY <1>1, <1>2, SMT DEF NoFault, Fault

LEMMA VarsStep ==
  ASSUME RecoveryInv, [Next]_partVars
  PROVE  VarsTyped' /\ RoomKept'
<1> USE DEF Return, NoFault, Fault, KeepHistory
<1>1. VarsTyped /\ RoomKept BY DEF RecoveryInv
<1>2. /\ count \in 0 .. MaxPartitions /\ call \in CallType /\ before \in TableSet
      /\ sound \in BOOLEAN /\ lost \in BOOLEAN /\ result \in BOOLEAN
      /\ crashes \in 0 .. MaxCrashes
  BY <1>1 DEF VarsTyped
<1>3. NoFault \/ Fault => faults' \in 0 .. MaxFaults BY <1>1, CountersBounded
<1>4. TableAt(EntriesStart) \in TableSet BY TableOfDisk DEF RecoveryInv
<1>5. BothValid \in BOOLEAN BY DEF BothValid, Valid
<1>6. CASE \E r \in Ranges : BeginCreate(r)
  <2>1. PICK r \in Ranges : BeginCreate(r) BY <1>6
  <2>2. EntryOf(r) \in EntrySet BY DEF EntrySet
  <2>3. call' \in CallType BY <2>1, <2>2, EmptyTables DEF BeginCreate, NoCall, CallType
  <2>4. before' \in TableSet /\ sound' \in BOOLEAN /\ lost' \in BOOLEAN
    BY <1>4, <1>5, <2>1, EmptyTables DEF BeginCreate, Remember
  <2>5. pc' \in {"read", "idle"} /\ UNCHANGED <<count, crashes>> /\ result' \in BOOLEAN
    BY <1>2, <2>1 DEF BeginCreate
  <2>6. faults' \in 0 .. MaxFaults BY <1>3, <2>1 DEF BeginCreate
  <2> QED BY <1>2, <2>3, <2>4, <2>5, <2>6 DEF VarsTyped, RoomKept, Locations
<1>7. CASE \E r \in Ranges : \E i \in Index : BeginUpdate(i, r)
  <2>1. PICK r \in Ranges, i \in Index : BeginUpdate(i, r) BY <1>7
  <2>2. EntryOf(r) \in EntrySet BY DEF EntrySet
  <2>3. i[1] \in Offset /\ i[2] \in 0 .. EntriesPerSector - 1 BY DEF Index
  <2>4. [TableAt(EntriesStart) EXCEPT ![i[1]][i[2]] = EntryOf(r)] \in TableSet
    BY <1>4, <2>2, <2>3, TableChanged
  <2>5. call' \in CallType /\ call'.op = "update"
    BY <2>1, <2>2, <2>4 DEF BeginUpdate, CallType
  <2>6. before' \in TableSet /\ sound' \in BOOLEAN /\ lost' \in BOOLEAN
    BY <1>4, <1>5, <2>1, EmptyTables DEF BeginUpdate, Remember
  <2>7. pc' = "primary" /\ UNCHANGED <<count, result, faults, crashes>>
    BY <2>1 DEF BeginUpdate
  <2> QED BY <1>1, <1>2, <2>5, <2>6, <2>7 DEF VarsTyped, RoomKept, Locations
<1>8. CASE ReadEntries
  <2>1. faults' \in 0 .. MaxFaults BY <1>3, <1>8 DEF ReadEntries
  <2>2. UNCHANGED <<count, crashes, before, sound, lost>> BY <1>8 DEF ReadEntries
  <2>3. CASE ~RoomLeft \/ pc' = "idle"
    BY <1>2, <1>8, <2>1, <2>2, <2>3 DEF ReadEntries, VarsTyped, RoomKept, Locations
  <2>4. CASE RoomLeft /\ pc' # "idle"
    <3> DEFINE i == AtIndex(count)
               new == [TableAt(EntriesStart) EXCEPT ![i[1]][i[2]] = call.range]
    <3>1. call' = [call EXCEPT !.index = i, !.table = new]
          /\ pc' = "primary" /\ UNCHANGED result
      BY <1>8, <2>4 DEF ReadEntries
    <3>2. count < MaxPartitions BY <2>4 DEF RoomLeft
    <3>3. count \in Nat BY <1>2, SMT
    <3>4. i \in Index BY <3>2, <3>3, IndexOfCount
    <3>5. i[1] \in Offset /\ i[2] \in 0 .. EntriesPerSector - 1 BY <3>4 DEF Index
    <3>6. call.range \in EntrySet BY <1>2 DEF CallType
    <3>7. new \in TableSet BY <1>4, <3>5, <3>6, TableChanged
    <3> HIDE DEF i, new
    <3>8. call' \in CallType BY <1>2, <3>1, <3>4, <3>7 DEF CallType
    <3> QED BY <1>2, <2>1, <2>2, <3>1, <3>2, <3>8 DEF VarsTyped, RoomKept, Locations
  <2> QED BY <2>3, <2>4
<1>9. CASE WritePrimary
  <2>1. faults' \in 0 .. MaxFaults
    BY <1>3, <1>9, Zenon DEF WritePrimary
  <2>2. /\ pc = "primary" /\ pc' \in {"backup", "idle"} /\ result' \in BOOLEAN
        /\ UNCHANGED <<count, call, crashes, before, sound, lost>>
    BY <1>2, <1>9 DEF WritePrimary
  <2> QED BY <1>1, <1>2, <2>1, <2>2 DEF VarsTyped, RoomKept, Locations
<1>10. CASE WriteBackup
  <2>1. faults' \in 0 .. MaxFaults
    BY <1>3, <1>10, Zenon DEF WriteBackup
  <2>2. /\ pc = "backup" /\ pc' \in {"header", "idle"} /\ result' \in BOOLEAN
        /\ UNCHANGED <<count, call, crashes, before, sound>>
    BY <1>2, <1>10 DEF WriteBackup
  <2>3. lost' = lost \/ \E n \in Partial : lost' = (n > 0)
    BY <1>10, Zenon DEF WriteBackup
  <2>4. \A n \in Partial : (n > 0) \in BOOLEAN OBVIOUS
  <2>5. lost' \in BOOLEAN BY <1>2, <2>3, <2>4, Zenon
  <2> QED BY <1>1, <1>2, <2>1, <2>2, <2>5 DEF VarsTyped, RoomKept, Locations
<1>11. CASE WriteHeader
  <2>1. faults' \in 0 .. MaxFaults BY <1>3, <1>11 DEF WriteHeader
  <2>2. /\ pc = "header" /\ pc' \in {"backupheader", "idle"} /\ result' \in BOOLEAN
        /\ lost' \in BOOLEAN
        /\ UNCHANGED <<count, call, crashes, before, sound>>
    BY <1>2, <1>11 DEF WriteHeader
  <2> QED BY <1>1, <1>2, <2>1, <2>2 DEF VarsTyped, RoomKept, Locations
<1>12. CASE WriteBackupHeader
  <2>1. faults' \in 0 .. MaxFaults BY <1>3, <1>12 DEF WriteBackupHeader
  <2>2. /\ pc = "backupheader" /\ pc' = "idle" /\ result' \in BOOLEAN
        /\ UNCHANGED <<call, crashes, before, sound, lost>>
    BY <1>12 DEF WriteBackupHeader
  <2>3. count' \in 0 .. MaxPartitions
    <3>1. count' = count \/ (call.op = "create" /\ count' = count + 1)
      BY <1>12 DEF WriteBackupHeader
    <3>2. call.op = "create" => count < MaxPartitions BY <1>1, <2>2 DEF RoomKept
    <3>3. MaxPartitions \in Nat BY PartitionAssumption, SMT
    <3> QED BY <1>2, <3>1, <3>2, <3>3, SMT
  <2> QED BY <1>2, <2>1, <2>2, <2>3 DEF VarsTyped, RoomKept, Locations
<1>13. CASE Restart \/ Crash
  <2>1. /\ count' = 0 /\ pc' = "idle" /\ result' = FALSE
        /\ UNCHANGED <<call, before, sound, faults>>
    BY <1>13 DEF Restart, Crash, Reboot
  <2>2. crashes' \in 0 .. MaxCrashes
    BY <1>1, <1>2, <1>13, CountersBounded DEF Restart, Crash
  <2>3. lost' \in BOOLEAN
    BY <1>2, <1>13 DEF Restart, Crash
  <2>4. count' \in 0 .. MaxPartitions BY <2>1, PartitionAssumption, SMT
  <2> QED BY <1>1, <1>2, <2>1, <2>2, <2>3, <2>4 DEF VarsTyped, RoomKept, Locations
<1>14. CASE UNCHANGED partVars
  BY <1>1, <1>14 DEF partVars, VarsTyped, RoomKept
<1> QED BY <1>6, <1>7, <1>8, <1>9, <1>10, <1>11, <1>12, <1>13, <1>14 DEF Next, CallStep

-----------------------------------------------------------------------------
(* The copies.                                                             *)

\* With both copies valid, the backup holds the table that is read.
LEMMA SoundStart ==
  ASSUME DiskTyped, SectorsFit, BothValid
  PROVE  BackupHolds(TableAt(EntriesStart))
<1> DEFINE crc == disk[1].crc
<1>1. 1 \in Lba /\ disk[1].kind = "header" /\ HoldsTable(disk[1].entries, crc)
  BY DEF BothValid, Valid, IsHeader
<1>2. crc \in TableSet /\ disk[1].entries = EntriesStart
  BY <1>1 DEF DiskTyped, SectorsFit
<1>3. ASSUME NEW k \in Offset PROVE disk[EntriesStart + k].entries = crc[k]
  <2>1. disk[EntriesStart + k] = EntriesSector(crc[k]) BY <1>1, <1>2 DEF HoldsTable
  <2> QED BY <2>1 DEF EntriesSector
<1>4. TableAt(EntriesStart) = crc BY <1>2, <1>3 DEF TableAt, TableSet
<1> QED BY <1>4 DEF BothValid, BackupHolds

\* The sectors the backup is made of: the primary header and what lies behind the
\* primary table.
BackupUntouched ==
  /\ disk'[1] = disk[1]
  /\ \A s \in Lba : s >= EntrySectors + 2 => disk'[s] = disk[s]

\* While nothing touches the backup it can be read, valid primary or not: a valid
\* primary has the same checksum.
LEMMA BackupKept ==
  ASSUME DiskTyped, SectorsFit, BackupUntouched, sound' /\ ~lost' => BackupHolds(before')
  PROVE  OldOrNew'
<1> SUFFICES ASSUME BackupHolds(before') PROVE BackupHolds(before)' /\ Readable(before)'
  BY DEF OldOrNew
<1> DEFINE o == disk[1].other
<1>1. /\ IsHeader(1) /\ IsHeader(o) /\ disk[o].at = o
      /\ HoldsTable(disk[o].entries, disk[o].crc)
      /\ disk[1].crc = before' /\ disk[o].crc = before'
  BY DEF BackupHolds, BackupValid, Valid
<1>2. /\ 1 \in Lba /\ o \in Lba /\ o >= MinSectors - 1 /\ o # 1
      /\ disk[o].entries = o - EntrySectors
  <2>1. 1 \in Lba /\ o \in Lba /\ o >= MinSectors - 1
    BY <1>1 DEF IsHeader, DiskTyped, SectorsFit
  <2>2. o # 1 BY <2>1, SizeFacts, SMT DEF Lba
  <2> QED BY <1>1, <2>1, <2>2 DEF IsHeader, SectorsFit
<1>3. o >= EntrySectors + 2 BY <1>2, SizeFacts, SMT DEF Lba
<1>4. disk'[1] = disk[1] /\ disk'[o] = disk[o] BY <1>2, <1>3 DEF BackupUntouched
<1>5. ASSUME NEW k \in Offset
      PROVE  disk'[disk[o].entries + k] = EntriesSector(disk[o].crc[k])
  <2>1. disk[o].entries + k \in Lba /\ disk[o].entries + k >= EntrySectors + 2
    BY <1>2, SizeFacts, SMT DEF Lba, Offset
  <2> QED BY <1>1, <2>1 DEF BackupUntouched, HoldsTable
<1>6. IsHeader(1)' /\ Valid(disk[1].other)'
  BY <1>1, <1>2, <1>4, <1>5 DEF IsHeader, Valid, HoldsTable
<1>7. BackupHolds(before)' BY <1>1, <1>4, <1>6 DEF BackupHolds, BackupValid
<1> QED BY <1>7 DEF Readable, BackupHolds

\* Once the primary header is written the new table can be read.
LEMMA NewReadable ==
  ASSUME PartInv, pc = "backupheader", UNCHANGED call,
         disk'[1] = disk[1], \A k \in Offset : disk'[EntriesStart + k] = disk[EntriesStart + k],
         pc' = "idle"
  PROVE  OldOrNew'
<1>1. /\ HoldsTable(EntriesStart, call.table)
      /\ disk[1] = HeaderSector(1, total - 1, EntriesStart, call.table)
  BY DEF PartInv, Progress
<1>2. /\ disk'[1].kind = "header" /\ disk'[1].at = 1
      /\ disk'[1].entries = EntriesStart /\ disk'[1].crc = call.table
  BY <1>1 DEF HeaderSector
<1>3. 1 \in Lba BY SizeFacts, SMT DEF Lba
<1>4. Valid(1)' BY <1>1, <1>2, <1>3 DEF Valid, IsHeader, HoldsTable
<1> QED BY <1>2, <1>4 DEF OldOrNew, Readable

\* A write of primary entries leaves the backup alone.
LEMMA PrimaryApart ==
  ASSUME DOMAIN disk = Lba, NEW n \in 0 .. EntrySectors, WriteEntries(EntriesStart, n)
  PROVE  BackupUntouched
<1>1. EntriesStart \in Int BY SizeFacts
<1>2. ASSUME NEW s \in Lba, s = 1 \/ s >= EntrySectors + 2 PROVE disk'[s] = disk[s]
  <2>1. s \notin EntriesStart .. EntriesStart + n - 1
    BY <1>2, SizeFacts, SMT DEF Lba
  <2> QED BY <1>1, <2>1, SectorsWritten
<1>3. 1 \in Lba BY SizeFacts, SMT DEF Lba
<1> QED BY <1>2, <1>3 DEF BackupUntouched

LEMMA CopiesStep ==
  ASSUME RecoveryInv, [Next]_partVars
  PROVE  OldOrNew'
<1> USE DEF Return, KeepHistory
<1>1. DiskTyped /\ SectorsFit /\ OldOrNew /\ PartInv BY DEF RecoveryInv
<1>2. DOMAIN disk = Lba BY <1>1 DEF DiskTyped
<1>3. UNCHANGED disk => BackupUntouched BY DEF BackupUntouched
<1>4. pc \in {"read", "primary", "backup"} /\ sound /\ ~lost => BackupHolds(before)
  BY <1>1 DEF OldOrNew
<1>5. CASE \E r \in Ranges : BeginCreate(r) \/ \E i \in Index : BeginUpdate(i, r)
  <2>1. Remember BY <1>5 DEF BeginCreate, BeginUpdate
  <2>2. sound' => BackupHolds(before') BY <1>1, <2>1, SoundStart DEF Remember
  <2>3. UNCHANGED disk \/ \E m : disk' = [disk EXCEPT ![0] = m]
    BY <1>5 DEF BeginCreate, BeginUpdate
  <2>4. BackupUntouched
    <3>1. ASSUME NEW m, disk' = [disk EXCEPT ![0] = m], NEW s \in Lba, s # 0
          PROVE  disk'[s] = disk[s]
      BY <1>2, <3>1
    <3>2. 1 \in Lba /\ \A s \in Lba : s >= EntrySectors + 2 => s # 0
      BY SizeFacts, SMT DEF Lba
    <3> QED BY <1>3, <2>3, <3>1, <3>2 DEF BackupUntouched
  <2> QED BY <1>1, <2>2, <2>4, BackupKept
<1>6. CASE ReadEntries
  <2>1. pc = "read" /\ UNCHANGED <<disk, before, sound, lost>> BY <1>6 DEF ReadEntries
  <2> QED BY <1>1, <1>3, <1>4, <2>1, BackupKept
<1>7. CASE WritePrimary
  <2>1. pc = "primary" /\ UNCHANGED <<before, sound, lost>> BY <1>7 DEF WritePrimary
  <2>2. PICK n \in 0 .. EntrySectors : WriteEntries(EntriesStart, n)
    BY <1>7, WriteSizes, Zenon DEF WritePrimary
  <2>3. BackupUntouched BY <1>2, <2>2, PrimaryApart
  <2> QED BY <1>1, <1>4, <2>1, <2>3, BackupKept
<1>8. CASE WriteBackup
  <2>1. pc = "backup" /\ UNCHANGED <<before, sound>> BY <1>8 DEF WriteBackup
  <2>2. CASE pc' = "header" BY <2>2 DEF OldOrNew
  <2>3. ASSUME NEW n \in Partial, WriteEntries(PlaceOf(BackupLba(total)), n), lost' = (n > 0)
        PROVE  OldOrNew'
    <3>1. CASE lost' BY <3>1 DEF OldOrNew
    <3>2. CASE ~lost'
      <4>1. n = 0
        <5>1. ~(n > 0) BY <2>3, <3>2, Zenon
        <5> QED BY <5>1, SizeFacts, SMT DEF Partial
      <4>2. n \in 0 .. EntrySectors /\ PlaceOf(BackupLba(total)) \in Int
        BY WriteSizes, BackupApart, <1>1
      <4>3. \A s \in Lba : disk'[s] = disk[s]
        <5> SUFFICES ASSUME NEW s \in Lba PROVE disk'[s] = disk[s]
          OBVIOUS
        <5> DEFINE l == PlaceOf(BackupLba(total))
        <5>1. s \notin l .. l + n - 1 BY <4>1, <4>2, SMT
        <5> QED BY <2>3, <4>2, <5>1, SectorsWritten
      <4>4. 1 \in Lba BY SizeFacts, SMT DEF Lba
      <4>5. BackupUntouched BY <4>3, <4>4 DEF BackupUntouched
      <4>6. ~lost BY <2>1 DEF RecoveryInv, LostAtEnd
      <4> QED BY <1>1, <1>4, <2>1, <4>5, <4>6, BackupKept
    <3> QED BY <3>1, <3>2
  <2>4. pc' = "header" \/ \E n \in Partial : WriteEntries(PlaceOf(BackupLba(total)), n) /\ lost' = (n > 0)
    BY <1>8, Zenon DEF WriteBackup
  <2> QED BY <2>2, <2>3, <2>4
<1>9. CASE WriteHeader
  <2>1. pc' = "backupheader" \/ lost' BY <1>9 DEF WriteHeader
  <2> QED BY <2>1 DEF OldOrNew
<1>10. 1 \in Lba /\ \A k \in Offset : EntriesStart + k \in Lba
  BY TableOnDisk, SizeFacts, SMT DEF Lba
<1>11. CASE WriteBackupHeader
  <2>1. pc = "backupheader" /\ pc' = "idle" /\ UNCHANGED <<total, call>>
    BY <1>11 DEF WriteBackupHeader
  <2>2. total \in 0 .. DiskSectors /\ total >= MinSectors BY <1>1, <2>1 DEF PartInv, Sizes
  <2>3. \A s \in Lba : s # total - 1 => disk'[s] = disk[s]
    BY <1>2, <1>11 DEF WriteBackupHeader
  <2>4. 1 # total - 1 /\ \A k \in Offset : EntriesStart + k # total - 1
    BY <2>2, SizeFacts, SMT DEF Offset
  <2> QED BY <1>1, <1>10, <2>1, <2>3, <2>4, NewReadable
<1>12. CASE Restart
  <2>1. pc = "idle" /\ pc' = "idle" /\ UNCHANGED <<disk, call, before, sound, lost>>
    BY <1>12 DEF Restart, Reboot
  <2>2. Readable(before)' <=> Readable(before)
    BY <2>1 DEF Readable, Valid, BackupValid, IsHeader, HoldsTable
  <2>3. Readable(call.table)' <=> Readable(call.table)
    BY <2>1 DEF Readable, Valid, BackupValid, IsHeader, HoldsTable
  <2> QED BY <1>1, <2>1, <2>2, <2>3 DEF OldOrNew
<1>13. CASE Crash
  <2>1. pc # "idle" /\ pc' = "idle" /\ UNCHANGED <<call, before, sound>> /\ ~lost
    BY <1>13 DEF Crash, Reboot, RecoveryInv, LostAtEnd
  <2>2. CASE UNCHANGED disk /\ lost' = (lost \/ pc = "header")
    <3>1. CASE pc = "header" BY <2>2, <3>1 DEF OldOrNew
    <3>2. CASE pc = "backupheader" BY <1>1, <2>1, <2>2, <3>2, NewReadable
    <3>3. CASE pc \in {"read", "primary", "backup"}
      BY <1>1, <1>3, <1>4, <2>1, <2>2, <3>3, BackupKept
    <3> QED BY <2>1, <3>1, <3>2, <3>3 DEF RecoveryInv, VarsTyped, Locations
  <2>3. CASE pc = "primary" /\ (\E n \in Partial : WriteEntries(EntriesStart, n))
    <3>1. PICK n \in 0 .. EntrySectors : WriteEntries(EntriesStart, n)
      BY <2>3, WriteSizes, Zenon
    <3>2. BackupUntouched BY <1>2, <3>1, PrimaryApart
    <3> QED BY <1>1, <1>4, <2>1, <2>3, <3>2, BackupKept
  <2>4. CASE lost' BY <2>4 DEF OldOrNew
  <2>5. \/ UNCHANGED disk /\ lost' = (lost \/ pc = "header")
        \/ pc = "primary" /\ (\E n \in Partial : WriteEntries(EntriesStart, n))
        \/ lost'
    BY <1>13, Zenon DEF Crash
  <2> QED BY <2>2, <2>3, <2>4, <2>5
<1>14. CASE UNCHANGED partVars
  <2>1. UNCHANGED <<disk, pc, call, before, sound, lost>> BY <1>14 DEF partVars
  <2>2. Readable(before)' <=> Readable(before)
    BY <2>1 DEF Readable, Valid, BackupValid, IsHeader, HoldsTable
  <2>3. Readable(call.table)' <=> Readable(call.table)
    BY <2>1 DEF Readable, Valid, BackupValid, IsHeader, HoldsTable
  <2>4. BackupHolds(before)' <=> BackupHolds(before)
    BY <2>1 DEF BackupHolds, Valid, BackupValid, IsHeader, HoldsTable
  <2> QED BY <1>1, <2>1, <2>2, <2>3, <2>4 DEF OldOrNew
<1> QED BY <1>5, <1>6, <1>7, <1>8, <1>9, <1>11, <1>12, <1>13, <1>14 DEF Next, CallStep

LEMMA LostStep ==
  ASSUME LostAtEnd, [Next]_partVars
  PROVE  LostAtEnd'
<1> USE DEF LostAtEnd, Return, KeepHistory
<1>1. CASE \E r \in Ranges : BeginCreate(r) \/ \E i \in Index : BeginUpdate(i, r)
  BY <1>1 DEF BeginCreate, BeginUpdate, Remember
<1>2. CASE ReadEntries BY <1>2 DEF ReadEntries
<1>3. CASE WritePrimary BY <1>3 DEF WritePrimary
<1>4. CASE WriteBackup BY <1>4 DEF WriteBackup
<1>5. CASE WriteHeader BY <1>5 DEF WriteHeader
<1>6. CASE WriteBackupHeader BY <1>6 DEF WriteBackupHeader
<1>7. CASE Restart \/ Crash BY <1>7 DEF Restart, Crash, Reboot
<1>8. CASE UNCHANGED partVars BY <1>8 DEF partVars
<1> QED BY <1>1, <1>2, <1>3, <1>4, <1>5, <1>6, <1>7, <1>8 DEF Next, CallStep

LEMMA RecoveryInit == Init => RecoveryInv
<1> SUFFICES ASSUME Init PROVE RecoveryInv
  OBVIOUS
<1>1. PartInv BY PartInit
<1>2. DOMAIN disk = Lba /\ \A l \in Lba : disk[l] = Blank BY DEF Init
<1>3. \A l \in Lba : SectorTyped(l, disk[l])
  BY <1>2, EmptyTables DEF Blank, EntriesSector, SectorTyped, SectorKinds
<1>4. DiskTyped /\ SectorsFit BY <1>2, <1>3, SectorsTyped
<1>5. VarsTyped
  <2>1. call \in CallType BY EmptyTables DEF Init, NoCall, CallType
  <2>2. /\ count \in 0 .. MaxPartitions
        /\ faults \in 0 .. MaxFaults /\ crashes \in 0 .. MaxCrashes
    BY PartitionAssumption, SMT DEF Init
  <2>3. before \in TableSet BY EmptyTables DEF Init
  <2> QED BY <2>1, <2>2, <2>3 DEF Init, VarsTyped, Locations
<1>6. RoomKept /\ OldOrNew /\ LostAtEnd BY DEF Init, RoomKept, OldOrNew, LostAtEnd
<1> QED BY <1>1, <1>4, <1>5, <1>6 DEF RecoveryInv

LEMMA RecoveryNext ==
  ASSUME RecoveryInv, [Next]_partVars
  PROVE  RecoveryInv'
<1>1. PartInv' BY PartNext DEF RecoveryInv
<1>2. LostAtEnd' BY LostStep DEF RecoveryInv
<1> QED BY <1>1, <1>2, DiskStep, VarsStep, CopiesStep DEF RecoveryInv

-----------------------------------------------------------------------------
(* The theorems.                                                           *)

\* For all values of the constants: every sector, counter and local of the calls
\* keeps its type; the number of partitions stays within MAX_PARTITIONS.
THEOREM PartTypeCorrect == PartSpec => []PartTypeOK
<1>1. RecoveryInv /\ [Next]_partVars => RecoveryInv' BY RecoveryNext
<1>2. RecoveryInv => PartTypeOK
  BY DEF RecoveryInv, PartInv, Sizes, DiskTyped, VarsTyped, PartTypeOK
<1> QED BY RecoveryInit, <1>1, <1>2, PTL DEF PartSpec

\* For all values of the constants: wherever create_partition or update_partition
\* stops, of a failed access or a crash, one copy of the table is valid and is the
\* old table or the new, if both were valid before and the call did not stop
\* between the backup entries and the primary header.
THEOREM RecoverableAlways == PartSpec => []Recoverable
<1>1. RecoveryInv /\ [Next]_partVars => RecoveryInv' BY RecoveryNext
<1>2. RecoveryInv => Recoverable
  <2> SUFFICES ASSUME RecoveryInv, sound, ~lost, pc # "header"
               PROVE  Readable(before) \/ Readable(call.table)
    BY DEF Recoverable
  <2>1. OldOrNew BY DEF RecoveryInv
  <2>2. BackupHolds(before) => Readable(before) BY DEF BackupHolds, Readable
  <2>3. CASE pc = "backupheader"
    <3>1. /\ HoldsTable(EntriesStart, call.table)
          /\ disk[1] = HeaderSector(1, total - 1, EntriesStart, call.table)
      BY <2>3 DEF RecoveryInv, PartInv, Progress
    <3>2. /\ disk[1].kind = "header" /\ disk[1].at = 1
          /\ disk[1].entries = EntriesStart /\ disk[1].crc = call.table
      BY <3>1 DEF HeaderSector
    <3>3. 1 \in Lba BY SizeFacts, SMT DEF Lba
    <3> QED BY <3>1, <3>2, <3>3 DEF Readable, Valid, IsHeader
  <2> QED BY <2>1, <2>2, <2>3 DEF OldOrNew, RecoveryInv, VarsTyped, Locations
<1> QED BY RecoveryInit, <1>1, <1>2, PTL DEF PartSpec
==============================================================================

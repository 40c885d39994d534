-------------------------- MODULE PartitionManager --------------------------
(***************************************************************************)
(* The partition table: create_partition and update_partition of           *)
(* partition_manager.c with create_gpt_header of gpt.c, one disk_write at  *)
(* a time, on a disk that starts out blank.                                *)
(*                                                                         *)
(* The partition entries fill EntrySectors sectors: sector k holds the     *)
(* entries <<k, 0>>, <<k, 1>>, ...  A table is a function from sectors to  *)
(* their entries.  A checksum is modelled by what it was computed of.      *)
(* Names, attributes and GUIDs are left out: an entry is its first and its *)
(* last sector.                                                            *)
(***************************************************************************)
EXTENDS Integers

CONSTANTS
  DiskSectors,       \* sectors of the disk
  EntrySectors,      \* sectors of the entries: 32
  EntriesPerSector,  \* entries of a sector: 4
  MinSectors,        \* what create_gpt_header asks for: 128
  MaxPartitions,     \* MAX_PARTITIONS: 4
  Ranges,            \* the partitions the program asks for, with start and sectors
  MaxFaults,         \* bound on disk reads and writes that fail
  MaxCrashes         \* bound on crashes

ASSUME PartitionAssumption ==
  /\ EntrySectors \in Nat \ {0} /\ EntriesPerSector \in Nat \ {0}
  /\ MinSectors \in Nat /\ MinSectors >= 2 * EntrySectors + 3
  /\ DiskSectors \in Nat /\ DiskSectors >= MinSectors
  /\ MaxPartitions \in 1 .. EntrySectors * EntriesPerSector
  /\ Ranges \subseteq [start : Nat, sectors : 0 .. DiskSectors]
  /\ MaxFaults \in Nat /\ MaxCrashes \in Nat

VARIABLES
  disk,     \* disk[l]: what sector l holds
  count,    \* partition_count, in memory
  total,    \* total_sectors, in memory
  pc,       \* where the running call is
  call,     \* its locals: the index of the entry and the table it writes
  result,   \* what the last call returned
  sound,    \* history: both copies of the table were valid when the call began
  before,   \* history: and if so, the table
  lost,     \* history: the call stopped where neither copy need be valid
  faults,   \* failed accesses so far (bounded by MaxFaults)
  crashes   \* crashes so far (bounded by MaxCrashes)

partVars ==
  <<disk, count, total, pc, call, result, sound, before, lost, faults, crashes>>

-----------------------------------------------------------------------------
Lba == 0 .. DiskSectors - 1

Offset == 0 .. EntrySectors - 1

Index == Offset \X (0 .. EntriesPerSector - 1)

\* The entry with number n, counted from 0.
AtIndex(n) == <<n \div EntriesPerSector, n % EntriesPerSector>>

\* An entry whose type GUID is zero.
Unused == [first |-> 0, last |-> 0]

\* create_gpt_partition_entry; for no sectors at all it ends before its start.
EntryOf(r) == [first |-> r.start, last |-> r.start + r.sectors - 1]

UnusedEntries == [j \in 0 .. EntriesPerSector - 1 |-> Unused]

EmptyTable == [k \in Offset |-> UnusedEntries]

EntrySet == {EntryOf(r) : r \in Ranges} \cup {Unused}

TableSet == [Offset -> [0 .. EntriesPerSector - 1 -> EntrySet]]

EntriesSector(entries) == [kind |-> "entries", entries |-> entries]

\* create_protective_mbr.
MbrSector(sectors) == [kind |-> "mbr", sectors |-> sectors]

\* create_gpt_header: at is current_lba, other is backup_lba.
HeaderSector(at, other, entries, table) ==
  [kind |-> "header", at |-> at, other |-> other, entries |-> entries, crc |-> table]

\* A sector of zeros reads as unused entries.
Blank == EntriesSector(UnusedEntries)

EntriesStart == 2  \* GPT_ENTRIES_START_LBA

\* Mutant: one sector too far.
BackupLbaShort(sectors) == sectors - EntrySectors

\* backup_entries_lba, before it is cut to 64 bits without a sign.
BackupLba(sectors) == sectors - EntrySectors - 1

\* disk_write ignores that lseek refuses a position past 2^63 bytes, which is what
\* a negative sector number becomes: it writes from sector 0 on.
PlaceOf(lba) == IF lba < 0 THEN 0 ELSE lba

-----------------------------------------------------------------------------
(* What a reader of the disk makes of it.                                  *)

\* The entries in EntrySectors sectors from l on, as they are.
Sectors(l) == [k \in Offset |-> disk[l + k]]

TableAt(l) == [k \in Offset |-> disk[l + k].entries]

HoldsTable(l, table) == \A k \in Offset : disk[l + k] = EntriesSector(table[k])

IsHeader(l) == l \in Lba /\ disk[l].kind = "header"

\* A header at its own place whose checksum is that of the entries it names.
Valid(l) == IsHeader(l) /\ disk[l].at = l /\ HoldsTable(disk[l].entries, disk[l].crc)

\* The backup is found through the primary header, valid or not.
BackupValid == IsHeader(1) /\ Valid(disk[1].other)

BothValid == Valid(1) /\ BackupValid /\ disk[disk[1].other].crc = disk[1].crc

Readable(table) ==
  \/ Valid(1) /\ disk[1].crc = table
  \/ ~Valid(1) /\ BackupValid /\ disk[disk[1].other].crc = table

EntryAt(i) == disk[EntriesStart + i[1]].entries[i[2]]

-----------------------------------------------------------------------------
Locations == {"idle", "read", "primary", "backup", "header", "backupheader"}

NoCall == [op |-> "none", range |-> Unused, index |-> AtIndex(0), table |-> EmptyTable]

CallType ==
  [op : {"none", "create", "update"}, range : EntrySet, index : Index, table : TableSet]

SectorKinds == {"entries", "mbr", "header"}

PartTypeOK ==
  /\ DOMAIN disk = Lba
  /\ \A l \in Lba :
       /\ disk[l].kind \in SectorKinds
       /\ disk[l].kind = "entries" =>
            disk[l].entries \in [0 .. EntriesPerSector - 1 -> EntrySet]
       /\ disk[l].kind = "header" => disk[l].crc \in TableSet /\ disk[l].other \in Lba
  /\ count \in 0 .. MaxPartitions
  /\ total \in 0 .. DiskSectors
  /\ pc \in Locations
  /\ call \in CallType
  /\ result \in BOOLEAN
  /\ before \in TableSet
  /\ sound \in BOOLEAN /\ lost \in BOOLEAN
  /\ faults \in 0 .. MaxFaults /\ crashes \in 0 .. MaxCrashes

Init ==
  /\ disk = [l \in Lba |-> Blank]
  /\ count = 0
  /\ total = 0
  /\ pc = "idle"
  /\ call = NoCall
  /\ result = FALSE
  /\ before = EmptyTable
  /\ sound = FALSE
  /\ lost = FALSE
  /\ faults = 0
  /\ crashes = 0

NoFault == UNCHANGED faults

Fault == faults < MaxFaults /\ faults' = faults + 1

Return(value) == pc' = "idle" /\ result' = value

\* The history of a call that begins.
Remember ==
  /\ sound' = BothValid
  /\ before' = IF BothValid THEN TableAt(EntriesStart) ELSE EmptyTable
  /\ lost' = FALSE

KeepHistory == UNCHANGED <<before, sound, lost>>

\* The first n sectors of the table of the call go to the disk from l on.
WriteEntries(l, n) ==
  disk' = [s \in Lba |-> IF s \in l .. l + n - 1 THEN EntriesSector(call.table[s - l])
                         ELSE disk[s]]

Partial == 0 .. EntrySectors - 1

-----------------------------------------------------------------------------
(* create_partition.                                                       *)

\* total_sectors becomes the size of the partition, and the MBR says so, before
\* anything is checked.
BeginCreate(r) ==
  /\ pc = "idle"
  /\ total' = r.sectors
  /\ Remember
  /\ call' = [NoCall EXCEPT !.op = "create", !.range = EntryOf(r)]
  /\ \/ /\ disk' = [disk EXCEPT ![0] = MbrSector(r.sectors)]
        /\ pc' = "read" /\ UNCHANGED result /\ NoFault
     \/ UNCHANGED disk /\ Return(FALSE) /\ Fault
  /\ UNCHANGED <<count, crashes>>

\* Mutant: one partition too many.
RoomLeftPlusOne == count <= MaxPartitions

RoomLeft == count < MaxPartitions

\* Mutant: the result of the read is ignored.
ReadEntriesUnchecked ==
  /\ pc = "read"
  /\ \/ /\ RoomLeft
        /\ \/ NoFault /\ call' = [call EXCEPT
                !.index = AtIndex(count),
                !.table = [TableAt(EntriesStart) EXCEPT
                             ![AtIndex(count)[1]][AtIndex(count)[2]] = call.range]]
           \/ Fault /\ call' = [call EXCEPT
                !.index = AtIndex(count),
                !.table = [EmptyTable EXCEPT
                             ![AtIndex(count)[1]][AtIndex(count)[2]] = call.range]]
        /\ pc' = "primary" /\ UNCHANGED result
     \/ ~RoomLeft /\ Return(FALSE) /\ NoFault /\ UNCHANGED call
  /\ KeepHistory
  /\ UNCHANGED <<disk, count, total, crashes>>

\* The slot comes from the counter in memory; what the disk has in it is replaced.
ReadEntries ==
  /\ pc = "read"
  /\ \/ /\ RoomLeft
        /\ call' = [call EXCEPT
             !.index = AtIndex(count),
             !.table = [TableAt(EntriesStart) EXCEPT
                          ![AtIndex(count)[1]][AtIndex(count)[2]] = call.range]]
        /\ pc' = "primary" /\ UNCHANGED result /\ NoFault
     \/ ~RoomLeft /\ Return(FALSE) /\ NoFault /\ UNCHANGED call
     \/ RoomLeft /\ Return(FALSE) /\ Fault /\ UNCHANGED call
  /\ KeepHistory
  /\ UNCHANGED <<disk, count, total, crashes>>

-----------------------------------------------------------------------------
(* update_partition.  What it refuses, and a failed read, change nothing.  *)

BeginUpdate(i, r) ==
  /\ pc = "idle"
  /\ EntryAt(i) # Unused
  /\ call' = [op |-> "update", range |-> EntryOf(r), index |-> i,
              table |-> [TableAt(EntriesStart) EXCEPT ![i[1]][i[2]] = EntryOf(r)]]
  /\ pc' = "primary"
  /\ Remember
  /\ UNCHANGED <<disk, count, total, result, faults, crashes>>

-----------------------------------------------------------------------------
(* The writes of both.                                                     *)

\* Mutant: the result is ignored.
WritePrimaryUnchecked ==
  /\ pc = "primary"
  /\ \/ WriteEntries(EntriesStart, EntrySectors) /\ NoFault
     \/ \E n \in Partial : WriteEntries(EntriesStart, n) /\ Fault
  /\ pc' = "backup"
  /\ KeepHistory
  /\ UNCHANGED <<count, total, call, result, crashes>>

WritePrimary ==
  /\ pc = "primary"
  /\ \/ WriteEntries(EntriesStart, EntrySectors) /\ pc' = "backup" /\ UNCHANGED result /\ NoFault
     \/ \E n \in Partial : WriteEntries(EntriesStart, n) /\ Return(FALSE) /\ Fault
  /\ KeepHistory
  /\ UNCHANGED <<count, total, call, crashes>>

WriteBackup ==
  /\ pc = "backup"
  /\ LET l == PlaceOf(BackupLba(total))
     IN  \/ /\ WriteEntries(l, EntrySectors)
            /\ pc' = "header" /\ UNCHANGED <<result, lost>> /\ NoFault
         \/ \E n \in Partial :
              WriteEntries(l, n) /\ Return(FALSE) /\ Fault /\ lost' = (n > 0)
  /\ UNCHANGED <<count, total, call, before, sound, crashes>>

\* create_gpt_header checks the size when the entries are written.
WriteHeader ==
  /\ pc = "header"
  /\ \/ /\ total >= MinSectors
        /\ disk' = [disk EXCEPT ![1] =
                      HeaderSector(1, total - 1, EntriesStart, call.table)]
        /\ pc' = "backupheader" /\ UNCHANGED <<result, lost>> /\ NoFault
     \/ /\ (total < MinSectors /\ NoFault) \/ (total >= MinSectors /\ Fault)
        /\ Return(FALSE) /\ lost' = TRUE /\ UNCHANGED disk
  /\ UNCHANGED <<count, total, call, before, sound, crashes>>

WriteBackupHeader ==
  /\ pc = "backupheader"
  /\ \/ /\ disk' = [disk EXCEPT ![total - 1] =
                      HeaderSector(total - 1, 1, total - EntrySectors - 1, call.table)]
        /\ count' = IF call.op = "create" THEN count + 1 ELSE count
        /\ Return(TRUE) /\ NoFault
     \/ UNCHANGED <<disk, count>> /\ Return(FALSE) /\ Fault
  /\ KeepHistory
  /\ UNCHANGED <<total, call, crashes>>

-----------------------------------------------------------------------------
(* The end of the program, and a new run of it, which knows nothing of the *)
(* table on the disk.                                                      *)

Reboot ==
  /\ count' = 0 /\ total' = 0
  /\ Return(FALSE)
  /\ UNCHANGED <<call, before, sound, faults>>

Restart ==
  /\ pc = "idle" /\ total # 0
  /\ Reboot
  /\ UNCHANGED <<disk, lost, crashes>>

\* The machine stops between two writes, or in one.
Crash ==
  /\ pc # "idle"
  /\ crashes < MaxCrashes /\ crashes' = crashes + 1
  /\ Reboot
  /\ \/ UNCHANGED disk /\ lost' = (lost \/ pc = "header")
     \/ /\ pc = "primary"
        /\ \E n \in Partial : WriteEntries(EntriesStart, n)
        /\ UNCHANGED lost
     \/ /\ pc = "backup"
        /\ \E n \in Partial \ {0} : WriteEntries(PlaceOf(BackupLba(total)), n)
        /\ lost' = TRUE

CallStep ==
  \/ ReadEntries \/ WritePrimary \/ WriteBackup \/ WriteHeader \/ WriteBackupHeader

Next ==
  \/ \E r \in Ranges : BeginCreate(r) \/ \E i \in Index : BeginUpdate(i, r)
  \/ CallStep
  \/ Restart
  \/ Crash

PartSpec == Init /\ [][Next]_partVars

-----------------------------------------------------------------------------
(* What is required of the partition table.                                *)

\* When a call has returned true both copies of the table are valid and hold what
\* it wrote, so that no write of a call overwrites an earlier one of the same call.
CopiesAgree ==
  pc = "idle" /\ result => BothValid /\ disk[1].crc = call.table

\* A call that begins with both copies valid can stop anywhere: one copy is left
\* that holds the table of before the call or of after it.  The code leaves one
\* window, from the backup entries to the primary header.
Recoverable ==
  sound /\ ~lost /\ pc # "header" => Readable(before) \/ Readable(call.table)

\* The copies lie apart; the size is checked too late to ensure it.
Apart == BackupLba(total) >= EntriesStart + EntrySectors

\* No step of a call, nor a crash in one, changes an entry but the one the call is
\* about, as long as the backup lies behind the primary entries.
OtherEntriesKept ==
  [][\A i \in Index : EntryAt(i)' # EntryAt(i) =>
       i = call.index \/ (pc = "backup" /\ ~Apart)]_partVars

-----------------------------------------------------------------------------
(* What a comment of the source promises, and TLC refutes.                 *)

\* gpt.c, "Backup GPT header at last LBA": the last sector of the disk holds a
\* valid header when a partition was created.
BackupAtEnd ==
  pc = "idle" /\ result => Valid(DiskSectors - 1)
=============================================================================

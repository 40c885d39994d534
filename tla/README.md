# A TLA+ verification of fat32_fs

fat32_fs is a small FAT32 file system library in C, working on a raw disk image
with a GUID partition table.  It is single-threaded: one call runs at a time.
What makes it hard is that a call is a sequence of sector reads and writes, each
of which may fail (the code often ignores that), that the machine may stop
between any two of them, and that a good part of the state is kept twice: in two
copies of the FAT, in a directory entry and in the handles opened from it, in
the FAT and in an allocation hint.

This directory holds TLA+ models of the library, the TLC configurations that
check them, and proofs for TLAPS.  `PROJECT.json` lists the runs, the findings,
the hazards, the theorems and, for each definition, the source lines it models.
To check a run: `tlc -config FileCalls.cfg MCFileManager.tla`; to check the
proofs: `tlapm ClusterProofs.tla`, and the same for `FatChains`, `ClusterChains`,
`FileProofs`, `VolumeProofs`, `DirProofs`, `DirStoreProofs` and `PartitionProofs`.

## 1. Inventory

| Component | Source | State | Operations |
|---|---|---|---|
| Cluster allocator and chains | `cluster_manager.c` 23-415, `fat32_bpb.c` 80-160, `fat.c` | the FAT, in `BPB_NumFATs` copies; the hint `fat32_free_cluster_no` in memory | allocate one, allocate a chain, write a chain, append, free, set/get next, count, validate, read a chain |
| File calls | `file_manager.c` | handles (`FAT32_FILE`: first cluster, size, position, place of the entry); bytes of clusters; size and first cluster in entries | open, close, sync, read, write, lseek, truncate, expand, forward, gets, putc, puts, printf, stat, unlink |
| Directory entries and paths | `cluster_manager.c` 367-972, `lfn.c` | the 32-byte slots of a directory: free, deleted, short entries, runs of long-name entries | find room, create an entry, create a directory, find a file, find a directory, resolve a path |
| Directory calls | `dir_manager.c` | the current directory; `FAT32_DIR` cursors | cwd, chdir, getcwd, opendir, readdir, closedir, mkdir, rename, findfirst, findnext |
| Geometry, format, mount | `fat32_bpb.c`, `fat32_mount.c`, `fat.c`, `fat32_fsinfo.c` | boot sector and its copy in memory, base address, FSInfo | create a volume, initialise the FATs, label, mount |
| Partition table | `partition/*.c` | protective MBR, two headers and two arrays of entries with checksums; the size and the number of partitions, in memory | create, update a partition |
| Disk access | `diskio.c`, `fat32_utility.c` | the image file | read and write sectors |
| Demonstration and build | `fat32.c`, `test/main.c`, `Makefile` | none | a fixed sequence of calls |

### How they interact

The file and directory calls call the allocator and the entry functions
directly and share four globals: the boot sector copy, the base address, the
hint, and the current directory.  No call-back leaves the library, except the
one f_forward is given.  A handle remembers the cluster and offset of its
directory entry; f_sync and f_close write size and first cluster to whatever is
at that place now.  The allocator knows nothing of its callers: a chain that
its caller forgets is lost, and a chain that a directory entry still names after
it was freed leads into free space.

### What is hard, and what must be true

* **Allocator.**  A call writes up to `2 * BPB_NumFATs * count` sectors.  A
  failed mark is ignored, a failed read is indistinguishable from a free entry
  (both are 0), freeing stops at the first failure.  It must be that *no cluster
  is ever on two chains*, whatever fails; that a crash anywhere in an allocating
  call leaves *links only to marked clusters*; that the copies of the FAT differ
  only where a write is going on; that the unbounded walks end; that nothing is
  lost when nothing fails.
* **File calls.**  Every byte written must be where a later read looks for it;
  files must stay apart through every reuse of clusters and slots; the size in
  an entry must be covered by its chain at every moment at which the machine may
  stop; a call that fails half-way must not touch other files, or bytes outside its
  range.
* **Directory entries.**  Slots are reused in runs; an entry set is written in
  several sectors of one cluster; a name must resolve to one entry, before and
  after any sequence of create, rename and unlink; a run of long-name entries
  must never outlive its short entry.
* **Directory calls.**  rename makes the new entry before it deletes the old
  one; mkdir fills a cluster before it has room for the entry; a cursor of
  readdir walks over slots that other calls change.
* **Geometry and format.**  Cluster, sector and FAT index arithmetic must keep
  the areas of a volume apart, for every legal size.  Formatting and mounting
  alternate between volumes (the demonstration formats two and mounts the
  first), with one BPB in memory that places every write: no volume may be
  written through another one's BPB, and a format that returned true must leave
  nothing of an older FAT behind.
* **Partition table.**  Four structures and two checksums must agree after every
  complete update, and one good copy must be left by an interrupted one.

`PROJECT.json` lists the hazards one by one with their lines.  Those no property
covers say why.

## 2. Modules

| Module | Models | Role |
|---|---|---|
| `FatEntry` | values of a FAT entry | shared definitions |
| `FatTable` | one copy of the FAT as a function, the chain of clusters from a cluster on | shared definitions |
| `ClusterManager` | the allocator, one FAT sector write per step | component |
| `ChainStore` | an owner has a sequence of clusters; each call changes one of them at once | abstract specification |
| `ClusterRefinement` | which sector write makes which abstract change | refinement mapping |
| `ClusterInvariant` | `Inductive` | inductive invariant |
| `ClusterProofs` | type correctness, `Inductive`, `NoCrossLink`, `MirrorExact`, `MirrorHeals`, `CrashSafe` | theorems |
| `FatChains` | paths, chains, circles; what one changed entry does to them | lemmas |
| `ClusterChains` | `ImplementsChainStore`, `SpaceAccounted` | theorems |
| `FatCalls` | the allocator's calls as functions of a FAT and a hint | shared definitions |
| `FileManager` | the file calls on the files of one directory | component |
| `FileStore` | a file is a sequence of bytes, a handle a position in it | abstract specification |
| `FileRefinement` | a file's bytes read off its chain | refinement mapping |
| `FileProofs` | `FileTypeOK`, `FilesDisjoint`, `SizesCovered`, `OneFileChanges`, `WritesInRange`, `ImplementsFileStore` | theorems |
| `VolumeGeometry` | where the areas of a volume of n sectors are | pure arithmetic |
| `VolumeManager` | formatting and mounting the volumes of a disk, one write per step | component |
| `VolumeProofs` | clusters inside the volume, volumes apart, `MountedSound` | theorems |
| `DirEntries` | the slots of directory clusters, and what the scans find in them | shared definitions |
| `DirManager` | the calls that create, move, delete and list entries, one cluster write per step | component, on top of `FatCalls` and `DirEntries` |
| `DirStore` | a set of entries; a call adds one or takes one away | abstract specification |
| `DirRefinement` | the entries read off the clusters of the tree | refinement mapping |
| `DirProofs` | `DirTypeOK`, `EndMarksLast`, `LongNamesWhole`, `DirectoriesSound`, `EntriesSound`, `EntriesFound`, `EntryStays`, `PassExact`, `ListedOnce`, `TreeSound` | theorems |
| `DirStoreProofs` | `ImplementsDirStore` | theorem |
| `PartitionManager` | create and update a partition, one disk write per step | component |
| `PartitionProofs` | `PartTypeOK`, `CopiesAgree`, `OtherEntriesKept`, `Recoverable` | theorems |
| `MCClusterManager`, `MCFileManager`, `MCVolumeManager`, `MCDirManager`, `MCPartitionManager` | symmetries, model values, names and sizes | TLC instances |

### ClusterManager

A step is the write of one sector of one FAT copy, or the reads and assignments
between two writes.  `pc` says where the running call is and `call` holds its
locals; `write` is the `fat32_set_next_cluster` in progress, which reads the
sector from the first copy, patches one entry and writes the sector to every
copy in turn.  The callers are represented by what they remember: `held[o]`, the
first cluster the program has for file or directory `o`, and `disk[o]`, the one
its directory entry names.  `Persist` is the write of that entry, `Crash` and
`Restart` forget the first and keep the second, and reset the hint.

| Code | Steps |
|---|---|
| `fat32_set_next_cluster` | `SetNext` (the check), then `WriteFat` once per copy, or `WriteFatFails` |
| `fat32_allocate_cluster` | `Scan` (or `ScanFails`), the mark, `Marked` (the hint moves, also when the mark failed) |
| `fat32_allocate_cluster_chain`, `fat32_write_cluster_chain` | `CallBuild`, allocate, `BuildNext` (or `DataWriteFails`), link, `BuildLinked`, end mark, `BuildEnded` |
| `fat32_append_cluster` | `CallAppend`, allocate, `Walk` (or `WalkReadFails`), link, `AppendLinked`, end mark, `AppendEnded` |
| `fat32_free_cluster_chain` | `CallFree`, then per cluster `Free` (or `FreeReadFails`), the write, `Freed` |
| tail of `f_truncate` | `CallCut`, the end mark, `Cut`, then as free |

The scan for a free cluster is one step, since reading changes nothing; the scan
that fails before it is another.  The end mark `allocate` writes and the second
one of `allocate_chain` and `append` are both there, as in the code.

### FileManager

A step is a whole call, but for the two calls that change the disk in several
places of their own: f_write is a step per cluster (walk, patch, advance), and
f_unlink is two (free the chain, then delete the entry).  The FAT is one
table here: what happens inside an allocator call is `ClusterManager`'s subject,
`FatCalls` gives its effect as a function.  `slots` are the directory's entries,
`files[h]` the handle: slot, first cluster, position and size, a copy that
nothing but f_sync and f_close compares with the entry.  Bytes are numbered by
their place in the caller's buffer, so that a byte stored in the wrong place,
or in the wrong file, shows.

The following of the code is kept as it is: FA_CREATE_ALWAYS does not truncate
and the mode is never checked; f_lseek computes a cluster that nothing uses and
clamps to the size; f_write takes the end-of-chain value for a cluster (its data
access then fails, on the volumes meant here); f_expand on a file that has a
chain allocates clusters, fails to link them and returns true; a failed FAT read
looks like a 0 entry to all of them.

**The rule of the client.**  A handle is a copy and nothing keeps two of them in
step, so no property of files holds for a program that writes through two
handles at once.  The program modelled changes a file only through its sole open
handle, opens it again only when that handle's size and first cluster are saved,
and does not unlink an open file.  This is the rule the demonstration programs
follow; nothing in the code enforces it.

### VolumeGeometry and VolumeManager

`VolumeGeometry` is the arithmetic of `fat32_bpb.c` and of the size classes in
`create_fat32_volume`, on true sector numbers: a 16-sector cluster begins where
the code says, and the FAT has the two estimates of its size that the code
makes, one after the other.  `FirstSectorPastEnd` is where the "cluster"
`0x0FFFFFFF` begins that f_write goes on to when a chain is too short: past the
end of the device, but with 16 sectors to a cluster the sum wraps in 32 bits,
and it is 48 sectors before the data, in the second FAT.

`VolumeManager` has a disk of several volumes, each known by eight areas (boot
sector, FSInfo, backup, first sector and rest of each FAT copy, root directory),
and what was last written to each.  A write is a range of sectors; it changes
every area, *of any volume*, that the range meets.  So a wrong address shows as
damage where it lands.  `DiskSectors` is the size of the disk, below 2^28 sectors:
then a start that fits the 32 bits of `BPB_HiddSec` fits with every sector added to it,
and the cluster past the end of the chain is off the disk where it does not wrap.
`Used[v]` are the clusters of volume `v` that the file calls use; any of those
the volume has, in the theorems.

| Code | Steps |
|---|---|
| `create_fat32_volume` | `BeginFormat` (the new BPB replaces the one in memory), `FormatWrite` eight times, `FormatWriteFails` |
| `fat32_mount` | `BeginMount` (read the boot sector over the BPB, then validate it), `WriteLabel`, `WriteLabelFails` |
| `fat32_set_next_cluster`, called by the file and directory calls on the mounted volume | `BeginUpdate`, then `UpdateFat` once for each copy of the FAT; `UpdateFails` leaves the copies that follow as they are |
| `fat32_write_cluster`, of a cluster in use or of the one an end-of-chain mark is taken for; all of it or a part | `WriteCluster` |
| | `Crash`, in the middle of a write of several sectors too |

`bpb` is the volume whose boot sector the program holds, `"junk"` after a mount
that failed its validation (it leaves the junk in memory).  `mounted` is what a
program goes by: the volume whose mount was its last call and returned true.

### DirEntries and DirManager

`slots[c]` are the 32-byte slots of cluster `c`: an end mark (first byte 0), a
deleted slot (0xE5), a piece of a long name or a short entry.  The chains come
from the FAT, with `FatCalls`.  A name is a model value with an 8.3 form and a
number of long-name slots; names that need none and names that need one behave
differently in every scan.  The scans are operators of `DirEntries`, each with
the peculiarities of its C function, for no two of them agree:

| Scan | End mark | Deleted slot | Finds | Compares |
|---|---|---|---|---|
| `FreeRuns` (`find_contiguous_free_entries`) | free | free | the first run in one cluster | |
| `FileMatches` (`find_file`) | ends the cluster | keeps the long-name buffer | files and directories | long name up to its end, 8.3 form |
| `DirExists` (`dir_exists`) | ends the directory | clears the buffer | directories | whole buffer, 8.3 form |
| `FindDir` (`find_dir`) | ends the directory | | directories, in a directory of one cluster only | 8.3 form |
| `Stops` (`f_readdir`, `f_findnext`) | stops, and the position steps over it | | everything, 8.3 forms | |

| Code | Steps |
|---|---|
| `f_mkdir` | `CallMkdir` (look, allocate), `ClearNew`, `InitNew`, then as `create_dir_entry` |
| `fat32_create_dir_entry` | `PlaceInside`, or `PlaceBehind` and `ClearExtension`, or `PlaceFails`; `WriteEntry` |
| `f_open` of a missing file | `CallOpen`, then as `create_dir_entry` |
| `f_rename` | `CallRename` (find), `CheckTarget`, then as `create_dir_entry`, `DeleteEntry` |
| `f_unlink` | `CallUnlink` (find, free the chain), `DeleteEntry` |
| `f_chdir`, `f_cwd`; `f_opendir`, `f_readdir`, `f_findnext`, `f_closedir` | `ChangeDir`; `OpenDir`, `ReadStops`, `ReadEnds`, `ReadFails`, `CloseDir` |

A cluster write that fails or is cut off by `Crash` leaves its first sectors
written and the rest as it was (`Torn`).  A failed read is what the code makes of
it: "not there" in `dir_exists` (`NoDirectory`), the previous contents of the
buffer in `find_file` (`Misread`).  A failed read of the FAT is the end of the
directory (`WalkTo`): for f_open's search, for the search of free slots, which then
extends the directory though it has room, and for f_readdir, whose pass is over
(`ReadEnds`).  On `fat32_append_cluster`'s way to the last cluster it loses the link,
and the new cluster is nowhere on the directory's chain (`PlaceBehind`).  `raw` are the allocated clusters that were
not yet written as directories, and `pass` remembers what a pass of f_readdir
has returned.  Paths go down from the root or from `cwd`, in `MaxDepth`
components before the last.  ".." never resolves, because `format_83_name` takes
its dots for the start of an extension.

An entry of a file is a leaf without a chain here: chains of files are the
subject of `FileManager`, and what the two share is the place of the entry.

### PartitionManager

`disk[l]` is what sector `l` holds: entries, the protective MBR or a header.  A
table is a function from its sectors to their entries, and the checksum of a
header is the table it was computed of.  `count` and `total` are the two globals
of partition_manager.c, which a restart sets to 0.

| Code | Steps |
|---|---|
| `create_partition` | `BeginCreate` (size, MBR), `ReadEntries` (the limit, the read, the new entry), then the four writes |
| `update_partition` | `BeginUpdate` (read and change), then the four writes |
| both | `WritePrimary`, `WriteBackup`, `WriteHeader` (the size is checked here), `WriteBackupHeader` |

The disk is as large as the program needs, so a place "past the end" does not
occur; a place before sector 0 does, after a restart, and `PlaceOf` says where
such a write goes.  `sound`, `before` and `lost` are history: whether both copies
were valid when the call began, the table then, and whether the call stopped
where the code leaves a window.

## 3. Runs

| Run | Question | Instance |
|---|---|---|
| `cluster_calls` | Without failures and crashes, is each allocator call one atomic change of one chain (`ImplementsChainStore`)?  Is every cluster in use on a chain between calls (`SpaceAccounted`)?  Do the FAT copies agree outside the write in progress (`MirrorExact`)? | root and 2 files, 5 clusters, chains of up to 3, 2 copies, 3 entries to a sector |
| `cluster_failures` | With two failed accesses and one crash anywhere: do chains stay apart (`NoCrossLink`, by `Inductive`), does an interrupted call leave a FAT the next run can use (`CrashSafe`), does a later successful write repair the mirror (`MirrorHeals`), does every call return (`CallsReturn`)?  Does each call stay one atomic change across a crash as long as nothing failed (`ImplementsChainStore`)? | 4 clusters, chains of up to 2, all calls, no symmetry |
| `file_calls` | Do all file calls together do what `FileStore` says of the bytes (`ImplementsFileStore`)?  Are the files' chains disjoint and allocated (`FilesDisjoint`) and long enough for every size (`SizesCovered`)? | 2 names, 2 handles, 4 clusters of 2 bytes, writes of up to 2 bytes, f_expand of up to 3 |
| `file_crashes` | The same with a crash at any point, inside f_write too: a file keeps its bytes up to the size saved last | 2 names, 1 handle, no truncate, no unlink, the calls that read and sync added |
| `file_faults` | With a failed access and a crash: does a call change the bytes of one file at most (`OneFileChanges`), and f_write none outside its range, in its own file at least if not both happen (`WritesInRange`)?  Do the program's cluster numbers, sizes and positions stay in range (`FileTypeOK`)?  Truncating and unlinking included, and the dangling entries they leave | 2 names, 1 handle, clusters of 1 byte |
| `volume_format` | When two neighbouring volumes are formatted, mounted and used in any order, with a failed access and a crash at every write, of one FAT copy too: does a call ever change the other volume (`VolumesApart`)?  Is the BPB always that of the volume in use (`VolumeTypeOK`)?  Is there nothing in either FAT copy of a mounted volume that is older than its format, whatever the file calls wrote since (`MountedSound`)?  Are all clusters inside (`ClustersInside`)? | 57378 sectors (1-sector clusters, a FAT too small for the last of them) and 600000 (16-sector clusters), adjacent; clusters 2 and 128 and the last one in use |
| `dir_calls` | Is each of mkdir, open, rename, unlink, chdir one change of one entry (`ImplementsDirStore`), and do the directories stay a tree (`TreeSound`)? | 2 names, 4 clusters of 2 slots, paths of up to 2 names |
| `dir_failures` | With a failed access and a crash at every cluster write of mkdir, rename and unlink, torn writes included: do entries name finished directories (`EntriesSound`, `DirectoriesSound`), is nothing hidden behind an end mark (`EndMarksLast`), do long names stay whole (`LongNamesWhole`) and their entries found (`EntriesFound`), and is no directory lost to the tree (`EntryStays`)?  The failed access may be a read of the FAT, or the mark or the link of an allocation | 2 names, one of them long, 4 clusters of 3 slots and 3 sectors |
| `dir_reading` | Does a pass of f_readdir or f_findnext through a directory that other calls change return every entry that stays and that it goes by (`PassExact`), and no slot twice (`ListedOnce`)? | the root directory, 2 names, one of them long, 3 clusters of 2 slots, a failed read of a cluster or of the FAT |
| `gpt_updates` | With a failed access, a crash and restarts: do the copies of the table agree after every call that returned true (`CopiesAgree`), is one of them readable wherever a call stopped (`Recoverable`), and does no entry change but the one the call is about (`OtherEntriesKept`)? | 14 sectors, a table of 2 sectors with one entry each, two partitions with backups in overlapping places |
| `write_extends`, `backup_at_end` | Claims of the source's comments that the code does not keep; see *Findings* | as small as the counterexample allows |

**Why these bounds are enough.**  Five clusters are 2 for the root directory, three that the
scan can hand out and the last, which it cannot: three are the fewest that allow
two chains of which one has a middle, and a freed cluster reused by the other
owner.  With three entries in a sector, entries 0 to 6 take three sectors, so
that a chain crosses a sector and two entries of one sector belong to different
files: what the mirror properties are about.  Two copies show every order of
first and later copies, for the code treats all copies after the first alike.
`cluster_failures` has one cluster less and two failures: one that leaves damage
and one that meets it, before or after a crash; for `CallsReturn` it matters
that a walk goes wrong twice.  In the file runs one failure and one crash combine
in either order.  A cluster of two
bytes distinguishes its start, its middle and its end; a buffer of two bytes can
cross from one cluster into the next.  A chain of two clusters comes, as in the
code, only from f_expand of an empty file (or from a failed read): f_write
cannot extend one.  Of the four clusters of the file runs two can be handed
out, so a chain of two exhausts the volume and every cluster is reused.  Nothing counts calls: sequences of calls are
unbounded in every run.  Two volumes are enough for one to be damaged by a call
on the other; they touch, so that the first sector too far is seen.  Their sizes
take the two branches in which the cluster that the format clears does and does
not reach the backup boot sector; the smaller is one of those whose FAT is too
small, and in the larger f_write reaches the second FAT.  Cluster 2 has its entry in the
first sector of the FAT, 128 in the rest of it, and the last one behind it where the FAT is too
small.  Proofs cover all other sizes and clusters.  A directory's "." and ".."
fill a cluster of two slots, so that its first entry makes it grow; with three
slots there is room for a long name beside an entry, and for a run that does not
fit.  Of the four clusters two can be handed out: for two directories, or one and
its growth.  Two clusters of two slots are enough for a pass to cross a cluster
while the directory grows.  Two sectors of a table show a write of a part of it,
and two sizes a backup that overlaps an earlier one.

The bounds named in the guards are `MaxFaults`,
`MaxCrashes`, `MaxDepth`, `MaxPartitions`, `MaxCount`, `MaxBuffer`, `MaxExtent` and, in f_write, `MaxSize`.
The last cuts off only files whose chain runs in a circle.  f_expand can make
one when an entry that a crash of f_unlink left dangling meets a failed read;
calls that would walk it for ever are not enabled, so the program hangs there.

**Deadlock** is checked in every run.

**Fairness.**  Only `cluster_failures` assumes any, for `CallsReturn`: `WF_vars(CallStep)`, a call
that has begun takes its next step.  The library is sequential code without
locks, waits or call-backs in the allocator, so a call stops only if the machine
does.  Nothing is assumed of the calls themselves: the program need not make any.

**What the properties exclude by name.**  `CrashSafe`, `ImplementsChainStore`
and `ImplementsFileStore` do not hold across a crash in two windows: f_truncate
frees a chain that the entry on disk names until the next f_sync or f_close, and
f_unlink frees a chain before it marks the entry deleted.  The windows are in
the code; the precondition of `CrashSafe` names them, `ChainStore` calls an
entry that such a crash left dangling `stale`, and `file_crashes` leaves the calls
out.  `ImplementsChainStore` is about calls in which nothing failed, and
`ImplementsDirStore` about the time before the first failure or crash.  `SpaceAccounted` leaves out an allocation of several clusters
that runs out of space half-way, which loses what it got (`leaked`).
`MountedSound` says nothing of a volume whose format did not return true
(`unfinished`): the boot sector is written first, so that such a volume mounts,
with the FAT it had before or half of a new one.  It does not say that the two
copies agree: after a failed or cut-off FAT update they do not (`MirrorExact` and `MirrorHeals` say when
they do).  `PassExact` says of a pass ended by a failed FAT read no more than that it returned what
it went by.
`tainted` records that the disk was left in a state from which the code promises
nothing; what a program does from there on is not constrained.  In
`ClusterManager` it is a restart from a FAT that was not sound, and in
`FileManager` two files with a cluster in common, after an entry was left
dangling.  In `DirManager` it is: f_unlink of a directory with entries in it, with
a second entry, or with the program in it (`InTheWay`; `fat32.h:58` says "or empty
directory" and leaves the test to the caller); f_unlink of a directory cut off
between freeing and deleting; f_rename of a directory to a place below itself, from the
deletion of its old entry on, which alone led there (`MovedInside`); a rename or
an unlink of what `find_file` read from a wrong buffer; a directory's new
cluster that could not be cleared; one that is not on the directory's chain,
because a FAT read failed on the way to its end or the link could not be written
(`PlaceBehind`, the third case: the new entry lies where nothing leads, and f_rename
goes on to delete the old one); and a new directory whose mark in the FAT failed
(`CallMkdir`: its cluster is still free).  `Recoverable` leaves out the two windows of
the partition table: from the backup entries to the primary header, when
neither checksum fits, and a call whose size is found too small after both
tables were written (`lost`).  `OtherEntriesKept` leaves out a backup that is
written over the primary table, because the size in memory is too small, or 0
after a restart (`Apart`).

### Findings

* `write_extends`: f_write and its walk compare the next entry with 0, the end of
  a chain is `0x0FFFFFFF`; a write past the end of the chain fails with room left.
* `backup_at_end`: create_partition takes the size of the partition for the size of
  the disk.  The backup header is not "at last LBA" (`gpt.c:164`): the first call
  of `test/main.c` puts the backup at sectors 204767 to 204799 of the disk, which
  belong to the partition from 2048 to 206847, and each further partition moves
  it.

More of the same is in the models without a run of its own.  The scan for a free
cluster ends at `cluster < total_clusters + 1`, one short of the last cluster,
which is never used.  A failed FAT read is taken for the end of the chain:
f_write then appends a cluster, returns true, and the bytes are elsewhere in the
file: past its old end after one failure, but in the middle of it after two, when an
earlier failure left a size that the chain does not hold (a crash behind f_truncate,
or an f_expand that lost its link), so that the new cluster lies within the size.
With one name and 5 clusters of 1 byte TLC finds such a write outside its range;
`WritesInRange` speaks of a file's own bytes after a single failure only (`SingleFailure`).
`fat32_append_cluster` ignores the result of its link, so after a failed
read it returns true for a cluster on no chain, and a directory entry that
f_mkdir, f_open or f_rename puts there is lost, with what f_rename meant to keep;
f_readdir ends for good at a cluster whose FAT entry cannot be read; f_expand looks for a 0 at the end
of the chain like f_write, so it returns true and leaves the new clusters
unlinked.  The hint is only raised: after files are deleted an almost empty
volume refuses allocations until the program restarts.  The format clears the
sectors from `start + 2`, a cluster number used as a sector number: an old root
directory survives, and with 16 sectors to a cluster the zeros go over the backup
boot sector.  The FAT has no room for its two reserved entries and its size follows
from a cluster count that is not the final one (`FatTooSmall`, below).  Where it
is too small, the entries of the last clusters in the first copy are entries of the
first clusters in the second, and those in the second lie in the root directory.

Of the directories: f_unlink leaves the long-name slots of the entry it deletes,
and `find_file` does not clear its buffer at a deleted slot, so the next short
entry answers to the deleted name too.  Renaming onto the name of a file makes two
entries of one name, since only directories are looked for.  Names with one 8.3
form have no `~1` to tell them apart, and `find_dir` compares nothing else.  A
directory of two clusters does not resolve in a path, though f_open and f_mkdir in
it work while it is the current directory.  A rename does not change the ".." of a
directory it moves.  f_getcwd returns a string that nothing sets.

Of the partition table: after a restart create_partition begins again at slot 0,
whatever is on the disk, and update_partition writes the backup table to sector 0,
over the MBR and the primary header, before the size is found too small.  No
overlap of partitions is looked for, and the MBR is rewritten before anything is
checked.

## 4. Proofs

`ClusterProofs` proves of `ClusterManager`, for any number of clusters, FAT
copies and owners, any sector size, and any number of failures and crashes:

* `TypeCorrect`: `Spec => []TypeOK`.
* `InductiveHolds`: `Spec => []Inductive`.
* `NoCrossLinks`: `Spec => []NoCrossLink`, no cluster on two chains, twice on
  one, or both first of one and linked from another, unless the program started
  from an unsound FAT.

Every entry of `ClusterManager` has a place of its own in every copy.  A volume whose
FAT is too small (`FatTooSmall`) is therefore none of its volumes, and "any number of
clusters" is any that the FAT has room for, here and for the copies of the FAT below.

The assumptions are those declared with the constants: `SizesAssumption` (at
least one cluster, one copy, one entry to a sector, and cluster numbers below
`LastValidCluster`, which is what FAT32 allows) and `CallersAssumption` (the root
is an owner, the calls are calls).

**The argument.**  `NoCrossLink` is not inductive: whether a link makes a second
way to a cluster depends on what the running call has in its locals, and on what
will happen to a cluster whose mark failed.  `Inductive` adds three things.
*Control* says what each `pc` implies of the locals and of the write in
progress, for instance that a cluster being linked lies below the hint, and so is
not the next one to be handed out.  *Naming* says which clusters have no name,
that is, no entry and no first cluster that leads to them: the one just
allocated until it is linked or returned, the first one of a chain under
construction, the rest of a chain that is being freed once the entry before it
is gone in copy 1.  And *FreeUnnamed* says that a free cluster *from the hint
on* has no name.  Below the hint this is false after a failed mark or a failed
link, and the code relies on the hint alone to keep such a cluster from being
given out again.  The hint is what a restart resets, hence the history variable
`tainted`: a restart on a FAT where a free cluster is named leaves the promise.
Init is immediate; each action is a lemma of its own, with one step for each
part of the invariant that it can disturb.  The only fact about the FAT that all
of them share is what one sector write does to copy 1: it replaces one
entry, because the buffer comes from copy 1.

It proves, for the same constants, of the copies of the FAT and of crashes:

* `MirrorExactAlways`: `Spec => []MirrorExact`, and `MirrorAlwaysHeals`: `Spec => MirrorHeals`.
  Both rest on `Mirrored`: once a write has passed copy 1, every copy it has passed
  agrees with copy 1 in the whole sector, because the buffer is that sector of
  copy 1 with one entry patched.  That is true whatever failed before, and it is
  why a later write repairs a sector.
* `CrashesSafe`: `Spec => []CrashSafe`.  `RecoveryInv` adds `Marks` to `Inductive`:
  as long as no access failed, what an entry links to, what the program holds as
  first cluster, the cluster about to be linked and the first one of a chain under
  construction are marked.  A crash keeps it where the entries on disk agree with
  what the program held; outside of that `tainted` is set by the restart.

`FatChains` has no specification: its lemmas are about a FAT `f` of any size.  The
walk `ChainIn` is a recursive function with a bound, so the first ones show
that it is a path (`Path`), that it is the only one, and that it reaches the end
unless it runs in a circle (`Acyclic`), by counting: a path longer than the volume
meets a cluster twice.  Then, what one changed entry does (`Changed`): a chain
without the entry is as before, one with it is its beginning and the chain of the
new value, no circle comes from linking a chain to one that does not lead back.
Induction on the length of a path is `InductionOnNat`, which follows
from the well-foundedness of `Nat` (`WFMin`) for a *set* of numbers; the library's
induction theorem takes an operator and cannot be used here.

`ClusterChains` proves, for the same constants again:

* `ClusterImplementsStore`: `Spec => ImplementsChainStore`.  Under the mapping of
  `ClusterRefinement` the initial state is one of `ChainStore`, and each of the steps
  is, while no access has failed and the disk is not `tainted`, an atomic change of
  one owner's chain or a stutter.  The step that counts is the write of copy 1 that
  links, cuts or frees; for it one must know where the call is on the chain.  That
  is `ChainInv`: `append` and `cut` are on the chain of their owner, and `append` links
  at its end; a chain under construction hangs together from its first cluster to
  the last; the owner of a free holds the cluster that goes first (`Positions`);
  and an entry holds a cluster, 0 or the end mark (`Values`).
* `SpaceAccountedAlways`: `Spec => []SpaceAccounted`.  `SpaceInv` says in the middle of a
  call as well that a marked cluster is on a chain that an owner holds or that the
  running call has in its locals (`Pending`, `Accounted`).

`FileProofs` proves of `FileManager`, for any number of clusters and of names and
handles, any cluster size, buffers, calls, failures and crashes (`FileAssumption`: a
cluster has a byte, the bounds are natural numbers, the names are finitely many, as
the slots of the directory are):

* `FileTypeCorrect`: `FileSpec => []FileTypeOK`.  The type alone is not inductive, since
  f_write adds to position and size.  `HandleInv` adds that a write belongs to the
  sole handle of its file and ends within the volume, that no position passes its size,
  that an open handle's slot is in use and an unlinked one's not open, that no name
  is on two entries, and that two handles of one file agree with it.
* `FilesStayApart`: `FileSpec => [](tainted \/ FilesDisjoint)`.  `FilesDisjoint` speaks of
  names; the inductive form speaks of slots (`Apart`): the chain of what `Owns` a slot,
  its handle or else its entry, is marked, lies in the clusters that can be
  handed out, and meets no other slot's.  With it go that the FAT has no circle
  and that the root directory's cluster is marked (`FilesApart`).  Each call
  then is one of few changes: the position moves, one file's chain gains free
  clusters (`ApartFrom`), loses some, or goes.
* `FilesApartAlways`: `FileSpec => [](faults = 0 /\ crashes = 0 => FilesDisjoint)`: `tainted`
  is only set when an entry was left dangling, which needs a failed access or a crash.
* `SizesCoveredAlways`: `FileSpec => [](Clean => SizesCovered)`, where `Clean`, written out
  in the theorem, is that nothing failed, and that there was no crash or the program
  neither truncates nor unlinks.  With `file_crashes` that is every state of the run, and
  with `file_calls` too.  `Covered` strengthens it: an entry that is not in use has
  size 0, a handle agrees with its entry in the first cluster unless the program
  truncates (`EntriesFollow`), and an f_write in progress is at the cluster of its
  file in which its position lies, or has run off the end of the chain (`InPlace`).
  The last is what makes `size := pos + done` right in the middle of a write.  `SizesKept`
  is what all calls but the deletion share: only one file's chain, size or handle
  changes, and the others keep theirs.
* `OneFileChangesAlways`: `FileSpec => OneFileChanges`, whatever fails.  Each action has a
  lemma that names the one slot it is about, and that outside it chains, bytes, entries
  and handles stay (`Elsewhere`, `ChangesOne`); `OneContent` makes the property of
  that.  An f_write needs `Aside`, the invariant that the clusters
  reached from the cluster it is at are on no other file's chain: a walk that took a
  failed read for the end of the chain is still on its own file's
  clusters, or on some that no file has.
* `WritesInRangeAlways`: `FileSpec => WritesInRange`.  For the other files `Elsewhere` is
  enough.  For the file itself `PlaceInv` says that an f_write is at the
  cluster its position lies in (`Exact`), or at the last cluster of the chain and
  past every byte of the file (`Behind`), or at a cluster off the chain with
  nothing behind it (`Off`).  A walk that meets a failed read goes from `Exact` to
  `Behind`, since the size is still covered: `Covered` holds up to the first failure
  (`CoveredBefore`).  That is where two failures break it.
* `FileImplementsStore`: `FileSpec => ImplementsFileStore`.  Under the mapping of
  `FileRefinement` (`Contents` reads a file's bytes off its chain up to the size of its
  handle, or else of its entry; `SavedSizes` are the sizes in the entries; `Positions`
  those of the handles; `WriteInProgress` the call that is at work and what it has
  written) the initial state is one of `FileStore`, and every step that leaves the state
  `Clean` is a step of it or a stutter.  Each action has a lemma that names the abstract
  action it is (`…Implements`), and uses of `Elsewhere` that the other files keep their
  bytes.  A truncation keeps the first clusters of the chain, and with them the first
  bytes (`FrontOf`, `FrontBytes`); the piece that f_write puts into a cluster is what
  `FileStore` lays over the contents (`OverlaidBytes`).  Two more invariants were needed,
  and checked with TLC first: `Written`, the bytes that the running f_write counts as done
  are in the file at the positions they belong to, and `Grows`, unless the program
  truncates an entry's size is at most its handle's, so that what a crash leaves is a
  beginning of the file.

`VolumeProofs` proves of volumes of every size from 35 sectors (below that there
is no cluster, or a subtraction wraps) to half the range of `uint32_t`, as many of
them as wanted, anywhere on the disk so long as they do not overlap, which is
what `VolumesAssumption` says:

* `EachClusterInPlace`: there is a cluster, and every one lies behind the FATs,
  before the next one and inside the volume; hence `ClustersInsideAlways`:
  `VolumeSpec => []ClustersInside`, the first and the last of them.  Three roundings are at work: the two
  estimates of the FAT and the cluster count.  `FatFits` bounds them, with a case
  for each cluster size: both estimates are positive, and two FATs leave room for
  one cluster.  The rest is that the whole clusters of a cluster size fit into
  the sectors they were counted in.
* `VolumeTypeCorrect`: `VolumeSpec => []VolumeTypeOK`, which is inductive as it
  stands, because it ties `bpb` to the running mount and to `mounted`.
* `OneVolumeAtATime`: `VolumeSpec => VolumesApart`.  Every range that is written
  lies inside its volume (`AreasInside`, `WritesInside`, from `FatFits`), a range
  inside one volume meets no area of another (`WritesHere`), and the volume whose
  start is added is the one of the call, by the invariant.  Of the file calls, the
  sectors of FAT entries lie inside the volume even where the FAT is too small
  (`UpdateInside`), and so do those of clusters (`ClusterPlaced`) and, where it wraps, of the one past the
  end of a chain (`PastEndPlaced`); where it does not wrap it is off the disk.
* `MountedSoundAlways`: `VolumeSpec => []MountedSound`.  `FormatInv` says of every volume not
  left by an unfinished format what a format leaves (`Formatted`), and of the one being
  formatted what each of its writes so far has put down (`SoFar`).  The label and
  the other volumes' calls leave the landmarks alone, by the same arithmetic; a FAT
  update reaches the FATs and, where they are too small, the root directory, but no boot
  sector (`UpdateKeeps`), and a cluster write neither that nor, but for the 16-sector
  clusters past the end, the FATs (`ClusterKeeps`).  A FAT of one sector has no rest, which the property takes into account.
* `FatTooSmall`: a volume of 57378 sectors has a cluster, which the allocator hands
  out, whose entry in the first FAT lies in the second.

`DirProofs` and `DirStoreProofs` prove of `DirManager`, for any number of clusters, slots to a cluster
and to a sector, names and lengths of names, callers, failures and crashes:

* `EndMarksAlways`: `DirSpec => []EndMarksLast`.
* `LongNamesAlways`: `DirSpec => []LongNamesWhole`.
* `DirectoriesSoundAlways`: `DirSpec => []DirectoriesSound`.
* `EntriesSoundAlways`: `DirSpec => []EntriesSound`.
* `EntriesFoundAlways`: `DirSpec => []EntriesFound`.
* `EntryStaysAlways`: `DirSpec => EntryStays`.
* `DirTypeCorrect`: `DirSpec => []DirTypeOK`.
* `PassExactAlways`: `DirSpec => []PassExact`.
* `ListedOnceAlways`: `DirSpec => []ListedOnce`.
* `TreeSoundAlways`: `DirSpec => []TreeSound`.
* `DirsImplementStore`: `DirSpec => ImplementsDirStore`.

The assumptions are `NamesAssumption` (a cluster has room for "." and "..", and for
every name; an 8.3 form does not begin with a dot, which `fat32_format_83_name` sees
to by leaving the base name blank) and `DirAssumption`.  The invariants build on
one another:

* `EndsInv` holds whatever went wrong.  `find_contiguous_free_entries` takes the
  *first* run that fits: if there were an end mark in front of it, everything from
  the end mark on would be free, and a run that begins there would fit and be found
  before.  So a new entry is never behind an end mark (`Room`).  `EndsInv` carries
  that from the search to the write, for the cluster of the call, and says that a
  directory under construction has nothing in it; a torn write keeps it, because a
  beginning of the new slots in front of the old ones is again such a cluster
  (`NameWritten`).
* `NamesInv` adds that the slot that f_rename or f_unlink is going to delete holds a
  short entry, and that it does not lie in the cluster the directory of the new name
  gets, which is cleared before the deletion.  Its step needs `DirectoriesSound` in
  the state before: the entry found must lie in an allocated, initialised cluster.
* `TreeInv` supplies that.  Unless `tainted`, links join clusters that were
  initialised, but for the one by which the running call extends its directory
  (`LinksSound`); every short slot in such a cluster is the entry of a file, an entry
  that names a directory that f_mkdir initialised, or the "." or ".." at the
  beginning of one (`SlotsSound`); free and never written clusters hold no entries
  (`NothingLeft`); and the running call's new entry and old entry are what the
  code took them for (`NewEntrySound`, `OldEntrySound`).  A path leads from the root
  or the current directory, component by component, through such entries
  (`DownLeads`, `PathLeads`), and the chain of a directory stays in initialised
  clusters (`DirChain`): hence `DirectoriesSound`.  Nothing has to be known of how the
  directories form a tree.  What needs care is f_unlink, which frees a whole chain
  (`DirectoryFreed`): no other entry names a cluster of it, since entries name
  first clusters and no link leads to one.
* `EntriesFound` follows from `TreeInv`: no end mark lies in front of an entry in its
  cluster, an end mark ends the search of one cluster only, and the 8.3 form of
  the entry is that of its name.
* `StayInv` adds, for a rename, that the old slot names what the call holds, and from
  the first write on that a slot in another place does too (`RenameSound`).
  `EntryStays` is about what is below the root, not about what some entry names: a lost cluster has entries
  too.  A step other than f_unlink's leaves named what is named (`NamedStays`), what is
  below the root is the root and what entries name (`BelowNamed`), and `TreeSound` in the
  state after says that what entries name is below the root (`StaysBelow`).
* `DirTypeInv` adds the types, of slots also in what a failed read leaves in the buffer.
* `PassInv` adds where a pass of f_readdir is: in its directory's chain (`PassAt`), the
  entries that stayed are still short entries there (`PassStaying`), and what was
  returned is what it has gone by (`PassReturned`), up to the cluster whose FAT entry
  could not be read if that ended it (`pass.cut`).  While it is open the directory's
  chain only grows, at the end (`ChainGrows`), and freeing another directory leaves it
  as it is (`ChainSpared`); so what a call of f_readdir walks is the rest of the
  chain, and every entry that stayed and lies ahead is a stop (`StopsAhead`).
* `ReachInv` and `Naming` give `TreeSound`, which is about the whole tree.  `Reachable(c)`
  says that every set that contains the root, and that neither links nor directory
  entries lead out of (`Closed`), contains c; the entry that f_unlink is
  about to mark deleted leads nowhere any more.  `Reaching` is that every entry outside of clusters
  that were never handed out lies in a reachable cluster, and so does the place
  where the running call puts its entry.  It is not inductive by itself: one has to know
  that links end in allocated clusters (`LinksEnd`), that the directory that f_unlink
  takes away has nothing in it (`Unlinking`), and that what f_rename has moved is reachable
  without its old entry, since the new one is not below it (`BelowApart`).  That the
  model's `Below`, a recursion bounded by the number of clusters, really computes the closed
  set is `RoundsEnd`: it grows by a cluster a round or has stopped growing, and there
  are `TotalClusters` rounds.  `Naming` is the other half: without failures no two
  entries name one directory (`OneEntry`), and none names that which f_mkdir is making
  (`FirstUnnamed`).
* `DirsImplementStore` is the refinement: as long as no access fails and the machine
  does not stop, the initial state is one of `DirStore` and every step adds one entry,
  removes one, or changes none (`StoreStep`).  `Tree` and `Store!Reached` are both
  recursions over rounds; `TreeIsLeast` and `ReachedLeast` show that each is the
  least set with the root and what its entries name, and from there on only that is
  used: to add an entry adds what it names (`EntryAdded`), to take one away leaves what
  the rest still leads to (`EntryRemoved`).  `Entries` counts what f_unlink is about to mark as gone
  (`Unlinked`), since it frees the chain before.  Each action then has a lemma: the cluster
  that a directory grows by, or that f_mkdir prepares, is on no directory's chain with
  an entry in it (`EntriesGrown`, `EntriesBlank`); what `WriteEntry` adds is one
  entry in a place where none was (`EntryBrought`); and freeing a directory's
  chain changes no other (`EntriesUnlink`, by `OneEntry`).  That the new entry is one that
  `DirStore` allows needs `Arranged`, checked with TLC first: what f_mkdir prepared is
  empty (`NewNamed`), and the name is not in use, but for what the calls do not look
  for (`NameFree`).  The latter is the hard part, for `fat32_dir_exists` stops at
  the first end mark of the directory.  Hence `EndsOrdered`: no entry without a long
  name lies in a cluster behind one that has an end mark; the first cluster with a free slot
  gets it (`NewPlaced`), and an end mark is free.  A long name may pass over
  a cluster with one free slot left, and f_mkdir then makes a second directory of this name:
  that is why `DirStore` promises the uniqueness of directories' names for `Simple` ones only.
  After what `tainted` records nothing moves but the mark of an f_unlink that has
  begun (`TaintedQuiet`), which takes away no more.

`PartitionProofs` proves of `PartitionManager`, for any disk, sizes of the table and
of a sector, partitions, failures and crashes, under `PartitionAssumption` (the
least size that `create_gpt_header` accepts has room for two tables, two headers
and the MBR, as 128 sectors have):

* `CopiesAgreeAlways`: `PartSpec => []CopiesAgree`.
* `OtherEntriesAlways`: `PartSpec => OtherEntriesKept`.
* `PartTypeCorrect`: `PartSpec => []PartTypeOK`.
* `RecoverableAlways`: `PartSpec => []Recoverable`.

The invariant `PartInv` follows the four writes: what each has put down (`Progress`),
where the size leaves room for it, and that the table a call is about to write is
the one on the disk but for the entry of the call (`TableRead`).  Each action
has a lemma that proves both, the invariant and what the step does to the table;
`BackupPlace` is the arithmetic: with `MinSectors` sectors the four areas lie apart.

`RecoveryInv` adds what the last two need: types; that a header names itself and that
a backup header, whatever size it was written for, has its entries right in front of
it and behind the primary table (`SectorsFit`); and `OldOrNew`: up to the write of the
backup entries the backup holds the old table, after the primary header the primary
holds the new one, and a call that has stopped elsewhere than in its two windows
leaves one of them.

**Model-checked only.**  `CallsReturn` is liveness, which TLAPS does not prove.  Every other
property of the passing runs is a theorem.  The two runs that expect a violation need no
proof.

## 5. Limits

* A failed FAT *write* is `ClusterManager`'s subject.  In `FileManager` the
  accesses that fail are those of data and directory clusters, and the FAT reads
  of the walks that file_manager.c makes or starts with
  `fat32_count_cluster_chain`; at most one access fails within a step.
  f_open and f_stat, which read the directory, do not fail.
* The volumes meant have at most 4 sectors to a cluster and lie on a device of at
  most 1 GiB, the size the documentation makes: an access to the "cluster"
  `0x0FFFFFFF` is then past the end of the device and fails.  That is so in
  `FileManager`.  `VolumeManager` has the larger clusters too, where f_write reaches
  the second FAT; what becomes of the bytes there is not followed.  It leaves out disks of
  2^28 sectors (128 GiB) and more, where that cluster may be one of another volume,
  and where sums of a volume's start may leave 32 bits.
* What a FAT that is too small does to the chains and to the root directory is not followed:
  `VolumeManager` knows that such a place was written, no more.
* `FileManager`'s directory is one cluster of fixed slots that never grows, and the names
  have different 8.3 aliases.  `DirManager` has no chains of files; the two are not
  composed.
* f_read, f_forward and f_stat, which change nothing on the disk, are in
  `file_crashes` only; a failed access in them is not run.
* A name in `DirManager` fits into one cluster, and its length is no multiple of 13
  (then the last long-name slot has no end, and `find_file` goes on into what the
  buffer held before).  Volume labels in the root directory are left out.
* TLC's instances of `DirManager` give every name an 8.3 form of its own.
* An allocator call is one step in `DirManager`, as in `FileManager`, and at most one
  access fails within it: a read of the FAT, the mark of the new cluster, or its link.
  The mark and the link set `tainted`.  Accesses do not fail while a path is resolved:
  a failed FAT read in `fat32_find_dir` makes it take a directory of two clusters for
  one of one, and go on through it where it otherwise refuses to.  That f_unlink's freeing
  stops half-way is left to `ClusterManager`.
* The backup header is written from a structure of 92 bytes as a sector of 512: what
  follows it in memory goes to the disk, behind what the checksum covers.
* f_gets, f_putc, f_puts and f_printf are f_read and f_write with other
  arguments; f_forward's call-back is a choice of how many bytes it takes.
  f_error is never set by any call.
* An unused cluster holds zeros.  f_expand exposes old contents only beyond the size.
* Dates, attributes, labels, GUID values, names of partitions and checksums' values are
  data, and so is what `match_pattern` makes of a pattern.
* `VolumeManager` sees a root directory as empty, labelled, or holding files, and
  a FAT sector as one of few contents; `FileStep` stands for all calls that write to
  the mounted volume, in any order, with what they write left open.  The current directory a mount sets is left out,
  and so is memory that runs out.
* diskio.c is pure input and output; the models see accesses that succeed or fail.

## 6. Plan

1. **Files in directories**: `FileManager` with the directories of `DirManager`, where a
   handle's slot may be reused by another name, and the client that unlinks an open
   file.
2. **Other 32-bit sector numbers**: where f_sync of a closed handle lands, whose
   cluster is 0, and disks of 128 GiB and more.
3. **Name matching**: `format_83_name` and `match_pattern` as functions over
   small alphabets, the latter against a recursive reference definition.

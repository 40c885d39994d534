---------------------------- MODULE VolumeManager ----------------------------
(***************************************************************************)
(* create_fat32_volume and fat32_mount on the volumes of one disk, and what*)
(* the file calls write there, a write at a time.  The disk is known by its*)
(* landmarks: the areas of the volumes, and what was last written there.   *)
(***************************************************************************)
EXTENDS VolumeGeometry

CONSTANTS
  Volumes,     \* the partitions to hold FAT32 volumes
  Start,       \* Start[v]: the first sector of v on the disk
  Sectors,     \* Sectors[v]: the size of v
  Used,        \* Used[v]: clusters of v, of those the allocator hands out
  DiskSectors, \* the size of the disk
  MaxFaults,   \* bound on sector reads and writes that fail
  MaxCrashes   \* bound on crashes

Ends(v) == Start[v] + Sectors[v]

ASSUME VolumesAssumption ==
  /\ "none" \notin Volumes /\ "junk" \notin Volumes
  /\ Start \in [Volumes -> Nat]
  /\ Sectors \in [Volumes -> MinSectors .. MaxSectors]
  /\ \A v, w \in Volumes : v # w => Ends(v) <= Start[w] \/ Ends(w) <= Start[v]
  /\ \A v \in Volumes : Used[v] \subseteq RootCluster .. ClustersOf(Sectors[v])
  /\ DiskSectors \in 1 .. EndOfChain
  /\ \A v \in Volumes : Ends(v) <= DiskSectors

VARIABLES
  disk,        \* disk[v][a]: what area a of volume v holds
  bpb,         \* the volume that the BPB in memory describes, or "junk"
  mounted,     \* the volume the program works on: its last call mounted it
  call,        \* the create_fat32_volume, fat32_mount or FAT update in progress
  unfinished,  \* history: volumes whose last format did not return true
  faults,      \* failed accesses so far (bounded by MaxFaults)
  crashes      \* crashes so far (bounded by MaxCrashes)

volumeVars == <<disk, bpb, mounted, call, unfinished, faults, crashes>>

-----------------------------------------------------------------------------
(* Areas.  A FAT is its first sector, with the marks of the two reserved   *)
(* entries and the root directory, and the rest.                           *)

Area == {"boot", "fsinfo", "backup", "marks1", "rest1", "marks2", "rest2", "root"}

\* What an area may hold; "torn" is left by a write of several sectors cut off.
Content == {"junk", "torn", "bpb", "fsinfo", "marks", "zero", "used", "label", "files"}

Extent(first, count) == [first |-> first, count |-> count]

ClusterExtent(n, c) == Extent(FirstSectorOfCluster(n, c), SectorsPerCluster(n))

AreaExtent(n) ==
  [boot   |-> Extent(0, 1), fsinfo |-> Extent(1, 1), backup |-> Extent(6, 1),
   marks1 |-> Extent(FatStart(n, 1), 1), rest1 |-> Extent(FatStart(n, 1) + 1, FatSize(n) - 1),
   marks2 |-> Extent(FatStart(n, 2), 1), rest2 |-> Extent(FatStart(n, 2) + 1, FatSize(n) - 1),
   root   |-> ClusterExtent(n, RootCluster)]

Moved(v, extent) == [extent EXCEPT !.first = @ + Start[v]]

Meet(x, y) == x.first < y.first + y.count /\ y.first < x.first + x.count

\* The areas, of any volume, that the sectors of x belong to.
Hit(x) ==
  {va \in Volumes \X Area : Meet(x, Moved(va[1], AreaExtent(Sectors[va[1]])[va[2]]))}

Overwrite(x, value) ==
  disk' = [v \in Volumes |-> [a \in Area |-> IF <<v, a>> \in Hit(x) THEN value ELSE disk[v][a]]]

-----------------------------------------------------------------------------
NoCall == [op |-> "none", volume |-> "none", step |-> 0, cluster |-> 0]

Init ==
  /\ disk = [v \in Volumes |-> [a \in Area |-> "junk"]]
  /\ bpb = "junk"
  /\ mounted = "none"
  /\ call = NoCall
  /\ unfinished = Volumes
  /\ faults = 0
  /\ crashes = 0

Fault == faults < MaxFaults /\ faults' = faults + 1

EndCall == call' = NoCall

\* Mutant: only the first sector of a FAT is written.
RestKept(n, i) == Extent(FatStart(n, i) + 1, 0)

\* What initialize_fat_tables clears of copy i behind its first sector.
RestCleared(n, i) == Extent(FatStart(n, i) + 1, FatSize(n) - 1)

Write(at, value) == [at |-> at, value |-> value]

\* The writes of create_fat32_volume, in order.  For the root directory its
\* cluster number serves as a sector number.
FormatWrites(n) ==
  << Write(Extent(0, 1), "bpb"), Write(Extent(6, 1), "bpb"),
     Write(Extent(1, 1), "fsinfo"),
     Write(Extent(FatStart(n, 1), 1), "marks"), Write(RestCleared(n, 1), "zero"),
     Write(Extent(FatStart(n, 2), 1), "marks"), Write(RestCleared(n, 2), "zero"),
     Write(Extent(RootCluster, SectorsPerCluster(n)), "zero") >>

LastWrite == 8

BeginFormat(v) ==
  /\ call.op = "none"
  /\ call' = [op |-> "create", volume |-> v, step |-> 1, cluster |-> 0]
  /\ bpb' = v
  /\ mounted' = "none"
  /\ unfinished' = unfinished \cup {v}
  /\ UNCHANGED <<disk, faults, crashes>>

FormatWrite ==
  LET v == call.volume
      write == FormatWrites(Sectors[v])[call.step] IN
  /\ call.op = "create"
  /\ Overwrite(Moved(v, write.at), write.value)
  /\ IF call.step = LastWrite
     THEN EndCall /\ unfinished' = unfinished \ {v}
     ELSE call' = [call EXCEPT !.step = @ + 1] /\ UNCHANGED unfinished
  /\ UNCHANGED <<bpb, mounted, faults, crashes>>

\* A write of several sectors that does not get to its end.
HalfWritten ==
  LET write == FormatWrites(Sectors[call.volume])[call.step] IN
  /\ call.op = "create"
  /\ write.at.count > 1
  /\ Overwrite(Moved(call.volume, write.at), "torn")

\* create_fat32_volume gives up.
FormatWriteFails ==
  /\ call.op = "create"
  /\ Fault
  /\ UNCHANGED disk \/ HalfWritten
  /\ EndCall
  /\ UNCHANGED <<bpb, mounted, unfinished, crashes>>

-----------------------------------------------------------------------------
(* fat32_mount: the boot sector replaces the BPB in memory and only then is*)
(* validated; then the label is written into the root directory.           *)

\* Mutant: the boot sector read does not replace the BPB of an earlier mount.
KeepsBPB(v) == bpb' = IF bpb = "junk" THEN v ELSE bpb

TakesBPB(v) == bpb' = v

BeginMount(v) ==
  /\ call.op = "none"
  /\ mounted' = "none"
  /\ \/ /\ disk[v]["boot"] = "bpb"
        /\ TakesBPB(v)
        /\ call' = [op |-> "mount", volume |-> v, step |-> 1, cluster |-> 0]
        /\ UNCHANGED faults
     \/ /\ disk[v]["boot"] # "bpb"
        /\ bpb' = "junk"
        /\ UNCHANGED <<call, faults>>
     \/ Fault /\ UNCHANGED <<bpb, call>>
  /\ UNCHANGED <<disk, unfinished, crashes>>

\* A root directory with anything in it may have its label or a free slot, or
\* be full.
Labelled(v) == IF disk[v]["root"] \in {"zero", "label"} THEN "label" ELSE "files"

\* fat32_set_volume_label writes the first cluster of the root directory back,
\* to where the BPB says it is.
StoreLabel ==
  Overwrite(Moved(bpb, ClusterExtent(Sectors[bpb], RootCluster)), Labelled(bpb))

WriteLabel ==
  /\ call.op = "mount"
  /\ StoreLabel
  /\ mounted' = call.volume
  /\ EndCall
  /\ UNCHANGED <<bpb, unfinished, faults, crashes>>

\* There is no room for the label, or it cannot be read or written, though the
\* sector it is in may have been.
WriteLabelFails ==
  /\ call.op = "mount"
  /\ \/ disk[bpb]["root"] \in {"junk", "torn", "used", "files"} /\ UNCHANGED <<disk, faults>>
     \/ Fault /\ UNCHANGED disk
     \/ Fault /\ StoreLabel
  /\ EndCall
  /\ UNCHANGED <<bpb, mounted, unfinished, crashes>>

-----------------------------------------------------------------------------
(* The file calls, on the mounted volume.  They change the FAT one entry at*)
(* a time, and write clusters.                                             *)

\* fat32_set_next_cluster of cluster c: from one FAT sector, read once ...
BeginUpdate(c) ==
  /\ call.op = "none"
  /\ call' = [op |-> "fat", volume |-> mounted, step |-> 1, cluster |-> c]
  /\ UNCHANGED <<disk, bpb, mounted, unfinished, faults, crashes>>

\* ... to one copy of the FAT after the other.
StoreEntry ==
  Overwrite(Moved(bpb, Extent(FatSectorOfCluster(Sectors[bpb], call.cluster, call.step), 1)), "used")

UpdateFat ==
  /\ call.op = "fat"
  /\ StoreEntry
  /\ IF call.step = NumFATs THEN EndCall ELSE call' = [call EXCEPT !.step = @ + 1]
  /\ UNCHANGED <<bpb, mounted, unfinished, faults, crashes>>

\* The other copies stay as they are.
UpdateFails ==
  /\ call.op = "fat"
  /\ Fault
  /\ UNCHANGED disk \/ StoreEntry
  /\ EndCall
  /\ UNCHANGED <<bpb, mounted, unfinished, crashes>>

\* The sectors that fat32_write_cluster writes for cluster c; f_write goes on to
\* cluster EndOfChain when the chain is too short.
ClusterSectors(n, c) ==
  Extent(IF c = EndOfChain THEN FirstSectorPastEnd(n) ELSE FirstSectorOfCluster(n, c),
         SectorsPerCluster(n))

\* A cluster of the mounted volume is written, or some of its sectors are, if the
\* disk has them.
WriteCluster(c) ==
  LET x == Moved(bpb, ClusterSectors(Sectors[bpb], c)) IN
  /\ call.op = "none"
  /\ x.first + x.count <= DiskSectors
  /\ Overwrite(x, "files")
  /\ UNCHANGED <<bpb, mounted, call, unfinished, faults, crashes>>

FileStep ==
  \E v \in Volumes :
    /\ mounted = v
    /\ \/ \E c \in Used[v] : BeginUpdate(c)
       \/ \E c \in Used[v] \cup {EndOfChain} : WriteCluster(c)

\* The machine stops, at any point, and the program starts again.
Crash ==
  /\ crashes < MaxCrashes
  /\ crashes' = crashes + 1
  /\ UNCHANGED disk \/ HalfWritten
  /\ bpb' = "junk"
  /\ mounted' = "none"
  /\ EndCall
  /\ UNCHANGED <<unfinished, faults>>

CallStep ==
  \/ FormatWrite \/ FormatWriteFails
  \/ WriteLabel \/ WriteLabelFails
  \/ UpdateFat \/ UpdateFails

Next ==
  \/ \E v \in Volumes : BeginFormat(v) \/ BeginMount(v)
  \/ CallStep
  \/ FileStep
  \/ Crash

VolumeSpec == Init /\ [][Next]_volumeVars

-----------------------------------------------------------------------------
(* What is required of volumes.                                            *)

\* The types, and what ties a call to the BPB it works with: fat32_mount writes
\* the label, and a mounted program its files, where the BPB in memory says.
VolumeTypeOK ==
  /\ disk \in [Volumes -> [Area -> Content]]
  /\ bpb \in Volumes \cup {"junk"}
  /\ mounted \in Volumes \cup {"none"}
  /\ mounted # "none" => bpb = mounted
  /\ call \in [op : {"none", "create", "mount", "fat"}, volume : Volumes \cup {"none"},
               step : 0 .. LastWrite, cluster : 0 .. EndOfChain]
  /\ call.op # "none" => call.volume # "none" /\ call.step # 0
  /\ call.op \in {"mount", "fat"} => bpb = call.volume
  /\ call.op = "fat" => /\ mounted = bpb /\ call.step <= NumFATs
                        /\ call.cluster \in Used[bpb]
  /\ unfinished \subseteq Volumes

\* The clusters get_total_clusters counts in n sectors, the root directory's
\* among them, begin behind the FATs and end inside the volume.
ClustersFit(n) ==
  LET last == ClustersOf(n) + 1 IN
  /\ RootCluster <= last
  /\ FatStart(n, NumFATs) + FatSize(n) <= FirstSectorOfCluster(n, 2)
  /\ FirstSectorOfCluster(n, last) + SectorsPerCluster(n) <= n

\* So it is with the volume whose BPB the program works with: fat32_bpb.c counts
\* and places the clusters by that BPB alone.
ClustersInside == bpb \in Volumes => ClustersFit(Sectors[bpb])

\* Formatting, mounting or using one volume leaves the others alone, whichever
\* of its calls fail or are cut off by a crash.
VolumesApart ==
  [][\A v \in Volumes : disk'[v] # disk[v] => v \in {call.volume, mounted}]_volumeVars

\* A volume that mounts, and whose format was not cut off, has nothing in either
\* copy of its FAT that is older than the format, whatever the file calls did since;
\* nor have they touched its boot sector.  A FAT of one sector has no rest.  With
\* clusters of 16 sectors the second copy also takes what f_write writes behind a
\* chain that is too short.
MountedSound ==
  mounted # "none" /\ mounted \notin unfinished =>
    LET v == mounted
        n == Sectors[v] IN
    /\ bpb = v /\ disk[v]["boot"] = "bpb" /\ disk[v]["fsinfo"] = "fsinfo"
    /\ {disk[v]["marks1"], disk[v]["marks2"]} \subseteq {"marks", "used"}
    /\ FatSize(n) > 1 =>
         /\ disk[v]["rest1"] \in {"zero", "used"}
         /\ disk[v]["rest2"] \in {"zero", "used"}
              \cup (IF SectorsPerCluster(n) = 16 THEN {"files"} ELSE {})
=============================================================================

---------------------------- MODULE FileManager ----------------------------
(***************************************************************************)
(* The file calls of file_manager.c on the files of one directory.         *)
(*                                                                         *)
(* A step is a whole call, except for the two calls that change the disk   *)
(* in several places of their own: f_write, one cluster at a time, and     *)
(* f_unlink, first the chain and then the directory entry.                 *)
(*                                                                         *)
(* A handle (FAT32_FILE) is a copy of the directory entry, and nothing     *)
(* ties the two together.  The program modelled here respects the one rule *)
(* under which that can work: it changes a file only through its sole open *)
(* handle, and opens it again only when that handle's state is saved.      *)
(***************************************************************************)
EXTENDS FatCalls

CONSTANTS
  ClusterSize,  \* get_cluster_size_bytes()
  Names,        \* names of files, with different 8.3 aliases
  NoName,       \* marks a free directory slot, and no handle
  Handles,      \* the FAT32_FILE objects of the program
  MaxBuffer,    \* largest number of bytes written or read in a call
  MaxExtent,    \* largest size asked of f_expand and position of f_lseek
  Calls,        \* the calls the program makes in this instance
  MaxFaults,    \* bound on cluster accesses and FAT reads that fail
  MaxCrashes    \* bound on crashes

AllFileCalls == {"open", "close", "sync", "read", "forward", "seek", "write",
                 "truncate", "expand", "unlink", "stat"}

ASSUME FileAssumption ==
  /\ ClusterSize \in Nat \ {0}
  /\ MaxBuffer \in Nat /\ MaxExtent \in Nat
  /\ MaxFaults \in Nat /\ MaxCrashes \in Nat
  /\ IsFiniteSet(Names) /\ NoName \notin Names
  /\ Calls \subseteq AllFileCalls

VARIABLES
  fat,      \* the FAT on disk
  hint,     \* fat32_free_cluster_no, in memory
  data,     \* data[c]: the bytes of cluster c, on disk
  slots,    \* the entries of the directory, on disk
  files,    \* files[h]: the FAT32_FILE objects
  call,     \* the f_write or f_unlink in progress
  result,   \* what the last call returned
  faults,   \* failed accesses so far (bounded by MaxFaults)
  crashes,  \* crashes so far (bounded by MaxCrashes)
  tainted   \* history: an entry was left that names clusters not its own

fileVars == <<fat, hint, data, slots, files, call, result, faults, crashes, tainted>>

-----------------------------------------------------------------------------
\* As many slots as there are names: this directory never has to grow.
Slot == 1 .. Cardinality(Names)

FreeSlot == [name |-> NoName, first |-> 0, size |-> 0]

ClosedFile == [slot |-> 0, first |-> 0, pos |-> 0, size |-> 0]

NoCall == [op |-> "none", handle |-> NoName, slot |-> 0,
           cluster |-> 0, offset |-> 0, buffer |-> <<>>, done |-> 0]

\* What the program writes: bytes numbered by their place in the buffer, so that
\* a byte stored in the wrong place shows.  An unused cluster holds zeros.
Buffers == {[i \in 1 .. n |-> i] : n \in 0 .. MaxBuffer}

Byte == 0 .. MaxBuffer

MaxSize == ClusterSize * TotalClusters

FileTypeOK ==
  /\ fat \in [FatIndex -> Entry]
  /\ hint \in Cluster
  /\ data \in [Cluster -> [0 .. ClusterSize - 1 -> Byte]]
  /\ slots \in [Slot -> [name : Names \cup {NoName}, first : Cluster \cup {0},
                         size : 0 .. MaxSize]]
  /\ files \in [Handles -> [slot : Slot \cup {0}, first : Cluster \cup {0},
                            pos : 0 .. MaxSize, size : 0 .. MaxSize]]
  /\ call.op \in {"none", "write", "copy", "unlink"}
  /\ call.cluster \in Entry
  /\ faults \in 0 .. MaxFaults
  /\ crashes \in 0 .. MaxCrashes
  /\ tainted \in BOOLEAN

\* fat32_find_file: the first entry of that name.
SlotOf(n) ==
  IF \E s \in Slot : slots[s].name = n
  THEN Least({s \in Slot : slots[s].name = n}) ELSE 0

IsOpen(h) == files[h].slot # 0

\* The rule the program respects.
Sole(h) == \A g \in Handles : files[g].slot = files[h].slot => g = h

Dirty(h) ==
  LET entry == slots[files[h].slot]
  IN  files[h].first # entry.first \/ files[h].size # entry.size

\* Room in a chain.
Capacity(first) == ClusterSize * Len(ChainIn(fat, first))

\* The bytes of a file of `size` bytes stored in a chain.
BytesIn(chain, size) ==
  [i \in 1 .. (IF size <= ClusterSize * Len(chain) THEN size ELSE ClusterSize * Len(chain)) |->
     data[chain[((i - 1) \div ClusterSize) + 1]][(i - 1) % ClusterSize]]

Stored(first, size) == BytesIn(ChainIn(fat, first), size)

\* File n as the program sees it: through a handle if it has one.
View(n) ==
  IF \E h \in Handles : IsOpen(h) /\ slots[files[h].slot].name = n
  THEN files[CHOOSE h \in Handles : IsOpen(h) /\ slots[files[h].slot].name = n]
  ELSE slots[SlotOf(n)]

Exists(n) == SlotOf(n) # 0 /\ call.slot # SlotOf(n)

Content(n) == IF Exists(n) THEN Stored(View(n).first, View(n).size) ELSE <<>>

ClustersOf(n) ==
  IF Exists(n) THEN OnChainIn(fat, View(n).first) ELSE {}

\* The files own separate chains of allocated clusters, through every reuse of
\* a cluster that f_truncate or f_unlink gave back.
FilesDisjoint ==
  \A m, n \in Names :
    /\ \A c \in ClustersOf(n) : c \in 3 .. TotalClusters /\ fat[c] # FREE
    /\ m # n => ClustersOf(m) \cap ClustersOf(n) = {}

-----------------------------------------------------------------------------
Init ==
  /\ fat = EmptyFat
  /\ hint = 2
  /\ data = [c \in Cluster |-> [i \in 0 .. ClusterSize - 1 |-> 0]]
  /\ slots = [s \in Slot |-> FreeSlot]
  /\ files = [h \in Handles |-> ClosedFile]
  /\ call = NoCall
  /\ result = [ok |-> TRUE, out |-> <<>>, asked |-> 0]
  /\ faults = 0
  /\ crashes = 0
  /\ tainted = FALSE

Ready(op) == call.op = "none" /\ op \in Calls

Give(ok, out, asked) == result' = [ok |-> ok, out |-> out, asked |-> asked]

Return(ok) == Give(ok, <<>>, 0)

Fault == faults < MaxFaults /\ faults' = faults + 1

NoFault == UNCHANGED faults

\* An f_unlink or f_truncate that was cut off leaves an entry that names free
\* clusters: what the program does to the volume afterwards is its own affair.
CheckVolume == tainted' = (tainted \/ ~FilesDisjoint')

-----------------------------------------------------------------------------
(* Opening and closing.                                                    *)

\* The handle takes over the entry as it is on disk.  FA_CREATE and
\* FA_CREATE_ALWAYS create a missing file and are otherwise without effect,
\* as are FA_READ and FA_WRITE.
OpenFile(h, n) ==
  /\ Ready("open") /\ ~IsOpen(h)
  /\ \A g \in Handles : IsOpen(g) /\ files[g].slot = SlotOf(n) => ~Dirty(g)
  /\ LET s == IF SlotOf(n) # 0 THEN SlotOf(n)
              ELSE Least({t \in Slot : slots[t].name = NoName})
         entry == IF SlotOf(n) # 0 THEN slots[s] ELSE [FreeSlot EXCEPT !.name = n]
     IN  /\ slots' = [slots EXCEPT ![s] = entry]
         /\ files' = [files EXCEPT ![h] =
                        [slot |-> s, first |-> entry.first, pos |-> 0,
                         size |-> entry.size]]
  /\ Return(TRUE)
  /\ UNCHANGED <<fat, hint, data, call, faults, crashes, tainted>>

\* Mutant: the entry gets the size and keeps its old first cluster.
EntryKeepsFirst(h) ==
  slots' = [slots EXCEPT ![files[h].slot].size = files[h].size]

\* Mutant: the place of the entry in its cluster is forgotten.
EntryAtStart(h) ==
  slots' = [slots EXCEPT ![1].first = files[h].first, ![1].size = files[h].size]

\* The size and first cluster of the handle go to the entry at its place.
UpdateEntry(h) ==
  slots' = [slots EXCEPT ![files[h].slot].first = files[h].first,
                         ![files[h].slot].size = files[h].size]

\* The directory's cluster cannot be read or written.
EntryFails == Fault /\ Return(FALSE) /\ UNCHANGED <<slots, files>>

CloseFile(h) ==
  /\ Ready("close") /\ IsOpen(h)
  /\ \/ /\ UpdateEntry(h)
        /\ files' = [files EXCEPT ![h] = ClosedFile]
        /\ NoFault /\ Return(TRUE)
     \/ EntryFails
  /\ UNCHANGED <<fat, hint, data, call, crashes, tainted>>

SyncFile(h) ==
  /\ Ready("sync") /\ IsOpen(h)
  /\ \/ UpdateEntry(h) /\ NoFault /\ Return(TRUE) /\ UNCHANGED files
     \/ EntryFails
  /\ UNCHANGED <<fat, hint, data, call, crashes, tainted>>

-----------------------------------------------------------------------------
(* Reading.                                                                *)

Available(h, n) ==
  LET rest == files[h].size - files[h].pos
  IN  IF files[h].pos >= files[h].size THEN 0 ELSE IF n <= rest THEN n ELSE rest

BytesFrom(h, k) ==
  SubSeq(Stored(files[h].first, files[h].size), files[h].pos + 1, files[h].pos + k)

\* k bytes are copied out and the position moves over them.
Deliver(h, k, asked) ==
  /\ Give(TRUE, BytesFrom(h, k), asked)
  /\ files' = [files EXCEPT ![h].pos = @ + k]

\* A read of k bytes, not all in the chain.  The chain is left at its end of
\* chain value, which cannot be read, or at a 0, which stops the read.
PastChain(h, k) ==
  LET file == files[h]
      room == Capacity(file.first)
  IN  /\ k > 0 /\ file.pos + k > room
      /\ IF EndOf(fat, file.first) # 0 /\ file.pos < room + ClusterSize
         THEN Return(FALSE) /\ UNCHANGED files
         ELSE Deliver(h, IF file.pos < room THEN room - file.pos ELSE 0, k)

\* f_read.  A cluster that cannot be read makes the call fail, a FAT entry that
\* cannot be read looks like the end of the file and cuts the read short.
ReadFile(h, n) ==
  LET k == Available(h, n) IN
  /\ Ready("read") /\ IsOpen(h)
  /\ \/ files[h].pos + k <= Capacity(files[h].first) /\ Deliver(h, k, n) /\ NoFault
     \/ PastChain(h, k) /\ NoFault
     \/ k > 0 /\ Fault /\ Return(FALSE) /\ UNCHANGED files
     \/ \E short \in 0 .. k :
          /\ IF short = 0 THEN files[h].pos >= ClusterSize
                          ELSE (files[h].pos + short) % ClusterSize = 0
          /\ files[h].pos + short <= Capacity(files[h].first)
          /\ Deliver(h, short, n) /\ Fault
  /\ UNCHANGED <<fat, hint, data, slots, call, crashes, tainted>>

\* f_forward: the same through a callback, which may take only k bytes.
Forward(h, n, k) ==
  /\ Ready("forward") /\ IsOpen(h)
  /\ k <= Available(h, n) /\ files[h].pos + k <= Capacity(files[h].first)
  /\ Deliver(h, k, k)
  /\ UNCHANGED <<fat, hint, data, slots, call, faults, crashes, tainted>>

\* f_lseek clamps to the size; the cluster it walks to is never used.
Seek(h, ofs) ==
  /\ Ready("seek") /\ IsOpen(h)
  /\ files' = [files EXCEPT ![h].pos =
                 IF ofs > files[h].size THEN files[h].size ELSE ofs]
  /\ Return(TRUE)
  /\ UNCHANGED <<fat, hint, data, slots, call, faults, crashes, tainted>>

\* f_stat reads the entry, not the handles.
Stat(n) ==
  /\ Ready("stat") /\ SlotOf(n) # 0
  /\ Give(TRUE, <<slots[SlotOf(n)].size>>, 0)
  /\ UNCHANGED <<fat, hint, data, slots, files, call, faults, crashes, tainted>>

-----------------------------------------------------------------------------
(* f_write.                                                                *)

EndCall == call' = NoCall

\* An empty file gets its first cluster.  MaxSize bounds files whose chain runs
\* in a circle: f_expand makes one if an entry a crash left dangling meets a
\* failed read.
BeginWrite(h, buffer) ==
  /\ Ready("write") /\ IsOpen(h) /\ Sole(h)
  /\ files[h].pos + Len(buffer) <= MaxSize
  /\ LET new   == Allocate(fat, hint, 1)
         first == IF files[h].first = 0 THEN new.first ELSE files[h].first
     IN  IF first = 0
         THEN /\ Return(FALSE)
              /\ UNCHANGED <<fat, hint, files, call>>
         ELSE /\ IF files[h].first = 0
                 THEN fat' = new.fat /\ hint' = new.hint
                 ELSE UNCHANGED <<fat, hint>>
              /\ files' = [files EXCEPT ![h].first = first]
              /\ call' = [NoCall EXCEPT !.op = "write", !.handle = h,
                            !.cluster = first, !.offset = files[h].pos,
                            !.buffer = buffer]
              /\ UNCHANGED result
  /\ UNCHANGED <<data, slots, faults, crashes, tainted>>

\* The cluster after call.cluster, from the FAT or, if that says 0, appended to
\* the chain (a walk that does not end if the chain runs in a circle).  The
\* end-of-chain value is not 0: it is taken for a cluster.
NextCluster(next, frame) ==
  IF next # 0
  THEN /\ call' = [frame EXCEPT !.cluster = next]
       /\ UNCHANGED <<fat, hint, result>>
  ELSE LET new == Append1(fat, hint, call.cluster)
       IN  /\ ~Circular(fat, call.cluster)
           /\ fat' = new.fat /\ hint' = new.hint
           /\ IF new.ok
              THEN call' = [frame EXCEPT !.cluster = new.first] /\ UNCHANGED result
              ELSE EndCall /\ Return(FALSE)

\* The read of the next entry succeeds, or it fails and yields 0.
GoToNext(frame) ==
  \/ NextCluster(NextIn(fat, call.cluster), frame) /\ NoFault
  \/ NextCluster(0, frame) /\ Fault

\* Walk to the cluster of the position.
WalkToPosition ==
  /\ call.op = "write" /\ call.offset >= ClusterSize
  /\ GoToNext([call EXCEPT !.offset = @ - ClusterSize])
  /\ UNCHANGED <<data, slots, files, crashes, tainted>>

\* The bytes of the buffer that go into the current cluster.
Chunk ==
  LET room == ClusterSize - call.offset
      left == Len(call.buffer) - call.done
  IN  IF room > left THEN left ELSE room

Patch(bytes, offset, done) ==
  [i \in DOMAIN bytes |->
     IF offset <= i /\ i < offset + Chunk THEN call.buffer[done + i - offset + 1] ELSE bytes[i]]

\* Mutant: every chunk is taken from the start of the buffer.
PatchedFromStart(bytes) == Patch(bytes, call.offset, 0)

Patched(bytes) == Patch(bytes, call.offset, call.done)

FinishWrite(done) ==
  LET h == call.handle
      pos == files[h].pos + done
  IN  /\ files' = [files EXCEPT ![h].pos = pos,
                                ![h].size = IF pos > @ THEN pos ELSE @]
      /\ EndCall
      /\ Return(TRUE)

\* One cluster is read, patched and written back.
WriteCluster ==
  /\ call.op = "write" /\ call.offset < ClusterSize
  /\ IF Len(call.buffer) = 0
     THEN FinishWrite(0) /\ UNCHANGED data
     ELSE /\ call.cluster \in Cluster
          /\ data' = [data EXCEPT ![call.cluster] = Patched(@)]
          /\ IF call.done + Chunk = Len(call.buffer)
             THEN FinishWrite(call.done + Chunk)
             ELSE /\ call' = [call EXCEPT !.op = "copy", !.done = @ + Chunk]
                  /\ UNCHANGED <<files, result>>
  /\ UNCHANGED <<fat, hint, slots, faults, crashes, tainted>>

\* On to the next cluster of the chain.
AdvanceWrite ==
  /\ call.op = "copy"
  /\ GoToNext([call EXCEPT !.op = "write", !.offset = 0])
  /\ UNCHANGED <<data, slots, files, crashes, tainted>>

\* Mutant: a write that fails counts what it has written.
WriteFailsCounted ==
  /\ call.op = "write" /\ call.offset < ClusterSize /\ Len(call.buffer) > 0
  /\ IF call.cluster \in Cluster
     THEN Fault /\ data' \in {data, [data EXCEPT ![call.cluster] = Patched(@)]}
     ELSE NoFault /\ UNCHANGED data
  /\ files' = [files EXCEPT ![call.handle].pos = @ + call.done]
  /\ EndCall
  /\ Return(FALSE)
  /\ UNCHANGED <<fat, hint, slots, crashes, tainted>>

\* The cluster cannot be read or written: it is past the end of the chain, and
\* so past the end of the device (the volumes meant here have at most 4 sectors
\* in a cluster), or the access fails, a write perhaps half-way.
WriteClusterFails ==
  /\ call.op = "write" /\ call.offset < ClusterSize /\ Len(call.buffer) > 0
  /\ IF call.cluster \in Cluster
     THEN Fault /\ data' \in {data, [data EXCEPT ![call.cluster] = Patched(@)]}
     ELSE NoFault /\ UNCHANGED data
  /\ EndCall
  /\ Return(FALSE)
  /\ UNCHANGED <<fat, hint, slots, files, crashes, tainted>>

-----------------------------------------------------------------------------
(* f_truncate, f_expand and f_unlink.                                      *)

\* Mutant: the walk ends one cluster early.
ClusterBefore(first, pos) ==
  LET chain == ChainIn(fat, first)
      k == pos \div ClusterSize
  IN  IF chain # <<>> THEN chain[IF k < 2 THEN 1 ELSE k] ELSE 0

\* The walk of f_truncate: the cluster of the position, EndOfChain when the
\* position is at the very end of a full chain, 0 when there is no such cluster.
ClusterAt(first, pos) ==
  LET chain == ChainIn(fat, first)
      k == pos \div ClusterSize
  IN  IF k < Len(chain) THEN chain[k + 1]
      ELSE IF k = Len(chain) /\ k > 0 THEN NextIn(fat, chain[k]) ELSE 0

\* Mutant: the rest of the chain is freed and not cut off.
FreeAfter(c) == Release(fat, NextIn(fat, c))

\* Cluster c becomes the last one, those after it are freed.  An end-of-chain
\* value for c is refused by set_next and has no next.
CutAfter(c) ==
  IF IsValidCluster(c)
  THEN Release([fat EXCEPT ![c] = EndOfChain], NextIn(fat, c))
  ELSE fat

TruncateFile(h) ==
  LET file == files[h]
      last == ClusterAt(file.first, file.pos)
  IN
  /\ Ready("truncate") /\ IsOpen(h) /\ Sole(h)
  /\ \/ /\ file.pos = 0
        /\ fat' = Release(fat, file.first)
        /\ files' = [files EXCEPT ![h].first = 0, ![h].size = 0]
        /\ Return(TRUE) /\ NoFault
     \/ /\ file.pos > 0 /\ last # 0
        /\ fat' = CutAfter(last)
        /\ files' = [files EXCEPT ![h].size = file.pos]
        /\ Return(TRUE) /\ NoFault
     \/ \* the next entry cannot be read: the rest of the chain is cut and lost
        /\ file.pos > 0 /\ last \in Cluster
        /\ fat' = [fat EXCEPT ![last] = EndOfChain]
        /\ files' = [files EXCEPT ![h].size = file.pos]
        /\ Return(TRUE) /\ Fault
     \/ \* an entry on the way cannot be read
        /\ file.pos >= ClusterSize
        /\ Return(FALSE) /\ Fault
        /\ UNCHANGED <<fat, files>>
     \/ \* the chain is shorter than the position
        /\ file.pos > 0 /\ last = 0
        /\ Return(FALSE) /\ NoFault
        /\ UNCHANGED <<fat, files>>
  /\ UNCHANGED <<hint, data, slots, call, crashes, tainted>>

\* Clusters needed for a file of that size.
Needed(size) == (size + ClusterSize - 1) \div ClusterSize

\* n more clusters for the file.  The new chain is linked to where the walk over
\* the old one stops: that walk looks for a 0, which only a broken chain has,
\* goes on past the end and stops at a value set_next refuses.  If a FAT read
\* fails (`broken`) it stops early, and the new chain replaces the rest.
Grow(h, n, broken) ==
  LET first == files[h].first
      new   == Allocate(fat, hint, n)
      stops == {c \in OnChainIn(new.fat, first) : broken \/ NextIn(new.fat, c) = 0}
  IN
  IF n <= 0
  THEN Return(TRUE) /\ UNCHANGED <<fat, hint, files>>
  ELSE /\ IF new.ok /\ stops # {}
          THEN \E c \in stops : fat' = [new.fat EXCEPT ![c] = new.first]
          ELSE fat' = new.fat
       /\ hint' = new.hint
       /\ files' = [files EXCEPT ![h].first = IF new.ok /\ @ = 0 THEN new.first ELSE @]
       /\ Return(new.ok)

\* f_expand.  A FAT read that fails while the chain is counted cuts the count
\* short.  On a chain that runs in a circle the call never returns.
Expand(h, size) ==
  LET length == Len(ChainIn(fat, files[h].first)) IN
  /\ Ready("expand") /\ IsOpen(h) /\ Sole(h)
  /\ ~Circular(fat, files[h].first)
  /\ \/ Grow(h, Needed(size) - length, FALSE) /\ NoFault
     \/ length > 0 /\ Grow(h, Needed(size) - length, TRUE) /\ Fault
     \/ \E n \in 1 .. length : Grow(h, Needed(size) - n, FALSE) /\ Fault
  /\ UNCHANGED <<data, slots, call, crashes, tainted>>

\* f_unlink: the chain is freed first,
BeginUnlink(n) ==
  /\ Ready("unlink") /\ SlotOf(n) # 0
  /\ \A h \in Handles : files[h].slot # SlotOf(n)
  /\ fat' = Release(fat, slots[SlotOf(n)].first)
  /\ call' = [NoCall EXCEPT !.op = "unlink", !.slot = SlotOf(n)]
  /\ UNCHANGED <<hint, data, slots, files, result, faults, crashes, tainted>>

\* then the entry is marked deleted, unless its cluster cannot be accessed.
EndUnlink ==
  /\ call.op = "unlink"
  /\ \/ slots' = [slots EXCEPT ![call.slot] = FreeSlot] /\ Return(TRUE) /\ NoFault
     \/ Return(FALSE) /\ Fault /\ UNCHANGED slots
  /\ EndCall
  /\ UNCHANGED <<fat, hint, data, files, crashes>>
  /\ CheckVolume

-----------------------------------------------------------------------------
(* The program starts again: after it closed its files, or because the     *)
(* machine stopped, at any point.                                          *)

Reboot ==
  /\ hint' = 2
  /\ files' = [h \in Handles |-> ClosedFile]
  /\ EndCall
  /\ Return(TRUE)
  /\ UNCHANGED <<fat, data, slots, faults>>
  /\ CheckVolume

Restart ==
  /\ call.op = "none" /\ hint # 2 /\ \A h \in Handles : ~IsOpen(h)
  /\ Reboot
  /\ UNCHANGED crashes

Crash == crashes < MaxCrashes /\ crashes' = crashes + 1 /\ Reboot

CallStep ==
  \/ WalkToPosition \/ WriteCluster \/ AdvanceWrite \/ WriteClusterFails
  \/ EndUnlink

Next ==
  \/ \E h \in Handles :
       \/ \E n \in Names : OpenFile(h, n)
       \/ CloseFile(h) \/ SyncFile(h) \/ TruncateFile(h)
       \/ \E n \in 1 .. MaxBuffer :
            ReadFile(h, n) \/ \E k \in 0 .. n : Forward(h, n, k)
       \/ \E n \in 0 .. MaxExtent : Seek(h, n) \/ Expand(h, n)
       \/ \E buffer \in Buffers : BeginWrite(h, buffer)
  \/ \E n \in Names : Stat(n) \/ BeginUnlink(n)
  \/ CallStep
  \/ Restart
  \/ Crash

FileSpec == Init /\ [][Next]_fileVars

-----------------------------------------------------------------------------
(* What is required of the file calls.                                     *)

\* No entry or handle promises more bytes than its chain holds.  For the entries
\* it must be so at every moment: a crash makes them the truth.
SizesCovered ==
  /\ \A h \in Handles : files[h].size <= Capacity(files[h].first)
  /\ \A s \in Slot : s # call.slot /\ ("truncate" \notin Calls \/ \A h \in Handles : files[h].slot # s)
       => slots[s].size <= Capacity(slots[s].first)

\* Whatever fails, a step changes bytes of one file at most.
OneFileChanges ==
  [][~tainted' /\ crashes' = crashes =>
       Cardinality({n \in Names : Content(n)' # Content(n)}) <= 1]_fileVars

\* The file of the f_write in progress, and the range it was given.
Target == slots[files[call.handle].slot].name

WriteRange ==
  files[call.handle].pos + 1 .. files[call.handle].pos + Len(call.buffer)

\* What went wrong: crashes only, or one access that failed.
SingleFailure == faults = 0 \/ (faults = 1 /\ crashes = 0)

\* f_write changes no byte outside the range it was given, of its own file either,
\* and a write that returns false leaves size and position alone.  Two failures can
\* put bytes elsewhere: if the first leaves a size that the chain does not hold, and
\* the walk of f_write meets the second, the cluster it appends lies within the size.
WritesInRange ==
  [][~tainted' /\ call.op \in {"write", "copy"} /\ crashes' = crashes =>
       /\ \A n \in Names : \A i \in DOMAIN Content(n) :
            n # Target \/ (SingleFailure' /\ i \notin WriteRange) =>
              i \in DOMAIN Content(n)' /\ Content(n)'[i] = Content(n)[i]
       /\ ~(call'.op = "none" /\ result'.ok) => files' = files]_fileVars

\* What comments and the headers promise, and TLC refutes.

\* f_write, "Write file from buffer": without a failed access a write stops
\* short only for want of a free cluster.
WriteExtends ==
  [][call.op = "write" /\ call'.op = "none" /\ ~result'.ok
       /\ faults' = faults /\ crashes' = crashes => FreeIn(fat, hint) = {}]_fileVars
=============================================================================

--------------------------- MODULE ClusterManager ---------------------------
(***************************************************************************)
(* The cluster allocator and the cluster chains of cluster_manager.c, one  *)
(* sector write at a time.                                                 *)
(*                                                                         *)
(* The library is single-threaded: one call runs at a time, and between    *)
(* two calls nothing happens.  What makes it hard is that a call is a      *)
(* sequence of sector reads and writes.  Each of them may fail, the code   *)
(* often ignores that, and the machine may stop between any two of them.   *)
(* A step of this module is therefore one FAT sector write, or the reads   *)
(* and assignments between two writes.                                     *)
(*                                                                         *)
(* The callers (file_manager.c, dir_manager.c) are represented by what     *)
(* they remember: for each owner (a file or a directory) the first cluster *)
(* the running program holds, and the one its directory entry on disk      *)
(* names.  A reboot forgets the former and restarts the allocation hint.   *)
(***************************************************************************)
EXTENDS FatTable

CONSTANTS
  NumFATs,          \* BPB_NumFATs: the copies of the FAT
  EntriesPerSector, \* FAT entries in a sector (128 in a real volume)
  Owners,           \* files and directories that may own a cluster chain
  Root,             \* the owner that is the root directory
  Calls,            \* the calls the callers make in this instance
  MaxCount,         \* largest count asked of fat32_allocate_cluster_chain
  MaxFaults,        \* bound on sector reads and writes that fail
  MaxCrashes        \* bound on crashes

\* The two calls that build a new chain of several clusters.
BuildCalls == {"allocate_chain", "write_chain"}

AllCalls == BuildCalls \cup {"allocate", "append", "free", "cut"}

ASSUME SizesAssumption ==
  /\ NumFATs \in Nat \ {0}
  /\ EntriesPerSector \in Nat \ {0}
  /\ MaxCount \in Nat

ASSUME CallersAssumption ==
  /\ Root \in Owners
  /\ Calls \subseteq AllCalls

VARIABLES
  fat,      \* fat[i][c]: entry c of FAT copy i, on disk
  hint,     \* fat32_free_cluster_no, in memory
  held,     \* held[o]: first cluster of o known to the running program, or 0
  disk,     \* disk[o]: first cluster in o's directory entry on disk, or 0
  pc,       \* where the running call is
  call,     \* the locals of the running call
  write,    \* the fat32_set_next_cluster in progress
  faults,   \* failed sector accesses so far (bounded by MaxFaults)
  crashes,  \* crashes so far (bounded by MaxCrashes)
  tainted,  \* history: the program runs on a FAT it found or left unsound
  leaked    \* history: an allocation of several clusters gave up half-way

vars == <<fat, hint, held, disk, pc, call, write, faults, crashes, tainted, leaked>>

-----------------------------------------------------------------------------
(* Types and the state of the FAT.                                         *)

Copies == 1 .. NumFATs

SectorOf(c) == c \div EntriesPerSector

Locations == {"idle", "scan", "write", "marked", "linked", "next", "ended",
              "walk", "free", "freed", "cut"}

NoCall == [op |-> "none", owner |-> Root, curr |-> 0, next |-> 0, new |-> 0,
           first |-> 0, left |-> 0, ok |-> TRUE]

NoWrite == [cluster |-> 0, value |-> FREE, copy |-> 0, then |-> "idle"]

CallType ==
  [op : AllCalls \cup {"none"}, owner : Owners, curr : Entry, next : Entry,
   new : Cluster \cup {0}, first : Cluster \cup {0}, left : 0 .. MaxCount, ok : BOOLEAN]

WriteType ==
  [cluster : Cluster \cup {0}, value : Entry, copy : 0 .. NumFATs, then : Locations]

TypeOK ==
  /\ fat \in [Copies -> [FatIndex -> Entry]]
  /\ hint \in Cluster
  /\ held \in [Owners -> Cluster \cup {0}]
  /\ disk \in [Owners -> Cluster \cup {0}]
  /\ pc \in Locations
  /\ call \in CallType
  /\ write \in WriteType
  /\ faults \in Nat
  /\ crashes \in Nat
  /\ tainted \in BOOLEAN
  /\ leaked \in BOOLEAN

\* The entry the code sees: it only ever reads the first copy.
NextOf(c) == NextIn(fat[1], c)

\* The free clusters fat32_allocate_cluster can still find: its loop runs from
\* the hint to total_clusters inclusive.
FreeFrom(h) == {c \in h .. TotalClusters : fat[1][c] = FREE}

\* The clusters reached from first cluster c by following the FAT.
ChainFrom(c) == ChainIn(fat[1], c)

OnChain(c, s) == \E i \in 1 .. Len(s) : s[i] = c

\* What a program finds sound when it starts: every cluster a directory entry
\* or a FAT entry names is in use, and is named only once.
DiskSound ==
  /\ \A o \in Owners : disk[o] # 0 => fat[1][disk[o]] # FREE
  /\ \A c \in Cluster : fat[1][c] \in Cluster => fat[1][fat[1][c]] # FREE
  /\ \A o \in Owners, c \in Cluster : disk[o] # 0 => fat[1][c] # disk[o]
  /\ \A o, p \in Owners : disk[o] = disk[p] /\ disk[o] # 0 => o = p
  /\ \A c, d \in Cluster :
       fat[1][c] = fat[1][d] /\ fat[1][c] \in Cluster => c = d

-----------------------------------------------------------------------------
(* A volume just created and mounted: FAT[0], FAT[1] and the root          *)
(* directory's cluster 2 are marked, everything else is free.              *)

Init ==
  /\ fat = [i \in Copies |-> [c \in FatIndex |->
              IF c = 0 THEN MediaEntry ELSE IF c <= 2 THEN EndOfChain ELSE FREE]]
  /\ hint = 2
  /\ held = [o \in Owners |-> IF o = Root THEN 2 ELSE 0]
  /\ disk = held
  /\ pc = "idle"
  /\ call = NoCall
  /\ write = NoWrite
  /\ faults = 0
  /\ crashes = 0
  /\ tainted = FALSE
  /\ leaked = FALSE

-----------------------------------------------------------------------------
(* fat32_set_next_cluster.  The caller that starts it continues at `then`  *)
(* with call.ok the result.  An invalid cluster is refused at once.        *)

SetNext(c, value, then, frame) ==
  IF IsValidCluster(c)
  THEN /\ pc' = "write"
       /\ write' = [cluster |-> c, value |-> value, copy |-> 1, then |-> then]
       /\ call' = frame
  ELSE /\ pc' = then
       /\ write' = NoWrite
       /\ call' = [frame EXCEPT !.ok = FALSE]

Fault == faults < MaxFaults /\ faults' = faults + 1

\* Mutant: only the entry is patched in each copy, not the whole sector.
EntryBuffer(c, value) == [d \in {c} |-> value]

\* The sector buffer: the sector of the entry as the first copy has it, with
\* the entry replaced.  The whole sector goes to every copy in turn.
SectorBuffer(c, value) ==
  [d \in {e \in FatIndex : SectorOf(e) = SectorOf(c)} |->
     IF d = c THEN value ELSE fat[1][d]]

WriteSector(i, buffer) ==
  fat' = [fat EXCEPT ![i] =
            [d \in FatIndex |-> IF d \in DOMAIN buffer THEN buffer[d] ELSE @[d]]]

\* Mutant: the loop over the copies ends one copy early.
StopsEarly(i) == i + 1 >= NumFATs

LastCopy(i) == i = NumFATs

WriteFat ==
  /\ pc = "write"
  /\ WriteSector(write.copy, SectorBuffer(write.cluster, write.value))
  /\ IF LastCopy(write.copy)
     THEN /\ pc' = write.then
          /\ write' = NoWrite
          /\ call' = [call EXCEPT !.ok = TRUE]
     ELSE /\ write' = [write EXCEPT !.copy = @ + 1]
          /\ UNCHANGED <<pc, call>>
  /\ UNCHANGED <<hint, held, disk, faults, crashes, tainted, leaked>>

\* The read of the sector or the write of one copy fails: the copies not yet
\* written keep the old sector.
WriteFatFails ==
  /\ pc = "write"
  /\ Fault
  /\ pc' = write.then
  /\ write' = NoWrite
  /\ call' = [call EXCEPT !.ok = FALSE]
  /\ UNCHANGED <<fat, hint, held, disk, crashes, tainted, leaked>>

-----------------------------------------------------------------------------
(* How a call ends.  The caller's reaction is part of the step: f_write,   *)
(* f_expand and mkdir remember the cluster they were given; f_truncate and *)
(* f_unlink forget the chain whatever fat32_free_cluster_chain returned.   *)

EndCall == pc' = "idle" /\ call' = NoCall /\ write' = NoWrite

Return(first) ==
  /\ EndCall
  /\ held' = [held EXCEPT ![call.owner] = first]
  /\ UNCHANGED leaked

\* The result of free: both callers of a whole-chain free drop the chain.
ReturnFree == Return(IF call.op = "free" THEN 0 ELSE held[call.owner])

\* A false return of an allocating call: the clusters linked so far stay
\* marked in the FAT and nobody knows their first cluster.
ReturnFalse ==
  /\ EndCall
  /\ leaked' = (leaked \/ call.first # 0)
  /\ UNCHANGED held

-----------------------------------------------------------------------------
(* fat32_allocate_cluster, shared by every allocating call.                *)

FirstFree(c) == c \in FreeFrom(hint) /\ \A d \in FreeFrom(hint) : c <= d

\* Mutant: the mark is left to the end-of-chain write of the callers.
ScanUnmarked ==
  /\ pc = "scan"
  /\ \E c \in Cluster : FirstFree(c) /\ call' = [call EXCEPT !.new = c]
  /\ pc' = "marked"
  /\ UNCHANGED <<fat, hint, held, disk, write, faults, crashes, tainted, leaked>>

\* The scan finds the first free cluster at or above the hint and marks it.
Scan ==
  /\ pc = "scan"
  /\ \E c \in Cluster :
       FirstFree(c) /\ SetNext(c, EndOfChain, "marked", [call EXCEPT !.new = c])
  /\ UNCHANGED <<fat, hint, held, disk, faults, crashes, tainted, leaked>>

\* The scan reaches the end of its range, or a FAT sector cannot be read.
ScanFails ==
  /\ pc = "scan"
  /\ \/ FreeFrom(hint) = {} /\ UNCHANGED faults
     \/ hint <= TotalClusters /\ Fault
  /\ ReturnFalse
  /\ UNCHANGED <<fat, hint, disk, crashes, tainted>>

\* The mark is done, or failed: its result is ignored and the caller goes on
\* with the cluster: it links it to the previous one, if there is one.
Allocated ==
  \/ /\ call.op = "allocate"
     /\ Return(call.new)
  \/ /\ call.op \in BuildCalls /\ call.curr = 0
     /\ pc' = "next"
     /\ call' = [call EXCEPT !.first = call.new]
     /\ UNCHANGED <<held, write, leaked>>
  \/ /\ call.op = "append" \/ (call.op \in BuildCalls /\ call.curr # 0)
     /\ SetNext(call.curr, call.new, "linked", call)
     /\ UNCHANGED <<held, leaked>>

\* Mutant: the hint stays on the cluster just given out.
MarkedHintStays ==
  /\ pc = "marked" /\ Allocated
  /\ hint' = call.new
  /\ UNCHANGED <<fat, disk, faults, crashes, tainted>>

\* Mutant: the hint skips a cluster.
MarkedHintSkips ==
  /\ pc = "marked" /\ Allocated
  /\ hint' = call.new + 2
  /\ UNCHANGED <<fat, disk, faults, crashes, tainted>>

Marked ==
  /\ pc = "marked" /\ Allocated
  /\ hint' = call.new + 1
  /\ UNCHANGED <<fat, disk, faults, crashes, tainted>>

-----------------------------------------------------------------------------
(* The calls.                                                              *)

\* A caller's first cluster: f_write on an empty file, fat32_mkdir_internal.
CallAllocate(o) ==
  /\ pc = "idle" /\ "allocate" \in Calls
  /\ o # Root /\ held[o] = 0
  /\ pc' = "scan"
  /\ call' = [NoCall EXCEPT !.op = "allocate", !.owner = o]
  /\ UNCHANGED <<fat, hint, held, disk, write, faults, crashes, tainted, leaked>>

\* fat32_allocate_cluster_chain, called by f_expand on a file with no cluster,
\* and fat32_write_cluster_chain, called by fat32_create_file_in_dir.
CallBuild(o, op, count) ==
  /\ pc = "idle" /\ op \in BuildCalls \cap Calls
  /\ o # Root /\ held[o] = 0
  /\ pc' = "scan"
  /\ call' = [NoCall EXCEPT !.op = op, !.owner = o, !.left = count]
  /\ UNCHANGED <<fat, hint, held, disk, write, faults, crashes, tainted, leaked>>

\* One more turn of its loop, or the final end-of-chain mark.
BuildNext ==
  /\ pc = "next"
  /\ IF call.left > 1
     THEN /\ pc' = "scan"
          /\ call' = [call EXCEPT !.curr = call.new, !.left = @ - 1]
          /\ UNCHANGED write
     ELSE SetNext(call.new, EndOfChain, "ended", call)
  /\ UNCHANGED <<fat, hint, held, disk, faults, crashes, tainted, leaked>>

\* write_chain fills each cluster before the next one; that write may fail.
DataWriteFails ==
  /\ pc = "next" /\ call.op = "write_chain"
  /\ Fault
  /\ ReturnFalse
  /\ UNCHANGED <<fat, hint, disk, crashes, tainted>>

\* allocate_chain gives up when a FAT write fails, write_chain does not look.
BuildLinked ==
  /\ pc = "linked" /\ call.op \in BuildCalls
  /\ IF call.ok \/ call.op = "write_chain"
     THEN pc' = "next" /\ UNCHANGED <<call, write, held, leaked>>
     ELSE ReturnFalse
  /\ UNCHANGED <<fat, hint, disk, faults, crashes, tainted>>

BuildEnded ==
  /\ pc = "ended" /\ call.op \in BuildCalls
  /\ IF call.ok \/ call.op = "write_chain" THEN Return(call.first) ELSE ReturnFalse
  /\ UNCHANGED <<fat, hint, disk, faults, crashes, tainted>>

\* fat32_append_cluster: extend the chain of a directory that is full.
CallAppend(o) ==
  /\ pc = "idle" /\ "append" \in Calls
  /\ held[o] # 0
  /\ pc' = "walk"
  /\ call' = [NoCall EXCEPT !.op = "append", !.owner = o, !.curr = held[o]]
  /\ UNCHANGED <<fat, hint, held, disk, write, faults, crashes, tainted, leaked>>

\* Its walk to the end of the chain.  A value of 0, read or returned for a
\* failed read, is followed like any other.
Walk ==
  /\ pc = "walk"
  /\ IF IsEndOfChain(NextOf(call.curr))
     THEN pc' = "scan" /\ UNCHANGED call
     ELSE call' = [call EXCEPT !.curr = NextOf(call.curr)] /\ UNCHANGED pc
  /\ UNCHANGED <<fat, hint, held, disk, write, faults, crashes, tainted, leaked>>

WalkReadFails ==
  /\ pc = "walk"
  /\ Fault
  /\ call' = [call EXCEPT !.curr = 0]
  /\ UNCHANGED <<fat, hint, held, disk, pc, write, crashes, tainted, leaked>>

\* Mutant: the arguments of the final mark are confused with those of the link.
AppendLinksBack ==
  /\ pc = "linked" /\ call.op = "append"
  /\ SetNext(call.new, call.curr, "ended", call)
  /\ UNCHANGED <<fat, hint, held, disk, faults, crashes, tainted, leaked>>

\* Both results are ignored: after the link the new cluster is marked again,
\* and append returns true.
AppendLinked ==
  /\ pc = "linked" /\ call.op = "append"
  /\ SetNext(call.new, EndOfChain, "ended", call)
  /\ UNCHANGED <<fat, hint, held, disk, faults, crashes, tainted, leaked>>

AppendEnded ==
  /\ pc = "ended" /\ call.op = "append"
  /\ Return(held[call.owner])
  /\ UNCHANGED <<fat, hint, disk, faults, crashes, tainted>>

\* fat32_free_cluster_chain from the first cluster: f_truncate at position 0,
\* f_unlink.
CallFree(o) ==
  /\ pc = "idle" /\ "free" \in Calls
  /\ o # Root /\ held[o] # 0
  /\ pc' = "free"
  /\ call' = [NoCall EXCEPT !.op = "free", !.owner = o, !.curr = held[o]]
  /\ UNCHANGED <<fat, hint, held, disk, write, faults, crashes, tainted, leaked>>

\* The head of its loop: read the next cluster, then mark this one free.  A
\* next value of 0 ends the call with false, an invalid cluster with true.
Free ==
  /\ pc = "free"
  /\ IF IsValidCluster(call.curr) /\ NextOf(call.curr) # 0
     THEN /\ SetNext(call.curr, FREE, "freed",
                     [call EXCEPT !.next = NextOf(call.curr)])
          /\ UNCHANGED <<held, leaked>>
     ELSE ReturnFree
  /\ UNCHANGED <<fat, hint, disk, faults, crashes, tainted>>

FreeReadFails ==
  /\ pc = "free" /\ IsValidCluster(call.curr)
  /\ Fault
  /\ ReturnFree
  /\ UNCHANGED <<fat, hint, disk, crashes, tainted>>

\* Mutant: the end of the chain is recognised one cluster too early.
MoreBeforeLast == call.ok /\ ~IsEndOfChain(NextOf(call.next))

MoreToFree == call.ok /\ ~IsEndOfChain(call.next)

Freed ==
  /\ pc = "freed"
  /\ IF MoreToFree
     THEN /\ pc' = "free"
          /\ call' = [call EXCEPT !.curr = call.next]
          /\ UNCHANGED <<held, write, leaked>>
     ELSE ReturnFree
  /\ UNCHANGED <<fat, hint, disk, faults, crashes, tainted>>

\* Mutant: the new last cluster is freed with the rest.
CutFrom(o, c, rest) ==
  SetNext(c, EndOfChain, "cut",
    [NoCall EXCEPT !.op = "cut", !.owner = o, !.curr = c, !.next = c])

CutAfter(o, c, rest) ==
  SetNext(c, EndOfChain, "cut",
    [NoCall EXCEPT !.op = "cut", !.owner = o, !.curr = c, !.next = rest])

\* The tail of f_truncate: cluster c of o's chain becomes the last one and the
\* rest is freed.  The read of c's successor may fail and yield 0.
CallCut(o, c) ==
  /\ pc = "idle" /\ "cut" \in Calls
  /\ o # Root /\ held[o] # 0 /\ OnChain(c, ChainFrom(held[o]))
  /\ \/ CutAfter(o, c, NextOf(c)) /\ UNCHANGED faults
     \/ CutAfter(o, c, 0) /\ Fault
  /\ UNCHANGED <<fat, hint, held, disk, crashes, tainted, leaked>>

\* The result of the end-of-chain write is ignored: the rest is freed even if
\* c still points to it.
Cut ==
  /\ pc = "cut"
  /\ IF call.next # 0
     THEN pc' = "free" /\ call' = [call EXCEPT !.curr = call.next] /\ UNCHANGED write
     ELSE EndCall
  /\ tainted' = (tainted \/ NextOf(call.curr) # EndOfChain)
  /\ UNCHANGED <<fat, hint, held, disk, faults, crashes, leaked>>

-----------------------------------------------------------------------------
(* The directory entry, and reboots.                                       *)

\* f_close, f_sync, fat32_create_dir_entry or f_unlink writes the directory
\* entry of o.
Persist(o) ==
  /\ pc = "idle"
  /\ disk[o] # held[o]
  /\ disk' = [disk EXCEPT ![o] = held[o]]
  /\ UNCHANGED <<fat, hint, held, pc, call, write, faults, crashes, tainted, leaked>>

\* A new run of the program: the hint starts from its initial value, and what
\* is known of the files is what the directory entries say.
Reboot ==
  /\ hint' = 2
  /\ held' = disk
  /\ EndCall
  /\ tainted' = (tainted \/ ~DiskSound)
  /\ UNCHANGED <<fat, disk, faults, leaked>>

Restart == pc = "idle" /\ held = disk /\ Reboot /\ UNCHANGED crashes

Crash == crashes < MaxCrashes /\ crashes' = crashes + 1 /\ Reboot

-----------------------------------------------------------------------------

CallStep ==
  \/ WriteFat \/ WriteFatFails
  \/ Scan \/ ScanFails \/ Marked
  \/ BuildNext \/ DataWriteFails \/ BuildLinked \/ BuildEnded
  \/ Walk \/ WalkReadFails \/ AppendLinked \/ AppendEnded
  \/ Free \/ FreeReadFails \/ Freed \/ Cut

Next ==
  \/ CallStep
  \/ \E o \in Owners :
       \/ CallAllocate(o)
       \/ \E op \in BuildCalls, count \in 1 .. MaxCount : CallBuild(o, op, count)
       \/ CallAppend(o)
       \/ CallFree(o)
       \/ \E c \in Cluster : CallCut(o, c)
       \/ Persist(o)
  \/ Restart
  \/ Crash

\* A call, once made, runs to its end: the library has no scheduler to wait for.
Spec == Init /\ [][Next]_vars

FairSpec == Spec /\ WF_vars(CallStep)

-----------------------------------------------------------------------------
(* What is required of the allocator.                                      *)

UniqueSuccessors ==
  \A c, d \in Cluster : fat[1][c] = fat[1][d] /\ fat[1][c] \in Cluster => c = d

UniqueFirsts ==
  \A o, p \in Owners : held[o] = held[p] /\ held[o] # 0 => o = p

FirstsUnlinked ==
  \A o \in Owners, c \in Cluster : held[o] # 0 => fat[1][c] # held[o]

\* No cluster is in two chains, twice in one, or the first of one chain and in
\* another: whatever fails, and wherever a call stops, as long as the program
\* started from a sound FAT.  It is what makes the unbounded walks of the code
\* (append, count, validate, free) end and files not overwrite each other.
NoCrossLink ==
  ~tainted => UniqueSuccessors /\ UniqueFirsts /\ FirstsUnlinked

\* The machine may stop at any step of any call, and the next run finds a
\* sound FAT: links are written after the marks they need.  The two windows
\* left open are those of the callers that free a chain a directory entry on
\* disk still names (f_truncate and f_unlink, until they rewrite the entry).
CrashSafe ==
  /\ faults = 0 /\ ~tainted
  /\ \A o \in Owners : disk[o] \in {0, held[o]}
  /\ call.op = "free" => disk[call.owner] = 0
  => DiskSound

\* Between calls, the clusters in use are those of the owners' chains: nothing
\* is lost and nothing is both free and on a chain, unless an access failed, the
\* machine stopped, or an allocation of several clusters ran out of space.
SpaceAccounted ==
  pc = "idle" /\ faults = 0 /\ crashes = 0 /\ ~leaked =>
    {c \in Cluster : fat[1][c] # FREE}
      = {c \in Cluster : \E o \in Owners : OnChain(c, ChainFrom(held[o]))}

\* The copies of the FAT differ only in the entry being written, and only in
\* the copies that write has not reached.
MirrorExact ==
  faults = 0 /\ crashes = 0 =>
    \A i \in Copies, c \in FatIndex :
      fat[i][c] # fat[1][c] =>
        pc = "write" /\ c = write.cluster /\ i >= write.copy /\ write.copy > 1

\* A set_next that succeeds leaves its whole sector equal in all copies: it
\* repairs what an earlier failure or crash left different.
MirrorHeals ==
  [][pc = "write" /\ pc' # "write" /\ call'.ok /\ crashes' = crashes =>
       \A i \in Copies, c \in FatIndex :
         SectorOf(c) = SectorOf(write.cluster) => fat'[i][c] = fat'[1][c]]_vars

\* Every call returns, even if reads and writes fail on the way: the walks end.
CallsReturn == pc # "idle" ~> (pc = "idle" \/ tainted)
=============================================================================

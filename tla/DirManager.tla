----------------------------- MODULE DirManager -----------------------------
(***************************************************************************)
(* The directory calls of dir_manager.c, and f_open and f_unlink of        *)
(* file_manager.c as far as they change directories, on the directory      *)
(* clusters of a volume.                                                   *)
(*                                                                         *)
(* A call is a sequence of cluster writes with reads between them.  A step *)
(* is one cluster write, or the reads and the allocator calls between two. *)
(* A write may fail or be cut off by a crash after some of its sectors.    *)
(* An entry stands for what it names: of a directory it holds the first    *)
(* cluster, while the chains of files are the business of FileManager.     *)
(***************************************************************************)
EXTENDS FatCalls, DirEntries

CONSTANTS
  MaxDepth,    \* longest path in front of the last name
  DirCalls,    \* the calls the program makes in this instance
  MaxFaults,   \* bound on reads and writes, of clusters and the FAT, that fail
  MaxCrashes   \* bound on crashes

AllDirCalls == {"mkdir", "open", "unlink", "rename", "chdir", "readdir"}

ASSUME DirAssumption ==
  /\ TotalClusters >= 2
  /\ MaxDepth \in Nat
  /\ DirCalls \subseteq AllDirCalls
  /\ MaxFaults \in Nat /\ MaxCrashes \in Nat

VARIABLES
  fat,      \* the FAT on disk
  hint,     \* fat32_free_cluster_no, in memory
  slots,    \* slots[c]: the 32-byte slots of cluster c, on disk
  cwd,      \* fat32_cwd_cluster, in memory
  pc,       \* where the running call is
  call,     \* its locals
  dp,       \* the FAT32_DIR object: current_cluster and pos
  pass,     \* history: what the pass through a directory with dp returned
  faults,   \* failed accesses so far (bounded by MaxFaults)
  crashes,  \* crashes so far (bounded by MaxCrashes)
  raw,      \* history: allocated clusters that were never written as a directory
  tainted   \* history: an entry names what is not its own, or lies where nothing leads

dirVars ==
  <<fat, hint, slots, cwd, pc, call, dp, pass, faults, crashes, raw, tainted>>

-----------------------------------------------------------------------------
Root == 2  \* get_root_dir_cluster()

\* No cluster: a path that does not resolve, a closed FAT32_DIR.
None == 0

Nowhere == <<None, 0>>

Locations == {"idle", "clear", "init", "check", "place", "extended", "entry", "delete"}

NoCall == [op |-> "none", parent |-> None, name |-> "", dir |-> FALSE, first |-> None,
           at |-> Nowhere, old |-> Nowhere]

ClosedDir == [cluster |-> None, pos |-> 0]

NoPass ==
  [dir |-> None, want |-> {}, listed |-> {}, staying |-> {}, again |-> FALSE,
   cut |-> None]

Somewhere == (Cluster \X Slots) \cup {Nowhere}

CallType ==
  [op : {"none", "mkdir", "open", "unlink", "rename"}, parent : Entry,
   name : Names \cup {""}, dir : BOOLEAN, first : Entry,
   at : Somewhere, old : Somewhere]

DirTypeOK ==
  /\ fat \in [FatIndex -> Entry]
  /\ hint \in Cluster
  /\ slots \in [Cluster -> [Slots -> SlotType]]
  /\ cwd \in Cluster
  /\ pc \in Locations
  /\ call \in CallType
  /\ dp \in [cluster : Cluster \cup {None}, pos : 0 .. SlotsPerCluster]
  /\ pass.listed \subseteq Cluster \X Slots
  /\ pass.staying \subseteq Cluster \X Slots
  /\ faults \in 0 .. MaxFaults
  /\ crashes \in 0 .. MaxCrashes
  /\ raw \subseteq Cluster
  /\ tainted \in BOOLEAN

\* The clusters a scan of directory d goes through.
Walk(d) == ChainIn(fat, d)

\* What is left of it when the FAT entry of the k-th cluster cannot be read: the 0
\* that fat32_get_next_cluster returns is no cluster.
WalkTo(d, k) == SubSeq(Walk(d), 1, k)

-----------------------------------------------------------------------------
(* Paths.                                                                  *)

Component == Names \cup {".", ".."}

\* What stands in front of the last name of a path.
Prefixes == UNION {[1 .. n -> Component] : n \in 0 .. MaxDepth}

\* One component of fat32_path_to_cluster from directory d.
Down(d, component) ==
  IF d = None \/ component = "." THEN d ELSE FindDir(slots, Walk(d), component)

\* f_cwd stays where it is when it does not find "..".
DownOrStay(d, component) ==
  IF component = ".." /\ Down(d, component) = None THEN d ELSE Down(d, component)

Resolve(start, path) ==
  LET to[i \in 0 .. Len(path)] == IF i = 0 THEN start ELSE Down(to[i - 1], path[i])
  IN  to[Len(path)]

ResolveCwd(start, path) ==
  LET to[i \in 0 .. Len(path)] == IF i = 0 THEN start ELSE DownOrStay(to[i - 1], path[i])
  IN  to[Len(path)]

\* The directories that absolute and relative paths lead to.
Directories ==
  {Resolve(start, path) : start \in {Root, cwd}, path \in Prefixes} \ {None}

-----------------------------------------------------------------------------
Init ==
  /\ fat = EmptyFat
  /\ hint = 2
  /\ slots = [c \in Cluster |-> EmptyCluster]
  /\ cwd = Root
  /\ pc = "idle"
  /\ call = NoCall
  /\ dp = ClosedDir
  /\ pass = NoPass
  /\ faults = 0
  /\ crashes = 0
  /\ raw = {}
  /\ tainted = FALSE

\* What a program does to a directory tree it has broken is not followed.
Ready(op) == pc = "idle" /\ op \in DirCalls /\ ~tainted

Fault == faults < MaxFaults /\ faults' = faults + 1

EndCall == pc' = "idle" /\ call' = NoCall

NoPassStep == UNCHANGED <<dp, pass>>

-----------------------------------------------------------------------------
(* Cluster writes.                                                         *)

Writing == {"clear", "init", "extended", "entry", "delete"}

Target ==
  IF pc \in {"clear", "init"} THEN call.first
  ELSE IF pc = "delete" THEN call.old[1] ELSE call.at[1]

\* The buffer the call writes there.
Content ==
  CASE pc \in {"clear", "extended"} -> EmptyCluster
    [] pc = "init" -> NewDirectory(call.first, call.parent)
    [] pc = "entry" ->
         WithEntry(slots[Target], call.at[2], call.name, call.dir, call.first)
    [] pc = "delete" -> WithoutEntry(slots[Target], call.old[2])

\* The entries a pass through a directory has yet to see, as long as they stay.
StillThere ==
  pass' = [pass EXCEPT !.staying =
             {p \in @ : slots'[p[1]][p[2]] = slots[p[1]][p[2]]}]

Written == slots' = [slots EXCEPT ![Target] = Content]

\* Some leading sectors of the cluster are written, not all of them.
Torn ==
  \E n \in {m \in 0 .. SlotsPerCluster - 1 : m % SlotsPerSector = 0} :
    slots' = [slots EXCEPT ![Target] =
                [s \in Slots |-> IF s <= n THEN Content[s] ELSE @[s]]]

WriteFails == Fault /\ Torn /\ StillThere

WriteWorks == UNCHANGED faults /\ Written /\ StillThere

-----------------------------------------------------------------------------
(* fat32_find_file and fat32_dir_exists under failing reads.               *)

\* fat32_find_file ignores a failed read: it searches what the buffer holds, the
\* previous cluster of the directory or, for the first, what was in this memory.
Misread(d) ==
  {[slots EXCEPT ![d] = slots[c]] : c \in Cluster} \cup
  {[slots EXCEPT ![Walk(d)[k]] = slots[Walk(d)[k - 1]]] : k \in 2 .. Len(Walk(d))}

Looks(d) == {slots} \cup (IF faults < MaxFaults THEN Misread(d) ELSE {})

CountLook(sl) == faults' = IF sl = slots THEN faults ELSE faults + 1

\* fat32_find_file returns the entry at slot s of cluster c.
Finds(sl, d, n, c, s) ==
  LET ch == Walk(d)
      found == FileMatches(sl, ch, n)
  IN  \E p \in found : IsFirst(p, found) /\ <<ch[p[1]], p[2]>> = <<c, s>>

\* Mutant: nobody looks.
NoDirectoryUnseen(d, n) == UNCHANGED faults

\* fat32_dir_exists returns false, because of a failed read perhaps.
NoDirectory(d, n) ==
  \/ ~DirExists(slots, Walk(d), n) /\ UNCHANGED faults
  \/ Fault

-----------------------------------------------------------------------------
(* The history of what may go wrong by design.                             *)

\* The directories at and below f, by the contents sl of the clusters.
BelowIn(sl, f) ==
  LET grow[n \in 0 .. TotalClusters] ==
        IF n = 0 THEN {f}
        ELSE grow[n - 1] \cup
             {sl[p[1]][p[2]].first : p \in
                {q \in (Cluster \ raw) \X Slots :
                   /\ IsDirEntry(sl[q[1]][q[2]])
                   /\ \E d \in grow[n - 1] : q[1] \in OnChainIn(fat, d)}}
  IN  grow[TotalClusters]

Below(f) == BelowIn(slots, f)

\* f_rename has put the new entry of a directory somewhere below that directory,
\* which nothing but the old entry leads to.
MovedInside ==
  /\ call.op = "rename" /\ call.dir
  /\ \E d \in Below(call.first) : call.at[1] \in OnChainIn(fat, d)

\* What f_unlink of the directory at f does not look for: entries in it, another
\* entry that names it, the program being in it.
InTheWay(f, c, s) ==
  \/ f = cwd
  \/ \E d \in OnChainIn(fat, f), t \in Slots : IsEntry(slots[d][t])
  \/ \E d \in Cluster, t \in Slots :
       <<d, t>> # <<c, s>> /\ fat[d] # FREE /\ IsDirEntry(slots[d][t])
         /\ slots[d][t].first = f

-----------------------------------------------------------------------------
(* The calls that create entries.                                          *)

\* f_mkdir, fat32_mkdir_internal: the cluster of the new directory comes first.
\* That the mark in the FAT failed goes unnoticed; the directory's cluster is free.
CallMkdir(d, n) ==
  /\ Ready("mkdir")
  /\ LET new == Allocate(fat, hint, 1)
     IN  /\ new.ok
         /\ \/ NoDirectory(d, n) /\ fat' = new.fat /\ UNCHANGED tainted
            \/ ~DirExists(slots, Walk(d), n) /\ Fault /\ fat' = fat /\ tainted' = TRUE
         /\ hint' = new.hint
         /\ \E c \in Cluster :
              /\ c = new.first
              /\ raw' = raw \cup {c}
              /\ call' = [NoCall EXCEPT !.op = "mkdir", !.parent = d, !.name = n,
                                       !.dir = TRUE, !.first = c]
  /\ pc' = "clear"
  /\ NoPassStep
  /\ UNCHANGED <<slots, cwd, crashes>>

\* The result of fat32_clear_cluster is ignored.
ClearNew ==
  /\ pc = "clear"
  /\ WriteWorks \/ WriteFails
  /\ pc' = "init"
  /\ UNCHANGED <<fat, hint, cwd, call, dp, crashes, raw, tainted>>

\* fat32_init_directory.  If it fails f_mkdir returns false; the cluster stays
\* allocated and nothing names it.
InitNew ==
  /\ pc = "init"
  /\ \/ /\ WriteWorks
        /\ pc' = "place" /\ raw' = raw \ {call.first} /\ UNCHANGED call
     \/ WriteFails /\ EndCall /\ UNCHANGED raw
  /\ UNCHANGED <<fat, hint, cwd, dp, crashes, tainted>>

\* f_open of a file that is not there, or lies behind a cluster whose FAT entry
\* cannot be read.  (Of one that is there it changes nothing.)
CallOpen(d, n) ==
  /\ Ready("open")
  /\ \/ \E sl \in Looks(d) : FileMatches(sl, Walk(d), n) = {} /\ CountLook(sl)
     \/ Fault /\ \E k \in DOMAIN Walk(d) : FileMatches(slots, WalkTo(d, k), n) = {}
  /\ pc' = "place"
  /\ call' = [NoCall EXCEPT !.op = "open", !.parent = d, !.name = n]
  /\ NoPassStep
  /\ UNCHANGED <<fat, hint, slots, cwd, crashes, raw, tainted>>

\* fat32_find_contiguous_free_entries finds room in the directory.
PlaceInside ==
  /\ pc = "place"
  /\ \E c \in Cluster, s \in Slots :
       /\ LET ch == Walk(call.parent)
              runs == FreeRuns(slots, ch, SlotsNeeded(call.name))
          IN  \E p \in runs : IsFirst(p, runs) /\ <<ch[p[1]], p[2]>> = <<c, s>>
       /\ Fits(slots, c, s, SlotsNeeded(call.name))
       /\ call' = [call EXCEPT !.at = <<c, s>>]
  /\ pc' = "entry"
  /\ NoPassStep
  /\ UNCHANGED <<fat, hint, slots, cwd, faults, crashes, raw, tainted>>

NoRoom(ch) == FreeRuns(slots, ch, SlotsNeeded(call.name)) = {}

\* The entry goes to the beginning of the cluster that was allocated.
EntryInNew(new) ==
  /\ new.ok
  /\ fat' = new.fat /\ hint' = new.hint
  /\ \E c \in Cluster :
       /\ c = new.first
       /\ raw' = raw \cup {c}
       /\ call' = [call EXCEPT !.at = <<c, 1>>]

\* It finds none, or a FAT read fails and it looks no further: fat32_append_cluster
\* gives the directory one more cluster.  If a FAT read fails on its way to the last
\* one, or the link from there cannot be written, it returns true all the same,
\* with a cluster that is not on the directory's chain.
PlaceBehind ==
  /\ pc = "place"
  /\ \/ /\ NoRoom(Walk(call.parent)) /\ UNCHANGED <<faults, tainted>>
        /\ EntryInNew(Append1(fat, hint, call.parent))
     \/ /\ Fault /\ \E k \in DOMAIN Walk(call.parent) : NoRoom(WalkTo(call.parent, k))
        /\ EntryInNew(Append1(fat, hint, call.parent)) /\ UNCHANGED tainted
     \/ /\ Fault /\ NoRoom(Walk(call.parent)) /\ tainted' = TRUE
        /\ EntryInNew(Allocate(fat, hint, 1))
  /\ pc' = "extended"
  /\ NoPassStep
  /\ UNCHANGED <<slots, cwd, crashes>>

\* No free cluster; or a cluster of the directory, or a FAT sector in which
\* fat32_allocate_cluster looks for a free one, cannot be read.
PlaceFails ==
  /\ pc = "place"
  /\ \/ /\ NoRoom(Walk(call.parent))
        /\ ~Append1(fat, hint, call.parent).ok
        /\ UNCHANGED faults
     \/ Fault
  /\ EndCall
  /\ NoPassStep
  /\ UNCHANGED <<fat, hint, slots, cwd, crashes, raw, tainted>>

\* The result of clearing the new cluster is ignored; if it fails the directory
\* goes on in whatever the cluster held before.
ClearExtension ==
  /\ pc = "extended"
  /\ \/ WriteWorks /\ raw' = raw \ {call.at[1]} /\ UNCHANGED tainted
     \/ WriteFails /\ tainted' = TRUE /\ UNCHANGED raw
  /\ pc' = "entry"
  /\ UNCHANGED <<fat, hint, cwd, call, dp, crashes>>

\* Mutant: the result of the write is ignored.
WriteEntryUnchecked ==
  /\ pc = "entry"
  /\ WriteWorks \/ WriteFails
  /\ IF call.op = "rename" THEN pc' = "delete" /\ UNCHANGED call ELSE EndCall
  /\ UNCHANGED <<fat, hint, cwd, dp, crashes, raw, tainted>>

\* fat32_create_dir_entry writes long and short entries with one cluster write.
WriteEntry ==
  /\ pc = "entry"
  /\ \/ /\ WriteWorks
        /\ IF call.op = "rename" THEN pc' = "delete" /\ UNCHANGED call ELSE EndCall
     \/ WriteFails /\ EndCall
  /\ UNCHANGED <<fat, hint, cwd, dp, crashes, raw, tainted>>

-----------------------------------------------------------------------------
(* The calls that delete entries.                                          *)

\* f_rename of what it finds as n in d, to any name anywhere.
CallRename(d, n) ==
  /\ Ready("rename")
  /\ \E sl \in Looks(d), c \in Cluster, s \in Slots :
       /\ Finds(sl, d, n, c, s)
       /\ CountLook(sl)
       /\ \E e \in Directories, m \in Names :
            call' = [NoCall EXCEPT !.op = "rename", !.parent = e, !.name = m,
                        !.dir = sl[c][s].dir, !.first = sl[c][s].first, !.old = <<c, s>>]
       /\ tainted' = (tainted \/ sl # slots)
  /\ pc' = "check"
  /\ NoPassStep
  /\ UNCHANGED <<fat, hint, slots, cwd, crashes, raw>>

\* Only a directory of the new name makes it refuse.
CheckTarget ==
  /\ pc = "check"
  /\ \/ NoDirectory(call.parent, call.name) /\ pc' = "place" /\ UNCHANGED call
     \/ DirExists(slots, Walk(call.parent), call.name) /\ EndCall /\ UNCHANGED faults
  /\ NoPassStep
  /\ UNCHANGED <<fat, hint, slots, cwd, crashes, raw, tainted>>

\* f_unlink: what it finds as n in d, file or directory, loses its chain.
CallUnlink(d, n) ==
  /\ Ready("unlink")
  /\ \E sl \in Looks(d), c \in Cluster, s \in Slots :
       /\ Finds(sl, d, n, c, s)
       /\ call' = [NoCall EXCEPT !.op = "unlink", !.dir = sl[c][s].dir,
                      !.first = sl[c][s].first, !.old = <<c, s>>]
       /\ fat' = IF sl[c][s].first = None THEN fat ELSE Release(fat, sl[c][s].first)
       /\ pass' = IF sl[c][s].dir /\ sl[c][s].first = pass.dir THEN NoPass ELSE pass
       /\ CountLook(sl)
       /\ tainted' = (tainted \/ sl # slots
                       \/ (sl[c][s].dir /\ InTheWay(sl[c][s].first, c, s)))
  /\ pc' = "delete"
  /\ UNCHANGED <<hint, slots, cwd, dp, crashes, raw>>

\* The entry is marked deleted; its long-name slots stay.  If that fails after
\* the chain was freed, the entry names free clusters.
DeleteEntry ==
  /\ pc = "delete"
  /\ \/ WriteWorks /\ tainted' = (tainted \/ MovedInside)
     \/ WriteFails /\ tainted' = (tainted \/ MovedInside \/ (call.op = "unlink" /\ call.dir))
  /\ EndCall
  /\ UNCHANGED <<fat, hint, cwd, dp, crashes, raw>>

-----------------------------------------------------------------------------
(* Going to directories and reading them.                                  *)

\* f_chdir; f_cwd.
ChangeDir ==
  /\ Ready("chdir")
  /\ cwd' \in (Directories \cup
       {ResolveCwd(start, path) : start \in {Root, cwd}, path \in Prefixes}) \ {None}
  /\ cwd' # cwd
  /\ UNCHANGED <<fat, hint, slots, pc, call, dp, pass, faults, crashes, raw, tainted>>

\* f_opendir.  What the program looks for with f_readdir is any entry, with
\* f_findfirst and f_findnext those whose 8.3 form the pattern matches.
OpenDir(d) ==
  /\ Ready("readdir")
  /\ dp' = [cluster |-> d, pos |-> 0]
  /\ \E want \in {{Short[n] : n \in Names} \cup {".", ".."}} \cup {{Short[n]} : n \in Names} :
       pass' = [NoPass EXCEPT !.dir = d, !.want = want, !.staying =
                  {p \in OnChainIn(fat, d) \X Slots :
                     LET slot == slots[p[1]][p[2]]
                     IN  slot.kind = "short" /\ Stored83(slot) \in want}]
  /\ UNCHANGED <<fat, hint, slots, cwd, pc, call, faults, crashes, raw, tainted>>

\* Mutant: the slot it stopped at last is looked at again.
StopsAgain ==
  LET ch == Walk(dp.cluster)
  IN  {p \in Places(ch) :
         /\ p[1] > 1 \/ p[2] >= dp.pos
         /\ \/ At(slots, ch, p).kind = "end"
            \/ /\ At(slots, ch, p).kind = "short"
               /\ Stored83(At(slots, ch, p)) \in pass.want}

\* Mutant: the position is kept from one cluster to the next.
StopsBehind ==
  LET ch == Walk(dp.cluster)
  IN  {p \in Places(ch) :
         /\ p[2] > dp.pos
         /\ \/ At(slots, ch, p).kind = "end"
            \/ /\ At(slots, ch, p).kind = "short"
               /\ Stored83(At(slots, ch, p)) \in pass.want}

\* Where f_readdir, or the loop of f_findnext around it, stops.
Stops ==
  LET ch == Walk(dp.cluster)
  IN  {p \in Places(ch) :
         /\ p[1] > 1 \/ p[2] > dp.pos
         /\ \/ At(slots, ch, p).kind = "end"
            \/ /\ At(slots, ch, p).kind = "short"
               /\ Stored83(At(slots, ch, p)) \in pass.want}

\* It stops at an entry or at an end mark, which it steps over.
ReadStops ==
  /\ Ready("readdir") /\ dp.cluster # None
  /\ \E p \in Stops :
       LET c == Walk(dp.cluster)[p[1]]
       IN  /\ IsFirst(p, Stops)
           /\ dp' = [cluster |-> c, pos |-> p[2]]
           /\ pass' = IF slots[c][p[2]].kind = "end" THEN pass
                      ELSE [pass EXCEPT !.again = @ \/ <<c, p[2]>> \in pass.listed,
                                        !.listed = @ \cup {<<c, p[2]>>}]
  /\ UNCHANGED <<fat, hint, slots, cwd, pc, call, faults, crashes, raw, tainted>>

\* It gets to the end of the chain, or past a cluster whose FAT entry cannot be
\* read, which it takes for the last one.
ReadEnds ==
  /\ Ready("readdir") /\ dp.cluster # None
  /\ \/ Stops = {} /\ UNCHANGED <<faults, pass>>
     \/ /\ Fault
        /\ \E k \in DOMAIN Walk(dp.cluster) :
             /\ \A p \in Stops : p[1] > k
             /\ pass' = [pass EXCEPT !.cut = Walk(dp.cluster)[k]]
  /\ dp' = ClosedDir
  /\ UNCHANGED <<fat, hint, slots, cwd, pc, call, crashes, raw, tainted>>

\* f_closedir.
CloseDir ==
  /\ Ready("readdir") /\ dp # ClosedDir
  /\ dp' = ClosedDir /\ pass' = NoPass
  /\ UNCHANGED <<fat, hint, slots, cwd, pc, call, faults, crashes, raw, tainted>>

\* It cannot read the k-th cluster from here and stays in front of it.
ReadFails ==
  /\ Ready("readdir") /\ dp.cluster # None
  /\ Fault
  /\ \E k \in DOMAIN Walk(dp.cluster) :
       /\ \A p \in Stops : p[1] >= k
       /\ dp' = IF k = 1 THEN dp ELSE [cluster |-> Walk(dp.cluster)[k], pos |-> 0]
  /\ UNCHANGED <<fat, hint, slots, cwd, pc, call, pass, crashes, raw, tainted>>

-----------------------------------------------------------------------------
(* A new run of the program, after it ended or was cut off.                *)

Reboot ==
  /\ hint' = 2
  /\ cwd' = Root
  /\ dp' = ClosedDir
  /\ pass' = NoPass
  /\ EndCall
  /\ UNCHANGED <<fat, faults, raw>>

Restart ==
  /\ pc = "idle"
  /\ Reboot
  /\ UNCHANGED <<slots, crashes, tainted>>

\* The machine stops between two writes, or in one.
Crash ==
  /\ crashes < MaxCrashes /\ crashes' = crashes + 1
  /\ Reboot
  /\ UNCHANGED slots \/ (pc \in Writing /\ Torn)
  /\ tainted' = (tainted \/ pc = "extended"
                  \/ (pc = "delete" /\ (MovedInside \/ (call.op = "unlink" /\ call.dir))))

\* The calls on a name in a directory.
CallStarts ==
  /\ pc = "idle"
  /\ \E d \in Directories :
       \/ \E n \in Names : CallMkdir(d, n) \/ CallOpen(d, n) \/ CallUnlink(d, n) \/ CallRename(d, n)
       \/ OpenDir(d)

Next ==
  \/ CallStarts
  \/ ClearNew \/ InitNew \/ PlaceInside \/ PlaceBehind \/ PlaceFails
  \/ ClearExtension \/ WriteEntry \/ CheckTarget \/ DeleteEntry
  \/ ChangeDir \/ ReadStops \/ ReadEnds \/ ReadFails \/ CloseDir
  \/ Restart \/ Crash

DirSpec == Init /\ [][Next]_dirVars

-----------------------------------------------------------------------------
(* What is required of the directories.                                    *)

\* Within a cluster nothing in use lies behind an end mark, wherever runs of free
\* slots were taken and writes cut off.  fat32_find_file, which leaves a cluster
\* at an end mark, depends on it.
EndMarksLast ==
  \A c \in Cluster \ raw : \A s, t \in Slots :
    s < t /\ slots[c][s].kind = "end" => IsFree(slots[c][t])

\* The pieces of a long name lie in front of its short entry, in order and in the
\* same cluster, for as long as the entry lives: other names come and go in free
\* slots only.  (A deletion in the wrong place, after a misread, is excluded.)
LongNamesWhole ==
  ~tainted =>
    \A c \in Cluster \ raw : \A s \in Slots :
      IsEntry(slots[c][s]) =>
        \A i \in 1 .. Pieces[slots[c][s].name] :
          s - i \in Slots /\ slots[c][s - i] = LongSlot(slots[c][s].name, i)

\* The clusters that hold directories, and lost ones that did.
InUse == {c \in Cluster : fat[c] # FREE} \ raw

\* The first clusters that entries name.
Named ==
  {slots[p[1]][p[2]].first : p \in {q \in InUse \X Slots : IsDirEntry(slots[q[1]][q[2]])}}

\* Every entry of a directory that entries or the root lead to is found by
\* fat32_find_file, or something else is found under its name; the answer is never
\* that it does not exist.
EntriesFound ==
  ~tainted =>
    \A d \in Named \cup {Root} :
      LET ch == Walk(d)
      IN  \A p \in Places(ch) :
            IsEntry(At(slots, ch, p)) => FileMatches(slots, ch, At(slots, ch, p).name) # {}

\* Between calls the directories that paths and the current directory lead to lie
\* in allocated clusters that were cleared or initialised, all of them.
DirectoriesSound ==
  ~tainted /\ pc = "idle" =>
    \A d \in Directories : \A c \in OnChainIn(fat, d) : c \notin raw /\ fat[c] # FREE

BeingUnlinked(c, s) == pc = "delete" /\ call.op = "unlink" /\ call.old = <<c, s>>

\* An entry of a directory names an allocated cluster that begins with the "." of
\* this directory, at every moment of every call and after every crash; mkdir,
\* rename and unlink keep to an order of writes that makes it so.
EntriesSound ==
  ~tainted =>
    \A c \in InUse, s \in Slots :
      IsDirEntry(slots[c][s]) /\ ~BeingUnlinked(c, s) =>
        LET f == slots[c][s].first
        IN  f \in InUse /\ slots[f][1] = ShortSlot(".", TRUE, f)

\* Where the short entry of the running call is or will be.
NewPlace == <<call.at[1], call.at[2] + Pieces[call.name]>>

\* The directories form a tree below the root.  Two entries of one directory
\* exist between the two writes of f_rename, and after it was cut off there.
TreeSound ==
  ~tainted =>
    /\ Named \subseteq Below(Root)
    /\ faults = 0 /\ crashes = 0 =>
         \A c, d \in InUse, s, t \in Slots :
           IsDirEntry(slots[c][s]) /\ IsDirEntry(slots[d][t])
             /\ slots[c][s].first = slots[d][t].first /\ <<c, s>> # <<d, t>>
           => pc = "delete" /\ {<<c, s>>, <<d, t>>} = {NewPlace, call.old}

\* No directory below the root is ever lost but by f_unlink: not in the middle of a
\* rename, not by a crash, not by another directory's growth, and not by a failed
\* read or write other than those that set tainted.
EntryStays ==
  [][call.op # "unlink" /\ call'.op # "unlink" /\ ~tainted' =>
       Below(Root) \subseteq Below(Root)']_dirVars

\* How far the pass through directory pass.dir has come.
ReadTo ==
  IF pass.cut = None THEN dp ELSE [cluster |-> pass.cut, pos |-> SlotsPerCluster]

\* The places it has gone by: all of them if it got to the end.
GoneBy ==
  LET ch == Walk(pass.dir)
  IN  {p \in Places(ch) :
         \/ ReadTo.cluster = None
         \/ \E k \in DOMAIN ch :
              /\ ch[k] = ReadTo.cluster
              /\ p[1] < k \/ (p[1] = k /\ p[2] <= ReadTo.pos)}

\* f_readdir and f_findnext return every entry that was there when the directory
\* was opened and still is when they go by, whatever was created, renamed and
\* deleted in the meantime.  They go by all of them unless a FAT read fails: then
\* the pass ends with the cluster in front, and nothing tells it from a whole one.
PassExact ==
  ~tainted /\ pass.dir # None =>
    \A p \in GoneBy : LET place == <<Walk(pass.dir)[p[1]], p[2]>>
                      IN  place \in pass.staying => place \in pass.listed

\* They return no slot twice in one pass, even if it was given to another entry.
ListedOnce == ~pass.again
=============================================================================

--------------------------- MODULE ClusterChains ---------------------------
(***************************************************************************)
(* Proofs about ClusterManager: where a running call is on the chains of   *)
(* the FAT, that to its callers it is a ChainStore, and that no cluster is *)
(* lost.                                                                   *)
(***************************************************************************)
EXTENDS ClusterProofs, ClusterRefinement, FatChains

\* What a FAT entry of a data cluster can be.
Values == \A c \in Cluster : fat[1][c] \in Cluster \cup {FREE, EndOfChain}

\* The owner of a call has no chain to begin with when it builds one.
Ownership ==
  /\ call.op \in BuildCalls \cup {"allocate"} => held[call.owner] = 0
  /\ call.op \in {"append", "free", "cut"} => held[call.owner] # 0
  /\ call.op = "free" => call.owner # Root
  /\ Linking => call.op \in BuildCalls \cup {"append"}
  /\ Writing("ended") => write.cluster = call.new

\* Cluster d is on the chain that begins with c.
On(c, d) == d \in OnChainIn(fat[1], c)

\* Before the new cluster is linked to the last one.
Unlinking == pc = "scan" \/ Marking \/ (Writing("linked") /\ write.copy = 1)

\* After it is.
Joined == pc \in {"linked", "next"} \/ (Writing("linked") /\ write.copy > 1)

\* append walks along the chain of its owner, and links at its last cluster.
AppendAt ==
  call.op = "append" /\ (pc = "walk" \/ Unlinking) => On(held[call.owner], call.curr)

\* A chain being built hangs together.
BuildAt ==
  call.op \in BuildCalls =>
    /\ Unlinking => (call.first = 0 <=> call.curr = 0)
    /\ Unlinking /\ call.first # 0 => On(call.first, call.curr)
    /\ Joined => call.first # 0 /\ On(call.first, call.new)

\* What is linked to or linked is the end of a chain.
Ends ==
  /\ Unlinking /\ call.op \in BuildCalls \cup {"append"} /\ call.curr # 0 =>
       fat[1][call.curr] = EndOfChain
  /\ pc \in {"marked", "next"} \/ Linking \/ Writing("ended") =>
       fat[1][call.new] = EndOfChain

\* The owner of a free still holds the first cluster, which is the first to go.
FreeAt ==
  call.op = "free" =>
    \/ fat[1][held[call.owner]] = FREE
    \/ /\ call.curr = held[call.owner]
       /\ pc = "free" \/ (Writing("freed") /\ write.copy = 1)

CutAt ==
  Writing("cut") /\ write.copy = 1 => On(held[call.owner], call.curr)

Positions == AppendAt /\ BuildAt /\ Ends /\ FreeAt /\ CutAt

ChainInv ==
  /\ RecoveryInv
  /\ Values /\ Ownership
  /\ faults = 0 /\ ~tainted => Positions

-----------------------------------------------------------------------------
(* The clusters a running call answers for.                                *)

Pending(c) ==
  \/ /\ pc = "marked" \/ (Writing("marked") /\ write.copy > 1)
     /\ c = call.new
  \/ Writing("linked") /\ write.copy = 1 /\ c = call.new
  \/ call.op \in BuildCalls /\ c = call.first
  \/ Writing("cut") /\ write.copy > 1 /\ c = call.next
  \/ pc = "cut" /\ c = call.next
  \/ (pc = "free" \/ (Writing("freed") /\ write.copy = 1)) /\ c = call.curr
  \/ (pc = "freed" \/ (Writing("freed") /\ write.copy > 1)) /\ c = call.next

Rooted(c) == c \in Cluster /\ fat[1][c] # FREE
             /\ (Pending(c) \/ \E o \in Owners : held[o] = c)

\* Every cluster in use is on the chain of an owner or of the running call.
Accounted ==
  \A c \in Cluster : fat[1][c] # FREE => \E r \in Cluster : Rooted(r) /\ On(r, c)

\* What free and cut note of a chain when its link is about to go, or is gone.
Handed ==
  /\ (Writing("freed") \/ Writing("cut")) /\ write.copy = 1 =>
       call.next = fat[1][call.curr]
  /\ pc = "freed" => call.ok
  /\ pc = "cut" => fat[1][call.curr] = EndOfChain

\* As long as the machine has not failed and no space was given up.
SpaceInv ==
  faults = 0 /\ crashes = 0 => ~tainted /\ Handed /\ (~leaked => Accounted)

-----------------------------------------------------------------------------
(* The first copy as a table.                                              *)

LEMMA TableOne ==
  ASSUME TypeOK
  PROVE  IsTable(fat[1])
BY CopyOne DEF TypeOK, IsTable

LEMMA OneChanged ==
  ASSUME TypeOK, TypeOK', Control, WriteFat, write.copy = 1
  PROVE  Changed(fat[1], fat'[1], write.cluster, write.value)
<1>1. fat'[1] = [fat[1] EXCEPT ![write.cluster] = write.value]
  BY CopyOneWrite
<1>2. fat[1] \in [FatIndex -> Entry] /\ fat'[1] \in [FatIndex -> Entry]
  BY CopyOne DEF TypeOK
<1> QED BY <1>1, <1>2 DEF Changed, IsTable

\* Unnamed clusters and the clusters held are where chains begin.
LEMMA UnlinkedFirst ==
  ASSUME TypeOK, Links, NEW c \in Cluster, Unlinked(c)
  PROVE  First(fat[1], c)
BY TableOne DEF Links, UniqueSuccessors, Unlinked, First, Unique, NoLinkTo

LEMMA HeldFirst ==
  ASSUME TypeOK, Links, NEW o \in Owners, held[o] # 0
  PROVE  First(fat[1], held[o]) /\ held[o] \in Cluster
<1>1. held[o] \in Cluster /\ Unlinked(held[o])
  BY DEF TypeOK, Links, FirstsUnlinked, Unlinked
<1> QED BY <1>1, UnlinkedFirst

\* What a call writes in a FAT entry.
LEMMA ValuesStep ==
  ASSUME TypeOK, TypeOK', Control, Values, [Next]_vars
  PROVE  Values'
<1>1. CASE WriteFat /\ write.copy = 1
  <2>1. pc = "write"
    BY <1>1 DEF WriteFat
  <2>2. write.value \in Cluster \cup {FREE, EndOfChain}
    BY <2>1 DEF Control, WriteControl, CallControl, Linking, Writing
  <2>3. Changed(fat[1], fat'[1], write.cluster, write.value) /\ Cluster \subseteq FatIndex
    BY <1>1, OneChanged, Numbers
  <2> QED BY <2>2, <2>3 DEF Values, Changed
<1>2. CASE WriteFat /\ write.copy # 1
  <2>1. fat'[1] = fat[1]
    BY <1>2, CopyOneWrite
  <2> QED BY <2>1 DEF Values
<1>3. CASE ~WriteFat
  BY <1>3, FatStays DEF Values
<1> QED BY <1>1, <1>2, <1>3

-----------------------------------------------------------------------------
(* The owner of a call.                                                    *)

LEMMA EndOwnership ==
  ASSUME EndCall
  PROVE  Ownership'
BY DEF EndCall, NoCall, Ownership, Linking, Writing, BuildCalls

\* A step of a call that leaves its owner alone.
LEMMA SameOwnership ==
  ASSUME Ownership, held' = held, call'.op = call.op, call'.owner = call.owner,
         Linking' => call.op \in BuildCalls \cup {"append"},
         Writing("ended")' => write'.cluster = call'.new
  PROVE  Ownership'
BY DEF Ownership

LEMMA OwnershipStep ==
  ASSUME TypeOK, Control, Ownership, [Next]_vars
  PROVE  Ownership'
<1>1. CASE WriteFat
  <2>1. /\ call'.op = call.op /\ call'.owner = call.owner /\ call'.new = call.new
        /\ held' = held
    BY <1>1, WriteKeepsCall
  <2>2. Linking' => Linking
    BY <1>1, WriteKeepsCall DEF WriteFat, Control, WriteControl, Linking, Writing
  <2>3. Writing("ended")' => write'.cluster = call'.new
    BY <1>1, <2>1, WriteKeepsCall DEF WriteFat, TypeOK, WriteType, Control, WriteControl,
       Ownership, Writing
  <2> QED BY <2>1, <2>2, <2>3, SameOwnership DEF Ownership
<1>2. CASE WriteFatFails
  <2>1. /\ call'.op = call.op /\ call'.owner = call.owner /\ held' = held /\ pc = "write"
        /\ pc' = write.then
    BY <1>2 DEF WriteFatFails, TypeOK, CallType
  <2>2. write.then \in {"marked", "linked", "ended", "freed", "cut"}
    BY <2>1 DEF Control, WriteControl
  <2>3. (Linking' => Linking) /\ ~Writing("ended")'
    BY <2>1, <2>2 DEF Linking, Writing
  <2> QED BY <2>1, <2>3, SameOwnership DEF Ownership
<1>3. CASE Scan
  <2>1. PICK c \in Cluster :
          SetNext(c, EndOfChain, "marked", [call EXCEPT !.new = c])
    BY <1>3 DEF Scan
  <2>2. /\ pc' = "write" /\ write'.then = "marked" /\ call' = [call EXCEPT !.new = c]
        /\ held' = held
    BY <1>3, <2>1, ClusterIsValid DEF SetNext, Scan
  <2>3. call'.op = call.op /\ call'.owner = call.owner
    BY <2>2 DEF TypeOK, CallType
  <2> QED BY <2>2, <2>3, SameOwnership DEF Linking, Writing
<1>4. CASE ScanFails \/ DataWriteFails
  BY <1>4, EndOwnership DEF ScanFails, DataWriteFails, ReturnFalse
<1>5. CASE Marked
  <2>1. CASE Return(call.new)
    BY <2>1, EndOwnership DEF Return
  <2>2. CASE pc' = "next" /\ call' = [call EXCEPT !.first = call.new] /\ held' = held
    <3>1. call'.op = call.op /\ call'.owner = call.owner
      BY <2>2 DEF TypeOK, CallType
    <3> QED BY <2>2, <3>1, SameOwnership DEF Linking, Writing
  <2>3. CASE /\ call.op = "append" \/ (call.op \in BuildCalls /\ call.curr # 0)
             /\ SetNext(call.curr, call.new, "linked", call)
             /\ UNCHANGED <<held, leaked>>
    <3>1. /\ call'.op = call.op /\ call'.owner = call.owner
          /\ ~Writing("ended")'
      BY <2>3 DEF TypeOK, CallType, SetNext, Writing
    <3> QED BY <2>3, <3>1, SameOwnership
  <2> QED BY <1>5, <2>1, <2>2, <2>3 DEF Marked, Allocated
<1>6. CASE BuildNext
  <2>1. CASE pc' = "scan" /\ call' = [call EXCEPT !.curr = call.new, !.left = @ - 1]
    <3>1. call'.op = call.op /\ call'.owner = call.owner /\ held' = held
      BY <1>6, <2>1 DEF TypeOK, CallType, BuildNext
    <3> QED BY <2>1, <3>1, SameOwnership DEF Linking, Writing
  <2>2. CASE SetNext(call.new, EndOfChain, "ended", call)
    <3>1. /\ call'.op = call.op /\ call'.owner = call.owner /\ held' = held
          /\ call'.new = call.new /\ ~Linking'
          /\ Writing("ended")' => write'.cluster = call.new
      BY <1>6, <2>2 DEF TypeOK, CallType, BuildNext, SetNext, Linking, Writing
    <3> QED BY <3>1, SameOwnership
  <2> QED BY <1>6, <2>1, <2>2 DEF BuildNext
<1>7. CASE BuildLinked
  <2>1. CASE ReturnFalse
    BY <2>1, EndOwnership DEF ReturnFalse
  <2>2. CASE pc' = "next" /\ UNCHANGED <<call, write, held, leaked>>
    BY <2>2, SameOwnership DEF Linking, Writing
  <2> QED BY <1>7, <2>1, <2>2 DEF BuildLinked
<1>8. CASE BuildEnded \/ AppendEnded
  BY <1>8, EndOwnership DEF BuildEnded, AppendEnded, Return, ReturnFalse
<1>9. CASE Walk \/ WalkReadFails
  <2>1. /\ call'.op = call.op /\ call'.owner = call.owner /\ held' = held
        /\ pc' \in {"scan", "walk"}
    BY <1>9 DEF TypeOK, CallType, Walk, WalkReadFails
  <2> QED BY <2>1, SameOwnership DEF Linking, Writing
<1>10. CASE AppendLinked
  <2>1. /\ call'.op = call.op /\ call'.owner = call.owner /\ held' = held
        /\ call'.new = call.new /\ ~Linking'
        /\ Writing("ended")' => write'.cluster = call.new
    BY <1>10 DEF TypeOK, CallType, AppendLinked, SetNext, Linking, Writing
  <2> QED BY <2>1, SameOwnership
<1>11. CASE Free
  <2>1. CASE ReturnFree
    BY <2>1, EndOwnership DEF ReturnFree, Return
  <2>2. CASE /\ SetNext(call.curr, FREE, "freed", [call EXCEPT !.next = NextOf(call.curr)])
             /\ UNCHANGED <<held, leaked>>
    <3>1. /\ call'.op = call.op /\ call'.owner = call.owner
      BY <2>2 DEF TypeOK, CallType, SetNext
    <3>2. ~Linking' /\ ~Writing("ended")'
      BY <2>2 DEF SetNext, Linking, Writing
    <3> QED BY <2>2, <3>1, <3>2, SameOwnership
  <2> QED BY <1>11, <2>1, <2>2 DEF Free
<1>12. CASE FreeReadFails
  BY <1>12, EndOwnership DEF FreeReadFails, ReturnFree, Return
<1>13. CASE Freed
  <2>1. CASE ReturnFree
    BY <2>1, EndOwnership DEF ReturnFree, Return
  <2>2. CASE pc' = "free" /\ call' = [call EXCEPT !.curr = call.next] /\ held' = held
    <3>1. call'.op = call.op /\ call'.owner = call.owner
      BY <2>2 DEF TypeOK, CallType
    <3> QED BY <2>2, <3>1, SameOwnership DEF Linking, Writing
  <2> QED BY <1>13, <2>1, <2>2 DEF Freed
<1>14. CASE Cut
  <2>1. CASE EndCall
    BY <2>1, EndOwnership
  <2>2. CASE pc' = "free" /\ call' = [call EXCEPT !.curr = call.next]
    <3>1. call'.op = call.op /\ call'.owner = call.owner /\ held' = held
      BY <1>14, <2>2 DEF TypeOK, CallType, Cut
    <3> QED BY <2>2, <3>1, SameOwnership DEF Linking, Writing
  <2> QED BY <1>14, <2>1, <2>2 DEF Cut
<1>15. ASSUME NEW o \in Owners,
              CallAllocate(o) \/ CallAppend(o) \/ CallFree(o)
              \/ \E op \in BuildCalls, count \in 1 .. MaxCount : CallBuild(o, op, count)
       PROVE  Ownership'
  BY <1>15 DEF CallAllocate, CallAppend, CallFree, CallBuild, NoCall, Ownership, Linking,
     Writing, BuildCalls
<1>16. ASSUME NEW o \in Owners, NEW c \in Cluster, CallCut(o, c)
       PROVE  Ownership'
  <2>1. PICK rest : CutAfter(o, c, rest)
    BY <1>16 DEF CallCut
  <2>2. /\ pc' = "write" /\ write'.then = "cut"
        /\ call' = [NoCall EXCEPT !.op = "cut", !.owner = o, !.curr = c, !.next = rest]
        /\ held' = held /\ held[o] # 0
    BY <1>16, <2>1, ClusterIsValid DEF CutAfter, SetNext, CallCut
  <2> QED BY <2>2 DEF NoCall, Ownership, Linking, Writing, BuildCalls
<1>17. ASSUME NEW o \in Owners, Persist(o)
       PROVE  Ownership'
  BY <1>17, SameOwnership DEF Persist, Linking, Writing
<1>18. CASE Restart \/ Crash
  BY <1>18, EndOwnership DEF Restart, Crash, Reboot
<1>19. CASE UNCHANGED vars
  BY <1>19 DEF vars, Ownership, Linking, Writing
<1> QED
  BY NextCases, <1>1, <1>2, <1>3, <1>4, <1>5, <1>6, <1>7, <1>8, <1>9, <1>10, <1>11,
     <1>12, <1>13, <1>14, <1>15, <1>16, <1>17, <1>18, <1>19

-----------------------------------------------------------------------------
(* Where a call is on the chains.                                          *)

LEMMA EndPositions ==
  ASSUME EndCall
  PROVE  Positions'
BY DEF EndCall, NoCall, Positions, AppendAt, BuildAt, Ends, FreeAt, CutAt, Unlinking,
   Joined, Marking, Linking, Writing, BuildCalls

\* What a write leaves of the call.
LEMMA WriteLeaves ==
  ASSUME TypeOK, Control, WriteFat
  PROVE  /\ call'.op = call.op /\ call'.owner = call.owner /\ call'.new = call.new
         /\ call'.first = call.first /\ call'.curr = call.curr /\ call'.next = call.next
         /\ held' = held
         /\ pc = "write" /\ write.then \in {"marked", "linked", "ended", "freed", "cut"}
         /\ \/ pc' = write.then
            \/ pc' = "write" /\ write'.then = write.then /\ write'.copy > 1
               /\ write'.cluster = write.cluster
<1>1. write.copy \in Nat /\ write.copy >= 1
  BY Numbers DEF WriteFat, Control, WriteControl, Copies
<1>2. pc' = "write" /\ write' = [write EXCEPT !.copy = @ + 1] => write'.copy > 1
  BY <1>1, SMT DEF TypeOK, WriteType
<1> QED BY <1>2 DEF WriteFat, Control, WriteControl, TypeOK, CallType, WriteType

\* The write of a further copy.
LEMMA LaterWritePositions ==
  ASSUME TypeOK, Control, Mirrored, Positions, WriteFat, write.copy # 1
  PROVE  Positions'
<1>1. /\ call'.op = call.op /\ call'.owner = call.owner /\ call'.new = call.new
      /\ call'.first = call.first /\ call'.curr = call.curr
      /\ held' = held /\ fat'[1] = fat[1]
  BY WriteLeaves, CopyOneWrite
<1>2. write.copy > 1
  BY Numbers, SMT DEF WriteFat, Control, WriteControl, Copies
<1>3. /\ Unlinking' => Unlinking /\ Marking
      /\ Joined' => Joined
      /\ Linking' => Linking
      /\ Writing("ended")' => Writing("ended")
      /\ pc' = "marked" => Writing("marked")
      /\ ~ (Writing("cut")' /\ write'.copy = 1) /\ pc' \notin {"next", "walk"}
  BY <1>2, WriteLeaves, SMT DEF Unlinking, Joined, Marking, Linking, Writing
<1>4. Writing("marked") => fat[1][call.new] = EndOfChain
  BY <1>2 DEF Mirrored, Control, WriteControl, Writing
<1>5. AppendAt' /\ BuildAt'
  BY <1>1, <1>3 DEF Positions, AppendAt, BuildAt, On
<1>6. Ends'
  BY <1>1, <1>3, <1>4 DEF Positions, Ends
<1>7. FreeAt' /\ CutAt'
  BY <1>1, <1>2, <1>3, SMT DEF Positions, FreeAt, CutAt, WriteFat
<1> QED BY <1>5, <1>6, <1>7 DEF Positions

\* The chains the positions are about.
LEMMA OwnerChain ==
  ASSUME TypeOK, Naming, Ownership, call.op \in {"append", "free", "cut"}
  PROVE  /\ First(fat[1], held[call.owner]) /\ held[call.owner] \in Cluster
         /\ \A c : Unnamed(c) => held[call.owner] # c
BY HeldFirst DEF Ownership, Naming, TypeOK, CallType, Unnamed

LEMMA BuiltChain ==
  ASSUME TypeOK, Naming, call.op \in BuildCalls, call.first # 0
  PROVE  First(fat[1], call.first) /\ call.first \in Cluster /\ Unnamed(call.first)
<1>1. call.first \in Cluster /\ Unnamed(call.first)
  BY DEF Naming, AllocNames, TypeOK, CallType
<1> QED BY <1>1, UnlinkedFirst DEF Naming, Unnamed

\* The mark of the new cluster changes no chain.
LEMMA MarkLeaves ==
  ASSUME TypeOK, TypeOK', Control, Naming, WriteFat, write.copy = 1,
         write.then = "marked", NEW c, First(fat[1], c), c # call.new
  PROVE  /\ ChainIn(fat'[1], c) = ChainIn(fat[1], c)
         /\ OnChainIn(fat'[1], c) = OnChainIn(fat[1], c)
<1>1. /\ Unnamed(call.new) /\ write.cluster = call.new /\ write.value = EndOfChain
  BY DEF WriteFat, Control, WriteControl, Marking, Writing, Naming, AllocNames
<1>2. Changed(fat[1], fat'[1], call.new, EndOfChain) /\ Cluster \subseteq FatIndex
  BY <1>1, OneChanged, Numbers
<1>3. NoLinkTo(fat[1], call.new)
  BY <1>1 DEF Unnamed, Unlinked, NoLinkTo
<1>4. \A x \in OnChainIn(fat[1], c) : x # call.new /\ x \in FatIndex
  BY <1>2, <1>3, NotOnChain, OnChainFacts
<1> QED BY <1>2, <1>4, UntouchedChain DEF Changed

LEMMA MarkPositions ==
  ASSUME TypeOK, TypeOK', Control, Naming, Ownership, Positions, WriteFat, write.copy = 1,
         write.then = "marked"
  PROVE  Positions'
<1>1. /\ call'.op = call.op /\ call'.owner = call.owner /\ call'.new = call.new
      /\ call'.first = call.first /\ call'.curr = call.curr /\ held' = held
      /\ pc' = "marked" \/ (pc' = "write" /\ write'.then = "marked")
  BY WriteLeaves
<1>2. /\ Marking /\ Unlinking /\ Unnamed(call.new) /\ call.new \in Cluster
      /\ write.cluster = call.new /\ write.value = EndOfChain
  BY DEF WriteFat, Control, WriteControl, Marking, Unlinking, Writing, Naming, AllocNames
<1>3. /\ Changed(fat[1], fat'[1], call.new, EndOfChain) /\ Cluster \subseteq FatIndex
      /\ 0 \notin Cluster
  BY <1>2, OneChanged, Numbers
<1>4. AppendAt'
  <2> SUFFICES ASSUME call.op = "append"
               PROVE  call.curr \in OnChainIn(fat'[1], held[call.owner])
    BY <1>1 DEF AppendAt, On
  <2>1. call.curr \in OnChainIn(fat[1], held[call.owner])
    BY <1>2 DEF Positions, AppendAt, On
  <2>2. First(fat[1], held[call.owner]) /\ held[call.owner] # call.new
    BY <1>2, OwnerChain
  <2> QED BY <2>1, <2>2, MarkLeaves
<1>5. BuildAt'
  <2>1. ~Joined'
    BY <1>1 DEF Joined, Writing
  <2>2. ASSUME call.op \in BuildCalls, call.first # 0
        PROVE  call.curr \in OnChainIn(fat'[1], call.first)
    <3>1. First(fat[1], call.first)
      BY <2>2, BuiltChain
    <3>2. call.first # call.new
      <4>1. call.first < hint /\ call.new \in hint .. TotalClusters /\ hint \in Nat
        BY <1>2, <2>2, Numbers DEF Control, CallControl, TypeOK
      <4>2. call.first \in Nat /\ TotalClusters \in Nat
        BY <2>2, Numbers DEF TypeOK, CallType
      <4> QED BY <4>1, <4>2, SMT
    <3>3. call.curr \in OnChainIn(fat[1], call.first)
      BY <1>2, <2>2 DEF Positions, BuildAt, On
    <3> QED BY <3>1, <3>2, <3>3, MarkLeaves
  <2> QED BY <1>1, <1>2, <2>1, <2>2 DEF Positions, BuildAt, On
<1>6. Ends'
  <2>1. fat'[1][call.new] = EndOfChain
    BY <1>2, <1>3 DEF Changed
  <2>2. call.curr \in FatIndex => (fat[1][call.curr] = EndOfChain => fat'[1][call.curr] = EndOfChain)
    BY <1>3 DEF Changed
  <2>3. call.op \in BuildCalls \cup {"append"} /\ call.curr # 0 => call.curr \in FatIndex
    <3>1. CASE call.op = "append"
      BY <1>2, <1>3, <3>1, OwnerChain, OnChainFacts DEF Positions, AppendAt, On
    <3>2. CASE call.op \in BuildCalls /\ call.curr # 0
      <4>1. call.first # 0 /\ On(call.first, call.curr)
        BY <1>2, <3>2 DEF Positions, BuildAt
      <4> QED BY <1>3, <3>2, <4>1, BuiltChain, OnChainFacts DEF On
    <3> QED BY <3>1, <3>2
  <2>4. call.op \in BuildCalls \cup {"append"} /\ call.curr # 0 => fat[1][call.curr] = EndOfChain
    BY <1>2 DEF Positions, Ends
  <2> QED BY <1>1, <2>1, <2>2, <2>3, <2>4 DEF Ends
<1>7. FreeAt' /\ CutAt'
  <2>1. call.op # "free"
    BY <1>2, OpsDiffer DEF Control, CallControl
  <2> QED BY <1>1, <2>1 DEF FreeAt, CutAt, Writing
<1> QED BY <1>4, <1>5, <1>6, <1>7 DEF Positions

\* The link joins the new cluster to the chain of the last one.
LEMMA LinkJoins ==
  ASSUME TypeOK, TypeOK', Control, Naming, Ownership, Positions, WriteFat, write.copy = 1,
         write.then = "linked", NEW c, First(fat[1], c), c # call.new, On(c, call.curr)
  PROVE  /\ ChainIn(fat'[1], c) = Append(ChainIn(fat[1], c), call.new)
         /\ OnChainIn(fat'[1], c) = OnChainIn(fat[1], c) \cup {call.new}
         /\ fat'[1][call.new] = EndOfChain
<1>1. /\ Unnamed(call.new) /\ write.cluster = call.curr /\ write.value = call.new
      /\ call.new \in Cluster /\ call.curr \in Cluster /\ pc = "write"
  BY DEF WriteFat, Control, WriteControl, CallControl, Linking, Writing, Naming, AllocNames
<1>2. /\ Changed(fat[1], fat'[1], call.curr, call.new) /\ Cluster \subseteq FatIndex
      /\ EndOfChain \notin Cluster /\ 0 \notin Cluster
  BY <1>1, OneChanged, Numbers
<1>3. NoLinkTo(fat[1], call.new)
  BY <1>1 DEF Unnamed, Unlinked, NoLinkTo
<1>4. fat[1][call.curr] = EndOfChain /\ fat[1][call.new] = EndOfChain
  BY <1>1, <1>2 DEF Positions, Ends, Unlinking, Linking, Writing, Ownership
<1>5. call.new # call.curr
  BY <1>3, NotOnChain DEF On
<1>6. fat'[1][call.new] = EndOfChain
  BY <1>1, <1>2, <1>4, <1>5 DEF Changed
<1> QED BY <1>1, <1>2, <1>3, <1>4, <1>6, ChainLinked DEF On

LEMMA LinkPositions ==
  ASSUME TypeOK, TypeOK', Control, Naming, Ownership, Positions, WriteFat, write.copy = 1,
         write.then = "linked"
  PROVE  Positions'
<1>1. /\ call'.op = call.op /\ call'.owner = call.owner /\ call'.new = call.new
      /\ call'.first = call.first /\ call'.curr = call.curr /\ held' = held
      /\ pc' = "linked" \/ (pc' = "write" /\ write'.then = "linked" /\ write'.copy > 1)
  BY WriteLeaves
<1>2. /\ Unnamed(call.new) /\ Linking /\ Unlinking /\ call.curr # 0 /\ call.new \in Cluster
      /\ call.op \in BuildCalls \cup {"append"}
      /\ call.op \in BuildCalls => call.new # call.first
  BY Numbers DEF WriteFat, Control, WriteControl, CallControl, Linking, Unlinking, Writing,
     Naming, AllocNames, Ownership
<1>3. ~Unlinking' /\ pc' # "walk" /\ ~Writing("ended")' /\ ~Writing("cut")'
  BY <1>1, SMT DEF Unlinking, Marking, Writing
<1>4. ASSUME call.op \in BuildCalls
      PROVE  /\ First(fat[1], call.first) /\ call.first # call.new /\ call.first # 0
             /\ On(call.first, call.curr)
  <2>1. call.first # 0 /\ On(call.first, call.curr)
    BY <1>2, <1>4 DEF Positions, BuildAt
  <2> QED BY <1>2, <1>4, <2>1, BuiltChain
<1>5. BuildAt'
  <2> SUFFICES ASSUME call.op \in BuildCalls
               PROVE  call.first # 0 /\ call.new \in OnChainIn(fat'[1], call.first)
    BY <1>1, <1>3 DEF BuildAt, On
  <2> QED BY <1>4, LinkJoins
<1>6. fat'[1][call.new] = EndOfChain
  <2>1. CASE call.op \in BuildCalls
    BY <1>4, <2>1, LinkJoins
  <2>2. CASE call.op = "append"
    <3>1. First(fat[1], held[call.owner]) /\ held[call.owner] # call.new
      BY <1>2, <2>2, OwnerChain
    <3>2. On(held[call.owner], call.curr)
      BY <1>2, <2>2 DEF Positions, AppendAt
    <3> QED BY <3>1, <3>2, LinkJoins
  <2> QED BY <1>2, <2>1, <2>2
<1>7. AppendAt' /\ Ends' /\ CutAt'
  BY <1>1, <1>3, <1>6 DEF AppendAt, Ends, CutAt
<1>8. FreeAt'
  BY <1>1, <1>2 DEF FreeAt, BuildCalls
<1> QED BY <1>5, <1>7, <1>8 DEF Positions

\* The final mark of append or of a build finds the mark already there.
LEMMA EndMarkLeaves ==
  ASSUME TypeOK, TypeOK', Control, Ownership, Positions, WriteFat, write.copy = 1,
         write.then = "ended"
  PROVE  fat'[1] = fat[1]
<1>1. write.cluster = call.new /\ write.value = EndOfChain /\ call.new \in Cluster
      /\ fat[1][call.new] = EndOfChain
  BY DEF WriteFat, Control, WriteControl, Ownership, Positions, Ends, Writing
<1>2. fat[1] \in [FatIndex -> Entry] /\ Cluster \subseteq FatIndex
  BY CopyOne, Numbers DEF TypeOK
<1> QED BY <1>1, <1>2, CopyOneWrite

LEMMA EndMarkPositions ==
  ASSUME TypeOK, TypeOK', Control, Ownership, Positions, WriteFat, write.copy = 1,
         write.then = "ended"
  PROVE  Positions'
<1>1. /\ call'.op = call.op /\ call'.owner = call.owner /\ call'.new = call.new
      /\ call'.first = call.first /\ call'.curr = call.curr /\ held' = held
      /\ fat'[1] = fat[1]
      /\ pc' = "ended" \/ (pc' = "write" /\ write'.then = "ended")
  BY WriteLeaves, EndMarkLeaves
<1>2. Writing("ended")
  BY DEF WriteFat, Writing
<1>3. /\ ~Unlinking' /\ ~Joined' /\ ~Linking' /\ ~Writing("cut")'
      /\ pc' \notin {"marked", "next", "walk"}
  BY <1>1 DEF Unlinking, Marking, Joined, Linking, Writing
<1>4. AppendAt' /\ BuildAt' /\ CutAt'
  BY <1>1, <1>3 DEF AppendAt, BuildAt, CutAt
<1>5. Ends'
  BY <1>1, <1>2, <1>3 DEF Positions, Ends
<1>6. FreeAt'
  BY <1>1, <1>2 DEF Positions, FreeAt, Writing
<1> QED BY <1>4, <1>5, <1>6 DEF Positions

\* The writes of free and cut.
LEMMA FreePositions ==
  ASSUME TypeOK, TypeOK', Control, Ownership, Positions, WriteFat, write.copy = 1,
         write.then \in {"freed", "cut"}
  PROVE  Positions'
<1>1. /\ call'.op = call.op /\ call'.owner = call.owner /\ call'.curr = call.curr
      /\ held' = held
      /\ \/ pc' = write.then
         \/ pc' = "write" /\ write'.then = write.then /\ write'.copy > 1
  BY WriteLeaves
<1>2. /\ call.op \in {"free", "cut"} /\ call.op # "append" /\ call.op \notin BuildCalls
      /\ write.then = "cut" => call.op # "free"
  BY DEF WriteFat, Control, CallControl, Writing, BuildCalls
<1>3. AppendAt' /\ BuildAt'
  <2>1. call'.op # "append" /\ call'.op \notin BuildCalls
    BY <1>1, <1>2
  <2> QED BY <2>1, Zenon DEF AppendAt, BuildAt
<1>4. Ends' /\ CutAt'
  BY <1>1, <1>2, SMT DEF Ends, CutAt, Linking, Writing, Unlinking, Marking
<1>5. FreeAt'
  <2> SUFFICES ASSUME call.op = "free" PROVE fat'[1][held[call.owner]] = FREE
    BY <1>1 DEF FreeAt
  <2>1. /\ write.then = "freed" /\ write.value = FREE /\ write.cluster = call.curr
        /\ pc = "write"
    <3>1. write.then = "freed" /\ pc = "write"
      BY <1>2 DEF WriteFat
    <3> QED BY <3>1 DEF Control, WriteControl
  <2>2. Changed(fat[1], fat'[1], call.curr, FREE)
    BY <2>1, OneChanged
  <2>3. held[call.owner] \in FatIndex
    BY Numbers DEF Ownership, TypeOK, CallType
  <2>4. fat[1][held[call.owner]] = FREE \/ call.curr = held[call.owner]
    BY DEF Positions, FreeAt
  <2> QED BY <2>2, <2>3, <2>4 DEF Changed
<1> QED BY <1>3, <1>4, <1>5 DEF Positions

LEMMA WritePositions ==
  ASSUME TypeOK, TypeOK', Control, Naming, Mirrored, Ownership, Positions, WriteFat
  PROVE  Positions'
BY WriteLeaves, LaterWritePositions, MarkPositions, LinkPositions, EndMarkPositions,
   FreePositions

\* A FAT entry on a chain in use is in use.
LEMMA ChainMarked ==
  ASSUME TypeOK, Marks, NEW c, First(fat[1], c), fat[1][c] # FREE,
         NEW x \in OnChainIn(fat[1], c)
  PROVE  fat[1][x] # FREE
<1>1. CASE x = c
  BY <1>1
<1>2. CASE x # c
  <2>1. PICK d \in Cluster : fat[1][d] = x
    BY <1>2, LinkedOnChain
  <2>2. x \in Cluster
    BY OnChainFacts
  <2> QED BY <2>1, <2>2 DEF Marks, LinksMarked
<1> QED BY <1>1, <1>2

\* append follows the chain of its owner to the end.
LEMMA WalkPositions ==
  ASSUME TypeOK, Control, Naming, Marks, Values, Ownership, Positions, Walk
  PROVE  Positions'
<1>1. /\ call.op = "append" /\ fat' = fat /\ held' = held
      /\ call.op \notin BuildCalls /\ pc = "walk"
  BY OpsDiffer DEF Walk, Control, CallControl
<1>2. First(fat[1], held[call.owner]) /\ held[call.owner] \in Cluster /\ held[call.owner] # 0
  BY <1>1, OwnerChain DEF Ownership
<1>3. On(held[call.owner], call.curr) /\ call.curr \in Cluster
  BY <1>1, <1>2, OnChainFacts DEF Positions, AppendAt, On
<1>4. NextOf(call.curr) = fat[1][call.curr]
  BY <1>3, Numbers DEF NextOf, NextIn
<1>5. fat[1][held[call.owner]] # FREE
  BY <1>1, <1>2 DEF Marks, FirstsMarked, TypeOK, CallType
<1>6. fat[1][call.curr] \in Cluster \cup {EndOfChain}
  BY <1>2, <1>3, <1>5, ChainMarked DEF Values, On
<1>7. IsEndOfChain(fat[1][call.curr]) <=> fat[1][call.curr] = EndOfChain
  <2>1. \A e \in Cluster \cup {EndOfChain} : IsEndOfChain(e) <=> e = EndOfChain
    BY TotalClustersAssumption, SMT
    DEF IsEndOfChain, Cluster, EndOfChain, MediaEntry, LastValidCluster
  <2> QED BY <1>6, <2>1
<1>8. CASE pc' = "scan" /\ UNCHANGED call /\ fat[1][call.curr] = EndOfChain
  <2>1. AppendAt' /\ Ends'
    BY <1>1, <1>3, <1>8 DEF AppendAt, Ends, On, Linking, Writing
  <2>2. BuildAt' /\ FreeAt' /\ CutAt'
    BY <1>1, <1>8 DEF BuildAt, FreeAt, CutAt, Writing
  <2> QED BY <2>1, <2>2 DEF Positions
<1>9. CASE /\ call' = [call EXCEPT !.curr = fat[1][call.curr]] /\ UNCHANGED pc
           /\ fat[1][call.curr] \in Cluster
  <2>1. call'.op = call.op /\ call'.owner = call.owner /\ call'.curr = fat[1][call.curr]
    BY <1>9 DEF TypeOK, CallType
  <2>2. On(held[call.owner], fat[1][call.curr])
    BY <1>2, <1>3, <1>9, FollowChain DEF On
  <2>3. AppendAt' /\ Ends'
    BY <1>1, <1>9, <2>1, <2>2
    DEF AppendAt, Ends, On, Unlinking, Marking, Linking, Writing
  <2>4. BuildAt' /\ FreeAt' /\ CutAt'
    BY <1>1, <1>9, <2>1 DEF BuildAt, FreeAt, CutAt, Writing
  <2> QED BY <2>3, <2>4 DEF Positions
<1> QED BY <1>4, <1>6, <1>7, <1>8, <1>9 DEF Walk

\* The marked cluster is given out.
LEMMA MarkedPositions ==
  ASSUME TypeOK, Control, Naming, Marks, Ownership, Positions, Marked
  PROVE  Positions'
<1>1. /\ pc = "marked" /\ Marking /\ Unlinking /\ fat' = fat /\ call.op \in AllocCalls
      /\ call.op # "free" /\ fat[1][call.new] = EndOfChain /\ Unnamed(call.new)
      /\ call.new \in Cluster
  <2>1. /\ pc = "marked" /\ Marking /\ Unlinking /\ fat' = fat
    BY DEF Marked, Marking, Unlinking
  <2>2. call.op \in AllocCalls /\ call.new \in hint .. TotalClusters
    BY <2>1 DEF Control, CallControl
  <2>3. fat[1][call.new] = EndOfChain /\ Unnamed(call.new)
    BY <2>1 DEF Positions, Ends, Naming, AllocNames
  <2>4. call.new \in Cluster
    BY <2>2, Numbers, SMT DEF TypeOK, Cluster
  <2> QED BY <2>1, <2>2, <2>3, <2>4, OpsDiffer
<1>2. CASE Return(call.new)
  BY <1>2, EndPositions DEF Return
<1>3. CASE /\ call.op \in BuildCalls /\ pc' = "next"
           /\ call' = [call EXCEPT !.first = call.new] /\ UNCHANGED held
  <2>1. call'.op = call.op /\ call'.first = call.new /\ call'.new = call.new
    BY <1>3 DEF TypeOK, CallType
  <2>2. First(fat[1], call.new) /\ call.new # 0
    BY <1>1, UnlinkedFirst, Numbers DEF Naming, Unnamed
  <2>3. On(call.new, call.new)
    BY <2>2, OnChainFacts DEF On
  <2>4. ~Unlinking'
    BY <1>3 DEF Unlinking, Marking, Writing
  <2>5. BuildAt'
    BY <1>1, <2>1, <2>2, <2>3, <2>4 DEF BuildAt, On
  <2>6. AppendAt' /\ Ends'
    BY <1>1, <1>3, <2>1, <2>4, OpsDiffer DEF AppendAt, Ends
  <2>7. FreeAt' /\ CutAt'
    BY <1>1, <1>3, <2>1 DEF FreeAt, CutAt, Writing
  <2> QED BY <2>5, <2>6, <2>7 DEF Positions
<1>4. CASE /\ call.op = "append" \/ (call.op \in BuildCalls /\ call.curr # 0)
           /\ SetNext(call.curr, call.new, "linked", call) /\ UNCHANGED held
  <2>1. call.curr \in Cluster
    <3>1. CASE call.op = "append"
      BY <1>1, <3>1, OwnerChain, OnChainFacts DEF Positions, AppendAt, On
    <3>2. CASE call.op \in BuildCalls /\ call.curr # 0
      <4>1. call.first # 0 /\ On(call.first, call.curr)
        BY <1>1, <3>2 DEF Positions, BuildAt
      <4> QED BY <3>2, <4>1, BuiltChain, OnChainFacts DEF On
    <3> QED BY <1>4, <3>1, <3>2
  <2>2. /\ pc' = "write" /\ write'.then = "linked" /\ write'.copy = 1 /\ call' = call
    BY <1>4, <2>1, ClusterIsValid DEF SetNext
  <2>3. ~Joined' /\ Unlinking' /\ ~Writing("ended")' /\ ~Writing("cut")'
    BY <2>2, SMT DEF Joined, Unlinking, Writing
  <2>4. AppendAt' /\ BuildAt'
    BY <1>1, <1>4, <2>2, <2>3 DEF Positions, AppendAt, BuildAt, On
  <2>5. Ends'
    BY <1>1, <2>2, <2>3 DEF Positions, Ends
  <2>6. FreeAt' /\ CutAt'
    BY <1>1, <2>2, <2>3 DEF FreeAt, CutAt
  <2> QED BY <2>4, <2>5, <2>6 DEF Positions
<1> QED BY <1>2, <1>3, <1>4 DEF Marked, Allocated

LEMMA PositionsStep ==
  ASSUME TypeOK, TypeOK', Control, Naming, Mirrored, Marks, Values, Ownership, Positions,
         faults = 0, faults' = 0, [Next]_vars
  PROVE  Positions'
<1>1. CASE WriteFat
  BY <1>1, WritePositions
<1>2. ~WriteFatFails /\ ~WalkReadFails /\ ~FreeReadFails /\ ~DataWriteFails
  BY SMT DEF TypeOK, Fault, WriteFatFails, WalkReadFails, FreeReadFails, DataWriteFails
<1>3. CASE Scan
  <2>1. PICK c \in Cluster :
          SetNext(c, EndOfChain, "marked", [call EXCEPT !.new = c])
    BY <1>3 DEF Scan
  <2>2. /\ pc' = "write" /\ write'.then = "marked" /\ call' = [call EXCEPT !.new = c]
        /\ held' = held /\ fat' = fat /\ pc = "scan"
    BY <1>3, <2>1, ClusterIsValid DEF SetNext, Scan
  <2>3. /\ call'.op = call.op /\ call'.owner = call.owner /\ call'.curr = call.curr
        /\ call'.first = call.first
    BY <2>2 DEF TypeOK, CallType
  <2>4. /\ Unlinking /\ ~Joined' /\ ~Linking' /\ ~Writing("ended")' /\ ~Writing("cut")'
        /\ call.op # "free"
    BY <1>3, <2>2, OpsDiffer DEF Unlinking, Joined, Linking, Writing, Control, CallControl
  <2>5. AppendAt' /\ BuildAt'
    BY <2>2, <2>3, <2>4 DEF Positions, AppendAt, BuildAt, On
  <2>6. Ends' /\ FreeAt' /\ CutAt'
    BY <2>2, <2>3, <2>4 DEF Positions, Ends, FreeAt, CutAt
  <2> QED BY <2>5, <2>6 DEF Positions
<1>4. CASE ScanFails \/ BuildEnded \/ AppendEnded \/ Restart \/ Crash
  BY <1>4, EndPositions
  DEF ScanFails, BuildEnded, AppendEnded, Restart, Crash, Reboot, Return, ReturnFalse
<1>5. CASE Marked
  BY <1>5, MarkedPositions
<1>6. CASE BuildNext
  <2>1. /\ pc = "next" /\ call.op \in BuildCalls /\ Joined /\ fat' = fat
        /\ call.op # "append" /\ call.op # "free"
    BY <1>6, OpsDiffer DEF BuildNext, Joined, Control, CallControl
  <2>2. /\ call.first # 0 /\ On(call.first, call.new) /\ fat[1][call.new] = EndOfChain
    BY <2>1 DEF Positions, BuildAt, Ends
  <2>3. call.new \in Cluster /\ call.new # 0
    BY <2>1, <2>2, BuiltChain, OnChainFacts, Numbers DEF On
  <2>4. CASE pc' = "scan" /\ call' = [call EXCEPT !.curr = call.new, !.left = @ - 1]
    <3>1. /\ call'.op = call.op /\ call'.first = call.first /\ call'.curr = call.new
      BY <2>4 DEF TypeOK, CallType
    <3>2. ~Joined' /\ ~Linking' /\ ~Writing("ended")' /\ ~Writing("cut")'
      BY <2>4 DEF Joined, Linking, Writing
    <3>3. AppendAt' /\ BuildAt' /\ Ends'
      BY <2>1, <2>2, <2>3, <2>4, <3>1, <3>2 DEF AppendAt, BuildAt, Ends, On
    <3>4. FreeAt' /\ CutAt'
      BY <2>1, <3>1, <3>2 DEF FreeAt, CutAt
    <3> QED BY <3>3, <3>4 DEF Positions
  <2>5. CASE SetNext(call.new, EndOfChain, "ended", call)
    <3>1. pc' = "write" /\ write'.then = "ended" /\ call' = call
      BY <2>3, <2>5, ClusterIsValid DEF SetNext
    <3>2. ~Joined' /\ ~Unlinking' /\ ~Writing("cut")'
      BY <3>1 DEF Joined, Unlinking, Marking, Writing
    <3>3. AppendAt' /\ BuildAt' /\ Ends'
      BY <2>1, <2>2, <3>1, <3>2 DEF AppendAt, BuildAt, Ends
    <3>4. FreeAt' /\ CutAt'
      BY <2>1, <3>1, <3>2 DEF FreeAt, CutAt
    <3> QED BY <3>3, <3>4 DEF Positions
  <2> QED BY <1>6, <2>4, <2>5 DEF BuildNext
<1>7. CASE BuildLinked
  <2>1. CASE ReturnFalse
    BY <2>1, EndPositions DEF ReturnFalse
  <2>2. CASE pc' = "next" /\ UNCHANGED <<call, write, held, leaked>>
    <3>1. /\ pc = "linked" /\ Joined /\ Linking /\ fat' = fat /\ call.op \in BuildCalls
          /\ call.op # "append" /\ call.op # "free"
      BY <1>7, OpsDiffer DEF BuildLinked, Joined, Linking
    <3>2. ~Unlinking' /\ ~Writing("cut")'
      BY <2>2 DEF Unlinking, Marking, Writing
    <3>3. AppendAt' /\ BuildAt' /\ Ends'
      BY <2>2, <3>1, <3>2 DEF Positions, AppendAt, BuildAt, Ends, On
    <3>4. FreeAt' /\ CutAt'
      BY <2>2, <3>1, <3>2 DEF FreeAt, CutAt
    <3> QED BY <3>3, <3>4 DEF Positions
  <2> QED BY <1>7, <2>1, <2>2 DEF BuildLinked
<1>8. CASE Walk
  BY <1>8, WalkPositions
<1>9. CASE AppendLinked
  <2>1. /\ pc = "linked" /\ call.op = "append" /\ Linking /\ fat' = fat
        /\ call.op \notin BuildCalls /\ call.new \in Cluster
        /\ fat[1][call.new] = EndOfChain
    BY <1>9, OpsDiffer DEF AppendLinked, Linking, Control, CallControl, Positions, Ends
  <2>2. pc' = "write" /\ write'.then = "ended" /\ call' = call
    BY <1>9, <2>1, ClusterIsValid DEF SetNext, AppendLinked
  <2>3. ~Joined' /\ ~Unlinking' /\ ~Writing("cut")'
    BY <2>2 DEF Joined, Unlinking, Marking, Writing
  <2>4. AppendAt' /\ BuildAt' /\ Ends'
    BY <2>1, <2>2, <2>3 DEF AppendAt, BuildAt, Ends
  <2>5. FreeAt' /\ CutAt'
    BY <2>1, <2>2, <2>3 DEF FreeAt, CutAt
  <2> QED BY <2>4, <2>5 DEF Positions
\* The steps of free and cut: only FreeAt is about them.
<1>10. ASSUME call.op \in {"free", "cut"}, call'.op = call.op, pc' \in {"free", "write"},
              pc' = "write" => write'.then = "freed", FreeAt'
       PROVE  Positions'
  <2>1. call'.op \notin BuildCalls \cup {"append"}
    BY <1>10 DEF BuildCalls
  <2>2. ~Linking' /\ ~Writing("ended")' /\ ~Writing("cut")' /\ pc' \notin {"marked", "next"}
    BY <1>10 DEF Linking, Writing
  <2>3. AppendAt' /\ BuildAt'
    BY <2>1, Zenon DEF AppendAt, BuildAt
  <2>4. Ends' /\ CutAt'
    BY <2>1, <2>2 DEF Ends, CutAt
  <2> QED BY <1>10, <2>3, <2>4 DEF Positions
<1>11. CASE Free
  <2>1. CASE ReturnFree
    BY <2>1, EndPositions DEF ReturnFree, Return
  <2>2. CASE /\ IsValidCluster(call.curr)
             /\ SetNext(call.curr, FREE, "freed", [call EXCEPT !.next = NextOf(call.curr)])
             /\ UNCHANGED <<held, leaked>>
    <3>1. /\ pc' = "write" /\ write'.then = "freed" /\ write'.copy = 1
          /\ call' = [call EXCEPT !.next = NextOf(call.curr)]
          /\ fat' = fat /\ held' = held /\ pc = "free"
      BY <1>11, <2>2 DEF SetNext, Free
    <3>2. call'.op = call.op /\ call'.owner = call.owner /\ call'.curr = call.curr
      BY <3>1 DEF TypeOK, CallType
    <3>3. call.op \in {"free", "cut"}
      BY <3>1 DEF Control, CallControl
    <3>4. FreeAt'
      BY <3>1, <3>2 DEF Positions, FreeAt, Writing
    <3> QED BY <1>10, <3>1, <3>2, <3>3, <3>4
  <2> QED BY <1>11, <2>1, <2>2 DEF Free
<1>12. CASE Freed
  <2>1. CASE ReturnFree
    BY <2>1, EndPositions DEF ReturnFree, Return
  <2>2. CASE pc' = "free" /\ call' = [call EXCEPT !.curr = call.next] /\ held' = held
    <3>1. call'.op = call.op /\ call'.owner = call.owner /\ fat' = fat /\ pc = "freed"
      BY <1>12, <2>2 DEF TypeOK, CallType, Freed
    <3>2. call.op \in {"free", "cut"}
      BY <3>1 DEF Control, CallControl
    <3>3. FreeAt'
      BY <2>2, <3>1 DEF Positions, FreeAt, Writing
    <3> QED BY <1>10, <2>2, <3>1, <3>2, <3>3
  <2> QED BY <1>12, <2>1, <2>2 DEF Freed
<1>13. CASE Cut
  <2>1. CASE EndCall
    BY <2>1, EndPositions
  <2>2. CASE pc' = "free" /\ call' = [call EXCEPT !.curr = call.next]
    <3>1. call'.op = call.op /\ call.op = "cut"
      BY <1>13, <2>2 DEF TypeOK, CallType, Cut, Control, CallControl
    <3>2. FreeAt'
      BY <3>1 DEF FreeAt
    <3> QED BY <1>10, <2>2, <3>1, <3>2
  <2> QED BY <1>13, <2>1, <2>2 DEF Cut
\* The beginning of a call.
<1>14. ASSUME NEW o \in Owners, CallAllocate(o)
       PROVE  Positions'
  BY <1>14 DEF CallAllocate, NoCall, Positions, AppendAt, BuildAt, Ends, FreeAt, CutAt,
     Linking, Writing, BuildCalls
<1>15. ASSUME NEW o \in Owners, NEW op \in BuildCalls, NEW count \in 1 .. MaxCount,
              CallBuild(o, op, count)
       PROVE  Positions'
  BY <1>15 DEF CallBuild, NoCall, Positions, AppendAt, BuildAt, Ends, FreeAt, CutAt,
     Linking, Writing, BuildCalls, Joined
<1>16. ASSUME NEW o \in Owners, CallAppend(o)
       PROVE  Positions'
  <2>1. First(fat[1], held[o])
    BY <1>16, HeldFirst DEF CallAppend, Naming
  <2>2. On(held[o], held[o])
    BY <2>1, OnChainFacts DEF On
  <2> QED BY <1>16, <2>2 DEF CallAppend, NoCall, Positions, AppendAt, BuildAt, Ends,
          FreeAt, CutAt, Unlinking, Marking, Linking, Writing, BuildCalls, On
<1>17. ASSUME NEW o \in Owners, CallFree(o)
       PROVE  Positions'
  BY <1>17 DEF CallFree, NoCall, Positions, AppendAt, BuildAt, Ends, FreeAt, CutAt,
     Linking, Writing, BuildCalls
<1>18. ASSUME NEW o \in Owners, NEW c \in Cluster, CallCut(o, c)
       PROVE  Positions'
  <2>1. PICK rest : CutAfter(o, c, rest)
    BY <1>18 DEF CallCut
  <2>2. /\ pc' = "write" /\ write'.then = "cut" /\ fat' = fat /\ held' = held
        /\ call' = [NoCall EXCEPT !.op = "cut", !.owner = o, !.curr = c, !.next = rest]
    BY <1>18, <2>1, ClusterIsValid DEF CutAfter, SetNext, CallCut
  <2>3. call'.op = "cut" /\ call'.owner = o /\ call'.curr = c
    BY <2>2 DEF NoCall
  <2>4. On(held[o], c)
    <3>1. First(fat[1], held[o]) /\ OnChain(c, ChainFrom(held[o]))
      BY <1>18, HeldFirst DEF CallCut, Naming
    <3> QED BY <3>1, OnChainFacts DEF OnChain, ChainFrom, On
  <2>5. call'.op \notin BuildCalls \cup {"append", "free"}
    BY <2>3 DEF BuildCalls
  <2>6. AppendAt' /\ BuildAt' /\ FreeAt'
    BY <2>5, Zenon DEF AppendAt, BuildAt, FreeAt
  <2>7. Ends' /\ CutAt'
    BY <2>2, <2>3, <2>4, <2>5 DEF Ends, CutAt, Linking, Writing, On
  <2> QED BY <2>6, <2>7 DEF Positions
<1>19. ASSUME NEW o \in Owners, Persist(o)
       PROVE  Positions'
  BY <1>19 DEF Persist, Positions, AppendAt, BuildAt, Ends, FreeAt, CutAt, Unlinking,
     Marking, Linking, Joined, Writing, On
<1>20. CASE UNCHANGED vars
  BY <1>20 DEF vars, Positions, AppendAt, BuildAt, Ends, FreeAt, CutAt, Unlinking,
     Marking, Linking, Joined, Writing, On
<1> QED
  BY NextCases, <1>1, <1>2, <1>3, <1>4, <1>5, <1>6, <1>7, <1>8, <1>9, <1>11, <1>12,
     <1>13, <1>14, <1>15, <1>16, <1>17, <1>18, <1>19, <1>20

LEMMA ChainsInit == Init => Values /\ Ownership /\ Positions
<1> SUFFICES ASSUME Init PROVE Values /\ Ownership /\ Positions
  OBVIOUS
<1>1. Values
  BY CopyOne, Numbers, SMT DEF Init, Values, Cluster, FatIndex
<1>2. Ownership /\ Positions
  BY DEF Init, NoCall, Ownership, Positions, AppendAt, BuildAt, Ends, FreeAt, CutAt,
     Unlinking, Joined, Marking, Linking, Writing, BuildCalls
<1> QED BY <1>1, <1>2

LEMMA ChainInvHolds == Spec => []ChainInv
<1>1. Init => ChainInv
  <2>1. Init => RecoveryInv
    BY InitTypes, InitNaming, MirrorInit, MarksInit DEF RecoveryInv, Inductive
  <2> QED BY <2>1, ChainsInit DEF ChainInv
<1>2. ChainInv /\ RecoveryInv' /\ [Next]_vars => ChainInv'
  <2> SUFFICES ASSUME ChainInv, RecoveryInv', [Next]_vars PROVE ChainInv'
    OBVIOUS
  <2>1. TypeOK /\ Control /\ Mirrored /\ Values /\ Ownership /\ TypeOK'
    BY DEF ChainInv, RecoveryInv, Inductive
  <2>2. Values' /\ Ownership'
    BY <2>1, ValuesStep, OwnershipStep
  <2>3. ASSUME faults' = 0, ~tainted' PROVE Positions'
    <3>1. faults = 0 /\ ~tainted
      BY <2>1, <2>3, CountsGrow, TaintStays
    <3>2. Naming /\ Marks /\ Positions
      BY <3>1 DEF ChainInv, RecoveryInv, Inductive
    <3> QED BY <2>1, <2>3, <3>1, <3>2, PositionsStep
  <2> QED BY <2>2, <2>3 DEF ChainInv
<1> QED BY <1>1, <1>2, RecoveryHolds, PTL DEF Spec

-----------------------------------------------------------------------------
(* To its callers the allocator is a ChainStore.  First what the mapped    *)
(* state is for one owner, before and after a step.                        *)

LEMMA OwnerMaps ==
  ASSUME NEW o \in Owners
  PROVE  /\ ChainsOfOwners[o] = IF Leads(o) THEN ChainIn(fat[1], held[o]) ELSE <<>>
         /\ ChainsOfOwners'[o] = IF Leads(o)' THEN ChainIn(fat'[1], held'[o]) ELSE <<>>
         /\ o \in OwnersSaved <=> disk[o] = held[o] /\ (held[o] # 0 => Leads(o))
         /\ o \in OwnersSaved' <=> disk'[o] = held'[o] /\ (held'[o] # 0 => Leads(o)')
         /\ o \in OwnersStale <=> disk[o] # 0 /\ o \notin OwnersSaved
         /\ o \in OwnersStale' <=> disk'[o] # 0 /\ o \notin OwnersSaved'
BY DEF ChainsOfOwners, ChainFrom, OwnersSaved, OwnersStale

LEMMA OwnerSets ==
  /\ OwnersSaved \subseteq Owners /\ OwnersSaved' \subseteq Owners
  /\ OwnersStale \subseteq Owners /\ OwnersStale' \subseteq Owners
BY DEF OwnersSaved, OwnersStale

\* A step that changes one chain at most.
LEMMA OneOwnerChain ==
  ASSUME NEW o \in Owners, NEW s,
         \A p \in Owners : ChainsOfOwners'[p] = IF p = o THEN s ELSE ChainsOfOwners[p]
  PROVE  ChainsOfOwners' = [ChainsOfOwners EXCEPT ![o] = s]
BY DEF ChainsOfOwners

LEMMA NoOwnerChain ==
  ASSUME \A p \in Owners : ChainsOfOwners'[p] = ChainsOfOwners[p]
  PROVE  ChainsOfOwners' = ChainsOfOwners
BY DEF ChainsOfOwners

\* Whose directory entries are up to date does not change as long as the same owners
\* lead chains.
LEMMA SameSaved ==
  ASSUME held' = held, disk' = disk, \A o \in Owners : Leads(o)' <=> Leads(o)
  PROVE  OwnersSaved' = OwnersSaved /\ OwnersStale' = OwnersStale
BY OwnerMaps, OwnerSets

\* A step that touches no chain of an owner.
LEMMA SameStore ==
  ASSUME held' = held, disk' = disk,
         \A o \in Owners : Leads(o)' <=> Leads(o),
         \A o \in Owners : Leads(o) => ChainIn(fat'[1], held[o]) = ChainIn(fat[1], held[o])
  PROVE  UNCHANGED <<ChainsOfOwners, OwnersSaved, OwnersStale>>
<1>1. \A o \in Owners : ChainsOfOwners'[o] = ChainsOfOwners[o]
  BY OwnerMaps
<1> QED BY <1>1, NoOwnerChain, SameSaved

LEMMA StillStore ==
  ASSUME held' = held, disk' = disk, fat'[1] = fat[1]
  PROVE  UNCHANGED <<ChainsOfOwners, OwnersSaved, OwnersStale>>
BY SameStore DEF Leads

\* The clusters of an owner that leads a chain, and those of nobody.
LEMMA LeadsChain ==
  ASSUME TypeOK, Links, NEW o \in Owners, Leads(o)
  PROVE  /\ First(fat[1], held[o])
         /\ ChainsOfOwners[o] # <<>>
         /\ Store!ClustersOf(ChainsOfOwners[o]) = OnChainIn(fat[1], held[o])
<1>1. First(fat[1], held[o])
  BY HeldFirst DEF Leads
<1>2. Len(ChainIn(fat[1], held[o])) >= 1
  BY <1>1, ChainOfFirst, PathFacts DEF Whole
<1>3. ChainsOfOwners[o] = ChainIn(fat[1], held[o])
  BY OwnerMaps
<1>4. ChainIn(fat[1], held[o]) # <<>>
  BY <1>2, SMT
<1> QED BY <1>1, <1>3, <1>4, OnChainFacts DEF Store!ClustersOf

LEMMA FreshCluster ==
  ASSUME TypeOK, Links, NEW c \in Cluster,
         \A o \in Owners : Leads(o) => c \notin OnChainIn(fat[1], held[o])
  PROVE  c \in Store!Fresh
<1>1. ASSUME NEW o \in Owners PROVE c \notin Store!ClustersOf(ChainsOfOwners[o])
  <2>1. CASE Leads(o)
    BY <2>1, LeadsChain
  <2>2. CASE ~Leads(o)
    <3>1. ChainsOfOwners[o] = <<>>
      BY <2>2, OwnerMaps
    <3> QED BY <3>1 DEF Store!ClustersOf
  <2> QED BY <2>1, <2>2
<1> QED BY <1>1 DEF Store!Fresh

\* A cluster nobody names is on the chain of no owner.
LEMMA UnnamedFresh ==
  ASSUME TypeOK, Links, NEW c \in Cluster, Unnamed(c)
  PROVE  c \in Store!Fresh
<1>1. NoLinkTo(fat[1], c) /\ \A o \in Owners : held[o] # c
  BY DEF Unnamed, Unlinked, NoLinkTo
<1>2. \A o \in Owners : Leads(o) => c \notin OnChainIn(fat[1], held[o])
  BY <1>1, LeadsChain, NotOnChain
<1> QED BY <1>2, FreshCluster

-----------------------------------------------------------------------------
(* The writes of copy 1.                                                   *)

\* What an owner holds is not on the chain of another, nor on one being built.
LEMMA HeldApart ==
  ASSUME TypeOK, Links, NEW c, First(fat[1], c), NEW x \in OnChainIn(fat[1], c),
         NEW o \in Owners, held[o] # 0, held[o] # c
  PROVE  x # held[o] /\ x \notin OnChainIn(fat[1], held[o])
<1>1. First(fat[1], held[o])
  BY HeldFirst
<1>2. held[o] \in OnChainIn(fat[1], held[o])
  BY <1>1, OnChainFacts
<1> QED BY <1>1, <1>2, OnOneChain

\* A write off the chain of an owner leaves it as it was.
LEMMA ElsewhereWritten ==
  ASSUME TypeOK, Links, NEW d, NEW e, Changed(fat[1], fat'[1], d, e), held' = held,
         NEW o \in Owners,
         held[o] # 0 => d # held[o] /\ d \notin OnChainIn(fat[1], held[o])
  PROVE  /\ Leads(o)' <=> Leads(o)
         /\ Leads(o) => ChainIn(fat'[1], held[o]) = ChainIn(fat[1], held[o])
         /\ ChainsOfOwners'[o] = ChainsOfOwners[o]
<1>1. Leads(o)' <=> Leads(o)
  BY Numbers DEF Leads, Changed, TypeOK
<1>2. ASSUME Leads(o) PROVE ChainIn(fat'[1], held[o]) = ChainIn(fat[1], held[o])
  <2>1. held[o] # 0
    BY <1>2 DEF Leads
  <2>2. First(fat[1], held[o])
    BY <1>2, LeadsChain
  <2>3. \A x \in OnChainIn(fat[1], held[o]) : x # d /\ x \in FatIndex
    BY <2>1, <2>2, OnChainFacts, Numbers
  <2>4. \A x \in OnChainIn(fat[1], held[o]) : fat'[1][x] = fat[1][x]
    BY <2>3 DEF Changed
  <2> QED BY <2>2, <2>4, UntouchedChain DEF Changed
<1> QED BY <1>1, <1>2, OwnerMaps

\* The mark of a new cluster.
LEMMA MarkStore ==
  ASSUME TypeOK, TypeOK', Control, Naming, WriteFat, write.copy = 1, write.then = "marked"
  PROVE  UNCHANGED <<ChainsOfOwners, OwnersSaved, OwnersStale>>
<1>1. /\ Unnamed(call.new) /\ write.cluster = call.new
      /\ held' = held /\ disk' = disk /\ Links
  BY DEF WriteFat, Control, WriteControl, Marking, Writing, Naming, AllocNames
<1>2. Changed(fat[1], fat'[1], call.new, write.value)
  BY <1>1, OneChanged
<1>3. NoLinkTo(fat[1], call.new) /\ \A o \in Owners : held[o] # call.new
  BY <1>1 DEF Unnamed, Unlinked, NoLinkTo
<1>4. \A o \in Owners : held[o] # 0 => call.new \notin OnChainIn(fat[1], held[o])
  BY <1>1, <1>3, HeldFirst, NotOnChain
<1>5. \A o \in Owners : /\ Leads(o)' <=> Leads(o)
                        /\ Leads(o) => ChainIn(fat'[1], held[o]) = ChainIn(fat[1], held[o])
  BY <1>1, <1>2, <1>3, <1>4, ElsewhereWritten
<1> QED BY <1>1, <1>5, SameStore

\* The link of append extends the chain of its owner.
LEMMA AppendStore ==
  ASSUME TypeOK, TypeOK', Control, Naming, Marks, Ownership, Positions, WriteFat,
         write.copy = 1, write.then = "linked", call.op = "append"
  PROVE  Store!Extend(call.owner)
<1>0. PICK o \in Owners : o = call.owner
  BY DEF TypeOK, CallType
<1>1. /\ Unnamed(call.new) /\ write.cluster = call.curr /\ write.value = call.new
      /\ held' = held /\ disk' = disk /\ Links /\ call.new \in Cluster
      /\ call.curr \in Cluster
      /\ o \in Owners /\ held[o] # 0 /\ call.op # "free" /\ Unlinking
  BY <1>0 DEF WriteFat, Control, WriteControl, CallControl, Linking, Unlinking, Writing,
     Naming, AllocNames, TypeOK, CallType, Ownership
<1>2. Changed(fat[1], fat'[1], call.curr, call.new)
  BY <1>0, <1>1, OneChanged
<1>3. First(fat[1], held[o]) /\ held[o] # call.new /\ held[o] \in Cluster
  BY <1>0, <1>1, OwnerChain
<1>4. On(held[o], call.curr)
  BY <1>0, <1>1 DEF Positions, AppendAt
<1>5. Leads(o)
  BY <1>0, <1>1 DEF Marks, FirstsMarked, Leads
<1>6. ChainIn(fat'[1], held[o]) = Append(ChainIn(fat[1], held[o]), call.new)
  BY <1>3, <1>4, LinkJoins
<1>7. Leads(o)'
  BY <1>0, <1>1, <1>2, <1>3, <1>5, Numbers DEF Leads, Changed
<1>8. ASSUME NEW p \in Owners, p # o
      PROVE  (Leads(p)' <=> Leads(p)) /\ ChainsOfOwners'[p] = ChainsOfOwners[p]
  <2>1. held[p] # 0 => held[p] # held[o]
    BY <1>0, <1>1, <1>8 DEF Links, UniqueFirsts
  <2>2. held[p] # 0 => call.curr # held[p] /\ call.curr \notin OnChainIn(fat[1], held[p])
    BY <1>0, <1>1, <1>3, <1>4, <2>1, HeldApart DEF On
  <2> QED BY <1>0, <1>1, <1>2, <2>2, ElsewhereWritten
<1>9. ChainsOfOwners'[o] = Append(ChainsOfOwners[o], call.new)
  BY <1>0, <1>1, <1>5, <1>6, <1>7, OwnerMaps
<1>10. ChainsOfOwners' = [ChainsOfOwners EXCEPT ![o] = Append(ChainsOfOwners[o], call.new)]
  <2>1. \A p \in Owners : ChainsOfOwners'[p] =
          IF p = o THEN Append(ChainsOfOwners[o], call.new) ELSE ChainsOfOwners[p]
    BY <1>8, <1>9
  <2> QED BY <1>0, <1>1, <2>1, OneOwnerChain
<1>11. call.new \in Store!Fresh
  BY <1>0, <1>1, UnnamedFresh
<1>12. ChainsOfOwners[o] # <<>>
  BY <1>0, <1>1, <1>5, LeadsChain
<1>13. OwnersSaved' = OwnersSaved /\ OwnersStale' = OwnersStale
  BY <1>0, <1>1, <1>5, <1>7, <1>8, SameSaved
<1> QED BY <1>0, <1>10, <1>11, <1>12, <1>13 DEF Store!Extend

\* The link of a build is on the private chain of the call.
LEMMA BuildStore ==
  ASSUME TypeOK, TypeOK', Control, Naming, Ownership, Positions, WriteFat,
         write.copy = 1, write.then = "linked", call.op \in BuildCalls
  PROVE  UNCHANGED <<ChainsOfOwners, OwnersSaved, OwnersStale>>
<1>1. /\ write.cluster = call.curr /\ held' = held /\ disk' = disk /\ Links
      /\ call.curr \in Cluster /\ Unlinking
  BY DEF WriteFat, Control, WriteControl, Unlinking, Writing, Naming
<1>2. Changed(fat[1], fat'[1], call.curr, write.value)
  BY <1>1, OneChanged
<1>3. call.first # 0 /\ On(call.first, call.curr)
  BY <1>1, Numbers DEF Positions, BuildAt
<1>4. First(fat[1], call.first) /\ \A o \in Owners : held[o] # call.first
  BY <1>3, BuiltChain DEF Unnamed
<1>5. \A o \in Owners : held[o] # 0 =>
        call.curr # held[o] /\ call.curr \notin OnChainIn(fat[1], held[o])
  BY <1>1, <1>3, <1>4, HeldApart DEF On
<1>6. \A o \in Owners : /\ Leads(o)' <=> Leads(o)
                        /\ Leads(o) => ChainIn(fat'[1], held[o]) = ChainIn(fat[1], held[o])
  BY <1>1, <1>2, <1>5, ElsewhereWritten
<1> QED BY <1>1, <1>6, SameStore

\* The end-of-chain mark of f_truncate shortens the chain of its owner.
LEMMA CutStore ==
  ASSUME TypeOK, TypeOK', Control, Naming, Marks, Ownership, Positions, WriteFat,
         write.copy = 1, write.then = "cut"
  PROVE  Store!Shorten(call.owner)
<1>0. PICK o \in Owners : o = call.owner
  BY DEF TypeOK, CallType
<1>1. /\ pc = "write" /\ call.op = "cut" /\ call.op # "free" /\ write.cluster = call.curr
      /\ write.value = EndOfChain /\ held' = held /\ disk' = disk /\ Links
      /\ call.curr \in Cluster /\ o \in Owners /\ held[o] # 0 /\ Writing("cut")
  <2>1. pc = "write" /\ Writing("cut")
    BY DEF WriteFat, Writing
  <2>2. call.op = "cut" /\ call.curr \in Cluster
    BY <2>1 DEF Control, CallControl
  <2> QED BY <1>0, <2>1, <2>2
      DEF WriteFat, Control, WriteControl, Naming, TypeOK, CallType, Ownership
<1>2. Changed(fat[1], fat'[1], call.curr, EndOfChain)
  BY <1>0, <1>1, OneChanged
<1>3. First(fat[1], held[o]) /\ held[o] \in Cluster
  BY <1>0, <1>1, OwnerChain
<1>4. On(held[o], call.curr)
  BY <1>0, <1>1 DEF Positions, CutAt
<1>5. Leads(o)
  BY <1>0, <1>1 DEF Marks, FirstsMarked, Leads
<1>6. PICK n \in 1 .. Len(ChainIn(fat[1], held[o])) :
        ChainIn(fat'[1], held[o]) = SubSeq(ChainIn(fat[1], held[o]), 1, n)
  BY <1>2, <1>3, <1>4, ChainCut, Numbers DEF On
<1>7. Leads(o)'
  <2>1. held[o] \in FatIndex /\ EndOfChain # FREE
    BY <1>3, TableNumbers
  <2>2. fat'[1][held[o]] # FREE
    BY <1>2, <1>5, <2>1 DEF Changed, Leads
  <2> QED BY <1>1, <2>2 DEF Leads
<1>8. ASSUME NEW p \in Owners, p # o
      PROVE  (Leads(p)' <=> Leads(p)) /\ ChainsOfOwners'[p] = ChainsOfOwners[p]
  <2>1. held[p] # 0 => held[p] # held[o]
    BY <1>0, <1>1, <1>8 DEF Links, UniqueFirsts
  <2>2. held[p] # 0 => call.curr # held[p] /\ call.curr \notin OnChainIn(fat[1], held[p])
    BY <1>0, <1>1, <1>3, <1>4, <2>1, HeldApart DEF On
  <2> QED BY <1>0, <1>1, <1>2, <2>2, ElsewhereWritten
<1>9. /\ ChainsOfOwners'[o] = SubSeq(ChainsOfOwners[o], 1, n)
      /\ n \in 1 .. Len(ChainsOfOwners[o])
  BY <1>0, <1>1, <1>5, <1>6, <1>7, OwnerMaps
<1>10. ChainsOfOwners' = [ChainsOfOwners EXCEPT ![o] = SubSeq(ChainsOfOwners[o], 1, n)]
  <2>1. \A p \in Owners : ChainsOfOwners'[p] =
          IF p = o THEN SubSeq(ChainsOfOwners[o], 1, n) ELSE ChainsOfOwners[p]
    BY <1>8, <1>9
  <2> QED BY <1>0, <1>1, <2>1, OneOwnerChain, ZenonT(40)
<1>11. OwnersSaved' = OwnersSaved /\ OwnersStale' = OwnersStale
  BY <1>0, <1>1, <1>5, <1>7, <1>8, SameSaved
<1> QED BY <1>0, <1>9, <1>10, <1>11 DEF Store!Shorten

\* The free mark on the first cluster drops the chain; the marks on the others are
\* on the chain of nobody any more.
LEMMA FreeStore ==
  ASSUME TypeOK, TypeOK', Control, Naming, Ownership, Positions, WriteFat,
         write.copy = 1, write.then = "freed"
  PROVE  \/ Store!Drop(call.owner)
         \/ UNCHANGED <<ChainsOfOwners, OwnersSaved, OwnersStale>>
<1>0. PICK o \in Owners : o = call.owner
  BY DEF TypeOK, CallType
<1>1. /\ write.cluster = call.curr /\ write.value = FREE /\ held' = held /\ disk' = disk
      /\ Links /\ call.curr \in Cluster /\ o \in Owners /\ OnlyFreeNames(call.curr)
  <2>1. pc = "write" /\ Writing("freed")
    BY DEF WriteFat, Writing
  <2>2. write.cluster = call.curr /\ call.curr \in Cluster
    BY <2>1 DEF Control, WriteControl
  <2> QED BY <1>0, <2>1, <2>2
      DEF WriteFat, Control, WriteControl, Naming, FreeNames, TypeOK, CallType
<1>2. Changed(fat[1], fat'[1], call.curr, FREE)
  BY <1>0, <1>1, OneChanged
<1>3. NoLinkTo(fat[1], call.curr)
  BY <1>0, <1>1 DEF OnlyFreeNames, Unlinked, NoLinkTo
<1>4. ASSUME NEW p \in Owners, held[p] # call.curr
      PROVE  /\ Leads(p)' <=> Leads(p)
             /\ Leads(p) => ChainIn(fat'[1], held[p]) = ChainIn(fat[1], held[p])
             /\ ChainsOfOwners'[p] = ChainsOfOwners[p]
  <2>1. held[p] # 0 => call.curr \notin OnChainIn(fat[1], held[p])
    BY <1>0, <1>1, <1>3, <1>4, HeldFirst, NotOnChain
  <2> QED BY <1>0, <1>1, <1>2, <1>4, <2>1, ElsewhereWritten
<1>5. ASSUME NEW p \in Owners, held[p] = call.curr
      PROVE  p = o /\ call.op = "free" /\ ~ Leads(p)' /\ held[p] # 0
  <2>1. fat'[1][call.curr] = FREE
    BY <1>0, <1>1, <1>2, Numbers DEF Changed
  <2> QED BY <1>0, <1>1, <1>5, <2>1, Numbers DEF OnlyFreeNames, Leads
<1>6. CASE held[o] # call.curr \/ ~Leads(o)
  <2>1. \A p \in Owners : /\ Leads(p)' <=> Leads(p)
                          /\ Leads(p) => ChainIn(fat'[1], held[p]) = ChainIn(fat[1], held[p])
    BY <1>4, <1>5, <1>6
  <2> QED BY <1>0, <1>1, <2>1, SameStore
<1>7. CASE held[o] = call.curr /\ Leads(o)
  <2>1. o # Root /\ ~ Leads(o)' /\ held[o] # 0
    BY <1>0, <1>1, <1>5, <1>7 DEF Ownership
  <2>2. ChainsOfOwners[o] # <<>>
    BY <1>0, <1>1, <1>7, LeadsChain
  <2>3. \A p \in Owners : p # o => held[p] # call.curr
    BY <1>5
  <2>4. \A p \in Owners : ChainsOfOwners'[p] = IF p = o THEN <<>> ELSE ChainsOfOwners[p]
    BY <1>0, <1>1, <1>4, <2>1, <2>3, OwnerMaps
  <2>5. ChainsOfOwners' = [ChainsOfOwners EXCEPT ![o] = <<>>]
    BY <1>0, <1>1, <2>4, OneOwnerChain
  <2>6. \A p \in Owners : p \in OwnersSaved' <=> p \in OwnersSaved \ {o}
    <3>1. \A p \in Owners : p # o => (Leads(p)' <=> Leads(p))
      BY <1>4, <2>3
    <3>2. \A p \in Owners : p \in OwnersSaved' =>
            disk'[p] = held'[p] /\ (held'[p] # 0 => Leads(p)')
      BY OwnerMaps, Zenon
    <3>3. \A p \in Owners : disk'[p] = held'[p] /\ (held'[p] # 0 => Leads(p)') =>
            p \in OwnersSaved'
      BY OwnerMaps, Zenon
    <3>4. o \notin OwnersSaved'
      <4>1. o \in OwnersSaved' => (held'[o] # 0 => Leads(o)')
        BY <1>0, <1>1, OwnerMaps
      <4>2. held'[o] # 0
        BY <1>0, <1>1, <2>1
      <4> QED BY <2>1, <4>1, <4>2
    <3>5. \A p \in Owners : p # o => (p \in OwnersSaved' <=> p \in OwnersSaved)
      BY <1>0, <1>1, <3>1, <3>2, <3>3, OwnerMaps, Zenon
    <3> QED BY <3>4, <3>5
  <2>7. OwnersSaved' = OwnersSaved \ {o}
    BY <2>6, OwnerSets
  <2>8. \A p \in Owners : p \in OwnersStale' <=> p \in OwnersStale \cup (OwnersSaved \cap {o})
    BY <1>0, <1>1, <2>1, <2>7, OwnerMaps
  <2>9. OwnersStale' = OwnersStale \cup (OwnersSaved \cap {o})
    BY <2>8, OwnerSets
  <2> QED BY <1>0, <2>1, <2>2, <2>5, <2>7, <2>9 DEF Store!Drop
<1> QED BY <1>6, <1>7

LEMMA WriteStore ==
  ASSUME TypeOK, TypeOK', Control, Naming, Marks, Ownership, Positions, WriteFat
  PROVE  \/ Store!Next
         \/ UNCHANGED <<ChainsOfOwners, OwnersSaved, OwnersStale>>
<1>1. call.owner \in Owners /\ held' = held /\ disk' = disk
  BY DEF TypeOK, CallType, WriteFat
<1>2. CASE write.copy # 1
  <2>1. fat'[1] = fat[1]
    BY <1>2, CopyOneWrite
  <2> QED BY <1>1, <2>1, StillStore
<1>3. CASE write.copy = 1 /\ write.then = "marked"
  BY <1>3, MarkStore
<1>4. CASE write.copy = 1 /\ write.then = "linked"
  <2>1. call.op \in BuildCalls \cup {"append"}
    BY <1>4 DEF WriteFat, Ownership, Linking, Writing
  <2> QED BY <1>1, <1>4, <2>1, AppendStore, BuildStore DEF Store!Next
<1>5. CASE write.copy = 1 /\ write.then = "ended"
  <2>1. fat'[1] = fat[1]
    BY <1>5, EndMarkLeaves
  <2> QED BY <1>1, <2>1, StillStore
<1>6. CASE write.copy = 1 /\ write.then = "freed"
  BY <1>1, <1>6, FreeStore DEF Store!Next
<1>7. CASE write.copy = 1 /\ write.then = "cut"
  BY <1>1, <1>7, CutStore DEF Store!Next
<1> QED BY <1>2, <1>3, <1>4, <1>5, <1>6, <1>7, WriteLeaves

-----------------------------------------------------------------------------
(* The other steps.                                                        *)

LEMMA StoreCounts == \A S : Store!Cardinality(S) = Cardinality(S)
BY DEF Store!Cardinality, Cardinality

\* The sequence of a new chain.
LEMMA NewChain ==
  ASSUME TypeOK, Links, NEW c \in Cluster, Unnamed(c)
  PROVE  \E n \in 1 .. Cardinality(Store!Fresh) :
           ChainIn(fat[1], c) \in Store!FreshChains(n)
<1> DEFINE s == ChainIn(fat[1], c)
<1>1. First(fat[1], c)
  BY UnlinkedFirst DEF Unnamed
<1>2. Whole(fat[1], s) /\ Path(fat[1], s)
  BY <1>1, ChainOfFirst DEF Whole
<1>3. /\ Len(s) \in Nat /\ Len(s) >= 1 /\ s \in Seq(Cluster)
      /\ \A i \in 1 .. Len(s) : s[i] \in Cluster
  BY <1>2, PathFacts
<1>4. ASSUME NEW i \in 1 .. Len(s) PROVE s[i] \in Store!Fresh
  <2>1. s[i] \in OnChainIn(fat[1], c)
    BY <1>1, OnChainFacts
  <2>2. \A o \in Owners : Leads(o) => s[i] \notin OnChainIn(fat[1], held[o])
    <3> SUFFICES ASSUME NEW o \in Owners, Leads(o)
                 PROVE  s[i] \notin OnChainIn(fat[1], held[o])
      OBVIOUS
    <3>1. held[o] # 0 /\ held[o] # c
      BY DEF Leads, Unnamed
    <3> QED BY <1>1, <2>1, <3>1, HeldApart
  <2> QED BY <1>3, <2>2, FreshCluster
<1>5. \A i, j \in 1 .. Len(s) : s[i] = s[j] => i = j
  BY <1>1, ChainsApart
<1> HIDE DEF s
<1>6. s \in [1 .. Len(s) -> Store!Fresh]
  <2>1. s \in [1 .. Len(s) -> Cluster]
    BY <1>3, LenProperties
  <2> QED BY <1>4, <2>1
<1>7. s \in Store!FreshChains(Len(s))
  BY <1>5, <1>6 DEF Store!FreshChains
<1>7a. IsFiniteSet(Store!Fresh)
  <2>1. IsFiniteSet(Cluster)
    BY Numbers, FS_Interval DEF Cluster
  <2> QED BY <2>1, FS_Subset DEF Store!Fresh
<1>8. Len(s) <= Cardinality(Store!Fresh)
  <2>1. IsFiniteSet(1 .. Len(s)) /\ Cardinality(1 .. Len(s)) = Len(s)
    <3>1. 1 \in Int /\ Len(s) \in Int
      BY <1>3
    <3>2. /\ IsFiniteSet(1 .. Len(s))
          /\ Cardinality(1 .. Len(s)) = IF 1 > Len(s) THEN 0 ELSE Len(s) - 1 + 1
      BY <3>1, FS_Interval
    <3>3. \A n \in Nat : n >= 1 => (IF 1 > n THEN 0 ELSE n - 1 + 1) = n
      BY SMT
    <3> QED BY <1>3, <3>2, <3>3
  <2>2. s \in Injection(1 .. Len(s), Store!Fresh)
    BY <1>5, <1>6 DEF Injection, IsInjective
  <2> QED BY <1>7a, <2>1, <2>2, FS_Injection
<1>9. Cardinality(Store!Fresh) \in Nat
  BY <1>7a, FS_CardinalityType
<1>10. Len(s) \in 1 .. Cardinality(Store!Fresh)
  BY <1>3, <1>8, <1>9, SMT
<1> QED BY <1>7, <1>10 DEF s

\* An allocation takes effect when its owner stores the first cluster.
LEMMA CreateStore ==
  ASSUME TypeOK, TypeOK', Links, NEW c \in Cluster, Unnamed(c), fat[1][c] # FREE,
         Return(c), fat' = fat, disk' = disk, held[call.owner] = 0
  PROVE  Store!Create(call.owner)
<1>0. PICK o \in Owners : o = call.owner
  BY DEF TypeOK, CallType
<1>1. /\ held' = [held EXCEPT ![o] = c] /\ held \in [Owners -> Cluster \cup {0}]
      /\ held[o] = 0 /\ c # 0
  BY <1>0, Numbers DEF Return, TypeOK
<1>2. held'[o] = c /\ \A p \in Owners : p # o => held'[p] = held[p]
  BY <1>1
<1>3. ~Leads(o) /\ Leads(o)'
  BY <1>1, <1>2 DEF Leads
<1>4. \A p \in Owners : p # o => (Leads(p)' <=> Leads(p))
  BY <1>2 DEF Leads
<1>5. ChainsOfOwners[o] = <<>> /\ ChainsOfOwners'[o] = ChainIn(fat[1], c)
  BY <1>2, <1>3, OwnerMaps
<1>6. \A p \in Owners : p # o => ChainsOfOwners'[p] = ChainsOfOwners[p]
  BY <1>2, <1>4, OwnerMaps
<1>7. ChainsOfOwners' = [ChainsOfOwners EXCEPT ![o] = ChainIn(fat[1], c)]
  BY <1>5, <1>6, OneOwnerChain
<1>8. PICK n \in 1 .. Cardinality(Store!Fresh) : ChainIn(fat[1], c) \in Store!FreshChains(n)
  BY NewChain
<1>9. \A p \in Owners : p # o => (p \in OwnersSaved' <=> p \in OwnersSaved)
  BY <1>2, <1>4, OwnerMaps
<1>10. OwnersSaved' \in {OwnersSaved \cup {o}, OwnersSaved \ {o}}
  <2>1. CASE o \in OwnersSaved'
    <3>1. OwnersSaved' = OwnersSaved \cup {o}
      BY <1>9, <2>1, OwnerSets
    <3> QED BY <3>1
  <2>2. CASE o \notin OwnersSaved'
    <3>1. OwnersSaved' = OwnersSaved \ {o}
      BY <1>9, <2>2, OwnerSets
    <3> QED BY <3>1
  <2> QED BY <2>1, <2>2
<1>11. OwnersStale' = OwnersStale \ OwnersSaved'
  <2>1. \A p \in Owners : p # o => (p \in OwnersStale' <=> p \in OwnersStale \ OwnersSaved')
    BY <1>9, OwnerMaps
  <2>2. o \in OwnersStale' <=> o \in OwnersStale \ OwnersSaved'
    BY <1>1, OwnerMaps
  <2> QED BY <2>1, <2>2, OwnerSets
<1>12. n \in 1 .. Store!Cardinality(Store!Fresh)
  BY StoreCounts
<1> QED BY <1>0, <1>5, <1>7, <1>8, <1>10, <1>11, <1>12 DEF Store!Create

\* The owner of a chain that was freed forgets it; if its directory entry names no
\* cluster, it is up to date again.
LEMMA ForgetStore ==
  ASSUME TypeOK, Return(0), fat' = fat, disk' = disk, held[call.owner] # 0,
         fat[1][held[call.owner]] = FREE
  PROVE  \/ Store!Save(call.owner)
         \/ UNCHANGED <<ChainsOfOwners, OwnersSaved, OwnersStale>>
<1>0. PICK o \in Owners : o = call.owner
  BY DEF TypeOK, CallType
<1>1. held'[o] = 0 /\ \A p \in Owners : p # o => held'[p] = held[p]
  BY <1>0 DEF Return, TypeOK
<1>2. ~Leads(o) /\ ~ Leads(o)' /\ held[o] # 0
  BY <1>0, <1>1 DEF Leads
<1>3. \A p \in Owners : p # o => (Leads(p)' <=> Leads(p))
  BY <1>1 DEF Leads
<1>4. \A p \in Owners : ChainsOfOwners'[p] = ChainsOfOwners[p]
  BY <1>1, <1>2, <1>3, OwnerMaps
<1>5. ChainsOfOwners' = ChainsOfOwners
  BY <1>4, NoOwnerChain
<1>6. \A p \in Owners : p # o => (p \in OwnersSaved' <=> p \in OwnersSaved)
  BY <1>1, <1>3, OwnerMaps
<1>7. \A p \in Owners : p # o => (p \in OwnersStale' <=> p \in OwnersStale)
  BY <1>6, OwnerMaps
<1>8. o \notin OwnersSaved /\ (o \in OwnersSaved' <=> disk[o] = 0)
  BY <1>1, <1>2, OwnerMaps
<1>9. (o \in OwnersStale <=> disk[o] # 0) /\ (o \in OwnersStale' <=> disk[o] # 0)
  BY <1>8, OwnerMaps
<1>10. CASE disk[o] = 0
  <2>1. OwnersSaved' = OwnersSaved \cup {o}
    BY <1>6, <1>8, <1>10, OwnerSets
  <2>2. OwnersStale' = OwnersStale \ {o}
    BY <1>7, <1>9, <1>10, OwnerSets
  <2> QED BY <1>0, <1>5, <2>1, <2>2 DEF Store!Save
<1>11. CASE disk[o] # 0
  <2>1. OwnersSaved' = OwnersSaved
    BY <1>6, <1>8, <1>11, OwnerSets
  <2>2. OwnersStale' = OwnersStale
    BY <1>7, <1>9, <1>11, OwnerSets
  <2> QED BY <1>5, <2>1, <2>2
<1> QED BY <1>10, <1>11

\* The write of a directory entry.
LEMMA PersistStore ==
  ASSUME TypeOK, Control, Marks, NEW o \in Owners, Persist(o)
  PROVE  Store!Save(o)
<1>1. disk'[o] = held[o] /\ \A p \in Owners : p # o => disk'[p] = disk[p]
  BY DEF Persist, TypeOK
<1>2. fat' = fat /\ held' = held /\ call.op # "free"
  BY DEF Persist, Control, CallControl
<1>3. \A p \in Owners : Leads(p)' <=> Leads(p)
  BY <1>2 DEF Leads
<1>4. \A p \in Owners : ChainsOfOwners'[p] = ChainsOfOwners[p]
  BY <1>2, <1>3, OwnerMaps
<1>5. ChainsOfOwners' = ChainsOfOwners
  BY <1>4, NoOwnerChain
<1>6. held[o] # 0 => Leads(o)
  BY <1>2 DEF Marks, FirstsMarked, Leads
<1>7. o \in OwnersSaved'
  BY <1>1, <1>2, <1>3, <1>6, OwnerMaps
<1>8. \A p \in Owners : p # o => (p \in OwnersSaved' <=> p \in OwnersSaved)
  BY <1>1, <1>2, <1>3, OwnerMaps
<1>9. OwnersSaved' = OwnersSaved \cup {o}
  BY <1>7, <1>8, OwnerSets
<1>10. \A p \in Owners : p # o => (p \in OwnersStale' <=> p \in OwnersStale)
  BY <1>1, <1>8, OwnerMaps
<1>11. o \notin OwnersStale'
  BY <1>7, OwnerMaps
<1>12. OwnersStale' = OwnersStale \ {o}
  BY <1>10, <1>11, OwnerSets
<1> QED BY <1>5, <1>9, <1>12 DEF Store!Save

\* A new run finds the chains whose first clusters had been saved.
LEMMA RebootStore ==
  ASSUME Reboot, ~tainted'
  PROVE  Store!Crash
<1>1. held' = disk /\ disk' = disk /\ fat' = fat /\ DiskSound
  BY DEF Reboot
<1>2. \A o \in Owners : disk[o] # 0 => Leads(o)'
  BY <1>1 DEF DiskSound, Leads
<1>3. \A o \in Owners : o \in OwnersSaved' /\ o \notin OwnersStale'
  BY <1>1, <1>2, OwnerMaps
<1>4. OwnersSaved' = Owners /\ OwnersStale' = {}
  BY <1>3, OwnerSets
<1>5. ASSUME NEW o \in OwnersSaved PROVE ChainsOfOwners'[o] = ChainsOfOwners[o]
  <2>1. o \in Owners /\ disk[o] = held[o]
    BY OwnerSets, OwnerMaps
  <2>2. Leads(o)' <=> Leads(o)
    BY <1>1, <2>1 DEF Leads
  <2> QED BY <1>1, <2>1, <2>2, OwnerMaps
<1>6. ASSUME NEW o \in Owners \ (OwnersSaved \cup OwnersStale)
      PROVE  ChainsOfOwners'[o] = <<>>
  <2>1. disk[o] = 0
    BY OwnerMaps
  <2>2. ~ Leads(o)'
    BY <1>1, <2>1 DEF Leads
  <2> QED BY <2>2, OwnerMaps
<1> QED BY <1>4, <1>5, <1>6 DEF Store!Crash

\* What a step that writes no sector, ends no call and saves nothing leaves alone.
LEMMA QuietStep ==
  ASSUME \/ Scan \/ ScanFails \/ BuildNext \/ Walk \/ AppendLinked \/ Cut \/ UNCHANGED vars
         \/ \E o \in Owners : CallAllocate(o)
         \/ \E o \in Owners, op \in BuildCalls, count \in 1 .. MaxCount :
              CallBuild(o, op, count)
         \/ \E o \in Owners : CallAppend(o)
         \/ \E o \in Owners : CallFree(o)
         \/ \E o \in Owners, c \in Cluster : CallCut(o, c)
  PROVE  UNCHANGED <<fat, held, disk>>
BY DEF vars, Scan, ScanFails, ReturnFalse, BuildNext, Walk, AppendLinked, Cut, CallAllocate,
   CallBuild, CallAppend, CallFree, CallCut

\* The end of free: the first cluster is free already.
LEMMA ReturnFreeStore ==
  ASSUME TypeOK, Control, Ownership, Positions, Free \/ Freed, ReturnFree,
         fat' = fat, disk' = disk
  PROVE  Store!Next \/ UNCHANGED <<ChainsOfOwners, OwnersSaved, OwnersStale>>
<1>1. call.op \in {"free", "cut"} /\ call.owner \in Owners
  BY DEF Free, Freed, Control, CallControl, TypeOK, CallType
<1>2. CASE call.op = "cut"
  <2>1. held' = held
    BY <1>1, <1>2 DEF ReturnFree, Return, TypeOK
  <2> QED BY <2>1, StillStore
<1>3. CASE call.op = "free"
  <2>1. Return(0) /\ held[call.owner] # 0 /\ held[call.owner] \in Cluster
    BY <1>1, <1>3 DEF ReturnFree, Ownership, TypeOK
  <2>2. fat[1][held[call.owner]] = FREE
    <3>1. CASE fat[1][held[call.owner]] = FREE
      BY <3>1
    <3>2. CASE call.curr = held[call.owner] /\ pc = "free"
      <4>1. Free /\ IsValidCluster(call.curr) /\ pc' = "idle"
        BY <2>1, <3>2, ClusterIsValid DEF Freed, ReturnFree, Return, EndCall
      <4>2. NextOf(call.curr) = 0
        BY <4>1 DEF Free, SetNext
      <4> QED BY <2>1, <3>2, <4>2, TableNumbers DEF NextOf, NextIn
    <3> QED BY <1>3, <3>1, <3>2 DEF Positions, FreeAt, Free, Freed, Writing
  <2>3. Store!Save(call.owner) \/ UNCHANGED <<ChainsOfOwners, OwnersSaved, OwnersStale>>
    BY <2>1, <2>2, ForgetStore
  <2> QED BY <1>1, <2>3 DEF Store!Next
<1> QED BY <1>1, <1>2, <1>3

LEMMA StoreStep ==
  ASSUME TypeOK, TypeOK', Control, Naming, Marks, Ownership, Positions,
         faults = 0, faults' = 0, ~tainted', [Next]_vars
  PROVE  Store!Next \/ UNCHANGED <<ChainsOfOwners, OwnersSaved, OwnersStale>>
<1>1. CASE WriteFat
  BY <1>1, WriteStore
<1>2. ~WriteFatFails /\ ~WalkReadFails /\ ~FreeReadFails /\ ~DataWriteFails
  BY SMT DEF TypeOK, Fault, WriteFatFails, WalkReadFails, FreeReadFails, DataWriteFails
<1>3. ASSUME UNCHANGED <<fat, held, disk>>
      PROVE  UNCHANGED <<ChainsOfOwners, OwnersSaved, OwnersStale>>
  BY <1>3, StillStore
<1>4. CASE Marked
  <2>1. fat' = fat /\ disk' = disk /\ call.owner \in Owners
    BY <1>4 DEF Marked, TypeOK, CallType
  <2>2. CASE held' = held
    BY <1>3, <2>1, <2>2
  <2>3. CASE call.op = "allocate" /\ Return(call.new)
    <3>1. /\ call.new \in Cluster /\ Unnamed(call.new) /\ fat[1][call.new] # FREE
      <4>1. pc = "marked" /\ Marking
        BY <1>4 DEF Marked, Marking
      <4>2. Unnamed(call.new) /\ call.new \in hint .. TotalClusters
        BY <4>1 DEF Naming, AllocNames, Control, CallControl
      <4>3. call.new \in Cluster
        BY <4>2, Numbers, SMT DEF TypeOK, Cluster
      <4> QED BY <4>1, <4>2, <4>3 DEF Marks, NewMarked
    <3>2. held[call.owner] = 0
      BY <2>3 DEF Ownership
    <3>3. Store!Create(call.owner)
      BY <2>1, <2>3, <3>1, <3>2, CreateStore DEF Naming
    <3> QED BY <2>1, <3>3 DEF Store!Next
  <2> QED BY <1>4, <2>2, <2>3 DEF Marked, Allocated
<1>5. CASE BuildLinked
  BY <1>3, <1>5 DEF BuildLinked, ReturnFalse
<1>6. CASE BuildEnded
  <2>1. fat' = fat /\ disk' = disk /\ call.owner \in Owners /\ call.op \in BuildCalls
    BY <1>6 DEF BuildEnded, TypeOK, CallType
  <2>2. CASE ReturnFalse
    BY <1>3, <2>1, <2>2 DEF ReturnFalse
  <2>3. CASE Return(call.first)
    <3>1. held[call.owner] = 0
      BY <2>1 DEF Ownership
    <3>2. CASE call.first = 0
      <4>1. held' = held
        BY <2>1, <2>3, <3>1, <3>2 DEF Return, TypeOK
      <4> QED BY <1>3, <2>1, <4>1
    <3>3. CASE call.first # 0
      <4>1. call.first \in Cluster /\ Unnamed(call.first) /\ fat[1][call.first] # FREE
        BY <2>1, <3>3, BuiltChain DEF Marks, BuiltMarked
      <4>2. Store!Create(call.owner)
        BY <2>1, <2>3, <3>1, <4>1, CreateStore DEF Naming
      <4> QED BY <2>1, <4>2 DEF Store!Next
    <3> QED BY <3>2, <3>3
  <2> QED BY <1>6, <2>2, <2>3 DEF BuildEnded
<1>7. CASE AppendEnded
  <2>1. held' = held /\ fat' = fat /\ disk' = disk
    BY <1>7 DEF AppendEnded, Return, TypeOK, CallType
  <2> QED BY <1>3, <2>1
<1>8. CASE Free
  <2>1. fat' = fat /\ disk' = disk
    BY <1>8 DEF Free
  <2>2. CASE ReturnFree
    BY <1>8, <2>1, <2>2, ReturnFreeStore
  <2>3. CASE held' = held
    BY <1>3, <2>1, <2>3
  <2> QED BY <1>8, <2>2, <2>3 DEF Free
<1>9. CASE Freed
  <2>1. fat' = fat /\ disk' = disk
    BY <1>9 DEF Freed
  <2>2. CASE ReturnFree
    BY <1>9, <2>1, <2>2, ReturnFreeStore
  <2>3. CASE held' = held
    BY <1>3, <2>1, <2>3
  <2> QED BY <1>9, <2>2, <2>3 DEF Freed
<1>10. ASSUME NEW o \in Owners, Persist(o)
       PROVE  Store!Next
  BY <1>10, PersistStore DEF Store!Next
<1>11. CASE Restart \/ Crash
  BY <1>11, RebootStore DEF Restart, Crash, Store!Next
<1> QED
  BY NextCases, QuietStep, <1>1, <1>2, <1>3, <1>4, <1>5, <1>6, <1>7, <1>8, <1>9, <1>10,
     <1>11

LEMMA StoreInit == Init => Store!Init
<1> SUFFICES ASSUME Init PROVE Store!Init
  OBVIOUS
<1>1. /\ fat[1] = [c \in FatIndex |->
                     IF c = 0 THEN MediaEntry ELSE IF c <= 2 THEN EndOfChain ELSE FREE]
      /\ \A o \in Owners : held[o] = (IF o = Root THEN 2 ELSE 0) /\ disk[o] = held[o]
  BY CopyOne DEF Init
<1>2. 2 \in Cluster /\ 2 \in FatIndex
  BY Numbers, SMT DEF Cluster, FatIndex
<1>3. fat[1][2] = EndOfChain /\ EndOfChain # FREE /\ EndOfChain \notin Cluster
  BY <1>1, <1>2, TableNumbers
<1>4. IsTable(fat[1])
  BY InitTypes, TableOne
<1>5. ChainIn(fat[1], 2) = <<2>>
  BY <1>2, <1>3, <1>4, LoneChain
<1>6. \A o \in Owners : Leads(o) <=> o = Root
  BY <1>1, <1>3 DEF Leads
<1>7. ChainsOfOwners = [o \in Owners |-> IF o = Root THEN <<2>> ELSE <<>>]
  BY <1>1, <1>5, <1>6 DEF ChainsOfOwners, ChainFrom
<1>8. OwnersSaved = Owners
  BY <1>1, <1>6 DEF OwnersSaved
<1>9. OwnersStale = {}
  BY <1>8 DEF OwnersStale
<1> QED BY <1>7, <1>8, <1>9 DEF Store!Init

\* As long as no sector access fails, a caller of the allocator cannot tell its
\* micro-steps from the indivisible operations of ChainStore: whatever is allocated,
\* extended, cut and freed in whatever order, on a volume of any size with any number of
\* FAT copies, and wherever the machine stops.
THEOREM ClusterImplementsStore == Spec => ImplementsChainStore
<1>1. Init => Store!Init
  BY StoreInit
<1>2. ChainInv /\ ChainInv' /\ [Next]_vars =>
        [faults' > 0 \/ tainted' \/ Store!Next]_<<ChainsOfOwners, OwnersSaved, OwnersStale>>
  <2> SUFFICES ASSUME ChainInv, ChainInv', [Next]_vars, ~ (faults' > 0), ~tainted'
               PROVE  Store!Next \/ UNCHANGED <<ChainsOfOwners, OwnersSaved, OwnersStale>>
    OBVIOUS
  <2>1. TypeOK /\ Control /\ Ownership /\ TypeOK'
    BY DEF ChainInv, RecoveryInv, Inductive
  <2>2. faults' = 0
    BY <2>1, SMT DEF TypeOK
  <2>3. faults = 0 /\ ~tainted
    BY <2>1, <2>2, CountsGrow, TaintStays
  <2>4. Naming /\ Marks /\ Positions
    BY <2>3 DEF ChainInv, RecoveryInv, Inductive
  <2> QED BY <2>1, <2>2, <2>3, <2>4, StoreStep
<1> QED BY <1>1, <1>2, ChainInvHolds, PTL DEF Spec, ImplementsChainStore

-----------------------------------------------------------------------------
(* No cluster is lost.  First what free and cut hand on.                   *)

LEMMA HandedElsewhere ==
  ASSUME ~Writing("freed")', ~Writing("cut")', pc' \notin {"freed", "cut"}
  PROVE  Handed'
BY DEF Handed

LEMMA WriteHanded ==
  ASSUME TypeOK, TypeOK', Control, Mirrored, WriteFat
  PROVE  Handed'
<1>1. /\ call'.curr = call.curr /\ pc = "write"
      /\ \/ pc' = write.then
         \/ pc' = "write" /\ write'.copy > 1
      /\ write.then # "write"
  BY WriteLeaves
<1>2. (Writing("freed") \/ Writing("cut"))' => write'.copy # 1
  BY <1>1, SMT DEF Writing
<1>3. pc' = "freed" => call'.ok
  BY <1>1 DEF WriteFat, TypeOK, CallType
<1>4. ASSUME pc' = "cut" PROVE fat'[1][call.curr] = EndOfChain
  <2>1. write.then = "cut" /\ write.cluster = call.curr /\ write.value = EndOfChain
        /\ write.copy \in Nat /\ write.copy >= 1
    BY <1>1, <1>4, Numbers DEF Control, WriteControl, Copies
  <2>2. CASE write.copy = 1
    <3>1. Changed(fat[1], fat'[1], write.cluster, write.value)
      BY <2>2, OneChanged
    <3>2. write.cluster \in FatIndex
      BY <1>1, Numbers DEF Control, WriteControl
    <3> QED BY <2>1, <3>1, <3>2 DEF Changed
  <2>3. CASE write.copy # 1
    <3>1. write.copy > 1
      BY <2>1, <2>3, SMT
    <3>2. fat'[1] = fat[1]
      BY <2>3, CopyOneWrite
    <3> QED BY <1>1, <2>1, <3>1, <3>2 DEF Mirrored
  <2> QED BY <2>2, <2>3
<1> QED BY <1>1, <1>2, <1>3, <1>4 DEF Handed

LEMMA HandedStep ==
  ASSUME TypeOK, TypeOK', Control, Mirrored, Ownership, Handed, faults = 0, faults' = 0,
         [Next]_vars
  PROVE  Handed'
<1>1. CASE WriteFat
  BY <1>1, WriteHanded
<1>2. ~WriteFatFails /\ ~WalkReadFails /\ ~FreeReadFails /\ ~DataWriteFails /\ ~Fault
  BY SMT DEF TypeOK, Fault, WriteFatFails, WalkReadFails, FreeReadFails, DataWriteFails
<1>3. ASSUME EndCall PROVE Handed'
  BY <1>3, HandedElsewhere DEF EndCall, Writing
<1>4. ASSUME NEW c, NEW value, NEW then, NEW frame, SetNext(c, value, then, frame),
             then \notin {"freed", "cut", "write"}
      PROVE  Handed'
  BY <1>4, HandedElsewhere DEF SetNext, Writing
<1>5. ASSUME pc' \in {"scan", "next", "walk", "free"}
      PROVE  Handed'
  BY <1>5, HandedElsewhere DEF Writing
<1>6. CASE Scan
  BY <1>4, <1>6 DEF Scan
<1>7. CASE ScanFails \/ BuildEnded \/ AppendEnded \/ Restart \/ Crash
  BY <1>3, <1>7 DEF ScanFails, BuildEnded, AppendEnded, Restart, Crash, Reboot, Return,
     ReturnFalse
<1>8. CASE Marked
  BY <1>3, <1>4, <1>5, <1>8 DEF Marked, Allocated, Return
<1>9. CASE BuildNext
  BY <1>4, <1>5, <1>9 DEF BuildNext
<1>10. CASE BuildLinked
  BY <1>3, <1>5, <1>10 DEF BuildLinked, ReturnFalse
<1>11. CASE Walk
  BY <1>5, <1>11 DEF Walk
<1>12. CASE AppendLinked
  BY <1>4, <1>12 DEF AppendLinked
<1>13. CASE Free
  <2>1. CASE ReturnFree
    BY <1>3, <2>1 DEF ReturnFree, Return
  <2>2. CASE /\ IsValidCluster(call.curr)
             /\ SetNext(call.curr, FREE, "freed", [call EXCEPT !.next = NextOf(call.curr)])
    <3>1. /\ pc' = "write" /\ write'.then = "freed"
          /\ call' = [call EXCEPT !.next = NextOf(call.curr)] /\ fat' = fat
      BY <1>13, <2>2 DEF SetNext, Free
    <3>2. call'.next = NextOf(call.curr) /\ call'.curr = call.curr
      BY <3>1 DEF TypeOK, CallType
    <3>3. NextOf(call.curr) = fat[1][call.curr]
      <4>1. call.curr \in Cluster
        BY <2>2, ValidIsCluster DEF TypeOK, CallType
      <4> QED BY <4>1, Numbers DEF NextOf, NextIn
    <3> QED BY <3>1, <3>2, <3>3 DEF Handed
  <2> QED BY <1>13, <2>1, <2>2 DEF Free
<1>14. CASE Freed
  BY <1>3, <1>5, <1>14 DEF Freed, ReturnFree, Return
<1>15. CASE Cut
  BY <1>3, <1>5, <1>15 DEF Cut
<1>16. ASSUME NEW o \in Owners,
              CallAllocate(o) \/ CallAppend(o) \/ CallFree(o)
              \/ \E op \in BuildCalls, count \in 1 .. MaxCount : CallBuild(o, op, count)
       PROVE  Handed'
  BY <1>5, <1>16 DEF CallAllocate, CallAppend, CallFree, CallBuild
<1>17. ASSUME NEW o \in Owners, NEW c \in Cluster, CallCut(o, c)
       PROVE  Handed'
  <2>1. CutAfter(o, c, NextOf(c)) /\ fat' = fat
    BY <1>2, <1>17 DEF CallCut
  <2>2. /\ pc' = "write"
        /\ call' = [NoCall EXCEPT !.op = "cut", !.owner = o, !.curr = c, !.next = NextOf(c)]
    BY <2>1, ClusterIsValid DEF CutAfter, SetNext
  <2>3. call'.curr = c /\ call'.next = NextOf(c)
    BY <2>2 DEF NoCall
  <2>4. NextOf(c) = fat[1][c]
    BY Numbers DEF NextOf, NextIn
  <2> QED BY <2>1, <2>2, <2>3, <2>4 DEF Handed
<1>18. ASSUME NEW o \in Owners, Persist(o)
       PROVE  Handed'
  BY <1>18 DEF Persist, Handed, Writing
<1>19. CASE UNCHANGED vars
  BY <1>19 DEF vars, Handed, Writing
<1> QED
  BY NextCases, <1>1, <1>2, <1>6, <1>7, <1>8, <1>9, <1>10, <1>11, <1>12, <1>13, <1>14,
     <1>15, <1>16, <1>17, <1>18, <1>19

\* Without a crash or a failure the program never runs on an unsound FAT.
LEMMA UntaintedStep ==
  ASSUME TypeOK, Control, Naming, Marks, Handed, ~tainted, crashes' = 0, [Next]_vars
  PROVE  ~tainted'
<1>1. ~Crash
  BY CountsGrow
<1>2. CASE Cut
  <2>1. pc = "cut" /\ call.curr \in Cluster
    BY <1>2 DEF Cut, Control, CallControl
  <2>2. NextOf(call.curr) = EndOfChain
    BY <2>1, Numbers DEF Handed, NextOf, NextIn
  <2> QED BY <1>2, <2>2 DEF Cut
<1>3. CASE Restart
  <2>1. held = disk /\ call.op = "none"
    BY <1>3 DEF Restart, Control, CallControl
  <2>2. DiskSound
    BY <2>1 DEF DiskSound, Naming, Links, UniqueSuccessors, UniqueFirsts, FirstsUnlinked,
       Marks, LinksMarked, FirstsMarked
  <2> QED BY <1>3, <2>2 DEF Restart, Reboot
<1>4. CASE ~Cut /\ ~Restart
  <2>1. UNCHANGED tainted
    BY NextCases, <1>1, <1>4
    DEF vars, WriteFat, WriteFatFails, Scan, ScanFails, Marked, BuildNext, DataWriteFails,
        BuildLinked, BuildEnded, Walk, WalkReadFails, AppendLinked, AppendEnded, Free,
        FreeReadFails, Freed, CallAllocate, CallBuild, CallAppend, CallFree, CallCut,
        Persist
  <2> QED BY <2>1
<1> QED BY <1>2, <1>3, <1>4

\* A root is where a chain begins.
LEMMA RootFirst ==
  ASSUME TypeOK, Control, Naming, Handed, NEW r, Rooted(r)
  PROVE  First(fat[1], r) /\ r \in Cluster
<1>1. r \in Cluster /\ r # 0 /\ Links
  BY Numbers DEF Rooted, Naming
<1>2. ASSUME NEW o \in Owners, held[o] = r PROVE First(fat[1], r)
  BY <1>1, <1>2, HeldFirst
<1>3. CASE Unlinked(r)
  BY <1>1, <1>3, UnlinkedFirst
<1>4. ASSUME Pending(r) PROVE Unlinked(r)
  <2>1. CASE /\ pc = "marked" \/ (Writing("marked") /\ write.copy > 1)
             /\ r = call.new
    BY <2>1 DEF Naming, AllocNames, Marking, Unnamed
  <2>2. CASE Writing("linked") /\ write.copy = 1 /\ r = call.new
    BY <2>2 DEF Naming, AllocNames, Unnamed
  <2>3. CASE call.op \in BuildCalls /\ r = call.first
    BY <1>1, <2>3 DEF Naming, AllocNames, Unnamed
  <2>4. CASE Writing("cut") /\ write.copy > 1 /\ r = call.next
    <3>1. write.copy # 1
      BY <2>4, SMT
    <3> QED BY <1>1, <2>4, <3>1 DEF Naming, RestNames, Unnamed
  <2>5. CASE pc = "cut" /\ r = call.next
    BY <1>1, <2>5 DEF Naming, RestNames, Unnamed, Handed
  <2>6. CASE (pc = "free" \/ (Writing("freed") /\ write.copy = 1)) /\ r = call.curr
    BY <1>1, <2>6 DEF Naming, FreeNames, OnlyFreeNames
  <2>7. CASE (pc = "freed" \/ (Writing("freed") /\ write.copy > 1)) /\ r = call.next
    <3>1. write.copy > 1 => write.copy # 1
      BY SMT
    <3> QED BY <1>1, <2>7, <3>1 DEF Naming, RestNames, Unnamed, Handed
  <2> QED BY <1>4, <2>1, <2>2, <2>3, <2>4, <2>5, <2>6, <2>7 DEF Pending
<1> QED BY <1>1, <1>2, <1>3, <1>4 DEF Rooted

\* A step that changes no entry and forgets no root.
LEMMA QuietAccounted ==
  ASSUME Accounted, fat'[1] = fat[1],
         \A r \in Cluster : Rooted(r) => Pending(r)' \/ \E o \in Owners : held'[o] = r
  PROVE  Accounted'
<1>1. \A r \in Cluster : Rooted(r) => Rooted(r)'
  BY DEF Rooted
<1>2. \A r, c \in Cluster : On(r, c) => On(r, c)'
  BY DEF On
<1> QED BY <1>1, <1>2 DEF Accounted

\* A write that leaves every chain in use as it was, or longer.
LEMMA WriteAccounted ==
  ASSUME \A c \in Cluster : fat'[1][c] # FREE =>
           \E r \in Cluster : /\ fat'[1][r] # FREE
                              /\ Pending(r)' \/ \E o \in Owners : held'[o] = r
                              /\ c \in OnChainIn(fat'[1], r)
  PROVE  Accounted'
BY DEF Accounted, Rooted, On

\* The mark: the new cluster is its own root.
LEMMA MarkAccounted ==
  ASSUME TypeOK, TypeOK', Control, Naming, Handed, Accounted, WriteFat, write.copy = 1,
         write.then = "marked"
  PROVE  Accounted'
<1>1. /\ call'.op = call.op /\ call'.new = call.new /\ call'.first = call.first
      /\ held' = held /\ pc = "write"
      /\ pc' = "marked" \/ (pc' = "write" /\ write'.then = "marked" /\ write'.copy > 1)
  BY WriteLeaves
<1>2. /\ Unnamed(call.new) /\ call.new \in Cluster
      /\ write.cluster = call.new /\ write.value = EndOfChain
      /\ call.op \in BuildCalls /\ call.first # 0 => call.first < hint
      /\ call.new \in hint .. TotalClusters
  BY DEF WriteFat, Control, WriteControl, CallControl, Marking, Writing, Naming, AllocNames
<1>3. Changed(fat[1], fat'[1], call.new, EndOfChain) /\ call.new \in FatIndex
  BY <1>2, OneChanged, Numbers
<1>4. fat'[1][call.new] = EndOfChain /\ IsTable(fat'[1])
  BY <1>3 DEF Changed
<1>5. call.new \in OnChainIn(fat'[1], call.new)
  BY <1>2, <1>4, LoneChain, TableNumbers
<1>6. PICK n \in Cluster : n = call.new /\ Pending(n)'
  <2>1. PICK n \in Cluster : n = call.new
    BY <1>2
  <2> QED BY <1>1, <2>1 DEF Pending, Writing
<1>7. call.op \in BuildCalls => call.first # call.new
  <2>1. call.new \in Nat /\ hint \in Nat /\ call.new >= hint /\ call.new # 0
    BY <1>2, Numbers, SMT DEF TypeOK
  <2>2. call.op \in BuildCalls /\ call.first = call.new => FALSE
    BY <1>2, <2>1, SMT
  <2> QED BY <2>2
<1>8. ASSUME NEW r \in Cluster, Rooted(r)
      PROVE  /\ fat'[1][r] # FREE
             /\ Pending(r)' \/ \E o \in Owners : held'[o] = r
             /\ OnChainIn(fat'[1], r) = OnChainIn(fat[1], r)
  <2>1. Pending(r) => call.op \in BuildCalls /\ r = call.first
    BY <1>1, SMT DEF Pending, Writing
  <2>2. r # call.new
    BY <1>2, <1>7, <1>8, <2>1 DEF Rooted, Unnamed
  <2>3. fat'[1][r] # FREE
    BY <1>3, <1>8, <2>2, Numbers DEF Changed, Rooted
  <2>4. Pending(r) => Pending(r)'
    BY <1>1, <2>1 DEF Pending
  <2>5. OnChainIn(fat'[1], r) = OnChainIn(fat[1], r)
    BY <1>8, <2>2, RootFirst, MarkLeaves
  <2> QED BY <1>1, <1>8, <2>3, <2>4, <2>5 DEF Rooted
<1>9. ASSUME NEW c \in Cluster, fat'[1][c] # FREE, c # call.new
      PROVE  \E r \in Cluster : Rooted(r) /\ c \in OnChainIn(fat[1], r)
  <2>1. fat[1][c] # FREE
    BY <1>3, <1>9, Numbers DEF Changed
  <2> QED BY <2>1 DEF Accounted, On
<1>10. EndOfChain # FREE
  BY TableNumbers
<1>11. ASSUME NEW c \in Cluster, fat'[1][c] # FREE
       PROVE  \E r \in Cluster : /\ fat'[1][r] # FREE
                                 /\ Pending(r)' \/ \E o \in Owners : held'[o] = r
                                 /\ c \in OnChainIn(fat'[1], r)
  <2>1. CASE c = call.new
    BY <1>4, <1>5, <1>6, <1>10, <2>1
  <2>2. CASE c # call.new
    <3>1. PICK r \in Cluster : Rooted(r) /\ c \in OnChainIn(fat[1], r)
      BY <1>9, <1>11, <2>2
    <3> QED BY <1>8, <3>1
  <2> QED BY <2>1, <2>2
<1> QED BY <1>11, WriteAccounted

\* The link: the new cluster joins the chain that begins with b.
LEMMA JoinAccounted ==
  ASSUME TypeOK, TypeOK', Control, Naming, Ownership, Positions, Handed, Accounted,
         WriteFat, write.copy = 1, write.then = "linked",
         NEW b, First(fat[1], b), b # call.new, On(b, call.curr), fat[1][b] # FREE,
         Pending(b)' \/ \E o \in Owners : held'[o] = b,
         \A r \in Cluster : Pending(r) => r \in {call.new, b}
  PROVE  Accounted'
<1>1. /\ held' = held /\ write.cluster = call.curr /\ write.value = call.new
      /\ call.new \in Cluster /\ call.curr \in Cluster /\ b \in Cluster
      /\ call.curr \in OnChainIn(fat[1], b)
  BY OnChainFacts DEF WriteFat, Control, WriteControl, CallControl, Linking, Writing, First, On
<1>2. Changed(fat[1], fat'[1], call.curr, call.new) /\ IsTable(fat'[1])
  BY <1>1, OneChanged DEF Changed
<1>3. OnChainIn(fat'[1], b) = OnChainIn(fat[1], b) \cup {call.new}
  BY LinkJoins
<1>4. fat[1][call.new] = EndOfChain /\ fat[1][call.curr] = EndOfChain
  BY <1>1, Numbers DEF Positions, Ends, Unlinking, Linking, Writing, Ownership, WriteFat
<1>5. OnChainIn(fat[1], call.new) = {call.new}
  BY <1>1, <1>4, LoneChain, TableOne, TableNumbers, ZenonT(30)
<1>6. fat'[1][b] # FREE
  BY <1>1, <1>2, Numbers DEF Changed
<1>7. ASSUME NEW r \in Cluster, Rooted(r), r # b, r # call.new
      PROVE  /\ fat'[1][r] # FREE /\ \E o \in Owners : held'[o] = r
             /\ OnChainIn(fat'[1], r) = OnChainIn(fat[1], r)
  <2>1. First(fat[1], r)
    BY <1>7, RootFirst
  <2>2. call.curr \notin OnChainIn(fat[1], r)
    BY <1>1, <1>7, <2>1, OnOneChain
  <2>3. \A x \in OnChainIn(fat[1], r) : x \in FatIndex /\ x # call.curr
    BY <2>1, <2>2, OnChainFacts, Numbers
  <2>4. \A x \in OnChainIn(fat[1], r) : fat'[1][x] = fat[1][x]
    BY <1>2, <2>3 DEF Changed
  <2>5. r \in OnChainIn(fat[1], r)
    BY <2>1, OnChainFacts
  <2> QED BY <1>1, <1>2, <1>7, <2>1, <2>4, <2>5, UntouchedChain DEF Rooted
<1>8. ASSUME NEW c \in Cluster, fat'[1][c] # FREE
      PROVE  \E r \in Cluster : /\ fat'[1][r] # FREE
                                /\ Pending(r)' \/ \E o \in Owners : held'[o] = r
                                /\ c \in OnChainIn(fat'[1], r)
  <2>1. fat[1][c] # FREE
    BY <1>2, <1>4, <1>8, TableNumbers DEF Changed
  <2>2. PICK r \in Cluster : Rooted(r) /\ c \in OnChainIn(fat[1], r)
    BY <2>1 DEF Accounted, On
  <2>3. CASE r \in {b, call.new}
    <3>1. c \in OnChainIn(fat'[1], b)
      BY <1>3, <1>5, <2>2, <2>3
    <3> QED BY <1>1, <1>6, <3>1
  <2>4. CASE r \notin {b, call.new}
    BY <1>7, <2>2, <2>4
  <2> QED BY <2>3, <2>4
<1> QED BY <1>8, WriteAccounted

LEMMA LinkAccounted ==
  ASSUME TypeOK, TypeOK', Control, Naming, Marks, Ownership, Positions, Handed, Accounted,
         WriteFat, write.copy = 1, write.then = "linked"
  PROVE  Accounted'
<1>1. /\ call'.op = call.op /\ call'.first = call.first
      /\ held' = held /\ pc = "write"
  BY WriteLeaves
<1>2. /\ Unnamed(call.new) /\ Unlinking /\ call.curr \in Cluster /\ call.curr # 0
      /\ call.op \in BuildCalls \cup {"append"}
      /\ call.op \in BuildCalls => call.new # call.first
  BY Numbers DEF WriteFat, Control, WriteControl, CallControl, Linking, Unlinking, Writing,
     Naming, AllocNames, Ownership
<1>3. \A r : Pending(r) => r = call.new \/ (call.op \in BuildCalls /\ r = call.first)
  BY <1>1 DEF Pending, Writing
<1>4. CASE call.op \in BuildCalls
  <2>1. PICK b : b = call.first
    OBVIOUS
  <2>2. b # 0 /\ On(b, call.curr) /\ b # call.new
    BY <1>2, <1>4, <2>1 DEF Positions, BuildAt
  <2>3. First(fat[1], b)
    BY <1>4, <2>1, <2>2, BuiltChain
  <2>4. fat[1][b] # FREE
    BY <1>4, <2>1, <2>2 DEF Marks, BuiltMarked
  <2>5. Pending(b)'
    BY <1>1, <1>4, <2>1 DEF Pending
  <2>6. \A r \in Cluster : Pending(r) => r \in {call.new, b}
    BY <1>3, <2>1
  <2> QED BY <2>2, <2>3, <2>4, <2>5, <2>6, JoinAccounted
<1>5. CASE call.op = "append"
  <2>1. PICK b : b = held[call.owner]
    OBVIOUS
  <2>2. First(fat[1], b) /\ b # call.new
    BY <1>2, <1>5, <2>1, OwnerChain
  <2>3. On(b, call.curr)
    BY <1>2, <1>5, <2>1 DEF Positions, AppendAt
  <2>4. fat[1][b] # FREE /\ call.owner \in Owners
    BY <1>5, <2>1 DEF Marks, FirstsMarked, Ownership, TypeOK, CallType
  <2>5. \A r \in Cluster : Pending(r) => r \in {call.new, b}
    BY <1>3, <1>5, OpsDiffer
  <2>6. \E o \in Owners : held'[o] = b
    BY <1>1, <2>1, <2>4
  <2> QED BY <2>2, <2>3, <2>4, <2>5, <2>6, JoinAccounted
<1> QED BY <1>2, <1>4, <1>5

\* The free mark: the rest of the chain is the call's to free.
LEMMA FreeAccounted ==
  ASSUME TypeOK, TypeOK', Control, Naming, Marks, Handed, Accounted,
         WriteFat, write.copy = 1, write.then = "freed"
  PROVE  Accounted'
<1>1. /\ call'.op = call.op /\ call'.next = call.next /\ held' = held /\ pc = "write"
      /\ pc' = "freed" \/ (pc' = "write" /\ write'.then = "freed" /\ write'.copy > 1)
  BY WriteLeaves
<1>2. PICK d \in Cluster : d = call.curr /\ d = write.cluster
  BY <1>1 DEF Control, WriteControl
<1>3. OnlyFreeNames(d) /\ NoLinkTo(fat[1], d) /\ call.op \notin BuildCalls
  <2>1. Writing("freed")
    BY <1>1 DEF Writing
  <2>2. call.op \notin BuildCalls
    BY <2>1, OpsDiffer DEF Control, CallControl
  <2> QED BY <1>2, <2>1, <2>2 DEF Naming, FreeNames, OnlyFreeNames, Unlinked, NoLinkTo
<1>4. Changed(fat[1], fat'[1], d, FREE) /\ IsTable(fat'[1])
  <2>1. write.value = FREE
    BY <1>1 DEF Control, WriteControl
  <2> QED BY <1>2, <2>1, OneChanged DEF Changed
<1>5. call.next = fat[1][d]
  BY <1>1, <1>2 DEF Handed, Writing
<1>6. ASSUME NEW r \in Cluster, Rooted(r), r # d
      PROVE  /\ fat'[1][r] # FREE /\ \E o \in Owners : held'[o] = r
             /\ OnChainIn(fat'[1], r) = OnChainIn(fat[1], r)
  <2>1. First(fat[1], r)
    BY <1>6, RootFirst
  <2>2. d \notin OnChainIn(fat[1], r)
    BY <1>3, <1>6, <2>1, NotOnChain
  <2>3. \A x \in OnChainIn(fat[1], r) : x \in FatIndex /\ x # d
    BY <2>1, <2>2, OnChainFacts, Numbers
  <2>4. \A x \in OnChainIn(fat[1], r) : fat'[1][x] = fat[1][x]
    BY <1>4, <2>3 DEF Changed
  <2>5. fat'[1][r] # FREE
    BY <2>1, <2>4, <1>6, OnChainFacts DEF Rooted
  <2>6. ~Pending(r)
    BY <1>1, <1>2, <1>3, <1>6, SMT DEF Pending, Writing
  <2> QED BY <1>1, <1>4, <1>6, <2>1, <2>4, <2>5, <2>6, UntouchedChain DEF Rooted
<1>7. ASSUME NEW c \in Cluster, fat'[1][c] # FREE
      PROVE  \E r \in Cluster : /\ fat'[1][r] # FREE
                                /\ Pending(r)' \/ \E o \in Owners : held'[o] = r
                                /\ c \in OnChainIn(fat'[1], r)
  <2>1. c # d /\ fat[1][c] # FREE
    BY <1>4, <1>7, Numbers DEF Changed
  <2>2. PICK r \in Cluster : Rooted(r) /\ c \in OnChainIn(fat[1], r)
    BY <2>1 DEF Accounted, On
  <2>3. CASE r # d
    BY <1>6, <2>2, <2>3
  <2>4. CASE r = d
    <3>1. First(fat[1], d) /\ d \in OnChainIn(fat[1], d)
      BY <2>2, <2>4, RootFirst, OnChainFacts
    <3>2. OnChainIn(fat'[1], d) = {d}
      BY <1>4, LoneChain, TableNumbers, Numbers DEF Changed
    <3>3. fat[1][d] \in Cluster
      <4> SUFFICES ASSUME fat[1][d] \notin Cluster PROVE FALSE
        OBVIOUS
      <4>1. OnChainIn(fat[1], d) = {d}
        BY LoneChain, TableOne
      <4> QED BY <2>1, <2>2, <2>4, <4>1
    <3>4. PICK e \in Cluster : e = fat[1][d]
      BY <3>3
    <3>5. FREE \in Entry \ Cluster
      BY Numbers
    <3>6. OnChainIn(fat[1], d) \subseteq OnChainIn(fat'[1], d) \cup OnChainIn(fat'[1], e)
      BY <1>4, <3>1, <3>4, <3>5, ChainCut
    <3>7. c \in OnChainIn(fat'[1], e)
      BY <2>1, <2>2, <2>4, <3>2, <3>6
    <3>8. fat'[1][e] # FREE
      <4>1. e # d
        BY <1>3, <3>4 DEF NoLinkTo
      <4>2. fat[1][e] # FREE
        BY <3>4 DEF Marks, LinksMarked
      <4> QED BY <1>4, <4>1, <4>2, Numbers DEF Changed
    <3>9. Pending(e)'
      BY <1>1, <1>5, <3>4 DEF Pending, Writing
    <3> QED BY <3>7, <3>8, <3>9
  <2> QED BY <2>3, <2>4
<1> QED BY <1>7, WriteAccounted

\* The mark of a cut: the rest of the chain is the call's to free.
LEMMA CutAccounted ==
  ASSUME TypeOK, TypeOK', Control, Naming, Marks, Ownership, Positions, Handed, Accounted,
         WriteFat, write.copy = 1, write.then = "cut"
  PROVE  Accounted'
<1>1. /\ call'.op = call.op /\ call'.next = call.next /\ held' = held /\ pc = "write"
      /\ pc' = "cut" \/ (pc' = "write" /\ write'.then = "cut" /\ write'.copy > 1)
  BY WriteLeaves
<1>2. /\ Writing("cut") /\ call.op = "cut" /\ call.op \notin BuildCalls
  BY <1>1 DEF Control, CallControl, Writing, BuildCalls
<1>3. PICK d \in Cluster : d = call.curr /\ d = write.cluster
  BY <1>1, <1>2 DEF Control, WriteControl, CallControl
<1>4. Changed(fat[1], fat'[1], d, EndOfChain) /\ IsTable(fat'[1])
  <2>1. write.value = EndOfChain
    BY <1>1 DEF Control, WriteControl
  <2> QED BY <1>3, <2>1, OneChanged DEF Changed
<1>5. call.next = fat[1][d]
  BY <1>1, <1>3 DEF Handed, Writing
<1>6. PICK b \in Cluster : b = held[call.owner] /\ First(fat[1], b) /\ d \in OnChainIn(fat[1], b)
  BY <1>2, <1>3, OwnerChain DEF Positions, CutAt, On
<1>7. \A r : ~Pending(r)
  BY <1>1, <1>2, SMT DEF Pending, Writing
<1>8. \A c \in FatIndex : fat[1][c] # FREE => fat'[1][c] # FREE
  BY <1>4, TableNumbers DEF Changed
<1>9. ASSUME NEW r \in Cluster, Rooted(r), r # b
      PROVE  OnChainIn(fat'[1], r) = OnChainIn(fat[1], r)
  <2>1. First(fat[1], r)
    BY <1>9, RootFirst
  <2>2. d \notin OnChainIn(fat[1], r)
    BY <1>6, <1>9, <2>1, OnOneChain
  <2>3. \A x \in OnChainIn(fat[1], r) : x \in FatIndex /\ x # d
    BY <2>1, <2>2, OnChainFacts, Numbers
  <2>4. \A x \in OnChainIn(fat[1], r) : fat'[1][x] = fat[1][x]
    BY <1>4, <2>3 DEF Changed
  <2> QED BY <1>4, <2>1, <2>4, UntouchedChain
<1>10. ASSUME NEW c \in Cluster, fat'[1][c] # FREE
       PROVE  \E r \in Cluster : /\ fat'[1][r] # FREE
                                 /\ Pending(r)' \/ \E o \in Owners : held'[o] = r
                                 /\ c \in OnChainIn(fat'[1], r)
  <2>1. fat[1][b] # FREE
    <3>1. call.owner \in Owners /\ held[call.owner] # 0 /\ call.op # "free"
      BY <1>2 DEF Ownership, TypeOK, CallType
    <3> QED BY <1>6, <3>1 DEF Marks, FirstsMarked
  <2>2. fat[1][c] # FREE
    <3>1. fat[1][d] # FREE
      BY <1>6, <2>1, ChainMarked
    <3> QED BY <1>4, <1>10, <3>1, Numbers DEF Changed
  <2>3. PICK r \in Cluster : Rooted(r) /\ c \in OnChainIn(fat[1], r)
    BY <2>2 DEF Accounted, On
  <2>4. (\E o \in Owners : held'[o] = r) /\ fat'[1][r] # FREE
    BY <1>1, <1>7, <1>8, <2>3, Numbers DEF Rooted
  <2>5. CASE r # b
    BY <1>9, <2>3, <2>4, <2>5
  <2>6. CASE r = b
    <3>1. CASE fat[1][d] \notin Cluster
      <4>1. OnChainIn(fat'[1], b) = OnChainIn(fat[1], b)
        BY <1>4, <1>6, <3>1, ChainCut, Numbers
      <4> QED BY <2>3, <2>4, <2>6, <4>1
    <3>2. CASE fat[1][d] \in Cluster
      <4>1. PICK e \in Cluster : e = fat[1][d]
        BY <3>2
      <4>2. OnChainIn(fat[1], b) \subseteq OnChainIn(fat'[1], b) \cup OnChainIn(fat'[1], e)
        BY <1>4, <1>6, <4>1, ChainCut, Numbers
      <4>3. fat'[1][e] # FREE
        <5>1. fat[1][e] # FREE
          BY <4>1 DEF Marks, LinksMarked
        <5> QED BY <1>8, <5>1, Numbers
      <4>4. Pending(e)'
        BY <1>1, <1>5, <4>1 DEF Pending, Writing
      <4> QED BY <2>3, <2>4, <2>6, <4>2, <4>3, <4>4
    <3> QED BY <3>1, <3>2
  <2> QED BY <2>5, <2>6
<1> QED BY <1>10, WriteAccounted

LEMMA WritesAccounted ==
  ASSUME TypeOK, TypeOK', Control, Naming, Marks, Ownership, Positions, Handed, Accounted,
         WriteFat
  PROVE  Accounted'
<1>1. /\ call'.op = call.op /\ call'.new = call.new /\ call'.first = call.first
      /\ call'.next = call.next /\ held' = held /\ pc = "write"
      /\ \/ pc' = write.then
         \/ pc' = "write" /\ write'.then = write.then /\ write'.copy > 1
      /\ write.then \in {"marked", "linked", "ended", "freed", "cut"}
  BY WriteLeaves
<1>2. CASE write.copy # 1
  <2>1. fat'[1] = fat[1]
    BY <1>2, CopyOneWrite
  <2>2. ASSUME NEW r \in Cluster, Pending(r) PROVE Pending(r)'
    BY <1>1, <1>2, <2>2, SMT DEF Pending, Writing
  <2> QED BY <1>1, <2>1, <2>2, QuietAccounted DEF Rooted
<1>3. CASE write.copy = 1 /\ write.then = "ended"
  <2>1. fat'[1] = fat[1]
    BY <1>3, EndMarkLeaves
  <2>2. ASSUME NEW r \in Cluster, Pending(r) PROVE Pending(r)'
    BY <1>1, <1>3, <2>2, SMT DEF Pending, Writing
  <2> QED BY <1>1, <2>1, <2>2, QuietAccounted DEF Rooted
<1> QED
  BY <1>1, <1>2, <1>3, MarkAccounted, LinkAccounted, FreeAccounted, CutAccounted

\* The owner of a call stores another first cluster.
LEMMA StoredRoots ==
  ASSUME TypeOK, NEW c, held' = [held EXCEPT ![call.owner] = c],
         NEW o \in Owners, held[o] # held[call.owner] \/ held[call.owner] = c
  PROVE  \E p \in Owners : held'[p] = held[o]
BY DEF TypeOK, CallType

LEMMA StoredRoot ==
  ASSUME TypeOK, NEW c, held' = [held EXCEPT ![call.owner] = c]
  PROVE  \E p \in Owners : held'[p] = c
BY DEF TypeOK, CallType

\* A call that ends by storing the cluster it answered for.
LEMMA ReturnAccounted ==
  ASSUME TypeOK, Accounted, NEW c, Return(c), fat' = fat, held[call.owner] = 0,
         \A r \in Cluster : Pending(r) => r = c
  PROVE  Accounted'
<1>1. held' = [held EXCEPT ![call.owner] = c]
  BY DEF Return
<1>2. ASSUME NEW r \in Cluster, NEW o \in Owners, held[o] = r
      PROVE  \E p \in Owners : held'[p] = r
  <2>1. held[o] # held[call.owner]
    BY <1>2, Numbers
  <2> QED BY <1>1, <1>2, <2>1, StoredRoots
<1>3. ASSUME NEW r \in Cluster, Pending(r)
      PROVE  \E p \in Owners : held'[p] = r
  BY <1>1, <1>3, StoredRoot
<1> QED BY <1>2, <1>3, QuietAccounted DEF Rooted

\* A call that ends with nothing to answer for.
LEMMA EndAccounted ==
  ASSUME Accounted, fat' = fat, held' = held, \A r \in Cluster : Rooted(r) => ~Pending(r)
  PROVE  Accounted'
BY QuietAccounted DEF Rooted

\* The end of free: all its clusters are free.
LEMMA ReturnFreeAccounted ==
  ASSUME TypeOK, Control, Ownership, Positions, Accounted, Free \/ Freed, ReturnFree,
         fat' = fat, \A r \in Cluster : Rooted(r) => ~Pending(r)
  PROVE  Accounted'
<1>1. call.op \in {"free", "cut"} /\ call.owner \in Owners
  BY DEF Free, Freed, Control, CallControl, TypeOK, CallType
<1>2. CASE call.op = "cut"
  <2>1. held' = held
    BY <1>1, <1>2 DEF ReturnFree, Return, TypeOK
  <2> QED BY <2>1, EndAccounted
<1>3. CASE call.op = "free"
  <2>1. /\ held' = [held EXCEPT ![call.owner] = 0]
        /\ held[call.owner] \in Cluster
    BY <1>1, <1>3 DEF ReturnFree, Return, Ownership, TypeOK
  <2>2. fat[1][held[call.owner]] = FREE
    <3>1. CASE call.curr = held[call.owner] /\ pc = "free"
      <4>1. Free /\ IsValidCluster(call.curr) /\ pc' = "idle"
        BY <2>1, <3>1, ClusterIsValid DEF Freed, ReturnFree, Return, EndCall
      <4>2. NextOf(call.curr) = 0
        BY <4>1 DEF Free, SetNext
      <4> QED BY <2>1, <3>1, <4>2, TableNumbers DEF NextOf, NextIn
    <3> QED BY <1>3, <3>1 DEF Positions, FreeAt, Free, Freed, Writing
  <2>3. ASSUME NEW r \in Cluster, Rooted(r)
        PROVE  \E p \in Owners : held'[p] = r
    <3>1. PICK o \in Owners : held[o] = r
      BY <2>3 DEF Rooted
    <3>2. held[o] # held[call.owner]
      BY <2>2, <2>3, <3>1 DEF Rooted
    <3> QED BY <2>1, <3>1, <3>2, StoredRoots
  <2> QED BY <2>3, QuietAccounted
<1> QED BY <1>1, <1>2, <1>3

\* At rest nothing is pending, and a call that begins leaves every root in place.
LEMMA IdleAccounted ==
  ASSUME Control, Accounted, pc = "idle", fat' = fat, held' = held
  PROVE  Accounted'
<1>1. \A r \in Cluster : Rooted(r) => ~Pending(r)
  BY DEF Pending, Writing, Control, CallControl, BuildCalls
<1> QED BY <1>1, EndAccounted

LEMMA AllocatingAccounted ==
  ASSUME TypeOK, TypeOK', Control, Naming, Ownership, Positions, Accounted, ~leaked',
         Scan \/ ScanFails \/ Marked \/ BuildNext \/ BuildLinked \/ BuildEnded
  PROVE  Accounted'
<1>1. CASE Scan
  <2>1. PICK c \in Cluster :
          SetNext(c, EndOfChain, "marked", [call EXCEPT !.new = c])
    BY <1>1 DEF Scan
  <2>2. /\ call' = [call EXCEPT !.new = c] /\ held' = held /\ fat' = fat /\ pc = "scan"
    BY <1>1, <2>1, ClusterIsValid DEF SetNext, Scan
  <2>3. call'.op = call.op /\ call'.first = call.first
    BY <2>2 DEF TypeOK, CallType
  <2>4. \A r \in Cluster : Pending(r) => Pending(r)'
    BY <2>2, <2>3, OpsDiffer DEF Pending, Writing
  <2> QED BY <2>2, <2>4, QuietAccounted DEF Rooted
<1>2. ASSUME ReturnFalse, fat' = fat, pc \in {"scan", "linked", "ended"}
      PROVE  Accounted'
  <2>1. call.first = 0 /\ held' = held
    BY <1>2 DEF ReturnFalse, TypeOK
  <2>2. \A r \in Cluster : Rooted(r) => ~Pending(r)
    BY <1>2, <2>1, Numbers DEF Pending, Writing
  <2> QED BY <1>2, <2>1, <2>2, EndAccounted
<1>3. CASE ScanFails
  BY <1>2, <1>3 DEF ScanFails
<1>4. CASE Marked
  <2>1. pc = "marked" /\ Unlinking /\ Marking /\ fat' = fat
    BY <1>4 DEF Marked, Unlinking, Marking
  <2>2. \A r \in Cluster : Pending(r) => r = call.new \/ (call.op \in BuildCalls /\ r = call.first)
    BY <2>1 DEF Pending, Writing
  <2>3. CASE call.op = "allocate" /\ Return(call.new)
    <3>1. PICK c : c = call.new
      OBVIOUS
    <3>2. held[call.owner] = 0 /\ Return(c) /\ \A r \in Cluster : Pending(r) => r = c
      BY <2>2, <2>3, <3>1, OpsDiffer DEF Ownership
    <3> QED BY <2>1, <3>2, ReturnAccounted
  <2>4. CASE /\ call.op \in BuildCalls /\ call.curr = 0 /\ pc' = "next"
             /\ call' = [call EXCEPT !.first = call.new] /\ held' = held
    <3>1. call'.op = call.op /\ call'.first = call.new /\ call.first = 0
      BY <2>1, <2>4 DEF TypeOK, CallType, Positions, BuildAt
    <3>2. \A r \in Cluster : Pending(r) => Pending(r)'
      BY <2>2, <2>4, <3>1, Numbers DEF Pending
    <3> QED BY <2>1, <2>4, <3>2, QuietAccounted DEF Rooted
  <2>5. CASE /\ call.op = "append" \/ (call.op \in BuildCalls /\ call.curr # 0)
             /\ SetNext(call.curr, call.new, "linked", call) /\ held' = held
    <3>1. call.curr \in Cluster
      <4>1. CASE call.op = "append"
        BY <2>1, <4>1, OwnerChain, OnChainFacts DEF Positions, AppendAt, On
      <4>2. CASE call.op \in BuildCalls /\ call.curr # 0
        <5>1. call.first # 0 /\ On(call.first, call.curr)
          BY <2>1, <4>2 DEF Positions, BuildAt
        <5> QED BY <4>2, <5>1, BuiltChain, OnChainFacts DEF On
      <4> QED BY <2>5, <4>1, <4>2
    <3>2. pc' = "write" /\ write'.then = "linked" /\ write'.copy = 1 /\ call' = call
      BY <2>5, <3>1, ClusterIsValid DEF SetNext
    <3>3. \A r \in Cluster : Pending(r) => Pending(r)'
      BY <2>2, <3>2 DEF Pending, Writing
    <3> QED BY <2>1, <2>5, <3>3, QuietAccounted DEF Rooted
  <2> QED BY <1>4, <2>3, <2>4, <2>5 DEF Marked, Allocated
<1>5. CASE BuildNext
  <2>1. pc = "next" /\ fat' = fat /\ held' = held
    BY <1>5 DEF BuildNext
  <2>2. \A r \in Cluster : Pending(r) => call.op \in BuildCalls /\ r = call.first
    BY <2>1 DEF Pending, Writing
  <2>3. call'.op = call.op /\ call'.first = call.first
    BY <1>5 DEF BuildNext, SetNext, TypeOK, CallType
  <2>4. \A r \in Cluster : Pending(r) => Pending(r)'
    BY <2>2, <2>3 DEF Pending
  <2> QED BY <2>1, <2>4, QuietAccounted DEF Rooted
<1>6. CASE BuildLinked
  <2>1. CASE ReturnFalse
    BY <1>2, <1>6, <2>1 DEF BuildLinked
  <2>2. CASE pc' = "next" /\ UNCHANGED <<call, write, held, leaked>>
    <3>1. \A r \in Cluster : Pending(r) => Pending(r)'
      BY <1>6, <2>2 DEF BuildLinked, Pending, Writing
    <3> QED BY <1>6, <2>2, <3>1, QuietAccounted DEF BuildLinked, Rooted
  <2> QED BY <1>6, <2>1, <2>2 DEF BuildLinked
<1>7. CASE BuildEnded
  <2>1. pc = "ended" /\ fat' = fat /\ call.op \in BuildCalls
    BY <1>7 DEF BuildEnded
  <2>2. CASE ReturnFalse
    BY <1>2, <2>1, <2>2
  <2>3. CASE Return(call.first)
    <3>1. PICK c : c = call.first
      OBVIOUS
    <3>2. held[call.owner] = 0 /\ Return(c) /\ \A r \in Cluster : Pending(r) => r = c
      BY <2>1, <2>3, <3>1 DEF Ownership, Pending, Writing
    <3> QED BY <2>1, <3>2, ReturnAccounted
  <2> QED BY <1>7, <2>2, <2>3 DEF BuildEnded
<1> QED BY <1>1, <1>3, <1>4, <1>5, <1>6, <1>7

LEMMA FreeingAccounted ==
  ASSUME TypeOK, TypeOK', Control, Naming, Values, Ownership, Positions, Handed, Accounted,
         Free \/ Freed \/ Cut
  PROVE  Accounted'
<1>1. CASE Free
  <2>1. pc = "free" /\ fat' = fat
    BY <1>1 DEF Free
  <2>2. \A r \in Cluster : Pending(r) =>
          r = call.curr \/ (call.op \in BuildCalls /\ r = call.first)
    BY <2>1 DEF Pending, Writing
  <2>3. call.op \notin BuildCalls
    BY <2>1, OpsDiffer DEF Control, CallControl
  <2>4. CASE /\ IsValidCluster(call.curr)
             /\ SetNext(call.curr, FREE, "freed", [call EXCEPT !.next = NextOf(call.curr)])
             /\ held' = held
    <3>1. /\ pc' = "write" /\ write'.then = "freed" /\ write'.copy = 1
          /\ call'.curr = call.curr
      BY <2>4 DEF SetNext, TypeOK, CallType
    <3>2. \A r \in Cluster : Pending(r) => Pending(r)'
      BY <2>2, <2>3, <3>1 DEF Pending, Writing
    <3> QED BY <2>1, <2>4, <3>2, QuietAccounted DEF Rooted
  <2>5. CASE ReturnFree
    <3>1. ~ (IsValidCluster(call.curr) /\ NextOf(call.curr) # 0)
      BY <1>1, <2>5 DEF Free, SetNext, ReturnFree, Return, EndCall
    <3>2. \A r \in Cluster : Rooted(r) => ~Pending(r)
      <4> SUFFICES ASSUME NEW r \in Cluster, Rooted(r), Pending(r) PROVE FALSE
        OBVIOUS
      <4>1. r = call.curr
        BY <2>2, <2>3
      <4>2. NextOf(call.curr) = 0
        BY <3>1, <4>1, ClusterIsValid
      <4> QED BY <4>1, <4>2, TableNumbers DEF NextOf, NextIn, Rooted
    <3> QED BY <1>1, <2>1, <2>5, <3>2, ReturnFreeAccounted
  <2> QED BY <1>1, <2>4, <2>5 DEF Free
<1>2. CASE Freed
  <2>1. pc = "freed" /\ fat' = fat /\ call.ok
    BY <1>2 DEF Freed, Handed
  <2>2. \A r \in Cluster : Pending(r) =>
          r = call.next \/ (call.op \in BuildCalls /\ r = call.first)
    BY <2>1 DEF Pending, Writing
  <2>3. call.op \notin BuildCalls
    BY <2>1, OpsDiffer DEF Control, CallControl
  <2>4. CASE MoreToFree
    <3>1. pc' = "free" /\ call'.curr = call.next /\ held' = held
      BY <1>2, <2>4 DEF Freed, TypeOK, CallType
    <3>2. \A r \in Cluster : Pending(r) => Pending(r)'
      BY <2>2, <2>3, <3>1 DEF Pending
    <3> QED BY <2>1, <3>1, <3>2, QuietAccounted DEF Rooted
  <2>5. CASE ~MoreToFree
    <3>1. call.next \notin Cluster
      <4>1. IsEndOfChain(call.next)
        BY <2>1, <2>5 DEF MoreToFree
      <4>2. \A c \in Cluster : ~IsEndOfChain(c)
        BY TotalClustersAssumption, SMT
        DEF IsEndOfChain, Cluster, MediaEntry, LastValidCluster
      <4> QED BY <4>1, <4>2
    <3>2. \A r \in Cluster : Rooted(r) => ~Pending(r)
      BY <2>2, <2>3, <3>1
    <3> QED BY <1>2, <2>1, <2>5, <3>2, ReturnFreeAccounted DEF Freed
  <2> QED BY <2>4, <2>5
<1>3. CASE Cut
  <2>1. pc = "cut" /\ fat' = fat /\ held' = held
    BY <1>3 DEF Cut
  <2>2. \A r \in Cluster : Pending(r) =>
          r = call.next \/ (call.op \in BuildCalls /\ r = call.first)
    BY <2>1 DEF Pending, Writing
  <2>3. call.op \notin BuildCalls
    BY <2>1 DEF Control, CallControl, BuildCalls
  <2>4. CASE call.next # 0
    <3>1. pc' = "free" /\ call'.curr = call.next
      BY <1>3, <2>4 DEF Cut, TypeOK, CallType
    <3>2. \A r \in Cluster : Pending(r) => Pending(r)'
      BY <2>2, <2>3, <3>1 DEF Pending
    <3> QED BY <2>1, <3>1, <3>2, QuietAccounted DEF Rooted
  <2>5. CASE call.next = 0
    BY <2>1, <2>2, <2>3, <2>5, EndAccounted, Numbers
  <2> QED BY <2>4, <2>5
<1> QED BY <1>1, <1>2, <1>3

LEMMA AccountedStep ==
  ASSUME TypeOK, TypeOK', Control, Naming, Marks, Values, Ownership, Positions, Handed,
         Accounted, faults = 0, faults' = 0, crashes' = 0, ~leaked', [Next]_vars
  PROVE  Accounted'
<1>1. ~WriteFatFails /\ ~WalkReadFails /\ ~FreeReadFails /\ ~DataWriteFails /\ ~Crash
  <2>1. ~Crash
    BY CountsGrow
  <2> QED BY <2>1, SMT
      DEF TypeOK, Fault, WriteFatFails, WalkReadFails, FreeReadFails, DataWriteFails
<1>2. CASE WriteFat
  BY <1>2, WritesAccounted
<1>3. CASE Scan \/ ScanFails \/ Marked \/ BuildNext \/ BuildLinked \/ BuildEnded
  BY <1>3, AllocatingAccounted
<1>4. CASE Free \/ Freed \/ Cut
  BY <1>4, FreeingAccounted
<1>5. CASE Walk \/ AppendLinked \/ AppendEnded
  <2>1. /\ call.op = "append" /\ fat' = fat /\ held' = held
        /\ pc \in {"walk", "linked", "ended"}
    BY <1>5 DEF Walk, AppendLinked, AppendEnded, Return, Control, CallControl, TypeOK, CallType
  <2>2. \A r \in Cluster : Rooted(r) => ~Pending(r)
    BY <2>1, OpsDiffer DEF Pending, Writing
  <2> QED BY <2>1, <2>2, EndAccounted
<1>6. ASSUME NEW o \in Owners,
             \/ CallAllocate(o) \/ CallAppend(o) \/ CallFree(o) \/ Persist(o)
             \/ \E op \in BuildCalls, count \in 1 .. MaxCount : CallBuild(o, op, count)
             \/ \E c \in Cluster : CallCut(o, c)
      PROVE  Accounted'
  BY <1>6, IdleAccounted
  DEF CallAllocate, CallAppend, CallFree, Persist, CallBuild, CallCut
<1>7. CASE Restart
  BY <1>7, IdleAccounted DEF Restart, Reboot
<1>8. CASE UNCHANGED vars
  <2>1. \A r \in Cluster : Pending(r) => Pending(r)'
    BY <1>8 DEF vars, Pending, Writing
  <2> QED BY <1>8, <2>1, QuietAccounted DEF vars, Rooted
<1> QED
  BY NextCases, <1>1, <1>2, <1>3, <1>4, <1>5, <1>6, <1>7, <1>8

\* What is lost stays lost.
LEMMA LeakStays ==
  ASSUME TypeOK, [Next]_vars, leaked
  PROVE  leaked'
BY NextCases
DEF vars, WriteFat, WriteFatFails, Scan, ScanFails, Marked, Allocated, BuildNext,
    DataWriteFails, BuildLinked, BuildEnded, Walk, WalkReadFails, AppendLinked, AppendEnded,
    Free, FreeReadFails, Freed, Cut, CallAllocate, CallBuild, CallAppend, CallFree, CallCut,
    Persist, Restart, Crash, Reboot, Return, ReturnFalse, ReturnFree

LEMMA SpaceInit == Init => SpaceInv
<1> SUFFICES ASSUME Init PROVE SpaceInv
  OBVIOUS
<1>1. Handed
  BY DEF Init, Handed, Writing
<1>2. /\ fat[1] = [c \in FatIndex |->
                     IF c = 0 THEN MediaEntry ELSE IF c <= 2 THEN EndOfChain ELSE FREE]
      /\ held[Root] = 2 /\ Root \in Owners
  BY CopyOne, CallersAssumption DEF Init
<1>3. 2 \in Cluster /\ Cluster \subseteq FatIndex /\ \A c \in Cluster : c # 2 => ~ (c <= 2) /\ c # 0
  BY Numbers, SMT DEF Cluster
<1>4. /\ fat[1][2] = EndOfChain /\ EndOfChain # FREE /\ EndOfChain \notin Cluster
      /\ \A c \in Cluster : c # 2 => fat[1][c] = FREE
  BY <1>2, <1>3, TableNumbers
<1>5. Rooted(2)
  BY <1>2, <1>3, <1>4 DEF Rooted
<1>6. On(2, 2)
  BY <1>3, <1>4, LoneChain, InitTypes, TableOne DEF On
<1>7. Accounted
  BY <1>3, <1>4, <1>5, <1>6 DEF Accounted
<1> QED BY <1>1, <1>7 DEF Init, SpaceInv

LEMMA SpaceStep ==
  ASSUME ChainInv, ChainInv', SpaceInv, [Next]_vars
  PROVE  SpaceInv'
<1> SUFFICES ASSUME faults' = 0, crashes' = 0
             PROVE  ~tainted' /\ Handed' /\ (~leaked' => Accounted')
  BY DEF SpaceInv
<1>1. TypeOK /\ Control /\ Mirrored /\ Values /\ Ownership /\ TypeOK'
  BY DEF ChainInv, RecoveryInv, Inductive
<1>2. faults = 0 /\ crashes = 0
  BY <1>1, CountsGrow
<1>3. ~tainted /\ Handed /\ (~leaked => Accounted)
  BY <1>2 DEF SpaceInv
<1>4. Naming /\ Marks /\ Positions
  BY <1>2, <1>3 DEF ChainInv, RecoveryInv, Inductive
<1>5. ~tainted'
  BY <1>1, <1>3, <1>4, UntaintedStep
<1>6. Handed'
  BY <1>1, <1>2, <1>3, HandedStep
<1>7. ASSUME ~leaked' PROVE Accounted'
  <2>1. ~leaked
    BY <1>1, <1>7, LeakStays
  <2> QED BY <1>1, <1>2, <1>3, <1>4, <1>7, <2>1, AccountedStep
<1> QED BY <1>5, <1>6, <1>7

\* Between calls every cluster in use is on the chain of an owner, and every cluster on
\* such a chain is in use: what was allocated can be found and freed, however many calls
\* of whatever kind were made, until an access fails, the machine stops or an allocation
\* of several clusters runs out of space.
THEOREM SpaceAccountedAlways == Spec => []SpaceAccounted
<1>1. ChainInv /\ SpaceInv => SpaceAccounted
  <2> SUFFICES ASSUME ChainInv, SpaceInv, pc = "idle", faults = 0, crashes = 0, ~leaked,
                      NEW c \in Cluster
               PROVE  fat[1][c] # FREE <=> \E o \in Owners : OnChain(c, ChainFrom(held[o]))
    BY DEF SpaceAccounted
  <2>1. TypeOK /\ Control /\ ~tainted /\ Accounted /\ Handed
    BY DEF ChainInv, RecoveryInv, Inductive, SpaceInv
  <2>2. Naming /\ Marks
    BY <2>1 DEF ChainInv, RecoveryInv, Inductive
  <2>3. ASSUME NEW o \in Owners, held[o] # 0
        PROVE  First(fat[1], held[o]) /\ (OnChain(c, ChainFrom(held[o])) <=> On(held[o], c))
    <3>1. First(fat[1], held[o])
      BY <2>1, <2>2, <2>3, HeldFirst DEF Naming
    <3>2. OnChainIn(fat[1], held[o])
            = {ChainIn(fat[1], held[o])[i] : i \in 1 .. Len(ChainIn(fat[1], held[o]))}
      BY <3>1, OnChainFacts
    <3> QED BY <3>1, <3>2 DEF OnChain, ChainFrom, On
  <2>4. ASSUME fat[1][c] # FREE
        PROVE  \E o \in Owners : OnChain(c, ChainFrom(held[o]))
    <3>1. PICK r \in Cluster : Rooted(r) /\ On(r, c)
      BY <2>1, <2>4 DEF Accounted
    <3>2. ~Pending(r)
      BY <2>1 DEF Pending, Writing, Control, CallControl, BuildCalls
    <3>3. PICK o \in Owners : held[o] = r
      BY <3>1, <3>2 DEF Rooted
    <3> QED BY <2>3, <3>1, <3>3, Numbers
  <2>5. ASSUME NEW o \in Owners, OnChain(c, ChainFrom(held[o]))
        PROVE  fat[1][c] # FREE
    <3>1. held[o] # 0
      <4> SUFFICES ASSUME held[o] = 0 PROVE FALSE
        OBVIOUS
      <4>1. ChainFrom(held[o]) = <<>>
        BY NoChain, Numbers DEF ChainFrom
      <4> QED BY <2>5, <4>1 DEF OnChain
    <3>2. fat[1][held[o]] # FREE
      BY <2>1, <2>2, <3>1 DEF Marks, FirstsMarked, Control, CallControl
    <3> QED BY <2>1, <2>2, <2>3, <2>5, <3>1, <3>2, ChainMarked DEF On
  <2> QED BY <2>4, <2>5
<1> QED BY <1>1, SpaceInit, SpaceStep, ChainInvHolds, PTL DEF Spec
==============================================================================

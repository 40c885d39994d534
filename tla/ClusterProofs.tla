--------------------------- MODULE ClusterProofs ---------------------------
(***************************************************************************)
(* Proofs about ClusterManager, for any number of clusters, FAT copies and *)
(* owners, any of the calls, and any number of faults and crashes.         *)
(***************************************************************************)
EXTENDS ClusterInvariant, TLAPS

\* The only facts about the values of the entries that the proofs use.
LEMMA EntryValues ==
  /\ FREE = 0
  /\ EndOfChain \in Nat /\ MediaEntry \in Nat /\ LastValidCluster \in Nat
  /\ LastValidCluster < EndOfChain /\ LastValidCluster < MediaEntry
BY SMT DEF FREE, EndOfChain, MediaEntry, LastValidCluster

\* The numbers of the clusters are entries; the markers are not clusters.
LEMMA Numbers ==
  /\ TotalClusters \in Nat /\ TotalClusters >= 1
  /\ NumFATs \in Nat /\ NumFATs >= 1 /\ MaxCount \in Nat
  /\ Cluster \subseteq FatIndex /\ FatIndex \subseteq Entry
  /\ FatIndex \subseteq Nat /\ 0 \in FatIndex /\ FREE \in Entry
  /\ EndOfChain \in Entry /\ MediaEntry \in Entry
  /\ EndOfChain \notin Cluster /\ MediaEntry \notin Cluster /\ FREE \notin Cluster
  /\ 0 \notin Cluster
BY EntryValues, TotalClustersAssumption, SizesAssumption DEF Cluster, FatIndex, Entry

\* The steps of Next one by one, for the case splits below.
LEMMA NextCases ==
  ASSUME [Next]_vars
  PROVE  \/ WriteFat \/ WriteFatFails \/ Scan \/ ScanFails \/ Marked
         \/ BuildNext \/ DataWriteFails \/ BuildLinked \/ BuildEnded
         \/ Walk \/ WalkReadFails \/ AppendLinked \/ AppendEnded
         \/ Free \/ FreeReadFails \/ Freed \/ Cut
         \/ \E o \in Owners : CallAllocate(o)
         \/ \E o \in Owners, op \in BuildCalls, count \in 1 .. MaxCount :
              CallBuild(o, op, count)
         \/ \E o \in Owners : CallAppend(o)
         \/ \E o \in Owners : CallFree(o)
         \/ \E o \in Owners, c \in Cluster : CallCut(o, c)
         \/ \E o \in Owners : Persist(o)
         \/ Restart \/ Crash
         \/ UNCHANGED vars
BY DEF Next, CallStep

\* What a valid entry is: the number of a cluster.
LEMMA ValidIsCluster ==
  ASSUME NEW e \in Entry
  PROVE  IsValidCluster(e) <=> e \in Cluster
BY EntryValues, TotalClustersAssumption, SizesAssumption DEF Entry, FatIndex, Cluster, IsValidCluster

LEMMA ClusterIsValid ==
  ASSUME NEW c \in Cluster
  PROVE  IsValidCluster(c) /\ c \in Entry /\ c \in Nat
BY ValidIsCluster, Numbers

LEMMA CopyOne == 1 \in Copies
BY Numbers DEF Copies

LEMMA NextOfType ==
  ASSUME TypeOK, NEW c
  PROVE  NextOf(c) \in Entry
<1>1. 1 \in Copies
  BY Numbers DEF Copies
<1>2. fat[1] \in [FatIndex -> Entry]
  BY <1>1 DEF TypeOK
<1>3. 0 \in Entry
  BY Numbers
<1> QED BY <1>2, <1>3 DEF NextOf, NextIn

LEMMA NoCallType == NoCall \in CallType /\ NoWrite \in WriteType
<1>1. Root \in Owners /\ 0 \in Entry /\ 0 \in 0 .. MaxCount /\ 0 \in 0 .. NumFATs
  BY CallersAssumption, Numbers
<1>2. FREE \in Entry /\ "idle" \in Locations
  BY Numbers DEF Locations
<1> QED BY <1>1, <1>2 DEF NoCall, NoWrite, CallType, WriteType

\* set_next starts with a well-formed write, or does not start.
LEMMA SetNextTypes ==
  ASSUME NEW c \in Entry, NEW value \in Entry, NEW then \in Locations,
         NEW frame \in CallType, SetNext(c, value, then, frame)
  PROVE  pc' \in Locations /\ write' \in WriteType /\ call' \in CallType
<1>1. "write" \in Locations /\ 1 \in 0 .. NumFATs
  BY Numbers DEF Locations
<1>2. CASE IsValidCluster(c)
  <2>1. c \in Cluster
    BY <1>2, ValidIsCluster
  <2>2. pc' = "write" /\ call' = frame
        /\ write' = [cluster |-> c, value |-> value, copy |-> 1, then |-> then]
    BY <1>2 DEF SetNext
  <2> QED BY <1>1, <2>1, <2>2 DEF WriteType
<1>3. CASE ~IsValidCluster(c)
  <2>1. [frame EXCEPT !.ok = FALSE] \in CallType
    BY DEF CallType
  <2>2. pc' = then /\ call' = [frame EXCEPT !.ok = FALSE] /\ write' = NoWrite
    BY <1>3 DEF SetNext
  <2> QED BY <2>1, <2>2, NoCallType
<1> QED BY <1>2, <1>3

-----------------------------------------------------------------------------
(* Type correctness and control.                                           *)

LEMMA InitTypes == Init => TypeOK /\ Control
<1> SUFFICES ASSUME Init PROVE TypeOK /\ Control
  OBVIOUS
<1>1. TypeOK
  <2>1. 2 \in Cluster /\ "idle" \in Locations /\ Root \in Owners
    BY Numbers, CallersAssumption DEF Cluster, Locations
  <2> QED BY <2>1, Numbers, NoCallType DEF Init, TypeOK
<1>2. Control
  BY DEF Init, Control, WriteControl, CallControl, Marking, Linking, Writing, NoCall,
      NoWrite, BuildCalls
<1> QED BY <1>1, <1>2

\* The record updates of the calls stay well typed.
LEMMA ReturnTypes ==
  ASSUME TypeOK, NEW c \in Cluster \cup {0}, Return(c)
  PROVE  /\ pc' \in Locations /\ call' \in CallType /\ write' \in WriteType
         /\ held' \in [Owners -> Cluster \cup {0}] /\ leaked' \in BOOLEAN
<1>1. "idle" \in Locations
  BY DEF Locations
<1> QED BY <1>1, NoCallType DEF Return, EndCall, TypeOK

LEMMA ReturnFalseTypes ==
  ASSUME TypeOK, ReturnFalse
  PROVE  /\ pc' \in Locations /\ call' \in CallType /\ write' \in WriteType
         /\ held' \in [Owners -> Cluster \cup {0}] /\ leaked' \in BOOLEAN
<1>1. "idle" \in Locations
  BY DEF Locations
<1> QED BY <1>1, NoCallType DEF ReturnFalse, EndCall, TypeOK

LEMMA ReturnFreeTypes ==
  ASSUME TypeOK, ReturnFree
  PROVE  /\ pc' \in Locations /\ call' \in CallType /\ write' \in WriteType
         /\ held' \in [Owners -> Cluster \cup {0}] /\ leaked' \in BOOLEAN
<1>1. (IF call.op = "free" THEN 0 ELSE held[call.owner]) \in Cluster \cup {0}
  BY DEF TypeOK, CallType
<1> QED BY <1>1, ReturnTypes DEF ReturnFree

LEMMA WriteSectorType ==
  ASSUME TypeOK, NEW i \in Copies, NEW c \in FatIndex, NEW value \in Entry,
         WriteSector(i, SectorBuffer(c, value))
  PROVE  fat' \in [Copies -> [FatIndex -> Entry]]
<1>1. 1 \in Copies
  BY Numbers DEF Copies
<1>2. fat \in [Copies -> [FatIndex -> Entry]]
  BY DEF TypeOK
<1> DEFINE Sector == {e \in FatIndex : SectorOf(e) = SectorOf(c)}
           New == [d \in FatIndex |-> IF d \in Sector
                     THEN (IF d = c THEN value ELSE fat[1][d]) ELSE fat[i][d]]
<1>3. fat' = [fat EXCEPT ![i] = New]
  BY <1>2 DEF WriteSector, SectorBuffer
<1>4. New \in [FatIndex -> Entry]
  BY <1>1, <1>2
<1> QED BY <1>2, <1>3, <1>4

\* Every step keeps the types; for hint and write it needs Control.
LEMMA TypeStep ==
  ASSUME TypeOK, Control, [Next]_vars
  PROVE  TypeOK'
<1>1. CASE WriteFat
  <2>1. fat' \in [Copies -> [FatIndex -> Entry]]
    <3>1. write.copy \in Copies /\ write.cluster \in FatIndex /\ write.value \in Entry
      BY <1>1, Numbers DEF WriteFat, Control, WriteControl, TypeOK, WriteType
    <3> QED BY <1>1, <3>1, WriteSectorType DEF WriteFat
  <2>2. pc' \in Locations /\ call' \in CallType /\ write' \in WriteType
    <3>1. CASE LastCopy(write.copy)
      <4>1. call' \in CallType
        BY <1>1, <3>1 DEF WriteFat, TypeOK, CallType
      <4>2. pc' \in Locations
        BY <1>1, <3>1 DEF WriteFat, TypeOK, WriteType
      <4> QED BY <1>1, <3>1, <4>1, <4>2, NoCallType DEF WriteFat
    <3>2. CASE ~LastCopy(write.copy)
      <4>1. write.copy + 1 \in 0 .. NumFATs
        BY <1>1, <3>2, Numbers DEF WriteFat, Control, WriteControl, LastCopy, Copies
      <4> QED BY <1>1, <3>2, <4>1 DEF WriteFat, TypeOK, WriteType
    <3> QED BY <3>1, <3>2
  <2> QED BY <1>1, <2>1, <2>2 DEF WriteFat, TypeOK
<1>2. CASE WriteFatFails
  <2>1. call' \in CallType
    BY <1>2 DEF WriteFatFails, TypeOK, CallType
  <2>2. pc' \in Locations
    BY <1>2 DEF WriteFatFails, TypeOK, WriteType
  <2> QED BY <1>2, <2>1, <2>2, NoCallType DEF WriteFatFails, TypeOK, Fault
<1>3. CASE Scan
  <2>1. PICK c \in Cluster :
          SetNext(c, EndOfChain, "marked", [call EXCEPT !.new = c])
    BY <1>3 DEF Scan
  <2>2. [call EXCEPT !.new = c] \in CallType
    BY DEF TypeOK, CallType
  <2>3. c \in Entry /\ EndOfChain \in Entry /\ "marked" \in Locations
    BY Numbers DEF Locations
  <2>4. pc' \in Locations /\ write' \in WriteType /\ call' \in CallType
    BY <2>1, <2>2, <2>3, SetNextTypes
  <2> QED BY <1>3, <2>4 DEF Scan, TypeOK
<1>4. CASE ScanFails
  BY <1>4, ReturnFalseTypes DEF ScanFails, TypeOK, Fault
<1>5. CASE Marked
  <2>1. call.new \in Cluster /\ hint' \in Cluster
    BY <1>5, Numbers DEF Marked, Control, CallControl, Marking, TypeOK, Cluster
  <2>2. /\ pc' \in Locations /\ call' \in CallType /\ write' \in WriteType
        /\ held' \in [Owners -> Cluster \cup {0}] /\ leaked' \in BOOLEAN
    <3>1. CASE Return(call.new)
      BY <3>1, <2>1, ReturnTypes
    <3>2. CASE pc' = "next" /\ call' = [call EXCEPT !.first = call.new]
               /\ UNCHANGED <<held, write, leaked>>
      <4>1. call' \in CallType
        BY <2>1, <3>2 DEF TypeOK, CallType
      <4> QED BY <3>2, <4>1 DEF TypeOK, Locations
    <3>3. CASE SetNext(call.curr, call.new, "linked", call) /\ UNCHANGED <<held, leaked>>
      <4>1. call.curr \in Entry /\ call.new \in Entry /\ "linked" \in Locations
            /\ call \in CallType
        BY <2>1, Numbers DEF TypeOK, CallType, Locations
      <4> QED BY <3>3, <4>1, SetNextTypes DEF TypeOK
    <3> QED BY <1>5, <3>1, <3>2, <3>3 DEF Marked, Allocated
  <2> QED BY <1>5, <2>1, <2>2 DEF Marked, TypeOK
<1>6. CASE BuildNext
  <2>1. CASE call.left > 1
    <3>1. call.left - 1 \in 0 .. MaxCount
      BY <2>1, Numbers DEF TypeOK, CallType
    <3>2. call.new \in Entry
      BY Numbers DEF TypeOK, CallType
    <3>3. call' \in CallType
      BY <1>6, <2>1, <3>1, <3>2 DEF BuildNext, TypeOK, CallType
    <3> QED BY <1>6, <2>1, <3>3 DEF BuildNext, TypeOK, Locations
  <2>2. CASE ~(call.left > 1)
    <3>1. call.new \in Entry /\ EndOfChain \in Entry /\ "ended" \in Locations
          /\ call \in CallType
      BY Numbers DEF TypeOK, CallType, Locations
    <3>2. SetNext(call.new, EndOfChain, "ended", call)
      BY <1>6, <2>2 DEF BuildNext
    <3>3. pc' \in Locations /\ write' \in WriteType /\ call' \in CallType
      BY <3>1, <3>2, SetNextTypes
    <3> QED BY <1>6, <3>3 DEF BuildNext, TypeOK
  <2> QED BY <2>1, <2>2
<1>7. CASE DataWriteFails
  BY <1>7, ReturnFalseTypes DEF DataWriteFails, TypeOK, Fault
<1>8. CASE BuildLinked
  BY <1>8, ReturnFalseTypes DEF BuildLinked, TypeOK, Locations
<1>9. CASE BuildEnded
  <2>1. call.first \in Cluster \cup {0}
    BY DEF TypeOK, CallType
  <2> QED BY <1>9, <2>1, ReturnTypes, ReturnFalseTypes DEF BuildEnded, TypeOK
<1>10. CASE Walk
  <2>1. call' \in CallType
    BY <1>10, NextOfType DEF Walk, TypeOK, CallType
  <2> QED BY <1>10, <2>1 DEF Walk, TypeOK, Locations
<1>11. CASE WalkReadFails
  <2>1. call' \in CallType
    BY <1>11, Numbers DEF WalkReadFails, TypeOK, CallType
  <2> QED BY <1>11, <2>1 DEF WalkReadFails, TypeOK, Fault
<1>12. CASE AppendLinked
  <2>1. call.new \in Entry /\ EndOfChain \in Entry /\ "ended" \in Locations
        /\ call \in CallType
    BY Numbers DEF TypeOK, CallType, Locations
  <2>2. pc' \in Locations /\ write' \in WriteType /\ call' \in CallType
    BY <1>12, <2>1, SetNextTypes DEF AppendLinked
  <2> QED BY <1>12, <2>2 DEF AppendLinked, TypeOK
<1>13. CASE AppendEnded
  <2>1. held[call.owner] \in Cluster \cup {0}
    BY DEF TypeOK, CallType
  <2> QED BY <1>13, <2>1, ReturnTypes DEF AppendEnded, TypeOK
<1>14. CASE Free
  <2>1. CASE ReturnFree
    BY <1>14, <2>1, ReturnFreeTypes DEF Free, TypeOK
  <2>2. CASE SetNext(call.curr, FREE, "freed", [call EXCEPT !.next = NextOf(call.curr)])
             /\ UNCHANGED <<held, leaked>>
    <3>1. [call EXCEPT !.next = NextOf(call.curr)] \in CallType
      BY NextOfType DEF TypeOK, CallType
    <3>2. call.curr \in Entry /\ FREE \in Entry /\ "freed" \in Locations
      BY Numbers DEF TypeOK, CallType, Locations
    <3>3. pc' \in Locations /\ write' \in WriteType /\ call' \in CallType
      BY <2>2, <3>1, <3>2, SetNextTypes
    <3> QED BY <1>14, <2>2, <3>3 DEF Free, TypeOK
  <2> QED BY <1>14, <2>1, <2>2 DEF Free
<1>15. CASE FreeReadFails
  BY <1>15, ReturnFreeTypes DEF FreeReadFails, TypeOK, Fault
<1>16. CASE Freed
  <2>1. CASE ReturnFree
    BY <1>16, <2>1, ReturnFreeTypes DEF Freed, TypeOK
  <2>2. CASE pc' = "free" /\ call' = [call EXCEPT !.curr = call.next]
             /\ UNCHANGED <<held, write, leaked>>
    <3>1. call' \in CallType
      BY <2>2 DEF TypeOK, CallType
    <3> QED BY <1>16, <2>2, <3>1 DEF Freed, TypeOK, Locations
  <2> QED BY <1>16, <2>1, <2>2 DEF Freed
<1>17. CASE Cut
  <2>1. CASE call.next # 0
    <3>1. call' \in CallType
      BY <1>17, <2>1 DEF Cut, TypeOK, CallType
    <3> QED BY <1>17, <2>1, <3>1 DEF Cut, TypeOK, Locations
  <2>2. CASE call.next = 0
    BY <1>17, <2>2, NoCallType DEF Cut, EndCall, TypeOK, Locations
  <2> QED BY <2>1, <2>2
<1>18. ASSUME NEW o \in Owners, CallAllocate(o)
       PROVE  TypeOK'
  <2>1. call' \in CallType
    BY <1>18, NoCallType DEF CallAllocate, CallType, AllCalls
  <2> QED BY <1>18, <2>1 DEF CallAllocate, TypeOK, Locations
<1>19. ASSUME NEW o \in Owners, NEW op \in BuildCalls, NEW count \in 1 .. MaxCount,
              CallBuild(o, op, count)
       PROVE  TypeOK'
  <2>1. count \in 0 .. MaxCount /\ op \in AllCalls
    BY Numbers DEF AllCalls
  <2>2. call' \in CallType
    BY <1>19, <2>1, NoCallType DEF CallBuild, CallType
  <2> QED BY <1>19, <2>2 DEF CallBuild, TypeOK, Locations
<1>20. ASSUME NEW o \in Owners, CallAppend(o)
       PROVE  TypeOK'
  <2>1. held[o] \in Entry
    BY Numbers DEF TypeOK
  <2>2. call' \in CallType
    BY <1>20, <2>1, NoCallType DEF CallAppend, CallType, AllCalls
  <2> QED BY <1>20, <2>2 DEF CallAppend, TypeOK, Locations
<1>21. ASSUME NEW o \in Owners, CallFree(o)
       PROVE  TypeOK'
  <2>1. held[o] \in Entry
    BY Numbers DEF TypeOK
  <2>2. call' \in CallType
    BY <1>21, <2>1, NoCallType DEF CallFree, CallType, AllCalls
  <2> QED BY <1>21, <2>2 DEF CallFree, TypeOK, Locations
<1>22. ASSUME NEW o \in Owners, NEW c \in Cluster, CallCut(o, c)
       PROVE  TypeOK'
  <2>1. PICK rest \in Entry : CutAfter(o, c, rest)
    BY <1>22, NextOfType, Numbers DEF CallCut
  <2>2. c \in Entry /\ EndOfChain \in Entry /\ "cut" \in Locations
    BY Numbers DEF Locations
  <2>3. [NoCall EXCEPT !.op = "cut", !.owner = o, !.curr = c, !.next = rest] \in CallType
    BY <2>2, NoCallType DEF CallType, AllCalls
  <2>4. pc' \in Locations /\ write' \in WriteType /\ call' \in CallType
    BY <2>1, <2>2, <2>3, SetNextTypes DEF CutAfter
  <2>5. faults' \in Nat
    BY <1>22 DEF CallCut, Fault, TypeOK
  <2> QED BY <1>22, <2>4, <2>5 DEF CallCut, TypeOK
<1>23. ASSUME NEW o \in Owners, Persist(o)
       PROVE  TypeOK'
  BY <1>23 DEF Persist, TypeOK
<1>24. ASSUME Reboot, crashes' \in Nat
       PROVE  TypeOK'
  <2>1. 2 \in Cluster /\ "idle" \in Locations
    BY Numbers DEF Cluster, Locations
  <2>2. (tainted \/ ~DiskSound) \in BOOLEAN
    OBVIOUS
  <2> QED BY <1>24, <2>1, <2>2, NoCallType DEF Reboot, EndCall, TypeOK
<1>25. CASE UNCHANGED vars
  BY <1>25 DEF vars, TypeOK
<1>26. CASE Restart
  BY <1>24, <1>26 DEF Restart, TypeOK
<1>27. CASE Crash
  BY <1>24, <1>27 DEF Crash, TypeOK
<1> QED
  BY NextCases, <1>1, <1>2, <1>3, <1>4, <1>5, <1>6, <1>7, <1>8, <1>9, <1>10, <1>11,
     <1>12, <1>13, <1>14, <1>15, <1>16, <1>17, <1>18, <1>19, <1>20, <1>21, <1>22,
     <1>23, <1>25, <1>26, <1>27

\* A call that ends leaves nothing to control.
LEMMA EndControl ==
  ASSUME EndCall
  PROVE  Control'
BY DEF EndCall, NoCall, Control, WriteControl, CallControl, Marking, Linking, Writing,
   BuildCalls

LEMMA OpsDiffer ==
  /\ AllocCalls \cap {"free", "cut"} = {}
  /\ BuildCalls \subseteq AllocCalls /\ "append" \in AllocCalls
  /\ "append" \notin BuildCalls /\ "allocate" \notin BuildCalls
BY DEF AllocCalls, BuildCalls

\* Every step keeps the calls where Control says they can be.
LEMMA ControlStep ==
  ASSUME TypeOK, Control, [Next]_vars
  PROVE  Control'
<1>1. CASE WriteFat
  <2>1. CASE LastCopy(write.copy)
    <3>1. pc' = write.then /\ call' = [call EXCEPT !.ok = TRUE] /\ UNCHANGED hint
      BY <1>1, <2>1 DEF WriteFat
    <3>2. /\ call'.op = call.op /\ call'.new = call.new /\ call'.curr = call.curr
          /\ call'.first = call.first
      BY <3>1 DEF TypeOK, CallType
    <3> QED BY <1>1, <3>1, <3>2, OpsDiffer
        DEF WriteFat, Control, WriteControl, CallControl, Marking, Linking, Writing
  <2>2. CASE ~LastCopy(write.copy)
    <3>1. write.copy + 1 \in Copies
      BY <1>1, <2>2, Numbers DEF WriteFat, Control, WriteControl, LastCopy, Copies
    <3>2. /\ write'.copy = write.copy + 1 /\ write'.then = write.then
          /\ write'.value = write.value /\ write'.cluster = write.cluster
      BY <1>1, <2>2 DEF WriteFat, TypeOK, WriteType
    <3> QED BY <1>1, <2>2, <3>1, <3>2
        DEF WriteFat, Control, WriteControl, CallControl, Marking, Linking, Writing
  <2> QED BY <2>1, <2>2
<1>2. CASE WriteFatFails
  <2>1. /\ call'.op = call.op /\ call'.new = call.new /\ call'.curr = call.curr
        /\ call'.first = call.first
    BY <1>2 DEF WriteFatFails, TypeOK, CallType
  <2> QED BY <1>2, <2>1
      DEF WriteFatFails, Control, WriteControl, CallControl, Marking, Linking, Writing
<1>3. CASE Scan
  <2>1. PICK c \in Cluster : FirstFree(c) /\
          SetNext(c, EndOfChain, "marked", [call EXCEPT !.new = c])
    BY <1>3 DEF Scan
  <2>2. c \in hint .. TotalClusters
    BY <2>1 DEF FirstFree, FreeFrom
  <2>3. IsValidCluster(c)
    BY ValidIsCluster, Numbers
  <2>4. pc' = "write" /\ call' = [call EXCEPT !.new = c] /\ UNCHANGED hint
        /\ write' = [cluster |-> c, value |-> EndOfChain, copy |-> 1, then |-> "marked"]
    BY <1>3, <2>1, <2>3 DEF SetNext, Scan
  <2>5. call'.new = c /\ call'.op = call.op /\ call'.first = call.first
    BY <2>4 DEF TypeOK, CallType
  <2>6. 1 \in Copies
    BY Numbers DEF Copies
  <2> QED BY <1>3, <2>2, <2>4, <2>5, <2>6, OpsDiffer
      DEF Scan, Control, WriteControl, CallControl, Marking, Linking, Writing
<1>4. CASE ScanFails
  BY <1>4, EndControl DEF ScanFails, ReturnFalse
<1>5. CASE Marked
  <2>1. /\ call.new \in Cluster /\ call.new \in hint .. TotalClusters /\ hint' = call.new + 1
        /\ call.op \in AllocCalls /\ hint \in Nat /\ call.new \in Nat
    BY <1>5, Numbers DEF Marked, Control, CallControl, Marking, TypeOK, Cluster
  <2>2. call.first \in Nat /\ call.curr \in Entry /\ call.new < hint'
    <3>1. call.first \in Cluster \cup {0} /\ call.curr \in Entry
      BY DEF TypeOK, CallType
    <3>2. call.first \in Nat
      BY <3>1, ClusterIsValid
    <3>3. call.new < hint'
      BY <2>1
    <3> QED BY <3>1, <3>2, <3>3
  <2>3. call.op \in BuildCalls => call.first < call.new
    BY <1>5, <2>1, <2>2, Numbers DEF Control, CallControl, Cluster
  <2>4. CASE Return(call.new)
    BY <2>4, EndControl DEF Return
  <2>5. CASE call.op \in BuildCalls /\ pc' = "next"
             /\ call' = [call EXCEPT !.first = call.new] /\ UNCHANGED <<held, write, leaked>>
    <3>1. call'.op = call.op /\ call'.first = call.new
      BY <2>5 DEF TypeOK, CallType
    <3> QED BY <2>1, <2>2, <2>5, <3>1, OpsDiffer
        DEF Control, WriteControl, CallControl, Marking, Linking, Writing
  <2>6. CASE SetNext(call.curr, call.new, "linked", call)
    <3>1. CASE IsValidCluster(call.curr)
      <4>1. call.curr \in Cluster
        BY <2>2, <3>1, ValidIsCluster
      <4> QED BY CopyOne, <2>1, <2>2, <2>3, <2>6, <3>1, <4>1, OpsDiffer
          DEF SetNext, Control, WriteControl, CallControl, Marking, Linking, Writing
    <3>2. CASE ~IsValidCluster(call.curr)
      <4>1. call' = [call EXCEPT !.ok = FALSE] /\ pc' = "linked"
        BY <2>6, <3>2 DEF SetNext
      <4>2. /\ call'.op = call.op /\ call'.new = call.new /\ call'.first = call.first
        BY <4>1 DEF TypeOK, CallType
      <4> QED BY <2>1, <2>2, <2>3, <4>1, <4>2, OpsDiffer
          DEF Control, WriteControl, CallControl, Marking, Linking, Writing
    <3> QED BY <3>1, <3>2
  <2> QED BY <1>5, <2>4, <2>5, <2>6 DEF Marked, Allocated
<1>6. CASE BuildNext
  <2>1. call.op \in BuildCalls /\ UNCHANGED hint
    BY <1>6 DEF BuildNext, Control, CallControl
  <2>2. CASE call.left > 1
    <3>1. /\ pc' = "scan" /\ call'.op = call.op /\ call'.first = call.first
      BY <1>6, <2>2 DEF BuildNext, TypeOK, CallType
    <3> QED BY <2>1, <3>1, OpsDiffer
        DEF Control, WriteControl, CallControl, Marking, Linking, Writing
  <2>3. CASE SetNext(call.new, EndOfChain, "ended", call)
    <3>1. CASE IsValidCluster(call.new)
      <4>1. call.new \in Cluster /\ 1 \in Copies
        BY <3>1, ValidIsCluster, Numbers DEF Copies, TypeOK, CallType
      <4> QED BY <2>1, <2>3, <3>1, <4>1, OpsDiffer
          DEF SetNext, Control, WriteControl, CallControl, Marking, Linking, Writing
    <3>2. CASE ~IsValidCluster(call.new)
      <4>1. pc' = "ended" /\ call'.op = call.op /\ call'.first = call.first
        BY <2>3, <3>2 DEF SetNext, TypeOK, CallType
      <4> QED BY <2>1, <4>1, OpsDiffer
          DEF Control, WriteControl, CallControl, Marking, Linking, Writing
    <3> QED BY <3>1, <3>2
  <2> QED BY <1>6, <2>2, <2>3 DEF BuildNext
<1>7. CASE DataWriteFails
  BY <1>7, EndControl DEF DataWriteFails, ReturnFalse
<1>8. CASE BuildLinked
  <2>1. CASE ReturnFalse
    BY <2>1, EndControl DEF ReturnFalse
  <2>2. CASE pc' = "next" /\ UNCHANGED call
    BY <1>8, <2>2
    DEF BuildLinked, Control, WriteControl, CallControl, Marking, Linking, Writing
  <2> QED BY <1>8, <2>1, <2>2 DEF BuildLinked
<1>9. CASE BuildEnded
  BY <1>9, EndControl DEF BuildEnded, Return, ReturnFalse
<1>10. CASE Walk
  <2>1. call'.op = call.op
    BY <1>10 DEF Walk, TypeOK, CallType
  <2>2. call.op = "append"
    BY <1>10 DEF Walk, Control, CallControl
  <2> QED BY <1>10, <2>1, <2>2, OpsDiffer
      DEF Walk, Control, WriteControl, CallControl, Marking, Linking, Writing
<1>11. CASE WalkReadFails
  <2>1. call'.op = call.op
    BY <1>11 DEF WalkReadFails, TypeOK, CallType
  <2>2. call.op = "append"
    BY <1>11 DEF WalkReadFails, Control, CallControl
  <2> QED BY <1>11, <2>1, <2>2, OpsDiffer
      DEF WalkReadFails, Control, WriteControl, CallControl, Marking, Linking, Writing
<1>12. CASE AppendLinked
  <2>1. call.op = "append" /\ call.new \in Cluster /\ UNCHANGED hint
    BY <1>12 DEF AppendLinked, Control, CallControl, Linking
  <2>2. IsValidCluster(call.new)
    BY <2>1, ClusterIsValid
  <2> QED BY CopyOne, <1>12, <2>1, <2>2, OpsDiffer
      DEF AppendLinked, SetNext, Control, WriteControl, CallControl, Marking, Linking,
          Writing
<1>13. CASE AppendEnded
  BY <1>13, EndControl DEF AppendEnded, Return
<1>14. CASE Free
  <2>1. CASE ReturnFree
    BY <2>1, EndControl DEF ReturnFree, Return
  <2>2. CASE IsValidCluster(call.curr)
             /\ SetNext(call.curr, FREE, "freed", [call EXCEPT !.next = NextOf(call.curr)])
    <3>1. call.curr \in Cluster /\ 1 \in Copies
      BY <2>2, ValidIsCluster, Numbers DEF Copies, TypeOK, CallType
    <3>2. call.op \in {"free", "cut"} /\ UNCHANGED hint
      BY <1>14 DEF Free, Control, CallControl
    <3>3. pc' = "write" /\ call'.op = call.op /\ call'.curr = call.curr
          /\ write' = [cluster |-> call.curr, value |-> FREE, copy |-> 1, then |-> "freed"]
      BY <2>2 DEF SetNext, TypeOK, CallType
    <3> QED BY <3>1, <3>2, <3>3, OpsDiffer
        DEF Control, WriteControl, CallControl, Marking, Linking, Writing
  <2> QED BY <1>14, <2>1, <2>2 DEF Free
<1>15. CASE FreeReadFails
  BY <1>15, EndControl DEF FreeReadFails, ReturnFree, Return
<1>16. CASE Freed
  <2>1. CASE ReturnFree
    BY <2>1, EndControl DEF ReturnFree, Return
  <2>2. CASE pc' = "free" /\ call' = [call EXCEPT !.curr = call.next]
    <3>1. call'.op = call.op
      BY <2>2 DEF TypeOK, CallType
    <3>2. call.op \in {"free", "cut"}
      BY <1>16 DEF Freed, Control, CallControl
    <3> QED BY <2>2, <3>1, <3>2, OpsDiffer
        DEF Control, WriteControl, CallControl, Marking, Linking, Writing
  <2> QED BY <1>16, <2>1, <2>2 DEF Freed
<1>17. CASE Cut
  <2>1. CASE EndCall
    BY <2>1, EndControl
  <2>2. CASE pc' = "free" /\ call' = [call EXCEPT !.curr = call.next]
    <3>1. call'.op = call.op
      BY <2>2 DEF TypeOK, CallType
    <3>2. call.op = "cut"
      BY <1>17 DEF Cut, Control, CallControl
    <3> QED BY <2>2, <3>1, <3>2, OpsDiffer
        DEF Control, WriteControl, CallControl, Marking, Linking, Writing
  <2> QED BY <1>17, <2>1, <2>2 DEF Cut
<1>18. ASSUME NEW o \in Owners, CallAllocate(o)
       PROVE  Control'
  <2>1. pc' = "scan" /\ call'.op = "allocate"
    BY <1>18 DEF CallAllocate, NoCall
  <2> QED BY <2>1, OpsDiffer
      DEF AllocCalls, Control, WriteControl, CallControl, Marking, Linking, Writing
<1>19. ASSUME NEW o \in Owners, NEW op \in BuildCalls, NEW count \in 1 .. MaxCount,
              CallBuild(o, op, count)
       PROVE  Control'
  <2>1. pc' = "scan" /\ call'.op = op /\ call'.first = 0
    BY <1>19 DEF CallBuild, NoCall
  <2> QED BY <2>1, OpsDiffer
      DEF AllocCalls, Control, WriteControl, CallControl, Marking, Linking, Writing
<1>20. ASSUME NEW o \in Owners, CallAppend(o)
       PROVE  Control'
  <2>1. pc' = "walk" /\ call'.op = "append"
    BY <1>20 DEF CallAppend, NoCall
  <2> QED BY <2>1, OpsDiffer
      DEF Control, WriteControl, CallControl, Marking, Linking, Writing
<1>21. ASSUME NEW o \in Owners, CallFree(o)
       PROVE  Control'
  <2>1. pc' = "free" /\ call'.op = "free"
    BY <1>21 DEF CallFree, NoCall
  <2> QED BY <2>1, OpsDiffer
      DEF Control, WriteControl, CallControl, Marking, Linking, Writing
<1>22. ASSUME NEW o \in Owners, NEW c \in Cluster, CallCut(o, c)
       PROVE  Control'
  <2>1. PICK rest \in Entry : CutAfter(o, c, rest)
    BY <1>22, NextOfType, Numbers DEF CallCut
  <2>2. IsValidCluster(c) /\ 1 \in Copies
    BY ValidIsCluster, Numbers DEF Copies
  <2>3. /\ pc' = "write" /\ call'.op = "cut" /\ call'.curr = c
        /\ write' = [cluster |-> c, value |-> EndOfChain, copy |-> 1, then |-> "cut"]
    BY <2>1, <2>2 DEF CutAfter, SetNext, NoCall
  <2> QED BY <2>2, <2>3, OpsDiffer
      DEF Control, WriteControl, CallControl, Marking, Linking, Writing
<1>23. ASSUME NEW o \in Owners, Persist(o)
       PROVE  Control'
  BY <1>23 DEF Persist, Control, WriteControl, CallControl, Marking, Linking, Writing
<1>24. CASE Restart
  BY <1>24, EndControl DEF Restart, Reboot
<1>25. CASE Crash
  BY <1>25, EndControl DEF Crash, Reboot
<1>26. CASE UNCHANGED vars
  BY <1>26 DEF vars, Control, WriteControl, CallControl, Marking, Linking, Writing
<1> QED
  BY NextCases, <1>1, <1>2, <1>3, <1>4, <1>5, <1>6, <1>7, <1>8, <1>9, <1>10, <1>11,
     <1>12, <1>13, <1>14, <1>15, <1>16, <1>17, <1>18, <1>19, <1>20, <1>21, <1>22,
     <1>23, <1>24, <1>25, <1>26

\* The types of all the state, whatever the sizes and the failures: no call
\* indexes the table out of range or leaves a number in a variable that no
\* caller can use.
THEOREM TypeCorrect == Spec => []TypeOK
<1>1. Init => TypeOK /\ Control
  BY InitTypes
<1>2. TypeOK /\ Control /\ [Next]_vars => (TypeOK /\ Control)'
  BY TypeStep, ControlStep
<1> QED BY <1>1, <1>2, PTL DEF Spec

-----------------------------------------------------------------------------
(* The links.  First the three ways a step changes them.                   *)

\* What a write does to the copy the code reads.
LEMMA CopyOneWrite ==
  ASSUME TypeOK, Control, WriteFat
  PROVE  fat'[1] = IF write.copy = 1 THEN [fat[1] EXCEPT ![write.cluster] = write.value]
                                     ELSE fat[1]
<1>1. write.copy \in Copies /\ write.cluster \in FatIndex
  BY Numbers DEF WriteFat, Control, WriteControl
<1>2. fat \in [Copies -> [FatIndex -> Entry]] /\ fat[1] \in [FatIndex -> Entry]
  BY CopyOne DEF TypeOK
<1> DEFINE c == write.cluster
           Sector == {e \in FatIndex : SectorOf(e) = SectorOf(c)}
           New == [d \in FatIndex |-> IF d \in Sector
                     THEN (IF d = c THEN write.value ELSE fat[1][d])
                     ELSE fat[write.copy][d]]
<1>3. fat' = [fat EXCEPT ![write.copy] = New]
  BY <1>2 DEF WriteFat, WriteSector, SectorBuffer
<1>4. CASE write.copy = 1
  <2>1. New = [fat[1] EXCEPT ![c] = write.value]
    BY <1>1, <1>2, <1>4
  <2> QED BY <1>1, <1>2, <1>3, <1>4, <2>1
<1>5. CASE write.copy # 1
  BY <1>2, <1>3, <1>5, CopyOne
<1> QED BY <1>4, <1>5

\* A write of a value that is no cluster only removes a link.
LEMMA RemoveLink ==
  ASSUME TypeOK, NEW c \in Cluster, NEW v, v \notin Cluster,
         fat'[1] = [fat[1] EXCEPT ![c] = v], held' = held
  PROVE  /\ UniqueSuccessors => UniqueSuccessors'
         /\ UniqueFirsts => UniqueFirsts'
         /\ FirstsUnlinked => FirstsUnlinked'
         /\ \A d \in Cluster : Unlinked(d) => Unlinked(d)'
         /\ \A d \in Cluster : Unnamed(d) => Unnamed(d)'
<1>1. fat[1] \in [FatIndex -> Entry] /\ Cluster \subseteq FatIndex
  BY CopyOne, Numbers DEF TypeOK
<1>2. \A d \in Cluster : fat'[1][d] = IF d = c THEN v ELSE fat[1][d]
  BY <1>1
<1>3. \A d \in Cluster : Unlinked(d) => Unlinked(d)'
  BY <1>2 DEF Unlinked
<1>4. FirstsUnlinked => FirstsUnlinked'
  BY <1>2 DEF FirstsUnlinked, TypeOK
<1> QED BY <1>2, <1>3, <1>4 DEF UniqueSuccessors, UniqueFirsts, Unnamed

\* A write of the number of an unnamed cluster adds the only link to it.
LEMMA AddLink ==
  ASSUME TypeOK, NEW c \in Cluster, NEW v \in Cluster, Unnamed(v),
         fat'[1] = [fat[1] EXCEPT ![c] = v], held' = held
  PROVE  /\ UniqueSuccessors => UniqueSuccessors'
         /\ UniqueFirsts => UniqueFirsts'
         /\ FirstsUnlinked => FirstsUnlinked'
         /\ \A d \in Cluster \ {v} : Unlinked(d) => Unlinked(d)'
         /\ \A d \in Cluster \ {v} : Unnamed(d) => Unnamed(d)'
<1>1. fat[1] \in [FatIndex -> Entry] /\ Cluster \subseteq FatIndex
  BY CopyOne, Numbers DEF TypeOK
<1>2. \A d \in Cluster : fat'[1][d] = IF d = c THEN v ELSE fat[1][d]
  BY <1>1
<1>3. \A d \in Cluster \ {v} : Unlinked(d) => Unlinked(d)'
  BY <1>2 DEF Unlinked
<1>4. FirstsUnlinked => FirstsUnlinked'
  BY <1>2 DEF FirstsUnlinked, Unnamed
<1>5. UniqueSuccessors => UniqueSuccessors'
  BY <1>2 DEF UniqueSuccessors, Unnamed, Unlinked
<1> QED BY <1>3, <1>4, <1>5 DEF UniqueFirsts, Unnamed

\* A step that writes no FAT entry and stores no first cluster keeps the links,
\* if it does not lower the hint nor drop the excuse of a running free.
LEMMA KeepLinks ==
  ASSUME TypeOK, Links, fat'[1] = fat[1], held' = held,
         hint' \in Nat, hint' >= hint,
         call.op = "free" => call'.op = "free" /\ call'.owner = call.owner
  PROVE  /\ Links'
         /\ \A d : Unnamed(d) => Unnamed(d)'
         /\ \A d : OnlyFreeNames(d) => OnlyFreeNames(d)'
<1>1. \A d : OnlyFreeNames(d) => OnlyFreeNames(d)'
  BY DEF OnlyFreeNames, Unlinked
<1>2. \A d : Unnamed(d) => Unnamed(d)'
  BY DEF Unnamed, Unlinked
<1>3. hint \in Nat
  BY Numbers DEF TypeOK
<1>4. \A d \in hint' .. TotalClusters : d \in hint .. TotalClusters
  BY <1>3, Numbers
<1>5. FreeUnnamed'
  BY <1>1, <1>4 DEF Links, FreeUnnamed
<1> QED
  BY <1>1, <1>2, <1>5 DEF Links, UniqueSuccessors, UniqueFirsts, FirstsUnlinked

\* Between calls only the links matter.
LEMMA IdleNaming ==
  ASSUME EndCall, Links'
  PROVE  Naming'
BY DEF EndCall, NoCall, Naming, AllocNames, RestNames, FreeNames, Marking, Writing,
   BuildCalls

\* The owner stores the first cluster of a chain that nobody else names.
LEMMA ReturnNaming ==
  ASSUME TypeOK, Links, NEW c \in Cluster \cup {0}, Return(c),
         fat' = fat, hint' \in Nat, hint' >= hint,
         c # 0 => Unnamed(c) /\ c < hint',
         call.op # "free"
  PROVE  Naming'
<1>1. held' = [held EXCEPT ![call.owner] = c] /\ EndCall
  BY DEF Return
<1>2. held \in [Owners -> Cluster \cup {0}] /\ call.owner \in Owners
  BY DEF TypeOK, CallType
<1>3. \A o \in Owners : held'[o] = IF o = call.owner THEN c ELSE held[o]
  BY <1>1, <1>2
<1>4. UniqueFirsts'
  BY <1>3 DEF Links, UniqueFirsts, Unnamed
<1>5. FirstsUnlinked'
  BY <1>3 DEF Links, FirstsUnlinked, Unnamed, Unlinked
<1>6. hint \in Nat /\ \A d \in hint' .. TotalClusters : d \in hint .. TotalClusters /\ d # c
  BY Numbers, ClusterIsValid DEF TypeOK
<1>7. FreeUnnamed'
  BY <1>1, <1>3, <1>6, Numbers
  DEF Links, FreeUnnamed, OnlyFreeNames, Unlinked, EndCall, NoCall
<1> QED BY <1>1, <1>4, <1>5, <1>7, IdleNaming DEF Links, UniqueSuccessors

\* A call that is not a free ends without storing anything new.
LEMMA PlainEndNaming ==
  ASSUME TypeOK, Links, EndCall, fat' = fat, held' = held, hint' = hint,
         call.op # "free"
  PROVE  Naming'
<1>1. hint \in Nat
  BY Numbers DEF TypeOK
<1> QED BY <1>1, KeepLinks, IdleNaming

\* A free forgets the first cluster, a cut keeps it.
LEMMA ReturnFreeNaming ==
  ASSUME TypeOK, Links, ReturnFree, fat' = fat, hint' = hint
  PROVE  Naming'
<1>1. held \in [Owners -> Cluster \cup {0}] /\ call.owner \in Owners
  BY DEF TypeOK, CallType
<1>2. EndCall
  BY DEF ReturnFree, Return
<1>3. CASE call.op = "free"
  <2>1. \A o \in Owners : held'[o] = IF o = call.owner THEN 0 ELSE held[o]
    BY <1>1, <1>3 DEF ReturnFree, Return
  <2>2. UniqueSuccessors' /\ UniqueFirsts' /\ FirstsUnlinked'
    BY <2>1 DEF Links, UniqueSuccessors, UniqueFirsts, FirstsUnlinked
  <2>3. \A d \in hint .. TotalClusters : d # 0
    BY Numbers DEF TypeOK, Cluster
  <2>4. FreeUnnamed'
    BY <2>1, <2>3 DEF Links, FreeUnnamed, OnlyFreeNames, Unlinked
  <2> QED BY <1>2, <2>2, <2>4, IdleNaming DEF Links
<1>4. CASE call.op # "free"
  <2>1. held' = held
    BY <1>1, <1>4 DEF ReturnFree, Return
  <2> QED BY <1>2, <1>4, <2>1, PlainEndNaming
<1> QED BY <1>3, <1>4

\* What a reboot checks is what the links need, with the hint back at 2.
LEMMA RebootNaming ==
  ASSUME TypeOK, Reboot, ~tainted'
  PROVE  Naming'
<1>1. DiskSound /\ held' = disk /\ fat' = fat /\ EndCall
  BY DEF Reboot
<1>2. UniqueSuccessors' /\ UniqueFirsts' /\ FirstsUnlinked'
  BY <1>1 DEF DiskSound, UniqueSuccessors, UniqueFirsts, FirstsUnlinked
<1>3. hint' = 2 /\ 2 .. TotalClusters \subseteq Cluster
  BY Numbers DEF Reboot, Cluster
<1>4. FreeUnnamed'
  <2> SUFFICES ASSUME NEW c \in 2 .. TotalClusters, fat[1][c] = FREE
               PROVE  OnlyFreeNames(c)'
    BY <1>1, <1>3 DEF FreeUnnamed
  <2>1. c \in Cluster /\ c # 0
    BY <1>3, Numbers
  <2>2. \A d \in Cluster : fat[1][d] # c
    BY <1>1, <2>1 DEF DiskSound
  <2>3. \A o \in Owners : disk[o] # c
    BY <1>1, <2>1 DEF DiskSound
  <2> QED BY <1>1, <2>2, <2>3 DEF OnlyFreeNames, Unlinked
<1> QED BY <1>1, <1>2, <1>4, IdleNaming DEF Links

-----------------------------------------------------------------------------
(* The writes, one per meaning.                                            *)

LEMMA MarkNaming ==
  ASSUME TypeOK, Control, Naming, Control', WriteFat, write.then \in {"marked", "ended"}
  PROVE  Naming'
<1>0. pc = "write" /\ UNCHANGED <<hint, held>> /\ hint \in Nat
  BY Numbers DEF WriteFat, TypeOK
<1>1. write.cluster \in Cluster /\ write.value \notin Cluster /\ write.copy \in Copies
  BY <1>0, Numbers DEF Control, WriteControl
<1>2. /\ call'.op = call.op /\ call'.owner = call.owner /\ call'.new = call.new
      /\ call'.first = call.first /\ write.then \in {"marked", "ended"}
      /\ pc' = "write" => write'.then = write.then
      /\ pc' \in {"write", write.then}
  BY DEF WriteFat, TypeOK, CallType, WriteType
<1>3. Links' /\ \A d \in Cluster : Unnamed(d) => Unnamed(d)'
  <2>1. CASE write.copy = 1
    <3>1. fat'[1] = [fat[1] EXCEPT ![write.cluster] = write.value]
      BY <2>1, CopyOneWrite
    <3>2. /\ UniqueSuccessors' /\ UniqueFirsts' /\ FirstsUnlinked'
          /\ \A d \in Cluster : Unlinked(d) => Unlinked(d)'
          /\ \A d \in Cluster : Unnamed(d) => Unnamed(d)'
      BY <1>0, <1>1, <3>1, RemoveLink DEF Naming, Links
    <3>3. FreeUnnamed'
      <4> SUFFICES ASSUME NEW c \in hint .. TotalClusters, fat'[1][c] = FREE
                   PROVE  OnlyFreeNames(c)'
        BY <1>0 DEF FreeUnnamed
      <4>1. c \in Cluster
        BY Numbers DEF TypeOK, Cluster
      <4>2. fat[1] \in [FatIndex -> Entry] /\ c \in FatIndex
        BY <4>1, CopyOne, Numbers DEF TypeOK
      <4>3. write.value # FREE
        BY <1>0, <1>2, Numbers, EntryValues DEF Control, WriteControl
      <4>4. fat[1][c] = FREE
        BY <3>1, <4>2, <4>3
      <4>5. OnlyFreeNames(c)
        BY <4>4 DEF Naming, Links, FreeUnnamed
      <4> QED BY <1>0, <1>2, <3>2, <4>1, <4>5 DEF OnlyFreeNames
    <3> QED BY <3>2, <3>3 DEF Links
  <2>2. CASE write.copy # 1
    <3>1. fat'[1] = fat[1]
      BY <2>2, CopyOneWrite
    <3> QED BY <1>0, <1>2, <3>1, KeepLinks DEF Naming
  <2> QED BY <2>1, <2>2
<1>4. AllocNames'
  <2>1. Marking' => Unnamed(call.new)'
    <3>1. Marking' => Marking /\ call.new \in Cluster
      BY <1>0, <1>2, Numbers DEF Marking, Writing, Control, CallControl, TypeOK, Cluster
    <3> QED BY <1>2, <1>3, <3>1 DEF Naming, AllocNames, Unnamed, Unlinked
  <2>2. call'.op \in BuildCalls /\ call'.first # 0 => Unnamed(call.first)'
    BY <1>2, <1>3 DEF Naming, AllocNames, TypeOK, CallType
  <2>3. ~Writing("linked")'
    BY <1>2 DEF Writing
  <2> QED BY <1>2, <2>1, <2>2, <2>3 DEF AllocNames, Unnamed, Unlinked
<1>5. RestNames' /\ FreeNames'
  BY <1>2 DEF RestNames, FreeNames, Writing
<1> QED BY <1>3, <1>4, <1>5 DEF Naming

LEMMA LinkNaming ==
  ASSUME TypeOK, Control, Naming, WriteFat, write.then = "linked"
  PROVE  Naming'
<1>0. pc = "write" /\ UNCHANGED <<hint, held>> /\ hint \in Nat
  BY Numbers DEF WriteFat, TypeOK
<1>1. /\ write.cluster \in Cluster /\ write.copy \in Copies
      /\ write.value = call.new /\ call.new \in Cluster /\ call.new < hint
      /\ call.op \in BuildCalls => call.new # call.first
  BY <1>0, EntryValues DEF Control, WriteControl, CallControl, Linking, Writing
<1>2. /\ call'.op = call.op /\ call'.owner = call.owner /\ call'.new = call.new
      /\ call'.first = call.first
      /\ pc' = "write" => write'.then = "linked" /\ write'.copy # 1
      /\ pc' \in {"write", "linked"}
  BY <1>1, Numbers DEF WriteFat, TypeOK, CallType, WriteType, Copies
<1>3. Links' /\ \A d \in Cluster \ {call.new} : Unnamed(d) => Unnamed(d)'
  <2>1. CASE write.copy = 1
    <3>1. fat'[1] = [fat[1] EXCEPT ![write.cluster] = call.new]
      BY <1>1, <2>1, CopyOneWrite
    <3>2. Unnamed(call.new)
      BY <1>0, <2>1 DEF Naming, AllocNames, Writing
    <3>3. /\ UniqueSuccessors' /\ UniqueFirsts' /\ FirstsUnlinked'
          /\ \A d \in Cluster \ {call.new} : Unlinked(d) => Unlinked(d)'
          /\ \A d \in Cluster \ {call.new} : Unnamed(d) => Unnamed(d)'
      BY <1>0, <1>1, <3>1, <3>2, AddLink DEF Naming, Links
    <3>4. FreeUnnamed'
      <4> SUFFICES ASSUME NEW c \in hint .. TotalClusters, fat'[1][c] = FREE
                   PROVE  OnlyFreeNames(c)'
        BY <1>0 DEF FreeUnnamed
      <4>1. c \in Cluster
        BY Numbers DEF TypeOK, Cluster
      <4>2. fat[1] \in [FatIndex -> Entry] /\ c \in FatIndex
        BY <4>1, CopyOne, Numbers DEF TypeOK
      <4>3. call.new # FREE
        BY <1>1, Numbers
      <4>4. fat[1][c] = FREE
        BY <3>1, <4>2, <4>3
      <4>5. OnlyFreeNames(c) /\ c # call.new
        BY <1>1, <4>4, <1>0, Numbers DEF Naming, Links, FreeUnnamed
      <4> QED BY <1>0, <1>2, <3>3, <4>1, <4>5 DEF OnlyFreeNames
    <3> QED BY <3>3, <3>4 DEF Links
  <2>2. CASE write.copy # 1
    <3>1. fat'[1] = fat[1]
      BY <2>2, CopyOneWrite
    <3> QED BY <1>0, <1>2, <3>1, KeepLinks DEF Naming
  <2> QED BY <2>1, <2>2
<1>4. AllocNames'
  <2>1. ~Marking'
    BY <1>2 DEF Marking, Writing
  <2>2. ~(Writing("linked")' /\ write'.copy = 1)
    BY <1>2 DEF Writing
  <2>3. call'.op \in BuildCalls /\ call'.first # 0 => Unnamed(call.first)'
    BY <1>1, <1>2, <1>3 DEF Naming, AllocNames, TypeOK, CallType
  <2> QED BY <2>1, <2>2, <2>3 DEF AllocNames, Unnamed, Unlinked
<1>5. RestNames' /\ FreeNames'
  BY <1>2 DEF RestNames, FreeNames, Writing
<1> QED BY <1>3, <1>4, <1>5 DEF Naming

\* When the first copy loses the link from c to its successor n, nothing names n.
LEMMA RestUnnamed ==
  ASSUME TypeOK, Links, NEW c \in Cluster, NEW v, v \notin Cluster,
         fat'[1] = [fat[1] EXCEPT ![c] = v], held' = held,
         NEW n \in Cluster, fat[1][c] = n
  PROVE  Unnamed(n)'
<1>1. fat[1] \in [FatIndex -> Entry] /\ Cluster \subseteq FatIndex
  BY CopyOne, Numbers DEF TypeOK
<1>2. \A d \in Cluster : d # c => fat[1][d] # n
  BY DEF Links, UniqueSuccessors
<1>3. \A d \in Cluster : fat'[1][d] # n
  BY <1>1, <1>2
<1>4. \A o \in Owners : held[o] # n
  BY Numbers DEF Links, FirstsUnlinked
<1> QED BY <1>3, <1>4 DEF Unnamed, Unlinked

LEMMA FreedNaming ==
  ASSUME TypeOK, Control, Naming, WriteFat, write.then = "freed"
  PROVE  Naming'
<1>0. pc = "write" /\ UNCHANGED <<hint, held>> /\ hint \in Nat
  BY Numbers DEF WriteFat, TypeOK
<1>1. /\ write.cluster = call.curr /\ call.curr \in Cluster /\ write.copy \in Copies
      /\ write.value = FREE /\ write.value \notin Cluster /\ call.op \in {"free", "cut"}
  BY <1>0, Numbers DEF Control, WriteControl, CallControl, Writing
<1>2. /\ call'.op = call.op /\ call'.owner = call.owner /\ call'.next = call.next
      /\ call'.curr = call.curr
      /\ pc' = "write" => write'.then = "freed" /\ write'.copy # 1
      /\ pc' \in {"write", "freed"}
  BY <1>1, Numbers DEF WriteFat, TypeOK, CallType, WriteType, Copies
<1>3. OnlyFreeNames(call.curr)
  BY <1>0, <1>1 DEF Naming, FreeNames, Writing
<1>4. /\ Links' /\ \A d \in Cluster : OnlyFreeNames(d) => OnlyFreeNames(d)'
      /\ \A n \in Cluster : call.next = n => Unnamed(n)'
  <2>1. CASE write.copy = 1
    <3>1. fat'[1] = [fat[1] EXCEPT ![call.curr] = FREE]
      BY <1>1, <2>1, CopyOneWrite
    <3>2. /\ UniqueSuccessors' /\ UniqueFirsts' /\ FirstsUnlinked'
          /\ \A d \in Cluster : Unlinked(d) => Unlinked(d)'
      BY <1>0, <1>1, <3>1, RemoveLink DEF Naming, Links
    <3>3. \A d \in Cluster : OnlyFreeNames(d) => OnlyFreeNames(d)'
      BY <1>0, <1>2, <3>2 DEF OnlyFreeNames
    <3>4. FreeUnnamed'
      <4> SUFFICES ASSUME NEW c \in hint .. TotalClusters, fat'[1][c] = FREE
                   PROVE  OnlyFreeNames(c)'
        BY <1>0 DEF FreeUnnamed
      <4>1. c \in Cluster
        BY Numbers DEF TypeOK, Cluster
      <4>2. fat[1] \in [FatIndex -> Entry] /\ c \in FatIndex
        BY <4>1, CopyOne, Numbers DEF TypeOK
      <4>3. c = call.curr \/ fat[1][c] = FREE
        BY <3>1, <4>2
      <4>4. OnlyFreeNames(c)
        BY <1>3, <4>3 DEF Naming, Links, FreeUnnamed
      <4> QED BY <3>3, <4>1, <4>4
    <3>5. ASSUME NEW n \in Cluster, call.next = n
          PROVE  Unnamed(n)'
      <4>1. fat[1][call.curr] = n
        BY <1>0, <2>1, <3>5 DEF Naming, RestNames, Writing
      <4> QED BY <1>0, <1>1, <3>1, <4>1, RestUnnamed DEF Naming
    <3> QED BY <3>2, <3>3, <3>4, <3>5 DEF Links
  <2>2. CASE write.copy # 1
    <3>1. fat'[1] = fat[1]
      BY <2>2, CopyOneWrite
    <3>2. Links' /\ (\A d : Unnamed(d) => Unnamed(d)')
          /\ \A d : OnlyFreeNames(d) => OnlyFreeNames(d)'
      BY <1>0, <1>2, <3>1, KeepLinks DEF Naming
    <3>3. \A n \in Cluster : call.next = n => Unnamed(n)
      BY <1>0, <2>2 DEF Naming, RestNames, Writing
    <3> QED BY <3>2, <3>3
  <2> QED BY <2>1, <2>2
<1>5. AllocNames'
  BY <1>1, <1>2, OpsDiffer DEF AllocNames, Marking, Writing
<1>6. RestNames'
  BY <1>2, <1>4 DEF RestNames, Writing, Unnamed, Unlinked
<1>7. FreeNames'
  BY <1>1, <1>2, <1>3, <1>4 DEF FreeNames, Writing, OnlyFreeNames, Unlinked
<1> QED BY <1>4, <1>5, <1>6, <1>7 DEF Naming

LEMMA CutNaming ==
  ASSUME TypeOK, Control, Naming, WriteFat, write.then = "cut"
  PROVE  Naming'
<1>0. pc = "write" /\ UNCHANGED <<hint, held>> /\ hint \in Nat
  BY Numbers DEF WriteFat, TypeOK
<1>1. /\ write.cluster = call.curr /\ call.curr \in Cluster /\ write.copy \in Copies
      /\ write.value = EndOfChain /\ write.value \notin Cluster /\ call.op = "cut"
  BY <1>0, Numbers DEF Control, WriteControl, CallControl, Writing
<1>2. /\ call'.op = call.op /\ call'.owner = call.owner /\ call'.next = call.next
      /\ call'.curr = call.curr
      /\ pc' = "write" => write'.then = "cut" /\ write'.copy # 1
      /\ pc' \in {"write", "cut"}
  BY <1>1, Numbers DEF WriteFat, TypeOK, CallType, WriteType, Copies
<1>3. Links' /\ \A n \in Cluster : call.next = n => Unnamed(n)'
  <2>1. CASE write.copy = 1
    <3>1. fat'[1] = [fat[1] EXCEPT ![call.curr] = EndOfChain]
      BY <1>1, <2>1, CopyOneWrite
    <3>2. /\ UniqueSuccessors' /\ UniqueFirsts' /\ FirstsUnlinked'
          /\ \A d \in Cluster : Unlinked(d) => Unlinked(d)'
      BY <1>0, <1>1, <3>1, RemoveLink DEF Naming, Links
    <3>3. FreeUnnamed'
      <4> SUFFICES ASSUME NEW c \in hint .. TotalClusters, fat'[1][c] = FREE
                   PROVE  OnlyFreeNames(c)'
        BY <1>0 DEF FreeUnnamed
      <4>1. c \in Cluster
        BY Numbers DEF TypeOK, Cluster
      <4>2. fat[1] \in [FatIndex -> Entry] /\ c \in FatIndex
        BY <4>1, CopyOne, Numbers DEF TypeOK
      <4>3. fat[1][c] = FREE
        BY <3>1, <4>2, EntryValues
      <4>4. OnlyFreeNames(c)
        BY <4>3 DEF Naming, Links, FreeUnnamed
      <4> QED BY <1>0, <1>2, <3>2, <4>1, <4>4 DEF OnlyFreeNames
    <3>4. ASSUME NEW n \in Cluster, call.next = n
          PROVE  Unnamed(n)'
      <4>1. fat[1][call.curr] = n
        BY <1>0, <2>1, <3>4 DEF Naming, RestNames, Writing
      <4> QED BY <1>0, <1>1, <3>1, <4>1, RestUnnamed DEF Naming
    <3> QED BY <3>2, <3>3, <3>4 DEF Links
  <2>2. CASE write.copy # 1
    <3>1. fat'[1] = fat[1]
      BY <2>2, CopyOneWrite
    <3>2. Links' /\ (\A d : Unnamed(d) => Unnamed(d)')
      BY <1>0, <1>2, <3>1, KeepLinks DEF Naming
    <3>3. \A n \in Cluster : call.next = n => Unnamed(n)
      BY <1>0, <2>2 DEF Naming, RestNames, Writing
    <3> QED BY <3>2, <3>3
  <2> QED BY <2>1, <2>2
<1>4. AllocNames' /\ FreeNames'
  BY <1>1, <1>2, OpsDiffer DEF AllocNames, FreeNames, Marking, Writing
<1>5. RestNames'
  BY <1>2, <1>3 DEF RestNames, Writing, Unnamed, Unlinked
<1> QED BY <1>3, <1>4, <1>5 DEF Naming

-----------------------------------------------------------------------------
(* Every step keeps the names straight.                                    *)

\* A step inside a call that touches neither the FAT nor the first clusters.
LEMMA QuietLinks ==
  ASSUME TypeOK, Naming, fat' = fat, held' = held, hint' = hint,
         call'.op = call.op, call'.owner = call.owner
  PROVE  /\ Links'
         /\ \A d : Unnamed(d) => Unnamed(d)'
         /\ \A d : OnlyFreeNames(d) => OnlyFreeNames(d)'
<1>1. hint \in Nat
  BY Numbers DEF TypeOK
<1> QED BY <1>1, KeepLinks DEF Naming

\* The first step of a call.
LEMMA CallLinks ==
  ASSUME TypeOK, Control, Naming, pc = "idle", fat' = fat, held' = held, hint' = hint
  PROVE  Links'
<1>1. hint \in Nat
  BY Numbers DEF TypeOK
<1>2. call.op # "free"
  BY DEF Control, CallControl
<1> QED BY <1>1, <1>2, KeepLinks DEF Naming

LEMMA NamingStep ==
  ASSUME TypeOK, Control, Naming, TypeOK', Control', [Next]_vars, ~tainted'
  PROVE  Naming'
<1>1. CASE WriteFat
  <2>1. write.then \in {"marked", "linked", "ended", "freed", "cut"}
    BY <1>1 DEF WriteFat, Control, WriteControl
  <2> QED BY <1>1, <2>1, MarkNaming, LinkNaming, FreedNaming, CutNaming
<1>2. CASE WriteFatFails
  <2>1. /\ pc = "write" /\ pc' = write.then /\ call' = [call EXCEPT !.ok = FALSE]
        /\ UNCHANGED <<fat, hint, held>>
    BY <1>2 DEF WriteFatFails
  <2>2. /\ call'.op = call.op /\ call'.owner = call.owner /\ call'.new = call.new
        /\ call'.first = call.first /\ call'.curr = call.curr /\ call'.next = call.next
        /\ ~call'.ok
    BY <2>1 DEF TypeOK, CallType
  <2>3. Links' /\ \A d : Unnamed(d) => Unnamed(d)'
    BY <2>1, <2>2, QuietLinks
  <2>4. pc' \in {"marked", "linked", "ended", "freed", "cut"}
    BY <2>1 DEF Control, WriteControl
  <2>5. AllocNames'
    BY <2>1, <2>2, <2>3, <2>4
    DEF Naming, AllocNames, Marking, Writing, Unnamed, Unlinked
  <2>6. RestNames'
    <3> SUFFICES ASSUME pc' = "cut", call.next \in Cluster, fat[1][call.curr] = EndOfChain
                 PROVE  Unnamed(call.next)'
      BY <2>1, <2>2, <2>4 DEF RestNames, Writing
    <3>1. write.copy # 1
      BY <2>1, Numbers DEF Naming, RestNames, Writing
    <3>2. Unnamed(call.next)
      BY <2>1, <3>1 DEF Naming, RestNames, Writing
    <3> QED BY <2>1, <2>2, <3>2 DEF Unnamed, Unlinked
  <2>7. FreeNames'
    BY <2>4 DEF FreeNames, Writing
  <2> QED BY <2>3, <2>5, <2>6, <2>7 DEF Naming
<1>3. CASE Scan
  <2>1. PICK c \in Cluster : FirstFree(c) /\
          SetNext(c, EndOfChain, "marked", [call EXCEPT !.new = c])
    BY <1>3 DEF Scan
  <2>2. pc' = "write" /\ write'.then = "marked" /\ call' = [call EXCEPT !.new = c]
    BY <2>1, ClusterIsValid DEF SetNext
  <2>3. /\ call'.op = call.op /\ call'.owner = call.owner /\ call'.new = c
        /\ call'.first = call.first
    BY <2>2 DEF TypeOK, CallType
  <2>4. UNCHANGED <<fat, hint, held>> /\ call.op # "free"
    BY <1>3, OpsDiffer DEF Scan, Control, CallControl
  <2>5. Links' /\ \A d : Unnamed(d) => Unnamed(d)'
    BY <2>3, <2>4, QuietLinks
  <2>6. Unnamed(c)
    BY <2>1, <2>4
    DEF FirstFree, FreeFrom, Naming, Links, FreeUnnamed, OnlyFreeNames, Unnamed
  <2>7. AllocNames'
    BY <2>2, <2>3, <2>4, <2>5, <2>6
    DEF Naming, AllocNames, Marking, Writing, Unnamed, Unlinked
  <2>8. RestNames' /\ FreeNames'
    BY <2>2 DEF RestNames, FreeNames, Writing
  <2> QED BY <2>5, <2>7, <2>8 DEF Naming
<1>4. ASSUME ReturnFalse, call.op \in AllocCalls, UNCHANGED <<fat, hint>>
      PROVE  Naming'
  <2>1. call.op # "free"
    BY <1>4, OpsDiffer
  <2> QED BY <1>4, <2>1, PlainEndNaming DEF ReturnFalse, Naming
<1>5. CASE ScanFails
  BY <1>4, <1>5 DEF ScanFails, Control, CallControl
<1>6. CASE Marked
  <2>1. /\ call.new \in Cluster /\ call.new < hint' /\ hint' >= hint /\ hint' \in Nat
        /\ call.op \in AllocCalls /\ Unnamed(call.new)
    <3>1. call.new \in hint .. TotalClusters /\ call.op \in AllocCalls /\ hint' = call.new + 1
      BY <1>6 DEF Marked, Control, CallControl, Marking
    <3>2. hint \in Nat /\ call.new \in Nat
      BY <3>1, Numbers DEF TypeOK
    <3>3. call.new \in Cluster
      BY <3>1, Numbers DEF TypeOK, Cluster
    <3>4. Unnamed(call.new)
      BY <1>6 DEF Marked, Naming, AllocNames, Marking
    <3> QED BY <3>1, <3>2, <3>3, <3>4
  <2>2. fat' = fat /\ call.op # "free"
    BY <1>6, <2>1, OpsDiffer DEF Marked
  <2>3. CASE Return(call.new)
    BY <2>1, <2>2, <2>3, ReturnNaming DEF Naming
  <2>4. CASE pc' = "next" /\ call' = [call EXCEPT !.first = call.new] /\ held' = held
    <3>1. call'.op = call.op /\ call'.first = call.new
      BY <2>4 DEF TypeOK, CallType
    <3>2. Links'
      BY <2>1, <2>2, <2>4, KeepLinks DEF Naming
    <3>3. AllocNames'
      BY <2>1, <2>2, <2>4, <3>1 DEF AllocNames, Marking, Writing, Unnamed, Unlinked
    <3>4. RestNames' /\ FreeNames'
      BY <2>4 DEF RestNames, FreeNames, Writing
    <3> QED BY <3>2, <3>3, <3>4 DEF Naming
  <2>5. CASE SetNext(call.curr, call.new, "linked", call) /\ held' = held
    <3>1. /\ call'.op = call.op /\ call'.first = call.first /\ call'.new = call.new
          /\ pc' = "linked" \/ (pc' = "write" /\ write'.then = "linked")
      BY <2>5 DEF SetNext, TypeOK, CallType
    <3>2. Links'
      BY <2>1, <2>2, <2>5, KeepLinks DEF Naming
    <3>3. AllocNames'
      BY <2>1, <2>2, <2>5, <3>1
      DEF Naming, AllocNames, Marking, Writing, Unnamed, Unlinked
    <3>4. RestNames' /\ FreeNames'
      BY <3>1 DEF RestNames, FreeNames, Writing
    <3> QED BY <3>2, <3>3, <3>4 DEF Naming
  <2> QED BY <1>6, <2>3, <2>4, <2>5 DEF Marked, Allocated
\* The quiet steps of the calls that allocate.
<1>7. ASSUME UNCHANGED <<fat, hint, held>>, call.op \in AllocCalls,
             call'.op = call.op, call'.owner = call.owner, call'.first = call.first,
             pc' \in {"scan", "next", "walk", "ended", "write"},
             pc' = "write" => write'.then = "ended"
      PROVE  Naming'
  <2>1. Links' /\ \A d : Unnamed(d) => Unnamed(d)'
    BY <1>7, QuietLinks
  <2>2. AllocNames'
    BY <1>7, <2>1 DEF Naming, AllocNames, Marking, Writing, Unnamed, Unlinked
  <2>3. RestNames' /\ FreeNames'
    BY <1>7 DEF RestNames, FreeNames, Writing
  <2> QED BY <2>1, <2>2, <2>3 DEF Naming
<1>8. CASE BuildNext
  <2>1. call.op \in AllocCalls
    BY <1>8, OpsDiffer DEF BuildNext, Control, CallControl
  <2>2. CASE pc' = "scan" /\ call' = [call EXCEPT !.curr = call.new, !.left = @ - 1]
    <3>1. call'.op = call.op /\ call'.owner = call.owner /\ call'.first = call.first
      BY <2>2 DEF TypeOK, CallType
    <3> QED BY <1>7, <1>8, <2>1, <2>2, <3>1 DEF BuildNext
  <2>3. CASE SetNext(call.new, EndOfChain, "ended", call)
    <3>1. /\ call'.op = call.op /\ call'.owner = call.owner /\ call'.first = call.first
          /\ pc' = "ended" \/ (pc' = "write" /\ write'.then = "ended")
      BY <2>3 DEF SetNext, TypeOK, CallType
    <3> QED BY <1>7, <1>8, <2>1, <3>1 DEF BuildNext
  <2> QED BY <1>8, <2>2, <2>3 DEF BuildNext
<1>9. CASE DataWriteFails
  BY <1>4, <1>9, OpsDiffer DEF DataWriteFails, BuildCalls
<1>10. CASE BuildLinked
  BY <1>4, <1>7, <1>10, OpsDiffer DEF BuildLinked
<1>11. CASE BuildEnded
  <2>1. CASE ReturnFalse
    BY <1>4, <1>11, <2>1, OpsDiffer DEF BuildEnded
  <2>2. CASE Return(call.first)
    <3>1. /\ call.first \in Cluster \cup {0} /\ UNCHANGED <<fat, hint>> /\ call.op # "free"
          /\ hint \in Nat
      BY <1>11, OpsDiffer, Numbers DEF BuildEnded, TypeOK, CallType
    <3>2. call.first # 0 => Unnamed(call.first) /\ call.first < hint
      BY <1>11 DEF BuildEnded, Naming, AllocNames, Control, CallControl
    <3> QED BY <2>2, <3>1, <3>2, ReturnNaming DEF Naming
  <2> QED BY <1>11, <2>1, <2>2 DEF BuildEnded
<1>12. CASE Walk \/ WalkReadFails
  <2>1. call.op = "append"
    BY <1>12 DEF Walk, WalkReadFails, Control, CallControl
  <2>2. call'.op = call.op /\ call'.owner = call.owner /\ call'.first = call.first
    BY <1>12 DEF Walk, WalkReadFails, TypeOK, CallType
  <2> QED BY <1>7, <1>12, <2>1, <2>2, OpsDiffer DEF Walk, WalkReadFails
<1>13. CASE AppendLinked
  <2>1. /\ call'.op = call.op /\ call'.owner = call.owner /\ call'.first = call.first
        /\ pc' = "ended" \/ (pc' = "write" /\ write'.then = "ended")
    BY <1>13 DEF AppendLinked, SetNext, TypeOK, CallType
  <2> QED BY <1>7, <1>13, <2>1, OpsDiffer DEF AppendLinked
<1>14. CASE AppendEnded
  <2>1. held' = held /\ EndCall /\ UNCHANGED <<fat, hint>> /\ call.op # "free"
    BY <1>14 DEF AppendEnded, Return, TypeOK, CallType
  <2> QED BY <2>1, PlainEndNaming DEF Naming
<1>15. CASE Free
  <2>1. CASE ReturnFree
    BY <1>15, <2>1, ReturnFreeNaming DEF Free, Naming
  <2>2. CASE IsValidCluster(call.curr)
             /\ SetNext(call.curr, FREE, "freed", [call EXCEPT !.next = NextOf(call.curr)])
             /\ held' = held
    <3>1. call.curr \in Cluster
      BY <2>2, ValidIsCluster DEF TypeOK, CallType
    <3>2. NextOf(call.curr) = fat[1][call.curr]
      BY <3>1, Numbers DEF NextOf, NextIn
    <3>3. /\ pc' = "write" /\ write'.then = "freed" /\ write'.copy = 1
          /\ call' = [call EXCEPT !.next = NextOf(call.curr)]
      BY <2>2 DEF SetNext
    <3>4. /\ call'.op = call.op /\ call'.owner = call.owner /\ call'.curr = call.curr
          /\ call'.next = fat[1][call.curr]
      BY <3>2, <3>3 DEF TypeOK, CallType
    <3>5. UNCHANGED <<fat, hint, held>> /\ call.op \in {"free", "cut"}
      BY <1>15, <2>2 DEF Free, Control, CallControl
    <3>6. Links' /\ \A d : OnlyFreeNames(d) => OnlyFreeNames(d)'
      BY <3>4, <3>5, QuietLinks
    <3>7. AllocNames'
      BY <3>3, <3>4, <3>5, OpsDiffer DEF AllocNames, Marking, Writing
    <3>8. RestNames'
      BY <3>3, <3>4, <3>5 DEF RestNames, Writing
    <3>9. FreeNames'
      <4>1. OnlyFreeNames(call.curr)
        BY <1>15, <3>1 DEF Free, Naming, FreeNames
      <4> QED BY <3>4, <3>5, <4>1 DEF FreeNames, OnlyFreeNames, Unlinked
    <3> QED BY <3>6, <3>7, <3>8, <3>9 DEF Naming
  <2> QED BY <1>15, <2>1, <2>2 DEF Free
<1>16. CASE FreeReadFails
  BY <1>16, ReturnFreeNaming DEF FreeReadFails, Naming
\* The rest of the chain becomes what free works on.
<1>17. ASSUME UNCHANGED <<fat, hint, held>>, call.op \in {"free", "cut"},
              pc' = "free", call' = [call EXCEPT !.curr = call.next],
              call.next \in Cluster => Unnamed(call.next)
       PROVE  Naming'
  <2>1. call'.op = call.op /\ call'.owner = call.owner /\ call'.curr = call.next
    BY <1>17 DEF TypeOK, CallType
  <2>2. Links'
    BY <1>17, <2>1, QuietLinks
  <2>3. AllocNames' /\ RestNames'
    BY <1>17, <2>1, OpsDiffer DEF AllocNames, RestNames, Marking, Writing
  <2>4. FreeNames'
    BY <1>17, <2>1 DEF FreeNames, Unnamed, OnlyFreeNames, Unlinked
  <2> QED BY <2>2, <2>3, <2>4 DEF Naming
<1>18. CASE Freed
  <2>1. CASE ReturnFree
    BY <1>18, <2>1, ReturnFreeNaming DEF Freed, Naming
  <2>2. CASE MoreToFree /\ pc' = "free" /\ call' = [call EXCEPT !.curr = call.next]
             /\ held' = held
    <3>1. call.next \in Cluster => Unnamed(call.next)
      BY <1>18, <2>2 DEF Freed, MoreToFree, Naming, RestNames
    <3> QED BY <1>17, <1>18, <2>2, <3>1 DEF Freed, Control, CallControl
  <2> QED BY <1>18, <2>1, <2>2 DEF Freed
<1>19. CASE Cut
  <2>1. UNCHANGED <<fat, hint, held>> /\ call.op = "cut" /\ call.curr \in Cluster
    BY <1>19 DEF Cut, Control, CallControl
  <2>2. CASE EndCall
    BY <2>1, <2>2, PlainEndNaming DEF Naming
  <2>3. CASE pc' = "free" /\ call' = [call EXCEPT !.curr = call.next]
    <3>1. fat[1][call.curr] = EndOfChain
      BY <1>19, <2>1, Numbers DEF Cut, NextOf, NextIn
    <3>2. call.next \in Cluster => Unnamed(call.next)
      BY <1>19, <3>1 DEF Cut, Naming, RestNames
    <3> QED BY <1>17, <2>1, <2>3, <3>2
  <2> QED BY <1>19, <2>2, <2>3 DEF Cut
<1>20. ASSUME pc = "idle", UNCHANGED <<fat, hint, held>>, pc' \in {"scan", "walk"},
              call'.first = 0
       PROVE  Naming'
  <2>1. Links'
    BY <1>20, CallLinks
  <2>2. AllocNames' /\ RestNames' /\ FreeNames'
    BY <1>20 DEF AllocNames, RestNames, FreeNames, Marking, Writing
  <2> QED BY <2>1, <2>2 DEF Naming
<1>21. ASSUME NEW o \in Owners, CallAllocate(o)
       PROVE  Naming'
  BY <1>20, <1>21 DEF CallAllocate, NoCall
<1>22. ASSUME NEW o \in Owners, NEW op \in BuildCalls, NEW count \in 1 .. MaxCount,
              CallBuild(o, op, count)
       PROVE  Naming'
  BY <1>20, <1>22 DEF CallBuild, NoCall
<1>23. ASSUME NEW o \in Owners, CallAppend(o)
       PROVE  Naming'
  BY <1>20, <1>23 DEF CallAppend, NoCall
<1>24. ASSUME NEW o \in Owners, CallFree(o)
       PROVE  Naming'
  <2>1. /\ pc = "idle" /\ UNCHANGED <<fat, hint, held>> /\ pc' = "free"
        /\ call'.op = "free" /\ call'.owner = o /\ call'.curr = held[o] /\ held[o] # 0
    BY <1>24 DEF CallFree, NoCall
  <2>2. Links'
    BY <2>1, CallLinks
  <2>3. AllocNames' /\ RestNames'
    BY <2>1, OpsDiffer DEF AllocNames, RestNames, Marking, Writing
  <2>4. FreeNames'
    BY <2>1
    DEF FreeNames, OnlyFreeNames, Unlinked, Naming, Links, UniqueFirsts, FirstsUnlinked
  <2> QED BY <2>2, <2>3, <2>4 DEF Naming
<1>25. ASSUME NEW o \in Owners, NEW c \in Cluster, CallCut(o, c)
       PROVE  Naming'
  <2>1. PICK rest \in Entry : CutAfter(o, c, rest) /\ rest \in {NextOf(c), 0}
    BY <1>25, NextOfType, Numbers DEF CallCut
  <2>2. pc = "idle" /\ UNCHANGED <<fat, hint, held>>
    BY <1>25 DEF CallCut
  <2>3. /\ pc' = "write" /\ write'.then = "cut" /\ write'.copy = 1
        /\ call'.op = "cut" /\ call'.curr = c /\ call'.next = rest
    <3>1. IsValidCluster(c)
      BY ClusterIsValid
    <3>2. /\ pc' = "write"
          /\ write' = [cluster |-> c, value |-> EndOfChain, copy |-> 1, then |-> "cut"]
          /\ call' = [NoCall EXCEPT !.op = "cut", !.owner = o, !.curr = c, !.next = rest]
      BY <2>1, <3>1 DEF CutAfter, SetNext
    <3> QED BY <3>2 DEF NoCall
  <2>4. Links'
    BY <2>2, CallLinks
  <2>5. AllocNames' /\ FreeNames'
    BY <2>3, OpsDiffer DEF AllocNames, FreeNames, Marking, Writing
  <2>6. RestNames'
    <3>1. rest \in Cluster => fat[1][c] = rest
      BY <2>1, Numbers DEF NextOf, NextIn
    <3> QED BY <2>2, <2>3, <3>1 DEF RestNames, Writing
  <2> QED BY <2>4, <2>5, <2>6 DEF Naming
<1>26. ASSUME UNCHANGED <<fat, hint, held, pc, call, write>>
       PROVE  Naming'
  BY <1>26
  DEF Naming, Links, UniqueSuccessors, UniqueFirsts, FirstsUnlinked, FreeUnnamed,
      AllocNames, RestNames, FreeNames, OnlyFreeNames, Unnamed, Unlinked, Marking, Writing
<1>27. ASSUME NEW o \in Owners, Persist(o)
       PROVE  Naming'
  BY <1>26, <1>27 DEF Persist
<1>28. CASE Restart \/ Crash
  BY <1>28, RebootNaming DEF Restart, Crash
<1>29. CASE UNCHANGED vars
  BY <1>26, <1>29 DEF vars
<1> QED
  BY NextCases, <1>1, <1>2, <1>3, <1>5, <1>6, <1>8, <1>9, <1>10, <1>11, <1>12, <1>13,
     <1>14, <1>15, <1>16, <1>18, <1>19, <1>21, <1>22, <1>23, <1>24, <1>25, <1>27,
     <1>28, <1>29

-----------------------------------------------------------------------------
(* The theorems.                                                           *)

LEMMA InitNaming ==
  ASSUME Init
  PROVE  Naming
<1>0. fat[1] = [c \in FatIndex |->
                  IF c = 0 THEN MediaEntry ELSE IF c <= 2 THEN EndOfChain ELSE FREE]
  BY CopyOne DEF Init
<1>1. \A c \in Cluster : fat[1][c] \notin Cluster
  BY <1>0, Numbers
<1>2. \A c \in Cluster : fat[1][c] = FREE => c # 2 /\ c # 0
  <2>1. EndOfChain # FREE
    BY EntryValues
  <2> QED BY <1>0, <2>1, Numbers
<1>3. \A o \in Owners : held[o] \in {0, 2} /\ (held[o] = 2 => o = Root)
  BY DEF Init
<1>4. 2 \in Cluster /\ \A c \in 2 .. TotalClusters : c \in Cluster
  BY Numbers DEF Cluster
<1>5. UniqueSuccessors /\ UniqueFirsts /\ FirstsUnlinked
  BY <1>1, <1>3, <1>4 DEF UniqueSuccessors, UniqueFirsts, FirstsUnlinked
<1>6. FreeUnnamed
  <2>1. hint = 2
    BY DEF Init
  <2> QED BY <1>1, <1>2, <1>3, <1>4, <2>1 DEF FreeUnnamed, OnlyFreeNames, Unlinked
<1>7. AllocNames /\ RestNames /\ FreeNames
  BY DEF Init, NoCall, AllocNames, RestNames, FreeNames, Marking, Writing, BuildCalls
<1> QED BY <1>5, <1>6, <1>7 DEF Links, Naming

LEMMA TaintStays ==
  ASSUME [Next]_vars, tainted
  PROVE  tainted'
<1>1. (Reboot \/ Cut) => tainted'
  BY DEF Reboot, Cut
<1> QED
  BY NextCases, <1>1
  DEF vars, WriteFat, WriteFatFails, Scan, ScanFails, Marked, BuildNext, DataWriteFails,
      BuildLinked, BuildEnded, Walk, WalkReadFails, AppendLinked, AppendEnded, Free,
      FreeReadFails, Freed, CallAllocate, CallBuild, CallAppend, CallFree, CallCut,
      Persist, Restart, Crash

THEOREM InductiveHolds == Spec => []Inductive
<1>1. Init => Inductive
  BY InitTypes, InitNaming DEF Inductive
<1>2. Inductive /\ [Next]_vars => Inductive'
  <2> SUFFICES ASSUME Inductive, [Next]_vars
               PROVE  Inductive'
    OBVIOUS
  <2>1. TypeOK' /\ Control'
    BY TypeStep, ControlStep DEF Inductive
  <2>2. ~tainted' => Naming'
    BY <2>1, TaintStays, NamingStep DEF Inductive
  <2> QED BY <2>1, <2>2 DEF Inductive
<1> QED BY <1>1, <1>2, PTL DEF Spec

\* No cluster is on two chains or twice on one, however many accesses fail and
\* wherever the machine stops, as long as each run began on a sound FAT.
THEOREM NoCrossLinks == Spec => []NoCrossLink
<1>1. Inductive => NoCrossLink
  BY DEF Inductive, Naming, Links, NoCrossLink
<1> QED BY <1>1, InductiveHolds, PTL

-----------------------------------------------------------------------------
(* What the copies of the FAT hold, and what a run that starts after a     *)
(* crash finds.                                                            *)

\* Once a write has reached the first copy the code reads its value there, and
\* every copy it has passed has the same sector.
Mirrored ==
  pc = "write" /\ write.copy > 1 =>
    /\ fat[1][write.cluster] = write.value
    /\ \A i \in 1 .. write.copy - 1, c \in FatIndex :
         SectorOf(c) = SectorOf(write.cluster) => fat[i][c] = fat[1][c]

\* A cluster is marked before anything names it, and freed only when nothing
\* but the call that frees it does.
LinksMarked ==
  \A c \in Cluster : fat[1][c] \in Cluster => fat[1][fat[1][c]] # FREE

FirstsMarked ==
  \A o \in Owners :
    held[o] # 0 => \/ fat[1][held[o]] # FREE
                   \/ call.op = "free" /\ call.owner = o

NewMarked == pc = "marked" \/ Linking => fat[1][call.new] # FREE

BuiltMarked ==
  call.op \in BuildCalls /\ call.first # 0 => fat[1][call.first] # FREE

Marks == LinksMarked /\ FirstsMarked /\ NewMarked /\ BuiltMarked

RecoveryInv ==
  /\ Inductive
  /\ Mirrored
  /\ faults = 0 /\ ~tainted => Marks


-----------------------------------------------------------------------------
(* What a step does to the copies.                                         *)

\* The entries of the copy being written: the sector is that of copy 1.
LEMMA CopyWrite ==
  ASSUME TypeOK, Control, WriteFat, NEW i \in Copies, NEW c \in FatIndex
  PROVE  fat'[i][c] = IF i # write.copy THEN fat[i][c]
                      ELSE IF c = write.cluster THEN write.value
                      ELSE IF SectorOf(c) = SectorOf(write.cluster) THEN fat[1][c]
                      ELSE fat[i][c]
<1>1. fat \in [Copies -> [FatIndex -> Entry]]
  BY DEF TypeOK
<1> DEFINE Buffer == [d \in {e \in FatIndex : SectorOf(e) = SectorOf(write.cluster)} |->
                        IF d = write.cluster THEN write.value ELSE fat[1][d]]
           New == [d \in FatIndex |-> IF d \in DOMAIN Buffer
                                        THEN Buffer[d] ELSE fat[write.copy][d]]
<1>2. fat' = [fat EXCEPT ![write.copy] = New]
  BY <1>1 DEF WriteFat, WriteSector, SectorBuffer
<1>3. New[c] = IF c = write.cluster THEN write.value
               ELSE IF SectorOf(c) = SectorOf(write.cluster) THEN fat[1][c]
               ELSE fat[write.copy][c]
  OBVIOUS
<1> QED BY <1>1, <1>2, <1>3

\* Only WriteFat writes a FAT sector.
LEMMA FatStays ==
  ASSUME [Next]_vars, ~WriteFat
  PROVE  fat' = fat
BY NextCases
DEF vars, WriteFatFails, Scan, ScanFails, Marked, BuildNext, DataWriteFails,
    BuildLinked, BuildEnded, Walk, WalkReadFails, AppendLinked, AppendEnded, Free,
    FreeReadFails, Freed, Cut, CallAllocate, CallBuild, CallAppend, CallFree, CallCut,
    Persist, Restart, Crash, Reboot

\* A write in progress goes on, unless it fails or the machine stops.
LEMMA LeaveWrite ==
  ASSUME [Next]_vars, pc = "write"
  PROVE  WriteFat \/ WriteFatFails \/ Crash \/ UNCHANGED vars
BY NextCases
DEF Scan, ScanFails, Marked, BuildNext, DataWriteFails,
    BuildLinked, BuildEnded, Walk, WalkReadFails, AppendLinked, AppendEnded, Free,
    FreeReadFails, Freed, Cut, CallAllocate, CallBuild, CallAppend, CallFree, CallCut,
    Persist, Restart

\* A write begins with the first copy.
LEMMA EnterWrite ==
  ASSUME [Next]_vars, pc # "write", pc' = "write"
  PROVE  write'.copy = 1
<1>1. ASSUME NEW c, NEW value, NEW then, NEW frame, SetNext(c, value, then, frame),
             then # "write"
      PROVE  write'.copy = 1
  BY <1>1 DEF SetNext
<1>2. CASE Scan
  BY <1>1, <1>2 DEF Scan
<1>3. CASE Marked
  BY <1>1, <1>3 DEF Marked, Allocated, Return, EndCall
<1>4. CASE BuildNext
  BY <1>1, <1>4 DEF BuildNext
<1>5. CASE AppendLinked
  BY <1>1, <1>5 DEF AppendLinked
<1>6. CASE Free
  BY <1>1, <1>6 DEF Free, ReturnFree, Return, EndCall
<1>7. ASSUME NEW o \in Owners, NEW c \in Cluster, CallCut(o, c)
      PROVE  write'.copy = 1
  BY <1>1, <1>7 DEF CallCut, CutAfter
<1> QED
  BY NextCases, <1>2, <1>3, <1>4, <1>5, <1>6, <1>7
  DEF vars, WriteFat, WriteFatFails, ScanFails, DataWriteFails, BuildLinked, BuildEnded,
      Walk, WalkReadFails, AppendEnded, FreeReadFails, Freed, Cut, CallAllocate,
      CallBuild, CallAppend, CallFree, Persist, Restart, Crash, Reboot, EndCall, Return,
      ReturnFalse, ReturnFree

\* Faults and crashes only add up.
LEMMA CountsGrow ==
  ASSUME TypeOK, [Next]_vars
  PROVE  /\ faults' = 0 => faults = 0
         /\ crashes' = 0 => crashes = 0
         /\ WriteFatFails => faults' # 0
         /\ Crash => crashes' # 0
<1>1. faults \in Nat /\ crashes \in Nat
  BY DEF TypeOK
<1>2. Fault => faults' # 0
  BY <1>1, SMT DEF Fault
<1>3. Crash => crashes' # 0
  BY <1>1, SMT DEF Crash
<1>4. faults' = faults \/ Fault
  BY NextCases
  DEF vars, WriteFat, WriteFatFails, Scan, ScanFails, Marked, BuildNext, DataWriteFails,
      BuildLinked, BuildEnded, Walk, WalkReadFails, AppendLinked, AppendEnded, Free,
      FreeReadFails, Freed, Cut, CallAllocate, CallBuild, CallAppend, CallFree, CallCut,
      Persist, Restart, Crash, Reboot
<1>5. crashes' = crashes \/ Crash
  BY NextCases
  DEF vars, WriteFat, WriteFatFails, Scan, ScanFails, Marked, BuildNext, DataWriteFails,
      BuildLinked, BuildEnded, Walk, WalkReadFails, AppendLinked, AppendEnded, Free,
      FreeReadFails, Freed, Cut, CallAllocate, CallBuild, CallAppend, CallFree, CallCut,
      Persist, Restart
<1> QED BY <1>2, <1>3, <1>4, <1>5 DEF WriteFatFails

-----------------------------------------------------------------------------
(* The copies.                                                             *)

LEMMA MirroredStep ==
  ASSUME TypeOK, Control, Mirrored, [Next]_vars
  PROVE  Mirrored'
<1> SUFFICES ASSUME pc' = "write", write'.copy > 1
             PROVE  /\ fat'[1][write'.cluster] = write'.value
                    /\ \A i \in 1 .. write'.copy - 1, c \in FatIndex :
                         SectorOf(c) = SectorOf(write'.cluster) => fat'[i][c] = fat'[1][c]
  BY DEF Mirrored
<1>1. pc = "write"
  BY EnterWrite
<1>2. CASE WriteFat /\ ~LastCopy(write.copy)
  <2>1. /\ write'.copy = write.copy + 1 /\ write'.cluster = write.cluster
        /\ write'.value = write.value
    BY <1>2 DEF WriteFat, TypeOK, WriteType
  <2>2. /\ write.copy \in Copies /\ write.cluster \in FatIndex /\ NumFATs \in Nat
        /\ write.copy \in 1 .. NumFATs
    BY <1>1, Numbers DEF Control, WriteControl, Copies
  <2>3. fat'[1][write.cluster] = write.value
    BY <1>1, <1>2, <2>2, CopyOne, CopyWrite, SMT DEF Mirrored
  <2>4. ASSUME NEW i \in 1 .. write.copy, NEW c \in FatIndex,
               SectorOf(c) = SectorOf(write.cluster)
        PROVE  fat'[i][c] = fat'[1][c]
    <3>1. i \in Copies
      BY <2>2, SMT DEF Copies
    <3>2. CASE write.copy = 1
      BY <2>2, <3>2, SMT
    <3>3. CASE write.copy # 1
      <4>1. fat'[1][c] = fat[1][c] /\ fat[1][write.cluster] = write.value
        BY <1>1, <1>2, <2>2, <3>3, CopyOne, CopyWrite, SMT DEF Mirrored
      <4>2. CASE i = write.copy
        BY <1>2, <2>4, <3>1, <4>1, <4>2, CopyWrite
      <4>3. CASE i # write.copy
        <5>1. i \in 1 .. write.copy - 1 /\ write.copy > 1
          BY <2>2, <3>3, <4>3, SMT
        <5>2. fat[i][c] = fat[1][c]
          BY <1>1, <2>4, <5>1 DEF Mirrored
        <5> QED BY <1>2, <3>1, <4>1, <4>3, <5>2, CopyWrite
      <4> QED BY <4>2, <4>3
    <3> QED BY <3>2, <3>3
  <2>5. 1 .. write'.copy - 1 = 1 .. write.copy
    BY <2>1, <2>2, SMT
  <2> QED BY <2>1, <2>3, <2>4, <2>5
<1>3. CASE WriteFat /\ LastCopy(write.copy)
  BY <1>3 DEF WriteFat, Control, WriteControl
<1>4. CASE WriteFatFails
  BY <1>1, <1>4 DEF WriteFatFails, Control, WriteControl
<1>5. CASE Crash
  BY <1>5 DEF Crash, Reboot, EndCall
<1>6. CASE UNCHANGED vars
  BY <1>6 DEF vars, Mirrored
<1> QED BY <1>1, <1>2, <1>3, <1>4, <1>5, <1>6, LeaveWrite

\* At the last copy the sector is the same in all of them.
LEMMA LastWriteEqual ==
  ASSUME TypeOK, Control, Mirrored, WriteFat, LastCopy(write.copy),
         NEW i \in Copies, NEW c \in FatIndex, SectorOf(c) = SectorOf(write.cluster)
  PROVE  fat'[i][c] = fat'[1][c]
<1>1. pc = "write" /\ write.copy \in 1 .. NumFATs /\ NumFATs \in Nat /\ i \in 1 .. NumFATs
  BY Numbers DEF WriteFat, Control, WriteControl, Copies
<1>2. write.copy = NumFATs
  BY DEF LastCopy
<1>3. CASE NumFATs = 1
  BY <1>1, <1>3, SMT
<1>4. CASE NumFATs # 1
  <2>1. write.copy > 1 /\ write.copy # 1
    BY <1>1, <1>2, <1>4, SMT
  <2>2. fat'[1][c] = fat[1][c] /\ fat[1][write.cluster] = write.value
    BY <1>1, <2>1, CopyOne, CopyWrite DEF Mirrored
  <2>3. CASE i = write.copy
    BY <2>2, <2>3, CopyWrite
  <2>4. CASE i # write.copy
    <3>1. i \in 1 .. write.copy - 1
      BY <1>1, <1>2, <2>4, SMT
    <3>2. fat[i][c] = fat[1][c]
      BY <1>1, <2>1, <3>1 DEF Mirrored
    <3> QED BY <2>2, <2>4, <3>2, CopyWrite
  <2> QED BY <2>3, <2>4
<1> QED BY <1>3, <1>4

\* Without a failure or a stop, the copies differ only in the entry being written,
\* where the write has not come to yet.
LEMMA MirrorExactStep ==
  ASSUME TypeOK, Control, Mirrored, MirrorExact, [Next]_vars
  PROVE  MirrorExact'
<1> SUFFICES ASSUME faults' = 0, crashes' = 0, NEW i \in Copies, NEW c \in FatIndex,
                    fat'[i][c] # fat'[1][c]
             PROVE  pc' = "write" /\ c = write'.cluster /\ i >= write'.copy /\ write'.copy > 1
  BY DEF MirrorExact
<1>1. faults = 0 /\ crashes = 0 /\ ~WriteFatFails /\ ~Crash
  BY CountsGrow
<1>2. CASE ~WriteFat
  <2>1. fat' = fat
    BY <1>2, FatStays
  <2>2. pc = "write" /\ c = write.cluster /\ i >= write.copy /\ write.copy > 1
    BY <1>1, <2>1 DEF MirrorExact
  <2>3. UNCHANGED vars
    BY <1>1, <1>2, <2>2, LeaveWrite
  <2> QED BY <2>2, <2>3 DEF vars
<1>3. CASE WriteFat
  <2>1. /\ pc = "write" /\ write.copy \in 1 .. NumFATs /\ NumFATs \in Nat
        /\ i \in 1 .. NumFATs /\ write.cluster \in FatIndex
    BY <1>3, Numbers DEF WriteFat, Control, WriteControl, Copies
  <2>2. c = write.cluster /\ i > write.copy
    <3>1. CASE write.copy = 1
      <4>1. fat[i][c] = fat[1][c]
        BY <1>1, <3>1, SMT DEF MirrorExact
      <4>2. i # 1
        OBVIOUS
      <4>3. fat'[i][c] = fat[i][c]
        BY <1>3, <3>1, <4>2, CopyWrite
      <4>4. fat'[1][c] # fat[1][c]
        BY <4>1, <4>3
      <4>5. c = write.cluster
        BY <1>3, <3>1, <4>4, CopyOne, CopyWrite
      <4> QED BY <2>1, <3>1, <4>2, <4>5, SMT
    <3>2. CASE write.copy # 1
      <4>1. write.copy > 1
        BY <2>1, <3>2, SMT
      <4>2. fat'[1][c] = fat[1][c] /\ fat[1][write.cluster] = write.value
        BY <1>3, <2>1, <3>2, <4>1, CopyOne, CopyWrite DEF Mirrored
      <4>3. i # write.copy
        <5> SUFFICES ASSUME i = write.copy PROVE FALSE
          OBVIOUS
        <5>1. c # write.cluster /\ SectorOf(c) # SectorOf(write.cluster)
          BY <1>3, <4>2, CopyWrite
        <5>2. fat'[i][c] = fat[i][c]
          BY <1>3, <5>1, CopyWrite
        <5> QED BY <1>1, <4>2, <5>1, <5>2 DEF MirrorExact
      <4>4. fat'[i][c] = fat[i][c]
        BY <1>3, <4>3, CopyWrite
      <4>5. c = write.cluster /\ i >= write.copy
        BY <1>1, <4>2, <4>4 DEF MirrorExact
      <4> QED BY <2>1, <4>3, <4>5, SMT
    <3> QED BY <3>1, <3>2
  <2>3. ~LastCopy(write.copy)
    BY <2>1, <2>2, SMT DEF LastCopy
  <2>4. /\ pc' = "write" /\ write'.copy = write.copy + 1 /\ write'.cluster = write.cluster
    BY <1>3, <2>3 DEF WriteFat, TypeOK, WriteType
  <2> QED BY <2>1, <2>2, <2>4, SMT
<1> QED BY <1>2, <1>3

LEMMA MirrorInit == Init => Mirrored /\ MirrorExact
<1> SUFFICES ASSUME Init PROVE Mirrored /\ MirrorExact
  OBVIOUS
<1>1. \A i \in Copies : fat[i] = fat[1]
  BY CopyOne DEF Init
<1> QED BY <1>1 DEF Init, Mirrored, MirrorExact

\* If no access failed and the machine did not stop, a copy of the FAT differs from
\* the first only in the one entry a set_next is writing: reading only the first
\* copy, as the code does, loses nothing.
THEOREM MirrorExactAlways == Spec => []MirrorExact
<1>1. Init => TypeOK /\ Control /\ Mirrored /\ MirrorExact
  BY InitTypes, MirrorInit
<1>2. TypeOK /\ Control /\ Mirrored /\ MirrorExact /\ [Next]_vars
        => (TypeOK /\ Control /\ Mirrored /\ MirrorExact)'
  BY TypeStep, ControlStep, MirroredStep, MirrorExactStep
<1> QED BY <1>1, <1>2, PTL DEF Spec

LEMMA MirroredAlways == Spec => [](TypeOK /\ Control /\ Mirrored)
<1>1. Init => TypeOK /\ Control /\ Mirrored
  BY InitTypes, MirrorInit
<1>2. TypeOK /\ Control /\ Mirrored /\ [Next]_vars => (TypeOK /\ Control /\ Mirrored)'
  BY TypeStep, ControlStep, MirroredStep
<1> QED BY <1>1, <1>2, PTL DEF Spec

\* A set_next that returns true has left its sector equal in all the copies,
\* whatever failures and stops left in them before.
THEOREM MirrorAlwaysHeals == Spec => MirrorHeals
<1>1. ASSUME TypeOK, Control, Mirrored, [Next]_vars
      PROVE  [pc = "write" /\ pc' # "write" /\ call'.ok /\ crashes' = crashes =>
                \A i \in Copies, c \in FatIndex :
                  SectorOf(c) = SectorOf(write.cluster) => fat'[i][c] = fat'[1][c]]_vars
  <2> SUFFICES ASSUME pc = "write", pc' # "write", call'.ok, crashes' = crashes,
                      NEW i \in Copies, NEW c \in FatIndex,
                      SectorOf(c) = SectorOf(write.cluster)
               PROVE  fat'[i][c] = fat'[1][c]
    OBVIOUS
  <2>1. ~WriteFatFails
    BY <1>1 DEF WriteFatFails, TypeOK, CallType
  <2>2. ~Crash
    BY <1>1, SMT DEF Crash, TypeOK
  <2>3. WriteFat
    BY <1>1, <2>1, <2>2, LeaveWrite DEF vars
  <2>4. LastCopy(write.copy)
    BY <2>3 DEF WriteFat
  <2> QED BY <1>1, <2>3, <2>4, LastWriteEqual
<1> QED BY <1>1, MirroredAlways, PTL DEF Spec, MirrorHeals

-----------------------------------------------------------------------------
(* The marks.                                                              *)

\* A write keeps what the call knows of its clusters.
LEMMA WriteKeepsCall ==
  ASSUME TypeOK, WriteFat
  PROVE  /\ call'.op = call.op /\ call'.owner = call.owner /\ call'.new = call.new
         /\ call'.first = call.first
         /\ UNCHANGED <<held, hint>>
         /\ IF LastCopy(write.copy)
            THEN pc' = write.then
            ELSE pc' = "write" /\ write'.then = write.then
BY DEF WriteFat, TypeOK, CallType, WriteType

\* A step that frees no cluster keeps the marks of what is linked, and needs one
\* for what it links.
LEMMA FreeNothing ==
  ASSUME TypeOK, Control, Marks, WriteFat, write.copy = 1, write.value # FREE
  PROVE  /\ \A c \in FatIndex : fat[1][c] # FREE => fat'[1][c] # FREE
         /\ LinksMarked' /\ FirstsMarked' /\ BuiltMarked'
<1>1. fat'[1] = [fat[1] EXCEPT ![write.cluster] = write.value]
  BY CopyOneWrite
<1>2. fat[1] \in [FatIndex -> Entry] /\ write.cluster \in FatIndex /\ Cluster \subseteq FatIndex
  BY CopyOne, Numbers DEF TypeOK, WriteFat, Control, WriteControl
<1>3. \A c \in FatIndex : fat'[1][c] = IF c = write.cluster THEN write.value ELSE fat[1][c]
  BY <1>1, <1>2
<1>4. \A c \in FatIndex : fat[1][c] # FREE => fat'[1][c] # FREE
  BY <1>3
<1>5. write.value \in Cluster => fat[1][write.value] # FREE
  <2>1. EndOfChain \notin Cluster /\ FREE \notin Cluster
    BY Numbers
  <2>2. write.value \in Cluster => Linking /\ write.value = call.new
    BY <2>1 DEF WriteFat, Control, WriteControl, Linking, Writing
  <2> QED BY <2>2 DEF Marks, NewMarked
<1>6. LinksMarked'
  BY <1>2, <1>3, <1>4, <1>5 DEF Marks, LinksMarked
<1>7. FirstsMarked'
  BY <1>2, <1>4, WriteKeepsCall DEF Marks, FirstsMarked, TypeOK
<1>8. BuiltMarked'
  BY <1>2, <1>4, WriteKeepsCall DEF Marks, BuiltMarked, TypeOK, CallType
<1> QED BY <1>4, <1>6, <1>7, <1>8

LEMMA WriteMarks ==
  ASSUME TypeOK, Control, Naming, Mirrored, Marks, WriteFat
  PROVE  Marks'
<1>0. /\ pc = "write" /\ write.copy \in 1 .. NumFATs /\ write.cluster \in Cluster
      /\ NumFATs \in Nat
  BY Numbers DEF WriteFat, Control, WriteControl, Copies
<1>1. /\ fat[1] \in [FatIndex -> Entry] /\ Cluster \subseteq FatIndex
      /\ EndOfChain \notin Cluster /\ FREE \notin Cluster /\ EndOfChain # FREE
  BY CopyOne, Numbers, EntryValues DEF TypeOK
\* The mark itself is in copy 1 when the first write has been made.
<1>2. write.then = "marked" => fat'[1][call.new] # FREE
  <2> SUFFICES ASSUME write.then = "marked" PROVE fat'[1][call.new] # FREE
    OBVIOUS
  <2>1. write.cluster = call.new /\ write.value = EndOfChain
    BY <1>0 DEF Control, WriteControl
  <2>2. CASE write.copy = 1
    BY <1>0, <1>1, <2>1, <2>2, CopyOneWrite
  <2>3. CASE write.copy # 1
    <3>1. write.copy > 1
      BY <1>0, <2>3, SMT
    <3>2. fat[1][write.cluster] = write.value
      BY <1>0, <3>1 DEF Mirrored
    <3> QED BY <1>1, <2>1, <2>3, <3>2, CopyOneWrite
  <2> QED BY <2>2, <2>3
<1>3. CASE write.copy = 1 /\ write.value # FREE
  <2>1. Linking' => Linking
    BY <1>0, WriteKeepsCall DEF WriteFat, Control, WriteControl, Linking, Writing
  <2>2. call.new \in FatIndex
    BY <1>1, Numbers DEF TypeOK, CallType
  <2>3. pc' = "marked" => write.then = "marked"
    BY WriteKeepsCall
  <2>4. NewMarked'
    BY <1>2, <1>3, <2>1, <2>2, <2>3, FreeNothing, WriteKeepsCall DEF Marks, NewMarked
  <2> QED BY <1>3, <2>4, FreeNothing DEF Marks
<1>4. CASE write.copy = 1 /\ write.value = FREE
  <2>1. write.then = "freed" /\ write.cluster = call.curr /\ call.op \in {"free", "cut"}
    BY <1>0, <1>1, <1>4 DEF Control, WriteControl, CallControl, Writing, Linking
  <2>2. OnlyFreeNames(call.curr)
    BY <1>0, <2>1 DEF Naming, FreeNames, Writing
  <2>3. \A c \in FatIndex : fat'[1][c] = IF c = call.curr THEN FREE ELSE fat[1][c]
    BY <1>0, <1>1, <1>4, <2>1, CopyOneWrite
  <2>4. LinksMarked'
    BY <1>1, <2>2, <2>3 DEF Marks, LinksMarked, OnlyFreeNames, Unlinked
  <2>5. FirstsMarked'
    BY <1>1, <2>2, <2>3, WriteKeepsCall DEF Marks, FirstsMarked, OnlyFreeNames, TypeOK
  <2>6. NewMarked' /\ BuiltMarked'
    BY <1>0, <2>1, OpsDiffer, WriteKeepsCall DEF NewMarked, BuiltMarked, Linking, Writing
  <2> QED BY <2>4, <2>5, <2>6 DEF Marks
<1>5. CASE write.copy # 1
  <2>1. fat'[1] = fat[1]
    BY <1>5, CopyOneWrite
  <2>2. Linking' => Linking
    BY <1>0, WriteKeepsCall DEF WriteFat, Control, WriteControl, Linking, Writing
  <2>3. pc' = "marked" => write.then = "marked"
    BY WriteKeepsCall
  <2>4. NewMarked'
    BY <1>2, <2>1, <2>2, <2>3, WriteKeepsCall DEF Marks, NewMarked
  <2>5. LinksMarked' /\ FirstsMarked' /\ BuiltMarked'
    BY <2>1, WriteKeepsCall DEF Marks, LinksMarked, FirstsMarked, BuiltMarked
  <2> QED BY <2>4, <2>5 DEF Marks
<1> QED BY <1>3, <1>4, <1>5

\* A step that writes no sector keeps the marks, if the clusters the call goes on
\* with are marked.
LEMMA QuietMarks ==
  ASSUME Marks, fat' = fat, held' = held,
         call.op = "free" => call'.op = "free" /\ call'.owner = call.owner,
         (pc' = "marked" \/ Linking') => fat[1][call'.new] # FREE,
         (call'.op \in BuildCalls /\ call'.first # 0) => fat[1][call'.first] # FREE
  PROVE  Marks'
BY DEF Marks, LinksMarked, FirstsMarked, NewMarked, BuiltMarked

\* A call ends, and its owner stores a first cluster or none.
LEMMA EndMarks ==
  ASSUME TypeOK, Marks, fat' = fat, EndCall, NEW c,
         held' = [held EXCEPT ![call.owner] = c],
         c # 0 => fat[1][c] # FREE \/ (c = held[call.owner] /\ call.op # "free")
  PROVE  Marks'
<1>1. held \in [Owners -> Cluster \cup {0}] /\ call.owner \in Owners
  BY DEF TypeOK, CallType
<1>2. \A o \in Owners : held'[o] = IF o = call.owner THEN c ELSE held[o]
  BY <1>1
<1>3. FirstsMarked'
  BY <1>1, <1>2 DEF Marks, FirstsMarked
<1>4. NewMarked' /\ BuiltMarked'
  BY DEF EndCall, NoCall, NewMarked, BuiltMarked, Linking, Writing, BuildCalls
<1> QED BY <1>3, <1>4 DEF Marks, LinksMarked

LEMMA FalseMarks ==
  ASSUME TypeOK, Marks, fat' = fat, ReturnFalse, call.op # "free"
  PROVE  Marks'
BY QuietMarks DEF ReturnFalse, EndCall, NoCall, Linking, Writing, BuildCalls

LEMMA FreeMarks ==
  ASSUME TypeOK, Marks, fat' = fat, ReturnFree
  PROVE  Marks'
<1>1. EndCall
  BY DEF ReturnFree, Return
<1>2. CASE call.op = "free"
  BY <1>1, <1>2, EndMarks DEF ReturnFree, Return
<1>3. CASE call.op # "free"
  BY <1>1, <1>3, EndMarks DEF ReturnFree, Return
<1> QED BY <1>2, <1>3

\* A reboot on a sound FAT finds everything marked.
LEMMA RebootMarks ==
  ASSUME TypeOK, Reboot, ~tainted'
  PROVE  Marks'
<1>1. DiskSound /\ fat' = fat /\ held' = disk /\ EndCall
  BY DEF Reboot
<1>2. LinksMarked' /\ FirstsMarked'
  BY <1>1 DEF DiskSound, LinksMarked, FirstsMarked
<1>3. NewMarked' /\ BuiltMarked'
  BY <1>1 DEF EndCall, NoCall, NewMarked, BuiltMarked, Linking, Writing, BuildCalls
<1> QED BY <1>2, <1>3 DEF Marks

\* Every step that meets no failure keeps the marks.
LEMMA MarksStep ==
  ASSUME TypeOK, Control, Naming, Mirrored, Marks, faults = 0, faults' = 0, ~tainted',
         [Next]_vars
  PROVE  Marks'
<1>1. CASE WriteFat
  BY <1>1, WriteMarks
<1>2. ~WriteFatFails /\ ~WalkReadFails /\ ~FreeReadFails /\ ~DataWriteFails
  BY SMT DEF TypeOK, Fault, WriteFatFails, WalkReadFails, FreeReadFails, DataWriteFails
\* The steps of a call that end in no new mark.
<1>3. ASSUME UNCHANGED <<fat, held>>, call'.op = call.op, call'.owner = call.owner,
             call'.first = call.first, pc' # "marked", ~Linking'
      PROVE  Marks'
  BY <1>3, QuietMarks DEF Marks, BuiltMarked
<1>4. CASE Scan
  <2>1. PICK c \in Cluster :
          SetNext(c, EndOfChain, "marked", [call EXCEPT !.new = c])
    BY <1>4 DEF Scan
  <2>2. pc' = "write" /\ write'.then = "marked" /\ call' = [call EXCEPT !.new = c]
    BY <2>1, ClusterIsValid DEF SetNext
  <2>3. call'.op = call.op /\ call'.owner = call.owner /\ call'.first = call.first
    BY <2>2 DEF TypeOK, CallType
  <2> QED BY <1>3, <1>4, <2>2, <2>3 DEF Scan, Linking, Writing
<1>5. CASE ScanFails
  <2>1. call.op # "free"
    BY <1>5, OpsDiffer DEF ScanFails, Control, CallControl
  <2> QED BY <1>5, <2>1, FalseMarks DEF ScanFails
<1>6. CASE Marked
  <2>1. /\ call.op \in AllocCalls /\ call.op # "free" /\ fat[1][call.new] # FREE
        /\ fat' = fat
    BY <1>6, OpsDiffer DEF Marked, Control, CallControl, Marking, Marks, NewMarked
  <2>2. CASE Return(call.new)
    BY <2>1, <2>2, EndMarks DEF Return
  <2>3. CASE call.op \in BuildCalls /\ pc' = "next"
             /\ call' = [call EXCEPT !.first = call.new] /\ UNCHANGED <<held, write, leaked>>
    <3>1. call'.op = call.op /\ call'.first = call.new
      BY <2>3 DEF TypeOK, CallType
    <3> QED BY <2>1, <2>3, <3>1, QuietMarks DEF Linking, Writing
  <2>4. CASE SetNext(call.curr, call.new, "linked", call) /\ UNCHANGED <<held, leaked>>
    <3>1. /\ call'.op = call.op /\ call'.first = call.first /\ call'.new = call.new
          /\ call'.owner = call.owner
      BY <2>4 DEF SetNext, TypeOK, CallType
    <3> QED BY <2>1, <2>4, <3>1, QuietMarks DEF Marks, BuiltMarked
  <2> QED BY <1>6, <2>2, <2>3, <2>4 DEF Marked, Allocated
<1>7. CASE BuildNext
  <2>1. UNCHANGED <<fat, held>> /\ call'.op = call.op /\ call'.owner = call.owner
        /\ call'.first = call.first
    BY <1>7 DEF BuildNext, SetNext, TypeOK, CallType
  <2>2. pc' # "marked" /\ ~Linking'
    BY <1>7 DEF BuildNext, SetNext, Linking, Writing
  <2> QED BY <1>3, <2>1, <2>2
<1>8. CASE BuildLinked
  <2>1. call.op # "free"
    BY <1>8, OpsDiffer DEF BuildLinked, BuildCalls
  <2>2. CASE ReturnFalse
    BY <1>8, <2>1, <2>2, FalseMarks DEF BuildLinked
  <2>3. CASE pc' = "next" /\ UNCHANGED <<call, write, held, leaked>>
    BY <1>3, <1>8, <2>3 DEF BuildLinked, Linking, Writing
  <2> QED BY <1>8, <2>2, <2>3 DEF BuildLinked
<1>9. CASE BuildEnded
  <2>1. call.op # "free" /\ fat' = fat /\ (call.first # 0 => fat[1][call.first] # FREE)
    BY <1>9, OpsDiffer DEF BuildEnded, BuildCalls, Marks, BuiltMarked
  <2>2. CASE ReturnFalse
    BY <2>1, <2>2, FalseMarks
  <2>3. CASE Return(call.first)
    BY <2>1, <2>3, EndMarks DEF Return
  <2> QED BY <1>9, <2>2, <2>3 DEF BuildEnded
<1>10. CASE Walk
  <2>1. UNCHANGED <<fat, held>> /\ call'.op = call.op /\ call'.owner = call.owner
        /\ call'.first = call.first
    BY <1>10 DEF Walk, TypeOK, CallType
  <2>2. pc' # "marked" /\ ~Linking'
    BY <1>10 DEF Walk, Linking, Writing
  <2> QED BY <1>3, <2>1, <2>2
<1>11. CASE AppendLinked
  <2>1. UNCHANGED <<fat, held>> /\ call'.op = call.op /\ call'.owner = call.owner
        /\ call'.first = call.first
    BY <1>11 DEF AppendLinked, SetNext, TypeOK, CallType
  <2>2. pc' # "marked" /\ ~Linking'
    BY <1>11 DEF AppendLinked, SetNext, Linking, Writing
  <2> QED BY <1>3, <2>1, <2>2
<1>12. CASE AppendEnded
  BY <1>12, EndMarks DEF AppendEnded, Return
<1>13. CASE Free
  <2>1. CASE ReturnFree
    BY <1>13, <2>1, FreeMarks DEF Free
  <2>2. CASE SetNext(call.curr, FREE, "freed", [call EXCEPT !.next = NextOf(call.curr)])
             /\ UNCHANGED <<held, leaked>>
    <3>1. call'.op = call.op /\ call'.owner = call.owner /\ call'.first = call.first
      BY <2>2 DEF SetNext, TypeOK, CallType
    <3>2. pc' # "marked" /\ ~Linking'
      BY <2>2 DEF SetNext, Linking, Writing
    <3> QED BY <1>3, <1>13, <2>2, <3>1, <3>2 DEF Free
  <2> QED BY <1>13, <2>1, <2>2 DEF Free
<1>14. CASE Freed
  <2>1. CASE ReturnFree
    BY <1>14, <2>1, FreeMarks DEF Freed
  <2>2. CASE pc' = "free" /\ call' = [call EXCEPT !.curr = call.next]
             /\ UNCHANGED <<held, write, leaked>>
    <3>1. call'.op = call.op /\ call'.owner = call.owner /\ call'.first = call.first
      BY <2>2 DEF TypeOK, CallType
    <3> QED BY <1>3, <1>14, <2>2, <3>1 DEF Freed, Linking, Writing
  <2> QED BY <1>14, <2>1, <2>2 DEF Freed
<1>15. CASE Cut
  <2>1. UNCHANGED <<fat, held>> /\ call.op = "cut"
    BY <1>15 DEF Cut, Control, CallControl
  <2>2. CASE pc' = "free" /\ call' = [call EXCEPT !.curr = call.next]
    <3>1. call'.op = call.op /\ call'.owner = call.owner /\ call'.first = call.first
      BY <2>2 DEF TypeOK, CallType
    <3> QED BY <1>3, <2>1, <2>2, <3>1 DEF Linking, Writing
  <2>3. CASE EndCall
    BY <2>1, <2>3, QuietMarks DEF EndCall, NoCall, Linking, Writing, BuildCalls
  <2> QED BY <1>15, <2>2, <2>3 DEF Cut
\* The beginning of a call.
<1>16. ASSUME pc = "idle", UNCHANGED <<fat, held>>, pc' # "marked", ~Linking', call'.first = 0
       PROVE  Marks'
  <2>1. call.op = "none"
    BY <1>16 DEF Control, CallControl
  <2> QED BY <1>16, <2>1, QuietMarks
<1>17. ASSUME NEW o \in Owners, CallAllocate(o)
       PROVE  Marks'
  BY <1>16, <1>17 DEF CallAllocate, NoCall, Linking, Writing
<1>18. ASSUME NEW o \in Owners, NEW op \in BuildCalls, NEW count \in 1 .. MaxCount,
              CallBuild(o, op, count)
       PROVE  Marks'
  BY <1>16, <1>18 DEF CallBuild, NoCall, Linking, Writing
<1>19. ASSUME NEW o \in Owners, CallAppend(o)
       PROVE  Marks'
  BY <1>16, <1>19 DEF CallAppend, NoCall, Linking, Writing
<1>20. ASSUME NEW o \in Owners, CallFree(o)
       PROVE  Marks'
  BY <1>16, <1>20 DEF CallFree, NoCall, Linking, Writing
<1>21. ASSUME NEW o \in Owners, NEW c \in Cluster, CallCut(o, c)
       PROVE  Marks'
  <2>1. PICK rest : CutAfter(o, c, rest)
    BY <1>21 DEF CallCut
  <2>2. /\ pc' = "write" /\ write'.then = "cut"
        /\ call' = [NoCall EXCEPT !.op = "cut", !.owner = o, !.curr = c, !.next = rest]
    BY <2>1, ClusterIsValid DEF CutAfter, SetNext
  <2>3. pc' # "marked" /\ ~Linking' /\ call'.first = 0
    BY <2>2 DEF Linking, Writing, NoCall
  <2> QED BY <1>16, <1>21, <2>3 DEF CallCut
<1>22. ASSUME NEW o \in Owners, Persist(o)
       PROVE  Marks'
  BY <1>22 DEF Persist, Marks, LinksMarked, FirstsMarked, NewMarked, BuiltMarked, Linking,
     Writing
<1>23. CASE Restart \/ Crash
  BY <1>23, RebootMarks DEF Restart, Crash
<1>24. CASE UNCHANGED vars
  BY <1>24 DEF vars, Marks, LinksMarked, FirstsMarked, NewMarked, BuiltMarked, Linking,
     Writing
<1> QED
  BY NextCases, <1>1, <1>2, <1>4, <1>5, <1>6, <1>7, <1>8, <1>9, <1>10, <1>11, <1>12,
     <1>13, <1>14, <1>15, <1>17, <1>18, <1>19, <1>20, <1>21, <1>22, <1>23, <1>24

LEMMA MarksInit == Init => Marks
<1> SUFFICES ASSUME Init PROVE Marks
  OBVIOUS
<1>1. fat[1] = [c \in FatIndex |->
                  IF c = 0 THEN MediaEntry ELSE IF c <= 2 THEN EndOfChain ELSE FREE]
  BY CopyOne DEF Init
<1>2. \A c \in Cluster : fat[1][c] \notin Cluster
  BY <1>1, Numbers
<1>3. fat[1][2] # FREE
  BY <1>1, Numbers, EntryValues DEF FatIndex
<1>4. FirstsMarked
  BY <1>3 DEF Init, FirstsMarked
<1> QED
  BY <1>2, <1>4 DEF Init, NoCall, Marks, LinksMarked, NewMarked, BuiltMarked, Linking,
                    Writing, BuildCalls

LEMMA RecoveryHolds == Spec => []RecoveryInv
<1>1. Init => RecoveryInv
  BY InitTypes, InitNaming, MirrorInit, MarksInit DEF RecoveryInv, Inductive
<1>2. RecoveryInv /\ Inductive' /\ [Next]_vars => RecoveryInv'
  <2> SUFFICES ASSUME RecoveryInv, Inductive', [Next]_vars
               PROVE  RecoveryInv'
    OBVIOUS
  <2>1. TypeOK /\ Control /\ Mirrored
    BY DEF RecoveryInv, Inductive
  <2>2. Mirrored'
    BY <2>1, MirroredStep
  <2>3. ASSUME faults' = 0, ~tainted' PROVE Marks'
    <3>1. faults = 0 /\ ~tainted
      BY <2>1, <2>3, CountsGrow, TaintStays
    <3> QED BY <2>1, <2>3, <3>1, MarksStep DEF RecoveryInv, Inductive
  <2> QED BY <2>2, <2>3 DEF RecoveryInv
<1> QED BY <1>1, <1>2, InductiveHolds, PTL DEF Spec

\* The machine may stop at any step of any call: the next run finds every cluster a
\* directory entry or a FAT entry names in use and named once, outside the two
\* windows of f_truncate and f_unlink.
THEOREM CrashesSafe == Spec => []CrashSafe
<1>1. RecoveryInv => CrashSafe
  <2> SUFFICES ASSUME RecoveryInv, faults = 0, ~tainted,
                      \A o \in Owners : disk[o] \in {0, held[o]},
                      call.op = "free" => disk[call.owner] = 0
               PROVE  DiskSound
    BY DEF CrashSafe
  <2>1. Marks /\ Links
    BY DEF RecoveryInv, Inductive, Naming
  <2>2. \A o \in Owners : disk[o] # 0 => disk[o] = held[o] /\ held[o] # 0
    OBVIOUS
  <2>3. \A o \in Owners : disk[o] # 0 => fat[1][disk[o]] # FREE
    BY <2>1, <2>2 DEF Marks, FirstsMarked
  <2>4. \A o \in Owners, c \in Cluster : disk[o] # 0 => fat[1][c] # disk[o]
    BY <2>1, <2>2 DEF Links, FirstsUnlinked
  <2>5. \A o, p \in Owners : disk[o] = disk[p] /\ disk[o] # 0 => o = p
    BY <2>1, <2>2 DEF Links, UniqueFirsts
  <2> QED BY <2>1, <2>3, <2>4, <2>5
      DEF DiskSound, Marks, LinksMarked, Links, UniqueSuccessors
<1> QED BY <1>1, RecoveryHolds, PTL
==============================================================================

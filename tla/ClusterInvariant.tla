-------------------------- MODULE ClusterInvariant --------------------------
(***************************************************************************)
(* The inductive invariant behind NoCrossLink: for every point of a call,  *)
(* what is known of the clusters in its local variables.                   *)
(***************************************************************************)
EXTENDS ClusterManager

\* The calls that allocate.
AllocCalls == BuildCalls \cup {"allocate", "append"}

Writing(then) == pc = "write" /\ write.then = then

\* Between the scan and the move of the hint.
Marking == pc = "marked" \/ Writing("marked")

Linking == pc = "linked" \/ Writing("linked")

-----------------------------------------------------------------------------
(* Control: where a call can be, and what it is writing there.             *)

WriteControl ==
  pc = "write" =>
    /\ write.copy \in Copies
    /\ write.cluster \in Cluster
    /\ \/ write.then = "marked" /\ write.value = EndOfChain /\ write.cluster = call.new
       \/ write.then = "linked" /\ write.value = call.new /\ write.cluster = call.curr
       \/ write.then = "ended" /\ write.value = EndOfChain
       \/ write.then = "freed" /\ write.value = FREE /\ write.cluster = call.curr
       \/ write.then = "cut" /\ write.value = EndOfChain /\ write.cluster = call.curr

CallControl ==
  /\ pc = "idle" => call.op = "none"
  /\ pc = "scan" \/ Marking => call.op \in AllocCalls
  /\ pc = "walk" => call.op = "append"
  /\ pc = "next" => call.op \in BuildCalls
  /\ pc \in {"free", "freed"} \/ Writing("freed") => call.op \in {"free", "cut"}
  /\ pc = "cut" \/ Writing("cut") => call.op = "cut" /\ call.curr \in Cluster
  /\ Marking => call.new \in hint .. TotalClusters
  /\ Linking => /\ call.new \in Cluster /\ call.new < hint
                /\ call.op \in BuildCalls => call.new # call.first
  /\ call.op \in BuildCalls /\ call.first # 0 => call.first < hint

Control == WriteControl /\ CallControl

-----------------------------------------------------------------------------
(* Naming: which clusters no entry and no first cluster points to.         *)

Unlinked(c) == \A d \in Cluster : fat[1][d] # c

Unnamed(c) == Unlinked(c) /\ \A o \in Owners : held[o] # c

\* While free runs, its owner still holds the first cluster.
OnlyFreeNames(c) ==
  /\ Unlinked(c)
  /\ \A o \in Owners : held[o] = c => call.op = "free" /\ call.owner = o

\* A free cluster the scan can reach.  Those below the hint may be linked: a
\* mark that failed is ignored by the code, only the hint protects them.
FreeUnnamed ==
  \A c \in hint .. TotalClusters : fat[1][c] = FREE => OnlyFreeNames(c)

AllocNames ==
  /\ Marking => Unnamed(call.new)
  /\ Writing("linked") /\ write.copy = 1 => Unnamed(call.new)
  /\ call.op \in BuildCalls /\ call.first # 0 => Unnamed(call.first)

\* The rest of the chain becomes unnamed when copy 1 no longer points to it.
RestNames ==
  call.next \in Cluster =>
    /\ Writing("freed") \/ Writing("cut") =>
         IF write.copy = 1 THEN fat[1][call.curr] = call.next ELSE Unnamed(call.next)
    /\ pc = "freed" /\ call.ok => Unnamed(call.next)
    /\ pc = "cut" /\ fat[1][call.curr] = EndOfChain => Unnamed(call.next)

FreeNames ==
  (pc = "free" \/ Writing("freed")) /\ call.curr \in Cluster => OnlyFreeNames(call.curr)

Links == UniqueSuccessors /\ UniqueFirsts /\ FirstsUnlinked /\ FreeUnnamed

Naming == Links /\ AllocNames /\ RestNames /\ FreeNames

\* Preserved by every step: the calls keep their own notes straight whatever
\* fails, and keep the FAT free of cross-links if they found it so.
Inductive == TypeOK /\ Control /\ (~tainted => Naming)
=============================================================================

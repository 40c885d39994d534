----------------------------- MODULE ChainStore -----------------------------
(***************************************************************************)
(* What the cluster allocator promises its callers, with no FAT in sight:  *)
(* every owner has a sequence of clusters, no cluster is on two of them,   *)
(* and each call changes one sequence in one indivisible step.  After a    *)
(* crash an owner whose first cluster had been saved has its chain as the  *)
(* last completed step left it; the others have lost theirs, and one whose *)
(* chain was dropped finds whatever its old directory entry leads to.      *)
(***************************************************************************)
EXTENDS Naturals, Sequences, FiniteSets

CONSTANTS
  Owners,       \* files and directories
  Root,         \* the root directory
  RootCluster,  \* its first cluster
  Clusters      \* the clusters of the volume

VARIABLES
  chains,  \* chains[o]: the clusters of o, in order
  saved,   \* the owners whose directory entry is up to date
  stale    \* those whose entry still names a chain that was dropped

storeVars == <<chains, saved, stale>>

ClustersOf(s) == {s[i] : i \in 1 .. Len(s)}

Fresh == Clusters \ UNION {ClustersOf(chains[o]) : o \in Owners}

\* The chains of n different fresh clusters.
FreshChains(n) ==
  {s \in [1 .. n -> Fresh] : \A i, j \in 1 .. n : s[i] = s[j] => i = j}

Init ==
  /\ chains = [o \in Owners |-> IF o = Root THEN <<RootCluster>> ELSE <<>>]
  /\ saved = Owners
  /\ stale = {}

\* A new chain, of any length, for an owner that had none.  It is saved already
\* if it begins where the dropped chain did that the entry still names.
Create(o) ==
  /\ chains[o] = <<>>
  /\ \E n \in 1 .. Cardinality(Fresh) : \E s \in FreshChains(n) :
       chains' = [chains EXCEPT ![o] = s]
  /\ saved' \in {saved \cup {o}, saved \ {o}}
  /\ stale' = stale \ saved'

\* One more cluster at the end of a chain.  The entry need not be saved again.
Extend(o) ==
  /\ chains[o] # <<>>
  /\ \E c \in Fresh : chains' = [chains EXCEPT ![o] = Append(@, c)]
  /\ UNCHANGED <<saved, stale>>

\* A shorter chain, not empty.
Shorten(o) ==
  /\ \E n \in 1 .. Len(chains[o]) : chains' = [chains EXCEPT ![o] = SubSeq(@, 1, n)]
  /\ UNCHANGED <<saved, stale>>

\* The whole chain given back.
Drop(o) ==
  /\ o # Root /\ chains[o] # <<>>
  /\ chains' = [chains EXCEPT ![o] = <<>>]
  /\ saved' = saved \ {o}
  /\ stale' = stale \cup (saved \cap {o})

Save(o) ==
  /\ saved' = saved \cup {o}
  /\ stale' = stale \ {o}
  /\ UNCHANGED chains

Crash ==
  /\ \A o \in saved : chains'[o] = chains[o]
  /\ \A o \in Owners \ (saved \cup stale) : chains'[o] = <<>>
  /\ saved' = Owners
  /\ stale' = {}

Next ==
  \/ \E o \in Owners : Create(o) \/ Extend(o) \/ Shorten(o) \/ Drop(o) \/ Save(o)
  \/ Crash

StoreSpec == Init /\ [][Next]_storeVars
=============================================================================

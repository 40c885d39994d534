------------------------------ MODULE FatCalls ------------------------------
(***************************************************************************)
(* The calls of cluster_manager.c as functions of a FAT f and an allocation*)
(* hint h, for the modules whose steps are whole calls.  ClusterManager    *)
(* takes the same calls apart into sector writes; here every sector of the *)
(* FAT can be read and written.                                            *)
(***************************************************************************)
EXTENDS FatTable

\* The FAT of an empty volume.
EmptyFat ==
  [c \in FatIndex |->
     IF c = 0 THEN MediaEntry ELSE IF c <= 2 THEN EndOfChain ELSE FREE]

Least(s) == CHOOSE c \in s : \A d \in s : c <= d

Greatest(s) == CHOOSE c \in s : \A d \in s : d <= c

\* A chain that never ends: cluster 2, the root directory's, is on no other.
Circular(f, c) == Len(ChainIn(f, c)) = TotalClusters

\* What fat32_allocate_cluster can hand out, in the order it finds them.
FreeIn(f, h) == {c \in h .. TotalClusters : f[c] = FREE}

\* The entry of an allocated cluster: the next one, or the end of the chain.
Linked(taken, c) ==
  LET after == {d \in taken : c < d} IN IF after = {} THEN EndOfChain ELSE Least(after)

\* Mutant: the hint skips a cluster.
HintSkips(taken, h) == IF taken = {} THEN h ELSE Greatest(taken) + 2

HintAfter(taken, h) == IF taken = {} THEN h ELSE Greatest(taken) + 1

\* fat32_allocate_cluster_chain(n), n > 0, and for n = 1 also
\* fat32_allocate_cluster.  When it runs out of clusters, the ones it got stay
\* allocated and linked.
Allocate(f, h, n) ==
  LET free  == FreeIn(f, h)
      taken == {c \in free : Cardinality({d \in free : d < c}) < n}
  IN  [ok    |-> Cardinality(taken) = n,
       first |-> IF taken = {} THEN 0 ELSE Least(taken),
       fat   |-> [c \in FatIndex |-> IF c \in taken THEN Linked(taken, c) ELSE f[c]],
       hint  |-> HintAfter(taken, h)]

\* Where the walk of fat32_append_cluster from c stops.  It follows a 0 to
\* entry 0, whose media value looks like an end of chain.
EndOf(f, c) ==
  LET chain == ChainIn(f, c)
  IN  IF chain # <<>> /\ IsEndOfChain(NextIn(f, chain[Len(chain)]))
      THEN chain[Len(chain)] ELSE 0

\* fat32_append_cluster(c).  Linking to entry 0 is refused, which the code does
\* not notice.
Append1(f, h, c) ==
  LET new  == Allocate(f, h, 1)
      last == EndOf(f, c)
  IN  IF new.ok /\ last # 0
      THEN [new EXCEPT !.fat[last] = new.first] ELSE new

\* fat32_free_cluster_chain(c).
Release(f, c) ==
  LET freed == OnChainIn(f, c)
  IN  [d \in FatIndex |-> IF d \in freed THEN FREE ELSE f[d]]
=============================================================================

----------------------------- MODULE FatChains -----------------------------
(***************************************************************************)
(* Lemmas about the chains of a FAT f of any size: that the walk of        *)
(* ChainIn ends, and what one changed entry does to the chains.            *)
(***************************************************************************)
EXTENDS FatCalls, SequenceTheorems, FiniteSetTheorems, WellFoundedInduction, TLAPS

\* Every lemma is about a table of the right type.
IsTable(f) == f \in [FatIndex -> Entry]

\* A run of links through clusters.
Path(f, s) ==
  /\ s \in Seq(Cluster) /\ Len(s) >= 1
  /\ \A i \in 1 .. Len(s) - 1 : f[s[i]] = s[i + 1]

\* A path that ends where the table names no further cluster.
Whole(f, s) == Path(f, s) /\ f[s[Len(s)]] \notin Cluster

Unique(f) == \A c, d \in Cluster : f[c] = f[d] /\ f[c] \in Cluster => c = d

NoLinkTo(f, c) == \A d \in Cluster : f[d] # c

\* Table g is table f with entry d changed to e.
Changed(f, g, d, e) ==
  IsTable(g) /\ \A x \in FatIndex : g[x] = IF x = d THEN e ELSE f[x]

-----------------------------------------------------------------------------
(* Induction, from the well-foundedness of the natural numbers.            *)

LEMMA InductionOnNat ==
  ASSUME NEW S, 0 \in S, \A n \in Nat : n \in S => n + 1 \in S
  PROVE  Nat \subseteq S
<1> DEFINE T == Nat \ S
<1> SUFFICES ASSUME T # {} PROVE FALSE
  OBVIOUS
<1>1. PICK x \in T : \A y \in T : ~ (<<y, x>> \in OpToRel(<, Nat))
  <2>1. T \subseteq Nat
    OBVIOUS
  <2> HIDE DEF T
  <2> QED BY <2>1, NatLessThanWellFounded, WFMin
<1>2. x # 0 /\ x \in Nat
  OBVIOUS
<1>3. x - 1 \in Nat /\ x - 1 < x
  BY <1>2, SMT
<1>4. x - 1 \notin S
  BY <1>2, <1>3, SMT
<1>5. <<x - 1, x>> \in OpToRel(<, Nat)
  BY <1>2, <1>3 DEF OpToRel
<1> QED BY <1>1, <1>3, <1>4, <1>5

\* The values the lemmas need.
LEMMA TableNumbers ==
  /\ TotalClusters \in Nat /\ TotalClusters >= 1
  /\ Cluster \subseteq FatIndex /\ FatIndex \subseteq Entry /\ 0 \in Entry
  /\ 0 \notin Cluster /\ EndOfChain \notin Cluster /\ MediaEntry \notin Cluster
  /\ EndOfChain # FREE /\ EndOfChain \in Entry /\ FREE = 0 /\ Cluster \subseteq Nat
BY TotalClustersAssumption, SMT
DEF Cluster, FatIndex, Entry, FREE, EndOfChain, MediaEntry, LastValidCluster

LEMMA ValidEntry ==
  ASSUME NEW e \in Entry
  PROVE  IsValidCluster(e) <=> e \in Cluster
BY TotalClustersAssumption, SMT
DEF Entry, FatIndex, Cluster, IsValidCluster, EndOfChain, MediaEntry, LastValidCluster

LEMMA NextInType ==
  ASSUME NEW f, IsTable(f), NEW e
  PROVE  NextIn(f, e) \in Entry
BY TableNumbers DEF NextIn, IsTable

-----------------------------------------------------------------------------
(* The walk.                                                               *)

\* One more turn of the walk.
Turn(f, g, n) ==
  [d \in Entry |-> IF n = 0 \/ ~IsValidCluster(d) THEN <<>>
                   ELSE <<d>> \o g[n - 1][NextIn(f, d)]]

LEMMA WalkExists ==
  ASSUME NEW f, NEW N \in Nat
  PROVE  \E g : g = [n \in 0 .. N |-> Turn(f, g, n)]
<1> DEFINE Good == {m \in Nat : \E g : g = [n \in 0 .. m |-> Turn(f, g, n)]}
<1>1. 0 \in Good
  <2> DEFINE g == [n \in 0 .. 0 |-> [d \in Entry |-> <<>>]]
  <2>1. \A n \in 0 .. 0 : n = 0
    BY SMT
  <2>2. \A n \in 0 .. 0 : Turn(f, g, n) = [d \in Entry |-> <<>>]
    BY <2>1, Zenon DEF Turn
  <2>3. g = [n \in 0 .. 0 |-> Turn(f, g, n)]
    BY <2>2
  <2> HIDE DEF g
  <2> QED BY <2>3
<1>2. \A m \in Nat : m \in Good => m + 1 \in Good
  <2> SUFFICES ASSUME NEW m \in Nat, m \in Good PROVE m + 1 \in Good
    OBVIOUS
  <2>1. PICK g : g = [n \in 0 .. m |-> Turn(f, g, n)]
    OBVIOUS
  <2> DEFINE k == [n \in 0 .. m + 1 |-> Turn(f, g, n)]
  <2>2. \A n \in 0 .. m : k[n] = g[n]
    BY <2>1, SMT
  <2>3. \A n \in 0 .. m + 1 : Turn(f, k, n) = Turn(f, g, n)
    <3> SUFFICES ASSUME NEW n \in 0 .. m + 1 PROVE Turn(f, k, n) = Turn(f, g, n)
      OBVIOUS
    <3>1. CASE n = 0
      BY <3>1, Zenon DEF Turn
    <3>2. CASE n # 0
      <4>1. n - 1 \in 0 .. m
        BY <3>2, SMT
      <4>2. k[n - 1] = g[n - 1]
        BY <2>2, <4>1
      <4> HIDE DEF k
      <4> QED BY <4>2, Zenon DEF Turn
    <3> QED BY <3>1, <3>2
  <2>4. k = [n \in 0 .. m + 1 |-> Turn(f, k, n)]
    BY <2>3, Zenon
  <2>5. m + 1 \in Nat
    BY SMT
  <2> HIDE DEF k
  <2> QED BY <2>4, <2>5
<1> HIDE DEF Good
<1>3. N \in Good
  BY <1>1, <1>2, InductionOnNat
<1> QED BY <1>3 DEF Good

LEMMA WalkOfChain ==
  ASSUME NEW f
  PROVE  \E g : /\ \A n \in 0 .. TotalClusters, d \in Entry :
                     g[n][d] = IF n = 0 \/ ~IsValidCluster(d) THEN <<>>
                               ELSE <<d>> \o g[n - 1][NextIn(f, d)]
                /\ \A c : ChainIn(f, c) = g[TotalClusters][c]
<1> DEFINE g == CHOOSE g : g = [n \in 0 .. TotalClusters |-> Turn(f, g, n)]
<1>1. g = [n \in 0 .. TotalClusters |-> Turn(f, g, n)]
  BY WalkExists, TableNumbers, Zenon
<1>2. \A c : ChainIn(f, c) = g[TotalClusters][c]
  BY Zenon DEF ChainIn, Turn
<1>3. \A n \in 0 .. TotalClusters : g[n] = Turn(f, g, n)
  <2> HIDE DEF g
  <2> QED BY <1>1, Zenon
<1> HIDE DEF g
<1>4. \A n \in 0 .. TotalClusters, d \in Entry :
        g[n][d] = IF n = 0 \/ ~IsValidCluster(d) THEN <<>>
                  ELSE <<d>> \o g[n - 1][NextIn(f, d)]
  BY <1>3, Zenon DEF Turn
<1> QED BY <1>2, <1>4

LEMMA NoChain ==
  ASSUME NEW f, NEW c \in Entry \ Cluster
  PROVE  ChainIn(f, c) = <<>>
<1>1. PICK g : /\ \A n \in 0 .. TotalClusters, d \in Entry :
                    g[n][d] = IF n = 0 \/ ~IsValidCluster(d) THEN <<>>
                              ELSE <<d>> \o g[n - 1][NextIn(f, d)]
               /\ \A e : ChainIn(f, e) = g[TotalClusters][e]
  BY WalkOfChain
<1>2. TotalClusters \in 0 .. TotalClusters
  BY TableNumbers, SMT
<1>3. c \in Entry /\ ~IsValidCluster(c)
  BY ValidEntry
<1>4. g[TotalClusters][c] = <<>>
  BY <1>1, <1>2, <1>3, Zenon
<1> QED BY <1>1, <1>4

\* The rest of a whole chain is a whole chain.
LEMMA RestOfChain ==
  ASSUME NEW f, NEW s, Whole(f, s), Len(s) # 1
  PROVE  /\ Whole(f, Tail(s)) /\ Len(Tail(s)) = Len(s) - 1
         /\ Tail(s)[1] = f[s[1]] /\ s = <<s[1]>> \o Tail(s)
<1>0. s \in Seq(Cluster) /\ Len(s) \in Nat /\ Len(s) >= 1
  BY LenProperties DEF Whole, Path
<1>1. s \in Seq(Cluster) /\ Len(s) \in Nat /\ Len(s) > 1 /\ s # <<>>
  <2>1. Len(s) > 1
    <3>1. \A n \in Nat : n >= 1 /\ n # 1 => n > 1
      BY SMT
    <3> QED BY <1>0, <3>1, Zenon
  <2>2. Len(<<>>) = 0
    BY EmptySeq
  <2> QED BY <1>0, <2>1, <2>2
<1>2. /\ Tail(s) \in Seq(Cluster) /\ Len(Tail(s)) = Len(s) - 1
      /\ \A i \in 1 .. Len(s) - 1 : Tail(s)[i] = s[i + 1]
  BY <1>1
<1>3. Len(Tail(s)) >= 1
  BY <1>1, <1>2, SMT
<1>4. Tail(s)[Len(Tail(s))] = s[Len(s)]
  BY <1>1, <1>2
<1>5. \A i \in 1 .. Len(Tail(s)) - 1 : f[Tail(s)[i]] = Tail(s)[i + 1]
  <2> SUFFICES ASSUME NEW i \in 1 .. Len(Tail(s)) - 1
               PROVE  f[Tail(s)[i]] = Tail(s)[i + 1]
    OBVIOUS
  <2>1. i + 1 \in 1 .. Len(s) - 1 /\ i \in 1 .. Len(s) - 1
    BY <1>1, <1>2
  <2>2. f[s[i + 1]] = s[i + 1 + 1]
    BY <2>1 DEF Whole, Path
  <2> QED BY <1>2, <2>1, <2>2
<1>6. Tail(s)[1] = f[s[1]]
  BY <1>1, <1>2 DEF Whole, Path
<1>7. s = <<s[1]>> \o Tail(s)
  BY <1>1, <1>2
<1> QED BY <1>2, <1>3, <1>4, <1>5, <1>6, <1>7 DEF Whole, Path

\* The walk visits exactly a whole chain, if it is not longer than the volume.
LEMMA ChainIs ==
  ASSUME NEW f, IsTable(f), NEW s, Whole(f, s), Len(s) <= TotalClusters
  PROVE  ChainIn(f, s[1]) = s
<1>1. PICK g : /\ \A n \in 0 .. TotalClusters, d \in Entry :
                    g[n][d] = IF n = 0 \/ ~IsValidCluster(d) THEN <<>>
                              ELSE <<d>> \o g[n - 1][NextIn(f, d)]
               /\ \A c : ChainIn(f, c) = g[TotalClusters][c]
  BY WalkOfChain
<1> DEFINE Right(t, m) ==
             Len(t) = m + 1 /\ Whole(f, t) => \A n \in m + 1 .. TotalClusters : g[n][t[1]] = t
           Good == {m \in Nat : \A t \in Seq(Cluster) : Right(t, m)}
\* One step, whatever comes after it.
<1>2. ASSUME NEW t \in Seq(Cluster), Whole(f, t), NEW n \in 1 .. TotalClusters
      PROVE  g[n][t[1]] = <<t[1]>> \o g[n - 1][f[t[1]]]
  <2>1. t[1] \in Cluster
    BY <1>2 DEF Whole, Path
  <2>2. t[1] \in Entry /\ IsValidCluster(t[1]) /\ t[1] \in FatIndex
    BY <2>1, ValidEntry, TableNumbers
  <2>3. NextIn(f, t[1]) = f[t[1]]
    BY <2>2 DEF NextIn
  <2>4. n \in 0 .. TotalClusters /\ n # 0
    BY TableNumbers
  <2> QED BY <1>1, <2>2, <2>3, <2>4
<1>3. 0 \in Good
  <2> SUFFICES ASSUME NEW t \in Seq(Cluster), Len(t) = 1, Whole(f, t),
                      NEW n \in 1 .. TotalClusters
               PROVE  g[n][t[1]] = t
    BY SMT
  <2>1. f[t[1]] \notin Cluster /\ t[1] \in Cluster
    <3>1. t[1] \in Cluster
      <4>1. 1 \in 1 .. Len(t)
        BY SMT
      <4> QED BY <4>1, ElementOfSeq
    <3> QED BY <3>1 DEF Whole
  <2>2. f[t[1]] \in Entry
    BY <2>1, TableNumbers DEF IsTable
  <2>3. n - 1 \in 0 .. TotalClusters
    BY TableNumbers
  <2>4. g[n - 1][f[t[1]]] = <<>>
    BY <1>1, <2>1, <2>2, <2>3, ValidEntry
  <2>5. <<t[1]>> \o <<>> = t
    OBVIOUS
  <2> QED BY <1>2, <2>4, <2>5
<1>4. \A m \in Nat : m \in Good => m + 1 \in Good
  <2> SUFFICES ASSUME NEW m \in Nat, \A t \in Seq(Cluster) : Right(t, m),
                      NEW t \in Seq(Cluster), Len(t) = m + 2, Whole(f, t),
                      NEW n \in m + 2 .. TotalClusters
               PROVE  g[n][t[1]] = t
    BY SMT
  <2>1. /\ Whole(f, Tail(t)) /\ Len(Tail(t)) = m + 1 /\ Tail(t)[1] = f[t[1]]
        /\ t = <<t[1]>> \o Tail(t) /\ Tail(t) \in Seq(Cluster)
    <3>1. Len(t) # 1 /\ Len(t) - 1 = m + 1
      BY SMT
    <3>2. /\ Whole(f, Tail(t)) /\ Len(Tail(t)) = Len(t) - 1
          /\ Tail(t)[1] = f[t[1]] /\ t = <<t[1]>> \o Tail(t)
      BY <3>1, RestOfChain
    <3>3. Tail(t) \in Seq(Cluster)
      BY <3>2 DEF Whole, Path
    <3> QED BY <3>1, <3>2, <3>3
  <2>2. n - 1 \in m + 1 .. TotalClusters /\ n \in 1 .. TotalClusters
    BY TableNumbers
  <2>3. g[n - 1][Tail(t)[1]] = Tail(t)
    BY <2>1, <2>2
  <2>4. g[n][t[1]] = <<t[1]>> \o g[n - 1][f[t[1]]]
    BY <1>2, <2>2
  <2>5. g[n][t[1]] = <<t[1]>> \o Tail(t)
    BY <2>1, <2>3, <2>4, Zenon
  <2> QED BY <2>1, <2>5, Zenon
<1> HIDE DEF Good
<1>5. Nat \subseteq Good
  BY <1>3, <1>4, InductionOnNat
<1>6. s \in Seq(Cluster) /\ Len(s) \in Nat /\ Len(s) >= 1
  BY DEF Whole, Path
<1>7. Len(s) - 1 \in Good
  BY <1>5, <1>6
<1>8. Len(s) = Len(s) - 1 + 1 /\ TotalClusters \in Len(s) - 1 + 1 .. TotalClusters
  BY <1>6, TableNumbers
<1>9. Right(s, Len(s) - 1)
  BY <1>6, <1>7 DEF Good
<1> QED BY <1>1, <1>8, <1>9

-----------------------------------------------------------------------------
(* Paths from clusters nothing points to.                                  *)

LEMMA PathFacts ==
  ASSUME NEW f, NEW s, Path(f, s)
  PROVE  /\ Len(s) \in Nat /\ Len(s) >= 1 /\ 1 \in 1 .. Len(s) /\ Len(s) \in 1 .. Len(s)
         /\ s \in Seq(Cluster) /\ DOMAIN s = 1 .. Len(s)
         /\ \A i \in 1 .. Len(s) : s[i] \in Cluster
         /\ \A i \in 1 .. Len(s) : i > 1 => i - 1 \in 1 .. Len(s) /\ f[s[i - 1]] = s[i]
<1>1. s \in Seq(Cluster) /\ Len(s) \in Nat /\ DOMAIN s = 1 .. Len(s) /\ Len(s) >= 1
  BY LenProperties DEF Path
<1>2. \A n \in Nat : n >= 1 => 1 \in 1 .. n /\ n \in 1 .. n
  BY SMT
<1>3. \A i \in 1 .. Len(s) : s[i] \in Cluster
  BY <1>1, ElementOfSeq
<1>4. ASSUME NEW i \in 1 .. Len(s), i > 1
      PROVE  i - 1 \in 1 .. Len(s) /\ f[s[i - 1]] = s[i]
  <2>1. \A n \in Nat : \A k \in 1 .. n :
          k > 1 => k - 1 \in 1 .. n - 1 /\ k - 1 \in 1 .. n /\ k - 1 + 1 = k
    BY SMT
  <2>2. i - 1 \in 1 .. Len(s) - 1 /\ i - 1 \in 1 .. Len(s) /\ i - 1 + 1 = i
    BY <1>1, <1>4, <2>1
  <2>3. f[s[i - 1]] = s[i - 1 + 1]
    BY <2>2 DEF Path
  <2> QED BY <2>2, <2>3
<1> QED BY <1>1, <1>2, <1>3, <1>4

\* Two paths that meet are at the same distance from the same start.
LEMMA PathsMeet ==
  ASSUME NEW f, Unique(f), NEW s, Path(f, s), NoLinkTo(f, s[1]),
         NEW t, Path(f, t), NoLinkTo(f, t[1]),
         NEW i \in 1 .. Len(s), NEW j \in 1 .. Len(t), s[i] = t[j]
  PROVE  i = j /\ s[1] = t[1]
<1> DEFINE Met(n) == \A k \in 1 .. Len(t) :
                       n + 1 \in 1 .. Len(s) /\ s[n + 1] = t[k] => n + 1 = k /\ s[1] = t[1]
           Good == {n \in Nat : Met(n)}
<1>0. Len(s) \in Nat /\ Len(t) \in Nat
  BY PathFacts
<1>1. 0 \in Good
  <2> SUFFICES ASSUME NEW k \in 1 .. Len(t), s[0 + 1] = t[k]
               PROVE  0 + 1 = k /\ s[1] = t[1]
    OBVIOUS
  <2>1. s[1] = t[k]
    BY SMT
  <2>2. ~ (k > 1)
    BY <2>1, PathFacts DEF NoLinkTo
  <2>3. k = 1
    BY <1>0, <2>2, SMT
  <2> QED BY <2>1, <2>3
<1>2. \A n \in Nat : n \in Good => n + 1 \in Good
  <2> SUFFICES ASSUME NEW n \in Nat, Met(n), NEW k \in 1 .. Len(t),
                      n + 1 + 1 \in 1 .. Len(s), s[n + 1 + 1] = t[k]
               PROVE  n + 1 + 1 = k /\ s[1] = t[1]
    BY SMT
  <2>1. n + 1 \in 1 .. Len(s) /\ n + 1 + 1 > 1 /\ n + 1 + 1 - 1 = n + 1
    BY <1>0, SMT
  <2>2. f[s[n + 1]] = s[n + 1 + 1] /\ s[n + 1] \in Cluster
    BY <2>1, PathFacts
  <2>3. k # 1
    BY <2>2 DEF NoLinkTo
  <2>4. k > 1
    BY <1>0, <2>3, SMT
  <2>5. k - 1 \in 1 .. Len(t) /\ f[t[k - 1]] = t[k] /\ t[k - 1] \in Cluster /\ t[k] \in Cluster
    BY <2>4, PathFacts
  <2>6. s[n + 1] = t[k - 1]
    BY <2>2, <2>5 DEF Unique
  <2>7. n + 1 = k - 1 /\ s[1] = t[1]
    BY <2>1, <2>5, <2>6
  <2> QED BY <1>0, <2>7, SMT
<1> HIDE DEF Good
<1>3. Nat \subseteq Good
  BY <1>1, <1>2, InductionOnNat
<1>4. i - 1 \in Nat /\ i - 1 + 1 = i
  BY <1>0, SMT
<1>5. Met(i - 1)
  BY <1>3, <1>4 DEF Good
<1> QED BY <1>4, <1>5

\* A path without repetition has no more clusters than the volume.
LEMMA SimplePathShort ==
  ASSUME NEW f, NEW s, Path(f, s),
         \A i, j \in 1 .. Len(s) : s[i] = s[j] => i = j
  PROVE  Len(s) <= TotalClusters
<1>1. Len(s) \in Nat /\ DOMAIN s = 1 .. Len(s) /\ s \in [1 .. Len(s) -> Cluster]
  BY PathFacts, LenProperties
<1>2. IsFiniteSet(1 .. Len(s)) /\ Cardinality(1 .. Len(s)) = Len(s)
  <2>1. 1 \in Int /\ Len(s) \in Int
    BY <1>1, SMT
  <2>2. 1 > Len(s) => Len(s) = 0
    BY <1>1, SMT
  <2>3. Len(s) - 1 + 1 = Len(s)
    BY <1>1, SMT
  <2> QED BY <2>1, <2>2, <2>3, FS_Interval, Zenon
<1>3. IsFiniteSet(Cluster) /\ Cardinality(Cluster) = TotalClusters
  <2>1. ASSUME NEW a \in Int, NEW b \in Int, ~ (a > b)
        PROVE  IsFiniteSet(a .. b) /\ Cardinality(a .. b) = b - a + 1
    BY <2>1, FS_Interval, Zenon
  <2> DEFINE b == TotalClusters + 1
  <2>2. Cluster = 2 .. b
    BY DEF Cluster
  <2>3. 2 \in Int /\ b \in Int /\ ~ (2 > b) /\ b - 2 + 1 = TotalClusters
    BY TableNumbers, SMT
  <2> HIDE DEF b
  <2>4. IsFiniteSet(2 .. b) /\ Cardinality(2 .. b) = b - 2 + 1
    BY <2>1, <2>3, Zenon
  <2> QED BY <2>2, <2>3, <2>4
<1> SUFFICES ASSUME ~ (Len(s) <= TotalClusters) PROVE FALSE
  OBVIOUS
<1>4. Cardinality(Cluster) < Cardinality(1 .. Len(s))
  BY <1>1, <1>2, <1>3, TableNumbers, SMT
<1>5. PICK i, j \in 1 .. Len(s) : i # j /\ s[i] = s[j]
  BY <1>1, <1>2, <1>3, <1>4, FS_PigeonHole
<1> QED BY <1>5

LEMMA PathShort ==
  ASSUME NEW f, Unique(f), NEW s, Path(f, s), NoLinkTo(f, s[1])
  PROVE  Len(s) <= TotalClusters
<1>1. \A i, j \in 1 .. Len(s) : s[i] = s[j] => i = j
  BY PathsMeet
<1> QED BY <1>1, SimplePathShort

-----------------------------------------------------------------------------
(* The chain of a cluster nothing points to.                               *)

\* What the lemmas below require of a table and a first cluster.
First(f, c) == IsTable(f) /\ Unique(f) /\ c \in Cluster /\ NoLinkTo(f, c)

LEMMA AppendPath ==
  ASSUME NEW f, NEW s, Path(f, s), NEW e \in Cluster, f[s[Len(s)]] = e
  PROVE  Path(f, Append(s, e)) /\ Append(s, e)[1] = s[1] /\ Len(Append(s, e)) = Len(s) + 1
<1> DEFINE t == Append(s, e)
<1>1. /\ Len(s) \in Nat /\ Len(s) >= 1 /\ 1 \in 1 .. Len(s) /\ s \in Seq(Cluster)
  BY PathFacts
<1>2. /\ t \in Seq(Cluster) /\ Len(t) = Len(s) + 1
      /\ \A i \in 1 .. Len(s) : t[i] = s[i] /\ t[Len(s) + 1] = e
  BY <1>1, AppendProperties
<1> HIDE DEF t
<1>3. Len(t) >= 1
  BY <1>1, <1>2, SMT
<1>4. ASSUME NEW i \in 1 .. Len(t) - 1 PROVE f[t[i]] = t[i + 1]
  <2>1. i \in 1 .. Len(s)
    BY <1>1, <1>2, SMT
  <2>2. CASE i = Len(s)
    BY <1>2, <2>1, <2>2
  <2>3. CASE i # Len(s)
    <3>1. i \in 1 .. Len(s) - 1 /\ i + 1 \in 1 .. Len(s)
      BY <1>1, <2>1, <2>3, SMT
    <3>2. f[s[i]] = s[i + 1]
      BY <3>1 DEF Path
    <3> QED BY <1>2, <2>1, <3>1, <3>2
  <2> QED BY <2>2, <2>3
<1>5. Path(f, t) /\ t[1] = s[1] /\ Len(t) = Len(s) + 1
  BY <1>1, <1>2, <1>3, <1>4 DEF Path
<1> QED BY <1>5 DEF t

LEMMA WholePathExists ==
  ASSUME NEW f, NEW c, First(f, c)
  PROVE  \E s \in Seq(Cluster) : Whole(f, s) /\ s[1] = c /\ Len(s) <= TotalClusters
<1> DEFINE Ends == \E s \in Seq(Cluster) : Whole(f, s) /\ s[1] = c
           Good == {n \in Nat : Ends \/ \E s \in Seq(Cluster) :
                                          Path(f, s) /\ s[1] = c /\ Len(s) = n + 1}
<1>1. 0 \in Good
  <2> DEFINE s == <<c>>
  <2>1. s \in Seq(Cluster) /\ Len(s) = 1 /\ s[1] = c
    BY DEF First
  <2>2. 1 .. Len(s) - 1 = {} /\ Len(s) >= 1 /\ Len(s) = 0 + 1
    BY <2>1, SMT
  <2> HIDE DEF s
  <2>3. Path(f, s)
    BY <2>1, <2>2 DEF Path
  <2> QED BY <2>1, <2>2, <2>3
<1>2. \A n \in Nat : n \in Good => n + 1 \in Good
  <2>3. \A n \in Nat : n + 1 \in Nat
    BY SMT
  <2> SUFFICES ASSUME NEW n \in Nat, n \in Good, ~Ends PROVE n + 1 \in Good
    BY <2>3, Zenon
  <2>4. PICK s \in Seq(Cluster) : Path(f, s) /\ s[1] = c /\ Len(s) = n + 1
    BY Zenon
  <2>1. CASE f[s[Len(s)]] \in Cluster
    <3> DEFINE t == Append(s, f[s[Len(s)]])
    <3>1. Path(f, t) /\ t[1] = c /\ Len(t) = n + 1 + 1
      BY <2>1, <2>4, AppendPath
    <3>2. t \in Seq(Cluster)
      BY <3>1 DEF Path
    <3>3. n + 1 \in Nat
      BY SMT
    <3> HIDE DEF t
    <3> QED BY <3>1, <3>2, <3>3
  <2>2. CASE f[s[Len(s)]] \notin Cluster
    <3>1. Whole(f, s) /\ n + 1 \in Nat
      BY <2>2, <2>3, <2>4 DEF Whole
    <3> QED BY <2>4, <3>1
  <2> QED BY <2>1, <2>2
<1> HIDE DEF Good
<1>3. TotalClusters \in Good
  BY <1>1, <1>2, InductionOnNat, TableNumbers
<1>4. ASSUME NEW s \in Seq(Cluster), Path(f, s), s[1] = c
      PROVE  Len(s) <= TotalClusters
  BY <1>4, PathShort DEF First
<1>5. Ends
  <2>1. ASSUME NEW s \in Seq(Cluster), Path(f, s), s[1] = c, Len(s) = TotalClusters + 1
        PROVE  FALSE
    <3>1. Len(s) <= TotalClusters
      BY <1>4, <2>1
    <3>2. ~ (TotalClusters + 1 <= TotalClusters)
      BY TableNumbers, SMT
    <3> QED BY <2>1, <3>1, <3>2
  <2> QED BY <1>3, <2>1 DEF Good
<1> QED BY <1>4, <1>5 DEF Whole

\* The chain of a first cluster: a whole path, without repetition.
LEMMA ChainOfFirst ==
  ASSUME NEW f, NEW c, First(f, c)
  PROVE  /\ Whole(f, ChainIn(f, c)) /\ ChainIn(f, c)[1] = c
         /\ Len(ChainIn(f, c)) <= TotalClusters
<1>1. PICK s \in Seq(Cluster) : Whole(f, s) /\ s[1] = c /\ Len(s) <= TotalClusters
  BY WholePathExists
<1>2. ChainIn(f, c) = s
  BY <1>1, ChainIs DEF First
<1> QED BY <1>1, <1>2

\* The chains of two first clusters have no cluster in common, and no chain visits
\* a cluster twice.
LEMMA ChainsApart ==
  ASSUME NEW f, NEW c, First(f, c), NEW d, First(f, d),
         NEW i \in 1 .. Len(ChainIn(f, c)), NEW j \in 1 .. Len(ChainIn(f, d)),
         ChainIn(f, c)[i] = ChainIn(f, d)[j]
  PROVE  i = j /\ c = d
<1>1. /\ Path(f, ChainIn(f, c)) /\ ChainIn(f, c)[1] = c
      /\ Path(f, ChainIn(f, d)) /\ ChainIn(f, d)[1] = d
  BY ChainOfFirst DEF Whole
<1>2. Unique(f) /\ NoLinkTo(f, c) /\ NoLinkTo(f, d)
  BY DEF First
<1> QED BY <1>1, <1>2, PathsMeet

\* A cluster nothing points to is on no chain but its own.
LEMMA OffChain ==
  ASSUME NEW f, NEW c, First(f, c), NEW d, NoLinkTo(f, d), d # c,
         NEW i \in 1 .. Len(ChainIn(f, c))
  PROVE  ChainIn(f, c)[i] # d
<1>1. Path(f, ChainIn(f, c)) /\ ChainIn(f, c)[1] = c
  BY ChainOfFirst DEF Whole
<1>2. CASE i > 1
  BY <1>1, <1>2, PathFacts DEF NoLinkTo
<1>3. CASE ~ (i > 1)
  <2>1. i = 1
    BY <1>1, <1>3, PathFacts, SMT
  <2> QED BY <1>1, <2>1
<1> QED BY <1>2, <1>3

\* A chain is the same in a table that has the same entries along it.
LEMMA SameChain ==
  ASSUME NEW f, NEW c, First(f, c), NEW g, IsTable(g),
         \A i \in 1 .. Len(ChainIn(f, c)) : g[ChainIn(f, c)[i]] = f[ChainIn(f, c)[i]]
  PROVE  ChainIn(g, c) = ChainIn(f, c)
<1> DEFINE s == ChainIn(f, c)
<1>1. Whole(f, s) /\ s[1] = c /\ Len(s) <= TotalClusters
  BY ChainOfFirst
<1>2. Path(f, s) /\ \A i \in 1 .. Len(s) : g[s[i]] = f[s[i]]
  BY <1>1 DEF Whole
<1> HIDE DEF s
<1>3. \A n \in Nat : \A i \in 1 .. n - 1 : i \in 1 .. n
  BY SMT
<1>4. Path(g, s) /\ Len(s) \in 1 .. Len(s)
  BY <1>2, <1>3, PathFacts DEF Path
<1>5. Whole(g, s)
  BY <1>1, <1>2, <1>4 DEF Whole
<1>6. ChainIn(g, c) = s
  BY <1>1, <1>5, ChainIs
<1> QED BY <1>6 DEF s

\* The last cluster of a chain is the one with no successor.
LEMMA LastOfChain ==
  ASSUME NEW f, NEW s, Path(f, s), NEW i \in 1 .. Len(s), f[s[i]] \notin Cluster
  PROVE  i = Len(s)
<1>1. Len(s) \in Nat /\ \A j \in 1 .. Len(s) : s[j] \in Cluster
  BY PathFacts
<1> SUFFICES ASSUME i # Len(s) PROVE FALSE
  OBVIOUS
<1>2. i \in 1 .. Len(s) - 1 /\ i + 1 \in 1 .. Len(s)
  BY <1>1, SMT
<1>3. f[s[i]] = s[i + 1]
  BY <1>2 DEF Path
<1> QED BY <1>1, <1>2, <1>3

\* What follows a cluster on a chain is the next one.
LEMMA NextOfChain ==
  ASSUME NEW f, NEW s, Path(f, s), NEW i \in 1 .. Len(s), f[s[i]] \in Cluster, Whole(f, s)
  PROVE  i + 1 \in 1 .. Len(s) /\ s[i + 1] = f[s[i]]
<1>1. i # Len(s)
  BY DEF Whole
<1>2. i \in 1 .. Len(s) - 1 /\ i + 1 \in 1 .. Len(s)
  BY <1>1, PathFacts, SMT
<1> QED BY <1>2 DEF Path

\* Linking the last cluster of a chain to a cluster that nothing points to and
\* that points to none.
LEMMA LinkChain ==
  ASSUME NEW f, NEW c, First(f, c), NEW e \in Cluster, NoLinkTo(f, e), e # c,
         f[e] \notin Cluster, NEW i \in 1 .. Len(ChainIn(f, c)),
         NEW d, d = ChainIn(f, c)[i], f[d] \notin Cluster,
         NEW g, Changed(f, g, d, e)
  PROVE  ChainIn(g, c) = Append(ChainIn(f, c), e)
<1> DEFINE s == ChainIn(f, c)
           t == Append(s, e)
<1>1. Whole(f, s) /\ Path(f, s) /\ s[1] = c /\ Len(s) <= TotalClusters
  BY ChainOfFirst DEF Whole
<1>2. i = Len(s)
  BY <1>1, LastOfChain
<1>3. /\ s \in Seq(Cluster) /\ Len(s) \in Nat /\ 1 \in 1 .. Len(s) /\ Len(s) >= 1
      /\ \A j \in 1 .. Len(s) : s[j] \in Cluster
  BY <1>1, PathFacts
<1>4. d # e
  BY OffChain
<1>5. \A j \in 1 .. Len(s) : s[j] = d => j = i
  BY <1>1, PathsMeet DEF First
<1>6. f \in [FatIndex -> Entry] /\ Cluster \subseteq FatIndex /\ FatIndex \subseteq Entry
  BY TableNumbers DEF First, IsTable
<1>7. d \in Cluster
  BY <1>3
<1>8. IsTable(g) /\ \A x \in FatIndex : g[x] = IF x = d THEN e ELSE f[x]
  BY DEF Changed
<1>9. Unique(g) /\ NoLinkTo(g, c)
  BY <1>6, <1>7, <1>8 DEF First, Unique, NoLinkTo
<1>10. s[i] = d /\ f[e] \notin Cluster /\ i = Len(s) /\ Path(f, s) /\ s[1] = c
  BY <1>1, <1>2
<1> HIDE DEF s
<1>11. Path(g, s)
  <2> SUFFICES ASSUME NEW j \in 1 .. Len(s) - 1 PROVE g[s[j]] = s[j + 1]
    BY <1>3 DEF Path
  <2>1. j \in 1 .. Len(s) /\ j # Len(s)
    BY <1>3, SMT
  <2>2. s[j] # d /\ s[j] \in FatIndex
    BY <1>3, <1>5, <1>6, <1>10, <2>1
  <2> QED BY <1>8, <1>10, <2>2 DEF Path
<1>12. g[s[Len(s)]] = e
  BY <1>6, <1>7, <1>8, <1>10
<1>13. Path(g, t) /\ t[1] = c /\ Len(t) = Len(s) + 1
  BY <1>10, <1>11, <1>12, AppendPath
<1>14. t[Len(t)] = e
  BY <1>3, <1>13, AppendProperties
<1>15. g[e] \notin Cluster
  BY <1>4, <1>6, <1>8, <1>10
<1> HIDE DEF t
<1>16. Whole(g, t)
  BY <1>13, <1>14, <1>15 DEF Whole
<1>17. Len(t) <= TotalClusters
  BY <1>9, <1>13, PathShort
<1>18. ChainIn(g, c) = t
  BY <1>8, <1>13, <1>16, <1>17, ChainIs
<1> QED BY <1>18 DEF t, s

\* The first n clusters of a path, and those from its n-th on.
LEMMA PathPieces ==
  ASSUME NEW f, NEW s, Path(f, s), NEW n \in 1 .. Len(s)
  PROVE  /\ Path(f, SubSeq(s, 1, n)) /\ Len(SubSeq(s, 1, n)) = n
         /\ \A i \in 1 .. n : SubSeq(s, 1, n)[i] = s[i]
         /\ Path(f, SubSeq(s, n, Len(s))) /\ Len(SubSeq(s, n, Len(s))) = Len(s) - n + 1
         /\ \A i \in 1 .. Len(s) - n + 1 : SubSeq(s, n, Len(s))[i] = s[n + i - 1]
<1> DEFINE a == SubSeq(s, 1, n)
           b == SubSeq(s, n, Len(s))
           L == Len(s)
<1>1. /\ L \in Nat /\ L >= 1 /\ \A i \in 1 .. L : s[i] \in Cluster
      /\ \A i \in 1 .. L - 1 : f[s[i]] = s[i + 1]
  BY PathFacts DEF Path
<1> HIDE DEF L
<1>2. n \in 1 .. L
  BY DEF L
<1>3. /\ n \in Int /\ 1 \in Int /\ L \in Int /\ 1 <= n /\ n <= L /\ n - 1 + 1 = n
      /\ \A i \in 1 .. n : i \in 1 .. L /\ 1 + i - 1 = i
      /\ \A i \in n .. L : i \in 1 .. L
      /\ \A i \in 1 .. n - 1 : i \in 1 .. n /\ i + 1 \in 1 .. n /\ i \in 1 .. L - 1
      /\ \A i \in 1 .. L - n + 1 - 1 :
           /\ i \in 1 .. L - n + 1 /\ i + 1 \in 1 .. L - n + 1
           /\ n + i - 1 \in 1 .. L - 1 /\ n + i - 1 + 1 = n + (i + 1) - 1
      /\ L - n + 1 >= 1
  BY <1>1, <1>2, SMT
<1>4. a \in Seq(Cluster) /\ Len(a) = n /\ \A i \in 1 .. n : a[i] = s[i]
  <2>1. /\ a \in Seq(Cluster) /\ Len(a) = IF 1 <= n THEN n - 1 + 1 ELSE 0
        /\ \A i \in 1 .. n - 1 + 1 : a[i] = s[1 + i - 1]
    BY <1>1, <1>3, SubSeqProperties
  <2> HIDE DEF a
  <2> QED BY <1>3, <2>1
<1>5. /\ b \in Seq(Cluster) /\ Len(b) = L - n + 1
      /\ \A i \in 1 .. L - n + 1 : b[i] = s[n + i - 1]
  <2>1. /\ SubSeq(s, n, L) \in Seq(Cluster)
        /\ Len(SubSeq(s, n, L)) = IF n <= L THEN L - n + 1 ELSE 0
        /\ \A i \in 1 .. L - n + 1 : SubSeq(s, n, L)[i] = s[n + i - 1]
    BY <1>1, <1>3, SubSeqProperties
  <2>2. b = SubSeq(s, n, L)
    BY DEF L
  <2> HIDE DEF b
  <2> QED BY <1>3, <2>1, <2>2
<1> HIDE DEF a, b
<1>6. Path(f, a)
  <2>1. Len(a) >= 1
    BY <1>3, <1>4
  <2>2. ASSUME NEW i \in 1 .. n - 1 PROVE f[a[i]] = a[i + 1]
    BY <1>1, <1>3, <1>4
  <2> QED BY <1>4, <2>1, <2>2 DEF Path
<1>7. Path(f, b)
  <2>1. Len(b) >= 1
    BY <1>3, <1>5
  <2>2. ASSUME NEW i \in 1 .. Len(b) - 1 PROVE f[b[i]] = b[i + 1]
    <3>0. i \in 1 .. L - n + 1 - 1
      BY <1>1, <1>2, <1>5, SMT
    <3>1. /\ i \in 1 .. L - n + 1 /\ i + 1 \in 1 .. L - n + 1
          /\ n + i - 1 \in 1 .. L - 1 /\ n + i - 1 + 1 = n + (i + 1) - 1
      BY <1>3, <3>0
    <3>2. b[i] = s[n + i - 1] /\ b[i + 1] = s[n + (i + 1) - 1]
      BY <1>5, <3>1
    <3>3. f[s[n + i - 1]] = s[n + i - 1 + 1]
      BY <1>1, <3>1
    <3> QED BY <3>1, <3>2, <3>3
  <2> QED BY <1>5, <2>1, <2>2 DEF Path
<1> QED BY <1>4, <1>5, <1>6, <1>7 DEF a, b, L

\* From any cluster of a chain on, the chain goes the same way.
LEMMA ChainFromMiddle ==
  ASSUME NEW f, IsTable(f), NEW s, Whole(f, s), Len(s) <= TotalClusters,
         NEW n \in 1 .. Len(s)
  PROVE  ChainIn(f, s[n]) = SubSeq(s, n, Len(s))
<1> DEFINE b == SubSeq(s, n, Len(s))
<1>1. /\ Path(f, s) /\ Len(s) \in Nat /\ f[s[Len(s)]] \notin Cluster
  BY PathFacts DEF Whole
<1>2. /\ Path(f, b) /\ Len(b) = Len(s) - n + 1
      /\ \A i \in 1 .. Len(s) - n + 1 : b[i] = s[n + i - 1]
  BY <1>1, PathPieces
<1> HIDE DEF b
<1>3. /\ 1 \in 1 .. Len(s) - n + 1 /\ n + 1 - 1 = n /\ Len(b) \in 1 .. Len(s) - n + 1
      /\ n + Len(b) - 1 = Len(s) /\ Len(b) <= TotalClusters
  BY <1>1, <1>2, TableNumbers, SMT
<1>4. b[1] = s[n]
  <2>1. b[1] = s[n + 1 - 1]
    BY <1>2, <1>3
  <2> QED BY <1>3, <2>1
<1>5. b[Len(b)] = s[Len(s)]
  <2>1. b[Len(b)] = s[n + Len(b) - 1]
    BY <1>2, <1>3
  <2> QED BY <1>3, <2>1
<1>6. Whole(f, b)
  BY <1>1, <1>2, <1>5 DEF Whole
<1>7. ChainIn(f, b[1]) = b
  BY <1>3, <1>6, ChainIs
<1> QED BY <1>4, <1>7 DEF b

\* Cutting a chain after its n-th cluster.
LEMMA CutChain ==
  ASSUME NEW f, NEW c, First(f, c), NEW n \in 1 .. Len(ChainIn(f, c)),
         NEW d, d = ChainIn(f, c)[n],
         NEW e \in Entry \ Cluster, NEW g, Changed(f, g, d, e)
  PROVE  ChainIn(g, c) = SubSeq(ChainIn(f, c), 1, n)
<1> DEFINE s == ChainIn(f, c)
           a == SubSeq(s, 1, n)
<1>1. Whole(f, s) /\ Path(f, s) /\ s[1] = c /\ Len(s) <= TotalClusters
  BY ChainOfFirst DEF Whole
<1>2. /\ Len(s) \in Nat /\ 1 \in 1 .. Len(s) /\ \A j \in 1 .. Len(s) : s[j] \in Cluster
  BY <1>1, PathFacts
<1>3. \A j \in 1 .. Len(s) : s[j] = d => j = n
  BY <1>1, PathsMeet DEF First
<1>4. Path(f, a) /\ Len(a) = n /\ \A i \in 1 .. n : a[i] = s[i]
  BY <1>1, PathPieces
<1>5. f \in [FatIndex -> Entry] /\ Cluster \subseteq FatIndex /\ d \in Cluster
  BY <1>2, TableNumbers DEF First, IsTable
<1>6. s[n] = d /\ n \in 1 .. Len(s)
  OBVIOUS
<1>7. IsTable(g) /\ \A x \in FatIndex : g[x] = IF x = d THEN e ELSE f[x]
  BY DEF Changed
<1> HIDE DEF s, a
<1>8. /\ 1 \in 1 .. n /\ n \in 1 .. n /\ n <= TotalClusters
      /\ \A i \in 1 .. n : i \in 1 .. Len(s)
      /\ \A i \in 1 .. n - 1 : i \in 1 .. n /\ i # n
  BY <1>1, <1>2, <1>6, TableNumbers, SMT
<1>9. Path(g, a)
  <2>1. ASSUME NEW i \in 1 .. n - 1 PROVE g[a[i]] = a[i + 1]
    <3>1. i \in 1 .. n /\ i # n /\ i \in 1 .. Len(s)
      BY <1>8
    <3>2. a[i] = s[i] /\ s[i] # d /\ s[i] \in FatIndex
      BY <1>2, <1>3, <1>4, <1>5, <3>1
    <3>3. f[a[i]] = a[i + 1]
      BY <1>4 DEF Path
    <3> QED BY <1>7, <3>2, <3>3
  <2> QED BY <1>4, <2>1 DEF Path
<1>10. Whole(g, a) /\ a[1] = c
  BY <1>1, <1>4, <1>5, <1>6, <1>7, <1>8, <1>9 DEF Whole
<1>11. ChainIn(g, a[1]) = a
  BY <1>4, <1>7, <1>8, <1>10, ChainIs
<1> QED BY <1>10, <1>11 DEF a, s

-----------------------------------------------------------------------------
(* The same facts, about the set of the clusters of a chain.               *)

LEMMA OnChainFacts ==
  ASSUME NEW f, NEW c, First(f, c)
  PROVE  /\ OnChainIn(f, c) = {ChainIn(f, c)[i] : i \in 1 .. Len(ChainIn(f, c))}
         /\ c \in OnChainIn(f, c) /\ OnChainIn(f, c) \subseteq Cluster
<1> DEFINE s == ChainIn(f, c)
<1>1. Path(f, s) /\ s[1] = c
  BY ChainOfFirst DEF Whole
<1>2. DOMAIN s = 1 .. Len(s) /\ 1 \in 1 .. Len(s) /\ \A i \in 1 .. Len(s) : s[i] \in Cluster
  BY <1>1, PathFacts
<1>3. OnChainIn(f, c) = {s[i] : i \in 1 .. Len(s)}
  BY <1>2, Zenon DEF OnChainIn
<1> HIDE DEF s
<1>4. c \in OnChainIn(f, c) /\ OnChainIn(f, c) \subseteq Cluster
  BY <1>1, <1>2, <1>3
<1> QED BY <1>3, <1>4 DEF s

LEMMA OnOneChain ==
  ASSUME NEW f, NEW c, First(f, c), NEW d, First(f, d),
         NEW x \in OnChainIn(f, c), x \in OnChainIn(f, d)
  PROVE  c = d
<1>1. PICK i \in 1 .. Len(ChainIn(f, c)) : x = ChainIn(f, c)[i]
  BY OnChainFacts
<1>2. PICK j \in 1 .. Len(ChainIn(f, d)) : x = ChainIn(f, d)[j]
  BY OnChainFacts
<1> QED BY <1>1, <1>2, ChainsApart

LEMMA NotOnChain ==
  ASSUME NEW f, NEW c, First(f, c), NEW d, NoLinkTo(f, d), d # c
  PROVE  d \notin OnChainIn(f, c)
BY OffChain, OnChainFacts

LEMMA UntouchedChain ==
  ASSUME NEW f, NEW c, First(f, c), NEW g, IsTable(g),
         \A x \in OnChainIn(f, c) : g[x] = f[x]
  PROVE  ChainIn(g, c) = ChainIn(f, c) /\ OnChainIn(g, c) = OnChainIn(f, c)
<1>1. \A i \in 1 .. Len(ChainIn(f, c)) : g[ChainIn(f, c)[i]] = f[ChainIn(f, c)[i]]
  BY OnChainFacts
<1>2. ChainIn(g, c) = ChainIn(f, c)
  BY <1>1, SameChain
<1> QED BY <1>2, Zenon DEF OnChainIn

LEMMA FollowChain ==
  ASSUME NEW f, NEW c, First(f, c), NEW d \in OnChainIn(f, c), f[d] \in Cluster
  PROVE  f[d] \in OnChainIn(f, c)
<1>1. PICK i \in 1 .. Len(ChainIn(f, c)) : d = ChainIn(f, c)[i]
  BY OnChainFacts
<1>2. Path(f, ChainIn(f, c)) /\ Whole(f, ChainIn(f, c))
  BY ChainOfFirst DEF Whole
<1>3. i + 1 \in 1 .. Len(ChainIn(f, c)) /\ ChainIn(f, c)[i + 1] = f[d]
  BY <1>1, <1>2, NextOfChain
<1> QED BY <1>3, OnChainFacts

\* A cluster that leads nowhere is a chain of its own.
LEMMA LoneChain ==
  ASSUME NEW f, IsTable(f), NEW c \in Cluster, f[c] \notin Cluster
  PROVE  ChainIn(f, c) = <<c>> /\ OnChainIn(f, c) = {c}
<1> DEFINE s == <<c>>
<1>1. s \in Seq(Cluster) /\ Len(s) = 1 /\ s[1] = c /\ DOMAIN s = {1}
  OBVIOUS
<1>2. 1 .. Len(s) - 1 = {} /\ Len(s) >= 1 /\ Len(s) <= TotalClusters
  BY <1>1, TableNumbers, SMT
<1> HIDE DEF s
<1>3. Whole(f, s)
  BY <1>1, <1>2 DEF Whole, Path
<1>4. ChainIn(f, c) = s
  BY <1>1, <1>2, <1>3, ChainIs
<1>5. OnChainIn(f, c) = {c}
  BY <1>1, <1>4 DEF OnChainIn
<1> QED BY <1>4, <1>5 DEF s

LEMMA ChainLinked ==
  ASSUME NEW f, NEW c, First(f, c), NEW e \in Cluster, NoLinkTo(f, e), e # c,
         f[e] \notin Cluster, NEW d \in OnChainIn(f, c), f[d] \notin Cluster,
         NEW g, Changed(f, g, d, e)
  PROVE  /\ ChainIn(g, c) = Append(ChainIn(f, c), e)
         /\ OnChainIn(g, c) = OnChainIn(f, c) \cup {e}
<1> DEFINE s == ChainIn(f, c)
<1>1. PICK i \in 1 .. Len(s) : d = s[i]
  BY OnChainFacts
<1>2. ChainIn(g, c) = Append(s, e)
  BY <1>1, LinkChain
<1>3. Path(f, s)
  BY ChainOfFirst DEF Whole
<1>4. OnChainIn(f, c) = {s[j] : j \in 1 .. Len(s)}
  BY OnChainFacts
<1> HIDE DEF s
<1> DEFINE t == Append(s, e)
<1>5. /\ t \in Seq(Cluster) /\ Len(t) = Len(s) + 1 /\ Len(s) \in Nat
      /\ \A j \in 1 .. Len(s) : t[j] = s[j]
      /\ t[Len(s) + 1] = e
  BY <1>3, PathFacts, AppendProperties
<1>6. DOMAIN t = 1 .. Len(s) + 1
  BY <1>5, LenProperties
<1>7. 1 .. Len(s) + 1 = (1 .. Len(s)) \cup {Len(s) + 1}
  BY <1>5, SMT
<1> HIDE DEF t
<1>8. OnChainIn(g, c) = {t[j] : j \in 1 .. Len(s) + 1}
  BY <1>2, <1>6, Zenon DEF OnChainIn, t
<1>9. OnChainIn(g, c) = OnChainIn(f, c) \cup {e}
  <2>1. \A j \in 1 .. Len(s) + 1 : t[j] \in OnChainIn(f, c) \cup {e}
    BY <1>4, <1>5, <1>7
  <2>2. e \in OnChainIn(g, c)
    BY <1>5, <1>7, <1>8
  <2>3. \A j \in 1 .. Len(s) : s[j] \in OnChainIn(g, c)
    BY <1>5, <1>7, <1>8
  <2> QED BY <1>4, <1>8, <2>1, <2>2, <2>3, SMTT(30)
<1> QED BY <1>2, <1>9 DEF s

\* Cutting a chain after cluster d leaves its beginning, and what follows d.
LEMMA ChainCut ==
  ASSUME NEW f, NEW c, First(f, c), NEW d \in OnChainIn(f, c),
         NEW e \in Entry \ Cluster, NEW g, Changed(f, g, d, e)
  PROVE  /\ \E n \in 1 .. Len(ChainIn(f, c)) : ChainIn(g, c) = SubSeq(ChainIn(f, c), 1, n)
         /\ f[d] \in Cluster =>
              OnChainIn(f, c) \subseteq OnChainIn(g, c) \cup OnChainIn(g, f[d])
         /\ f[d] \notin Cluster => OnChainIn(g, c) = OnChainIn(f, c)
<1> DEFINE s == ChainIn(f, c)
<1>1. PICK n \in 1 .. Len(s) : d = s[n]
  BY OnChainFacts
<1>2. ChainIn(g, c) = SubSeq(s, 1, n)
  BY <1>1, CutChain
<1>3. Whole(f, s) /\ Path(f, s) /\ s[1] = c /\ Len(s) <= TotalClusters
  BY ChainOfFirst DEF Whole
<1>4. OnChainIn(f, c) = {s[j] : j \in 1 .. Len(s)}
  BY OnChainFacts
<1> HIDE DEF s
<1> DEFINE a == SubSeq(s, 1, n)
<1>5. Path(f, a) /\ Len(a) = n /\ \A i \in 1 .. n : a[i] = s[i]
  BY <1>3, PathPieces
<1>6. OnChainIn(g, c) = {a[j] : j \in 1 .. n}
  <2>1. DOMAIN a = 1 .. Len(a)
    BY <1>5, PathFacts
  <2>2. DOMAIN a = 1 .. n /\ ChainIn(g, c) = a
    BY <1>2, <1>5, <2>1
  <2> HIDE DEF a
  <2> QED BY <2>2, Zenon DEF OnChainIn
<1> HIDE DEF a
<1>7. OnChainIn(g, c) = {s[j] : j \in 1 .. n}
  BY <1>5, <1>6
<1>8. f[d] \notin Cluster => OnChainIn(g, c) = OnChainIn(f, c)
  BY <1>1, <1>3, <1>4, <1>7, LastOfChain
<1>9. ASSUME f[d] \in Cluster
      PROVE  OnChainIn(f, c) \subseteq OnChainIn(g, c) \cup OnChainIn(g, f[d])
  <2> DEFINE b == SubSeq(s, n + 1, Len(s))
  <2>1. n + 1 \in 1 .. Len(s) /\ s[n + 1] = f[d]
    BY <1>1, <1>3, <1>9, NextOfChain
  <2>2. /\ Path(f, b) /\ Len(b) = Len(s) - (n + 1) + 1
        /\ \A i \in 1 .. Len(s) - (n + 1) + 1 : b[i] = s[n + 1 + i - 1]
    <3> DEFINE m == n + 1
    <3>1. m \in 1 .. Len(s)
      BY <2>1
    <3> HIDE DEF m
    <3>2. /\ Path(f, SubSeq(s, m, Len(s))) /\ Len(SubSeq(s, m, Len(s))) = Len(s) - m + 1
          /\ \A i \in 1 .. Len(s) - m + 1 : SubSeq(s, m, Len(s))[i] = s[m + i - 1]
      BY <1>3, <3>1, PathPieces
    <3> QED BY <3>2, Zenon DEF m
  <2> HIDE DEF b
  <2>3. /\ Len(s) \in Nat /\ Len(b) \in Nat /\ Len(b) \in 1 .. Len(b) /\ 1 \in 1 .. Len(b)
        /\ DOMAIN b = 1 .. Len(b)
        /\ \A i \in 1 .. Len(s) : s[i] \in Cluster
    BY <1>3, <2>2, PathFacts
  <2>4. /\ \A i \in 1 .. Len(b) : b[i] = s[n + i] /\ n + i \in 1 .. Len(s) /\ n + i # n
        /\ n + Len(b) = Len(s) /\ Len(b) <= TotalClusters
        /\ \A j \in 1 .. Len(s) : j \in 1 .. n \/ (j - n \in 1 .. Len(b) /\ n + (j - n) = j)
        /\ \A i \in 1 .. Len(b) - 1 : i \in 1 .. Len(b)
    <3>1. \A i \in 1 .. Len(b) : b[i] = s[n + 1 + i - 1] /\ n + 1 + i - 1 = n + i
      BY <2>2, <2>3, SMT
    <3>2. n \in Nat /\ n >= 1 /\ n <= Len(s) /\ Len(b) = Len(s) - n
      BY <1>1, <2>1, <2>2, <2>3, SMT
    <3>3. /\ \A i \in 1 .. Len(b) : n + i \in 1 .. Len(s) /\ n + i # n
          /\ n + Len(b) = Len(s) /\ Len(b) <= TotalClusters
          /\ \A j \in 1 .. Len(s) : j \in 1 .. n \/ (j - n \in 1 .. Len(b) /\ n + (j - n) = j)
          /\ \A i \in 1 .. Len(b) - 1 : i \in 1 .. Len(b)
      BY <1>3, <2>3, <3>2, TableNumbers, SMT
    <3> QED BY <3>1, <3>3
  <2>5. \A j \in 1 .. Len(s) : s[j] = d => j = n
    BY <1>1, <1>3, PathsMeet DEF First
  <2>6. \A i \in 1 .. Len(b) : b[i] # d /\ b[i] \in Cluster
    BY <2>3, <2>4, <2>5
  <2>7. f \in [FatIndex -> Entry] /\ Cluster \subseteq FatIndex /\ d \in Cluster
    BY <1>1, <2>3, TableNumbers DEF First, IsTable
  <2>8. IsTable(g) /\ \A x \in FatIndex : g[x] = IF x = d THEN e ELSE f[x]
    BY DEF Changed
  <2>9. \A i \in 1 .. Len(b) : g[b[i]] = f[b[i]]
    BY <2>6, <2>7, <2>8
  <2>10. f[b[Len(b)]] \notin Cluster
    BY <1>3, <2>3, <2>4 DEF Whole
  <2>11. Whole(g, b)
    BY <2>2, <2>3, <2>4, <2>9, <2>10 DEF Whole, Path
  <2>12. b[1] = f[d]
    BY <2>1, <2>3, <2>4
  <2>13. ChainIn(g, f[d]) = b
    BY <2>4, <2>8, <2>11, <2>12, ChainIs
  <2>14. OnChainIn(g, f[d]) = {b[i] : i \in 1 .. Len(b)}
    BY <2>3, <2>13, Zenon DEF OnChainIn
  <2>15. ASSUME NEW j \in 1 .. Len(s)
         PROVE  s[j] \in OnChainIn(g, c) \cup OnChainIn(g, f[d])
    <3>1. CASE j \in 1 .. n
      BY <1>7, <3>1
    <3>2. CASE j - n \in 1 .. Len(b) /\ n + (j - n) = j
      BY <2>4, <2>14, <3>2
    <3> QED BY <2>4, <3>1, <3>2
  <2> QED BY <1>4, <2>15
<1>10. \E m \in 1 .. Len(s) : ChainIn(g, c) = SubSeq(s, 1, m)
  BY <1>2
<1> QED BY <1>8, <1>9, <1>10 DEF s

\* Every cluster of a chain but the first is linked by a cluster.
LEMMA LinkedOnChain ==
  ASSUME NEW f, NEW c, First(f, c), NEW x \in OnChainIn(f, c), x # c
  PROVE  \E d \in Cluster : f[d] = x
<1>1. ~ NoLinkTo(f, x)
  BY NotOnChain
<1> QED BY <1>1 DEF NoLinkTo

-----------------------------------------------------------------------------
(* Tables in which a cluster may have several predecessors: all that is    *)
(* asked is that the walk ends.                                            *)

\* The walk from c comes to an entry that names no cluster.
WalkEnds(f, c) ==
  /\ IsTable(f) /\ c \in Cluster
  /\ \E s \in Seq(Cluster) : Whole(f, s) /\ s[1] = c

\* There is no circle anywhere.
Acyclic(f) == IsTable(f) /\ \A c \in Cluster : WalkEnds(f, c)

\* A path that ends visits no cluster twice: from then on it would repeat itself.
LEMMA WholeOnce ==
  ASSUME NEW f, NEW s, Whole(f, s), NEW i \in 1 .. Len(s), NEW j \in 1 .. Len(s),
         s[i] = s[j]
  PROVE  i = j
<1>1. /\ Path(f, s) /\ Len(s) \in Nat /\ f[s[Len(s)]] \notin Cluster
      /\ \A k \in 1 .. Len(s) : s[k] \in Cluster
  BY PathFacts DEF Whole
<1>2. ASSUME NEW a \in 1 .. Len(s), NEW b \in 1 .. Len(s), s[a] = s[b], a < b
      PROVE  FALSE
  <2> DEFINE Good == {n \in Nat : b + n <= Len(s) => s[a + n] = s[b + n]}
  <2>1. 0 \in Good
    <3>1. a + 0 = a /\ b + 0 = b /\ 0 \in Nat
      BY SMT
    <3> QED BY <1>2, <3>1
  <2>2. \A n \in Nat : n \in Good => n + 1 \in Good
    <3> SUFFICES ASSUME NEW n \in Nat, n \in Good, b + (n + 1) <= Len(s)
                 PROVE  s[a + (n + 1)] = s[b + (n + 1)]
      BY SMT
    <3>1. /\ b + n <= Len(s) /\ a + n \in 1 .. Len(s) - 1 /\ b + n \in 1 .. Len(s) - 1
          /\ a + (n + 1) = a + n + 1 /\ b + (n + 1) = b + n + 1
      BY <1>1, <1>2, SMT
    <3>2. s[a + n] = s[b + n]
      BY <3>1
    <3>3. f[s[a + n]] = s[a + n + 1] /\ f[s[b + n]] = s[b + n + 1]
      BY <1>1, <3>1 DEF Path
    <3> QED BY <3>1, <3>2, <3>3
  <2> HIDE DEF Good
  <2>3. Len(s) - b \in Nat /\ b + (Len(s) - b) = Len(s) /\ a + (Len(s) - b) \in 1 .. Len(s) - 1
        /\ a + (Len(s) - b) + 1 \in 1 .. Len(s)
    BY <1>1, <1>2, SMT
  <2>4. Len(s) - b \in Good
    BY <2>1, <2>2, <2>3, InductionOnNat
  <2>5. s[a + (Len(s) - b)] = s[Len(s)]
    <3>1. b + (Len(s) - b) <= Len(s) => s[a + (Len(s) - b)] = s[b + (Len(s) - b)]
      BY <2>4 DEF Good
    <3>2. b + (Len(s) - b) <= Len(s)
      BY <1>1, <2>3, SMT
    <3> QED BY <2>3, <3>1, <3>2
  <2>6. f[s[a + (Len(s) - b)]] = s[a + (Len(s) - b) + 1]
    BY <1>1, <2>3 DEF Path
  <2> QED BY <1>1, <2>3, <2>5, <2>6
<1> QED BY <1>1, <1>2, SMT

\* The chain of a cluster whose walk ends is that walk.
LEMMA ChainOfWalk ==
  ASSUME NEW f, NEW c, WalkEnds(f, c)
  PROVE  /\ Whole(f, ChainIn(f, c)) /\ ChainIn(f, c)[1] = c
         /\ Len(ChainIn(f, c)) <= TotalClusters
<1>1. PICK s \in Seq(Cluster) : Whole(f, s) /\ s[1] = c
  BY DEF WalkEnds
<1>2. Len(s) <= TotalClusters
  BY <1>1, WholeOnce, SimplePathShort DEF Whole
<1>3. ChainIn(f, c) = s
  BY <1>1, <1>2, ChainIs DEF WalkEnds
<1> QED BY <1>1, <1>2, <1>3

\* A whole path is the chain of its first cluster.
LEMMA WholeIsChain ==
  ASSUME NEW f, IsTable(f), NEW s, Whole(f, s)
  PROVE  WalkEnds(f, s[1]) /\ ChainIn(f, s[1]) = s
<1>1. s \in Seq(Cluster) /\ s[1] \in Cluster
  BY PathFacts DEF Whole, Path
<1>2. WalkEnds(f, s[1])
  BY <1>1 DEF WalkEnds
<1>3. Len(s) <= TotalClusters
  BY WholeOnce, SimplePathShort DEF Whole
<1> QED BY <1>2, <1>3, ChainIs

LEMMA OnWalk ==
  ASSUME NEW f, NEW c, WalkEnds(f, c)
  PROVE  /\ OnChainIn(f, c) = {ChainIn(f, c)[i] : i \in 1 .. Len(ChainIn(f, c))}
         /\ c \in OnChainIn(f, c) /\ OnChainIn(f, c) \subseteq Cluster
         /\ Len(ChainIn(f, c)) \in Nat /\ Len(ChainIn(f, c)) >= 1
<1> DEFINE s == ChainIn(f, c)
<1>1. Path(f, s) /\ s[1] = c
  BY ChainOfWalk DEF Whole
<1>2. /\ DOMAIN s = 1 .. Len(s) /\ 1 \in 1 .. Len(s) /\ Len(s) \in Nat /\ Len(s) >= 1
      /\ \A i \in 1 .. Len(s) : s[i] \in Cluster
  BY <1>1, PathFacts
<1>3. OnChainIn(f, c) = {s[i] : i \in 1 .. Len(s)}
  BY <1>2, Zenon DEF OnChainIn
<1> HIDE DEF s
<1>4. c \in OnChainIn(f, c) /\ OnChainIn(f, c) \subseteq Cluster
  BY <1>1, <1>2, <1>3
<1> QED BY <1>2, <1>3, <1>4 DEF s

\* A chain goes on until an entry that names no cluster.
LEMMA WalkGoesOn ==
  ASSUME NEW f, NEW c, WalkEnds(f, c), NEW d \in OnChainIn(f, c), f[d] \in Cluster
  PROVE  f[d] \in OnChainIn(f, c)
<1>1. PICK i \in 1 .. Len(ChainIn(f, c)) : d = ChainIn(f, c)[i]
  BY OnWalk
<1>2. Path(f, ChainIn(f, c)) /\ Whole(f, ChainIn(f, c))
  BY ChainOfWalk DEF Whole
<1>3. i + 1 \in 1 .. Len(ChainIn(f, c)) /\ ChainIn(f, c)[i + 1] = f[d]
  BY <1>1, <1>2, NextOfChain
<1> QED BY <1>3, OnWalk

\* From any of its clusters on a chain is that cluster's chain.
LEMMA RestOfWalk ==
  ASSUME NEW f, NEW c, WalkEnds(f, c), NEW i \in 1 .. Len(ChainIn(f, c))
  PROVE  /\ WalkEnds(f, ChainIn(f, c)[i])
         /\ ChainIn(f, ChainIn(f, c)[i]) = SubSeq(ChainIn(f, c), i, Len(ChainIn(f, c)))
         /\ OnChainIn(f, ChainIn(f, c)[i]) \subseteq OnChainIn(f, c)
<1> DEFINE s == ChainIn(f, c)
           b == SubSeq(s, i, Len(s))
<1>1. Whole(f, s) /\ Path(f, s) /\ Len(s) <= TotalClusters /\ IsTable(f)
  BY ChainOfWalk DEF Whole, WalkEnds
<1>2. /\ Path(f, b) /\ Len(b) = Len(s) - i + 1
      /\ \A k \in 1 .. Len(s) - i + 1 : b[k] = s[i + k - 1]
  BY <1>1, PathPieces
<1>3. ChainIn(f, s[i]) = b
  BY <1>1, ChainFromMiddle
<1>4. OnChainIn(f, c) = {s[k] : k \in 1 .. Len(s)} /\ s[i] \in Cluster /\ Len(s) \in Nat
  BY OnWalk
<1>14. i \in 1 .. Len(s)
  OBVIOUS
<1> HIDE DEF b, s
<1>5. /\ 1 \in 1 .. Len(s) - i + 1 /\ i + 1 - 1 = i /\ Len(b) \in 1 .. Len(s) - i + 1
      /\ i + Len(b) - 1 = Len(s)
      /\ \A k \in 1 .. Len(s) - i + 1 : i + k - 1 \in 1 .. Len(s)
  BY <1>2, <1>4, <1>14, SMT
<1>6. b[1] = s[i]
  <2>1. b[1] = s[i + 1 - 1]
    BY <1>2, <1>5
  <2> QED BY <1>5, <2>1
<1>7. b[Len(b)] = s[Len(s)]
  <2>1. b[Len(b)] = s[i + Len(b) - 1]
    BY <1>2, <1>5
  <2> QED BY <1>5, <2>1
<1>8. Whole(f, b)
  BY <1>1, <1>2, <1>7 DEF Whole
<1>9. b \in Seq(Cluster) /\ DOMAIN b = 1 .. Len(b)
  BY <1>2, PathFacts
<1>10. WalkEnds(f, s[i])
  BY <1>1, <1>4, <1>6, <1>8, <1>9 DEF WalkEnds
<1>11. OnChainIn(f, s[i]) \subseteq OnChainIn(f, c)
  <2> SUFFICES ASSUME NEW x \in OnChainIn(f, s[i]) PROVE x \in OnChainIn(f, c)
    OBVIOUS
  <2>1. PICK k \in 1 .. Len(b) : x = b[k]
    BY <1>3, <1>9, Zenon DEF OnChainIn
  <2>2. k \in 1 .. Len(s) - i + 1
    BY <1>2, <2>1
  <2>3. x = s[i + k - 1] /\ i + k - 1 \in 1 .. Len(s)
    BY <1>2, <1>5, <2>1, <2>2
  <2> QED BY <1>4, <2>3
<1> QED BY <1>3, <1>10, <1>11 DEF s, b

LEMMA WalkFrom ==
  ASSUME NEW f, NEW c, WalkEnds(f, c), NEW d \in OnChainIn(f, c)
  PROVE  WalkEnds(f, d) /\ OnChainIn(f, d) \subseteq OnChainIn(f, c)
<1>1. PICK i \in 1 .. Len(ChainIn(f, c)) : d = ChainIn(f, c)[i]
  BY OnWalk
<1> QED BY <1>1, RestOfWalk

LEMMA LoneWalk ==
  ASSUME NEW f, IsTable(f), NEW c \in Cluster, f[c] \notin Cluster
  PROVE  WalkEnds(f, c)
<1> DEFINE s == <<c>>
<1>1. s \in Seq(Cluster) /\ Len(s) = 1 /\ s[1] = c
  OBVIOUS
<1>2. 1 .. Len(s) - 1 = {} /\ Len(s) >= 1
  BY <1>1, SMT
<1> HIDE DEF s
<1> QED BY <1>1, <1>2 DEF WalkEnds, Whole, Path

\* A link in front of a chain.
LEMMA WalkBefore ==
  ASSUME NEW f, NEW c \in Cluster, f[c] \in Cluster, WalkEnds(f, f[c])
  PROVE  /\ WalkEnds(f, c)
         /\ ChainIn(f, c) = <<c>> \o ChainIn(f, f[c])
         /\ OnChainIn(f, c) = {c} \cup OnChainIn(f, f[c])
         /\ c \notin OnChainIn(f, f[c])
<1> DEFINE s == ChainIn(f, f[c])
           t == <<c>> \o s
<1>1. /\ Whole(f, s) /\ Path(f, s) /\ s[1] = f[c] /\ Len(s) \in Nat /\ Len(s) >= 1
      /\ s \in Seq(Cluster) /\ IsTable(f)
  BY ChainOfWalk, PathFacts DEF Whole, WalkEnds
<1>2. OnChainIn(f, f[c]) = {s[k] : k \in 1 .. Len(s)}
  BY OnWalk
<1> HIDE DEF s
<1>3. /\ t \in Seq(Cluster) /\ Len(t) = Len(s) + 1 /\ t[1] = c
      /\ \A k \in 1 .. Len(s) : t[k + 1] = s[k]
  <2>1. <<c>> \in Seq(Cluster) /\ Len(<<c>>) = 1 /\ <<c>>[1] = c
    OBVIOUS
  <2>2. t \in Seq(Cluster) /\ Len(t) = Len(s) + 1
    BY <1>1, <2>1, ConcatProperties
  <2>3. \A k \in 1 .. Len(s) : t[k + 1] = s[k]
    BY <1>1, <2>1, ConcatProperties
  <2>4. t[1] = c
    BY <1>1, <2>1, ConcatProperties
  <2> QED BY <2>2, <2>3, <2>4
<1> HIDE DEF t
<1>4. ASSUME NEW i \in 1 .. Len(t) - 1 PROVE f[t[i]] = t[i + 1]
  <2>1. CASE i = 1
    <3>1. t[1 + 1] = s[1]
      BY <1>1, <1>3
    <3> QED BY <1>1, <1>3, <2>1, <3>1
  <2>2. CASE i # 1
    <3>1. i - 1 \in 1 .. Len(s) - 1 /\ i - 1 + 1 = i /\ i - 1 \in 1 .. Len(s) /\ i \in 1 .. Len(s)
      BY <1>1, <1>3, <2>2, SMT
    <3>2. f[s[i - 1]] = s[i - 1 + 1] /\ t[i - 1 + 1] = s[i - 1] /\ t[i + 1] = s[i]
      BY <1>1, <1>3, <3>1 DEF Path
    <3> QED BY <3>1, <3>2
  <2> QED BY <2>1, <2>2
<1>5. Len(t) >= 1 /\ Len(s) \in 1 .. Len(s)
  BY <1>1, <1>3, SMT
<1>6. t[Len(t)] = s[Len(s)]
  BY <1>3, <1>5
<1>7. Whole(f, t)
  BY <1>1, <1>3, <1>4, <1>5, <1>6 DEF Whole, Path
<1>8. WalkEnds(f, c) /\ ChainIn(f, c) = t
  BY <1>1, <1>3, <1>7, WholeIsChain
<1>9. OnChainIn(f, c) = {t[k] : k \in 1 .. Len(t)}
  BY <1>8, OnWalk
<1>10. \A k \in 1 .. Len(t) : k = 1 \/ (k - 1 \in 1 .. Len(s) /\ k - 1 + 1 = k)
  BY <1>1, <1>3, SMT
<1>11. \A k \in 1 .. Len(s) : k + 1 \in 1 .. Len(t) /\ k + 1 # 1
  BY <1>1, <1>3, SMT
<1>12. 1 \in 1 .. Len(t)
  BY <1>1, <1>3, SMT
<1>13. OnChainIn(f, c) = {c} \cup OnChainIn(f, f[c])
  <2>1. ASSUME NEW x \in OnChainIn(f, c) PROVE x \in {c} \cup OnChainIn(f, f[c])
    <3>1. PICK k \in 1 .. Len(t) : x = t[k]
      BY <1>9
    <3>2. k = 1 \/ (x = s[k - 1] /\ k - 1 \in 1 .. Len(s))
      BY <1>3, <1>10, <3>1
    <3> QED BY <1>2, <1>3, <3>1, <3>2
  <2>2. ASSUME NEW x \in OnChainIn(f, f[c]) PROVE x \in OnChainIn(f, c)
    <3>1. PICK k \in 1 .. Len(s) : x = s[k]
      BY <1>2
    <3> QED BY <1>3, <1>9, <1>11, <3>1
  <2>3. c \in OnChainIn(f, c)
    BY <1>3, <1>9, <1>12
  <2> QED BY <2>1, <2>2, <2>3
<1>14. c \notin OnChainIn(f, f[c])
  <2> SUFFICES ASSUME c \in OnChainIn(f, f[c]) PROVE FALSE
    OBVIOUS
  <2>1. PICK k \in 1 .. Len(s) : c = s[k]
    BY <1>2
  <2>2. t[k + 1] = t[1] /\ k + 1 \in 1 .. Len(t) /\ k + 1 # 1
    BY <1>3, <1>11, <2>1
  <2> QED BY <1>7, <1>12, <2>2, WholeOnce
<1> QED BY <1>8, <1>13, <1>14 DEF t, s

\* What follows a cluster of a chain that goes on.
LEMMA WalkAfter ==
  ASSUME NEW f, NEW c, WalkEnds(f, c), f[c] \in Cluster
  PROVE  /\ WalkEnds(f, f[c])
         /\ OnChainIn(f, c) = {c} \cup OnChainIn(f, f[c])
         /\ c \notin OnChainIn(f, f[c])
         /\ ChainIn(f, c) = <<c>> \o ChainIn(f, f[c])
<1>1. c \in OnChainIn(f, c) /\ c \in Cluster
  BY OnWalk
<1>2. f[c] \in OnChainIn(f, c)
  BY <1>1, WalkGoesOn
<1>3. WalkEnds(f, f[c])
  BY <1>2, WalkFrom
<1> QED BY <1>1, <1>3, WalkBefore

\* A set that holds a cluster and what its members lead to holds its chain.
LEMMA WalkWithin ==
  ASSUME NEW f, NEW c, WalkEnds(f, c), NEW X, c \in X,
         \A x \in X : x \in Cluster /\ f[x] \in Cluster => f[x] \in X
  PROVE  OnChainIn(f, c) \subseteq X
<1> DEFINE s == ChainIn(f, c)
           Good == {n \in Nat : n + 1 \in 1 .. Len(s) => s[n + 1] \in X}
<1>1. Path(f, s) /\ s[1] = c /\ Len(s) \in Nat /\ \A i \in 1 .. Len(s) : s[i] \in Cluster
  BY ChainOfWalk, PathFacts DEF Whole
<1>2. OnChainIn(f, c) = {s[k] : k \in 1 .. Len(s)}
  BY OnWalk
<1> HIDE DEF s
<1>3. 0 \in Good
  <2>1. 0 + 1 = 1 /\ 0 \in Nat
    BY SMT
  <2> QED BY <1>1, <2>1
<1>4. \A n \in Nat : n \in Good => n + 1 \in Good
  <2> SUFFICES ASSUME NEW n \in Nat, n \in Good, n + 1 + 1 \in 1 .. Len(s)
               PROVE  s[n + 1 + 1] \in X
    BY SMT
  <2>1. n + 1 \in 1 .. Len(s) /\ n + 1 \in 1 .. Len(s) - 1
    BY <1>1, SMT
  <2>2. s[n + 1] \in X /\ f[s[n + 1]] = s[n + 1 + 1]
    BY <1>1, <2>1 DEF Path
  <2> QED BY <1>1, <2>1, <2>2
<1> HIDE DEF Good
<1>5. Nat \subseteq Good
  BY <1>3, <1>4, InductionOnNat
<1>6. ASSUME NEW k \in 1 .. Len(s) PROVE s[k] \in X
  <2>1. k - 1 \in Nat /\ k - 1 + 1 = k
    BY <1>1, SMT
  <2>2. k - 1 + 1 \in 1 .. Len(s) => s[k - 1 + 1] \in X
    BY <1>5, <2>1 DEF Good
  <2> QED BY <2>1, <2>2
<1> QED BY <1>2, <1>6

\* If every entry that is changed ends the walk or leads to a walk that ends,
\* then all walks that ended still do.
LEMMA WalksEndStill ==
  ASSUME NEW f, NEW c, WalkEnds(f, c), NEW g, IsTable(g),
         \A x \in OnChainIn(f, c) : g[x] = f[x] \/ g[x] \notin Cluster \/ WalkEnds(g, g[x])
  PROVE  WalkEnds(g, c)
<1> DEFINE s == ChainIn(f, c)
           Good == {n \in Nat : Len(s) - n >= 1 => WalkEnds(g, s[Len(s) - n])}
<1>1. /\ Path(f, s) /\ s[1] = c /\ Len(s) \in Nat /\ Len(s) >= 1 /\ f[s[Len(s)]] \notin Cluster
      /\ \A i \in 1 .. Len(s) : s[i] \in Cluster
  BY ChainOfWalk, PathFacts DEF Whole
<1>2. \A i \in 1 .. Len(s) : g[s[i]] = f[s[i]] \/ g[s[i]] \notin Cluster \/ WalkEnds(g, g[s[i]])
  BY OnWalk
<1> HIDE DEF s
<1>3. \A i \in 1 .. Len(s) : g[s[i]] \notin Cluster => WalkEnds(g, s[i])
  BY <1>1, LoneWalk
<1>4. \A i \in 1 .. Len(s) : g[s[i]] \in Cluster /\ WalkEnds(g, g[s[i]]) => WalkEnds(g, s[i])
  BY <1>1, WalkBefore
<1>5. 0 \in Good
  <2>1. Len(s) - 0 = Len(s) /\ 0 \in Nat /\ Len(s) \in 1 .. Len(s)
    BY <1>1, SMT
  <2> QED BY <1>1, <1>2, <1>3, <1>4, <2>1
<1>6. \A n \in Nat : n \in Good => n + 1 \in Good
  <2> SUFFICES ASSUME NEW n \in Nat, n \in Good, Len(s) - (n + 1) >= 1
               PROVE  WalkEnds(g, s[Len(s) - (n + 1)])
    BY SMT
  <2> DEFINE i == Len(s) - (n + 1)
  <2>1. i \in 1 .. Len(s) - 1 /\ i \in 1 .. Len(s) /\ i + 1 = Len(s) - n /\ Len(s) - n >= 1
    BY <1>1, SMT
  <2>2. WalkEnds(g, s[i + 1])
    BY <2>1
  <2> HIDE DEF i
  <2>3. f[s[i]] = s[i + 1]
    BY <1>1, <2>1 DEF Path
  <2>4. WalkEnds(g, s[i])
    BY <1>2, <1>3, <1>4, <2>1, <2>2, <2>3
  <2> QED BY <2>4 DEF i
<1> HIDE DEF Good
<1>7. Len(s) - 1 \in Nat /\ Len(s) - (Len(s) - 1) = 1 /\ Len(s) - (Len(s) - 1) >= 1
  BY <1>1, SMT
<1>8. Len(s) - 1 \in Good
  BY <1>5, <1>6, <1>7, InductionOnNat
<1>9. Len(s) - (Len(s) - 1) >= 1 => WalkEnds(g, s[Len(s) - (Len(s) - 1)])
  BY <1>8 DEF Good
<1> QED BY <1>1, <1>7, <1>9

\* A chain whose entries stay is the same chain.
LEMMA WalkKept ==
  ASSUME NEW f, NEW c, WalkEnds(f, c), NEW g, IsTable(g),
         \A x \in OnChainIn(f, c) : g[x] = f[x]
  PROVE  /\ WalkEnds(g, c) /\ ChainIn(g, c) = ChainIn(f, c)
         /\ OnChainIn(g, c) = OnChainIn(f, c)
<1> DEFINE s == ChainIn(f, c)
<1>1. Whole(f, s) /\ Path(f, s) /\ s[1] = c
  BY ChainOfWalk DEF Whole
<1>2. \A i \in 1 .. Len(s) : g[s[i]] = f[s[i]]
  BY OnWalk
<1> HIDE DEF s
<1>3. \A n \in Nat : \A i \in 1 .. n - 1 : i \in 1 .. n
  BY SMT
<1>4. Path(g, s) /\ Len(s) \in 1 .. Len(s)
  BY <1>1, <1>2, <1>3, PathFacts DEF Path
<1>5. Whole(g, s)
  BY <1>1, <1>2, <1>4 DEF Whole
<1>6. WalkEnds(g, c) /\ ChainIn(g, c) = s
  BY <1>1, <1>5, WholeIsChain
<1> QED BY <1>6, Zenon DEF s, OnChainIn

\* A chain that is cut after its n-th cluster.
LEMMA WalkCut ==
  ASSUME NEW f, NEW c, WalkEnds(f, c), NEW n \in 1 .. Len(ChainIn(f, c)),
         NEW g, IsTable(g), g[ChainIn(f, c)[n]] \notin Cluster,
         \A i \in 1 .. n - 1 : g[ChainIn(f, c)[i]] = f[ChainIn(f, c)[i]]
  PROVE  ChainIn(g, c) = SubSeq(ChainIn(f, c), 1, n) /\ WalkEnds(g, c)
<1> DEFINE s == ChainIn(f, c)
           a == SubSeq(s, 1, n)
<1>1. Path(f, s) /\ s[1] = c /\ Len(s) \in Nat /\ g[s[n]] \notin Cluster
  BY ChainOfWalk, OnWalk DEF Whole
<1>2. \A i \in 1 .. n - 1 : g[s[i]] = f[s[i]]
  OBVIOUS
<1>3. Path(f, a) /\ Len(a) = n /\ \A i \in 1 .. n : a[i] = s[i]
  BY <1>1, PathPieces
<1> HIDE DEF s, a
<1>4. 1 \in 1 .. n /\ n \in 1 .. n /\ \A i \in 1 .. n - 1 : i \in 1 .. n /\ i + 1 \in 1 .. n
  BY <1>1, SMT
<1>5. \A i \in 1 .. n - 1 : g[a[i]] = a[i + 1]
  BY <1>2, <1>3, <1>4 DEF Path
<1>6. Whole(g, a) /\ a[1] = c
  BY <1>1, <1>3, <1>4, <1>5 DEF Whole, Path
<1>7. ChainIn(g, c) = a /\ WalkEnds(g, c)
  BY <1>6, WholeIsChain
<1> QED BY <1>7 DEF a, s

\* Whatever the table, a chain is a sequence of clusters.
LEMMA ChainType ==
  ASSUME NEW f, IsTable(f), NEW c \in Entry
  PROVE  ChainIn(f, c) \in Seq(Cluster)
<1>1. PICK g : /\ \A n \in 0 .. TotalClusters, d \in Entry :
                    g[n][d] = IF n = 0 \/ ~IsValidCluster(d) THEN <<>>
                              ELSE <<d>> \o g[n - 1][NextIn(f, d)]
               /\ \A e : ChainIn(f, e) = g[TotalClusters][e]
  BY WalkOfChain
<1> DEFINE Good == {n \in Nat : n \in 0 .. TotalClusters =>
                                  \A d \in Entry : g[n][d] \in Seq(Cluster)}
<1>2. 0 \in Good
  <2>1. 0 \in 0 .. TotalClusters /\ 0 \in Nat
    BY TableNumbers, SMT
  <2>2. \A d \in Entry : g[0][d] = <<>>
    BY <1>1, <2>1, Zenon
  <2>3. <<>> \in Seq(Cluster)
    OBVIOUS
  <2> QED BY <2>1, <2>2, <2>3
<1>3. \A n \in Nat : n \in Good => n + 1 \in Good
  <2> SUFFICES ASSUME NEW n \in Nat, n \in Good, n + 1 \in 0 .. TotalClusters, NEW d \in Entry
               PROVE  g[n + 1][d] \in Seq(Cluster)
    BY SMT
  <2>1. n \in 0 .. TotalClusters /\ n + 1 - 1 = n /\ n + 1 # 0
    BY TableNumbers, SMT
  <2>2. CASE ~IsValidCluster(d)
    <3>1. g[n + 1][d] = <<>>
      BY <1>1, <2>2, Zenon
    <3>2. <<>> \in Seq(Cluster)
      OBVIOUS
    <3> QED BY <3>1, <3>2
  <2>3. CASE IsValidCluster(d)
    <3>0. ASSUME NEW m \in 0 .. TotalClusters, m # 0
          PROVE  g[m][d] = <<d>> \o g[m - 1][NextIn(f, d)]
      BY <1>1, <2>3, <3>0
    <3>1. g[n + 1][d] = <<d>> \o g[n + 1 - 1][NextIn(f, d)]
      BY <2>1, <3>0
    <3>2. g[n][NextIn(f, d)] \in Seq(Cluster)
      BY <2>1, NextInType
    <3>3. d \in Cluster
      BY <2>3, ValidEntry
    <3>4. <<d>> \in Seq(Cluster)
      BY <3>3
    <3>5. <<d>> \o g[n][NextIn(f, d)] \in Seq(Cluster)
      BY <3>2, <3>4, ConcatProperties
    <3>6. g[n + 1][d] = <<d>> \o g[n][NextIn(f, d)]
      BY <2>1, <3>1, Zenon
    <3> QED BY <3>5, <3>6
  <2> QED BY <2>2, <2>3
<1> HIDE DEF Good
<1>4. TotalClusters \in Good /\ TotalClusters \in 0 .. TotalClusters
  <2>1. TotalClusters \in 0 .. TotalClusters
    BY TableNumbers, SMT
  <2> QED BY <1>2, <1>3, <2>1, InductionOnNat, TableNumbers
<1> QED BY <1>1, <1>4 DEF Good

LEMMA ChainClusters ==
  ASSUME NEW f, IsTable(f), NEW c \in Entry
  PROVE  /\ Len(ChainIn(f, c)) \in Nat
         /\ OnChainIn(f, c) \subseteq Cluster
         /\ \A i \in 1 .. Len(ChainIn(f, c)) : ChainIn(f, c)[i] \in Cluster
<1> DEFINE s == ChainIn(f, c)
<1>1. s \in Seq(Cluster)
  BY ChainType
<1>2. OnChainIn(f, c) = {s[i] : i \in DOMAIN s}
  BY DEF OnChainIn
<1> HIDE DEF s
<1>3. Len(s) \in Nat /\ DOMAIN s = 1 .. Len(s) /\ \A i \in 1 .. Len(s) : s[i] \in Cluster
  BY <1>1, LenProperties, ElementOfSeq
<1> QED BY <1>2, <1>3 DEF s

-----------------------------------------------------------------------------
(* What the allocator's calls do to a table.                               *)

\* A set of numbers with a bound has a least and a greatest element.
LEMMA LeastOf ==
  ASSUME NEW S \in SUBSET Nat, S # {}
  PROVE  Least(S) \in S /\ \A d \in S : Least(S) <= d
<1>1. PICK x \in S : \A y \in S : ~ (<<y, x>> \in OpToRel(<, Nat))
  BY NatLessThanWellFounded, WFMin
<1>2. ASSUME NEW y \in S PROVE x <= y
  <2>1. x \in Nat /\ y \in Nat
    OBVIOUS
  <2>2. ~ (y < x)
    BY <1>1, <2>1 DEF OpToRel
  <2> QED BY <2>1, <2>2, SMT
<1> QED BY <1>2, Zenon DEF Least

LEMMA GreatestOf ==
  ASSUME NEW S \in SUBSET Nat, S # {}, NEW m \in Nat, \A d \in S : d <= m
  PROVE  Greatest(S) \in S /\ \A d \in S : d <= Greatest(S)
<1> DEFINE T == {m - d : d \in S}
<1>1. T \in SUBSET Nat /\ T # {}
  <2>1. \A d \in S : m - d \in Nat
    BY SMT
  <2> QED BY <2>1
<1>2. PICK x \in T : \A y \in T : ~ (<<y, x>> \in OpToRel(<, Nat))
  <2> HIDE DEF T
  <2> QED BY <1>1, NatLessThanWellFounded, WFMin
<1>3. PICK e \in S : x = m - e
  OBVIOUS
<1>4. ASSUME NEW d \in S PROVE d <= e
  <2>1. m - d \in T /\ m - d \in Nat /\ x \in Nat /\ d \in Nat /\ e \in Nat
    BY <1>1
  <2>2. ~ (m - d < x)
    BY <1>2, <2>1 DEF OpToRel
  <2> QED BY <1>3, <2>1, <2>2, SMT
<1> QED BY <1>4, Zenon DEF Greatest

\* The clusters that fat32_allocate_cluster_chain(n) marks.
Taken(f, h, n) == {c \in FreeIn(f, h) : Cardinality({d \in FreeIn(f, h) : d < c}) < n}

LEMMA TakenFacts ==
  ASSUME NEW f, NEW h \in Cluster, NEW n
  PROVE  /\ Taken(f, h, n) \subseteq Cluster /\ Taken(f, h, n) \in SUBSET Nat
         /\ \A c \in Taken(f, h, n) : f[c] = FREE /\ c <= TotalClusters /\ h <= c
<1>1. \A c \in Taken(f, h, n) : c \in h .. TotalClusters /\ f[c] = FREE
  BY DEF Taken, FreeIn
<1>2. \A c \in h .. TotalClusters : c \in Cluster /\ c <= TotalClusters /\ h <= c /\ c \in Nat
  BY TableNumbers, SMT DEF Cluster
<1> QED BY <1>1, <1>2

\* What one entry of a new chain says.
LEMMA LinkedFacts ==
  ASSUME NEW T, T \subseteq Cluster, NEW c \in T
  PROVE  Linked(T, c) = EndOfChain \/ (Linked(T, c) \in T /\ c < Linked(T, c))
<1> DEFINE after == {d \in T : c < d}
<1>1. CASE after = {}
  BY <1>1 DEF Linked
<1>2. CASE after # {}
  <2>1. after \in SUBSET Nat
    BY TableNumbers
  <2>2. Least(after) \in after
    BY <1>2, <2>1, LeastOf
  <2>3. Linked(T, c) = Least(after)
    BY <1>2 DEF Linked
  <2> QED BY <2>2, <2>3
<1> QED BY <1>1, <1>2

LEMMA AllocateFields ==
  ASSUME NEW f, NEW h, NEW n
  PROVE  /\ Allocate(f, h, n).ok = (Cardinality(Taken(f, h, n)) = n)
         /\ Allocate(f, h, n).first = (IF Taken(f, h, n) = {} THEN 0 ELSE Least(Taken(f, h, n)))
         /\ Allocate(f, h, n).fat = [c \in FatIndex |-> IF c \in Taken(f, h, n)
                                                        THEN Linked(Taken(f, h, n), c) ELSE f[c]]
         /\ Allocate(f, h, n).hint = HintAfter(Taken(f, h, n), h)
BY Zenon DEF Allocate, Taken

LEMMA AllocateFacts ==
  ASSUME NEW f, IsTable(f), NEW h \in Cluster, NEW n \in Nat,
         NEW g, g = Allocate(f, h, n).fat, NEW T, T = Taken(f, h, n)
  PROVE  /\ IsTable(g)
         /\ Allocate(f, h, n).hint \in Cluster
         /\ Allocate(f, h, n).first \in Cluster \cup {0}
         /\ Allocate(f, h, n).first # 0 => Allocate(f, h, n).first \in T
         /\ Allocate(f, h, n).ok \in BOOLEAN
         /\ Allocate(f, h, n).ok /\ n # 0 => Allocate(f, h, n).first \in T
         /\ \A c \in FatIndex : c \notin T => g[c] = f[c]
         /\ \A c \in T : g[c] = EndOfChain \/ (g[c] \in T /\ c < g[c])
<1>1. /\ T \subseteq Cluster /\ T \in SUBSET Nat
      /\ \A c \in T : c <= TotalClusters /\ h <= c
  BY TakenFacts
<1>2. /\ Allocate(f, h, n).ok = (Cardinality(T) = n)
      /\ Allocate(f, h, n).first = (IF T = {} THEN 0 ELSE Least(T))
      /\ g = [c \in FatIndex |-> IF c \in T THEN Linked(T, c) ELSE f[c]]
      /\ Allocate(f, h, n).hint = HintAfter(T, h)
  BY AllocateFields
<1>3. \A c \in T : Linked(T, c) = EndOfChain \/ (Linked(T, c) \in T /\ c < Linked(T, c))
  BY <1>1, LinkedFacts
<1>4. \A c \in T : c \in FatIndex
  BY <1>1, TableNumbers
<1>5. IsTable(g)
  <2>1. \A c \in T : Linked(T, c) \in Entry
    BY <1>1, <1>3, TableNumbers
  <2>2. \A c \in FatIndex : f[c] \in Entry
    BY DEF IsTable
  <2> QED BY <1>2, <2>1, <2>2 DEF IsTable
<1>6. T # {} => Least(T) \in T
  BY <1>1, LeastOf
<1>7. Allocate(f, h, n).hint \in Cluster
  <2>1. CASE T = {}
    BY <1>2, <2>1 DEF HintAfter
  <2>2. CASE T # {}
    <3>1. \A d \in T : d <= TotalClusters
      BY <1>1
    <3>2. Greatest(T) \in T
      BY <1>1, <2>2, <3>1, GreatestOf, TableNumbers
    <3>3. Greatest(T) <= TotalClusters /\ Greatest(T) \in Cluster
      BY <1>1, <3>2
    <3>4. Greatest(T) + 1 \in Cluster
      BY <3>3, TableNumbers, SMT DEF Cluster
    <3> QED BY <1>2, <2>2, <3>4 DEF HintAfter
  <2> QED BY <2>1, <2>2
<1>8. Allocate(f, h, n).ok /\ n # 0 => T # {}
  BY <1>2, FS_EmptySet
<1>9. /\ \A c \in FatIndex : c \notin T => g[c] = f[c]
      /\ \A c \in T : g[c] = EndOfChain \/ (g[c] \in T /\ c < g[c])
  BY <1>2, <1>3, <1>4
<1>10. Allocate(f, h, n).ok \in BOOLEAN
  BY <1>2
<1>11. /\ Allocate(f, h, n).first \in Cluster \cup {0}
       /\ Allocate(f, h, n).first # 0 => Allocate(f, h, n).first \in T
       /\ Allocate(f, h, n).ok /\ n # 0 => Allocate(f, h, n).first \in T
  BY <1>1, <1>2, <1>6, <1>8
<1> QED BY <1>5, <1>7, <1>9, <1>10, <1>11

\* The chain that is allocated ends, and so does every walk that did.
LEMMA AllocateAcyclic ==
  ASSUME NEW f, Acyclic(f), NEW h \in Cluster, NEW n \in Nat
  PROVE  Acyclic(Allocate(f, h, n).fat)
<1> DEFINE g == Allocate(f, h, n).fat
           T == Taken(f, h, n)
           Good == {k \in Nat : \A c \in T : c + k >= TotalClusters => WalkEnds(g, c)}
<1>1. /\ IsTable(f) /\ IsTable(g)
      /\ \A c \in FatIndex : c \notin T => g[c] = f[c]
      /\ \A c \in T : g[c] = EndOfChain \/ (g[c] \in T /\ c < g[c])
  BY AllocateFacts DEF Acyclic
<1>2. T \subseteq Cluster /\ T \in SUBSET Nat /\ \A c \in T : c <= TotalClusters
  BY TakenFacts
<1> HIDE DEF g, T
<1>3. \A c \in T : g[c] = EndOfChain => WalkEnds(g, c)
  BY <1>1, <1>2, LoneWalk, TableNumbers
<1>4. 0 \in Good
  <2> SUFFICES ASSUME NEW c \in T, c + 0 >= TotalClusters PROVE WalkEnds(g, c)
    OBVIOUS
  <2>1. ASSUME g[c] \in T, c < g[c] PROVE FALSE
    <3>1. g[c] \in Nat /\ g[c] <= TotalClusters /\ c \in Nat
      BY <1>2, <2>1
    <3> QED BY <2>1, <3>1, TableNumbers, SMT
  <2> QED BY <1>1, <1>3, <2>1
<1>5. \A k \in Nat : k \in Good => k + 1 \in Good
  <2> SUFFICES ASSUME NEW k \in Nat, k \in Good, NEW c \in T, c + (k + 1) >= TotalClusters
               PROVE  WalkEnds(g, c)
    BY SMT
  <2>1. CASE g[c] \in T /\ c < g[c]
    <3>0. g[c] \in Nat /\ c \in Nat
      BY <1>2, <2>1
    <3>1. g[c] + k >= TotalClusters
      BY <2>1, <3>0, TableNumbers, SMT
    <3>2. WalkEnds(g, g[c])
      BY <2>1, <3>1
    <3> QED BY <1>2, <2>1, <3>2, WalkBefore
  <2> QED BY <1>1, <1>3, <2>1
<1> HIDE DEF Good
<1>6. TotalClusters \in Good
  BY <1>4, <1>5, InductionOnNat, TableNumbers
<1>7. \A c \in T : WalkEnds(g, c)
  <2>1. \A c \in T : c + TotalClusters >= TotalClusters
    BY <1>2, TableNumbers, SMT
  <2> QED BY <1>6, <2>1 DEF Good
<1>8. \A x \in Cluster : g[x] = f[x] \/ g[x] \notin Cluster \/ WalkEnds(g, g[x])
  BY <1>1, <1>7, TableNumbers
<1>9. ASSUME NEW c \in Cluster PROVE WalkEnds(g, c)
  <2>1. WalkEnds(f, c)
    BY DEF Acyclic
  <2>2. OnChainIn(f, c) \subseteq Cluster
    BY <2>1, OnWalk
  <2> QED BY <1>1, <1>8, <2>1, <2>2, WalksEndStill
<1> QED BY <1>1, <1>9 DEF Acyclic, g

LEMMA ReleaseFacts ==
  ASSUME NEW f, IsTable(f), NEW c \in Entry, NEW g, g = Release(f, c)
  PROVE  /\ IsTable(g)
         /\ \A d \in FatIndex : g[d] = IF d \in OnChainIn(f, c) THEN FREE ELSE f[d]
         /\ c \notin Cluster => OnChainIn(f, c) = {} /\ \A d \in FatIndex : g[d] = f[d]
<1>1. g = [d \in FatIndex |-> IF d \in OnChainIn(f, c) THEN FREE ELSE f[d]]
  BY DEF Release
<1>2. \A d \in FatIndex : f[d] \in Entry
  BY DEF IsTable
<1>3. FREE \in Entry
  BY TableNumbers
<1>4. c \notin Cluster => OnChainIn(f, c) = {}
  <2> SUFFICES ASSUME c \notin Cluster PROVE OnChainIn(f, c) = {}
    OBVIOUS
  <2>1. ChainIn(f, c) = <<>>
    BY NoChain
  <2>2. DOMAIN ChainIn(f, c) = {}
    BY <2>1
  <2> QED BY <2>2 DEF OnChainIn
<1> QED BY <1>1, <1>2, <1>3, <1>4 DEF IsTable

\* Entries that are cut off or freed end the walks that come by.
LEMMA CutAcyclic ==
  ASSUME NEW f, Acyclic(f), NEW g, IsTable(g),
         \A x \in Cluster : g[x] = f[x] \/ g[x] \notin Cluster
  PROVE  Acyclic(g)
<1>1. ASSUME NEW c \in Cluster PROVE WalkEnds(g, c)
  <2>1. WalkEnds(f, c)
    BY DEF Acyclic
  <2>2. OnChainIn(f, c) \subseteq Cluster
    BY <2>1, OnWalk
  <2> QED BY <2>1, <2>2, WalksEndStill
<1> QED BY <1>1 DEF Acyclic

LEMMA ReleaseAcyclic ==
  ASSUME NEW f, Acyclic(f), NEW c \in Entry
  PROVE  Acyclic(Release(f, c))
<1>1. IsTable(f)
  BY DEF Acyclic
<1>2. /\ IsTable(Release(f, c))
      /\ \A d \in FatIndex : Release(f, c)[d] = IF d \in OnChainIn(f, c) THEN FREE ELSE f[d]
  BY <1>1, ReleaseFacts
<1>3. \A x \in Cluster : Release(f, c)[x] = f[x] \/ Release(f, c)[x] \notin Cluster
  BY <1>2, TableNumbers
<1> QED BY <1>2, <1>3, CutAcyclic

\* A walk that comes by a relinked entry goes on where that leads.
LEMMA RelinkAcyclic ==
  ASSUME NEW f, Acyclic(f), NEW g, IsTable(g), NEW d \in Cluster, WalkEnds(f, g[d]),
         \A x \in FatIndex : x # d => g[x] = f[x],
         d \notin OnChainIn(f, g[d])
  PROVE  Acyclic(g)
<1>1. OnChainIn(f, g[d]) \subseteq Cluster /\ Cluster \subseteq FatIndex
  BY OnWalk, TableNumbers
<1>2. WalkEnds(g, g[d])
  BY <1>1, WalkKept
<1>3. ASSUME NEW c \in Cluster PROVE WalkEnds(g, c)
  <2>1. WalkEnds(f, c)
    BY DEF Acyclic
  <2>2. OnChainIn(f, c) \subseteq Cluster
    BY <2>1, OnWalk
  <2>3. \A x \in Cluster : g[x] = f[x] \/ g[x] \notin Cluster \/ WalkEnds(g, g[x])
    BY <1>1, <1>2
  <2> QED BY <2>1, <2>2, <2>3, WalksEndStill
<1> QED BY <1>3 DEF Acyclic

LEMMA EndOfFacts ==
  ASSUME NEW f, IsTable(f), NEW c \in Entry
  PROVE  /\ EndOf(f, c) \in Cluster \cup {0}
         /\ EndOf(f, c) # 0 => /\ EndOf(f, c) \in OnChainIn(f, c)
                               /\ f[EndOf(f, c)] \notin Cluster
                               /\ f[EndOf(f, c)] # FREE
<1> DEFINE s == ChainIn(f, c)
<1>1. EndOf(f, c) = IF s # <<>> /\ IsEndOfChain(NextIn(f, s[Len(s)])) THEN s[Len(s)] ELSE 0
  BY Zenon DEF EndOf
<1>2. s \in Seq(Cluster)
  BY ChainType
<1>3. OnChainIn(f, c) = {s[i] : i \in DOMAIN s}
  BY DEF OnChainIn
<1> HIDE DEF s
<1>4. CASE s # <<>> /\ IsEndOfChain(NextIn(f, s[Len(s)]))
  <2>1. Len(s) \in DOMAIN s /\ s[Len(s)] \in Cluster
    <3>1. Len(s) \in Nat /\ DOMAIN s = 1 .. Len(s) /\ Len(s) # 0
      BY <1>2, <1>4, LenProperties, EmptySeq
    <3>2. Len(s) \in 1 .. Len(s)
      BY <3>1, SMT
    <3> QED BY <1>2, <3>1, <3>2, ElementOfSeq
  <2>2. NextIn(f, s[Len(s)]) = f[s[Len(s)]]
    BY <2>1, TableNumbers DEF NextIn
  <2>3. \A e \in Cluster \cup {FREE} : ~IsEndOfChain(e)
    BY TotalClustersAssumption, SMT
    DEF Cluster, IsEndOfChain, FREE, MediaEntry, LastValidCluster
  <2>4. f[s[Len(s)]] \notin Cluster /\ f[s[Len(s)]] # FREE
    BY <1>4, <2>2, <2>3
  <2> QED BY <1>1, <1>3, <1>4, <2>1, <2>4
<1>5. CASE ~(s # <<>> /\ IsEndOfChain(NextIn(f, s[Len(s)])))
  BY <1>1, <1>5
<1> QED BY <1>4, <1>5

\* fat32_append_cluster: the new cluster is alone, or linked to the last one.
LEMMA AppendFacts ==
  ASSUME NEW f, IsTable(f), NEW h \in Cluster, NEW c \in Entry,
         NEW g, g = Append1(f, h, c).fat, NEW e, e = Allocate(f, h, 1).first,
         NEW T, T = Taken(f, h, 1), NEW d, d = EndOf(f, c)
  PROVE  /\ Append1(f, h, c).ok = Allocate(f, h, 1).ok
         /\ Append1(f, h, c).first = e
         /\ Append1(f, h, c).hint = Allocate(f, h, 1).hint
         /\ IsTable(g)
         /\ \A x \in FatIndex : x \notin T /\ x # d => g[x] = f[x]
         /\ \A x \in T : g[x] = Allocate(f, h, 1).fat[x] /\ x # d
         /\ d # 0 => g[d] = f[d] \/ (g[d] = e /\ e \in T)
<1> DEFINE new == Allocate(f, h, 1)
<1>1. /\ IsTable(new.fat) /\ e \in Cluster \cup {0} /\ new.ok \in BOOLEAN
      /\ new.ok => e \in T
      /\ \A x \in FatIndex : x \notin T => new.fat[x] = f[x]
  <2>1. 1 \in Nat /\ 1 # 0
    OBVIOUS
  <2> QED BY <2>1, AllocateFacts
<1>2. T \subseteq Cluster /\ \A x \in T : f[x] = FREE
  BY TakenFacts
<1>3. d \in Cluster \cup {0} /\ (d # 0 => f[d] # FREE)
  BY EndOfFacts
<1>4. Append1(f, h, c) = IF new.ok /\ d # 0 THEN [new EXCEPT !.fat[d] = e] ELSE new
  BY Zenon DEF Append1
<1>5. /\ DOMAIN new = {"ok", "first", "fat", "hint"}
  BY DEF Allocate
<1>6. new.first = e
  OBVIOUS
<1>12. \A x \in T : x # d
  BY <1>2, <1>3, TableNumbers
<1> HIDE DEF new
<1>7. CASE new.ok /\ d # 0
  <2>1. /\ Append1(f, h, c).ok = new.ok /\ Append1(f, h, c).first = e
        /\ Append1(f, h, c).hint = new.hint
        /\ g = [new.fat EXCEPT ![d] = e]
    BY <1>4, <1>5, <1>6, <1>7
  <2>2. d \in FatIndex /\ e \in Entry /\ DOMAIN new.fat = FatIndex
    BY <1>1, <1>3, <1>7, TableNumbers DEF IsTable
  <2>3. \A x \in FatIndex : g[x] = IF x = d THEN e ELSE new.fat[x]
    BY <2>1, <2>2
  <2>4. IsTable(g)
    BY <1>1, <2>1, <2>2 DEF IsTable
  <2>5. e \in T
    BY <1>1, <1>7
  <2>6. \A x \in T : x \in FatIndex
    BY <1>2, TableNumbers
  <2>7. \A x \in FatIndex : x \notin T /\ x # d => g[x] = f[x]
    BY <1>1, <2>3
  <2>8. \A x \in T : g[x] = new.fat[x]
    BY <1>12, <2>3, <2>6
  <2>9. g[d] = e
    BY <2>2, <2>3
  <2> QED BY <1>12, <2>1, <2>4, <2>5, <2>7, <2>8, <2>9 DEF new
<1>8. CASE ~(new.ok /\ d # 0)
  <2>1. Append1(f, h, c) = new /\ g = new.fat
    BY <1>4, <1>8
  <2>2. d # 0 => d \in FatIndex /\ d \notin T
    BY <1>2, <1>3, TableNumbers
  <2> QED BY <1>1, <1>2, <1>6, <1>12, <2>1, <2>2 DEF new
<1> QED BY <1>7, <1>8

LEMMA AppendAcyclic ==
  ASSUME NEW f, Acyclic(f), NEW h \in Cluster, NEW c \in Entry
  PROVE  Acyclic(Append1(f, h, c).fat)
<1> DEFINE g == Append1(f, h, c).fat
           k == Allocate(f, h, 1).fat
           e == Allocate(f, h, 1).first
           T == Taken(f, h, 1)
           d == EndOf(f, c)
<1>1. IsTable(f) /\ 1 \in Nat
  BY DEF Acyclic
<1>2. /\ IsTable(g)
      /\ \A x \in FatIndex : x \notin T /\ x # d => g[x] = f[x]
      /\ \A x \in T : g[x] = k[x] /\ x # d
      /\ d # 0 => g[d] = f[d] \/ (g[d] = e /\ e \in T)
  BY <1>1, AppendFacts
<1>3. Acyclic(k)
  BY <1>1, AllocateAcyclic
<1>4. /\ \A x \in FatIndex : x \notin T => k[x] = f[x]
      /\ \A x \in T : k[x] = EndOfChain \/ k[x] \in T
  BY <1>1, AllocateFacts
<1>5. d \in Cluster \cup {0} /\ T \subseteq Cluster
  BY <1>1, EndOfFacts, TakenFacts
<1> HIDE DEF g, k, e, T, d
<1>6. \A x \in FatIndex : x # d => g[x] = k[x]
  BY <1>2, <1>4
<1>7. ASSUME d # 0 /\ g[d] = e /\ e \in T PROVE Acyclic(g)
  <2>1. WalkEnds(k, e) /\ d \in Cluster
    BY <1>3, <1>5, <1>7, TableNumbers DEF Acyclic
  <2>2. OnChainIn(k, e) \subseteq T
    BY <1>4, <1>7, <2>1, WalkWithin, TableNumbers
  <2>3. d \notin OnChainIn(k, g[d])
    BY <1>2, <1>7, <2>2
  <2> QED BY <1>2, <1>3, <1>6, <1>7, <2>1, <2>3, RelinkAcyclic
<1>8. ASSUME ~(d # 0 /\ g[d] = e /\ e \in T) PROVE Acyclic(g)
  <2>1. \A x \in Cluster : g[x] = k[x]
    <3>1. \A x \in Cluster : x \in FatIndex /\ x # 0
      BY TableNumbers
    <3>2. d # 0 => g[d] = k[d]
      BY <1>2, <1>4, <1>5, <1>8, TableNumbers
    <3> QED BY <1>6, <3>1, <3>2
  <2> QED BY <1>2, <1>3, <2>1, CutAcyclic
<1> QED BY <1>7, <1>8 DEF g

\* A chain cut after its nth cluster, the rest of it freed or not.
LEMMA CutFacts ==
  ASSUME NEW f, Acyclic(f), NEW c \in Cluster, NEW n \in 1 .. Len(ChainIn(f, c)),
         NEW d, d = ChainIn(f, c)[n], NEW k, Changed(f, k, d, EndOfChain),
         NEW g, g = Release(k, NextIn(f, d))
  PROVE  /\ Acyclic(k) /\ ChainIn(k, c) = SubSeq(ChainIn(f, c), 1, n)
         /\ Acyclic(g) /\ ChainIn(g, c) = SubSeq(ChainIn(f, c), 1, n)
         /\ \A x \in FatIndex : x \notin OnChainIn(f, c) => k[x] = f[x] /\ g[x] = f[x]
         /\ OnChainIn(k, c) \subseteq OnChainIn(f, c)
         /\ OnChainIn(g, c) \subseteq OnChainIn(f, c)
         /\ \A x \in OnChainIn(k, c) : k[x] = f[x] \/ k[x] = EndOfChain
         /\ \A x \in OnChainIn(g, c) : g[x] = f[x] \/ g[x] = EndOfChain
<1> DEFINE s == ChainIn(f, c)
           next == f[d]
           freed == OnChainIn(k, next)
           a == SubSeq(s, 1, n)
<1>1. WalkEnds(f, c) /\ IsTable(f)
  BY DEF Acyclic
<1>2. /\ Whole(f, s) /\ s[1] = c /\ Path(f, s) /\ Len(s) \in Nat /\ DOMAIN s = 1 .. Len(s)
      /\ \A i \in 1 .. Len(s) : s[i] \in Cluster
  BY <1>1, ChainOfWalk, PathFacts DEF Whole
<1>3. /\ n \in 1 .. Len(s) /\ n \in Nat /\ d = s[n] /\ d \in Cluster /\ d \in FatIndex
      /\ g = Release(k, next)
  <2>1. n \in 1 .. Len(s) /\ d = s[n]
    OBVIOUS
  <2>2. n \in Nat
    BY <1>2, <2>1, SMT
  <2>3. d \in Cluster /\ d \in FatIndex
    BY <1>2, <2>1, TableNumbers
  <2>4. NextIn(f, d) = next
    BY <2>3 DEF NextIn
  <2> QED BY <2>1, <2>2, <2>3, <2>4
<1>4. OnChainIn(f, c) = {s[i] : i \in 1 .. Len(s)}
  BY ONLY <1>1, OnWalk DEF s
<1>5. /\ IsTable(k) /\ k[d] = EndOfChain /\ \A x \in FatIndex : x # d => k[x] = f[x]
  BY <1>1, <1>3, TableNumbers DEF Changed, IsTable
<1>6. next \in Entry /\ next = f[d]
  BY <1>1, <1>3 DEF IsTable
<1> HIDE DEF next
<1>7. Acyclic(k)
  <2>1. \A x \in Cluster : k[x] = f[x] \/ k[x] \notin Cluster
    BY <1>5, TableNumbers
  <2> QED BY <1>5, <2>1, CutAcyclic
<1>8. Acyclic(g)
  BY <1>3, <1>6, <1>7, ReleaseAcyclic
<1>9. IsTable(g) /\ \A x \in FatIndex : g[x] = IF x \in freed THEN FREE ELSE k[x]
  BY ONLY <1>3, <1>5, <1>6, ReleaseFacts
<1> HIDE DEF s
\* What is freed comes after the nth cluster.
<1>10. \A x \in freed : \E j \in 1 .. Len(s) : j > n /\ x = s[j]
  <2>1. CASE next \notin Cluster
    <3>1. freed = {}
      BY ONLY <1>3, <1>5, <1>6, <2>1, ReleaseFacts
    <3> QED BY <3>1
  <2>2. CASE next \in Cluster
    <3>1. n + 1 \in 1 .. Len(s) /\ s[n + 1] = next
      BY <1>2, <1>3, <1>6, <2>2, NextOfChain
    <3> DEFINE m == n + 1
               b == SubSeq(s, m, Len(s))
    <3>2. m \in 1 .. Len(s) /\ m \in Nat /\ s[m] = next /\ m = n + 1
      BY <1>3, <3>1, SMT
    <3> HIDE DEF m
    <3>3. WalkEnds(f, next) /\ ChainIn(f, next) = b
      BY <1>1, <3>2, RestOfWalk DEF s
    <3>4. Len(b) = Len(s) - m + 1 /\ \A i \in 1 .. Len(s) - m + 1 : b[i] = s[m + i - 1]
      BY <1>2, <3>2, PathPieces, SMTT(30)
    <3> HIDE DEF b
    <3>5. OnChainIn(f, next) = {ChainIn(f, next)[i] : i \in 1 .. Len(ChainIn(f, next))}
      BY ONLY <3>3, OnWalk
    <3>6. \A x \in OnChainIn(f, next) : \E j \in 1 .. Len(s) : j > n /\ x = s[j]
      <4> SUFFICES ASSUME NEW x \in OnChainIn(f, next)
                   PROVE  \E j \in 1 .. Len(s) : j > n /\ x = s[j]
        OBVIOUS
      <4>1. PICK i \in 1 .. Len(b) : x = b[i]
        BY <3>3, <3>5
      <4>2. m + i - 1 \in 1 .. Len(s) /\ m + i - 1 > n
        BY <1>2, <1>3, <3>2, <3>4, SMT
      <4>3. x = s[m + i - 1]
        BY <3>4, <4>1
      <4> QED BY <4>2, <4>3
    <3>7. \A x \in OnChainIn(f, next) : x \in FatIndex /\ x # d
      <4> SUFFICES ASSUME NEW x \in OnChainIn(f, next) PROVE x \in FatIndex /\ x # d
        OBVIOUS
      <4>1. PICK j \in 1 .. Len(s) : j > n /\ x = s[j]
        BY <3>6
      <4>2. j # n
        BY <1>3, <4>1, SMT
      <4>3. x \in Cluster
        BY <1>2, <4>1
      <4>4. s[j] # s[n]
        BY ONLY <1>2, <1>3, <4>1, <4>2, WholeOnce
      <4> QED BY <1>3, <4>1, <4>3, <4>4, TableNumbers
    <3>8. \A x \in OnChainIn(f, next) : k[x] = f[x]
      BY <1>5, <3>7
    <3>9. freed = OnChainIn(f, next)
      BY ONLY <1>5, <3>3, <3>8, WalkKept DEF freed
    <3> QED BY <3>6, <3>9
  <2> QED BY <2>1, <2>2
<1> HIDE DEF freed
<1>11. \A i \in 1 .. Len(s) : i <= n => s[i] \notin freed
  <2> SUFFICES ASSUME NEW i \in 1 .. Len(s), i <= n, s[i] \in freed PROVE FALSE
    OBVIOUS
  <2>1. PICK j \in 1 .. Len(s) : j > n /\ s[i] = s[j]
    BY <1>10
  <2>2. i # j
    BY <1>3, <2>1, SMT
  <2> QED BY <1>2, <2>1, <2>2, WholeOnce
<1>12. \A i \in 1 .. n - 1 : k[s[i]] = f[s[i]] /\ g[s[i]] = f[s[i]]
  <2> SUFFICES ASSUME NEW i \in 1 .. n - 1
               PROVE  k[s[i]] = f[s[i]] /\ g[s[i]] = f[s[i]]
    OBVIOUS
  <2>1. i \in 1 .. Len(s) /\ i <= n /\ i # n
    BY <1>2, <1>3, SMT
  <2>2. s[i] \in FatIndex /\ s[i] # d
    BY <1>2, <1>3, <2>1, WholeOnce, TableNumbers
  <2> QED BY <1>5, <1>9, <1>11, <2>1, <2>2
<1>13. g[d] = EndOfChain
  <2>1. n <= n
    BY <1>3, SMT
  <2>2. d \notin freed
    BY <1>3, <1>11, <2>1
  <2> QED BY <1>3, <1>5, <1>9, <2>2
<1>14. /\ ChainIn(k, c) = a /\ WalkEnds(k, c) /\ ChainIn(g, c) = a /\ WalkEnds(g, c)
  <2>1. k[s[n]] \notin Cluster /\ g[s[n]] \notin Cluster
    BY <1>3, <1>5, <1>13, TableNumbers
  <2>2. ChainIn(k, c) = a /\ WalkEnds(k, c)
    BY ONLY <1>1, <1>3, <1>5, <1>12, <2>1, WalkCut DEF s, a
  <2>3. ChainIn(g, c) = a /\ WalkEnds(g, c)
    BY ONLY <1>1, <1>3, <1>9, <1>12, <2>1, WalkCut DEF s, a
  <2> QED BY <2>2, <2>3
<1>15. /\ Len(a) = n /\ \A i \in 1 .. n : a[i] = s[i]
  BY <1>2, <1>3, PathPieces
<1> HIDE DEF a
<1>16. \A i \in 1 .. n : i \in 1 .. Len(s) /\ (i # n => i \in 1 .. n - 1)
  BY <1>2, <1>3, SMT
<1>17. OnChainIn(k, c) = {a[i] : i \in 1 .. n} /\ OnChainIn(g, c) = {a[i] : i \in 1 .. n}
  BY ONLY <1>14, <1>15, OnWalk
<1>18. \A x \in {a[i] : i \in 1 .. n} : /\ x \in OnChainIn(f, c)
                                        /\ k[x] = f[x] \/ k[x] = EndOfChain
                                        /\ g[x] = f[x] \/ g[x] = EndOfChain
  <2> SUFFICES ASSUME NEW i \in 1 .. n
               PROVE  /\ a[i] \in OnChainIn(f, c)
                      /\ k[a[i]] = f[a[i]] \/ k[a[i]] = EndOfChain
                      /\ g[a[i]] = f[a[i]] \/ g[a[i]] = EndOfChain
    OBVIOUS
  <2>1. a[i] = s[i] /\ i \in 1 .. Len(s)
    BY <1>15, <1>16
  <2>2. CASE i = n
    BY <1>3, <1>4, <1>5, <1>13, <2>1, <2>2
  <2>3. CASE i # n
    BY <1>4, <1>12, <1>16, <2>1, <2>3
  <2> QED BY <2>2, <2>3
<1>19. \A x \in FatIndex : x \notin OnChainIn(f, c) => k[x] = f[x] /\ g[x] = f[x]
  <2> SUFFICES ASSUME NEW x \in FatIndex, x \notin OnChainIn(f, c)
               PROVE  k[x] = f[x] /\ g[x] = f[x]
    OBVIOUS
  <2>1. x # d
    BY <1>3, <1>4
  <2>2. x \notin freed
    BY <1>4, <1>10
  <2> QED BY <1>5, <1>9, <2>1, <2>2
<1>20. /\ OnChainIn(k, c) \subseteq OnChainIn(f, c)
       /\ OnChainIn(g, c) \subseteq OnChainIn(f, c)
       /\ \A x \in OnChainIn(k, c) : k[x] = f[x] \/ k[x] = EndOfChain
       /\ \A x \in OnChainIn(g, c) : g[x] = f[x] \/ g[x] = EndOfChain
  <2> DEFINE A == {a[i] : i \in 1 .. n}
  <2>1. /\ OnChainIn(k, c) = A /\ OnChainIn(g, c) = A
        /\ \A x \in A : /\ x \in OnChainIn(f, c)
                        /\ k[x] = f[x] \/ k[x] = EndOfChain
                        /\ g[x] = f[x] \/ g[x] = EndOfChain
    BY ONLY <1>17, <1>18
  <2> HIDE DEF A
  <2> QED BY ONLY <2>1
<1> QED BY <1>7, <1>8, <1>14, <1>19, <1>20 DEF s, a
==============================================================================

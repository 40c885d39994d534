--------------------------- MODULE DirStoreProofs ---------------------------
(***************************************************************************)
(* As long as nothing fails, every step of DirManager is one of DirStore:  *)
(* for volumes, directories, names and paths of any size.                  *)
(*                                                                         *)
(* The parts of the argument: Tree and Store!Reached are least sets; what  *)
(* one entry more or less does to them; Arranged, that the name of the new *)
(* entry is not in use and that what it names is empty; then the actions,  *)
(* one by one.  StoreInv is the invariant.                                 *)
(***************************************************************************)
EXTENDS DirRefinement, DirProofs

-----------------------------------------------------------------------------
(* The tree by what its entries name.                                      *)

\* Entries and chains of directories in a set, with what they name in the set or
\* nothing.
HoldsAll(X) == \A d \in X : \A x \in EntriesOf(d) : x.what \in X \cup {None}

\* The tree is the least set with the root and what its entries name.
TreeLeast ==
  /\ Root \in Tree /\ Tree \subseteq Cluster /\ HoldsAll(Tree)
  /\ \A X \in SUBSET Cluster : Root \in X /\ HoldsAll(X) => Tree \subseteq X

\* Entries of directories name clusters, those of files nothing.
Sorted ==
  \A c \in Cluster \ raw, s \in Slots :
    IsEntry(Unlinked[c][s]) =>
      IF Unlinked[c][s].dir THEN Unlinked[c][s].first \in Cluster
      ELSE Unlinked[c][s].first = None

LEMMA InEntries ==
  ASSUME NEW d
  PROVE  /\ \A x \in EntriesOf(d) :
              \E c \in OnChainIn(fat, d) \ raw, s \in Slots :
                /\ IsEntry(Unlinked[c][s]) /\ x.at = <<c, s>> /\ x.dir = d
                /\ x.name = Unlinked[c][s].name /\ x.what = Unlinked[c][s].first
         /\ \A c \in OnChainIn(fat, d) \ raw, s \in Slots :
              IsEntry(Unlinked[c][s]) =>
                \E x \in EntriesOf(d) :
                  /\ x.at = <<c, s>> /\ x.dir = d
                  /\ x.name = Unlinked[c][s].name /\ x.what = Unlinked[c][s].first
<1> DEFINE X(p) == [at |-> p, dir |-> d, name |-> Unlinked[p[1]][p[2]].name,
                    what |-> Unlinked[p[1]][p[2]].first]
           P == {q \in (OnChainIn(fat, d) \ raw) \X Slots : IsEntry(Unlinked[q[1]][q[2]])}
<1>1. EntriesOf(d) = {X(p) : p \in P} BY Zenon DEF EntriesOf
<1>2. ASSUME NEW x \in EntriesOf(d)
      PROVE  \E c \in OnChainIn(fat, d) \ raw, s \in Slots :
               /\ IsEntry(Unlinked[c][s]) /\ x.at = <<c, s>> /\ x.dir = d
               /\ x.name = Unlinked[c][s].name /\ x.what = Unlinked[c][s].first
  <2>1. PICK p \in P : x = X(p) BY <1>1, <1>2
  <2>2. PICK c \in OnChainIn(fat, d) \ raw, s \in Slots : p = <<c, s>> OBVIOUS
  <2>3. p[1] = c /\ p[2] = s BY <2>2
  <2>4. IsEntry(Unlinked[c][s]) BY <2>3, Zenon
  <2>5. x.at = p /\ x.dir = d /\ x.name = Unlinked[c][s].name /\ x.what = Unlinked[c][s].first
    BY <2>1, <2>3
  <2> QED BY <2>2, <2>4, <2>5
<1>3. ASSUME NEW c \in OnChainIn(fat, d) \ raw, NEW s \in Slots, IsEntry(Unlinked[c][s])
      PROVE  \E x \in EntriesOf(d) :
               /\ x.at = <<c, s>> /\ x.dir = d
               /\ x.name = Unlinked[c][s].name /\ x.what = Unlinked[c][s].first
  <2> DEFINE p == <<c, s>>
  <2>1. p \in P BY <1>3
  <2>2. X(p) \in EntriesOf(d) BY <1>1, <2>1
  <2>3. X(p).at = p /\ X(p).dir = d /\ X(p).name = Unlinked[c][s].name /\ X(p).what = Unlinked[c][s].first
    OBVIOUS
  <2> QED BY <2>2, <2>3, Zenon
<1> QED BY <1>2, <1>3

LEMMA TreeIsLeast ==
  ASSUME IsTable(fat), Sorted PROVE TreeLeast
<1>1. Cluster \subseteq Entry /\ Root \in Cluster /\ None \notin Cluster
  <2>1. 2 \in 2 .. TotalClusters + 1 BY TableNumbers, SMT
  <2> QED BY <2>1, TableNumbers DEF Root, None, Cluster
<1>2. ASSUME NEW c \in Cluster \ raw, NEW s \in Slots, IsDirEntry(Unlinked[c][s])
      PROVE  Unlinked[c][s].first \in Cluster /\ IsEntry(Unlinked[c][s])
  BY <1>2 DEF Sorted, IsDirEntry
<1>3. Root \in Tree /\ Tree \subseteq Cluster /\ WiderIn(Unlinked, Tree) = Tree
  <2> DEFINE S == Cluster
  <2>1. \A d \in S : \A c \in OnChainIn(fat, d), s \in Slots :
          c \in Cluster \ raw /\ IsDirEntry(Unlinked[c][s]) => Unlinked[c][s].first \in S
    BY <1>2
  <2>2. S \subseteq Cluster /\ Root \in S BY <1>1
  <2> HIDE DEF S
  <2>3. /\ Root \in BelowIn(Unlinked, Root) /\ BelowIn(Unlinked, Root) \subseteq S
        /\ WiderIn(Unlinked, BelowIn(Unlinked, Root)) = BelowIn(Unlinked, Root)
    BY <2>1, <2>2, BelowInEnds
  <2> QED BY <2>3 DEF Tree, S
<1>4. HoldsAll(Tree)
  <2> SUFFICES ASSUME NEW d \in Tree, NEW x \in EntriesOf(d) PROVE x.what \in Tree \cup {None}
    BY DEF HoldsAll
  <2>1. PICK c \in OnChainIn(fat, d) \ raw, s \in Slots :
          IsEntry(Unlinked[c][s]) /\ x.what = Unlinked[c][s].first
    BY InEntries
  <2>2. c \in Cluster
    <3>1. d \in Entry BY <1>1, <1>3
    <3> QED BY <2>1, <3>1, ChainClusters
  <2>3. CASE Unlinked[c][s].dir
    <3> DEFINE q == <<c, s>>
    <3>1. IsDirEntry(Unlinked[c][s]) BY <2>1, <2>3 DEF IsDirEntry
    <3>2. q \in {p \in (Cluster \ raw) \X Slots :
                    /\ IsDirEntry(Unlinked[p[1]][p[2]])
                    /\ \E e \in Tree : p[1] \in OnChainIn(fat, e)}
      BY <2>1, <2>2, <3>1
    <3>3. Unlinked[q[1]][q[2]].first \in WiderIn(Unlinked, Tree) BY <3>2, Zenon DEF WiderIn
    <3> QED BY <1>3, <2>1, <3>3
  <2>4. CASE ~Unlinked[c][s].dir BY <2>1, <2>2, <2>4 DEF Sorted
  <2> QED BY <2>3, <2>4
<1>5. ASSUME NEW X \in SUBSET Cluster, Root \in X, HoldsAll(X) PROVE Tree \subseteq X
  <2>1. ASSUME NEW d \in X, NEW c \in OnChainIn(fat, d), NEW s \in Slots,
               c \in Cluster \ raw, IsDirEntry(Unlinked[c][s])
        PROVE  Unlinked[c][s].first \in X
    <3>1. Unlinked[c][s].first \in Cluster /\ IsEntry(Unlinked[c][s]) BY <1>2, <2>1
    <3>2. PICK x \in EntriesOf(d) : x.what = Unlinked[c][s].first BY <2>1, <3>1, InEntries
    <3> QED BY <1>1, <1>5, <3>1, <3>2 DEF HoldsAll
  <2>2. BelowIn(Unlinked, Root) \subseteq X BY <1>5, <2>1, BelowInEnds
  <2> QED BY <2>2 DEF Tree
<1> QED BY <1>3, <1>4, <1>5 DEF TreeLeast

LEMMA ReachedLeast ==
  ASSUME NEW set, \A x \in set : x.dir \in Cluster /\ x.what \in Cluster \cup {None}
  PROVE  /\ Root \in Store!Reached(set) /\ Store!Reached(set) \subseteq Cluster
         /\ \A x \in set : x.dir \in Store!Reached(set) => x.what \in Store!Reached(set) \cup {None}
         /\ \A X \in SUBSET Cluster :
              Root \in X /\ (\A x \in set : x.dir \in X => x.what \in X \cup {None})
              => Store!Reached(set) \subseteq X
<1> DEFINE N == Cardinality(Cluster)
           More(G) == G \cup {e.what : e \in {x \in set : x.dir \in G}}
           Right(h) == h = [n \in 0 .. N |-> IF n = 0 THEN {Root} ELSE More(h[n - 1])]
           g == CHOOSE h : Right(h)
<1>1. N \in Nat /\ Root \in Cluster /\ None \notin Cluster
  <2>1. 2 \in 2 .. TotalClusters + 1 BY TableNumbers, SMT
  <2> QED BY <2>1, TableNumbers, ClustersFinite DEF Root, None, Cluster
<1>card. Store!Cardinality(Cluster) = N BY Zenon DEF Store!Cardinality, Cardinality
<1>2. Store!Reached(set) = g[N] \ {None} BY <1>card, Zenon DEF Store!Reached
<1> HIDE DEF g
<1> DEFINE Fits1(X) == X \in SUBSET Cluster /\ Root \in X
                       /\ \A x \in set : x.dir \in X => x.what \in X \cup {None}
<1>3. Fits1(Cluster) BY <1>1
<1>4. ASSUME NEW X, Fits1(X)
      PROVE  /\ \A G \in SUBSET (X \cup {None}) :
                  G \subseteq More(G) /\ More(G) \in SUBSET (X \cup {None})
             /\ IsFiniteSet(X \cup {None}) /\ Cardinality(X \cup {None}) <= N + 1
  <2>1. ASSUME NEW G \in SUBSET (X \cup {None})
        PROVE  G \subseteq More(G) /\ More(G) \in SUBSET (X \cup {None})
    <3>1. ASSUME NEW x \in set, x.dir \in G PROVE x.what \in X \cup {None}
      BY <1>1, <1>4, <3>1
    <3> QED BY <3>1
  <2>2. IsFiniteSet(X) /\ Cardinality(X) <= N BY <1>4, ClustersFinite, FS_Subset
  <2>3. None \notin X BY <1>1, <1>4
  <2>4. IsFiniteSet(X \cup {None}) /\ Cardinality(X \cup {None}) = Cardinality(X) + 1
    BY <2>2, <2>3, FS_AddElement
  <2>5. Cardinality(X) \in Nat BY <2>2, FS_CardinalityType
  <2>6. Cardinality(X \cup {None}) <= N + 1 BY <1>1, <2>2, <2>4, <2>5, SMT
  <2> QED BY <2>1, <2>4, <2>6
<1>5. Right(g)
  <2> DEFINE U == Cluster \cup {None}
             W == [G \in SUBSET U |-> More(G)]
  <2>1. \A G \in SUBSET U : W[G] = More(G) /\ W[G] \in SUBSET U BY <1>3, <1>4
  <2>2. PICK h : h = [n \in 0 .. N |-> Round(W, Root, h, n)]
    <3>1. PICK w : w = W OBVIOUS
    <3>2. \E h : h = [n \in 0 .. N |-> Round(w, Root, h, n)] BY <1>1, RoundsExist
    <3> HIDE DEF W
    <3> QED BY <3>1, <3>2
  <2> HIDE DEF W
  <2>3. h[0] = {Root} /\ \A n \in 0 .. N : n # 0 => h[n] = W[h[n - 1]]
    <3>1. 0 \in 0 .. N BY <1>1, SMT
    <3> QED BY <2>2, <3>1, Zenon DEF Round
  <2> DEFINE Good == {n \in Nat : n \in 0 .. N => h[n] \in SUBSET U}
  <2>4. 0 \in Good BY <1>1, <2>3
  <2>5. ASSUME NEW n \in Nat, n \in Good PROVE n + 1 \in Good
    <3> SUFFICES ASSUME n + 1 \in 0 .. N PROVE h[n + 1] \in SUBSET U
      BY SMT
    <3>1. n \in 0 .. N /\ n + 1 # 0 /\ (n + 1) - 1 = n BY <1>1, SMT
    <3>2. h[n + 1] = W[h[n]] BY <2>3, <3>1, Zenon
    <3>3. h[n] \in SUBSET U BY <2>5, <3>1
    <3> QED BY <2>1, <3>2, <3>3
  <2> HIDE DEF Good
  <2>6. \A n \in 0 .. N : h[n] \in SUBSET U
    <3>1. \A n \in 0 .. N : n \in Nat BY <1>1, SMT
    <3>2. Nat \subseteq Good BY <2>4, <2>5, InductionOnNat
    <3> QED BY <3>1, <3>2 DEF Good
  <2>7. ASSUME NEW n \in 0 .. N
        PROVE  Round(W, Root, h, n) = (IF n = 0 THEN {Root} ELSE More(h[n - 1]))
    <3>1. n # 0 => n - 1 \in 0 .. N BY <1>1, SMT
    <3>2. n # 0 => h[n - 1] \in SUBSET U BY <2>6, <3>1
    <3> HIDE DEF More, U
    <3>3. n # 0 => W[h[n - 1]] = More(h[n - 1]) BY <2>1, <3>2
    <3> QED BY <3>3, Zenon DEF Round
  <2> HIDE DEF More
  <2>8. Right(h) BY <2>2, <2>7, Zenon
  <2> QED BY <2>8, Zenon DEF g
<1>6. g[0] = {Root} /\ \A n \in 0 .. N : n # 0 => g[n] = More(g[n - 1])
  <2>1. 0 \in 0 .. N BY <1>1, SMT
  <2> HIDE DEF More
  <2> QED BY <1>5, <2>1, Zenon
<1> HIDE DEF N
<1>7. ASSUME NEW X, Fits1(X)
      PROVE  Root \in g[N] /\ g[N] \in SUBSET (X \cup {None}) /\ More(g[N]) = g[N]
  <2> DEFINE U == X \cup {None}
             W == [G \in SUBSET U |-> More(G)]
  <2>more. \A G \in SUBSET U : G \subseteq More(G) /\ More(G) \in SUBSET U BY <1>4, <1>7, Zenon
  <2>fits. Root \in X /\ IsFiniteSet(U) /\ Cardinality(U) <= N + 1 BY <1>4, <1>7
  <2> HIDE DEF More, Fits1
  <2>1. \A G \in SUBSET U : G \subseteq W[G] /\ W[G] \in SUBSET U /\ W[G] = More(G) BY <2>more
  <2>2. \A n \in 0 .. N : n # 0 /\ g[n - 1] \in SUBSET U => g[n] = W[g[n - 1]]
    BY <1>6, <2>1
  <2>3. IsFiniteSet(U) /\ Cardinality(U) <= N + 1 /\ Root \in U BY <2>fits
  <2> HIDE DEF W, U
  <2>4. Root \in g[N] /\ g[N] \in SUBSET U /\ W[g[N]] = g[N]
    BY <1>1, <1>6, <2>1, <2>2, <2>3, RoundsEnd
  <2> QED BY <2>1, <2>4 DEF U
<1>8. Root \in g[N] /\ g[N] \in SUBSET (Cluster \cup {None}) /\ More(g[N]) = g[N]
  BY <1>3, <1>7
<1>9. Root \in g[N] \ {None} /\ g[N] \ {None} \subseteq Cluster BY <1>1, <1>8
<1>10. ASSUME NEW x \in set, x.dir \in g[N] \ {None} PROVE x.what \in (g[N] \ {None}) \cup {None}
  BY <1>8, <1>10
<1>11. ASSUME NEW X \in SUBSET Cluster, Root \in X, \A x \in set : x.dir \in X => x.what \in X \cup {None}
       PROVE  g[N] \ {None} \subseteq X
  <2>1. Fits1(X) BY <1>11
  <2> HIDE DEF Fits1, More
  <2> QED BY <1>7, <2>1
<1> QED BY <1>2, <1>9, <1>10, <1>11 DEF N

-----------------------------------------------------------------------------
(* How the tree and its entries change with the entries of directories.    *)

LEMMA EntriesDir ==
  /\ \A d : \A x \in EntriesOf(d) : x.dir = d
  /\ \A x : x \in Entries <=> x.dir \in Tree /\ x \in EntriesOf(x.dir)
<1>1. \A d : \A x \in EntriesOf(d) : x.dir = d BY InEntries
<1>2. \A x : x \in Entries <=> \E d \in Tree : x \in EntriesOf(d) BY DEF Entries
<1> QED BY <1>1, <1>2

DirOfEntries ==
  /\ \A d : \A x \in EntriesOf(d) : x.dir = d
  /\ \A x : x \in Entries <=> x.dir \in Tree /\ x \in EntriesOf(x.dir)

LEMMA EntriesDirs == DirOfEntries
BY EntriesDir DEF DirOfEntries

LEMMA EntriesDirsNext == DirOfEntries'
BY EntriesDirs, PTL

LEMMA SameEntries ==
  ASSUME TreeLeast, TreeLeast', \A d \in Tree : EntriesOf(d)' = EntriesOf(d)
  PROVE  Tree' = Tree /\ Entries' = Entries
<1>1. PICK T : T = Tree OBVIOUS
<1>2. PICK U : U = Tree' OBVIOUS
<1>3. U \subseteq T
  <2>1. T \in SUBSET Cluster /\ Root \in T BY <1>1 DEF TreeLeast
  <2>2. \A d \in T : \A x \in EntriesOf(d)' : x.what \in T \cup {None}
    BY <1>1 DEF TreeLeast, HoldsAll
  <2> QED BY <1>2, <2>1, <2>2 DEF TreeLeast, HoldsAll
<1>4. T \subseteq U
  <2>1. U \in SUBSET Cluster /\ Root \in U BY <1>2 DEF TreeLeast
  <2>2. \A d \in U : \A x \in EntriesOf(d)' : x.what \in U \cup {None}
    BY <1>2 DEF TreeLeast, HoldsAll
  <2>3. \A d \in U : \A x \in EntriesOf(d) : x.what \in U \cup {None} BY <1>1, <1>3, <2>2
  <2> QED BY <1>1, <2>1, <2>3 DEF TreeLeast, HoldsAll
<1>5. Tree' = Tree BY <1>1, <1>2, <1>3, <1>4
<1>6. \A x : x \in Entries' <=> x.dir \in Tree' /\ x \in EntriesOf(x.dir)'
  BY EntriesDirsNext DEF DirOfEntries
<1>7. \A x : x \in Entries' <=> x \in Entries BY <1>5, <1>6, EntriesDir
<1> QED BY <1>5, <1>7

\* Entries name directories or nothing.
LEMMA EntriesLead ==
  ASSUME TreeLeast
  PROVE  /\ \A x \in Entries : x.dir \in Cluster /\ x.what \in Cluster \cup {None}
         /\ Store!Reached(Entries) = Tree
<1>1. \A x \in Entries : x.dir \in Tree /\ x \in EntriesOf(x.dir) BY EntriesDir
<1>2. \A x \in Entries : x.what \in Tree \cup {None} BY <1>1 DEF TreeLeast, HoldsAll
<1>3. \A x \in Entries : x.dir \in Cluster /\ x.what \in Cluster \cup {None}
  BY <1>1, <1>2 DEF TreeLeast
<1>4. PICK E : E = Entries OBVIOUS
<1>5. PICK R : R = Store!Reached(E) OBVIOUS
<1>6. /\ Root \in R /\ R \subseteq Cluster
      /\ \A x \in E : x.dir \in R => x.what \in R \cup {None}
      /\ \A X \in SUBSET Cluster :
           Root \in X /\ (\A x \in E : x.dir \in X => x.what \in X \cup {None}) => R \subseteq X
  BY <1>3, <1>4, <1>5, ReachedLeast
<1>7. R \subseteq Tree BY <1>2, <1>4, <1>6 DEF TreeLeast
<1>8. HoldsAll(R)
  <2> SUFFICES ASSUME NEW d \in R, NEW x \in EntriesOf(d) PROVE x.what \in R \cup {None}
    BY DEF HoldsAll
  <2>1. x.dir = d BY EntriesDir
  <2>2. x \in E BY <1>4, <1>7, <2>1, EntriesDir
  <2> QED BY <1>6, <2>1, <2>2
<1>9. Tree \subseteq R BY <1>6, <1>8 DEF TreeLeast
<1> QED BY <1>3, <1>4, <1>5, <1>7, <1>9

LEMMA EntryRemoved ==
  ASSUME TreeLeast, TreeLeast', NEW old,
         NEW rest, \A x : x \in rest <=> x \in Entries /\ x.at # old,
         NEW R, R = Store!Reached(rest),
         \A d \in R : \A x : x \in EntriesOf(d)' <=> x \in EntriesOf(d) /\ x.at # old
  PROVE  Tree' = R /\ R \subseteq Tree
         /\ \A x : x \in Entries' <=> x \in rest /\ x.dir \in R
<1>1. /\ \A x \in Entries : x.dir \in Cluster /\ x.what \in Cluster \cup {None}
      /\ \A x \in Entries : x.what \in Tree \cup {None}
  BY EntriesLead, EntriesDir DEF TreeLeast, HoldsAll
<1>2. /\ Root \in R /\ R \subseteq Cluster
      /\ \A x \in rest : x.dir \in R => x.what \in R \cup {None}
      /\ \A X \in SUBSET Cluster :
           Root \in X /\ (\A x \in rest : x.dir \in X => x.what \in X \cup {None}) => R \subseteq X
  BY <1>1, ReachedLeast
<1>3. R \subseteq Tree BY <1>1, <1>2 DEF TreeLeast
<1>4. PICK U : U = Tree' OBVIOUS
<1>5. U \subseteq R
  <2>1. ASSUME NEW d \in R, NEW x \in EntriesOf(d)' PROVE x.what \in R \cup {None}
    <3>1. x \in EntriesOf(d) /\ x.at # old BY <2>1
    <3>2. x.dir = d /\ x \in Entries BY <1>3, <3>1, EntriesDir
    <3> QED BY <1>2, <3>1, <3>2
  <2> QED BY <1>2, <1>4, <2>1 DEF TreeLeast, HoldsAll
<1>6. R \subseteq U
  <2>1. U \in SUBSET Cluster /\ Root \in U BY <1>4 DEF TreeLeast
  <2>2. \A d \in U : \A x \in EntriesOf(d)' : x.what \in U \cup {None}
    BY <1>4 DEF TreeLeast, HoldsAll
  <2>3. ASSUME NEW x \in rest, x.dir \in U PROVE x.what \in U \cup {None}
    <3>1. x \in EntriesOf(x.dir) /\ x.at # old BY EntriesDir
    <3>2. x \in EntriesOf(x.dir)' BY <1>5, <2>3, <3>1
    <3> QED BY <2>2, <2>3, <3>2
  <2> QED BY <1>2, <2>1, <2>3
<1>7. Tree' = R BY <1>4, <1>5, <1>6
<1>8. \A x : x \in Entries' <=> x.dir \in Tree' /\ x \in EntriesOf(x.dir)'
  BY EntriesDirsNext DEF DirOfEntries
<1>9. ASSUME NEW x PROVE x \in Entries' <=> x \in rest /\ x.dir \in R
  <2>1. x \in Entries' <=> x.dir \in R /\ x \in EntriesOf(x.dir) /\ x.at # old BY <1>7, <1>8
  <2>2. x \in rest <=> x.dir \in Tree /\ x \in EntriesOf(x.dir) /\ x.at # old BY EntriesDir
  <2> QED BY <1>3, <2>1, <2>2
<1> QED BY <1>3, <1>7, <1>9

LEMMA EntryAdded ==
  ASSUME TreeLeast, TreeLeast', NEW x0, x0.dir \in Tree,
         \A d \in Tree : EntriesOf(d)' = EntriesOf(d) \cup (IF d = x0.dir THEN {x0} ELSE {}),
         x0.what \in Tree \cup {None} \/ (x0.what \in Cluster /\ EntriesOf(x0.what)' = {})
  PROVE  Tree' = Tree \cup ({x0.what} \ {None}) /\ Entries' = Entries \cup {x0}
<1>1. PICK T : T = Tree OBVIOUS
<1>2. PICK U : U = Tree' OBVIOUS
<1> DEFINE X == T \cup ({x0.what} \ {None})
<1>3. U \subseteq X
  <2>1. X \in SUBSET Cluster /\ Root \in X BY <1>1 DEF TreeLeast
  <2>2. ASSUME NEW d \in X, NEW x \in EntriesOf(d)' PROVE x.what \in X \cup {None}
    <3>1. CASE d \in T
      <4>1. x \in EntriesOf(d) \/ x = x0 BY <1>1, <2>2, <3>1
      <4>2. x \in EntriesOf(d) => x.what \in T \cup {None} BY <1>1, <3>1 DEF TreeLeast, HoldsAll
      <4> QED BY <4>1, <4>2
    <3>2. CASE d \notin T
      <4>1. EntriesOf(d)' = {} BY <1>1, <3>2
      <4> QED BY <2>2, <4>1
    <3> QED BY <3>1, <3>2
  <2> HIDE DEF X
  <2> QED BY <1>2, <2>1, <2>2 DEF TreeLeast, HoldsAll
<1>4. /\ U \in SUBSET Cluster /\ Root \in U
      /\ \A d \in U : \A x \in EntriesOf(d)' : x.what \in U \cup {None}
  BY <1>2 DEF TreeLeast, HoldsAll
<1>5. T \subseteq U
  <2>1. T \cap U \in SUBSET Cluster /\ Root \in T \cap U BY <1>1, <1>4 DEF TreeLeast
  <2>2. ASSUME NEW d \in T \cap U, NEW x \in EntriesOf(d) PROVE x.what \in (T \cap U) \cup {None}
    <3>1. x \in EntriesOf(d)' BY <1>1, <2>2
    <3>2. x.what \in T \cup {None} BY <1>1, <2>2 DEF TreeLeast, HoldsAll
    <3> QED BY <1>4, <2>2, <3>1, <3>2
  <2>3. T \subseteq T \cap U BY <1>1, <2>1, <2>2 DEF TreeLeast, HoldsAll
  <2> QED BY <2>3
<1>6. x0 \in EntriesOf(x0.dir)' OBVIOUS
<1>7. X \subseteq U BY <1>1, <1>4, <1>5, <1>6
<1>8. Tree' = Tree \cup ({x0.what} \ {None}) BY <1>1, <1>2, <1>3, <1>7
<1>9. \A x : x \in Entries' <=> x.dir \in Tree' /\ x \in EntriesOf(x.dir)'
  BY EntriesDirsNext DEF DirOfEntries
<1>10. ASSUME NEW x PROVE x \in Entries' <=> x \in Entries \cup {x0}
  <2>1. ASSUME x.dir \in Tree
        PROVE  x \in EntriesOf(x.dir)' <=> x \in EntriesOf(x.dir) \/ x = x0
    BY <2>1
  <2>2. ASSUME x.dir \notin Tree, x.dir \in Tree' PROVE EntriesOf(x.dir)' = {}
    BY <1>8, <2>2
  <2>3. Tree \subseteq Tree' BY <1>8
  <2> QED BY <1>9, <2>1, <2>2, <2>3, EntriesDir
<1> QED BY <1>8, <1>10

\* Slot s of cluster c holds an entry of directory d.
Holds(d, c, s) == c \in OnChainIn(fat, d) \ raw /\ s \in Slots /\ IsEntry(Unlinked[c][s])

EntryAt(d, c, s) ==
  [at |-> <<c, s>>, dir |-> d, name |-> Unlinked[c][s].name, what |-> Unlinked[c][s].first]

EntriesHeld == \A d, x : x \in EntriesOf(d) <=> \E c, s : Holds(d, c, s) /\ x = EntryAt(d, c, s)

LEMMA HeldEntries == EntriesHeld
<1> SUFFICES ASSUME NEW d, NEW x
             PROVE  x \in EntriesOf(d) <=> \E c, s : Holds(d, c, s) /\ x = EntryAt(d, c, s)
  BY DEF EntriesHeld
<1> DEFINE X(p) == [at |-> p, dir |-> d, name |-> Unlinked[p[1]][p[2]].name,
                    what |-> Unlinked[p[1]][p[2]].first]
           P == {q \in (OnChainIn(fat, d) \ raw) \X Slots : IsEntry(Unlinked[q[1]][q[2]])}
<1>1. EntriesOf(d) = {X(p) : p \in P} BY Zenon DEF EntriesOf
<1>2. ASSUME x \in EntriesOf(d) PROVE \E c, s : Holds(d, c, s) /\ x = EntryAt(d, c, s)
  <2>1. PICK p \in P : x = X(p) BY <1>1, <1>2
  <2>2. PICK c \in OnChainIn(fat, d) \ raw, s \in Slots : p = <<c, s>> OBVIOUS
  <2>3. p[1] = c /\ p[2] = s BY <2>2
  <2>4. IsEntry(Unlinked[c][s]) BY <2>3, Zenon
  <2>5. X(p) = EntryAt(d, c, s) BY <2>2, <2>3, Zenon DEF EntryAt
  <2> QED BY <2>1, <2>4, <2>5 DEF Holds
<1>3. ASSUME NEW c, NEW s, Holds(d, c, s), x = EntryAt(d, c, s) PROVE x \in EntriesOf(d)
  <2> DEFINE p == <<c, s>>
  <2>1. p \in P BY <1>3 DEF Holds
  <2>2. p[1] = c /\ p[2] = s OBVIOUS
  <2>3. X(p) = EntryAt(d, c, s) BY <2>2, Zenon DEF EntryAt
  <2> QED BY <1>1, <1>3, <2>1, <2>3
<1> QED BY <1>2, <1>3

LEMMA HeldEntriesNext == EntriesHeld'
BY HeldEntries, PTL

LEMMA EntryFields ==
  ASSUME NEW d, NEW c, NEW s
  PROVE  /\ EntryAt(d, c, s).at = <<c, s>> /\ EntryAt(d, c, s).dir = d
         /\ EntryAt(d, c, s).name = Unlinked[c][s].name
         /\ EntryAt(d, c, s).what = Unlinked[c][s].first
BY DEF EntryAt

\* What a step does to the slots of a directory it does to its entries.
LEMMA EntriesChange ==
  ASSUME NEW d, NEW gone, NEW new,
         \A c, s : Holds(d, c, s) /\ <<c, s>> # gone =>
                     Holds(d, c, s)' /\ Unlinked'[c][s] = Unlinked[c][s],
         \A c, s : Holds(d, c, s)' =>
                     \/ Holds(d, c, s) /\ <<c, s>> # gone
                     \/ EntryAt(d, c, s)' \in new,
         \A x \in new : x \in EntriesOf(d)'
  PROVE  EntriesOf(d)' = {x \in EntriesOf(d) : x.at # gone} \cup new
<1>1. \A x : x \in EntriesOf(d) <=> \E c, s : Holds(d, c, s) /\ x = EntryAt(d, c, s)
  BY HeldEntries DEF EntriesHeld
<1>2. \A x : x \in EntriesOf(d)' <=> \E c, s : Holds(d, c, s)' /\ x = EntryAt(d, c, s)'
  BY HeldEntriesNext DEF EntriesHeld
<1>3. ASSUME NEW c, NEW s, Unlinked'[c][s] = Unlinked[c][s] PROVE EntryAt(d, c, s)' = EntryAt(d, c, s)
  BY <1>3 DEF EntryAt
<1>4. ASSUME NEW x \in EntriesOf(d), x.at # gone PROVE x \in EntriesOf(d)'
  <2>1. PICK c, s : Holds(d, c, s) /\ x = EntryAt(d, c, s) BY <1>1
  <2>2. x.at = <<c, s>> BY <2>1, EntryFields
  <2> QED BY <1>2, <1>3, <1>4, <2>1, <2>2
<1>5. ASSUME NEW x \in EntriesOf(d)' PROVE x \in new \/ (x \in EntriesOf(d) /\ x.at # gone)
  <2>1. PICK c, s : Holds(d, c, s)' /\ x = EntryAt(d, c, s)' BY <1>2
  <2>2. CASE EntryAt(d, c, s)' \in new BY <2>1, <2>2
  <2>3. CASE Holds(d, c, s) /\ <<c, s>> # gone
    <3>1. x = EntryAt(d, c, s) BY <1>3, <2>1, <2>3
    <3>2. x.at = <<c, s>> BY <3>1, EntryFields
    <3> QED BY <1>1, <2>3, <3>1, <3>2
  <2> QED BY <2>1, <2>2, <2>3
<1> QED BY <1>4, <1>5

LEMMA EntriesKept ==
  ASSUME NEW d,
         \A c, s : Holds(d, c, s) => Holds(d, c, s)' /\ Unlinked'[c][s] = Unlinked[c][s],
         \A c, s : Holds(d, c, s)' => Holds(d, c, s)
  PROVE  EntriesOf(d)' = EntriesOf(d)
<1>1. \A x : x \in EntriesOf(d) <=> \E c, s : Holds(d, c, s) /\ x = EntryAt(d, c, s)
  BY HeldEntries DEF EntriesHeld
<1>2. \A x : x \in EntriesOf(d)' <=> \E c, s : Holds(d, c, s)' /\ x = EntryAt(d, c, s)'
  BY HeldEntriesNext DEF EntriesHeld
<1>3. ASSUME NEW c, NEW s, Unlinked'[c][s] = Unlinked[c][s] PROVE EntryAt(d, c, s)' = EntryAt(d, c, s)
  BY <1>3 DEF EntryAt
<1>4. \A x \in EntriesOf(d) : x \in EntriesOf(d)' BY <1>1, <1>2, <1>3
<1>5. \A x \in EntriesOf(d)' : x \in EntriesOf(d) BY <1>1, <1>2, <1>3
<1> QED BY <1>4, <1>5

-----------------------------------------------------------------------------
(* The tree of a sound volume.                                             *)

LEMMA UnlinkedSlots ==
  ASSUME EndsInv, call \in CallType, NEW c \in Cluster, NEW s \in Slots
  PROVE  Unlinked[c][s] = IF BeingUnlinked(c, s) THEN Deleted ELSE slots[c][s]
<1>1. CASE ~(pc = "delete" /\ call.op = "unlink")
  <2>1. Unlinked = slots BY <1>1 DEF Unlinked
  <2>2. ~BeingUnlinked(c, s) BY <1>1 DEF BeingUnlinked
  <2> QED BY <2>1, <2>2
<1>2. CASE pc = "delete" /\ call.op = "unlink"
  <2> DEFINE o == call.old[1]
             u == call.old[2]
  <2>1. o \in Cluster /\ u \in Slots BY <1>2, OldInCluster DEF HasOld
  <2>2. call.old = <<o, u>>
    <3>1. call.old \in Somewhere BY DEF CallType
    <3> QED BY <3>1 DEF Somewhere, Nowhere
  <2>3. Target = o /\ Content = WithoutEntry(slots[o], u) BY <1>2 DEF Target, Content
  <2>4. BeingUnlinked(c, s) <=> c = o /\ s = u BY <1>2, <2>2 DEF BeingUnlinked
  <2> HIDE DEF o, u
  <2>5. slots[o] = [t \in Slots |-> slots[o][t]] BY <2>1, ClusterShape DEF EndsInv
  <2>6. slots = [x \in Cluster |-> [t \in Slots |-> slots[x][t]]] BY DEF EndsInv, Shape
  <2>7. Unlinked = [slots EXCEPT ![o] = WithoutEntry(slots[o], u)] BY <1>2, <2>3 DEF Unlinked
  <2>8. Unlinked[c] = IF c = o THEN WithoutEntry(slots[o], u) ELSE slots[c] BY <2>1, <2>6, <2>7
  <2>9. c = o => Unlinked[c][s] = IF s = u THEN Deleted ELSE slots[c][s]
    BY <2>1, <2>5, <2>8 DEF WithoutEntry
  <2> QED BY <2>4, <2>8, <2>9
<1> QED BY <1>1, <1>2

LEMMA HeldSlots ==
  ASSUME EndsInv, call \in CallType, NEW c \in Cluster, NEW s \in Slots
  PROVE  IsEntry(Unlinked[c][s]) <=> IsEntry(slots[c][s]) /\ ~BeingUnlinked(c, s)
<1>1. Unlinked[c][s] = IF BeingUnlinked(c, s) THEN Deleted ELSE slots[c][s] BY UnlinkedSlots
<1>2. ~IsEntry(Deleted) BY SlotKinds DEF IsEntry
<1> QED BY <1>1, <1>2

Sound == ReachInv /\ ~tainted

LEMMA SoundParts ==
  ASSUME Sound
  PROVE  /\ IsTable(fat) /\ hint \in Cluster /\ EndsInv /\ call \in CallType /\ DirTypeInv /\ TreeInv
         /\ LinksSound /\ SlotsSound /\ NothingLeft /\ Start(Root) /\ slots[Root][1].name # "."
         /\ EntriesReachable /\ CallReachable /\ LinksEnd
         /\ NewEntrySound /\ OldEntrySound /\ TreeSoundness /\ DiskSound
BY ReachParts, TreeMeansDisk DEF Sound, TreeSoundness, Rooted

\* What an entry names.
LEMMA EntryNames ==
  ASSUME Sound, NEW c \in Cluster, NEW s \in Slots, IsEntry(Unlinked[c][s])
  PROVE  /\ Unlinked[c][s] = slots[c][s] /\ c \in InUse /\ ~BeingUnlinked(c, s)
         /\ IF Unlinked[c][s].dir THEN IsDirEntry(slots[c][s]) /\ Begun(Unlinked[c][s].first)
            ELSE Unlinked[c][s].first = None
<1>1. EndsInv /\ call \in CallType /\ SlotsSound /\ NothingLeft BY SoundParts
<1>2. IsEntry(slots[c][s]) /\ ~BeingUnlinked(c, s) /\ Unlinked[c][s] = slots[c][s]
  BY <1>1, HeldSlots, UnlinkedSlots
<1>3. c \in InUse BY <1>1, <1>2 DEF NothingLeft
<1>4. CASE slots[c][s].dir
  <2>1. IsDirEntry(slots[c][s]) BY <1>2, <1>4 DEF IsDirEntry
  <2>2. Begun(slots[c][s].first) BY <1>1, <1>2, <2>1, NamedBegun
  <2> QED BY <1>2, <1>3, <1>4, <2>1, <2>2
<1>5. CASE ~slots[c][s].dir
  <2>1. SlotSound(c, s) BY <1>1, <1>3 DEF SlotsSound
  <2>2. slots[c][s].kind = "short" /\ slots[c][s].name \in Names BY <1>2 DEF IsEntry
  <2>3. slots[c][s].name # "." /\ slots[c][s].name # ".."
    <3>1. \A n \in Names : n # "." /\ n # ".." BY Stored, Zenon
    <3> QED BY <2>2, <3>1, Zenon
  <2>4. slots[c][s].first = None BY <1>5, <2>1, <2>2, <2>3 DEF SlotSound, IsDirEntry
  <2> QED BY <1>2, <1>3, <1>5, <2>4
<1> QED BY <1>4, <1>5

LEMMA SoundTree ==
  ASSUME Sound
  PROVE  TreeLeast /\ \A d \in Tree : Start(d) /\ d \in Cluster
<1>1. IsTable(fat) /\ Start(Root) BY SoundParts
<1>2. Sorted
  <2> SUFFICES ASSUME NEW c \in Cluster \ raw, NEW s \in Slots, IsEntry(Unlinked[c][s])
               PROVE  IF Unlinked[c][s].dir THEN Unlinked[c][s].first \in Cluster
                      ELSE Unlinked[c][s].first = None
    BY DEF Sorted
  <2> QED BY EntryNames DEF Begun, Start, InUse
<1>3. TreeLeast BY <1>1, <1>2, TreeIsLeast
<1> DEFINE X == {d \in Cluster : Start(d)}
<1>4. HoldsAll(X)
  <2> SUFFICES ASSUME NEW d \in X, NEW x \in EntriesOf(d) PROVE x.what \in X \cup {None}
    BY DEF HoldsAll
  <2>1. PICK c, s : Holds(d, c, s) /\ x = EntryAt(d, c, s) BY HeldEntries DEF EntriesHeld
  <2>2. c \in Cluster
    <3>1. d \in Entry BY TableNumbers
    <3> QED BY <1>1, <2>1, <3>1, ChainClusters DEF Holds
  <2>3. x.what = Unlinked[c][s].first /\ s \in Slots /\ IsEntry(Unlinked[c][s])
    BY <2>1, EntryFields DEF Holds
  <2>4. IF Unlinked[c][s].dir THEN Begun(x.what) ELSE x.what = None
    BY <2>2, <2>3, EntryNames
  <2>5. Begun(x.what) => x.what \in X BY DEF Begun, Start, InUse
  <2> QED BY <2>4, <2>5
<1>5. X \in SUBSET Cluster /\ Root \in X BY <1>1 DEF Start, InUse
<1>6. Tree \subseteq X
  <2> HIDE DEF X
  <2> QED BY <1>3, <1>4, <1>5 DEF TreeLeast
<1> QED BY <1>3, <1>6

\* The clusters of directories of the tree, where its entries are.
LEMMA TreeChains ==
  ASSUME Sound, NEW d, Start(d)
  PROVE  /\ First(fat, d) /\ WalkEnds(fat, d) /\ d \in OnChainIn(fat, d)
         /\ OnChainIn(fat, d) \subseteq Cluster
         /\ pc # "extended" => OnChainIn(fat, d) \subseteq InUse
         /\ \A c, s : Holds(d, c, s) => c \in InUse
<1>1. IsTable(fat) /\ LinksSound BY SoundParts
<1>2. First(fat, d) /\ WalkEnds(fat, d) /\ d \in OnChainIn(fat, d) BY <1>1, DirChain
<1>3. OnChainIn(fat, d) \subseteq Cluster BY <1>2, OnWalk
<1>4. \A c, s : Holds(d, c, s) => c \in InUse BY <1>3, EntryNames DEF Holds
<1> QED BY <1>1, <1>2, <1>3, <1>4, DirChain

\* An entry's place tells which it is.
LEMMA PlaceTells ==
  ASSUME Sound, NEW x \in Entries, NEW y \in Entries, x.at = y.at
  PROVE  x = y
<1>1. x.dir \in Tree /\ x \in EntriesOf(x.dir) /\ y.dir \in Tree /\ y \in EntriesOf(y.dir)
  BY EntriesDir
<1>2. PICK c, s : Holds(x.dir, c, s) /\ x = EntryAt(x.dir, c, s)
  BY <1>1, HeldEntries DEF EntriesHeld
<1>3. PICK e, t : Holds(y.dir, e, t) /\ y = EntryAt(y.dir, e, t)
  BY <1>1, HeldEntries DEF EntriesHeld
<1>4. x.at = <<c, s>> /\ y.at = <<e, t>> BY <1>2, <1>3, EntryFields
<1>5. c = e /\ s = t
  <2>1. <<c, s>> = <<e, t>> BY <1>4, Zenon
  <2> QED BY <2>1, Zenon
<1>6. First(fat, x.dir) /\ First(fat, y.dir) BY <1>1, SoundTree, TreeChains
<1>7. x.dir = y.dir BY <1>2, <1>3, <1>5, <1>6, OnOneChain DEF Holds
<1> QED BY <1>2, <1>3, <1>5, <1>7

\* The directory of a cluster that the root leads to is in the tree.
LEMMA ReachedTree ==
  ASSUME Sound, NEW d, Start(d), NEW c \in OnChainIn(fat, d), Reachable(c)
  PROVE  d \in Tree
<1> DEFINE Y == {x \in Cluster : \E e \in Tree : x \in OnChainIn(fat, e)}
<1>1. TreeLeast /\ \A e \in Tree : Start(e) /\ e \in Cluster BY SoundTree
<1>2. \A e \in Tree : /\ First(fat, e) /\ WalkEnds(fat, e) /\ e \in OnChainIn(fat, e)
                      /\ OnChainIn(fat, e) \subseteq Cluster
  BY <1>1, TreeChains
<1>3. Root \in Y BY <1>1, <1>2 DEF TreeLeast
<1>4. ASSUME NEW x \in Y, fat[x] \in Cluster PROVE fat[x] \in Y
  BY <1>2, <1>4, WalkGoesOn
<1>5. ASSUME NEW x \in Y, NEW s \in Slots, IsDirEntry(slots[x][s]), ~BeingUnlinked(x, s)
      PROVE  slots[x][s].first \in Y
  <2>1. PICK e \in Tree : x \in OnChainIn(fat, e) OBVIOUS
  <2>2. IsEntry(slots[x][s]) /\ x \in InUse /\ Begun(slots[x][s].first) /\ x \notin raw
    BY <1>5, SoundParts, NamedBegun DEF IsDirEntry
  <2>3. EndsInv /\ call \in CallType BY SoundParts
  <2>4. IsEntry(Unlinked[x][s]) /\ Unlinked[x][s] = slots[x][s]
    BY <1>5, <2>2, <2>3, HeldSlots, UnlinkedSlots
  <2>5. Holds(e, x, s) BY <2>1, <2>2, <2>4 DEF Holds
  <2>6. EntryAt(e, x, s) \in EntriesOf(e) BY <2>5, HeldEntries DEF EntriesHeld
  <2>7. EntryAt(e, x, s).what = slots[x][s].first BY <2>4, EntryFields
  <2>8. slots[x][s].first \in Tree \cup {None} BY <1>1, <2>6, <2>7 DEF TreeLeast, HoldsAll
  <2>9. slots[x][s].first \in Cluster /\ None \notin Cluster
    BY <2>2, TableNumbers DEF Begun, Start, InUse, None
  <2>10. slots[x][s].first \in Tree BY <2>8, <2>9
  <2> QED BY <1>2, <2>9, <2>10
<1>6. Closed(Y) BY <1>4, <1>5 DEF Closed
<1>7. Y \in SUBSET Cluster OBVIOUS
<1>8. c \in Y
  <2> HIDE DEF Y
  <2> QED BY <1>3, <1>6, <1>7 DEF Reachable
<1>9. PICK e \in Tree : c \in OnChainIn(fat, e) BY <1>8
<1>10. First(fat, d) BY TreeChains
<1>11. d = e BY <1>2, <1>9, <1>10, OnOneChain
<1> QED BY <1>11

\* A cluster that the root leads to belongs to a directory of the tree.
LEMMA ReachedClusters ==
  ASSUME Sound, NEW c, Reachable(c)
  PROVE  \E d \in Tree : c \in OnChainIn(fat, d)
<1> DEFINE Y == {x \in Cluster : \E e \in Tree : x \in OnChainIn(fat, e)}
<1>1. TreeLeast /\ \A e \in Tree : Start(e) /\ e \in Cluster BY SoundTree
<1>2. \A e \in Tree : /\ First(fat, e) /\ WalkEnds(fat, e) /\ e \in OnChainIn(fat, e)
                      /\ OnChainIn(fat, e) \subseteq Cluster
  BY <1>1, TreeChains
<1>3. Root \in Y BY <1>1, <1>2 DEF TreeLeast
<1>4. ASSUME NEW x \in Y, fat[x] \in Cluster PROVE fat[x] \in Y
  BY <1>2, <1>4, WalkGoesOn
<1>5. ASSUME NEW x \in Y, NEW s \in Slots, IsDirEntry(slots[x][s]), ~BeingUnlinked(x, s)
      PROVE  slots[x][s].first \in Y
  <2>1. PICK e \in Tree : x \in OnChainIn(fat, e) OBVIOUS
  <2>2. IsEntry(slots[x][s]) /\ x \in InUse /\ Begun(slots[x][s].first) /\ x \notin raw
    BY <1>5, SoundParts, NamedBegun DEF IsDirEntry
  <2>3. EndsInv /\ call \in CallType BY SoundParts
  <2>4. IsEntry(Unlinked[x][s]) /\ Unlinked[x][s] = slots[x][s]
    BY <1>5, <2>2, <2>3, HeldSlots, UnlinkedSlots
  <2>5. Holds(e, x, s) BY <2>1, <2>2, <2>4 DEF Holds
  <2>6. EntryAt(e, x, s) \in EntriesOf(e) BY <2>5, HeldEntries DEF EntriesHeld
  <2>7. EntryAt(e, x, s).what = slots[x][s].first BY <2>4, EntryFields
  <2>8. slots[x][s].first \in Tree \cup {None} BY <1>1, <2>6, <2>7 DEF TreeLeast, HoldsAll
  <2>9. slots[x][s].first \in Cluster /\ None \notin Cluster
    BY <2>2, TableNumbers DEF Begun, Start, InUse, None
  <2>10. slots[x][s].first \in Tree BY <2>8, <2>9
  <2> QED BY <1>2, <2>9, <2>10
<1>6. Closed(Y) BY <1>4, <1>5 DEF Closed
<1>7. Y \in SUBSET Cluster OBVIOUS
<1>8. c \in Y
  <2> HIDE DEF Y
  <2> QED BY <1>3, <1>6, <1>7 DEF Reachable
<1> QED BY <1>8

-----------------------------------------------------------------------------
(* Where calls look for a name and where they put it.                      *)

\* Cluster c holds an entry without a long name; it has an end mark.
PlainIn(c) == \E s \in Slots : IsEntry(slots[c][s]) /\ Pieces[slots[c][s].name] = 0

EndIn(c) == \E s \in Slots : slots[c][s].kind = "end"

\* A directory has no such entry in a cluster behind one with an end mark, where
\* fat32_dir_exists does not get to.
EndsOrdered ==
  \A d : Start(d) =>
    \A i, j \in DOMAIN Walk(d) :
      i < j /\ Walk(d)[i] \notin raw /\ Walk(d)[j] \notin raw /\ EndIn(Walk(d)[i])
      => ~PlainIn(Walk(d)[j])

\* The name that the call will create is not in use, but for what it does not see.
NameFree ==
  pc \in {"clear", "init", "place", "extended", "entry"} =>
    \A c \in OnChainIn(fat, call.parent) \ raw, s \in Slots :
      IsEntry(slots[c][s]) /\ slots[c][s].name = call.name =>
        call.op # "open" /\ (slots[c][s].dir => Pieces[call.name] > 0)

\* The place for it is in the first cluster with room.
NewPlaced ==
  pc \in {"extended", "entry"} =>
    /\ Start(call.parent) /\ call.at[1] \in OnChainIn(fat, call.parent)
    /\ Pieces[call.name] = 0 =>
         \A i, j \in DOMAIN Walk(call.parent) :
           i < j /\ Walk(call.parent)[j] = call.at[1] => ~EndIn(Walk(call.parent)[i])

\* What it will name is an empty directory, a file, or what f_rename found.
NewNamed ==
  /\ pc # "idle" => call.op # "none"
  /\ pc = "check" => call.op = "rename"
  /\ call.op = "open" => ~call.dir
  /\ call.op = "mkdir" =>
       /\ call.dir /\ call.first # call.parent
       /\ pc \in {"place", "extended", "entry"} =>
            fat[call.first] = EndOfChain /\ \A s \in Slots : ~IsEntry(slots[call.first][s])

Arranged == EndsOrdered /\ NameFree /\ NewPlaced /\ NewNamed

LEMMA WalkFacts ==
  ASSUME IsTable(fat), LinksSound, NEW d, Start(d), NEW w, w = Walk(d)
  PROVE  /\ DOMAIN w = 1 .. Len(w) /\ Len(w) \in Nat /\ 1 \in DOMAIN w /\ w[1] = d
         /\ \A i \in DOMAIN w : w[i] \in Cluster /\ w[i] \in OnChainIn(fat, d)
         /\ \A i, j \in DOMAIN w : i < j => fat[w[i]] \in Cluster
         /\ \A i, j \in DOMAIN w : w[i] = w[j] => i = j
         /\ OnChainIn(fat, d) = {w[i] : i \in DOMAIN w}
<1>1. WalkEnds(fat, d) BY DirChain
<1>2. Whole(fat, w) /\ w[1] = d BY <1>1, ChainOfWalk DEF Walk
<1>3. /\ DOMAIN w = 1 .. Len(w) /\ Len(w) \in Nat /\ 1 \in 1 .. Len(w)
      /\ \A i \in 1 .. Len(w) : w[i] \in Cluster
      /\ \A i \in 1 .. Len(w) : i > 1 => i - 1 \in 1 .. Len(w) /\ fat[w[i - 1]] = w[i]
  <2>1. Path(fat, w) BY <1>2 DEF Whole
  <2> QED BY <2>1, PathFacts
<1>4. \A i, j \in DOMAIN w : i < j => fat[w[i]] \in Cluster
  <2> SUFFICES ASSUME NEW i \in DOMAIN w, NEW j \in DOMAIN w, i < j PROVE fat[w[i]] \in Cluster
    OBVIOUS
  <2>1. i + 1 \in 1 .. Len(w) /\ i + 1 > 1 /\ (i + 1) - 1 = i BY <1>3, SMT
  <2>2. fat[w[(i + 1) - 1]] = w[i + 1] BY <1>3, <2>1
  <2> QED BY <1>3, <2>1, <2>2
<1>5. \A i, j \in DOMAIN w : w[i] = w[j] => i = j BY <1>2, <1>3, WholeOnce
<1>6. OnChainIn(fat, d) = {w[i] : i \in DOMAIN w} BY DEF OnChainIn, Walk
<1> QED BY <1>2, <1>3, <1>4, <1>5, <1>6

\* A cluster is taken, for a new directory or at the end of a directory.
LEMMA EndsGrown ==
  ASSUME Sound, EndsOrdered, OneMore, UNCHANGED slots, InUse' = InUse, NEW e, raw' = raw \cup {e},
         \A x \in Cluster : x # e /\ fat[x] = FREE => fat'[x] = FREE
  PROVE  EndsOrdered'
<1>1. IsTable(fat) /\ LinksSound BY SoundParts
<1> SUFFICES ASSUME NEW d, Start(d)', NEW w, w = Walk(d)', NEW i \in DOMAIN w, NEW j \in DOMAIN w,
                    i < j, w[i] \notin raw', w[j] \notin raw', EndIn(w[i])
             PROVE  ~PlainIn(w[j])
  BY DEF EndsOrdered, EndIn, PlainIn
<1>2. Start(d)
  <2>1. d \in InUse BY DEF Start
  <2>2. ASSUME NEW x \in Cluster, fat[x] = d PROVE FALSE
    <3>1. d \in Cluster BY <2>1 DEF InUse
    <3>2. fat'[x] = fat[x] BY <2>2, <3>1, TableNumbers DEF OneMore
    <3> QED BY <2>2, <3>2 DEF Start, NoLinkTo
  <2> QED BY <2>1, <2>2 DEF Start, NoLinkTo
<1> DEFINE v == Walk(d)
<1>3. w = v \/ \E x \in Cluster : x \in raw' /\ w = Append(v, x)
  <2>1. CASE ChainIn(fat', d) = ChainIn(fat, d) BY <2>1 DEF Walk
  <2>2. CASE \E x \in Cluster : /\ fat[x] = FREE /\ fat'[x] = EndOfChain
                                /\ ChainIn(fat', d) = Append(ChainIn(fat, d), x)
    BY <2>2, TableNumbers DEF Walk
  <2> QED BY <1>1, <1>2, <2>1, <2>2, ChainGrows
<1>4. v \in Seq(Cluster) /\ DOMAIN v = 1 .. Len(v) /\ Len(v) \in Nat
  <2>1. d \in Entry BY <1>2, TableNumbers DEF Start, InUse
  <2>2. v \in Seq(Cluster) BY <1>1, <2>1, ChainType DEF Walk
  <2> QED BY <1>1, <1>2, <2>2, WalkFacts
<1>5. i \in DOMAIN v /\ j \in DOMAIN v /\ w[i] = v[i] /\ w[j] = v[j]
  <2>1. CASE w = v BY <2>1
  <2>2. CASE w # v
    <3>1. PICK x \in Cluster : x \in raw' /\ w = Append(v, x) BY <1>3, <2>2
    <3> HIDE DEF v
    <3>2. DOMAIN w = 1 .. Len(v) + 1 /\ w[Len(v) + 1] = x /\ \A k \in 1 .. Len(v) : w[k] = v[k]
      BY <1>4, <3>1, SMT
    <3>3. j # Len(v) + 1 BY <3>1, <3>2
    <3>4. j \in 1 .. Len(v) /\ i \in 1 .. Len(v) BY <1>4, <3>2, <3>3, SMT
    <3> QED BY <1>4, <3>2, <3>4
  <2> QED BY <2>1, <2>2
<1> QED BY <1>2, <1>5 DEF EndsOrdered

\* The chain of a directory is freed.
LEMMA EndsFreed ==
  ASSUME Sound, EndsOrdered, OneLess, UNCHANGED <<slots, raw>>
  PROVE  EndsOrdered' /\ \A d : Start(d)' => Start(d) /\ Walk(d)' = Walk(d)
<1>1. IsTable(fat) /\ LinksSound BY SoundParts
<1>2. ASSUME NEW d, Start(d)' PROVE Start(d) /\ Walk(d)' = Walk(d)
  <2>1. CASE UNCHANGED fat BY <1>2, <2>1 DEF Start, InUse, Walk
  <2>2. CASE \E f : Start(f) /\ fat' = Release(fat, f)
    <3>1. PICK f : Start(f) /\ fat' = Release(fat, f) BY <2>2
    <3>2. PICK g : g = fat' OBVIOUS
    <3>3. f \in Entry /\ d \in Cluster BY <1>2, <3>1, TableNumbers DEF Start, InUse
    <3>4. \A x \in FatIndex : g[x] = IF x \in OnChainIn(fat, f) THEN FREE ELSE fat[x]
      BY <1>1, <3>1, <3>2, <3>3, ReleaseFacts
    <3>5. d \notin OnChainIn(fat, f) /\ fat[d] # FREE /\ d \notin raw
      BY <1>2, <3>2, <3>3, <3>4, TableNumbers DEF Start, InUse
    <3>6. First(fat, f) /\ f \in OnChainIn(fat, f) BY <1>1, <3>1, DirChain
    <3>7. ASSUME NEW x \in Cluster, fat[x] = d PROVE FALSE
      <4>1. x \notin OnChainIn(fat, f) BY <3>3, <3>5, <3>6, <3>7, FollowChain
      <4>2. g[x] = d BY <3>4, <3>7, <4>1, TableNumbers
      <4> QED BY <1>2, <3>2, <4>2 DEF Start, NoLinkTo
    <3>8. Start(d) BY <3>3, <3>5, <3>7 DEF Start, InUse, NoLinkTo
    <3>9. d # f BY <3>5, <3>6
    <3>10. ChainIn(fat', d) = ChainIn(fat, d) BY <1>1, <3>1, <3>8, <3>9, ChainSpared
    <3> QED BY <3>8, <3>10 DEF Walk
  <2> QED BY <2>1, <2>2 DEF OneLess
<1>3. EndsOrdered'
  <2> SUFFICES ASSUME NEW d, Start(d)', NEW w, w = Walk(d)', NEW i \in DOMAIN w, NEW j \in DOMAIN w,
                      i < j, w[i] \notin raw, w[j] \notin raw, EndIn(w[i])
               PROVE  ~PlainIn(w[j])
    BY DEF EndsOrdered, EndIn, PlainIn
  <2> QED BY <1>2 DEF EndsOrdered
<1> QED BY <1>2, <1>3

SoundFacts ==
  Sound =>
    /\ IsTable(fat) /\ LinksSound /\ TreeLeast
    /\ \A d \in Tree : Start(d) /\ d \in Cluster

LEMMA SoundHolds == SoundFacts
BY SoundParts, SoundTree DEF SoundFacts

LEMMA SoundHoldsNext == SoundFacts'
BY SoundHolds, PTL

WalkSound ==
  IsTable(fat) /\ LinksSound =>
    \A d : Start(d) =>
      /\ DOMAIN Walk(d) = 1 .. Len(Walk(d)) /\ Len(Walk(d)) \in Nat
      /\ 1 \in DOMAIN Walk(d) /\ Walk(d)[1] = d
      /\ \A i \in DOMAIN Walk(d) : Walk(d)[i] \in Cluster /\ Walk(d)[i] \in OnChainIn(fat, d)
      /\ \A i, j \in DOMAIN Walk(d) : i < j => fat[Walk(d)[i]] \in Cluster
      /\ \A i, j \in DOMAIN Walk(d) : Walk(d)[i] = Walk(d)[j] => i = j

LEMMA WalksSound == WalkSound
<1> SUFFICES ASSUME IsTable(fat), LinksSound, NEW d, Start(d), NEW w, w = Walk(d)
             PROVE  /\ DOMAIN w = 1 .. Len(w) /\ Len(w) \in Nat /\ 1 \in DOMAIN w /\ w[1] = d
                    /\ \A i \in DOMAIN w : w[i] \in Cluster /\ w[i] \in OnChainIn(fat, d)
                    /\ \A i, j \in DOMAIN w : i < j => fat[w[i]] \in Cluster
                    /\ \A i, j \in DOMAIN w : w[i] = w[j] => i = j
  BY Zenon DEF WalkSound
<1> QED BY WalkFacts

LEMMA WalksSoundNext == WalkSound'
BY WalksSound, PTL

\* A cluster T is written.
LEMMA EndsWritten ==
  ASSUME Sound, Sound', EndsOrdered, UNCHANGED fat, NEW T \in Cluster, raw' \in {raw, raw \ {T}},
         \A c \in Cluster : c # T => slots'[c] = slots[c],
         \/ T \in raw'
         \/ fat[T] = EndOfChain /\ ~PlainIn(T)'
         \/ /\ raw' = raw
            /\ EndIn(T)' => EndIn(T)
            /\ \A d : Start(d) /\ PlainIn(T)' =>
                 \/ PlainIn(T)
                 \/ \A i, j \in DOMAIN Walk(d) : i < j /\ Walk(d)[j] = T => ~EndIn(Walk(d)[i])
  PROVE  EndsOrdered'
<1>1. IsTable(fat) /\ LinksSound BY SoundParts
<1>2. IsTable(fat)' /\ LinksSound' BY SoundHoldsNext DEF SoundFacts
<1> SUFFICES ASSUME NEW d, Start(d)', NEW w, w = Walk(d)', NEW i \in DOMAIN w, NEW j \in DOMAIN w,
                    i < j, w[i] \notin raw', w[j] \notin raw', EndIn(w[i])', PlainIn(w[j])'
             PROVE  FALSE
  BY DEF EndsOrdered, EndIn, PlainIn
<1>3. /\ w = Walk(d) /\ 1 \in DOMAIN w /\ w[1] = d /\ DOMAIN w = 1 .. Len(w) /\ Len(w) \in Nat
      /\ \A k \in DOMAIN w : w[k] \in Cluster
      /\ \A k, m \in DOMAIN w : k < m => fat[w[k]] \in Cluster
      /\ \A k, m \in DOMAIN w : w[k] = w[m] => k = m
  BY <1>2, WalksSoundNext DEF WalkSound, Walk
<1>4. ASSUME fat[T] = EndOfChain, ~PlainIn(T)' PROVE FALSE
  <2>1. w[j] # T BY <1>4
  <2>2. w[i] # T BY <1>3, <1>4, TableNumbers
  <2>3. d # T
    <3>1. 1 < j BY <1>3, SMT
    <3> QED BY <1>3, <1>4, <3>1, TableNumbers
  <2>4. Start(d) BY <2>3 DEF Start, InUse
  <2>5. slots'[w[i]] = slots[w[i]] /\ slots'[w[j]] = slots[w[j]] BY <1>3, <2>1, <2>2
  <2>6. w[i] \notin raw /\ w[j] \notin raw BY <2>1, <2>2
  <2>7. EndIn(w[i]) /\ PlainIn(w[j]) BY <2>5 DEF EndIn, PlainIn
  <2> QED BY <1>3, <2>4, <2>6, <2>7 DEF EndsOrdered
<1>5. ASSUME raw' = raw PROVE Start(d) BY <1>5 DEF Start, InUse
<1>6. ASSUME T \in raw' PROVE FALSE
  <2>1. raw' = raw /\ w[i] # T /\ w[j] # T BY <1>6
  <2>2. slots'[w[i]] = slots[w[i]] /\ slots'[w[j]] = slots[w[j]] BY <1>3, <2>1
  <2>3. EndIn(w[i]) /\ PlainIn(w[j]) BY <2>2 DEF EndIn, PlainIn
  <2> QED BY <1>3, <1>5, <2>1, <2>3 DEF EndsOrdered
<1>7. ASSUME raw' = raw, EndIn(T)' => EndIn(T),
             \A x : Start(x) /\ PlainIn(T)' =>
               \/ PlainIn(T)
               \/ \A k, m \in DOMAIN Walk(x) : k < m /\ Walk(x)[m] = T => ~EndIn(Walk(x)[k])
      PROVE  FALSE
  <2>1. Start(d) BY <1>5, <1>7
  <2>2. EndIn(w[i])
    <3>1. CASE w[i] = T BY <1>7, <3>1 DEF EndIn
    <3>2. CASE w[i] # T BY <1>3, <3>2 DEF EndIn
    <3> QED BY <3>1, <3>2
  <2>3. ~PlainIn(w[j]) BY <1>3, <1>7, <2>1, <2>2 DEF EndsOrdered
  <2>4. w[j] = T BY <1>3, <2>3 DEF PlainIn
  <2>5. PlainIn(T)' BY <2>4 DEF PlainIn
  <2> QED BY <1>3, <1>7, <2>1, <2>2, <2>3, <2>4, <2>5
<1> QED BY <1>4, <1>6, <1>7

\* fat32_find_file sees every entry of the name.
LEMMA NameMissing ==
  ASSUME Sound, NEW d, Start(d), NEW n \in Names, FileMatches(slots, Walk(d), n) = {},
         NEW c \in OnChainIn(fat, d) \ raw, NEW s \in Slots, IsEntry(slots[c][s])
  PROVE  slots[c][s].name # n
<1> SUFFICES ASSUME slots[c][s].name = n PROVE FALSE
  OBVIOUS
<1> DEFINE ch == Walk(d)
<1>1. IsTable(fat) /\ LinksSound /\ EndsInv BY SoundParts
<1>2. PICK j \in DOMAIN ch : ch[j] = c BY <1>1, WalkFacts
<1>3. c \in Cluster /\ c \notin raw BY <1>1, <1>2, WalkFacts
<1>4. EndsLast(slots[c]) BY <1>1, <1>3 DEF EndsInv, ClustersEnd
<1> DEFINE p == <<j, s>>
<1> HIDE DEF ch
<1>5. p \in Places(ch) /\ p[1] = j /\ p[2] = s BY DEF Places
<1>6. ASSUME NEW t \in Slots, t <= s PROVE slots[c][t].kind # "end"
  <2>1. slots[c][s].kind = "short" /\ ~IsFree(slots[c][s]) BY KindsFree DEF IsEntry
  <2>2. t = s \/ t < s BY <1>6, SlotsFacts, SMT
  <2> QED BY <1>4, <2>1, <2>2 DEF EndsLast
<1> HIDE DEF p
<1>7. p \in Searched(slots, ch)
  <2>1. \A t \in Slots : At(slots, ch, <<p[1], t>>) = slots[c][t] BY <1>2, <1>5 DEF At
  <2> QED BY <1>5, <1>6, <2>1 DEF Searched
<1>8. At(slots, ch, p) = slots[c][s] BY <1>2, <1>5 DEF At
<1>9. Stored83(slots[c][s]) = Format83(n) /\ slots[c][s].kind = "short"
  BY DEF Stored83, Format83, IsEntry
<1>10. p \in FileMatches(slots, ch, n) BY <1>7, <1>8, <1>9 DEF FileMatches
<1> QED BY <1>10 DEF ch

\* fat32_dir_exists sees every directory of the name, if it has no long name.
LEMMA DirectoryMissing ==
  ASSUME Sound, EndsOrdered, pc # "extended", NEW d, Start(d), NEW n \in Names,
         ~DirExists(slots, Walk(d), n),
         NEW c \in OnChainIn(fat, d) \ raw, NEW s \in Slots, IsEntry(slots[c][s]),
         slots[c][s].name = n, slots[c][s].dir
  PROVE  Pieces[n] > 0
<1> SUFFICES ASSUME Pieces[n] = 0 PROVE FALSE
  BY SlotsFacts, SMT
<1> DEFINE ch == Walk(d)
<1>1. IsTable(fat) /\ LinksSound /\ EndsInv BY SoundParts
<1>2. PICK j \in DOMAIN ch : ch[j] = c BY <1>1, WalkFacts
<1>3. \A i \in DOMAIN ch : ch[i] \in Cluster /\ ch[i] \notin raw
  <2>1. OnChainIn(fat, d) \subseteq InUse BY TreeChains
  <2> QED BY <1>1, <2>1, WalkFacts DEF InUse
<1>4. EndsLast(slots[c]) BY <1>1, <1>2, <1>3 DEF EndsInv, ClustersEnd
<1>5. PlainIn(c) BY DEF PlainIn
<1>6. \A i \in DOMAIN ch : i < j => ~EndIn(ch[i]) BY <1>2, <1>3, <1>5 DEF EndsOrdered
<1>7. DOMAIN ch = 1 .. Len(ch) /\ Len(ch) \in Nat BY <1>1, WalkFacts
<1> DEFINE p == <<j, s>>
<1> HIDE DEF ch
<1>8. p \in Places(ch) /\ p[1] = j /\ p[2] = s BY DEF Places
<1> HIDE DEF p
<1>9. slots[c][s].kind = "short" /\ ~IsFree(slots[c][s]) /\ slots[c][s].kind # "end"
  BY KindsFree DEF IsEntry
<1>10. p \in SearchedToEnd(slots, ch)
  <2> SUFFICES ASSUME NEW q \in Places(ch), At(slots, ch, q).kind = "end" PROVE Before(p, q)
    BY <1>8 DEF SearchedToEnd
  <2>1. q[1] \in DOMAIN ch /\ q[2] \in Slots BY DEF Places
  <2>2. slots[ch[q[1]]][q[2]].kind = "end" BY DEF At
  <2>3. EndIn(ch[q[1]]) BY <2>1, <2>2 DEF EndIn
  <2>4. CASE q[1] = j
    <3>1. slots[c][q[2]].kind = "end" BY <1>2, <2>2, <2>4
    <3>2. q[2] # s BY <1>9, <3>1
    <3>3. ~(q[2] < s) BY <1>4, <1>9, <2>1, <3>1 DEF EndsLast
    <3>4. s < q[2] BY <2>1, <3>2, <3>3, SlotsFacts, SMT
    <3> QED BY <1>8, <2>4, <3>4 DEF Before
  <2>5. CASE q[1] # j
    <3>1. ~(q[1] < j) BY <1>6, <2>1, <2>3
    <3>2. j < q[1] BY <1>7, <2>1, <2>5, <3>1, SMT
    <3> QED BY <1>8, <2>5, <3>2 DEF Before
  <2> QED BY <2>4, <2>5
<1>11. At(slots, ch, p) = slots[c][s] BY <1>2, <1>8 DEF At
<1>12. Stored83(slots[c][s]) = Format83(n) BY DEF Stored83, Format83, IsEntry
<1>13. DirExists(slots, ch, n) BY <1>9, <1>10, <1>11, <1>12 DEF DirExists
<1> QED BY <1>13 DEF ch

LEMMA EndsSame ==
  ASSUME EndsOrdered, UNCHANGED <<fat, slots, raw>>
  PROVE  EndsOrdered' /\ \A d : Walk(d)' = Walk(d) /\ (Start(d) => Start(d)')
<1>1. \A d : Walk(d)' = Walk(d) BY DEF Walk
<1>2. \A d : Start(d) <=> Start(d)' BY DEF Start, InUse
<1>3. \A c : (EndIn(c) <=> EndIn(c)') /\ (PlainIn(c) <=> PlainIn(c)') BY DEF EndIn, PlainIn
<1>4. EndsOrdered'
  <2> SUFFICES ASSUME NEW d, Start(d)', NEW w, w = Walk(d)', NEW i \in DOMAIN w, NEW j \in DOMAIN w,
                      i < j, w[i] \notin raw, w[j] \notin raw, EndIn(w[i])'
               PROVE  ~PlainIn(w[j])'
    BY DEF EndsOrdered, EndIn, PlainIn
  <2> QED BY <1>1, <1>2, <1>3 DEF EndsOrdered
<1> QED BY <1>1, <1>2, <1>4

LEMMA ArrangedEnded ==
  ASSUME EndsOrdered', EndCall PROVE Arranged'
BY DEF EndCall, NoCall, Arranged, NameFree, NewPlaced, NewNamed

LEMMA ArrangedQuiet ==
  ASSUME Arranged, UNCHANGED <<fat, slots, raw>>, EndCall \/ UNCHANGED <<pc, call>>
  PROVE  Arranged'
<1>1. EndsOrdered' /\ \A d : Walk(d)' = Walk(d) /\ (Start(d) => Start(d)')
  BY EndsSame DEF Arranged
<1>2. CASE EndCall BY <1>1, <1>2, ArrangedEnded
<1>3. CASE UNCHANGED <<pc, call>>
  <2>1. NameFree' BY <1>3 DEF Arranged, NameFree
  <2>2. NewPlaced'
    <3>1. UNCHANGED <<fat, slots, raw, pc, call>> BY <1>3
    <3>2. NewPlaced BY DEF Arranged
    <3> QED BY <3>1, <3>2, Zenon DEF NewPlaced, Walk, EndIn, Start, InUse, NoLinkTo
  <2>3. NewNamed' BY <1>3 DEF Arranged, NewNamed
  <2> QED BY <1>1, <2>1, <2>2, <2>3 DEF Arranged
<1> QED BY <1>2, <1>3

LEMMA ArrangedMkdir ==
  ASSUME Sound, Sound', Arranged, ~Fault, NEW d \in Directories, NEW n \in Names, CallMkdir(d, n)
  PROVE  Arranged'
<1> DEFINE new == Allocate(fat, hint, 1)
<1>1. /\ pc = "idle" /\ new.ok /\ fat' = new.fat /\ pc' = "clear" /\ UNCHANGED slots
      /\ ~DirExists(slots, Walk(d), n)
  BY Zenon DEF CallMkdir, Ready, NoDirectory
<1>2. PICK e \in Cluster :
        /\ e = new.first /\ raw' = raw \cup {e}
        /\ call' = [NoCall EXCEPT !.op = "mkdir", !.parent = d, !.name = n,
                                  !.dir = TRUE, !.first = e]
  BY Zenon DEF CallMkdir
<1>3. /\ call'.op = "mkdir" /\ call'.parent = d /\ call'.name = n /\ call'.dir = TRUE
      /\ call'.first = e
  BY <1>2 DEF NoCall
<1> HIDE DEF new
<1>4. /\ IsTable(fat) /\ hint \in Cluster /\ TreeSoundness /\ LinksSound /\ TreeInv /\ NamesInv'
  <2>1. TreeInv' BY DEF Sound, ReachInv, DirTypeInv
  <2> QED BY <2>1, SoundParts DEF TreeInv
<1>5. /\ fat[e] = FREE /\ fat'[e] = EndOfChain
      /\ \A c \in FatIndex : c # e => fat'[c] = fat[c]
  BY <1>1, <1>2, <1>4, OneTaken DEF new
<1>6. Start(d) BY <1>1, <1>4, DirectoriesStart
<1>7. InUse' = InUse /\ OneMore BY <1>4, <1>6, TreeMkdir DEF Sound
<1>8. EndsOrdered'
  <2>1. \A x \in Cluster : x # e /\ fat[x] = FREE => fat'[x] = FREE BY <1>5, TableNumbers
  <2> QED BY <1>1, <1>2, <1>7, <2>1, EndsGrown DEF Arranged
<1>9. OnChainIn(fat', d) = OnChainIn(fat, d)
  <2>1. First(fat, d) /\ OnChainIn(fat, d) \subseteq InUse BY <1>1, <1>4, <1>6, DirChain
  <2>2. PICK g : g = fat' OBVIOUS
  <2>3. IsTable(g) BY <2>2, SoundHoldsNext DEF SoundFacts
  <2>4. \A x \in OnChainIn(fat, d) : g[x] = fat[x] BY <1>5, <2>1, <2>2, TableNumbers DEF InUse
  <2>5. OnChainIn(g, d) = OnChainIn(fat, d) BY <2>1, <2>3, <2>4, UntouchedChain
  <2> QED BY <2>2, <2>5
<1>10. NameFree'
  <2> SUFFICES ASSUME NEW c \in OnChainIn(fat, d) \ raw, NEW s \in Slots, IsEntry(slots[c][s]),
                      slots[c][s].name = n, slots[c][s].dir
               PROVE  Pieces[n] > 0
    BY <1>1, <1>2, <1>3, <1>9 DEF NameFree
  <2> QED BY <1>1, <1>6, DirectoryMissing DEF Arranged
<1>11. NewPlaced' BY <1>1 DEF NewPlaced
<1>12. NewNamed'
  <2>1. e # d BY <1>5, <1>6 DEF Start, InUse
  <2> QED BY <1>1, <1>3, <2>1 DEF NewNamed
<1> QED BY <1>8, <1>10, <1>11, <1>12 DEF Arranged

LEMMA LookSeen ==
  ASSUME faults = 0, faults' = 0, NEW sl, CountLook(sl) PROVE sl = slots
BY SMT DEF CountLook

LEMMA ArrangedOpen ==
  ASSUME Sound, Arranged, faults = 0, faults' = 0, ~Fault, NEW d \in Directories, NEW n \in Names,
         CallOpen(d, n)
  PROVE  Arranged'
<1>1. /\ pc = "idle" /\ pc' = "place" /\ UNCHANGED <<fat, slots, raw>>
      /\ call' = [NoCall EXCEPT !.op = "open", !.parent = d, !.name = n]
  BY DEF CallOpen, Ready
<1>2. call'.op = "open" /\ call'.parent = d /\ call'.name = n /\ ~call'.dir BY <1>1 DEF NoCall
<1>3. FileMatches(slots, Walk(d), n) = {}
  <2>1. PICK sl \in Looks(d) : FileMatches(sl, Walk(d), n) = {} /\ CountLook(sl)
    BY Zenon DEF CallOpen
  <2> QED BY <2>1, LookSeen
<1>4. EndsOrdered' BY <1>1, EndsSame DEF Arranged
<1>5. Start(d) BY <1>1, SoundParts, DirectoriesStart
<1>6. NameFree'
  <2> SUFFICES ASSUME NEW c \in OnChainIn(fat, d) \ raw, NEW s \in Slots, IsEntry(slots[c][s]),
                      slots[c][s].name = n
               PROVE  FALSE
    BY <1>1, <1>2 DEF NameFree
  <2> QED BY <1>3, <1>5, NameMissing
<1>7. NewPlaced' /\ NewNamed' BY <1>1, <1>2 DEF NewPlaced, NewNamed
<1> QED BY <1>4, <1>6, <1>7 DEF Arranged

LEMMA ArrangedRename ==
  ASSUME Arranged, NEW d, NEW n, CallRename(d, n)
  PROVE  Arranged'
<1>1. UNCHANGED <<fat, slots, raw>> /\ pc' = "check" BY DEF CallRename
<1>2. PICK sl \in Looks(d), c \in Cluster, s \in Slots :
        \E e \in Directories, m \in Names :
          call' = [NoCall EXCEPT !.op = "rename", !.parent = e, !.name = m,
            !.dir = sl[c][s].dir, !.first = sl[c][s].first, !.old = <<c, s>>]
  BY Zenon DEF CallRename
<1>3. call'.op = "rename" BY <1>2 DEF NoCall
<1>4. EndsOrdered' BY <1>1, EndsSame DEF Arranged
<1>5. NameFree' /\ NewPlaced' /\ NewNamed' BY <1>1, <1>3 DEF NameFree, NewPlaced, NewNamed
<1> QED BY <1>4, <1>5 DEF Arranged

LEMMA ArrangedUnlink ==
  ASSUME Sound, Sound', Arranged, NEW d \in Directories, NEW n \in Names, CallUnlink(d, n)
  PROVE  Arranged'
<1>1. pc = "idle" /\ UNCHANGED <<slots, raw>> /\ pc' = "delete" BY DEF CallUnlink, Ready
<1>2. PICK sl \in Looks(d), c \in Cluster, s \in Slots :
        call' = [NoCall EXCEPT !.op = "unlink", !.dir = sl[c][s].dir,
                       !.first = sl[c][s].first, !.old = <<c, s>>]
  BY Zenon DEF CallUnlink
<1>3. call'.op = "unlink" BY <1>2 DEF NoCall
<1>4. TreeInv' BY DEF Sound, ReachInv, DirTypeInv
<1>5. OneLess
  <2>1. Start(d) /\ TreeInv BY <1>1, SoundParts, DirectoriesStart
  <2>2. NamesInv' BY <1>4 DEF TreeInv
  <2> QED BY <2>1, <2>2, TreeUnlink DEF Sound
<1>6. EndsOrdered' BY <1>1, <1>5, EndsFreed DEF Arranged
<1>7. NameFree' /\ NewPlaced' /\ NewNamed' BY <1>1, <1>3 DEF NameFree, NewPlaced, NewNamed
<1> QED BY <1>6, <1>7 DEF Arranged

LEMMA ArrangedCheck ==
  ASSUME Sound, Arranged, ~Fault, CheckTarget
  PROVE  Arranged'
<1>1. pc = "check" /\ UNCHANGED <<fat, slots, raw>> BY DEF CheckTarget
<1>2. CASE EndCall BY <1>1, <1>2, ArrangedQuiet
<1>3. CASE ~EndCall
  <2>1. pc' = "place" /\ UNCHANGED call /\ ~DirExists(slots, Walk(call.parent), call.name)
    BY <1>3, Zenon DEF CheckTarget, NoDirectory
  <2>2. Start(call.parent) /\ call.name \in Names
    BY <1>1, SoundParts DEF NewEntrySound, EndsInv, NameGiven
  <2>3. call.op = "rename" BY <1>1 DEF Arranged, NewNamed
  <2>4. NameFree'
    <3> SUFFICES ASSUME NEW c \in OnChainIn(fat, call.parent) \ raw, NEW s \in Slots,
                        IsEntry(slots[c][s]), slots[c][s].name = call.name, slots[c][s].dir
                 PROVE  Pieces[call.name] > 0
      BY <1>1, <2>1, <2>3 DEF NameFree
    <3> QED BY <1>1, <2>1, <2>2, DirectoryMissing DEF Arranged
  <2>5. EndsOrdered' BY <1>1, EndsSame DEF Arranged
  <2>6. NewPlaced' /\ NewNamed' BY <2>1, <2>3 DEF NewPlaced, NewNamed
  <2> QED BY <2>4, <2>5, <2>6 DEF Arranged
<1> QED BY <1>2, <1>3

\* Nothing comes to hold the name meanwhile.
LEMMA NameFreeStays ==
  ASSUME NameFree, pc \in {"clear", "init", "place", "extended"},
         call'.parent = call.parent, call'.name = call.name, call'.op = call.op,
         \A c \in OnChainIn(fat', call.parent) \ raw', s \in Slots :
           IsEntry(slots'[c][s]) =>
             c \in OnChainIn(fat, call.parent) \ raw /\ slots'[c][s] = slots[c][s]
  PROVE  NameFree'
<1> SUFFICES ASSUME NEW c \in OnChainIn(fat', call.parent) \ raw', NEW s \in Slots,
                    IsEntry(slots'[c][s]), slots'[c][s].name = call.name
             PROVE  call.op # "open" /\ (slots'[c][s].dir => Pieces[call.name] > 0)
  BY Zenon DEF NameFree
<1> QED BY DEF NameFree

LEMMA ArrangedClearNew ==
  ASSUME Sound, Sound', Arranged, ~WriteFails, ClearNew
  PROVE  Arranged'
<1>1. pc = "clear" /\ pc' = "init" /\ Written /\ UNCHANGED <<fat, raw, call>> /\ pc \in Writing
  BY DEF ClearNew, WriteWorks, Writing
<1> DEFINE T == call.first
<1>2. T \in Cluster /\ T \in raw /\ \A c \in Cluster : c # T => slots'[c] = slots[c]
  <2>1. EndsInv BY SoundParts
  <2>2. Target = T BY <1>1 DEF Target
  <2> QED BY <1>1, <2>1, <2>2, SlotsWritten DEF EndsInv, NewClusterRaw
<1> HIDE DEF T
<1>3. EndsOrdered' BY <1>1, <1>2, EndsWritten DEF Arranged
<1>4. OnChainIn(fat, call.parent) \subseteq Cluster
  BY <1>1, SoundParts, TreeChains DEF NewEntrySound
<1>5. NameFree' BY <1>1, <1>2, <1>4, NameFreeStays DEF Arranged
<1>6. NewPlaced' /\ NewNamed' BY <1>1 DEF Arranged, NewPlaced, NewNamed
<1> QED BY <1>3, <1>5, <1>6 DEF Arranged

LEMMA ArrangedInitNew ==
  ASSUME Sound, Sound', Arranged, ~WriteFails, InitNew
  PROVE  Arranged'
<1>1. pc = "init" /\ pc' = "place" /\ Written /\ UNCHANGED <<fat, call>> /\ pc \in Writing
      /\ raw' = raw \ {call.first}
  BY DEF InitNew, WriteWorks, Writing
<1>0. PICK T : T = call.first OBVIOUS
<1>2. /\ T \in Cluster /\ fat[T] = EndOfChain /\ \A c \in Cluster : c # T => slots'[c] = slots[c]
      /\ slots'[T] = NewDirectory(T, call.parent) /\ raw' = raw \ {T}
  <2>1. EndsInv /\ NewEntrySound BY SoundParts
  <2>2. Target = T BY <1>0, <1>1 DEF Target
  <2>3. Content = NewDirectory(T, call.parent) BY <1>0, <1>1 DEF Content
  <2>4. T \in Cluster /\ fat[T] = EndOfChain BY <1>0, <1>1, <2>1 DEF EndsInv, NewClusterRaw, NewEntrySound
  <2> QED BY <1>0, <1>1, <2>1, <2>2, <2>3, <2>4, SlotsWritten
<1>3. \A s \in Slots : ~IsEntry(slots'[T][s]) BY <1>2, NewDirectorySlots
<1>4. EndsOrdered'
  <2>1. ~PlainIn(T)' BY <1>3 DEF PlainIn
  <2> QED BY <1>1, <1>2, <2>1, EndsWritten DEF Arranged
<1>5. OnChainIn(fat, call.parent) \subseteq Cluster
  BY <1>1, SoundParts, TreeChains DEF NewEntrySound
<1>6. NameFree'
  <2> SUFFICES ASSUME NEW c \in OnChainIn(fat', call.parent) \ raw', NEW s \in Slots,
                      IsEntry(slots'[c][s])
               PROVE  c \in OnChainIn(fat, call.parent) \ raw /\ slots'[c][s] = slots[c][s]
    BY <1>1, NameFreeStays DEF Arranged
  <2>1. c # T BY <1>3
  <2> QED BY <1>1, <1>2, <1>5, <2>1
<1>7. NewPlaced' BY <1>1 DEF NewPlaced
<1>8. NewNamed' BY <1>0, <1>1, <1>2, <1>3 DEF Arranged, NewNamed
<1> QED BY <1>4, <1>6, <1>7, <1>8 DEF Arranged

\* Where there is an end mark there is room for a short entry.
LEMMA RoomAtEnd ==
  ASSUME NEW ch, NEW i \in DOMAIN ch, EndIn(ch[i])
  PROVE  \E t \in Slots : <<i, t>> \in FreeRuns(slots, ch, 0 + 1)
<1>1. PICK t \in Slots : slots[ch[i]][t].kind = "end" BY DEF EndIn
<1>2. t + (0 + 1) - 1 <= SlotsPerCluster /\ \A u \in t .. t + (0 + 1) - 1 : u = t
  BY SlotsFacts, SMT
<1>3. IsFree(slots[ch[i]][t]) BY <1>1, KindsFree
<1>4. Fits(slots, ch[i], t, 0 + 1) BY <1>2, <1>3 DEF Fits
<1> QED BY <1>4 DEF FreeRuns, Places

LEMMA ArrangedPlaceInside ==
  ASSUME Sound, Arranged, PlaceInside
  PROVE  Arranged'
<1>1. pc = "place" /\ pc' = "entry" /\ UNCHANGED <<fat, slots, raw>> BY DEF PlaceInside
<1> DEFINE ch == Walk(call.parent)
           runs == FreeRuns(slots, ch, SlotsNeeded(call.name))
<1>2. PICK c \in Cluster, s \in Slots :
        /\ \E p \in runs : IsFirst(p, runs) /\ <<ch[p[1]], p[2]>> = <<c, s>>
        /\ call' = [call EXCEPT !.at = <<c, s>>]
  BY Zenon DEF PlaceInside
<1>3. PICK p \in runs : IsFirst(p, runs) /\ ch[p[1]] = c
  <2>1. PICK p \in runs : IsFirst(p, runs) /\ <<ch[p[1]], p[2]>> = <<c, s>> BY <1>2
  <2>2. ch[p[1]] = c BY <2>1, Zenon
  <2> QED BY <2>1, <2>2
<1>4. CallShape /\ IsTable(fat) /\ LinksSound /\ Start(call.parent)
  BY <1>1, SoundParts DEF EndsInv, NewEntrySound
<1>5. /\ call'.op = call.op /\ call'.name = call.name /\ call'.first = call.first
      /\ call'.dir = call.dir /\ call'.parent = call.parent /\ call'.at = <<c, s>>
  BY <1>2, <1>4 DEF CallShape
<1>6. EndsOrdered' /\ \A d : Walk(d)' = Walk(d) /\ (Start(d) => Start(d)')
  BY <1>1, EndsSame DEF Arranged
<1>7. NameFree' BY <1>1, <1>5, NameFreeStays DEF Arranged
<1>8. /\ \A i, j \in DOMAIN ch : ch[i] = ch[j] => i = j
      /\ \A i \in DOMAIN ch : ch[i] \in OnChainIn(fat, call.parent)
  BY <1>4, WalkFacts
<1>9. p[1] \in DOMAIN ch /\ p[2] \in Slots BY DEF FreeRuns, Places
<1>10. ASSUME Pieces[call.name] = 0, NEW i \in DOMAIN ch, NEW j \in DOMAIN ch, i < j, ch[j] = c
       PROVE  ~EndIn(ch[i])
  <2> SUFFICES ASSUME EndIn(ch[i]) PROVE FALSE
    OBVIOUS
  <2>1. j = p[1] BY <1>3, <1>8, <1>9, <1>10
  <2>2. SlotsNeeded(call.name) = 0 + 1 BY <1>10 DEF SlotsNeeded
  <2>3. PICK t \in Slots : <<i, t>> \in runs BY <2>2, RoomAtEnd
  <2>4. <<i, t>> = p \/ Before(p, <<i, t>>) BY <1>3, <2>3 DEF IsFirst
  <2>5. DOMAIN ch = 1 .. Len(ch) /\ Len(ch) \in Nat BY <1>4, WalkFacts
  <2>6. i # p[1] /\ ~(p[1] < i) BY <1>10, <2>1, <2>5, SMT
  <2>7. <<i, t>>[1] = i OBVIOUS
  <2>8. <<i, t>> # p BY <2>6, <2>7
  <2> QED BY <2>4, <2>6, <2>8 DEF Before
<1>11. NewPlaced'
  <2>1. call'.at[1] = c BY <1>5
  <2>2. \A x : EndIn(x)' <=> EndIn(x) BY <1>1 DEF EndIn
  <2>3. c \in OnChainIn(fat', call.parent) BY <1>1, <1>3, <1>8, <1>9
  <2>4. Start(call.parent)' BY <1>1, <1>4, <1>5, <1>6 DEF Start, InUse
  <2>5. Walk(call.parent)' = ch BY <1>1, <1>5 DEF Walk
  <2> QED BY <1>1, <1>5, <1>10, <2>1, <2>2, <2>3, <2>4, <2>5 DEF NewPlaced
<1>12. NewNamed' BY <1>1, <1>5 DEF Arranged, NewNamed
<1> QED BY <1>6, <1>7, <1>11, <1>12 DEF Arranged

\* The chains of directories after a step.
ChainsSound ==
  IsTable(fat) /\ LinksSound =>
    \A d : Start(d) => First(fat, d) /\ WalkEnds(fat, d) /\ d \in OnChainIn(fat, d)
                       /\ OnChainIn(fat, d) \subseteq Cluster

LEMMA ChainsHold == ChainsSound
BY DirChain, OnWalk DEF ChainsSound

LEMMA ChainsHoldNext == ChainsSound'
BY ChainsHold, PTL

\* The directory's last cluster, its new one, and what else is said of them.
LEMMA Extended ==
  ASSUME Sound, Sound', PlaceBehind
  PROVE  /\ Start(call.parent) /\ Start(call.parent)' /\ OneMore /\ InUse' = InUse
         /\ \A c : Start(c) => Start(c)'
         /\ call'.op = call.op /\ call'.name = call.name /\ call'.first = call.first
         /\ call'.dir = call.dir /\ call'.parent = call.parent
         /\ \E e, l \in Cluster :
              /\ raw' = raw \cup {e} /\ call'.at = <<e, 1>> /\ fat[e] = FREE /\ fat'[e] = EndOfChain
              /\ l \in OnChainIn(fat, call.parent) /\ fat[l] # FREE /\ fat[l] \notin Cluster
              /\ fat'[l] = e /\ \A c \in FatIndex : c # e /\ c # l => fat'[c] = fat[c]
              /\ OnChainIn(fat', call.parent) = OnChainIn(fat, call.parent) \cup {e}
              /\ ChainIn(fat', call.parent) = Append(ChainIn(fat, call.parent), e)
              /\ e \notin OnChainIn(fat, call.parent)
<1>1. pc = "place" /\ UNCHANGED <<slots, tainted>> BY DEF PlaceBehind, Sound
<1>2. /\ TreeInv /\ LinksEnd /\ IsTable(fat) /\ LinksSound /\ Start(call.parent) /\ CallShape
      /\ ~tainted /\ ~tainted'
  BY <1>1, SoundParts DEF NewEntrySound, EndsInv, Sound
<1>3. EndOf(fat, call.parent) # 0 BY <1>1, <1>2, DirectoryEnds
<1>4. PICK e \in Cluster, l \in Cluster :
        /\ raw' = raw \cup {e} /\ call'.at = <<e, 1>> /\ fat[e] = FREE /\ fat'[e] = EndOfChain
        /\ l \in OnChainIn(fat, call.parent) /\ fat[l] # FREE /\ fat[l] \notin Cluster
        /\ fat'[l] = e /\ \A c \in FatIndex : c # e /\ c # l => fat'[c] = fat[c]
  <2>1. \E e \in Cluster :
              /\ raw' = raw \cup {e} /\ call'.at = <<e, 1>>
              /\ fat[e] = FREE
              /\ ~tainted /\ ~tainted' =>
                   /\ fat'[e] = EndOfChain
                   /\ \/ EndOf(fat, call.parent) = 0 /\ \A c \in FatIndex : c # e => fat'[c] = fat[c]
                      \/ \E l \in Cluster :
                           /\ l = EndOf(fat, call.parent) /\ l \in OnChainIn(fat, call.parent)
                           /\ fat[l] # FREE /\ fat[l] \notin Cluster /\ fat'[l] = e
                           /\ \A c \in FatIndex : c # e /\ c # l => fat'[c] = fat[c]
    BY <1>2, DirectoryExtended
  <2> QED BY <1>2, <1>3, <2>1
<1>5. /\ call'.op = call.op /\ call'.name = call.name /\ call'.first = call.first
      /\ call'.dir = call.dir /\ call'.parent = call.parent
  <2>1. PICK place : call' = [call EXCEPT !.at = place] BY Zenon DEF PlaceBehind, EntryInNew
  <2> QED BY <1>2, <2>1 DEF CallShape
<1>6. InUse' = InUse /\ OneMore /\ \A c : Start(c) => Start(c)'
  <2>1. NamesInv' BY DEF Sound, ReachInv, DirTypeInv, TreeInv
  <2> QED BY <1>2, <2>1, TreePlaceBehind
<1>7. PICK p : p = call.parent OBVIOUS
<1>8. Start(p) /\ Start(p)' /\ Start(call.parent)' BY <1>2, <1>5, <1>6, <1>7 DEF Start
<1>9. PICK g : g = fat' OBVIOUS
<1>10. WalkEnds(g, p) /\ OnChainIn(fat, p) \subseteq InUse
  <2>1. OnChainIn(fat, p) \subseteq InUse BY <1>1, <1>2, <1>7, DirChain
  <2>2. \A d : Start(d)' => WalkEnds(g, d) BY <1>9, ChainsHoldNext, SoundHoldsNext DEF ChainsSound, SoundFacts
  <2> QED BY <1>8, <2>1, <2>2
<1>11. e \notin OnChainIn(fat, p) BY <1>4, <1>10 DEF InUse
<1>12. ChainIn(g, p) # ChainIn(fat, p)
  <2> SUFFICES ASSUME ChainIn(g, p) = ChainIn(fat, p) PROVE FALSE
    OBVIOUS
  <2>1. OnChainIn(g, p) = OnChainIn(fat, p) BY DEF OnChainIn
  <2>2. l \in OnChainIn(g, p) /\ g[l] = e BY <1>4, <1>7, <1>9, <2>1
  <2>3. e \in OnChainIn(g, p) BY <1>10, <2>2, WalkGoesOn
  <2> QED BY <1>11, <2>1, <2>3
<1>13. ChainIn(g, p) = Append(ChainIn(fat, p), e)
  <2>1. \/ ChainIn(fat', p) = ChainIn(fat, p)
        \/ \E x \in Cluster : /\ fat[x] = FREE /\ fat'[x] = EndOfChain
                              /\ ChainIn(fat', p) = Append(ChainIn(fat, p), x)
    BY <1>2, <1>6, <1>8, ChainGrows
  <2>2. PICK x \in Cluster : /\ fat[x] = FREE /\ fat'[x] = EndOfChain
                             /\ ChainIn(g, p) = Append(ChainIn(fat, p), x)
    BY <1>9, <1>12, <2>1
  <2>3. x = e BY <1>4, <2>2, TableNumbers
  <2> QED BY <2>2, <2>3
<1>14. OnChainIn(g, p) = OnChainIn(fat, p) \cup {e}
  <2> DEFINE v == ChainIn(fat, p)
             w == ChainIn(g, p)
  <2>1. OnChainIn(g, p) = {w[i] : i \in DOMAIN w} BY DEF OnChainIn
  <2>2. OnChainIn(fat, p) = {v[i] : i \in DOMAIN v} BY DEF OnChainIn
  <2>3. v \in Seq(Cluster)
    <3>1. p \in Entry BY <1>8, TableNumbers DEF Start, InUse
    <3> QED BY <1>2, <3>1, ChainType
  <2>4. w = Append(v, e) BY <1>13
  <2> HIDE DEF v, w
  <2>5. /\ DOMAIN v = 1 .. Len(v) /\ Len(v) \in Nat /\ DOMAIN w = 1 .. Len(v) + 1
        /\ w[Len(v) + 1] = e /\ \A k \in 1 .. Len(v) : w[k] = v[k]
    BY <2>3, <2>4, SMT
  <2>6. \A k \in DOMAIN w : k \in DOMAIN v \/ k = Len(v) + 1 BY <2>5, SMT
  <2>7. \A k \in DOMAIN v : k \in DOMAIN w BY <2>5, SMT
  <2>8. Len(v) + 1 \in DOMAIN w BY <2>5, SMT
  <2> QED BY <2>1, <2>2, <2>5, <2>6, <2>7, <2>8
<1> QED BY <1>2, <1>4, <1>5, <1>6, <1>7, <1>8, <1>9, <1>11, <1>13, <1>14

LEMMA ArrangedPlaceBehind ==
  ASSUME Sound, Sound', Arranged, ~Fault, PlaceBehind
  PROVE  Arranged'
<1>1. /\ pc = "place" /\ pc' = "extended" /\ UNCHANGED slots
      /\ FreeRuns(slots, Walk(call.parent), SlotsNeeded(call.name)) = {}
  BY DEF PlaceBehind, NoRoom
<1>2. PICK p : p = call.parent OBVIOUS
<1>3. /\ Start(p) /\ Start(p)' /\ OneMore /\ InUse' = InUse
      /\ call'.op = call.op /\ call'.name = call.name /\ call'.first = call.first
      /\ call'.dir = call.dir /\ call'.parent = p
  BY <1>2, Extended DEF Start
<1>4. PICK e \in Cluster, l \in Cluster :
        /\ raw' = raw \cup {e} /\ call'.at = <<e, 1>> /\ fat[e] = FREE /\ fat'[e] = EndOfChain
        /\ l \in OnChainIn(fat, p) /\ fat[l] # FREE /\ fat[l] \notin Cluster
        /\ fat'[l] = e /\ \A c \in FatIndex : c # e /\ c # l => fat'[c] = fat[c]
        /\ OnChainIn(fat', p) = OnChainIn(fat, p) \cup {e}
        /\ ChainIn(fat', p) = Append(ChainIn(fat, p), e)
        /\ e \notin OnChainIn(fat, p)
  BY <1>2, Extended
<1>5. EndsOrdered'
  <2>1. \A x \in Cluster : x # e /\ fat[x] = FREE => fat'[x] = FREE BY <1>4, TableNumbers
  <2> QED BY <1>1, <1>3, <1>4, <2>1, EndsGrown DEF Arranged
<1>6. NameFree'
  <2>1. \A c \in OnChainIn(fat', p) \ raw' : c \in OnChainIn(fat, p) \ raw BY <1>4
  <2> QED BY <1>1, <1>2, <1>3, <2>1, NameFreeStays DEF Arranged
<1>7. NewPlaced'
  <2>1. call'.at[1] = e /\ e \in OnChainIn(fat', p) BY <1>4
  <2>2. \A x : EndIn(x)' <=> EndIn(x) BY <1>1 DEF EndIn
  <2> DEFINE v == ChainIn(fat, p)
             w == ChainIn(fat', p)
  <2>3. Walk(p)' = w /\ Walk(p) = v BY DEF Walk
  <2>4. v \in Seq(Cluster)
    <3>1. p \in Entry BY <1>3, TableNumbers DEF Start, InUse
    <3> QED BY <3>1, SoundParts, ChainType
  <2>5. w = Append(v, e) BY <1>4
  <2>6. OnChainIn(fat, p) = {v[i] : i \in DOMAIN v} BY DEF OnChainIn
  <2> HIDE DEF v, w
  <2>7. /\ DOMAIN v = 1 .. Len(v) /\ Len(v) \in Nat /\ DOMAIN w = 1 .. Len(v) + 1
        /\ w[Len(v) + 1] = e /\ \A k \in 1 .. Len(v) : w[k] = v[k]
    BY <2>4, <2>5, SMT
  <2>8. ASSUME Pieces[call.name] = 0, NEW i \in DOMAIN w, NEW j \in DOMAIN w, i < j, w[j] = e
        PROVE  ~EndIn(w[i])
    <3> SUFFICES ASSUME EndIn(w[i]) PROVE FALSE
      OBVIOUS
    <3>1. i \in DOMAIN v BY <2>7, <2>8, SMT
    <3>2. w[i] = v[i] BY <2>7, <3>1
    <3>3. \E t \in Slots : <<i, t>> \in FreeRuns(slots, v, 0 + 1) BY <3>1, <3>2, RoomAtEnd
    <3>4. SlotsNeeded(call.name) = 0 + 1 BY <2>8 DEF SlotsNeeded
    <3> QED BY <1>1, <1>2, <2>3, <3>3, <3>4
  <2> QED BY <1>1, <1>3, <2>1, <2>2, <2>3, <2>8 DEF NewPlaced
<1>8. NewNamed'
  <2>1. NewNamed BY DEF Arranged
  <2>2. ASSUME call.op = "mkdir" PROVE fat'[call.first] = fat[call.first]
    <3>1. Begun(call.first) /\ call.first # p
      BY <1>1, <1>2, <2>1, <2>2, SoundParts DEF NewEntrySound, NewNamed
    <3>2. First(fat, p) /\ First(fat, call.first) /\ call.first \in OnChainIn(fat, call.first)
      BY <1>3, <3>1, TreeChains DEF Begun
    <3>3. call.first # l BY <1>4, <3>1, <3>2, OnOneChain
    <3>4. call.first # e /\ call.first \in Cluster BY <1>4, <3>1 DEF Begun, Start, InUse
    <3> QED BY <1>4, <3>3, <3>4, TableNumbers
  <2> QED BY <1>1, <1>2, <1>3, <2>1, <2>2 DEF NewNamed
<1> QED BY <1>5, <1>6, <1>7, <1>8 DEF Arranged

LEMMA ArrangedClearExtension ==
  ASSUME Sound, Sound', Arranged, ~WriteFails, ClearExtension
  PROVE  Arranged'
<1>0. PICK T : T = call.at[1] OBVIOUS
<1>1. pc = "extended" /\ pc' = "entry" /\ Written /\ UNCHANGED <<fat, call>> /\ pc \in Writing
      /\ raw' = raw \ {T}
  BY <1>0 DEF ClearExtension, WriteWorks, Writing
<1>2. /\ T \in Cluster /\ T \in raw /\ fat[T] = EndOfChain /\ slots'[T] = EmptyCluster
      /\ \A c \in Cluster : c # T => slots'[c] = slots[c]
  <2>1. EndsInv /\ NewEntrySound BY SoundParts
  <2>2. Target = T BY <1>0, <1>1 DEF Target
  <2>3. Content = EmptyCluster BY <1>1 DEF Content
  <2>4. T \in Cluster /\ T \in raw /\ fat[T] = EndOfChain
    BY <1>0, <1>1, <2>1 DEF EndsInv, NewClusterRaw, NewEntrySound
  <2> QED BY <1>0, <1>1, <2>1, <2>2, <2>3, <2>4, SlotsWritten
<1>3. \A s \in Slots : ~IsEntry(slots'[T][s]) BY <1>2, SlotKinds DEF EmptyCluster, IsEntry
<1>4. EndsOrdered'
  <2>1. ~PlainIn(T)' BY <1>3 DEF PlainIn
  <2> QED BY <1>1, <1>2, <2>1, EndsWritten DEF Arranged
<1>5. NewPlaced /\ NewNamed /\ Start(call.parent) BY <1>1 DEF Arranged, NewPlaced
<1>6. OnChainIn(fat, call.parent) \subseteq Cluster BY <1>5, TreeChains
<1>7. NameFree'
  <2> SUFFICES ASSUME NEW c \in OnChainIn(fat', call.parent) \ raw', NEW s \in Slots,
                      IsEntry(slots'[c][s])
               PROVE  c \in OnChainIn(fat, call.parent) \ raw /\ slots'[c][s] = slots[c][s]
    BY <1>1, NameFreeStays DEF Arranged
  <2>1. c # T BY <1>3
  <2> QED BY <1>1, <1>2, <1>6, <2>1
<1>8. NewPlaced'
  <2>1. PICK p : p = call.parent OBVIOUS
  <2>2. Start(p)' BY <1>1, <1>5, <2>1 DEF Start, InUse, NoLinkTo
  <2>3. Walk(p)' = Walk(p) BY <1>1 DEF Walk
  <2>4. ASSUME Pieces[call.name] = 0, NEW i \in DOMAIN Walk(p), NEW j \in DOMAIN Walk(p), i < j,
               Walk(p)[j] = T, NEW c, c = Walk(p)[i]
        PROVE  ~EndIn(c)'
    <3>1. ~EndIn(c) BY <1>0, <1>1, <1>5, <2>1, <2>4 DEF NewPlaced
    <3>2. DOMAIN Walk(p) = 1 .. Len(Walk(p)) /\ (c = T => i = j) /\ c \in Cluster
      BY <1>5, <2>1, <2>4, SoundParts, WalkFacts
    <3>3. c # T BY <2>4, <3>2, SMT
    <3> QED BY <1>2, <3>1, <3>2, <3>3 DEF EndIn
  <2>5. T \in OnChainIn(fat, p) BY <1>0, <1>1, <1>5, <2>1 DEF NewPlaced
  <2> QED BY <1>0, <1>1, <2>1, <2>2, <2>3, <2>4, <2>5 DEF NewPlaced
<1>9. NewNamed'
  <2>1. ASSUME call.op = "mkdir" PROVE call.first # T
    <3>1. Begun(call.first) BY <1>1, <1>5, <2>1, SoundParts DEF NewEntrySound, NewNamed
    <3> QED BY <1>2, <3>1 DEF Begun, Start, InUse
  <2>2. ASSUME call.op = "mkdir" PROVE slots'[call.first] = slots[call.first]
    <3>1. Begun(call.first) BY <1>1, <1>5, <2>2, SoundParts DEF NewEntrySound, NewNamed
    <3> QED BY <1>2, <2>1, <2>2, <3>1 DEF Begun, Start, InUse
  <2> QED BY <1>1, <1>5, <2>2 DEF NewNamed
<1> QED BY <1>4, <1>7, <1>8, <1>9 DEF Arranged

\* The clusters of the entries that a call writes and deletes.
LEMMA ArrangedWriteEntry ==
  ASSUME Sound, Sound', Arranged, ~WriteFails, WriteEntry
  PROVE  Arranged'
<1>0. PICK T : T = call.at[1] OBVIOUS
<1>1. pc = "entry" /\ pc \in Writing /\ Written /\ UNCHANGED <<fat, raw>>
      /\ (EndCall \/ (call.op = "rename" /\ pc' = "delete" /\ UNCHANGED call))
  BY DEF WriteEntry, WriteWorks, Writing
<1>2. PICK n \in Names : n = call.name
  BY <1>1, SoundParts DEF EndsInv, NameGiven
<1>3. PICK s \in Slots : s = call.at[2]
  BY <1>1, SoundParts DEF EndsInv, RoomKept
<1>4. /\ T \in Cluster /\ \A c \in Cluster : c # T => slots'[c] = slots[c]
      /\ slots'[T] = WithEntry(slots[T], s, n, call.dir, call.first)
  <2>1. EndsInv BY SoundParts
  <2>2. Target = T BY <1>0, <1>1 DEF Target
  <2>3. Content = WithEntry(slots[T], s, n, call.dir, call.first)
    BY <1>0, <1>1, <1>2, <1>3, <2>2 DEF Content
  <2> QED BY <1>1, <2>1, <2>2, <2>3, SlotsWritten
<1>5. \A t \in Slots :
        \/ slots'[T][t] = slots[T][t]
        \/ slots'[T][t].kind = "long" /\ slots'[T][t].name = n
        \/ slots'[T][t].kind = "short" /\ slots'[T][t].name = n
  BY <1>4, EntrySlots
<1>6. EndIn(T)' => EndIn(T) BY <1>5 DEF EndIn
<1>7. PlainIn(T)' => PlainIn(T) \/ Pieces[n] = 0 BY <1>5 DEF PlainIn, IsEntry
<1>8. NewPlaced BY DEF Arranged
<1>9. ASSUME NEW d, Start(d), PlainIn(T)'
      PROVE  \/ PlainIn(T)
             \/ \A i, j \in DOMAIN Walk(d) : i < j /\ Walk(d)[j] = T => ~EndIn(Walk(d)[i])
  <2> SUFFICES ASSUME ~PlainIn(T), NEW i \in DOMAIN Walk(d), NEW j \in DOMAIN Walk(d), i < j,
                      Walk(d)[j] = T
               PROVE  ~EndIn(Walk(d)[i])
    OBVIOUS
  <2>1. Start(call.parent) /\ T \in OnChainIn(fat, call.parent)
    BY <1>0, <1>1, <1>8 DEF NewPlaced
  <2>2. T \in OnChainIn(fat, d) BY <1>9, SoundParts, WalkFacts
  <2>3. d = call.parent
    <3>1. First(fat, d) /\ First(fat, call.parent) BY <1>9, <2>1, TreeChains
    <3> QED BY <2>1, <2>2, <3>1, OnOneChain
  <2> QED BY <1>0, <1>1, <1>2, <1>7, <1>8, <1>9, <2>3 DEF NewPlaced
<1>10. EndsOrdered' BY <1>1, <1>4, <1>6, <1>9, EndsWritten DEF Arranged
<1>11. CASE EndCall BY <1>10, <1>11, ArrangedEnded
<1>12. CASE call.op = "rename" /\ pc' = "delete" /\ UNCHANGED call
  BY <1>10, <1>12 DEF Arranged, NameFree, NewPlaced, NewNamed
<1> QED BY <1>1, <1>11, <1>12

LEMMA ArrangedDeleteEntry ==
  ASSUME Sound, Sound', Arranged, ~WriteFails, DeleteEntry
  PROVE  Arranged'
<1>0. PICK T : T = call.old[1] OBVIOUS
<1>1. pc = "delete" /\ pc \in Writing /\ Written /\ UNCHANGED <<fat, raw>> /\ EndCall
  BY DEF DeleteEntry, WriteWorks, Writing
<1>2. PICK u : u = call.old[2] OBVIOUS
<1>3. /\ T \in Cluster /\ \A c \in Cluster : c # T => slots'[c] = slots[c]
      /\ slots'[T] = WithoutEntry(slots[T], u) /\ slots[T] = [t \in Slots |-> slots[T][t]]
  <2>1. EndsInv BY SoundParts
  <2>2. Target = T BY <1>0, <1>1 DEF Target
  <2>3. Content = WithoutEntry(slots[T], u) BY <1>1, <1>2, <2>2 DEF Content
  <2>4. T \in Cluster BY <1>1, <2>1, <2>2, SlotsWritten
  <2> QED BY <1>1, <2>1, <2>2, <2>3, <2>4, SlotsWritten, ClusterShape DEF EndsInv
<1>4. \A t \in Slots : slots'[T][t] = slots[T][t] \/ slots'[T][t] = Deleted
  BY <1>3 DEF WithoutEntry
<1>5. EndIn(T)' => EndIn(T)
  <2>1. Deleted.kind # "end" BY SlotKinds
  <2> QED BY <1>4, <2>1 DEF EndIn
<1>6. PlainIn(T)' => PlainIn(T)
  <2>1. ~IsEntry(Deleted) BY SlotKinds DEF IsEntry
  <2> QED BY <1>4, <2>1 DEF PlainIn
<1>7. EndsOrdered' BY <1>1, <1>3, <1>5, <1>6, EndsWritten DEF Arranged
<1> QED BY <1>1, <1>7, ArrangedEnded

\* What calls look for and where they put it stays right, as long as nothing fails.
LEMMA ArrangedStep ==
  ASSUME Sound, Sound', Arranged, [Next]_dirVars, faults' = 0, crashes' = 0
  PROVE  Arranged'
<1>1. faults = 0 /\ ~Fault /\ ~WriteFails /\ ~Crash BY NothingFailed, SoundParts
<1>2. CASE CallStarts
  <2>1. PICK d \in Directories :
          \/ \E n \in Names : CallMkdir(d, n) \/ CallOpen(d, n) \/ CallUnlink(d, n) \/ CallRename(d, n)
          \/ OpenDir(d)
    BY <1>2 DEF CallStarts
  <2>2. CASE OpenDir(d)
    <3>1. UNCHANGED <<fat, slots, raw, pc, call>> BY <2>2 DEF OpenDir
    <3> QED BY <3>1, ArrangedQuiet
  <2>3. CASE \E n \in Names : CallMkdir(d, n) \/ CallOpen(d, n) \/ CallUnlink(d, n) \/ CallRename(d, n)
    <3>1. PICK n \in Names : CallMkdir(d, n) \/ CallOpen(d, n) \/ CallUnlink(d, n) \/ CallRename(d, n)
      BY <2>3, Zenon
    <3>2. CASE CallMkdir(d, n) BY <1>1, <3>2, ArrangedMkdir
    <3>3. CASE CallOpen(d, n) BY <1>1, <3>3, ArrangedOpen
    <3>4. CASE CallUnlink(d, n) BY <3>4, ArrangedUnlink
    <3>5. CASE CallRename(d, n) BY <3>5, ArrangedRename
    <3> QED BY <3>1, <3>2, <3>3, <3>4, <3>5
  <2> QED BY <2>1, <2>2, <2>3
<1>3. CASE ReadStops \/ ReadEnds \/ ReadFails \/ CloseDir \/ ChangeDir
  <2>1. UNCHANGED <<fat, slots, raw, pc, call>>
    <3>1. CASE ReadStops BY <3>1, Zenon DEF ReadStops
    <3>2. CASE ReadEnds BY <1>1, <3>2 DEF ReadEnds
    <3>3. CASE ReadFails BY <3>3, Zenon DEF ReadFails
    <3>4. CASE CloseDir BY <3>4 DEF CloseDir
    <3>5. CASE ChangeDir BY <3>5 DEF ChangeDir
    <3> QED BY <1>3, <3>1, <3>2, <3>3, <3>4, <3>5
  <2> QED BY <2>1, ArrangedQuiet
<1>4. CASE UNCHANGED dirVars
  <2>1. UNCHANGED <<fat, slots, raw, pc, call>> BY <1>4 DEF dirVars
  <2> QED BY <2>1, ArrangedQuiet
<1>5. CASE PlaceFails \/ Restart
  <2>1. UNCHANGED <<fat, slots, raw>> /\ EndCall BY <1>5 DEF PlaceFails, Restart, Reboot
  <2> QED BY <2>1, ArrangedQuiet
<1>6. CASE CheckTarget BY <1>1, <1>6, ArrangedCheck
<1>7. CASE PlaceInside BY <1>7, ArrangedPlaceInside
<1>8. CASE PlaceBehind BY <1>1, <1>8, ArrangedPlaceBehind
<1>9. CASE ClearNew BY <1>1, <1>9, ArrangedClearNew
<1>10. CASE InitNew BY <1>1, <1>10, ArrangedInitNew
<1>11. CASE ClearExtension BY <1>1, <1>11, ArrangedClearExtension
<1>12. CASE WriteEntry BY <1>1, <1>12, ArrangedWriteEntry
<1>13. CASE DeleteEntry BY <1>1, <1>13, ArrangedDeleteEntry
<1> QED
  BY <1>1, <1>2, <1>3, <1>4, <1>5, <1>6, <1>7, <1>8, <1>9, <1>10, <1>11, <1>12, <1>13 DEF Next

LEMMA ArrangedInit == Init => Arranged
<1> SUFFICES ASSUME Init PROVE Arranged
  OBVIOUS
<1>1. pc = "idle" /\ call.op = "none" BY DEF Init, NoCall
<1>2. \A c \in Cluster, s \in Slots : slots[c][s] = EndMark BY DEF Init, EmptyCluster
<1>3. \A c \in Cluster : ~PlainIn(c) BY <1>2, SlotKinds DEF PlainIn, IsEntry
<1>4. EndsOrdered
  <2>1. Sound BY ReachInit DEF Sound, Init
  <2> QED BY <1>3, <2>1, SoundParts, WalkFacts DEF EndsOrdered
<1> QED BY <1>1, <1>4 DEF Arranged, NameFree, NewPlaced, NewNamed

\* A program stops at a tree it has broken, but for the mark that f_unlink makes.
TaintedQuiet ==
  tainted /\ faults = 0 /\ crashes = 0 =>
    pc = "idle" \/ (pc = "delete" /\ call.op = "unlink")

LEMMA UnlinkCalled ==
  ASSUME NEW d, NEW n, CallUnlink(d, n)
  PROVE  pc' = "delete" /\ call'.op = "unlink"
<1>1. PICK sl \in Looks(d), c \in Cluster, s \in Slots :
        /\ Finds(sl, d, n, c, s)
        /\ call' = [NoCall EXCEPT !.op = "unlink", !.dir = sl[c][s].dir,
                       !.first = sl[c][s].first, !.old = <<c, s>>]
  BY Zenon DEF CallUnlink
<1> QED BY <1>1 DEF NoCall, CallUnlink

LEMMA CallsTainted ==
  ASSUME ~tainted, faults = 0, faults' = 0, ~Fault, CallStarts, tainted'
  PROVE  pc' = "delete" /\ call'.op = "unlink"
<1>1. PICK d \in Directories :
        \/ \E n \in Names : CallMkdir(d, n) \/ CallOpen(d, n) \/ CallUnlink(d, n) \/ CallRename(d, n)
        \/ OpenDir(d)
  BY DEF CallStarts
<1>2. ~OpenDir(d) BY DEF OpenDir
<1>3. PICK n \in Names : CallMkdir(d, n) \/ CallOpen(d, n) \/ CallUnlink(d, n) \/ CallRename(d, n)
  BY <1>1, <1>2, Zenon
<1>4. ~CallMkdir(d, n) /\ ~CallOpen(d, n) BY DEF CallMkdir, CallOpen
<1>5. ~CallRename(d, n)
  <2> SUFFICES ASSUME CallRename(d, n) PROVE FALSE
    OBVIOUS
  <2>1. PICK sl \in Looks(d) : CountLook(sl) /\ tainted' = (tainted \/ sl # slots)
    BY Zenon DEF CallRename
  <2> QED BY <2>1, LookSeen
<1>6. CallUnlink(d, n) BY <1>3, <1>4, <1>5
<1> QED BY <1>6, UnlinkCalled

LEMMA TaintedStep ==
  ASSUME DirTypeInv, TaintedQuiet, [Next]_dirVars PROVE TaintedQuiet'
<1> SUFFICES ASSUME tainted', faults' = 0, crashes' = 0
             PROVE  pc' = "idle" \/ (pc' = "delete" /\ call'.op = "unlink")
  BY DEF TaintedQuiet
<1>1. faults = 0 /\ crashes = 0 /\ ~Fault /\ ~WriteFails /\ ~Crash BY NothingFailed
<1>2. CASE EndCall BY <1>2 DEF EndCall
<1>3. CASE tainted /\ UNCHANGED <<pc, call>> BY <1>1, <1>3 DEF TaintedQuiet
<1>4. CASE CallStarts
  <2>1. CASE tainted
    <3>1. \A op : ~Ready(op) BY <2>1 DEF Ready
    <3> QED BY <1>4, <3>1, Zenon DEF CallStarts, CallMkdir, CallOpen, CallUnlink, CallRename, OpenDir
  <2>2. CASE ~tainted BY <1>1, <1>4, <2>2, CallsTainted
  <2> QED BY <2>1, <2>2
<1>5. CASE ReadStops \/ ReadEnds \/ ReadFails \/ CloseDir \/ ChangeDir
  <2>1. ~tainted /\ tainted' = tainted
    <3>1. CASE ReadStops BY <3>1, Zenon DEF ReadStops, Ready
    <3>2. CASE ReadEnds BY <3>2 DEF ReadEnds, Ready
    <3>3. CASE ReadFails BY <3>3, Zenon DEF ReadFails, Ready
    <3>4. CASE CloseDir BY <3>4 DEF CloseDir, Ready
    <3>5. CASE ChangeDir BY <3>5 DEF ChangeDir, Ready
    <3> QED BY <1>5, <3>1, <3>2, <3>3, <3>4, <3>5
  <2> QED BY <2>1
<1>6. CASE UNCHANGED dirVars
  <2>1. UNCHANGED <<pc, call, tainted>> BY <1>6 DEF dirVars
  <2> QED BY <1>3, <2>1
<1>7. CASE ClearNew \/ InitNew \/ PlaceInside \/ PlaceBehind \/ ClearExtension \/ WriteEntry \/ CheckTarget
  <2>1. tainted' = tainted /\ pc \in {"clear", "init", "place", "extended", "entry", "check"}
    <3>1. CASE ClearNew \/ InitNew \/ WriteEntry BY <3>1 DEF ClearNew, InitNew, WriteEntry
    <3>2. CASE PlaceInside BY <3>2 DEF PlaceInside
    <3>3. CASE PlaceBehind BY <1>1, <3>3 DEF PlaceBehind
    <3>4. CASE ClearExtension BY <1>1, <3>4 DEF ClearExtension
    <3>5. CASE CheckTarget BY <3>5 DEF CheckTarget
    <3> QED BY <1>7, <3>1, <3>2, <3>3, <3>4, <3>5
  <2> QED BY <1>1, <2>1 DEF TaintedQuiet
<1>8. CASE PlaceFails \/ DeleteEntry \/ Restart
  <2>1. EndCall BY <1>8 DEF PlaceFails, DeleteEntry, Restart, Reboot
  <2> QED BY <1>2, <2>1
<1> QED BY <1>1, <1>4, <1>5, <1>6, <1>7, <1>8, Zenon DEF Next

StoreInv ==
  /\ ReachInv /\ Naming /\ TaintedQuiet
  /\ ~tainted /\ faults = 0 /\ crashes = 0 => Arranged

LEMMA StoreInvStep ==
  ASSUME StoreInv, [Next]_dirVars PROVE StoreInv'
<1>1. ReachInv' /\ Naming' BY ReachStep, NamingStep DEF StoreInv
<1>2. DirTypeInv BY DEF StoreInv, ReachInv
<1>3. TaintedQuiet' BY <1>2, TaintedStep DEF StoreInv
<1>4. ASSUME ~tainted', faults' = 0, crashes' = 0 PROVE Arranged'
  <2>1. ~tainted /\ faults = 0 /\ crashes = 0 BY <1>2, <1>4, TaintStays, NothingFailed
  <2>2. Sound /\ Sound' /\ Arranged BY <1>1, <1>4, <2>1 DEF StoreInv, Sound
  <2> QED BY <1>4, <2>2, ArrangedStep
<1> QED BY <1>1, <1>3, <1>4 DEF StoreInv

LEMMA StoreInvInit == Init => StoreInv
BY ReachInit, NamingInit, ArrangedInit DEF StoreInv, TaintedQuiet, Init

-----------------------------------------------------------------------------
(* The steps that keep the entries.                                        *)

\* The tree, as a function of what it depends on.
GrowsTo(sl, table, unwritten) ==
  LET grow[n \in 0 .. TotalClusters] ==
        IF n = 0 THEN {Root}
        ELSE grow[n - 1] \cup
             {sl[p[1]][p[2]].first : p \in
                {q \in (Cluster \ unwritten) \X Slots :
                   /\ IsDirEntry(sl[q[1]][q[2]])
                   /\ \E d \in grow[n - 1] : q[1] \in OnChainIn(table, d)}}
  IN  grow[TotalClusters]

TreeGrown == Tree = GrowsTo(Unlinked, fat, raw)

LEMMA TreeGrows == TreeGrown
BY Zenon DEF TreeGrown, GrowsTo, Tree, BelowIn

LEMMA TreeGrownNext == TreeGrown'
BY TreeGrows, PTL

LEMMA SameUnlinked ==
  ASSUME UNCHANGED <<fat, raw, Unlinked>> PROVE Entries' = Entries
<1>1. \A d : EntriesOf(d)' = EntriesOf(d) BY Zenon DEF EntriesOf
<1>2. Tree' = GrowsTo(Unlinked', fat', raw') BY TreeGrownNext DEF TreeGrown
<1>3. Tree' = Tree BY <1>2, TreeGrows DEF TreeGrown
<1> QED BY <1>1, <1>3, Zenon DEF Entries

LEMMA UnlinkedKept ==
  ASSUME UNCHANGED slots, ~(pc = "delete" /\ call.op = "unlink"),
         ~(pc' = "delete" /\ call'.op = "unlink")
  PROVE  Unlinked' = Unlinked
BY Zenon DEF Unlinked

\* f_unlink marks what it has taken away before.
LEMMA EntriesMarked ==
  ASSUME pc = "delete", call.op = "unlink", DeleteEntry, ~WriteFails
  PROVE  Entries' = Entries
<1>1. slots' = [slots EXCEPT ![Target] = Content] /\ UNCHANGED <<fat, raw>> /\ pc' = "idle"
  BY DEF DeleteEntry, WriteWorks, Written, EndCall
<1>2. Unlinked' = Unlinked BY <1>1 DEF Unlinked
<1> QED BY <1>1, <1>2, SameUnlinked

LEMMA EntriesTainted ==
  ASSUME DirTypeInv, TaintedQuiet, tainted, [Next]_dirVars, faults' = 0, crashes' = 0
  PROVE  Entries' = Entries
<1>1. faults = 0 /\ crashes = 0 /\ ~Fault /\ ~WriteFails /\ ~Crash BY NothingFailed
<1>2. pc = "idle" \/ (pc = "delete" /\ call.op = "unlink") BY <1>1 DEF TaintedQuiet
<1>3. \A op : ~Ready(op) BY DEF Ready
<1>4. DeleteEntry \/ Restart \/ UNCHANGED dirVars
  <2>1. ~CallStarts
    BY <1>3, Zenon DEF CallStarts, CallMkdir, CallOpen, CallUnlink, CallRename, OpenDir
  <2>2. ~ReadStops /\ ~ReadEnds /\ ~ReadFails /\ ~CloseDir /\ ~ChangeDir
    <3>1. ~ReadStops BY <1>3 DEF ReadStops
    <3>2. ~ReadEnds BY <1>3 DEF ReadEnds
    <3>3. ~ReadFails BY <1>3 DEF ReadFails
    <3>4. ~CloseDir BY <1>3 DEF CloseDir
    <3>5. ~ChangeDir
      <4>1. CASE ChangeDir BY <1>3, <4>1 DEF ChangeDir
      <4> QED BY <4>1
    <3> QED BY <3>1, <3>2, <3>3, <3>4, <3>5
  <2>3. ~ClearNew /\ ~InitNew /\ ~PlaceInside /\ ~PlaceBehind /\ ~PlaceFails
    BY <1>2 DEF ClearNew, InitNew, PlaceInside, PlaceBehind, PlaceFails
  <2>4. ~ClearExtension /\ ~WriteEntry /\ ~CheckTarget
    BY <1>2 DEF ClearExtension, WriteEntry, CheckTarget
  <2> QED BY <1>1, <2>1, <2>2, <2>3, <2>4, Zenon DEF Next
<1>5. CASE DeleteEntry
  <2>1. pc = "delete" /\ call.op = "unlink" BY <1>2, <1>5 DEF DeleteEntry
  <2> QED BY <1>1, <1>5, <2>1, EntriesMarked
<1>6. CASE Restart
  <2>1. UNCHANGED <<fat, slots, raw>> /\ pc = "idle" /\ pc' = "idle"
    BY <1>6 DEF Restart, Reboot, EndCall
  <2> QED BY <2>1, UnlinkedKept, SameUnlinked
<1>7. CASE UNCHANGED dirVars
  <2>1. UNCHANGED <<fat, slots, raw, pc, call>> BY <1>7 DEF dirVars
  <2>2. Unlinked' = Unlinked BY <2>1, Zenon DEF Unlinked, Target, Content
  <2> QED BY <2>1, <2>2, SameUnlinked
<1> QED BY <1>4, <1>5, <1>6, <1>7

LEMMA EntriesStill ==
  ASSUME Sound, Sound', \A d : Start(d) => EntriesOf(d)' = EntriesOf(d)
  PROVE  Entries' = Entries
<1>1. TreeLeast /\ \A d \in Tree : Start(d) BY SoundTree
<1>2. TreeLeast' BY SoundHoldsNext DEF SoundFacts
<1> QED BY <1>1, <1>2, SameEntries

\* A cluster is taken: nothing counts in it yet.
LEMMA EntriesGrown ==
  ASSUME Sound, Sound', OneMore, UNCHANGED slots, Unlinked = slots, Unlinked' = slots',
         NEW e \in Cluster, fat[e] = FREE, raw' = raw \cup {e},
         \A x \in Cluster : x # e /\ fat[x] = FREE => fat'[x] = FREE
  PROVE  Entries' = Entries
<1> SUFFICES ASSUME NEW d, Start(d) PROVE EntriesOf(d)' = EntriesOf(d)
  BY EntriesStill
<1>1. /\ IsTable(fat) /\ LinksSound /\ OnChainIn(fat, d) \subseteq Cluster
      /\ \A c, s : Holds(d, c, s) => c \in InUse
  BY SoundParts, TreeChains
<1>2. OnChainIn(fat, d) \subseteq OnChainIn(fat', d) /\ OnChainIn(fat', d) \subseteq OnChainIn(fat, d) \cup {e}
  <2>1. PICK g : g = fat' OBVIOUS
  <2>2. CASE ChainIn(g, d) = ChainIn(fat, d) BY <2>1, <2>2 DEF OnChainIn
  <2>3. CASE \E x \in Cluster : /\ fat[x] = FREE /\ fat'[x] = EndOfChain
                                /\ ChainIn(g, d) = Append(ChainIn(fat, d), x)
    <3>1. PICK x \in Cluster : /\ fat[x] = FREE /\ fat'[x] = EndOfChain
                               /\ ChainIn(g, d) = Append(ChainIn(fat, d), x)
      BY <2>3
    <3>2. x = e
      <4>1. FREE # EndOfChain BY TableNumbers DEF FREE
      <4> QED BY <3>1, <4>1
    <3> DEFINE v == ChainIn(fat, d)
               w == ChainIn(g, d)
    <3>3. v \in Seq(Cluster)
      <4>1. d \in Entry BY TableNumbers DEF Start, InUse
      <4> QED BY <1>1, <4>1, ChainType
    <3>4. OnChainIn(fat, d) = {v[i] : i \in DOMAIN v} /\ OnChainIn(g, d) = {w[i] : i \in DOMAIN w}
      BY DEF OnChainIn
    <3>5. w = Append(v, e) BY <3>1, <3>2
    <3> HIDE DEF v, w
    <3>6. /\ DOMAIN v = 1 .. Len(v) /\ Len(v) \in Nat /\ DOMAIN w = 1 .. Len(v) + 1
          /\ w[Len(v) + 1] = e /\ \A k \in 1 .. Len(v) : w[k] = v[k]
      BY <3>3, <3>5, SMT
    <3>7. \A k \in DOMAIN w : k \in DOMAIN v \/ k = Len(v) + 1 BY <3>6, SMT
    <3>8. \A k \in DOMAIN v : k \in DOMAIN w BY <3>6, SMT
    <3> QED BY <2>1, <3>4, <3>6, <3>7, <3>8
  <2> QED BY <1>1, <2>1, <2>2, <2>3, ChainGrows
<1>3. \A c, s : Holds(d, c, s) => c # e BY <1>1 DEF InUse
<1>4. ASSUME NEW c, NEW s, Holds(d, c, s) PROVE Holds(d, c, s)' /\ Unlinked'[c][s] = Unlinked[c][s]
  BY <1>2, <1>3, <1>4 DEF Holds
<1>5. ASSUME NEW c, NEW s, Holds(d, c, s)' PROVE Holds(d, c, s)
  BY <1>2, <1>5 DEF Holds
<1> QED BY <1>4, <1>5, EntriesKept

\* A cluster is written in which nothing counted, nor does now.
LEMMA EntriesBlank ==
  ASSUME Sound, Sound', UNCHANGED fat, Unlinked = slots, Unlinked' = slots', NEW T \in Cluster,
         T \in raw, raw' \in {raw, raw \ {T}}, \A c \in Cluster : c # T => slots'[c] = slots[c],
         T \in raw' \/ \A s \in Slots : ~IsEntry(slots'[T][s])
  PROVE  Entries' = Entries
<1> SUFFICES ASSUME NEW d, Start(d) PROVE EntriesOf(d)' = EntriesOf(d)
  BY EntriesStill
<1>1. OnChainIn(fat, d) \subseteq Cluster BY TreeChains
<1>2. ASSUME NEW c, NEW s, Holds(d, c, s) PROVE Holds(d, c, s)' /\ Unlinked'[c][s] = Unlinked[c][s]
  BY <1>1, <1>2 DEF Holds
<1>3. ASSUME NEW c, NEW s, Holds(d, c, s)' PROVE Holds(d, c, s)
  <2>1. c # T BY <1>3 DEF Holds
  <2> QED BY <1>1, <1>3, <2>1 DEF Holds
<1> QED BY <1>2, <1>3, EntriesKept

LEMMA EntriesMkdir ==
  ASSUME Sound, Sound', NEW d \in Directories, NEW n \in Names, CallMkdir(d, n)
  PROVE  Entries' = Entries
<1> DEFINE new == Allocate(fat, hint, 1)
<1>1. pc = "idle" /\ new.ok /\ fat' = new.fat /\ pc' = "clear" /\ UNCHANGED slots
  BY Zenon DEF CallMkdir, Ready, Sound
<1>2. PICK e \in Cluster : e = new.first /\ raw' = raw \cup {e} BY Zenon DEF CallMkdir
<1> HIDE DEF new
<1>3. IsTable(fat) /\ hint \in Cluster /\ TreeSoundness /\ TreeInv /\ NamesInv'
  <2>1. TreeInv' BY DEF Sound, ReachInv, DirTypeInv
  <2> QED BY <2>1, SoundParts DEF TreeInv
<1>4. fat[e] = FREE /\ \A c \in FatIndex : c # e => fat'[c] = fat[c]
  BY <1>1, <1>2, <1>3, OneTaken DEF new
<1>5. OneMore
  <2>1. Start(d) BY <1>1, <1>3, DirectoriesStart
  <2> QED BY <1>3, <2>1, TreeMkdir DEF Sound
<1>6. Unlinked = slots /\ Unlinked' = slots' BY <1>1 DEF Unlinked
<1>7. \A x \in Cluster : x # e /\ fat[x] = FREE => fat'[x] = FREE BY <1>4, TableNumbers
<1> QED BY <1>1, <1>2, <1>4, <1>5, <1>6, <1>7, EntriesGrown

LEMMA EntriesPlaceBehind ==
  ASSUME Sound, Sound', PlaceBehind PROVE Entries' = Entries
<1>1. pc = "place" /\ pc' = "extended" /\ UNCHANGED slots BY DEF PlaceBehind
<1>2. OneMore BY Extended
<1>3. PICK e \in Cluster, l \in Cluster :
        /\ raw' = raw \cup {e} /\ fat[e] = FREE /\ fat[l] # FREE
        /\ \A c \in FatIndex : c # e /\ c # l => fat'[c] = fat[c]
  BY Extended
<1>4. Unlinked = slots /\ Unlinked' = slots' BY <1>1 DEF Unlinked
<1>5. \A x \in Cluster : x # e /\ fat[x] = FREE => fat'[x] = FREE BY <1>3, TableNumbers
<1> QED BY <1>1, <1>2, <1>3, <1>4, <1>5, EntriesGrown

LEMMA EntriesClearNew ==
  ASSUME Sound, Sound', ~WriteFails, ClearNew PROVE Entries' = Entries
<1>1. pc = "clear" /\ pc' = "init" /\ Written /\ UNCHANGED <<fat, raw>> /\ pc \in Writing
  BY DEF ClearNew, WriteWorks, Writing
<1>2. PICK T \in Cluster : T \in raw /\ \A c \in Cluster : c # T => slots'[c] = slots[c]
  <2>1. EndsInv BY SoundParts
  <2>2. Target = call.first BY <1>1 DEF Target
  <2> QED BY <1>1, <2>1, <2>2, SlotsWritten DEF EndsInv, NewClusterRaw
<1>3. Unlinked = slots /\ Unlinked' = slots' BY <1>1 DEF Unlinked
<1> QED BY <1>1, <1>2, <1>3, EntriesBlank

LEMMA EntriesInitNew ==
  ASSUME Sound, Sound', ~WriteFails, InitNew PROVE Entries' = Entries
<1>0. PICK T : T = call.first OBVIOUS
<1>1. pc = "init" /\ pc' = "place" /\ Written /\ UNCHANGED fat /\ pc \in Writing /\ raw' = raw \ {T}
  BY <1>0 DEF InitNew, WriteWorks, Writing
<1>2. /\ T \in Cluster /\ T \in raw /\ \A c \in Cluster : c # T => slots'[c] = slots[c]
      /\ slots'[T] = NewDirectory(T, call.parent)
  <2>1. EndsInv BY SoundParts
  <2>2. Target = T /\ Content = NewDirectory(T, call.parent)
    BY <1>0, <1>1 DEF Target, Content
  <2> QED BY <1>0, <1>1, <2>1, <2>2, SlotsWritten DEF EndsInv, NewClusterRaw
<1>3. \A s \in Slots : ~IsEntry(slots'[T][s]) BY <1>2, NewDirectorySlots
<1>4. Unlinked = slots /\ Unlinked' = slots' BY <1>1 DEF Unlinked
<1> QED BY <1>1, <1>2, <1>3, <1>4, EntriesBlank

LEMMA EntriesClearExtension ==
  ASSUME Sound, Sound', ~WriteFails, ClearExtension PROVE Entries' = Entries
<1>0. PICK T : T = call.at[1] OBVIOUS
<1>1. pc = "extended" /\ pc' = "entry" /\ Written /\ UNCHANGED fat /\ pc \in Writing
      /\ raw' = raw \ {T}
  BY <1>0 DEF ClearExtension, WriteWorks, Writing
<1>2. /\ T \in Cluster /\ T \in raw /\ \A c \in Cluster : c # T => slots'[c] = slots[c]
      /\ slots'[T] = EmptyCluster
  <2>1. EndsInv BY SoundParts
  <2>2. Target = T /\ Content = EmptyCluster BY <1>0, <1>1 DEF Target, Content
  <2> QED BY <1>0, <1>1, <2>1, <2>2, SlotsWritten DEF EndsInv, NewClusterRaw
<1>3. \A s \in Slots : ~IsEntry(slots'[T][s]) BY <1>2, SlotKinds DEF EmptyCluster, IsEntry
<1>4. Unlinked = slots /\ Unlinked' = slots' BY <1>1 DEF Unlinked
<1> QED BY <1>1, <1>2, <1>3, <1>4, EntriesBlank

-----------------------------------------------------------------------------
(* The steps that take an entry away.                                      *)

\* What the rest of the entries leads to.
LEMMA RestWithin ==
  ASSUME Sound, NEW rest, rest \subseteq Entries, NEW X \in SUBSET Cluster, Root \in X,
         \A x \in rest : x.dir \in X => x.what \in X \cup {None}
  PROVE  Store!Reached(rest) \subseteq X
<1>1. \A x \in Entries : x.dir \in Cluster /\ x.what \in Cluster \cup {None}
  BY SoundTree, EntriesLead
<1>2. \A x \in rest : x.dir \in Cluster /\ x.what \in Cluster \cup {None} BY <1>1
<1> QED BY <1>2, ReachedLeast

LEMMA EntriesInTree ==
  ASSUME Sound, NEW x \in Entries
  PROVE  /\ x.dir \in Tree /\ x.what \in Tree \cup {None}
         /\ \E c, s : Holds(x.dir, c, s) /\ x = EntryAt(x.dir, c, s)
<1>1. x.dir \in Tree /\ x \in EntriesOf(x.dir) BY EntriesDir
<1>2. TreeLeast BY SoundTree
<1> QED BY <1>1, <1>2, HeldEntries DEF TreeLeast, HoldsAll, EntriesHeld

\* The least tree, after a step.
LeastTree == IsTable(fat) /\ Sorted => TreeLeast

LEMMA LeastTreeNext == LeastTree'
<1>1. LeastTree BY TreeIsLeast DEF LeastTree
<1> QED BY <1>1, PTL

LEMMA EntryTaken ==
  ASSUME Sound, IsTable(fat)', UNCHANGED raw, NEW c \in Cluster, NEW s \in Slots,
         \A x \in Cluster, t \in Slots :
           Unlinked'[x][t] = IF x = c /\ t = s THEN Deleted ELSE Unlinked[x][t],
         NEW R, R = Store!Reached({x \in Entries : x.at # <<c, s>>}),
         \A d \in R : OnChainIn(fat', d) = OnChainIn(fat, d)
  PROVE  Entries' = Entries \/ Store!Next
<1>0. PICK old : old = <<c, s>> OBVIOUS
<1>1. PICK rest : rest = {x \in Entries : x.at # old} OBVIOUS
<1>2. TreeLeast /\ \A d \in Tree : Start(d) /\ d \in Cluster BY SoundTree
<1>3. ~IsEntry(Deleted) BY SlotKinds DEF IsEntry
<1>4. Sorted'
  <2> SUFFICES ASSUME NEW x \in Cluster \ raw, NEW t \in Slots, IsEntry(Unlinked'[x][t])
               PROVE  IF Unlinked'[x][t].dir THEN Unlinked'[x][t].first \in Cluster
                      ELSE Unlinked'[x][t].first = None
    BY DEF Sorted
  <2>1. Unlinked'[x][t] = Unlinked[x][t] BY <1>3
  <2>2. IsEntry(Unlinked[x][t]) BY <2>1
  <2>3. IF Unlinked[x][t].dir THEN Unlinked[x][t].first \in Cluster
        ELSE Unlinked[x][t].first = None
    BY <2>2, EntryNames DEF Begun, Start, InUse
  <2> QED BY <2>1, <2>3
<1>5. TreeLeast' BY <1>4, LeastTreeNext DEF LeastTree
<1>6. R \subseteq Tree
  <2>1. \A x \in rest : x.what \in Tree \cup {None} BY <1>1, EntriesInTree
  <2>2. rest \subseteq Entries /\ R = Store!Reached(rest) BY <1>0, <1>1
  <2>3. Tree \in SUBSET Cluster /\ Root \in Tree BY <1>2 DEF TreeLeast
  <2> QED BY <2>1, <2>2, <2>3, RestWithin
<1>7. ASSUME NEW d \in R PROVE EntriesOf(d)' = {x \in EntriesOf(d) : x.at # old}
  <2>1. OnChainIn(fat, d) \subseteq Cluster BY <1>2, <1>6, TreeChains
  <2>2. \A x, t : <<x, t>> # old <=> ~(x = c /\ t = s)
    <3>1. \A x, t : <<x, t>> # <<c, s>> <=> ~(x = c /\ t = s) BY Zenon
    <3> QED BY <1>0, <3>1
  <2>3. ASSUME NEW x, NEW t, Holds(d, x, t), <<x, t>> # old
        PROVE  Holds(d, x, t)' /\ Unlinked'[x][t] = Unlinked[x][t]
    BY <2>1, <2>2, <2>3 DEF Holds
  <2>4. ASSUME NEW x, NEW t, Holds(d, x, t)' PROVE Holds(d, x, t) /\ <<x, t>> # old
    <3>1. x \in Cluster /\ t \in Slots /\ IsEntry(Unlinked'[x][t]) BY <2>1, <2>4 DEF Holds
    <3>2. ~(x = c /\ t = s) BY <1>3, <3>1
    <3> QED BY <2>2, <2>4, <3>1, <3>2 DEF Holds
  <2>5. PICK none : none = {} OBVIOUS
  <2>6. EntriesOf(d)' = {x \in EntriesOf(d) : x.at # old} \cup none
    <3>1. \A x, t : Holds(d, x, t) /\ <<x, t>> # old =>
                       Holds(d, x, t)' /\ Unlinked'[x][t] = Unlinked[x][t]
      BY <2>3
    <3>2. \A x, t : Holds(d, x, t)' => \/ Holds(d, x, t) /\ <<x, t>> # old
                                      \/ EntryAt(d, x, t)' \in none
      BY <2>4
    <3>3. \A x \in none : x \in EntriesOf(d)' BY <2>5
    <3> QED BY <3>1, <3>2, <3>3, EntriesChange
  <2> QED BY <2>5, <2>6
<1>8. Entries' = {x \in rest : x.dir \in R}
  <2>1. R = Store!Reached(rest) BY <1>0, <1>1
  <2>2. \A d \in R : \A x : x \in EntriesOf(d)' <=> x \in EntriesOf(d) /\ x.at # old BY <1>7
  <2>3. \A x : x \in rest <=> x \in Entries /\ x.at # old BY <1>1
  <2>4. \A x : x \in Entries' <=> x \in rest /\ x.dir \in R
    BY <1>2, <1>5, <2>1, <2>2, <2>3, EntryRemoved
  <2> QED BY <2>4
<1>9. CASE \A x \in Entries : x.at # old
  <2>1. rest = Entries BY <1>1, <1>9
  <2>2. R = Tree BY <1>0, <1>1, <1>2, <2>1, EntriesLead
  <2>3. \A x \in Entries : x.dir \in Tree BY EntriesInTree
  <2> QED BY <1>8, <2>1, <2>2, <2>3
<1>10. CASE \E x \in Entries : x.at = old
  <2>1. PICK x0 \in Entries : x0.at = old BY <1>10
  <2>2. rest = Entries \ {x0} BY <1>1, <2>1, PlaceTells
  <2>5. R = Store!Reached(Entries \ {x0}) BY <1>0, <1>1, <2>2
  <2>3. Store!Remove(x0) BY <1>8, <2>2, <2>5, Zenon DEF Store!Remove
  <2>4. x0 \in Entries \ Entries' BY <1>8, <2>1, <2>2
  <2> QED BY <2>3, <2>4, Zenon DEF Store!Next
<1> QED BY <1>9, <1>10

\* The slots without the entry that f_unlink is to mark, after a step.
UnlinkedFacts ==
  EndsInv /\ call \in CallType =>
    \A c \in Cluster, s \in Slots :
      Unlinked[c][s] = IF BeingUnlinked(c, s) THEN Deleted ELSE slots[c][s]

LEMMA UnlinkedNext == UnlinkedFacts'
<1>1. UnlinkedFacts BY UnlinkedSlots DEF UnlinkedFacts
<1> QED BY <1>1, PTL

\* f_rename marks the old entry.
LEMMA EntriesDelete ==
  ASSUME Sound, DirTypeInv', ~WriteFails, DeleteEntry, call.op # "unlink"
  PROVE  Entries' = Entries \/ Store!Next
<1>1. pc = "delete" /\ pc \in Writing /\ Written /\ UNCHANGED <<fat, raw>> /\ pc' = "idle"
  BY DEF DeleteEntry, WriteWorks, Writing, EndCall
<1>2. PICK c, s : c = call.old[1] /\ s = call.old[2] OBVIOUS
<1>3. /\ c \in Cluster /\ s \in Slots /\ \A x \in Cluster : x # c => slots'[x] = slots[x]
      /\ slots'[c] = [slots[c] EXCEPT ![s] = Deleted] /\ slots[c] = [t \in Slots |-> slots[c][t]]
  <2>1. EndsInv BY SoundParts
  <2>2. Target = c /\ Content = [slots[c] EXCEPT ![s] = Deleted]
    BY <1>1, <1>2 DEF Target, Content, WithoutEntry
  <2>3. c \in Cluster /\ s \in Slots BY <1>1, <1>2, <2>1, OldInCluster DEF HasOld
  <2> QED BY <1>1, <2>1, <2>2, <2>3, SlotsWritten, ClusterShape DEF EndsInv
<1>4. Unlinked = slots /\ Unlinked' = slots' BY <1>1 DEF Unlinked
<1>5. \A x \in Cluster, t \in Slots :
        Unlinked'[x][t] = IF x = c /\ t = s THEN Deleted ELSE Unlinked[x][t]
  BY <1>3, <1>4
<1>6. IsTable(fat)' BY DEF DirTypeInv, TreeInv
<1>7. PICK R : R = Store!Reached({x \in Entries : x.at # <<c, s>>}) OBVIOUS
<1>8. \A d \in R : OnChainIn(fat', d) = OnChainIn(fat, d) BY <1>1
<1> QED BY <1>1, <1>3, <1>5, <1>6, <1>7, <1>8, EntryTaken

\* What f_unlink finds is gone when its chain is freed.
LEMMA EntriesUnlink ==
  ASSUME Sound, DirTypeInv', OneEntry, faults = 0, faults' = 0,
         NEW d \in Directories, NEW n \in Names, CallUnlink(d, n)
  PROVE  Entries' = Entries \/ Store!Next
<1>1. pc = "idle" /\ pc' = "delete" /\ UNCHANGED <<slots, raw>> BY DEF CallUnlink, Ready
<1>2. PICK sl \in Looks(d), c \in Cluster, s \in Slots :
        /\ Finds(sl, d, n, c, s)
        /\ call' = [NoCall EXCEPT !.op = "unlink", !.dir = sl[c][s].dir,
                       !.first = sl[c][s].first, !.old = <<c, s>>]
        /\ fat' = IF sl[c][s].first = None THEN fat ELSE Release(fat, sl[c][s].first)
        /\ CountLook(sl)
  BY Zenon DEF CallUnlink
<1>3. sl = slots BY <1>2, LookSeen
<1>4. call'.op = "unlink" /\ call'.old = <<c, s>> BY <1>2 DEF NoCall
<1>5. /\ IsTable(fat) /\ LinksSound /\ TreeSoundness /\ EndsInv /\ call \in CallType
      /\ slots[Root][1].name # "." /\ Start(Root)
  BY SoundParts
<1>6. c \in InUse /\ IsEntry(slots[c][s])
  <2>1. Start(d) BY <1>1, <1>5, DirectoriesStart
  <2> QED BY <1>1, <1>2, <1>3, <1>5, <2>1, FoundEntry
<1>7. \A x, t : ~BeingUnlinked(x, t) /\ (BeingUnlinked(x, t)' <=> x = c /\ t = s)
  <2>1. \A x, t : <<c, s>> = <<x, t>> <=> x = c /\ t = s BY Zenon
  <2> QED BY <1>1, <1>4, <2>1 DEF BeingUnlinked
<1>8. Unlinked = slots BY <1>1 DEF Unlinked
<1>9. IsTable(fat)' /\ EndsInv' /\ (call \in CallType)'
  BY DEF DirTypeInv, TreeInv, NamesInv, CallTyped
<1>10. \A x \in Cluster, t \in Slots :
         Unlinked'[x][t] = IF x = c /\ t = s THEN Deleted ELSE Unlinked[x][t]
  <2>1. \A x \in Cluster, t \in Slots :
          Unlinked'[x][t] = IF BeingUnlinked(x, t)' THEN Deleted ELSE slots'[x][t]
    BY <1>9, UnlinkedNext DEF UnlinkedFacts
  <2> QED BY <1>1, <1>7, <1>8, <2>1
<1>11. PICK rest : rest = {x \in Entries : x.at # <<c, s>>} OBVIOUS
<1>12. PICK R : R = Store!Reached(rest) OBVIOUS
<1>13. PICK f : f = slots[c][s].first OBVIOUS
<1>14. IF slots[c][s].dir THEN IsDirEntry(slots[c][s]) /\ Begun(f) ELSE f = None
  BY <1>6, <1>8, <1>13, EntryNames DEF InUse
<1>15. ASSUME NEW x \in R PROVE OnChainIn(fat', x) = OnChainIn(fat, x)
  <2>1. CASE f = None BY <1>2, <1>3, <1>13, <2>1
  <2>2. CASE f # None
    <3>1. IsDirEntry(slots[c][s]) /\ Begun(f) BY <1>14, <2>2
    <3>2. fat' = Release(fat, f) BY <1>2, <1>3, <1>13, <2>2
    <3>3. TreeLeast /\ \A e \in Tree : Start(e) BY SoundTree
    <3>4. Root # f
      <4>1. slots[f][1] = ShortSlot(".", TRUE, f) BY <3>1 DEF Begun
      <4>2. ShortSlot(".", TRUE, f).name = "." BY SlotKinds, Zenon
      <4> QED BY <1>5, <4>1, <4>2, Zenon
    <3>5. ASSUME NEW e \in rest PROVE e.what # f
      <4>1. e \in Entries /\ e.at # <<c, s>> BY <1>11
      <4>2. PICK y, t : Holds(e.dir, y, t) /\ e = EntryAt(e.dir, y, t) BY <4>1, EntriesInTree
      <4>3. y \in InUse /\ y \in Cluster /\ t \in Slots /\ IsEntry(slots[y][t])
        BY <1>8, <3>3, <4>1, <4>2, EntriesInTree, TreeChains DEF Holds, InUse
      <4>4. e.at = <<y, t>> /\ e.what = slots[y][t].first BY <1>8, <4>2, EntryFields
      <4> SUFFICES ASSUME slots[y][t].first = f PROVE FALSE
        BY <4>4
      <4>5. IsDirEntry(slots[y][t])
        <5>1. IF slots[y][t].dir THEN IsDirEntry(slots[y][t]) ELSE slots[y][t].first = None
          BY <1>8, <4>3, EntryNames
        <5> QED BY <2>2, <5>1
      <4>6. <<y, t>> # <<c, s>> BY <4>1, <4>4
      <4>7. c \in Cluster /\ s \in Slots OBVIOUS
      <4>8. pc = "delete" BY <1>13, <3>1, <4>3, <4>5, <4>6, <4>7, Zenon DEF OneEntry
      <4> QED BY <1>1, <4>8
    <3>6. R \subseteq Tree \ {f}
      <4>1. rest \subseteq Entries BY <1>11
      <4>2. \A e \in rest : e.what \in (Tree \ {f}) \cup {None} BY <3>5, <4>1, EntriesInTree
      <4>3. Tree \ {f} \in SUBSET Cluster /\ Root \in Tree \ {f} BY <3>3, <3>4 DEF TreeLeast
      <4> QED BY <1>12, <4>1, <4>2, <4>3, RestWithin
    <3>7. Start(x) /\ x # f /\ Start(f) BY <3>1, <3>3, <3>6 DEF Begun
    <3>8. ChainIn(fat', x) = ChainIn(fat, x) BY <1>5, <3>2, <3>7, ChainSpared
    <3> QED BY <3>8 DEF OnChainIn
  <2> QED BY <2>1, <2>2
<1>16. R = Store!Reached({x \in Entries : x.at # <<c, s>>}) BY <1>11, <1>12
<1> QED BY <1>1, <1>9, <1>10, <1>15, <1>16, EntryTaken

-----------------------------------------------------------------------------
(* The step that adds an entry.                                            *)

NewEntry == [at |-> NewPlace, dir |-> call.parent, name |-> call.name, what |-> call.first]

\* The slots of the cluster where the new entry is written.
LEMMA SlotsBrought ==
  ASSUME Sound, ~WriteFails, WriteEntry
  PROVE  \E T \in InUse, b \in Slots :
           /\ T = call.at[1] /\ NewPlace = <<T, b>> /\ call.name \in Names /\ T \notin raw
           /\ IsFree(slots[T][b])
           /\ \A c \in Cluster : c # T => slots'[c] = slots[c]
           /\ IsEntry(slots'[T][b]) /\ slots'[T][b].name = call.name
           /\ slots'[T][b].dir = call.dir /\ slots'[T][b].first = call.first
           /\ \A t \in Slots : t # b =>
                (slots'[T][t] = slots[T][t]) \/ (~IsEntry(slots'[T][t]) /\ ~IsEntry(slots[T][t]))
<1>0. PICK T : T = call.at[1] OBVIOUS
<1>1. pc = "entry" /\ pc \in Writing /\ Written BY DEF WriteEntry, WriteWorks, Writing
<1>2. EndsInv /\ NewEntrySound BY SoundParts
<1>3. PICK a \in Slots, n \in Names : a = call.at[2] /\ n = call.name
  BY <1>1, <1>2 DEF EndsInv, RoomKept, NameGiven
<1>4. T \in InUse /\ T \in Cluster /\ T \notin raw BY <1>0, <1>1, <1>2 DEF NewEntrySound, InUse
<1>5. PICK dir, first : dir = call.dir /\ first = call.first OBVIOUS
<1>6. /\ \A c \in Cluster : c # T => slots'[c] = slots[c]
      /\ slots'[T] = WithEntry(slots[T], a, n, dir, first)
  <2>1. Target = T /\ Content = WithEntry(slots[T], a, n, dir, first)
    BY <1>0, <1>1, <1>3, <1>5 DEF Target, Content
  <2> QED BY <1>1, <1>2, <2>1, SlotsWritten
<1>7. Room(slots[T], a, n) BY <1>0, <1>1, <1>2, <1>3, <1>4 DEF EndsInv, RoomKept
<1>8. PICK b : b = a + Pieces[n] OBVIOUS
<1>9. /\ b \in Slots /\ b \in a .. a + Pieces[n] /\ b \notin a .. a + Pieces[n] - 1
      /\ \A t \in a .. a + Pieces[n] - 1 : t \in a .. a + Pieces[n]
  BY <1>7, <1>8, SlotsFacts, SMT DEF Room
<1>10. IsFree(slots[T][b]) BY <1>7, <1>9 DEF Room
<1>11. PICK new : new = slots'[T][b] OBVIOUS
<1>12. new.kind = "short" /\ new.name = n /\ new.dir = dir /\ new.first = first
  <2>1. new = WithEntry(slots[T], a, n, dir, first)[b] BY <1>6, <1>11
  <2> QED BY <1>8, <1>9, <2>1, EntryShort
<1>13. IsEntry(new) BY <1>12 DEF IsEntry
<1>14. ASSUME NEW t \in Slots, t # b
       PROVE  (slots'[T][t] = slots[T][t]) \/ (~IsEntry(slots'[T][t]) /\ ~IsEntry(slots[T][t]))
  <2>1. CASE t \in a .. a + Pieces[n] - 1
    <3>1. slots'[T][t] = LongSlot(n, a + Pieces[n] - t) BY <1>6, <2>1 DEF WithEntry
    <3>2. slots'[T][t].kind = "long"
      <4>1. LongSlot(n, a + Pieces[n] - t).kind = "long" BY SlotKinds, Zenon
      <4> QED BY <3>1, <4>1, Zenon
    <3>3. IsFree(slots[T][t]) BY <1>7, <1>9, <2>1 DEF Room
    <3>4. ~IsEntry(slots[T][t]) BY <3>3 DEF IsFree, IsEntry
    <3> QED BY <3>2, <3>4, KindsFree
  <2>2. CASE t \notin a .. a + Pieces[n] - 1
    <3>1. slots'[T][t] = slots[T][t] BY <1>6, <1>8, <1>14, <2>2 DEF WithEntry
    <3> QED BY <3>1
  <2> QED BY <2>1, <2>2
<1>15. NewPlace = <<T, b>> BY <1>0, <1>3, <1>8 DEF NewPlace
<1> QED BY <1>0, <1>3, <1>4, <1>5, <1>6, <1>9, <1>10, <1>11, <1>12, <1>13, <1>14, <1>15

LEMMA EntryBrought ==
  ASSUME Sound, Arranged, ~WriteFails, WriteEntry, NEW x0, x0 = NewEntry
  PROVE  /\ x0 \in Store!Entry /\ x0.dir \in Tree /\ x0.dir = call.parent
         /\ x0.name = call.name /\ x0.what = call.first
         /\ \A e \in Entries : e.at # x0.at
         /\ \A d : Start(d) => EntriesOf(d)' = EntriesOf(d) \cup (IF d = x0.dir THEN {x0} ELSE {})
<1>1. /\ pc = "entry" /\ UNCHANGED <<fat, raw>>
      /\ pc' = "idle" \/ (call.op = "rename" /\ pc' = "delete" /\ UNCHANGED call)
  BY DEF WriteEntry, WriteWorks, EndCall
<1>2. PICK T \in InUse, b \in Slots :
        /\ T = call.at[1] /\ NewPlace = <<T, b>> /\ call.name \in Names /\ T \notin raw
        /\ IsFree(slots[T][b])
        /\ \A c \in Cluster : c # T => slots'[c] = slots[c]
        /\ IsEntry(slots'[T][b]) /\ slots'[T][b].name = call.name
        /\ slots'[T][b].dir = call.dir /\ slots'[T][b].first = call.first
        /\ \A t \in Slots : t # b =>
             (slots'[T][t] = slots[T][t]) \/ (~IsEntry(slots'[T][t]) /\ ~IsEntry(slots[T][t]))
  BY SlotsBrought
<1>3. Unlinked = slots
  BY <1>1 DEF Unlinked
<1>4. Unlinked' = slots' BY <1>1 DEF Unlinked
<1>5. PICK p : p = call.parent OBVIOUS
<1>6. Start(p) /\ T \in OnChainIn(fat, p) /\ p \in Tree
  <2>1. Start(p) /\ T \in OnChainIn(fat, p) BY <1>1, <1>2, <1>5 DEF Arranged, NewPlaced
  <2>2. Reachable(T) BY <1>1, <1>2, SoundParts DEF CallReachable
  <2> QED BY <2>1, <2>2, ReachedTree
<1>7. /\ x0.at = <<T, b>> /\ x0.dir = p /\ x0.name = call.name /\ x0.what = call.first
      /\ x0 = [at |-> <<T, b>>, dir |-> p, name |-> call.name, what |-> call.first]
  BY <1>2, <1>5 DEF NewEntry
<1>8. TreeLeast /\ \A d \in Tree : Start(d) /\ d \in Cluster BY SoundTree
<1>9. x0 \in Store!Entry
  <2>1. call.first \in Cluster \cup {None}
    BY <1>1, SoundParts DEF NewEntrySound, Begun, Start, InUse
  <2>2. T \in Cluster /\ p \in Cluster BY <1>6, <1>8 DEF InUse
  <2>3. <<T, b>> \in Cluster \X Slots BY <2>2
  <2>4. [at |-> <<T, b>>, dir |-> p, name |-> call.name, what |-> call.first]
          \in [at : Cluster \X Slots, dir : Cluster, name : Names, what : Cluster \cup {None}]
    BY <1>2, <2>1, <2>2, <2>3
  <2> QED BY <1>7, <2>4, Zenon DEF Store!Entry
<1>10. ASSUME NEW e \in Entries PROVE e.at # <<T, b>>
  <2>1. PICK c, s : Holds(e.dir, c, s) /\ e = EntryAt(e.dir, c, s) BY EntriesInTree
  <2>2. e.at = <<c, s>> /\ IsEntry(slots[c][s]) BY <1>3, <2>1, EntryFields DEF Holds
  <2>3. ~IsEntry(slots[T][b]) BY <1>2 DEF IsFree, IsEntry
  <2>4. ~(c = T /\ s = b) BY <2>2, <2>3
  <2>5. <<c, s>> # <<T, b>> BY <2>4, Zenon
  <2> QED BY <2>2, <2>5
<1>11. ASSUME NEW d, Start(d), d # p PROVE EntriesOf(d)' = EntriesOf(d)
  <2>1. First(fat, d) /\ First(fat, p) /\ OnChainIn(fat, d) \subseteq Cluster
    BY <1>6, <1>11, TreeChains
  <2>2. T \notin OnChainIn(fat, d) BY <1>6, <1>11, <2>1, OnOneChain
  <2>3. \A c, s : Holds(d, c, s) => Holds(d, c, s)' /\ Unlinked'[c][s] = Unlinked[c][s]
    BY <1>1, <1>2, <1>3, <1>4, <2>1, <2>2 DEF Holds
  <2>4. \A c, s : Holds(d, c, s)' => Holds(d, c, s)
    BY <1>1, <1>2, <1>3, <1>4, <2>1, <2>2 DEF Holds
  <2> QED BY <2>3, <2>4, EntriesKept
<1>12. EntriesOf(p)' = EntriesOf(p) \cup {x0}
  <2>1. PICK at : at = <<T, b>> OBVIOUS
  <2>2. PICK new : new = {x0} OBVIOUS
  <2>3. \A c, s : <<c, s>> # at <=> ~(c = T /\ s = b)
    <3>1. \A c, s : <<c, s>> # <<T, b>> <=> ~(c = T /\ s = b) BY Zenon
    <3> QED BY <2>1, <3>1
  <2>4. OnChainIn(fat, p) \subseteq Cluster BY <1>6, TreeChains
  <2>5. ASSUME NEW c, NEW s, Holds(p, c, s), <<c, s>> # at
        PROVE  Holds(p, c, s)' /\ Unlinked'[c][s] = Unlinked[c][s]
    BY <1>1, <1>2, <1>3, <1>4, <2>3, <2>4, <2>5 DEF Holds
  <2>6. EntryAt(p, T, b)' = x0
    BY <1>2, <1>4, <1>7 DEF EntryAt
  <2>7. ASSUME NEW c, NEW s, Holds(p, c, s)'
        PROVE  \/ Holds(p, c, s) /\ <<c, s>> # at
               \/ EntryAt(p, c, s)' \in new
    <3>1. CASE c = T /\ s = b BY <2>2, <2>6, <3>1
    <3>2. CASE ~(c = T /\ s = b)
      BY <1>1, <1>2, <1>3, <1>4, <2>3, <2>4, <2>7, <3>2 DEF Holds
    <3> QED BY <3>1, <3>2
  <2>8. x0 \in EntriesOf(p)'
    <3>1. Holds(p, T, b)' BY <1>1, <1>2, <1>4, <1>6 DEF Holds
    <3> QED BY <2>6, <3>1, HeldEntriesNext DEF EntriesHeld
  <2>9. EntriesOf(p)' = {x \in EntriesOf(p) : x.at # at} \cup new
    <3>1. \A x \in new : x \in EntriesOf(p)' BY <2>2, <2>8
    <3> QED BY <2>5, <2>7, <3>1, EntriesChange
  <2>10. \A x \in EntriesOf(p) : x.at # at
    <3>1. \A x \in EntriesOf(p) : x \in Entries BY <1>6, EntriesDir
    <3> QED BY <1>10, <2>1, <3>1
  <2> QED BY <2>2, <2>9, <2>10
<1>13. \A d : Start(d) => EntriesOf(d)' = EntriesOf(d) \cup (IF d = x0.dir THEN {x0} ELSE {})
  BY <1>7, <1>11, <1>12
<1> QED BY <1>5, <1>6, <1>7, <1>9, <1>10, <1>13

\* The cluster that f_mkdir initialised: an empty directory that nothing leads to.
LEMMA NewEmpty ==
  ASSUME Sound, Arranged, FirstUnnamed, pc = "entry", call.op = "mkdir"
  PROVE  /\ call.first \in Cluster /\ Start(call.first) /\ call.first \notin Tree
         /\ EntriesOf(call.first) = {}
<1>1. PICK f : f = call.first OBVIOUS
<1>2. call.dir /\ fat[f] = EndOfChain /\ \A s \in Slots : ~IsEntry(slots[f][s])
  BY <1>1 DEF Arranged, NewNamed
<1>3. /\ IsTable(fat) /\ LinksSound /\ slots[Root][1].name # "." /\ NewEntrySound
  BY SoundParts
<1>4. Begun(f) BY <1>1, <1>2, <1>3 DEF NewEntrySound
<1>5. f \in Cluster /\ Start(f) BY <1>4 DEF Begun, Start, InUse
<1>6. TreeLeast BY SoundTree
<1>7. Root # f
  <2>1. slots[f][1] = ShortSlot(".", TRUE, f) BY <1>4 DEF Begun
  <2>2. ShortSlot(".", TRUE, f).name = "." BY SlotKinds, Zenon
  <2> QED BY <1>3, <2>1, <2>2, Zenon
<1>8. Unlinked = slots BY DEF Unlinked
<1>9. ASSUME NEW x \in Entries PROVE x.what # f
  <2>1. PICK c, s : Holds(x.dir, c, s) /\ x = EntryAt(x.dir, c, s) BY EntriesInTree
  <2>2. Start(x.dir) BY EntriesInTree, SoundTree
  <2>3. c \in Cluster /\ s \in Slots /\ IsEntry(slots[c][s])
    BY <1>8, <2>1, <2>2, TreeChains DEF Holds, InUse
  <2>4. x.what = slots[c][s].first BY <1>8, <2>1, EntryFields
  <2> SUFFICES ASSUME slots[c][s].first = f PROVE FALSE BY <2>4
  <2>5. IsDirEntry(slots[c][s])
    <3>1. IF slots[c][s].dir THEN IsDirEntry(slots[c][s]) ELSE slots[c][s].first = None
      BY <1>8, <2>3, EntryNames
    <3>2. f # None BY <1>5, TableNumbers DEF None
    <3> QED BY <3>1, <3>2
  <2> QED BY <1>1, <1>2, <2>3, <2>5, Zenon DEF FirstUnnamed
<1>10. f \notin Tree
  <2>1. PICK X : X = Tree \ {f} OBVIOUS
  <2>2. X \in SUBSET Cluster /\ Root \in X BY <1>6, <1>7, <2>1 DEF TreeLeast
  <2>3. ASSUME NEW d \in X, NEW x \in EntriesOf(d) PROVE x.what \in X \cup {None}
    <3>1. x \in Entries BY <2>1, EntriesDir
    <3>2. x.what \in Tree \cup {None} BY <3>1, EntriesInTree
    <3> QED BY <1>9, <2>1, <3>1, <3>2
  <2>4. HoldsAll(X) BY <2>3 DEF HoldsAll
  <2> QED BY <1>6, <2>1, <2>2, <2>4 DEF TreeLeast
<1>11. EntriesOf(f) = {}
  <2>1. PICK w : w = Walk(f) OBVIOUS
  <2>2. \A i \in DOMAIN w : i = 1
    <3>1. /\ DOMAIN w = 1 .. Len(w) /\ Len(w) \in Nat /\ 1 \in DOMAIN w /\ w[1] = f
          /\ \A i, j \in DOMAIN w : i < j => fat[w[i]] \in Cluster
      BY <1>3, <1>5, <2>1, WalkFacts
    <3>2. EndOfChain \notin Cluster BY TableNumbers
    <3>3. \A i \in DOMAIN w : ~(1 < i) BY <1>2, <3>1, <3>2
    <3> QED BY <3>1, <3>3
  <2>3. w[1] = f /\ OnChainIn(fat, f) = {w[i] : i \in DOMAIN w} BY <1>3, <1>5, <2>1, WalkFacts
  <2>4. \A c \in OnChainIn(fat, f) : c = f BY <2>2, <2>3
  <2>5. \A c, s : ~Holds(f, c, s) BY <1>2, <1>8, <2>4 DEF Holds
  <2> QED BY <2>5, HeldEntries DEF EntriesHeld
<1> QED BY <1>1, <1>5, <1>10, <1>11

\* What f_rename found is an entry of a directory.
LEMMA OldIsEntry ==
  ASSUME Sound, pc = "entry", call.op = "rename"
  PROVE  \E e \in Entries : e.what = call.first
<1>1. PICK c, s : c = call.old[1] /\ s = call.old[2] OBVIOUS
<1>2. HasOld BY DEF HasOld
<1>3. c \in InUse /\ IsEntry(slots[c][s]) /\ Reachable(c) /\ s \in Slots
  <2>1. EndsInv /\ OldEntrySound /\ CallReachable BY SoundParts
  <2>2. s \in Slots BY <1>1, <1>2, <2>1 DEF EndsInv, OldGiven
  <2> QED BY <1>1, <1>2, <2>1, <2>2 DEF OldEntrySound, CallReachable
<1>4. slots[c][s].first = call.first BY <1>1, <1>2 DEF Sound, ReachInv, RenameSound
<1>5. PICK d \in Tree : c \in OnChainIn(fat, d) BY <1>3, ReachedClusters
<1>6. Unlinked = slots BY DEF Unlinked
<1>7. Holds(d, c, s) BY <1>3, <1>5, <1>6 DEF Holds, InUse
<1>8. PICK e : e = EntryAt(d, c, s) OBVIOUS
<1>9. e \in EntriesOf(d) /\ e.dir = d
  BY <1>7, <1>8, HeldEntries, EntryFields DEF EntriesHeld
<1>10. e \in Entries BY <1>5, <1>9, EntriesDir
<1>11. e.what = call.first BY <1>4, <1>6, <1>8, EntryFields
<1> QED BY <1>10, <1>11

\* What else has the name that the call gives.
LEMMA OthersKnown ==
  ASSUME Sound, Arranged, pc = "entry", NEW e \in Entries, e.dir = call.parent, e.name = call.name
  PROVE  call.op # "open" /\ (e.what # None => Pieces[call.name] > 0)
<1>1. PICK c, s : Holds(e.dir, c, s) /\ e = EntryAt(e.dir, c, s) BY EntriesInTree
<1>2. Unlinked = slots BY DEF Unlinked
<1>3. Start(e.dir) BY EntriesInTree, SoundTree
<1>4. c \in Cluster /\ s \in Slots /\ IsEntry(slots[c][s]) /\ c \in OnChainIn(fat, e.dir) \ raw
  BY <1>1, <1>2, <1>3, TreeChains DEF Holds, InUse
<1>5. e.name = slots[c][s].name /\ e.what = slots[c][s].first BY <1>1, <1>2, EntryFields
<1>6. call.op # "open" /\ (slots[c][s].dir => Pieces[call.name] > 0)
  BY <1>4, <1>5 DEF Arranged, NameFree
<1>7. slots[c][s].dir \/ slots[c][s].first = None BY <1>2, <1>4, EntryNames
<1> QED BY <1>5, <1>6, <1>7

\* The new entry is written.
LEMMA EntriesWrite ==
  ASSUME Sound, Sound', Arranged, FirstUnnamed, ~WriteFails, WriteEntry
  PROVE  Entries' = Entries \/ Store!Next
<1>1. PICK x0 : x0 = NewEntry OBVIOUS
<1>2. /\ x0 \in Store!Entry /\ x0.dir \in Tree /\ x0.dir = call.parent
      /\ x0.name = call.name /\ x0.what = call.first
      /\ \A e \in Entries : e.at # x0.at
      /\ \A d : Start(d) => EntriesOf(d)' = EntriesOf(d) \cup (IF d = x0.dir THEN {x0} ELSE {})
  BY <1>1, EntryBrought
<1>3. pc = "entry" BY DEF WriteEntry
<1>4. call.op \in {"open", "mkdir", "rename"}
  <2>1. call \in CallType BY SoundParts
  <2>2. call.op \in {"none", "mkdir", "open", "unlink", "rename"} BY <2>1 DEF CallType
  <2>3. call.op # "none" BY <1>3, Zenon DEF Arranged, NewNamed
  <2>4. call.op # "unlink" BY <1>3, Zenon DEF Sound, ReachInv, Unlinking
  <2> QED BY <2>2, <2>3, <2>4, Zenon
<1>5. TreeLeast /\ TreeLeast' /\ \A d \in Tree : Start(d) BY SoundTree, SoundHoldsNext DEF SoundFacts
<1>6. /\ call.op = "mkdir" => /\ x0.what \in Cluster /\ Start(x0.what) /\ x0.what \notin Tree
                              /\ EntriesOf(x0.what) = {}
      /\ call.op = "open" => x0.what = None
      /\ call.op = "rename" => \E e \in Entries : e.what = x0.what
  <2>1. ASSUME call.op = "open" PROVE call.first = None
    <3>1. ~call.dir BY <2>1 DEF Arranged, NewNamed
    <3> QED BY <1>3, <3>1, SoundParts DEF NewEntrySound
  <2>2. ASSUME call.op = "rename" PROVE \E e \in Entries : e.what = call.first
    BY <1>3, <2>2, OldIsEntry
  <2>3. ASSUME call.op = "mkdir"
        PROVE  /\ call.first \in Cluster /\ Start(call.first) /\ call.first \notin Tree
               /\ EntriesOf(call.first) = {}
    BY <1>3, <2>3, NewEmpty
  <2> QED BY <1>2, <2>1, <2>2, <2>3
<1>7. x0.what \in Tree \cup {None} \/ (x0.what \in Cluster /\ EntriesOf(x0.what)' = {})
  <2>1. CASE call.op = "mkdir"
    <3>1. x0.what # x0.dir BY <1>2, <1>6, <2>1
    <3> QED BY <1>2, <1>6, <2>1, <3>1
  <2>2. CASE call.op = "open" BY <1>6, <2>2
  <2>3. CASE call.op = "rename" BY <1>6, <2>3, EntriesInTree
  <2> QED BY <1>4, <2>1, <2>2, <2>3
<1>8. Entries' = Entries \cup {x0}
  <2>1. \A d \in Tree : EntriesOf(d)' = EntriesOf(d) \cup (IF d = x0.dir THEN {x0} ELSE {})
    BY <1>2, <1>5
  <2> QED BY <1>2, <1>5, <1>7, <2>1, EntryAdded
<1>9. Store!Reached(Entries) = Tree BY <1>5, EntriesLead
<1>10. Store!Add(x0) BY <1>2, <1>8, <1>9, Zenon DEF Store!Add
<1>11. \A e \in Store!Others(x0) :
         call.op # "open" /\ (e.what # None => Pieces[call.name] > 0)
  <2> SUFFICES ASSUME NEW e \in Store!Others(x0)
               PROVE  call.op # "open" /\ (e.what # None => Pieces[call.name] > 0)
    OBVIOUS
  <2>1. e \in Entries /\ e.dir = x0.dir /\ e.name = x0.name BY Zenon DEF Store!Others
  <2> QED BY <1>2, <1>3, <2>1, OthersKnown
<1>12. x0.name \in {n \in Names : Pieces[n] = 0} => Store!Directories(Store!Others(x0)) = {}
  <2>1. ASSUME x0.name \in {n \in Names : Pieces[n] = 0}, NEW e \in Store!Directories(Store!Others(x0))
        PROVE  FALSE
    <3>1. e \in Store!Others(x0) /\ e.what # None BY <2>1, Zenon DEF Store!Directories
    <3>2. Pieces[call.name] > 0 BY <1>11, <3>1
    <3>3. Pieces[call.name] = 0 BY <1>2, <2>1
    <3> QED BY <3>2, <3>3, SMT
  <2> QED BY <2>1
<1>13. Store!Create(x0) \/ Store!Mkdir(x0) \/ Store!Copy(x0)
  <2>1. CASE call.op = "open"
    <3>1. Store!Others(x0) = {} BY <1>11, <2>1
    <3>2. x0.what = None BY <1>6, <2>1
    <3> QED BY <1>10, <3>1, <3>2, Zenon DEF Store!Create
  <2>2. CASE call.op = "mkdir"
    <3>1. x0.what \notin Store!Reached(Entries) \cup {None}
      <4>1. None \notin Cluster BY TableNumbers DEF None
      <4> QED BY <1>6, <1>9, <2>2, <4>1
    <3> QED BY <1>10, <1>12, <3>1, Zenon DEF Store!Mkdir
  <2>3. CASE call.op = "rename"
    <3>1. \E e \in Entries : x0.what = e.what BY <1>6, <2>3
    <3> QED BY <1>10, <1>12, <3>1, Zenon DEF Store!Copy
  <2> QED BY <1>4, <2>1, <2>2, <2>3
<1>14. x0 \in Entries' \ Entries BY <1>2, <1>8
<1> QED BY <1>13, <1>14, Zenon DEF Store!Next

-----------------------------------------------------------------------------
(* Every step is one of DirStore.                                          *)

\* Steps that leave the clusters alone.
LEMMA EntriesRest ==
  ASSUME UNCHANGED <<fat, slots, raw>>, pc # "delete", pc' # "delete"
  PROVE  Entries' = Entries
BY UnlinkedKept, SameUnlinked

LEMMA EntriesCalls ==
  ASSUME Sound, Sound' \/ tainted', DirTypeInv', OneEntry, faults = 0, faults' = 0, ~Fault,
         CallStarts
  PROVE  Entries' = Entries \/ Store!Next
<1>1. PICK d \in Directories :
        \/ \E n \in Names : CallMkdir(d, n) \/ CallOpen(d, n) \/ CallUnlink(d, n) \/ CallRename(d, n)
        \/ OpenDir(d)
  BY DEF CallStarts
<1>2. CASE OpenDir(d)
  <2>1. UNCHANGED <<fat, slots, raw, pc>> /\ pc = "idle"
    BY <1>2, Zenon DEF OpenDir, Ready
  <2> QED BY <2>1, EntriesRest
<1>3. CASE \E n \in Names : CallMkdir(d, n) \/ CallOpen(d, n) \/ CallUnlink(d, n) \/ CallRename(d, n)
  <2>1. PICK n \in Names : CallMkdir(d, n) \/ CallOpen(d, n) \/ CallUnlink(d, n) \/ CallRename(d, n)
    BY <1>3
  <2>2. CASE CallMkdir(d, n)
    <3>1. ~tainted' BY <2>2 DEF Sound, CallMkdir
    <3> QED BY <2>2, <3>1, EntriesMkdir
  <2>3. CASE CallOpen(d, n)
    <3>1. UNCHANGED <<fat, slots, raw>> /\ pc = "idle" /\ pc' = "place"
      BY <2>3 DEF CallOpen, Ready
    <3> QED BY <3>1, EntriesRest
  <2>4. CASE CallUnlink(d, n) BY <2>4, EntriesUnlink
  <2>5. CASE CallRename(d, n)
    <3>1. UNCHANGED <<fat, slots, raw>> /\ pc = "idle" /\ pc' = "check"
      BY <2>5 DEF CallRename, Ready
    <3> QED BY <3>1, EntriesRest
  <2> QED BY <2>1, <2>2, <2>3, <2>4, <2>5
<1> QED BY <1>1, <1>2, <1>3

LEMMA StoreStep ==
  ASSUME StoreInv, [Next]_dirVars, faults' = 0, crashes' = 0
  PROVE  Entries' = Entries \/ Store!Next
<1>1. DirTypeInv /\ StoreInv' /\ DirTypeInv' BY StoreInvStep DEF StoreInv, ReachInv
<1>2. faults = 0 /\ crashes = 0 /\ ~Fault /\ ~WriteFails /\ ~Crash BY <1>1, NothingFailed
<1>3. CASE tainted BY <1>1, <1>3, EntriesTainted DEF StoreInv
<1>4. CASE ~tainted
  <2>1. Sound /\ Arranged /\ OneEntry /\ FirstUnnamed
    BY <1>2, <1>4 DEF StoreInv, Sound, Naming
  <2>2. Sound' \/ tainted' BY <1>1 DEF StoreInv, Sound
  <2>3. CASE CallStarts BY <1>1, <1>2, <2>1, <2>2, <2>3, EntriesCalls
  <2>4. CASE ClearNew
    <3>1. ~tainted' BY <1>4, <2>4 DEF ClearNew
    <3> QED BY <1>2, <2>1, <2>2, <2>4, <3>1, EntriesClearNew
  <2>5. CASE InitNew
    <3>1. ~tainted' BY <1>4, <2>5 DEF InitNew
    <3> QED BY <1>2, <2>1, <2>2, <2>5, <3>1, EntriesInitNew
  <2>6. CASE PlaceInside
    <3>1. UNCHANGED <<fat, slots, raw>> /\ pc = "place" /\ pc' = "entry" BY <2>6 DEF PlaceInside
    <3> QED BY <3>1, EntriesRest
  <2>7. CASE PlaceBehind
    <3>1. ~tainted' BY <1>2, <1>4, <2>7 DEF PlaceBehind
    <3> QED BY <2>1, <2>2, <2>7, <3>1, EntriesPlaceBehind
  <2>8. CASE PlaceFails
    <3>1. UNCHANGED <<fat, slots, raw>> /\ pc = "place" /\ pc' = "idle"
      BY <2>8 DEF PlaceFails, EndCall
    <3> QED BY <3>1, EntriesRest
  <2>9. CASE ClearExtension
    <3>1. ~tainted' BY <1>2, <1>4, <2>9 DEF ClearExtension
    <3> QED BY <1>2, <2>1, <2>2, <2>9, <3>1, EntriesClearExtension
  <2>10. CASE WriteEntry
    <3>1. ~tainted' BY <1>4, <2>10 DEF WriteEntry
    <3> QED BY <1>2, <2>1, <2>2, <2>10, <3>1, EntriesWrite
  <2>11. CASE CheckTarget
    <3>1. UNCHANGED <<fat, slots, raw>> /\ pc = "check" /\ pc' \in {"place", "idle"}
      BY <2>11 DEF CheckTarget, EndCall
    <3> QED BY <3>1, EntriesRest
  <2>12. CASE DeleteEntry
    <3>1. CASE call.op = "unlink"
      <4>1. pc = "delete" BY <2>12 DEF DeleteEntry
      <4> QED BY <1>2, <2>12, <3>1, <4>1, EntriesMarked
    <3>2. CASE call.op # "unlink" BY <1>1, <1>2, <2>1, <2>12, <3>2, EntriesDelete
    <3> QED BY <3>1, <3>2
  <2>13. CASE ChangeDir \/ ReadStops \/ ReadEnds \/ ReadFails \/ CloseDir
    <3>1. UNCHANGED <<fat, slots, raw, pc>> /\ pc = "idle"
      <4>1. CASE ChangeDir BY <4>1 DEF ChangeDir, Ready
      <4>2. CASE ReadStops BY <4>2, Zenon DEF ReadStops, Ready
      <4>3. CASE ReadEnds BY <4>3 DEF ReadEnds, Ready
      <4>4. CASE ReadFails BY <4>4, Zenon DEF ReadFails, Ready
      <4>5. CASE CloseDir BY <4>5 DEF CloseDir, Ready
      <4> QED BY <2>13, <4>1, <4>2, <4>3, <4>4, <4>5
    <3> QED BY <3>1, EntriesRest
  <2>14. CASE Restart
    <3>1. UNCHANGED <<fat, slots, raw>> /\ pc = "idle" /\ pc' = "idle"
      BY <2>14 DEF Restart, Reboot, EndCall
    <3> QED BY <3>1, EntriesRest
  <2>15. CASE UNCHANGED dirVars
    <3>1. UNCHANGED <<fat, slots, raw, pc, call>> BY <2>15 DEF dirVars
    <3>2. Unlinked' = Unlinked BY <3>1, Zenon DEF Unlinked, Target, Content
    <3> QED BY <3>1, <3>2, SameUnlinked
  <2> QED
    BY <1>2, <2>3, <2>4, <2>5, <2>6, <2>7, <2>8, <2>9, <2>10, <2>11, <2>12, <2>13, <2>14, <2>15,
       Zenon DEF Next
<1> QED BY <1>3, <1>4

LEMMA StoreStart == Init => Store!Init
<1> SUFFICES ASSUME Init PROVE Entries = {}
  BY Zenon DEF Store!Init
<1>1. slots = [c \in Cluster |-> EmptyCluster] /\ fat = EmptyFat /\ raw = {} /\ pc = "idle" BY DEF Init
<1>2. StoreInv BY StoreInvInit
<1>3. Sound BY <1>2 DEF StoreInv, Sound, Init
<1>4. \A x : x \notin Entries
  <2> SUFFICES ASSUME NEW x \in Entries PROVE FALSE
    OBVIOUS
  <2>1. PICK c, s : Holds(x.dir, c, s) BY <1>3, EntriesInTree
  <2>2. Start(x.dir) BY <1>3, EntriesInTree, SoundTree
  <2>3. c \in Cluster /\ s \in Slots /\ IsEntry(slots[c][s])
    BY <1>1, <1>3, <2>1, <2>2, TreeChains DEF Holds, InUse, Unlinked
  <2>4. slots[c][s] = EmptyCluster[s] BY <1>1, <2>3
  <2>5. slots[c][s] = EndMark BY <2>3, <2>4 DEF EmptyCluster
  <2>6. ~IsEntry(slots[c][s])
    <3>1. EndMark.kind = "end" BY SlotKinds, Zenon
    <3> QED BY <2>5, <3>1, Zenon DEF IsEntry
  <2> QED BY <2>3, <2>6
<1> QED BY <1>4

\* As long as nothing fails, each cluster write of f_mkdir, f_open, f_rename and
\* f_unlink adds one entry to the tree of directories, takes one away with what only
\* it led to, or changes nothing that can be reached.
THEOREM DirsImplementStore == DirSpec => ImplementsDirStore
<1>1. Init => StoreInv BY StoreInvInit
<1>2. StoreInv /\ [Next]_dirVars => StoreInv' BY StoreInvStep
<1>3. StoreInv /\ [Next]_dirVars => [faults' = 0 /\ crashes' = 0 => Store!Next]_Entries
  BY StoreStep
<1>4. Init => Store!Init BY StoreStart
<1> QED BY <1>1, <1>2, <1>3, <1>4, PTL DEF DirSpec, ImplementsDirStore
=============================================================================

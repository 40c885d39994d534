---------------------------- MODULE VolumeProofs ----------------------------
(***************************************************************************)
(* For every volume size: the clusters lie inside the volume, one behind   *)
(* the other, and no call writes outside the volume it is given.           *)
(***************************************************************************)
EXTENDS VolumeManager, TLAPS

\* The cluster size, with what is known of a volume that has it.
LEMMA ClusterSizes ==
  ASSUME NEW n \in MinSectors .. MaxSectors
  PROVE  /\ n \in Nat /\ n >= 35
         /\ \/ SectorsPerCluster(n) = 1
            \/ SectorsPerCluster(n) \in {2, 4, 16} /\ n >= 1000
<1>1. n \in Nat /\ n >= 35 BY SMT DEF MinSectors
<1>2. \/ SectorsPerCluster(n) = 1
      \/ SectorsPerCluster(n) \in {2, 4, 16} /\ n >= 1000
  BY <1>1, SMT DEF SectorsPerCluster
<1> QED BY <1>1, <1>2

\* Both estimates of the FAT's size are positive, and two FATs of the second
\* one leave room for a cluster.
LEMMA FatFits ==
  ASSUME NEW n \in MinSectors .. MaxSectors
  PROVE  /\ n \in Nat
         /\ FatSize(n) \in Nat \ {0} /\ SectorsPerCluster(n) \in {1, 2, 4, 16}
         /\ 32 + 2 * FatSize(n) + SectorsPerCluster(n) <= n
<1> DEFINE s == SectorsPerCluster(n)
           d == n - 32
           k0 == ClustersBeside(n, 0)
           f0 == FatSectors(k0)
           k1 == ClustersBeside(n, f0)
           f1 == FatSectors(k1)
<1>1. /\ n \in Nat /\ n >= 35
      /\ s = 1 \/ (s \in {2, 4, 16} /\ n >= 1000)
  BY ClusterSizes
<1>2. FatSize(n) = f1 BY DEF FatSize
<1>3. d \in Nat /\ s \in Nat /\ ((d >= 3 /\ s = 1) \/ (d >= 900 /\ s \in {2, 4, 16}))
  <2> HIDE DEF s
  <2> QED BY <1>1, SMT
<1>4. k0 = d \div s
  <2>1. n - 32 - 2 * 0 = n - 32 BY <1>1, SMT
  <2> QED BY <2>1 DEF ClustersBeside, ReservedSectors, NumFATs
<1>5. f0 = (k0 * 4 + 511) \div 512
  <2>1. \A x \in Int : x + 512 - 1 = x + 511 BY SMT
  <2>2. k0 * 4 \in Int
    <3> HIDE DEF s, k0
    <3> QED BY <1>4, <1>3, SMT
  <2> HIDE DEF k0
  <2> QED BY <2>1, <2>2, SMT DEF FatSectors, SectorSize
<1>6. k1 = (d - 2 * f0) \div s
  BY DEF ClustersBeside, ReservedSectors, NumFATs
<1>7. f1 = (k1 * 4 + 511) \div 512
  <2>1. k1 \in Int
    <3> HIDE DEF s, k0, f0, k1
    <3> QED BY <1>3, <1>4, <1>5, <1>6, SMT
  <2> HIDE DEF k1
  <2> QED BY <2>1, SMT DEF FatSectors, SectorSize
<1> HIDE DEF s, d, k0, f0, k1, f1
<1>8. f1 \in Nat \ {0} /\ 2 * f1 + s <= d
  <2>1. CASE s = 1 BY <2>1, <1>3, <1>4, <1>5, <1>6, <1>7, SMT
  <2>2. CASE s = 2 BY <2>2, <1>3, <1>4, <1>5, <1>6, <1>7, SMT
  <2>3. CASE s = 4 BY <2>3, <1>3, <1>4, <1>5, <1>6, <1>7, SMT
  <2>4. CASE s = 16 BY <2>4, <1>3, <1>4, <1>5, <1>6, <1>7, SMT
  <2> QED BY <2>1, <2>2, <2>3, <2>4, <1>3, SMT
<1>9. 32 + 2 * f1 + s <= n BY <1>8, <1>3, <1>1, SMT DEF d
<1> QED BY <1>1, <1>2, <1>8, <1>9, SMT DEF s

\* Whole clusters: as many as fit into d sectors do not need more, and a cluster
\* of the volume begins where the one before it ends.
LEMMA WholeClusters ==
  ASSUME NEW d \in Nat, NEW s \in {1, 2, 4, 16}, NEW c \in 2 .. (d \div s) + 1
  PROVE  /\ c \in Nat /\ (c - 2) * s \in Nat /\ (c - 2) * s + s <= d
         /\ (c + 1 - 2) * s = (c - 2) * s + s
<1>1. CASE s = 1 BY <1>1, SMT
<1>2. CASE s = 2 BY <1>2, SMT
<1>3. CASE s = 4 BY <1>3, SMT
<1>4. CASE s = 16 BY <1>4, SMT
<1> QED BY <1>1, <1>2, <1>3, <1>4, SMT

\* There is a cluster in s sectors or more.
LEMMA SomeCluster ==
  ASSUME NEW d \in Nat, NEW s \in {1, 2, 4, 16}, s <= d
  PROVE  d \div s \in Nat /\ d \div s >= 1
<1>1. CASE s = 1 BY <1>1, SMT
<1>2. CASE s = 2 BY <1>2, SMT
<1>3. CASE s = 4 BY <1>3, SMT
<1>4. CASE s = 16 BY <1>4, SMT
<1> QED BY <1>1, <1>2, <1>3, <1>4, SMT

\* On a volume of any size there is a cluster, and no cluster reaches into the
\* FATs, into the next cluster or past the end of the volume (fat32_bpb.c:80-89
\* and 146-149).
THEOREM EachClusterInPlace ==
  ASSUME NEW n \in MinSectors .. MaxSectors
  PROVE  /\ ClustersOf(n) \in Nat /\ ClustersOf(n) >= 1
         /\ \A c \in 2 .. ClustersOf(n) + 1 :
              /\ FirstSectorOfCluster(n, c) >= FatStart(n, NumFATs) + FatSize(n)
              /\ FirstSectorOfCluster(n, c) + SectorsPerCluster(n) <= n
              /\ FirstSectorOfCluster(n, c + 1)
                   >= FirstSectorOfCluster(n, c) + SectorsPerCluster(n)
<1> DEFINE s == SectorsPerCluster(n)
           f == FatSize(n)
           d == n - 32 - 2 * f
<1>1. /\ n \in Nat /\ f \in Nat \ {0} /\ s \in {1, 2, 4, 16} /\ 32 + 2 * f + s <= n
  BY FatFits
<1>2. ClustersOf(n) = d \div s
  BY DEF ClustersOf, ClustersBeside, ReservedSectors, NumFATs
<1>3. d \in Nat /\ s <= d
  <2> HIDE DEF s, f
  <2> QED BY <1>1, SMT
<1>4. ClustersOf(n) \in Nat /\ ClustersOf(n) >= 1
  <2> HIDE DEF s, f, d
  <2> QED BY <1>1, <1>2, <1>3, SomeCluster
<1>5. ASSUME NEW c \in 2 .. ClustersOf(n) + 1
      PROVE  /\ FirstSectorOfCluster(n, c) >= FatStart(n, NumFATs) + f
             /\ FirstSectorOfCluster(n, c) + s <= n
             /\ FirstSectorOfCluster(n, c + 1) >= FirstSectorOfCluster(n, c) + s
  <2>1. /\ c \in Nat /\ (c - 2) * s \in Nat /\ (c - 2) * s + s <= d
        /\ (c + 1 - 2) * s = (c - 2) * s + s
    <3> HIDE DEF s, f, d
    <3> QED BY <1>1, <1>2, <1>3, WholeClusters
  <2>2. /\ FirstSectorOfCluster(n, c) = 32 + 2 * f + (c - 2) * s
        /\ FirstSectorOfCluster(n, c + 1) = 32 + 2 * f + (c + 1 - 2) * s
        /\ FatStart(n, NumFATs) = 32 + (2 - 1) * f
    BY DEF FirstSectorOfCluster, FirstDataSector, FatStart, ReservedSectors, NumFATs
  <2> HIDE DEF s, f
  <2> QED BY <1>1, <2>1, <2>2, SMT
<1> QED BY <1>4, <1>5 DEF s, f

-----------------------------------------------------------------------------
(* Writes stay inside the volume.                                          *)

Inside(extent, n) ==
  extent.first \in Nat /\ extent.count \in Nat /\ extent.first + extent.count <= n

LEMMA AreasInside ==
  ASSUME NEW n \in MinSectors .. MaxSectors, NEW a \in Area
  PROVE  Inside(AreaExtent(n)[a], n)
<1> DEFINE s == SectorsPerCluster(n)
           f == FatSize(n)
<1>1. /\ n \in Nat /\ n >= 35 /\ f \in Nat \ {0} /\ s \in {1, 2, 4, 16}
      /\ 32 + 2 * f + s <= n
  BY FatFits, ClusterSizes
<1>2. /\ FatStart(n, 1) = 32 + (1 - 1) * f
      /\ FatStart(n, 2) = 32 + (2 - 1) * f
      /\ FirstSectorOfCluster(n, 2) = 32 + 2 * f + (2 - 2) * s
  BY DEF FirstSectorOfCluster, FirstDataSector, FatStart, ReservedSectors, NumFATs
<1> HIDE DEF s, f
<1>3. FatStart(n, 1) = 32 /\ FatStart(n, 2) = 32 + f /\ FirstSectorOfCluster(n, 2) = 32 + 2 * f
  BY <1>1, <1>2, SMT
<1>4. AreaExtent(n) =
        [boot   |-> Extent(0, 1), fsinfo |-> Extent(1, 1), backup |-> Extent(6, 1),
         marks1 |-> Extent(32, 1), rest1 |-> Extent(32 + 1, f - 1),
         marks2 |-> Extent(32 + f, 1), rest2 |-> Extent(32 + f + 1, f - 1),
         root   |-> Extent(32 + 2 * f, s)]
  BY <1>3 DEF AreaExtent, ClusterExtent, RootCluster, s, f
<1> QED BY <1>1, <1>4, SMT DEF Area, Extent, Inside

LEMMA WritesInside ==
  ASSUME NEW n \in MinSectors .. MaxSectors, NEW i \in 1 .. LastWrite
  PROVE  /\ Inside(FormatWrites(n)[i].at, n)
         /\ FormatWrites(n)[i].value \in Content
<1> DEFINE s == SectorsPerCluster(n)
           f == FatSize(n)
<1>1. /\ n \in Nat /\ n >= 35 /\ f \in Nat \ {0} /\ s \in {1, 2, 4, 16}
      /\ 32 + 2 * f + s <= n
  BY FatFits, ClusterSizes
<1>2. FatStart(n, 1) = 32 + (1 - 1) * f /\ FatStart(n, 2) = 32 + (2 - 1) * f
  BY DEF FatStart, ReservedSectors
<1> HIDE DEF s, f
<1>3. FatStart(n, 1) = 32 /\ FatStart(n, 2) = 32 + f
  BY <1>1, <1>2, SMT
<1>4. FormatWrites(n) =
        << Write(Extent(0, 1), "bpb"), Write(Extent(6, 1), "bpb"),
           Write(Extent(1, 1), "fsinfo"),
           Write(Extent(32, 1), "marks"), Write(Extent(32 + 1, f - 1), "zero"),
           Write(Extent(32 + f, 1), "marks"), Write(Extent(32 + f + 1, f - 1), "zero"),
           Write(Extent(2, s), "zero") >>
  BY <1>3 DEF FormatWrites, RestCleared, RootCluster, s, f
<1>5. i \in {1, 2, 3, 4, 5, 6, 7, 8} BY SMT DEF LastWrite
<1> QED BY <1>1, <1>4, <1>5, SMT DEF Write, Extent, Inside, Content


\* The entry of a cluster that the allocator hands out: in a FAT too small for it, in
\* the sectors that follow, but not past the end of the volume.
LEMMA UpdateInside ==
  ASSUME NEW n \in MinSectors .. MaxSectors, NEW c \in RootCluster .. ClustersOf(n),
         NEW i \in 1 .. NumFATs
  PROVE  /\ FatSectorOfCluster(n, c, i) \in Nat
         /\ FatSectorOfCluster(n, c, i) >= 32 /\ FatSectorOfCluster(n, c, i) + 1 <= n
<1> DEFINE s == SectorsPerCluster(n)
           f == FatSize(n)
           d == n - 32 - 2 * f
           k == ClustersOf(n)
<1>1. /\ n \in Nat /\ f \in Nat \ {0} /\ s \in {1, 2, 4, 16} /\ 32 + 2 * f + s <= n
  BY FatFits
<1>2. k = d \div s
  BY DEF ClustersOf, ClustersBeside, ReservedSectors, NumFATs
<1>3. d \in Nat
  <2> HIDE DEF s, f
  <2> QED BY <1>1, SMT
<1>4. k \in Nat /\ k <= d
  <2> HIDE DEF s, f, d, k
  <2>1. CASE s = 1 BY <2>1, <1>2, <1>3, SMT
  <2>2. CASE s = 2 BY <2>2, <1>2, <1>3, SMT
  <2>3. CASE s = 4 BY <2>3, <1>2, <1>3, SMT
  <2>4. CASE s = 16 BY <2>4, <1>2, <1>3, SMT
  <2> QED BY <1>1, <2>1, <2>2, <2>3, <2>4
<1>5. c \in Nat /\ c >= 2 /\ c <= k
  <2> HIDE DEF k
  <2>1. c \in RootCluster .. k BY DEF k
  <2> QED BY <1>4, <2>1, SMT DEF RootCluster
<1> DEFINE e == (c * 4) \div 512
<1>6. e \in Nat /\ e + 1 <= c BY <1>5, SMT
<1>7. FatSectorOfCluster(n, c, i) = 32 + (i - 1) * f + e
  BY DEF FatSectorOfCluster, FatStart, ReservedSectors, SectorSize
<1> HIDE DEF s, f, k, e
<1>8. i = 1 \/ i = 2 BY SMT DEF NumFATs
<1>9. (i - 1) * f \in {0, f} BY <1>1, <1>8, SMT
<1> QED BY <1>1, <1>4, <1>5, <1>6, <1>7, <1>9, SMT DEF d

LEMMA SizeNumbers ==
  MinSectors \in Int /\ MaxSectors \in Int /\ MaxSectors < 16 * EndOfChain
BY SMT DEF MinSectors, MaxSectors, EndOfChain

LEMMA MarkNumber == EndOfChain \in Nat /\ 0 \in 0 .. EndOfChain
<1>1. EndOfChain \in Nat BY SMT DEF EndOfChain
<1> QED BY <1>1, SMT

\* A cluster that the allocator hands out, and the one past the end of a chain: in
\* the second FAT with clusters of 16 sectors, otherwise further than the disk goes.
LEMMA ClusterPlaced ==
  ASSUME NEW n \in MinSectors .. MaxSectors, NEW c \in RootCluster .. ClustersOf(n)
  PROVE  /\ c \in 0 .. EndOfChain
         /\ Inside(ClusterSectors(n, c), n)
         /\ ClusterSectors(n, c).first >= 32 + 2 * FatSize(n)
<1> DEFINE s == SectorsPerCluster(n)
           f == FatSize(n)
           d == n - 32 - 2 * f
           k == ClustersOf(n)
<1>1. /\ n \in Nat /\ f \in Nat \ {0} /\ s \in {1, 2, 4, 16} /\ 32 + 2 * f + s <= n
  BY FatFits
<1>2. n < 16 * EndOfChain /\ (s # 16 => n < EndOfChain) /\ k \in Nat /\ k = d \div s
  <2>1. n < 16 * EndOfChain
    <3>1. n <= MaxSectors BY SizeNumbers, SMT
    <3> QED BY <1>1, <3>1, SizeNumbers, MarkNumber, SMT
  <2>2. s # 16 => n < EndOfChain BY <1>1, SMT DEF SectorsPerCluster, EndOfChain
  <2>3. k \in Nat BY EachClusterInPlace
  <2>4. k = d \div s BY DEF ClustersOf, ClustersBeside, ReservedSectors, NumFATs
  <2> QED BY <2>1, <2>2, <2>3, <2>4
<1>3. d \in Nat /\ d <= n
  <2> HIDE DEF s, f, k
  <2> QED BY <1>1, SMT
<1>4. k < EndOfChain /\ EndOfChain \in Nat
  <2> HIDE DEF s, f, d, k
  <2>1. CASE s = 1 BY <2>1, <1>1, <1>2, <1>3, MarkNumber, SMT
  <2>2. CASE s = 2 BY <2>2, <1>1, <1>2, <1>3, MarkNumber, SMT
  <2>3. CASE s = 4 BY <2>3, <1>1, <1>2, <1>3, MarkNumber, SMT
  <2>4. CASE s = 16 BY <2>4, <1>1, <1>2, <1>3, MarkNumber, SMT
  <2> QED BY <1>1, <2>1, <2>2, <2>3, <2>4, MarkNumber
<1>5. /\ c \in Nat /\ c >= 2 /\ c <= k /\ c \in 2 .. k + 1
  <2>1. c \in RootCluster .. k OBVIOUS
  <2> HIDE DEF k
  <2> QED BY <1>2, <2>1, SMT DEF RootCluster
<1>6. c # EndOfChain /\ c \in 0 .. EndOfChain
  <2> HIDE DEF k
  <2> QED BY <1>2, <1>4, <1>5, SMT
<1>7. /\ ClusterSectors(n, c).first = FirstSectorOfCluster(n, c)
      /\ ClusterSectors(n, c).count = s
  BY <1>6 DEF ClusterSectors, Extent
<1>8. FirstSectorOfCluster(n, c) = 32 + 2 * f + (c - 2) * s
  BY DEF FirstSectorOfCluster, FirstDataSector, ReservedSectors, NumFATs
<1>9. (c - 2) * s \in Nat /\ (c - 2) * s + s <= d
  <2>1. c \in 2 .. (d \div s) + 1 BY <1>2, <1>5
  <2> HIDE DEF s, f, d, k
  <2> QED BY <1>1, <1>3, <2>1, WholeClusters
<1> DEFINE x == ClusterSectors(n, c)
           m == (c - 2) * s
<1>10. x.first = 32 + 2 * f + m /\ x.count = s /\ m \in Nat /\ m + s <= n - 32 - 2 * f
  BY <1>7, <1>8, <1>9
<1>11. /\ x.first \in Nat /\ x.count \in Nat /\ x.first + x.count <= n
       /\ x.first >= 32 + 2 * f
  <2> HIDE DEF x, m, s, f, d, k
  <2> QED BY <1>1, <1>10, SMT
<1> QED BY <1>6, <1>11 DEF Inside

LEMMA PastEndPlaced ==
  ASSUME NEW n \in MinSectors .. MaxSectors,
         ClusterSectors(n, EndOfChain).first + ClusterSectors(n, EndOfChain).count <= EndOfChain
  PROVE  /\ SectorsPerCluster(n) = 16
         /\ ClusterSectors(n, EndOfChain).count = 16
         /\ ClusterSectors(n, EndOfChain).first = 32 + 2 * FatSize(n) - 48
         /\ FatSize(n) >= 49
<1> DEFINE s == SectorsPerCluster(n)
           f == FatSize(n)
<1>1. /\ n \in Nat /\ f \in Nat \ {0} /\ s \in {1, 2, 4, 16} /\ 32 + 2 * f + s <= n
  BY FatFits
<1>2. /\ ClusterSectors(n, EndOfChain).first = FirstSectorPastEnd(n)
      /\ ClusterSectors(n, EndOfChain).count = s
  BY DEF ClusterSectors, Extent
<1>3. s = 16
  <2> SUFFICES ASSUME s # 16 PROVE FALSE
    OBVIOUS
  <2>1. FirstSectorPastEnd(n) = 32 + 2 * f + (EndOfChain - 2) * s
    BY DEF FirstSectorPastEnd, FirstSectorOfCluster, FirstDataSector, ReservedSectors, NumFATs
  <2>2. s = 1 \/ s = 2 \/ s = 4 BY <1>1
  <2>3. 32 + 2 * f + (EndOfChain - 2) * s + s <= EndOfChain BY <1>2, <2>1
  <2> HIDE DEF s, f
  <2> QED BY <1>1, <2>2, <2>3, SMT DEF EndOfChain
<1>4. FirstSectorPastEnd(n) = 32 + 2 * f - 48
  <2>1. FirstSectorPastEnd(n) = FirstDataSector(n) - 48 BY <1>3 DEF FirstSectorPastEnd
  <2>2. FirstDataSector(n) = 32 + 2 * f BY DEF FirstDataSector, ReservedSectors, NumFATs
  <2>3. f \in Nat BY <1>1
  <2> HIDE DEF f
  <2> QED BY <2>1, <2>2, <2>3, SMT
<1>5. f >= 49
  <2> DEFINE d == n - 32
             k0 == ClustersBeside(n, 0)
             f0 == FatSectors(k0)
             k1 == ClustersBeside(n, f0)
  <2>1. n >= 524288 BY <1>1, <1>3, SMT DEF SectorsPerCluster
  <2>2. k0 = (n - 32 - 2 * 0) \div 16
    BY <1>3 DEF ClustersBeside, ReservedSectors, NumFATs
  <2>3. k1 = (n - 32 - 2 * f0) \div 16
    BY <1>3 DEF ClustersBeside, ReservedSectors, NumFATs
  <2>4. f0 = (k0 * 4 + 512 - 1) \div 512 BY DEF FatSectors, SectorSize
  <2>5. f = (k1 * 4 + 512 - 1) \div 512 BY DEF FatSize, FatSectors, SectorSize
  <2> HIDE DEF s, f, k0, f0, k1
  <2>6. k0 \in Nat /\ 16 * k0 <= n - 32 BY <1>1, <2>1, <2>2, SMT
  <2>7. f0 \in Nat /\ 512 * f0 <= 4 * k0 + 511 BY <2>4, <2>6, SMT
  <2>8. k1 \in Nat /\ k1 >= 6272 BY <1>1, <2>1, <2>3, <2>6, <2>7, SMT
  <2> QED BY <2>5, <2>8, SMT
<1> QED BY <1>2, <1>3, <1>4, <1>5

\* A write inside one volume changes nothing in another, and the disk keeps its
\* type.
LEMMA WritesHere ==
  ASSUME disk \in [Volumes -> [Area -> Content]],
         NEW v \in Volumes, NEW extent, Inside(extent, Sectors[v]),
         extent = [first |-> extent.first, count |-> extent.count],
         NEW value \in Content, Overwrite(Moved(v, extent), value)
  PROVE  /\ disk' \in [Volumes -> [Area -> Content]]
         /\ \A w \in Volumes \ {v} : disk'[w] = disk[w]
<1>1. disk' \in [Volumes -> [Area -> Content]]
  BY DEF Overwrite
<1>2. ASSUME NEW w \in Volumes \ {v}, NEW a \in Area
      PROVE  <<w, a>> \notin Hit(Moved(v, extent))
  <2> DEFINE area == AreaExtent(Sectors[w])[a]
  <2>1. Inside(area, Sectors[w]) BY VolumesAssumption, AreasInside
  <2>2. /\ Start[v] \in Nat /\ Start[w] \in Nat
        /\ Start[v] + Sectors[v] <= Start[w] \/ Start[w] + Sectors[w] <= Start[v]
    BY VolumesAssumption DEF Ends
  <2>3. /\ Sectors[v] \in Nat /\ Sectors[w] \in Nat
    BY VolumesAssumption, ClusterSizes
  <2>4. ~ Meet(Moved(v, extent), Moved(w, area))
    <3>1. /\ Moved(v, extent).first = extent.first + Start[v]
          /\ Moved(v, extent).count = extent.count
      BY DEF Moved
    <3>2. /\ Moved(w, area).first = area.first + Start[w]
          /\ Moved(w, area).count = area.count
      BY DEF Moved, AreaExtent, Area, Extent, ClusterExtent
    <3> HIDE DEF area
    <3> QED BY <2>1, <2>2, <2>3, <3>1, <3>2, SMT DEF Meet, Inside
  <2> QED BY <2>4 DEF Hit
<1>3. ASSUME NEW w \in Volumes \ {v} PROVE disk'[w] = disk[w]
  <2>1. \A a \in Area : disk'[w][a] = disk[w][a]
    BY <1>2 DEF Overwrite
  <2>2. disk'[w] \in [Area -> Content] /\ disk[w] \in [Area -> Content]
    BY <1>1
  <2> QED BY <2>1, <2>2
<1> QED BY <1>1, <1>3

\* The three kinds of writes are of that sort.
LEMMA FormatWritesHere ==
  ASSUME VolumeTypeOK, call.op = "create", NEW value \in Content,
         LET write == FormatWrites(Sectors[call.volume])[call.step] IN
         Overwrite(Moved(call.volume, write.at), value)
  PROVE  /\ disk' \in [Volumes -> [Area -> Content]]
         /\ \A w \in Volumes \ {call.volume} : disk'[w] = disk[w]
<1> DEFINE v == call.volume
           extent == FormatWrites(Sectors[v])[call.step].at
<1>1. /\ disk \in [Volumes -> [Area -> Content]]
      /\ v \in Volumes /\ call.step \in 1 .. LastWrite
  BY DEF VolumeTypeOK
<1>2. Sectors[v] \in MinSectors .. MaxSectors BY <1>1, VolumesAssumption
<1>3. Inside(extent, Sectors[v]) BY <1>1, <1>2, WritesInside
<1>4. extent = [first |-> extent.first, count |-> extent.count]
  <2>1. call.step \in {1, 2, 3, 4, 5, 6, 7, 8} BY <1>1, SMT DEF LastWrite
  <2> QED BY <2>1 DEF FormatWrites, Write, RestCleared, Extent
<1> HIDE DEF extent
<1> QED BY <1>1, <1>3, <1>4, WritesHere DEF extent

LEMMA HalfWritesHere ==
  ASSUME VolumeTypeOK, HalfWritten
  PROVE  /\ disk' \in [Volumes -> [Area -> Content]]
         /\ \A w \in Volumes \ {call.volume} : disk'[w] = disk[w]
<1>1. "torn" \in Content BY DEF Content
<1> QED BY <1>1, FormatWritesHere DEF HalfWritten

LEMMA LabelWritesHere ==
  ASSUME VolumeTypeOK, bpb \in Volumes, StoreLabel
  PROVE  /\ disk' \in [Volumes -> [Area -> Content]]
         /\ \A w \in Volumes \ {bpb} : disk'[w] = disk[w]
<1> DEFINE extent == ClusterExtent(Sectors[bpb], RootCluster)
<1>1. Sectors[bpb] \in MinSectors .. MaxSectors BY VolumesAssumption
<1>2. extent = AreaExtent(Sectors[bpb])["root"] BY DEF AreaExtent
<1>3. Inside(extent, Sectors[bpb]) BY <1>1, <1>2, AreasInside DEF Area
<1>4. extent = [first |-> extent.first, count |-> extent.count]
  BY DEF ClusterExtent, Extent
<1>5. Labelled(bpb) \in Content BY DEF Labelled, Content
<1> HIDE DEF extent
<1> QED BY <1>3, <1>4, <1>5, WritesHere DEF StoreLabel, VolumeTypeOK, extent

\* A FAT update, and a write of a cluster.
LEMMA UpdatesHere ==
  ASSUME VolumeTypeOK, call.op = "fat", StoreEntry
  PROVE  /\ bpb \in Volumes /\ bpb = call.volume /\ Sectors[bpb] \in MinSectors .. MaxSectors
         /\ disk' \in [Volumes -> [Area -> Content]]
         /\ \A w \in Volumes \ {bpb} : disk'[w] = disk[w]
         /\ \E x : /\ x.first \in Nat /\ x.first >= 32 /\ x.count = 1
                   /\ x = [first |-> x.first, count |-> x.count]
                   /\ Overwrite(Moved(bpb, x), "used")
<1>1. /\ bpb \in Volumes /\ bpb = call.volume /\ call.cluster \in Used[bpb]
      /\ call.step \in 1 .. NumFATs
  <2>1. call.step \in 0 .. LastWrite /\ call.step # 0 /\ call.step <= NumFATs
    BY DEF VolumeTypeOK
  <2>2. call.step \in 1 .. NumFATs BY <2>1, SMT DEF NumFATs, LastWrite
  <2> QED BY <2>2 DEF VolumeTypeOK
<1> DEFINE n == Sectors[bpb]
           sector == FatSectorOfCluster(n, call.cluster, call.step)
           x == Extent(sector, 1)
<1>2. n \in MinSectors .. MaxSectors /\ call.cluster \in RootCluster .. ClustersOf(n)
  BY <1>1, VolumesAssumption
<1>3. sector \in Nat /\ sector >= 32 /\ sector + 1 <= n BY <1>1, <1>2, UpdateInside
<1>4. /\ x.first = sector /\ x.count = 1 /\ x = [first |-> x.first, count |-> x.count]
  BY DEF Extent
<1>5. Inside(x, n) BY <1>3, <1>4, SMT DEF Inside
<1>6. Overwrite(Moved(bpb, x), "used") BY DEF StoreEntry
<1>7. "used" \in Content BY DEF Content
<1>8. disk \in [Volumes -> [Area -> Content]] BY DEF VolumeTypeOK
<1> HIDE DEF sector, x
<1>9. /\ disk' \in [Volumes -> [Area -> Content]]
      /\ \A w \in Volumes \ {bpb} : disk'[w] = disk[w]
  BY <1>1, <1>4, <1>5, <1>6, <1>7, <1>8, WritesHere
<1> QED BY <1>1, <1>2, <1>3, <1>4, <1>6, <1>9

LEMMA ClustersHere ==
  ASSUME VolumeTypeOK, NEW v \in Volumes, mounted = v, NEW c \in Used[v] \cup {EndOfChain},
         WriteCluster(c)
  PROVE  LET x == ClusterSectors(Sectors[v], c) IN
         /\ bpb = v /\ Sectors[v] \in MinSectors .. MaxSectors
         /\ x = [first |-> x.first, count |-> x.count] /\ Inside(x, Sectors[v])
         /\ \/ x.first >= 32 + 2 * FatSize(Sectors[v])
            \/ /\ SectorsPerCluster(Sectors[v]) = 16 /\ FatSize(Sectors[v]) >= 49
               /\ x.first = 32 + 2 * FatSize(Sectors[v]) - 48 /\ x.count = 16
         /\ Overwrite(Moved(v, x), "files")
         /\ disk' \in [Volumes -> [Area -> Content]]
         /\ \A w \in Volumes \ {v} : disk'[w] = disk[w]
<1> DEFINE n == Sectors[v]
           x == ClusterSectors(n, c)
           Behind == x.first >= 32 + 2 * FatSize(n)
           InFat == /\ SectorsPerCluster(n) = 16 /\ FatSize(n) >= 49
                    /\ x.first = 32 + 2 * FatSize(n) - 48 /\ x.count = 16
<1>1. bpb = v /\ v # "none" BY VolumesAssumption DEF VolumeTypeOK
<1>2. n \in MinSectors .. MaxSectors /\ Start[v] \in Nat
      /\ DiskSectors \in 1 .. EndOfChain /\ Used[v] \subseteq RootCluster .. ClustersOf(n)
  BY VolumesAssumption
<1>3. x = [first |-> x.first, count |-> x.count] BY DEF ClusterSectors, Extent
<1>4. /\ Moved(v, x).first = x.first + Start[v] /\ Moved(v, x).count = x.count
  BY <1>3 DEF Moved
<1>5. Moved(v, x).first + Moved(v, x).count <= DiskSectors /\ Overwrite(Moved(v, x), "files")
  BY <1>1 DEF WriteCluster
<1>6. Inside(x, n) /\ (Behind \/ InFat)
  <2>1. CASE c \in Used[v]
    <3>1. c \in RootCluster .. ClustersOf(n) BY <1>2, <2>1
    <3> QED BY <1>2, <3>1, ClusterPlaced
  <2>2. CASE c = EndOfChain
    <3>1. x.first \in Int /\ x.count \in Nat
      <4>1. SectorsPerCluster(n) \in {1, 2, 4, 16} /\ FatSize(n) \in Nat BY <1>2, FatFits
      <4>2. x.first = FirstSectorPastEnd(n) /\ x.count = SectorsPerCluster(n)
        BY <2>2 DEF ClusterSectors, Extent
      <4>3. FirstSectorPastEnd(n) \in Int
        BY <4>1, SMT DEF FirstSectorPastEnd, FirstSectorOfCluster, FirstDataSector,
                         ReservedSectors, NumFATs, EndOfChain
      <4>4. x.count \in Nat BY <4>1, <4>2
      <4> QED BY <4>2, <4>3, <4>4
    <3> DEFINE first == x.first
               count == x.count
               begin == Start[v]
    <3>2. first + begin + count <= DiskSectors BY <1>4, <1>5
    <3>3. first + count <= EndOfChain
      <4> HIDE DEF first, count, begin
      <4>1. first \in Int /\ count \in Nat /\ begin \in Nat BY <1>2, <3>1 DEF first, count, begin
      <4>2. EndOfChain \in Nat BY MarkNumber
      <4>3. DiskSectors \in Int /\ DiskSectors <= EndOfChain BY <1>2, <4>2, SMT
      <4> QED BY <3>2, <4>1, <4>2, <4>3, SMT
    <3>4. /\ SectorsPerCluster(n) = 16 /\ FatSize(n) >= 49
          /\ x.first = 32 + 2 * FatSize(n) - 48 /\ x.count = 16
      BY <1>2, <2>2, <3>3, PastEndPlaced
    <3>5. /\ n \in Nat /\ FatSize(n) \in Nat /\ 32 + 2 * FatSize(n) + SectorsPerCluster(n) <= n
      BY <1>2, FatFits
    <3>6. Inside(x, n)
      <4> DEFINE f == FatSize(n)
      <4>1. first = 32 + 2 * f - 48 /\ count = 16 /\ f >= 49 /\ 32 + 2 * f + 16 <= n
        BY <3>4, <3>5
      <4>2. f \in Nat /\ n \in Nat BY <3>5
      <4> HIDE DEF f, n, first, count
      <4>3. first \in Nat /\ count \in Nat /\ first + count <= n BY <4>1, <4>2, SMT
      <4> QED BY <4>3 DEF first, count, Inside
    <3> QED BY <3>4, <3>6
  <2> QED BY <2>1, <2>2
<1>7. "files" \in Content /\ disk \in [Volumes -> [Area -> Content]]
  BY DEF Content, VolumeTypeOK
<1> HIDE DEF x
<1>8. /\ disk' \in [Volumes -> [Area -> Content]]
      /\ \A w \in Volumes \ {v} : disk'[w] = disk[w]
  BY <1>3, <1>5, <1>6, <1>7, WritesHere
<1> QED BY <1>1, <1>2, <1>3, <1>5, <1>6, <1>8 DEF x

-----------------------------------------------------------------------------
(* The theorems.  The invariant is needed for one thing: bpb, which places *)
(* every write of fat32_mount and of the file calls, is the volume that the*)
(* call was given or that the program mounted.                             *)

LEMMA VolumeInit == Init => VolumeTypeOK
<1>1. 0 \in 0 .. LastWrite /\ 0 \in 0 .. EndOfChain
  <2>1. 0 \in 0 .. LastWrite BY SMT DEF LastWrite
  <2> QED BY <2>1, MarkNumber
<1> QED BY <1>1 DEF Init, VolumeTypeOK, NoCall, Area, Content

\* One step: the types are kept, and only the volume of the call, or the one
\* mounted, changes.
LEMMA VolumeStep ==
  ASSUME VolumeTypeOK, Next
  PROVE  /\ VolumeTypeOK'
         /\ \A w \in Volumes : disk'[w] # disk[w] => w \in {call.volume, mounted}
<1>0. 0 \in 0 .. LastWrite /\ 1 \in 0 .. LastWrite /\ 0 \in 0 .. EndOfChain
  <2>1. 0 \in 0 .. LastWrite /\ 1 \in 0 .. LastWrite BY SMT DEF LastWrite
  <2> QED BY <2>1, MarkNumber
<1> USE DEF VolumeTypeOK
<1>1. ASSUME NEW v \in Volumes, BeginFormat(v) PROVE
        /\ VolumeTypeOK' /\ disk' = disk
  <2>1. /\ call' = [op |-> "create", volume |-> v, step |-> 1, cluster |-> 0]
        /\ bpb' = v /\ mounted' = "none" /\ unfinished' = unfinished \cup {v} /\ disk' = disk
    BY <1>1 DEF BeginFormat
  <2> QED BY <1>0, <2>1, VolumesAssumption
<1>2. ASSUME NEW v \in Volumes, BeginMount(v) PROVE
        /\ VolumeTypeOK' /\ disk' = disk
  <2>1. /\ mounted' = "none" /\ UNCHANGED <<disk, unfinished>>
        /\ \/ call' = [op |-> "mount", volume |-> v, step |-> 1, cluster |-> 0] /\ bpb' = v
           \/ call.op = "none" /\ call' = call /\ bpb' \in {"junk", bpb}
    BY <1>2 DEF BeginMount, TakesBPB
  <2> QED BY <1>0, <2>1, VolumesAssumption
<1>3. CASE FormatWrite
  <2> DEFINE write == FormatWrites(Sectors[call.volume])[call.step]
  <2>1. call.volume \in Volumes /\ call.step \in 1 .. LastWrite /\ call.op = "create"
    BY <1>3 DEF FormatWrite
  <2>2. write.value \in Content BY <2>1, VolumesAssumption, WritesInside
  <2>3. /\ disk' \in [Volumes -> [Area -> Content]]
        /\ \A w \in Volumes \ {call.volume} : disk'[w] = disk[w]
    BY <1>3, <2>1, <2>2, FormatWritesHere DEF FormatWrite
  <2>4. CASE call.step = LastWrite
    BY <1>0, <1>3, <2>1, <2>3, <2>4 DEF FormatWrite, EndCall, NoCall
  <2>5. CASE call.step # LastWrite
    <3>1. call.step + 1 \in 1 .. LastWrite BY <2>1, <2>5, SMT DEF LastWrite
    <3>2. /\ call'.op = "create" /\ call'.volume = call.volume
          /\ call'.step = call.step + 1
      BY <1>3, <2>5 DEF FormatWrite
    <3> QED BY <1>3, <2>1, <2>3, <2>5, <3>1, <3>2 DEF FormatWrite
  <2> QED BY <2>4, <2>5
<1>4. CASE FormatWriteFails
  BY <1>0, <1>4, HalfWritesHere DEF FormatWriteFails, EndCall, NoCall
<1>5. CASE WriteLabel
  <2>1. bpb = call.volume /\ bpb \in Volumes BY <1>5 DEF WriteLabel
  <2> QED BY <1>0, <1>5, <2>1, LabelWritesHere DEF WriteLabel, EndCall, NoCall
<1>6. CASE WriteLabelFails
  <2>1. bpb = call.volume /\ bpb \in Volumes BY <1>6 DEF WriteLabelFails
  <2> QED BY <1>0, <1>6, <2>1, LabelWritesHere DEF WriteLabelFails, EndCall, NoCall
<1>7. CASE UpdateFat \/ UpdateFails
  <2>1. call.op = "fat" /\ bpb \in Volumes /\ bpb = call.volume
    BY <1>7 DEF UpdateFat, UpdateFails
  <2>2. UNCHANGED disk \/ StoreEntry BY <1>7 DEF UpdateFat, UpdateFails
  <2>3. /\ disk' \in [Volumes -> [Area -> Content]]
        /\ \A w \in Volumes \ {call.volume} : disk'[w] = disk[w]
    BY <2>1, <2>2, UpdatesHere
  <2>4. UNCHANGED <<bpb, mounted, unfinished>> BY <1>7 DEF UpdateFat, UpdateFails
  <2>5. CASE EndCall BY <1>0, <2>3, <2>4, <2>5 DEF EndCall, NoCall
  <2>6. CASE call' = [call EXCEPT !.step = @ + 1] /\ call.step # NumFATs
    <3>1. call.step + 1 \in 1 .. LastWrite /\ call.step + 1 <= NumFATs /\ call.step + 1 # 0
      <4>1. call.step \in 0 .. LastWrite /\ call.step <= NumFATs BY <2>1
      <4> QED BY <2>6, <4>1, SMT DEF LastWrite, NumFATs
    <3>2. /\ call'.op = call.op /\ call'.volume = call.volume /\ call'.cluster = call.cluster
          /\ call'.step = call.step + 1
      BY <2>6
    <3>3. call' \in [op : {"none", "create", "mount", "fat"}, volume : Volumes \cup {"none"},
                     step : 0 .. LastWrite, cluster : 0 .. EndOfChain]
      <4>1. call.step + 1 \in 0 .. LastWrite BY <3>1, SMT DEF LastWrite
      <4> QED BY <2>6, <4>1
    <3> QED BY <2>1, <2>3, <2>4, <3>1, <3>2, <3>3
  <2> QED BY <1>7, <2>5, <2>6 DEF UpdateFat, UpdateFails
<1>8. CASE Crash
  BY <1>0, <1>8, HalfWritesHere DEF Crash, EndCall, NoCall
<1>9. CASE FileStep
  <2>1. PICK v \in Volumes :
          /\ mounted = v
          /\ \/ \E c \in Used[v] : BeginUpdate(c)
             \/ \E c \in Used[v] \cup {EndOfChain} : WriteCluster(c)
    BY <1>9 DEF FileStep
  <2>2. v # "none" /\ bpb = v BY <2>1, VolumesAssumption
  <2>3. CASE \E c \in Used[v] : BeginUpdate(c)
    <3>1. PICK c \in Used[v] : BeginUpdate(c) BY <2>3
    <3>2. c \in 0 .. EndOfChain
      <4>1. Sectors[v] \in MinSectors .. MaxSectors /\ c \in RootCluster .. ClustersOf(Sectors[v])
        BY VolumesAssumption
      <4> QED BY <4>1, ClusterPlaced
    <3>3. 1 <= NumFATs BY SMT DEF NumFATs
    <3>4. /\ call' = [op |-> "fat", volume |-> v, step |-> 1, cluster |-> c]
          /\ UNCHANGED <<disk, bpb, mounted, unfinished>>
      BY <2>1, <3>1 DEF BeginUpdate
    <3> QED BY <1>0, <2>1, <2>2, <3>2, <3>3, <3>4
  <2>4. CASE \E c \in Used[v] \cup {EndOfChain} : WriteCluster(c)
    <3>1. PICK c \in Used[v] \cup {EndOfChain} : WriteCluster(c) BY <2>4
    <3>2. /\ disk' \in [Volumes -> [Area -> Content]]
          /\ \A w \in Volumes \ {v} : disk'[w] = disk[w]
      BY <2>1, <3>1, ClustersHere
    <3>3. UNCHANGED <<bpb, mounted, call, unfinished>> BY <3>1 DEF WriteCluster
    <3> QED BY <2>1, <3>2, <3>3
  <2> QED BY <2>1, <2>3, <2>4
<1> QED BY <1>1, <1>2, <1>3, <1>4, <1>5, <1>6, <1>7, <1>8, <1>9 DEF Next, CallStep

\* The program never works on a volume with another one's BPB, however its calls
\* of create_fat32_volume and fat32_mount alternate, fail or are cut off.
THEOREM VolumeTypeCorrect == VolumeSpec => []VolumeTypeOK
<1>1. Init => VolumeTypeOK BY VolumeInit
<1>2. VolumeTypeOK /\ [Next]_volumeVars => VolumeTypeOK'
  <2>1. CASE Next BY <2>1, VolumeStep
  <2>2. CASE UNCHANGED volumeVars BY <2>2 DEF VolumeTypeOK, volumeVars
  <2> QED BY <2>1, <2>2
<1> QED BY <1>1, <1>2, PTL DEF VolumeSpec

\* Whichever volume the program has formatted or mounted last, of any size, its
\* clusters lie inside it and behind the FATs (fat32_bpb.c:80-89, 146-149).
THEOREM ClustersInsideAlways == VolumeSpec => []ClustersInside
<1>1. ASSUME NEW n \in MinSectors .. MaxSectors PROVE ClustersFit(n)
  <2>1. ClustersOf(n) \in Nat /\ ClustersOf(n) >= 1 BY EachClusterInPlace
  <2>2. /\ 2 \in 2 .. ClustersOf(n) + 1
        /\ ClustersOf(n) + 1 \in 2 .. ClustersOf(n) + 1
        /\ 2 <= ClustersOf(n) + 1
    BY <2>1, SMT
  <2>3. FirstSectorOfCluster(n, 2) >= FatStart(n, NumFATs) + FatSize(n)
    BY <2>2, EachClusterInPlace
  <2>4. FirstSectorOfCluster(n, ClustersOf(n) + 1) + SectorsPerCluster(n) <= n
    BY <2>2, EachClusterInPlace
  <2> QED BY <2>2, <2>3, <2>4, SMT DEF ClustersFit, RootCluster
<1>2. ClustersInside
  BY <1>1, VolumesAssumption DEF ClustersInside
<1> QED BY <1>2, PTL

\* On any number of volumes of any sizes, no call on one of them writes into
\* another.
THEOREM OneVolumeAtATime == VolumeSpec => VolumesApart
<1>1. VolumeTypeOK /\ [Next]_volumeVars
        => [\A v \in Volumes : disk'[v] # disk[v] => v \in {call.volume, mounted}]_volumeVars
  BY VolumeStep
<1> QED BY <1>1, VolumeTypeCorrect, PTL DEF VolumeSpec, VolumesApart

-----------------------------------------------------------------------------
(* What a format has written so far.                                       *)

Landmarks == {"boot", "fsinfo", "marks1", "rest1", "marks2", "rest2"}

\* The area that each write of a format is for.
Target == <<"boot", "backup", "fsinfo", "marks1", "rest1", "marks2", "rest2", "none">>

\* The areas of a volume of n sectors, after the writes before step.
SoFar(areas, n, step) ==
  /\ step > 1 => areas["boot"] = "bpb"
  /\ step > 3 => areas["fsinfo"] = "fsinfo"
  /\ step > 4 => areas["marks1"] = "marks"
  /\ step > 5 /\ FatSize(n) > 1 => areas["rest1"] = "zero"
  /\ step > 6 => areas["marks2"] = "marks"
  /\ step > 7 /\ FatSize(n) > 1 => areas["rest2"] = "zero"

Formatted(areas, n) ==
  /\ areas["boot"] = "bpb" /\ areas["fsinfo"] = "fsinfo"
  /\ {areas["marks1"], areas["marks2"]} \subseteq {"marks", "used"}
  /\ FatSize(n) > 1 =>
       /\ areas["rest1"] \in {"zero", "used"}
       /\ areas["rest2"] \in {"zero", "used"}
            \cup (IF SectorsPerCluster(n) = 16 THEN {"files"} ELSE {})

FormatInv ==
  /\ VolumeTypeOK
  /\ \A v \in Volumes \ unfinished : Formatted(disk[v], Sectors[v])
  /\ call.op = "create" =>
       /\ call.volume \in unfinished
       /\ SoFar(disk[call.volume], Sectors[call.volume], call.step)

\* A write of a format covers the area it is for, and no other landmark: the
\* clearing of the root directory, though in the wrong place, ends before the FATs.
LEMMA FormatHits ==
  ASSUME NEW n \in MinSectors .. MaxSectors, NEW i \in 1 .. LastWrite, NEW a \in Landmarks
  PROVE  /\ Target[i] # a => ~Meet(FormatWrites(n)[i].at, AreaExtent(n)[a])
         /\ Target[i] = a /\ (a \in {"rest1", "rest2"} => FatSize(n) > 1) =>
              Meet(FormatWrites(n)[i].at, AreaExtent(n)[a])
<1> DEFINE s == SectorsPerCluster(n)
           f == FatSize(n)
           w == FormatWrites(n)[i].at
           x == AreaExtent(n)[a]
<1>1. f \in Nat \ {0} /\ s \in {1, 2, 4, 16} BY FatFits
<1>2. FatStart(n, 1) = 32 + (1 - 1) * f /\ FatStart(n, 2) = 32 + (2 - 1) * f
  BY DEF FatStart, ReservedSectors
<1>3. FatStart(n, 1) = 32 /\ FatStart(n, 2) = 32 + f
  <2> HIDE DEF f
  <2> QED BY <1>1, <1>2, SMT
<1>4. /\ a = "boot" => x.first = 0 /\ x.count = 1
      /\ a = "fsinfo" => x.first = 1 /\ x.count = 1
      /\ a = "marks1" => x.first = 32 /\ x.count = 1
      /\ a = "rest1" => x.first = 32 + 1 /\ x.count = f - 1
      /\ a = "marks2" => x.first = 32 + f /\ x.count = 1
      /\ a = "rest2" => x.first = 32 + f + 1 /\ x.count = f - 1
  BY <1>3 DEF AreaExtent, Extent
<1>5. /\ i = 1 => w.first = 0 /\ w.count = 1
      /\ i = 2 => w.first = 6 /\ w.count = 1
      /\ i = 3 => w.first = 1 /\ w.count = 1
      /\ i = 4 => w.first = 32 /\ w.count = 1
      /\ i = 5 => w.first = 32 + 1 /\ w.count = f - 1
      /\ i = 6 => w.first = 32 + f /\ w.count = 1
      /\ i = 7 => w.first = 32 + f + 1 /\ w.count = f - 1
      /\ i = 8 => w.first = 2 /\ w.count = s
  BY <1>3 DEF FormatWrites, RestCleared, RootCluster, Write, Extent
<1>6. i \in {1, 2, 3, 4, 5, 6, 7, 8} BY SMT DEF LastWrite
<1>7. /\ i = 1 => Target[i] = "boot"
      /\ i = 2 => Target[i] = "backup"
      /\ i = 3 => Target[i] = "fsinfo"
      /\ i = 4 => Target[i] = "marks1"
      /\ i = 5 => Target[i] = "rest1"
      /\ i = 6 => Target[i] = "marks2"
      /\ i = 7 => Target[i] = "rest2"
      /\ i = 8 => Target[i] = "none"
  BY DEF Target
<1> DEFINE t == Target[i]
           wf == w.first
           wc == w.count
           xf == x.first
           xc == x.count
           Overlap == wf < xf + xc /\ xf < wf + wc
<1> SUFFICES /\ t # a => ~Overlap
             /\ t = a /\ (a \in {"rest1", "rest2"} => f > 1) => Overlap
  BY DEF Meet
<1> HIDE DEF w, x, f, s, t, wf, wc, xf, xc
<1>8. \/ a = "boot" /\ xf = 0 /\ xc = 1
      \/ a = "fsinfo" /\ xf = 1 /\ xc = 1
      \/ a = "marks1" /\ xf = 32 /\ xc = 1
      \/ a = "rest1" /\ xf = 33 /\ xc = f - 1
      \/ a = "marks2" /\ xf = 32 + f /\ xc = 1
      \/ a = "rest2" /\ xf = 33 + f /\ xc = f - 1
  BY <1>1, <1>4, SMT DEF Landmarks, xf, xc
<1>9. CASE i = 1
  <2>1. wf = 0 /\ wc = 1 /\ t = "boot" BY <1>5, <1>7, <1>9 DEF wf, wc, t
  <2> QED BY <1>1, <1>8, <2>1, SMT
<1>10. CASE i = 2
  <2>1. wf = 6 /\ wc = 1 /\ t = "backup" BY <1>5, <1>7, <1>10 DEF wf, wc, t
  <2> QED BY <1>1, <1>8, <2>1, SMT
<1>11. CASE i = 3
  <2>1. wf = 1 /\ wc = 1 /\ t = "fsinfo" BY <1>5, <1>7, <1>11 DEF wf, wc, t
  <2> QED BY <1>1, <1>8, <2>1, SMT
<1>12. CASE i = 4
  <2>1. wf = 32 /\ wc = 1 /\ t = "marks1" BY <1>5, <1>7, <1>12 DEF wf, wc, t
  <2> QED BY <1>1, <1>8, <2>1, SMT
<1>13. CASE i = 5
  <2>1. wf = 32 + 1 /\ wc = f - 1 /\ t = "rest1" BY <1>5, <1>7, <1>13 DEF wf, wc, t
  <2> QED BY <1>1, <1>8, <2>1, SMT
<1>14. CASE i = 6
  <2>1. wf = 32 + f /\ wc = 1 /\ t = "marks2" BY <1>5, <1>7, <1>14 DEF wf, wc, t
  <2> QED BY <1>1, <1>8, <2>1, SMT
<1>15. CASE i = 7
  <2>1. wf = 32 + f + 1 /\ wc = f - 1 /\ t = "rest2" BY <1>5, <1>7, <1>15 DEF wf, wc, t
  <2> QED BY <1>1, <1>8, <2>1, SMT
<1>16. CASE i = 8
  <2>1. wf = 2 /\ wc = s /\ t = "none" BY <1>5, <1>7, <1>16 DEF wf, wc, t
  <2> QED BY <1>1, <1>8, <2>1, SMT
<1> QED BY <1>6, <1>9, <1>10, <1>11, <1>12, <1>13, <1>14, <1>15, <1>16

\* Where the landmarks are.
LEMMA LandmarkPlaces ==
  ASSUME NEW n \in MinSectors .. MaxSectors, NEW a \in Landmarks
  PROVE  LET x == AreaExtent(n)[a] IN
         \/ a = "boot" /\ x.first = 0 /\ x.count = 1
         \/ a = "fsinfo" /\ x.first = 1 /\ x.count = 1
         \/ a = "marks1" /\ x.first = 32 /\ x.count = 1
         \/ a = "rest1" /\ x.first = 32 + 1 /\ x.count = FatSize(n) - 1
         \/ a = "marks2" /\ x.first = 32 + FatSize(n) /\ x.count = 1
         \/ a = "rest2" /\ x.first = 32 + FatSize(n) + 1 /\ x.count = FatSize(n) - 1
<1> DEFINE f == FatSize(n)
           x == AreaExtent(n)[a]
<1>1. f \in Nat \ {0} BY FatFits
<1>2. FatStart(n, 1) = 32 + (1 - 1) * f /\ FatStart(n, 2) = 32 + (2 - 1) * f
  BY DEF FatStart, ReservedSectors
<1>3. FatStart(n, 1) = 32 /\ FatStart(n, 2) = 32 + f
  <2> HIDE DEF f
  <2> QED BY <1>1, <1>2, SMT
<1>4. /\ a = "boot" => x.first = 0 /\ x.count = 1
      /\ a = "fsinfo" => x.first = 1 /\ x.count = 1
      /\ a = "marks1" => x.first = 32 /\ x.count = 1
      /\ a = "rest1" => x.first = 32 + 1 /\ x.count = f - 1
      /\ a = "marks2" => x.first = 32 + f /\ x.count = 1
      /\ a = "rest2" => x.first = 32 + f + 1 /\ x.count = f - 1
  BY <1>3 DEF AreaExtent, Extent
<1> QED BY <1>4 DEF Landmarks

\* The clusters lie behind them all; the sectors that FAT updates write, behind the
\* first two; and those past the end of a chain in the second FAT.
LEMMA FileWriteHits ==
  ASSUME NEW n \in MinSectors .. MaxSectors, NEW a \in Landmarks,
         NEW w, w.first \in Nat, w.count \in Nat
  PROVE  /\ w.first >= 32 + 2 * FatSize(n) => ~Meet(w, AreaExtent(n)[a])
         /\ w.first >= 32 /\ a \in {"boot", "fsinfo"} => ~Meet(w, AreaExtent(n)[a])
         /\ FatSize(n) >= 49 /\ w.first = 32 + 2 * FatSize(n) - 48 /\ a # "rest2" =>
              ~Meet(w, AreaExtent(n)[a])
<1> DEFINE f == FatSize(n)
           xf == AreaExtent(n)[a].first
           xc == AreaExtent(n)[a].count
           wf == w.first
           wc == w.count
<1>1. f \in Nat \ {0} /\ wf \in Nat /\ wc \in Nat BY FatFits
<1>2. \/ a = "boot" /\ xf = 0 /\ xc = 1
      \/ a = "fsinfo" /\ xf = 1 /\ xc = 1
      \/ a = "marks1" /\ xf = 32 /\ xc = 1
      \/ a = "rest1" /\ xf = 32 + 1 /\ xc = f - 1
      \/ a = "marks2" /\ xf = 32 + f /\ xc = 1
      \/ a = "rest2" /\ xf = 32 + f + 1 /\ xc = f - 1
  BY LandmarkPlaces
<1> DEFINE Overlap == wf < xf + xc /\ xf < wf + wc
<1> SUFFICES /\ wf >= 32 + 2 * f => ~Overlap
             /\ wf >= 32 /\ a \in {"boot", "fsinfo"} => ~Overlap
             /\ f >= 49 /\ wf = 32 + 2 * f - 48 /\ a # "rest2" => ~Overlap
  BY DEF Meet
<1> HIDE DEF f, xf, xc, wf, wc
<1> QED BY <1>1, <1>2, SMT

\* What a write inside a volume does to the areas of that volume.
LEMMA AreaWritten ==
  ASSUME NEW v \in Volumes, NEW extent, extent.first \in Nat, extent.count \in Nat,
         extent = [first |-> extent.first, count |-> extent.count],
         NEW value, Overwrite(Moved(v, extent), value), NEW a \in Area
  PROVE  disk'[v][a] = IF Meet(extent, AreaExtent(Sectors[v])[a]) THEN value ELSE disk[v][a]
<1> DEFINE area == AreaExtent(Sectors[v])[a]
<1>1. Inside(area, Sectors[v]) BY VolumesAssumption, AreasInside
<1>2. /\ Moved(v, extent).first = extent.first + Start[v]
      /\ Moved(v, extent).count = extent.count
  BY DEF Moved
<1>3. /\ Moved(v, area).first = area.first + Start[v]
      /\ Moved(v, area).count = area.count
  BY DEF Moved, AreaExtent, Area, Extent, ClusterExtent
<1>4. Start[v] \in Nat BY VolumesAssumption
<1>5. Meet(Moved(v, extent), Moved(v, area)) <=> Meet(extent, area)
  <2> HIDE DEF area
  <2> QED BY <1>1, <1>2, <1>3, <1>4, SMT DEF Meet, Inside
<1>6. <<v, a>> \in Hit(Moved(v, extent)) <=> Meet(extent, area)
  BY <1>5 DEF Hit
<1> QED BY <1>6 DEF Overwrite

LEMMA LandmarksAreAreas == Landmarks \subseteq Area
BY DEF Landmarks, Area

\* A landmark after a whole write of a format.
LEMMA LandmarkAfter ==
  ASSUME VolumeTypeOK, FormatWrite, NEW a \in Landmarks
  PROVE  LET v == call.volume
             value == FormatWrites(Sectors[v])[call.step].value
         IN  /\ Target[call.step] # a => disk'[v][a] = disk[v][a]
             /\ Target[call.step] = a /\ (a \in {"rest1", "rest2"} => FatSize(Sectors[v]) > 1) =>
                  disk'[v][a] = value
<1> DEFINE v == call.volume
           n == Sectors[v]
           extent == FormatWrites(n)[call.step].at
           value == FormatWrites(n)[call.step].value
<1>1. v \in Volumes /\ call.step \in 1 .. LastWrite BY DEF VolumeTypeOK, FormatWrite
<1>2. n \in MinSectors .. MaxSectors BY <1>1, VolumesAssumption
<1>3. Overwrite(Moved(v, extent), value) BY DEF FormatWrite
<1>4. Inside(extent, n) BY <1>1, <1>2, WritesInside
<1>5. extent = [first |-> extent.first, count |-> extent.count]
  <2>1. call.step \in {1, 2, 3, 4, 5, 6, 7, 8} BY <1>1, SMT DEF LastWrite
  <2> QED BY <2>1 DEF FormatWrites, Write, RestCleared, Extent
<1>6. /\ Target[call.step] # a => ~Meet(extent, AreaExtent(n)[a])
      /\ Target[call.step] = a /\ (a \in {"rest1", "rest2"} => FatSize(n) > 1) =>
           Meet(extent, AreaExtent(n)[a])
  BY <1>1, <1>2, FormatHits
<1> HIDE DEF extent, value
<1>7. disk'[v][a] = IF Meet(extent, AreaExtent(Sectors[v])[a]) THEN value ELSE disk[v][a]
  BY <1>1, <1>3, <1>4, <1>5, LandmarksAreAreas, AreaWritten DEF Inside
<1> QED BY <1>6, <1>7 DEF value

\* The value of each write.
LEMMA FormatValues ==
  ASSUME NEW n, NEW i \in 1 .. LastWrite
  PROVE  /\ Target[i] = "boot" => FormatWrites(n)[i].value = "bpb"
         /\ Target[i] = "fsinfo" => FormatWrites(n)[i].value = "fsinfo"
         /\ Target[i] \in {"marks1", "marks2"} => FormatWrites(n)[i].value = "marks"
         /\ Target[i] \in {"rest1", "rest2"} => FormatWrites(n)[i].value = "zero"
<1>1. i \in {1, 2, 3, 4, 5, 6, 7, 8} BY SMT DEF LastWrite
<1> QED BY <1>1 DEF FormatWrites, Write, Target

\* One more write of a format.
LEMMA SoFarStep ==
  ASSUME VolumeTypeOK, FormatWrite,
         SoFar(disk[call.volume], Sectors[call.volume], call.step)
  PROVE  SoFar(disk'[call.volume], Sectors[call.volume], call.step + 1)
<1> DEFINE n == Sectors[call.volume]
           old == disk[call.volume]
           new == disk'[call.volume]
           i == call.step
           t == Target[i]
           value == FormatWrites(n)[i].value
           After(a) == /\ t # a => new[a] = old[a]
                       /\ t = a /\ (a \in {"rest1", "rest2"} => FatSize(n) > 1) => new[a] = value
<1>1. i \in 1 .. LastWrite BY DEF VolumeTypeOK, FormatWrite
<1>2. i \in {1, 2, 3, 4, 5, 6, 7, 8} BY <1>1, SMT DEF LastWrite
<1>3. /\ After("boot") /\ After("fsinfo") /\ After("marks1") /\ After("rest1")
      /\ After("marks2") /\ After("rest2")
  BY LandmarkAfter DEF Landmarks
<1>4. /\ t = "boot" => value = "bpb"
      /\ t = "fsinfo" => value = "fsinfo"
      /\ t \in {"marks1", "marks2"} => value = "marks"
      /\ t \in {"rest1", "rest2"} => value = "zero"
  BY <1>1, FormatValues
<1>5. /\ i = 1 => t = "boot"
      /\ i = 2 => t = "backup"
      /\ i = 3 => t = "fsinfo"
      /\ i = 4 => t = "marks1"
      /\ i = 5 => t = "rest1"
      /\ i = 6 => t = "marks2"
      /\ i = 7 => t = "rest2"
      /\ i = 8 => t = "none"
  BY DEF Target
<1>6. SoFar(old, n, i) OBVIOUS
<1> HIDE DEF n, old, new, i, t, value
<1>7. i + 1 > 1 => new["boot"] = "bpb" BY <1>2, <1>3, <1>4, <1>5, <1>6 DEF SoFar
<1>8. i + 1 > 3 => new["fsinfo"] = "fsinfo" BY <1>2, <1>3, <1>4, <1>5, <1>6 DEF SoFar
<1>9. i + 1 > 4 => new["marks1"] = "marks" BY <1>2, <1>3, <1>4, <1>5, <1>6 DEF SoFar
<1>10. i + 1 > 5 /\ FatSize(n) > 1 => new["rest1"] = "zero"
  BY <1>2, <1>3, <1>4, <1>5, <1>6 DEF SoFar
<1>11. i + 1 > 6 => new["marks2"] = "marks" BY <1>2, <1>3, <1>4, <1>5, <1>6 DEF SoFar
<1>12. i + 1 > 7 /\ FatSize(n) > 1 => new["rest2"] = "zero"
  BY <1>2, <1>3, <1>4, <1>5, <1>6 DEF SoFar
<1>13. SoFar(new, n, i + 1) BY <1>7, <1>8, <1>9, <1>10, <1>11, <1>12 DEF SoFar
<1> QED BY <1>13 DEF new, n, i

\* All of them.
LEMMA SoFarFormatted ==
  ASSUME NEW areas, NEW n, SoFar(areas, n, LastWrite + 1)
  PROVE  Formatted(areas, n)
BY SMT DEF SoFar, Formatted, LastWrite

\* The label goes to the root directory, and leaves the landmarks alone.
LEMMA LabelKeeps ==
  ASSUME VolumeTypeOK, bpb \in Volumes, StoreLabel, NEW v \in Volumes,
         Formatted(disk[v], Sectors[v])
  PROVE  Formatted(disk'[v], Sectors[v])
<1>1. CASE v # bpb
  <2>1. disk'[v] = disk[v] BY <1>1, LabelWritesHere
  <2> QED BY <2>1
<1>2. CASE v = bpb
  <2> DEFINE extent == ClusterExtent(Sectors[v], RootCluster)
  <2>1. Sectors[v] \in MinSectors .. MaxSectors BY VolumesAssumption
  <2>2. Inside(extent, Sectors[v])
    <3>1. extent = AreaExtent(Sectors[v])["root"] BY DEF AreaExtent
    <3> QED BY <2>1, <3>1, AreasInside DEF Area
  <2>3. extent = [first |-> extent.first, count |-> extent.count]
    BY DEF ClusterExtent, Extent
  <2>4. Overwrite(Moved(v, extent), Labelled(v)) BY <1>2 DEF StoreLabel
  <2>5. \A a \in Landmarks : ~Meet(extent, AreaExtent(Sectors[v])[a])
    <3> DEFINE n == Sectors[v]
               f == FatSize(n)
               s == SectorsPerCluster(n)
    <3>1. extent.first = 32 + 2 * f + (2 - 2) * s
      BY DEF ClusterExtent, Extent, FirstSectorOfCluster, FirstDataSector, RootCluster,
             ReservedSectors, NumFATs
    <3>2. f \in Nat /\ s \in {1, 2, 4, 16} BY <2>1, FatFits
    <3>3. extent.first >= 32 + 2 * f
      <4> HIDE DEF extent, f, s
      <4> QED BY <3>1, <3>2, SMT
    <3> QED BY <2>1, <2>2, <3>3, FileWriteHits DEF Inside
  <2> HIDE DEF extent
  <2>6. \A a \in Landmarks : disk'[v][a] = disk[v][a]
    BY <2>2, <2>3, <2>4, <2>5, LandmarksAreAreas, AreaWritten DEF Inside
  <2> QED BY <2>6 DEF Landmarks, Formatted
<1> QED BY <1>1, <1>2

\* An entry of the FAT changes its two copies, and no more of the landmarks.
LEMMA UpdateKeeps ==
  ASSUME VolumeTypeOK, call.op = "fat", StoreEntry, NEW v \in Volumes,
         Formatted(disk[v], Sectors[v])
  PROVE  Formatted(disk'[v], Sectors[v])
<1> DEFINE n == Sectors[v]
<1>1. CASE v # bpb
  <2>1. disk'[v] = disk[v] BY <1>1, UpdatesHere
  <2> QED BY <2>1
<1>2. CASE v = bpb
  <2>1. PICK x : /\ x.first \in Nat /\ x.first >= 32 /\ x.count = 1
                 /\ x = [first |-> x.first, count |-> x.count]
                 /\ Overwrite(Moved(v, x), "used")
    BY <1>2, UpdatesHere
  <2>2. n \in MinSectors .. MaxSectors BY VolumesAssumption
  <2>3. x.count \in Nat BY <2>1
  <2>4. \A a \in Landmarks :
          disk'[v][a] = IF Meet(x, AreaExtent(n)[a]) THEN "used" ELSE disk[v][a]
    BY <2>1, <2>3, LandmarksAreAreas, AreaWritten
  <2>5. \A a \in {"boot", "fsinfo"} : ~Meet(x, AreaExtent(n)[a])
    BY <2>1, <2>2, <2>3, FileWriteHits DEF Landmarks
  <2>6. /\ disk'[v]["boot"] = disk[v]["boot"] /\ disk'[v]["fsinfo"] = disk[v]["fsinfo"]
        /\ \A a \in {"marks1", "rest1", "marks2", "rest2"} : disk'[v][a] \in {"used", disk[v][a]}
    BY <2>4, <2>5 DEF Landmarks
  <2> QED BY <2>6 DEF Formatted
<1> QED BY <1>1, <1>2

\* A cluster changes none of them, but for the second FAT past the end of a chain.
LEMMA ClusterKeeps ==
  ASSUME VolumeTypeOK, NEW u \in Volumes, mounted = u, NEW c \in Used[u] \cup {EndOfChain},
         WriteCluster(c), NEW v \in Volumes, Formatted(disk[v], Sectors[v])
  PROVE  Formatted(disk'[v], Sectors[v])
<1> DEFINE n == Sectors[v]
           x == ClusterSectors(n, c)
<1>1. CASE v # u
  <2>1. disk'[v] = disk[v] BY <1>1, ClustersHere
  <2> QED BY <2>1
<1>2. CASE v = u
  <2>1. /\ n \in MinSectors .. MaxSectors
        /\ x = [first |-> x.first, count |-> x.count] /\ Inside(x, n)
        /\ \/ x.first >= 32 + 2 * FatSize(n)
           \/ /\ SectorsPerCluster(n) = 16 /\ FatSize(n) >= 49
              /\ x.first = 32 + 2 * FatSize(n) - 48 /\ x.count = 16
        /\ Overwrite(Moved(v, x), "files")
    BY <1>2, ClustersHere
  <2> HIDE DEF x
  <2>2. \A a \in Landmarks :
          disk'[v][a] = IF Meet(x, AreaExtent(n)[a]) THEN "files" ELSE disk[v][a]
    BY <2>1, LandmarksAreAreas, AreaWritten DEF Inside
  <2>3. \A a \in Landmarks :
          a # "rest2" \/ SectorsPerCluster(n) # 16 => ~Meet(x, AreaExtent(n)[a])
    BY <2>1, FileWriteHits DEF Inside
  <2>4. \A a \in Landmarks : a # "rest2" => disk'[v][a] = disk[v][a]
    BY <2>2, <2>3
  <2>5. /\ disk'[v]["rest2"] \in {"files", disk[v]["rest2"]}
        /\ SectorsPerCluster(n) # 16 => disk'[v]["rest2"] = disk[v]["rest2"]
    BY <2>2, <2>3 DEF Landmarks
  <2> QED BY <2>4, <2>5 DEF Formatted, Landmarks
<1> QED BY <1>1, <1>2

LEMMA FormatStep ==
  ASSUME FormatInv, Next
  PROVE  FormatInv'
<1>0. VolumeTypeOK /\ VolumeTypeOK' BY VolumeStep DEF FormatInv
<1>1. ASSUME NEW v \in Volumes, BeginFormat(v) PROVE FormatInv'
  <2>1. /\ disk' = disk /\ unfinished' = unfinished \cup {v}
        /\ call' = [op |-> "create", volume |-> v, step |-> 1, cluster |-> 0]
    BY <1>1 DEF BeginFormat
  <2>2. SoFar(disk[v], Sectors[v], 1) BY SMT DEF SoFar
  <2> QED BY <1>0, <2>1, <2>2 DEF FormatInv
<1>2. ASSUME NEW v \in Volumes, BeginMount(v) PROVE FormatInv'
  <2>1. disk' = disk /\ unfinished' = unfinished /\ call'.op # "create"
    BY <1>2 DEF BeginMount, NoCall
  <2> QED BY <1>0, <2>1 DEF FormatInv
<1>3. CASE FormatWrite
  <2> DEFINE v == call.volume
  <2>1. /\ call.op = "create" /\ v \in unfinished /\ SoFar(disk[v], Sectors[v], call.step)
        /\ call.step \in 1 .. LastWrite /\ v \in Volumes
    BY <1>3 DEF FormatWrite, FormatInv, VolumeTypeOK
  <2>2. SoFar(disk'[v], Sectors[v], call.step + 1) BY <1>0, <1>3, <2>1, SoFarStep
  <2>3. \A w \in Volumes \ {v} : disk'[w] = disk[w]
    <3>1. FormatWrites(Sectors[v])[call.step].value \in Content
      BY <2>1, VolumesAssumption, WritesInside
    <3> QED BY <1>0, <1>3, <2>1, <3>1, FormatWritesHere DEF FormatWrite
  <2>4. \A w \in Volumes \ unfinished : Formatted(disk'[w], Sectors[w])
    BY <2>1, <2>3 DEF FormatInv
  <2>5. CASE call.step = LastWrite
    <3>1. Formatted(disk'[v], Sectors[v]) BY <2>2, <2>5, SoFarFormatted
    <3>2. call'.op # "create" /\ unfinished' = unfinished \ {v}
      BY <1>3, <2>5 DEF FormatWrite, EndCall, NoCall
    <3> QED BY <1>0, <2>4, <3>1, <3>2 DEF FormatInv
  <2>6. CASE call.step # LastWrite
    <3>1. call' = [call EXCEPT !.step = @ + 1] /\ unfinished' = unfinished
      BY <1>3, <2>6 DEF FormatWrite
    <3>2. call'.volume = v /\ call'.step = call.step + 1
      BY <1>0, <3>1 DEF VolumeTypeOK
    <3> QED BY <1>0, <2>1, <2>2, <2>4, <3>1, <3>2 DEF FormatInv
  <2> QED BY <2>5, <2>6
<1>4. CASE FormatWriteFails \/ Crash
  <2>1. unfinished' = unfinished /\ call'.op # "create"
    BY <1>4 DEF FormatWriteFails, Crash, EndCall, NoCall
  <2>2. UNCHANGED disk \/ HalfWritten BY <1>4 DEF FormatWriteFails, Crash
  <2>3. \A w \in Volumes \ unfinished : disk'[w] = disk[w]
    <3>1. CASE UNCHANGED disk BY <3>1
    <3>2. CASE HalfWritten
      <4>1. call.volume \in unfinished BY <3>2 DEF HalfWritten, FormatInv
      <4> QED BY <1>0, <3>2, <4>1, HalfWritesHere
    <3> QED BY <2>2, <3>1, <3>2
  <2> QED BY <1>0, <2>1, <2>3 DEF FormatInv
<1>5. CASE WriteLabel \/ WriteLabelFails
  <2>1. bpb \in Volumes /\ unfinished' = unfinished /\ call'.op # "create"
    BY <1>0, <1>5 DEF WriteLabel, WriteLabelFails, VolumeTypeOK, EndCall, NoCall
  <2>2. UNCHANGED disk \/ StoreLabel BY <1>5 DEF WriteLabel, WriteLabelFails
  <2>3. \A w \in Volumes \ unfinished : Formatted(disk'[w], Sectors[w])
    BY <1>0, <2>1, <2>2, LabelKeeps DEF FormatInv
  <2> QED BY <1>0, <2>1, <2>3 DEF FormatInv
<1>6. CASE UpdateFat \/ UpdateFails
  <2>1. /\ call.op = "fat" /\ UNCHANGED unfinished /\ (UNCHANGED disk \/ StoreEntry)
        /\ call'.op # "create"
    BY <1>0, <1>6 DEF UpdateFat, UpdateFails, EndCall, NoCall, VolumeTypeOK
  <2>2. ASSUME NEW w \in Volumes \ unfinished PROVE Formatted(disk'[w], Sectors[w])
    BY <1>0, <2>1, UpdateKeeps DEF FormatInv
  <2> QED BY <1>0, <2>1, <2>2 DEF FormatInv
<1>7. CASE FileStep
  <2>1. PICK v \in Volumes :
          /\ mounted = v
          /\ \/ \E c \in Used[v] : BeginUpdate(c)
             \/ \E c \in Used[v] \cup {EndOfChain} : WriteCluster(c)
    BY <1>7 DEF FileStep
  <2>2. CASE \E c \in Used[v] : BeginUpdate(c)
    <3>1. UNCHANGED <<disk, unfinished>> /\ call'.op # "create" BY <2>2 DEF BeginUpdate
    <3> QED BY <1>0, <3>1 DEF FormatInv
  <2>3. CASE \E c \in Used[v] \cup {EndOfChain} : WriteCluster(c)
    <3>1. PICK c \in Used[v] \cup {EndOfChain} : WriteCluster(c) BY <2>3
    <3>2. UNCHANGED <<call, unfinished>> /\ call.op = "none" BY <3>1 DEF WriteCluster
    <3>3. ASSUME NEW w \in Volumes \ unfinished PROVE Formatted(disk'[w], Sectors[w])
      BY <1>0, <2>1, <3>1, ClusterKeeps DEF FormatInv
    <3> QED BY <1>0, <3>2, <3>3 DEF FormatInv
  <2> QED BY <2>1, <2>2, <2>3
<1> QED BY <1>1, <1>2, <1>3, <1>4, <1>5, <1>6, <1>7 DEF Next, CallStep

\* On any number of volumes of any sizes, and wherever a format, a mount, a write of a
\* file's cluster or the update of a FAT copy fails or is cut off: on a volume that
\* mounts, and whose format returned true, both copies of the FAT hold what the format
\* wrote there or an update since, except where f_write goes past the end of a chain
\* with clusters of 16 sectors; and no update, though the FAT be too small for it, gets
\* to the boot sector.
THEOREM MountedSoundAlways == VolumeSpec => []MountedSound
<1>1. Init => FormatInv
  BY VolumeInit DEF Init, NoCall, FormatInv
<1>2. FormatInv /\ [Next]_volumeVars => FormatInv'
  <2>1. CASE Next BY <2>1, FormatStep
  <2>2. CASE UNCHANGED volumeVars BY <2>2 DEF FormatInv, VolumeTypeOK, volumeVars
  <2> QED BY <2>1, <2>2
<1>3. FormatInv => MountedSound
  BY DEF FormatInv, VolumeTypeOK, Formatted, MountedSound
<1> QED BY <1>1, <1>2, <1>3, PTL DEF VolumeSpec

-----------------------------------------------------------------------------
\* The comment in create_bpb_fat32 says "Total sectors required to store FAT", but
\* the two reserved entries are left out and the size follows from a cluster count
\* that a larger FAT has reduced: there is a volume in whose first FAT the entry of
\* the last cluster but one, which the allocator hands out, falls into the second.
THEOREM FatTooSmall ==
  \E n \in MinSectors .. MaxSectors :
    FatSectorOfCluster(n, ClustersOf(n), 1) >= FatStart(n, 2)
<1> DEFINE n == 57378
<1>1. SectorsPerCluster(n) = 1
  BY SMT DEF SectorsPerCluster
<1>2. ClustersBeside(n, 0) = 57346
  BY <1>1, SMT DEF ClustersBeside, ReservedSectors, NumFATs
<1>3. FatSectors(57346) = 449
  BY SMT DEF FatSectors, SectorSize
<1>4. ClustersBeside(n, 449) = 56448
  BY <1>1, SMT DEF ClustersBeside, ReservedSectors, NumFATs
<1>5. FatSectors(56448) = 441
  BY SMT DEF FatSectors, SectorSize
<1>6. FatSize(n) = 441
  BY <1>2, <1>3, <1>4, <1>5 DEF FatSize
<1>7. ClustersOf(n) = 56464
  BY <1>1, <1>6, SMT DEF ClustersOf, ClustersBeside, ReservedSectors, NumFATs
<1>8. FatStart(n, 1) = 32 /\ FatStart(n, 2) = 473
  BY <1>6, SMT DEF FatStart, ReservedSectors
<1>9. FatSectorOfCluster(n, 56464, 1) = 473
  BY <1>8, SMT DEF FatSectorOfCluster, SectorSize
<1>10. n \in MinSectors .. MaxSectors
  <2>1. MinSectors \in Int /\ MaxSectors \in Int /\ MinSectors <= n /\ n <= MaxSectors
    BY SMT DEF MinSectors, MaxSectors
  <2> QED BY <2>1, SMT
<1> QED BY <1>7, <1>8, <1>9, <1>10
=============================================================================

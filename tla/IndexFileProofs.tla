-------------------------- MODULE IndexFileProofs --------------------------
(***************************************************************************)
(* Proofs about IndexFile, for any volume, any sizes and any other files   *)
(* that take and free space meanwhile.  A header is found by its place in  *)
(* the index file, so the first facts are about maps: blocks of a file     *)
(* are apart, and stay where they are when the map grows.  On these rests  *)
(* what each slot holds; on that, the chain of the index file's own        *)
(* headers; and on the chain, that there is always a way to grow.          *)
(***************************************************************************)
EXTENDS IndexFile, ExtentFacts

-----------------------------------------------------------------------------
(* The invariants.                                                         *)

\* No cluster is in two extents of a map.
Apart(map) ==
    \A i, j \in DOMAIN map : i # j => ClustersOf(map[i]) \cap ClustersOf(map[j]) = {}

GoodMap == {map \in Seq(GoodExtent) : Len(map) * PointerWords <= MapWords}

GoodHeader == [owner : Owners, map : GoodMap, ext : FileNumbers \cup {0}, highWater : Nat]

GoodCall ==
    [step : Steps, file : FileNumbers \cup {0}, blocks : Nat, more : Nat, newSegment : BOOLEAN,
     have : Nat, todo : Seq(GoodExtent), tail : FileNumbers \cup {0},
     segment : FileNumbers \cup {0}]

Typed ==
    /\ block \in [Clusters -> GoodHeader]
    /\ free \in SUBSET Clusters /\ files \in SUBSET Clusters /\ used \in SUBSET FileNumbers
    /\ extents \in Seq(GoodExtent)
    /\ primary \in GoodHeader /\ primary.owner = "index"
    /\ call \in GoodCall /\ growth \in Growths

\* A cluster is free, a file's, in one extent of the index file, taken for it and
\* not yet recorded in one, or lost; never two of these.
SpaceApart ==
    /\ Apart(extents) /\ Apart(call.todo)
    /\ Claimed(extents) \cap Claimed(call.todo) = {}
    /\ free \cap files = {}
    /\ (free \cup files) \cap (Claimed(extents) \cup Claimed(call.todo)) = {}

\* The first extent is where INITIALIZE put the index file, from the first cluster.
FirstInPlace ==
    /\ extents # <<>> /\ extents[1].start = 0 /\ FirstBlocks <= extents[1].count
    /\ \A n \in 1 .. ReservedFiles : n \in used

Growing == call.step \in {"extend", "place", "segment", "zero", "record"}

\* A call has what it needs to go on: it makes a header for a file that is not
\* reserved, whose slot the growth will reach; the last header and the new
\* segment are slots the index file has, in use and not the file's.
Underway ==
    /\ call.step = "none" => call = NoCall
    /\ call.step # "none" => call.file \in FileNumbers /\ call.file > ReservedFiles
    /\ call.step = "header" => SlotMapped(extents, call.file) /\ ~call.newSegment
    /\ Growing =>
          /\ call.file \in used
          /\ call.have <= MappedBlocks(extents) /\ primary.highWater <= call.have + 1
          /\ HeaderVbn(call.file) <= MappedBlocks(extents) + MappedBlocks(call.todo)
                                     + (IF call.step = "extend" THEN call.blocks ELSE 0)
    /\ call.step = "extend" => call.blocks > 0 /\ call.have = MappedBlocks(extents)
    /\ call.step \in {"zero", "record"} => ~call.newSegment
    /\ call.newSegment => /\ call.have = MappedBlocks(extents) /\ call.more = 0
                          /\ call.step = "place" => call.todo # <<>>
    /\ call.step \notin {"place", "segment"} => call.todo = <<>>
    /\ call.step \in {"place", "segment"} =>
          /\ call.tail \in used \ {call.file, call.segment} /\ SlotMapped(extents, call.tail)
          /\ SessionHeader(call.tail).owner = "index"
    /\ call.step # "segment" => call.segment = 0
    /\ call.step = "segment" =>
          /\ call.todo # <<>> /\ call.segment \in used \ {call.file}
          /\ SlotMapped(extents, call.segment)

\* Slots that hold no header, or none yet.
Vacant == (FileNumbers \ used) \cup (IF Growing THEN {call.file} ELSE {})

\* What was never the index file's was never a header.  A slot that is vacant
\* holds none either, and is blank below the high-water mark; a growth that is
\* under way has blanked it below the blocks it adds, or these as well.
VacantIsBlank ==
    /\ \A c \in Clusters \ Claimed(extents) : block[c].owner \in {"none", "leftover"}
    /\ primary.highWater <= MappedBlocks(extents) + 1
    /\ \A n \in Vacant : SlotMapped(extents, n) =>
          /\ HeaderIn(extents, n).owner \in {"none", "leftover"}
          /\ LooksUnused(n)
          /\ Growing /\ HeaderVbn(n) <= call.have => HeaderIn(extents, n).owner = "none"
          /\ call.step = "record" => HeaderIn(extents, n).owner = "none"
    /\ call.step = "header" /\ SlotMapped(extents, call.file) =>
          HeaderIn(extents, call.file).owner \in {"none", "leftover"}

\* Slots in use hold headers, below the blocks that a growth adds.
UsedHoldHeaders ==
    /\ \A n \in used \ {call.file, call.segment} :
          SlotMapped(extents, n) /\ HeaderIn(extents, n).owner \in {"file", "index"}
    /\ Growing => \A n \in used \ {call.file} : HeaderVbn(n) <= call.have

HInv ==
    /\ Typed /\ SpaceApart /\ FirstInPlace /\ Underway /\ VacantIsBlank
    /\ growth # "overflowed" => UsedHoldHeaders

\* Header i of the index file, of those in the slots s, has its extents p[i - 1] + 1
\* to p[i].  The next one is in a block that the headers so far map, so that a
\* mount gets to it.
Linked(s, p, i) ==
    /\ s[i] \in used \ {call.file, call.segment} /\ SlotMapped(extents, s[i])
    /\ HeaderIn(extents, s[i]).owner = "index"
    /\ HeaderIn(extents, s[i]).map = SubSeq(extents, p[i - 1] + 1, p[i])
    /\ HeaderIn(extents, s[i]).ext = IF i = Len(s) THEN call.segment ELSE s[i + 1]
    /\ i < Len(s) => SlotMapped(SubSeq(extents, 1, p[i]), s[i + 1])

\* The headers of the index file are in the slots s, the primary one first.
Chained(s, p) ==
    /\ s \in Seq(FileNumbers) /\ s # <<>> /\ s[1] = IndexFileNumber
    /\ \A i, j \in 1 .. Len(s) : i # j => s[i] # s[j]
    /\ p \in [0 .. Len(s) -> 0 .. Len(extents)] /\ p[0] = 0 /\ p[Len(s)] = Len(extents)
    /\ \A i, j \in 0 .. Len(s) : i < j => p[i] < p[j]
    /\ \A i \in 1 .. Len(s) : Linked(s, p, i)
    /\ call.step \in {"place", "segment"} => call.tail = s[Len(s)]

ChainWhole ==
    /\ primary = HeaderIn(extents, IndexFileNumber)
    /\ \E s, p : Chained(s, p)

CInv == HInv /\ (growth # "overflowed" => ChainWhole)

\* A header of k pointers has room for n more.
RoomFor(k, n) == (k + n) * PointerWords <= MapWords

\* The last header.
LastHeader == SessionHeader(TailSlot)

\* As long as growths go as reckoned, one extent each, and k is the number of
\* pointers in the last header: it has room for a pointer between calls, and for
\* two before a growth that has no second; the second one has a slot right after
\* the file's, which the first one made.
RoomLeft(k) ==
    /\ ~Growing => RoomFor(k, 1)
    /\ call.step = "extend" /\ ~call.newSegment => RoomFor(k, IF call.more = 0 THEN 2 ELSE 1)
    /\ call.step = "place" /\ ~call.newSegment =>
          /\ Len(call.todo) <= 1
          /\ RoomFor(k, Len(call.todo) + IF call.more = 0 THEN 1 ELSE 0)
    /\ call.step \in {"zero", "record"} /\ call.more = 0 => RoomFor(k, 1)
    /\ call.step = "segment" => call.newSegment
    /\ call.newSegment /\ call.step \in {"place", "segment"} => Len(call.todo) = 1
    /\ Growing => \A n \in FileNumbers : n < call.file => n \in used
    /\ Growing /\ call.more > 0 =>
          /\ call.have < HeaderVbn(call.file)
          /\ HeaderVbn(call.file) + 1 = MappedBlocks(extents) + MappedBlocks(call.todo)
                                     + (IF call.step = "extend" THEN call.blocks ELSE 0)
    /\ call.newSegment /\ call.step # "segment" /\ call.file # MaxFiles =>
          call.file + 1 \notin used /\ HeaderVbn(call.file + 1) <= call.have

\* No cluster is lost.
NothingUnrecorded == free \cup files \cup Claimed(extents) \cup Claimed(call.todo) = Clusters

GInv ==
    /\ CInv
    /\ growth = "planned" =>
          /\ NothingUnrecorded
          /\ \E s, p : Chained(s, p) /\ RoomLeft(p[Len(s)] - p[Len(s) - 1])

-----------------------------------------------------------------------------
(* Maps: which block is where.                                             *)

\* The blocks mapped before extent i.
Before(map, i) == MappedBlocks(SubSeq(map, 1, i - 1))

\* Extent i of map has block v.
At(map, i, v) ==
    i \in DOMAIN map /\ Before(map, i) < v /\ v <= Before(map, i) + map[i].count

\* Map grown has the blocks of map where map has them, and may have more.
Prolongs(grown, map) ==
    \A i \in DOMAIN map :
        /\ i \in DOMAIN grown /\ SubSeq(grown, 1, i - 1) = SubSeq(map, 1, i - 1)
        /\ grown[i].start = map[i].start /\ map[i].count <= grown[i].count

\* The sizes of a part and of a union of sets that are apart.
LEMMA PartSize ==
  ASSUME NEW T, IsFiniteSet(T), NEW S, S \subseteq T
  PROVE  IsFiniteSet(S) /\ Cardinality(S) \in Nat /\ Cardinality(T) \in Nat
         /\ Cardinality(S) <= Cardinality(T)
BY FS_Subset, FS_CardinalityType

\* A cluster is counted once.
LEMMA UnionSize ==
  ASSUME NEW S, IsFiniteSet(S), NEW T, IsFiniteSet(T), S \cap T = {}
  PROVE  Cardinality(S \cup T) = Cardinality(S) + Cardinality(T)
<1>1. Cardinality(S \cap T) = 0
  BY FS_EmptySet
<1>2. Cardinality(S) \in Nat /\ Cardinality(T) \in Nat
  BY FS_CardinalityType
<1>3. Cardinality(S \cup T) = Cardinality(S) + Cardinality(T) - Cardinality(S \cap T)
  BY FS_Union
<1>4. QED
  BY <1>1, <1>2, <1>3

\* The clusters of an extent.
LEMMA ExtentFinite ==
  ASSUME NEW e \in GoodExtent
  PROVE  /\ e \in Extent /\ e.start \in Nat /\ e.count \in Nat \ {0} /\ ClustersOf(e) \subseteq Clusters
         /\ ClustersOf(e) = e.start .. e.start + e.count - 1
         /\ IsFiniteSet(ClustersOf(e)) /\ Cardinality(ClustersOf(e)) = e.count
<1>1. e \in Extent /\ e.start \in Nat /\ e.count \in Nat \ {0} /\ ClustersOf(e) \subseteq Clusters
  BY ExtentsAreRuns DEF GoodExtent
<1>2. QED
  BY <1>1, SpanSize DEF ClustersOf, Span

\* The clusters of a map are clusters of the volume.
LEMMA MapFinite ==
  ASSUME NEW map \in Seq(GoodExtent)
  PROVE  /\ Claimed(map) \subseteq Clusters /\ IsFiniteSet(Claimed(map))
         /\ MappedBlocks(map) \in Nat
<1>1. Claimed(map) \subseteq Clusters
  BY ExtentFinite DEF Claimed
<1>2. IsFiniteSet(Claimed(map))
  BY <1>1, ClustersAreNumbers, FS_Subset
<1>3. QED
  BY <1>1, <1>2, FS_CardinalityType DEF MappedBlocks

\* The first extents of a map.
LEMMA PrefixFacts ==
  ASSUME NEW map \in Seq(GoodExtent), NEW i \in 0 .. Len(map)
  PROVE  /\ SubSeq(map, 1, i) \in Seq(GoodExtent) /\ Len(SubSeq(map, 1, i)) = i
         /\ \A j \in 1 .. i : SubSeq(map, 1, i)[j] = map[j]
         /\ Claimed(SubSeq(map, 1, i)) = UNION {ClustersOf(map[j]) : j \in 1 .. i}
         /\ MappedBlocks(SubSeq(map, 1, i)) \in Nat
         /\ Apart(map) => Apart(SubSeq(map, 1, i))
<1>1. /\ SubSeq(map, 1, i) \in Seq(GoodExtent) /\ Len(SubSeq(map, 1, i)) = i
      /\ \A j \in 1 .. i : SubSeq(map, 1, i)[j] = map[j]
  OBVIOUS
<1>2. DOMAIN SubSeq(map, 1, i) = 1 .. i
  BY <1>1
<1>3. Claimed(SubSeq(map, 1, i)) = UNION {ClustersOf(map[j]) : j \in 1 .. i}
  BY <1>1, <1>2 DEF Claimed
<1>4. MappedBlocks(SubSeq(map, 1, i)) \in Nat
  BY <1>1, MapFinite
<1>5. Apart(map) => Apart(SubSeq(map, 1, i))
  <2>1. 1 .. i \subseteq DOMAIN map
    OBVIOUS
  <2>2. QED
    BY <1>1, <1>2, <2>1 DEF Apart
<1>6. QED
  BY <1>1, <1>3, <1>4, <1>5

\* Blocks are counted extent by extent.
LEMMA BeforeFacts ==
  ASSUME NEW map \in Seq(GoodExtent), Apart(map)
  PROVE  /\ \A i \in 1 .. Len(map) + 1 : Before(map, i) \in Nat
         /\ Before(map, 1) = 0 /\ Before(map, Len(map) + 1) = MappedBlocks(map)
         /\ \A i \in DOMAIN map : Before(map, i + 1) = Before(map, i) + map[i].count
         /\ \A i, j \in 1 .. Len(map) + 1 : i <= j => Before(map, i) <= Before(map, j)
<1> DEFINE Part(i) == UNION {ClustersOf(map[j]) : j \in 1 .. i - 1}
<1>1. \A i \in 1 .. Len(map) + 1 : /\ Claimed(SubSeq(map, 1, i - 1)) = Part(i)
                                   /\ Before(map, i) = Cardinality(Part(i)) /\ Before(map, i) \in Nat
  <2>1. TAKE i \in 1 .. Len(map) + 1
  <2>2. i - 1 \in 0 .. Len(map)
    OBVIOUS
  <2>3. Claimed(SubSeq(map, 1, i - 1)) = Part(i) /\ MappedBlocks(SubSeq(map, 1, i - 1)) \in Nat
    BY <2>2, PrefixFacts
  <2>4. QED
    BY <2>3 DEF Before, MappedBlocks
<1>2. Before(map, 1) = 0
  <2>1. Part(1) = {}
    OBVIOUS
  <2>2. QED
    BY <1>1, <2>1, FS_EmptySet
<1>3. Before(map, Len(map) + 1) = MappedBlocks(map)
  <2>1. Part(Len(map) + 1) = Claimed(map)
    BY DEF Claimed
  <2>2. Len(map) + 1 \in 1 .. Len(map) + 1
    OBVIOUS
  <2>3. QED
    BY <1>1, <2>1, <2>2 DEF MappedBlocks
<1>4. \A i \in 1 .. Len(map) + 1 : IsFiniteSet(Part(i))
  <2>1. TAKE i \in 1 .. Len(map) + 1
  <2>2. i - 1 \in 0 .. Len(map)
    OBVIOUS
  <2>3. IsFiniteSet(Claimed(SubSeq(map, 1, i - 1)))
    BY <2>2, PrefixFacts, MapFinite
  <2>4. QED
    BY <1>1, <2>3
<1>5. ASSUME NEW i \in DOMAIN map
      PROVE  Before(map, i + 1) = Before(map, i) + map[i].count
  <2>1. i \in Nat /\ i \in 1 .. Len(map) + 1 /\ i + 1 \in 1 .. Len(map) + 1 /\ map[i] \in GoodExtent
    OBVIOUS
  <2>2. Part(i + 1) = Part(i) \cup ClustersOf(map[i])
    <3>1. 1 .. (i + 1) - 1 = (1 .. i - 1) \cup {i}
      BY <2>1
    <3>2. QED
      BY <3>1
  <2>3. Part(i) \cap ClustersOf(map[i]) = {}
    <3>1. \A j \in 1 .. i - 1 : j \in DOMAIN map /\ j # i
      BY <2>1
    <3>2. QED
      BY <3>1 DEF Apart
  <2>4. Cardinality(Part(i + 1)) = Cardinality(Part(i)) + Cardinality(ClustersOf(map[i]))
    <3>1. IsFiniteSet(Part(i)) /\ IsFiniteSet(ClustersOf(map[i]))
      BY <1>4, <2>1, ExtentFinite
    <3> HIDE DEF Part
    <3>2. QED
      BY <2>2, <2>3, <3>1, UnionSize
  <2>5. QED
    BY <1>1, <2>1, <2>4, ExtentFinite
<1>6. ASSUME NEW i \in 1 .. Len(map) + 1, NEW j \in 1 .. Len(map) + 1, i <= j
      PROVE  Before(map, i) <= Before(map, j)
  <2>1. Part(i) \subseteq Part(j)
    BY <1>6
  <2>2. QED
    <3>1. IsFiniteSet(Part(j))
      BY <1>4
    <3>2. Before(map, i) = Cardinality(Part(i)) /\ Before(map, j) = Cardinality(Part(j))
      BY <1>1
    <3> HIDE DEF Part
    <3>3. Cardinality(Part(i)) <= Cardinality(Part(j))
      BY <2>1, <3>1, PartSize
    <3>4. QED
      BY <3>2, <3>3
<1>7. QED
  BY <1>1, <1>2, <1>3, <1>5, <1>6

\* Every block of a file is in one extent, at one place of it.
LEMMA BlockHasExtent ==
  ASSUME NEW map \in Seq(GoodExtent), Apart(map), NEW v \in 1 .. MappedBlocks(map)
  PROVE  \E i \in DOMAIN map : At(map, i, v)
<1> DEFINE Past == {i \in 1 .. Len(map) + 1 : v <= Before(map, i)}
<1>1. MappedBlocks(map) \in Nat /\ v \in Nat /\ 1 <= v /\ v <= MappedBlocks(map)
  BY MapFinite
<1>2. Len(map) + 1 \in Past
  BY <1>1, BeforeFacts
<1>3. PICK least \in Past : \A i \in Past : least <= i
  BY <1>2, LeastNatural, Past \subseteq Nat
<1>4. least # 1
  BY <1>1, BeforeFacts
<1>5. least - 1 \in DOMAIN map /\ least - 1 \in 1 .. Len(map) + 1 /\ least - 1 \notin Past
  BY <1>3, <1>4
<1>6. Before(map, least) = Before(map, least - 1) + map[least - 1].count
  BY <1>5, BeforeFacts
<1>7. Before(map, least - 1) \in Nat
  BY <1>5, BeforeFacts
<1>8. Before(map, least - 1) < v /\ v <= Before(map, least - 1) + map[least - 1].count
  BY <1>1, <1>3, <1>5, <1>6, <1>7
<1>9. QED
  BY <1>5, <1>8 DEF At

\* Only one: the extents before it end below it, those after it start above it.
LEMMA OneExtent ==
  ASSUME NEW map \in Seq(GoodExtent), Apart(map), NEW v \in Nat,
         NEW i, NEW j, At(map, i, v), At(map, j, v)
  PROVE  i = j
<1>1. i \in DOMAIN map /\ j \in DOMAIN map
  BY DEF At
<1>2. ASSUME NEW k \in DOMAIN map, NEW m \in DOMAIN map, At(map, k, v), At(map, m, v), k < m
      PROVE  FALSE
  <2>1. k + 1 \in 1 .. Len(map) + 1 /\ m \in 1 .. Len(map) + 1 /\ k + 1 <= m
    BY <1>2
  <2>2. Before(map, k + 1) <= Before(map, m) /\ Before(map, k + 1) = Before(map, k) + map[k].count
    BY <2>1, BeforeFacts
  <2>3. v <= Before(map, k + 1) /\ Before(map, m) < v
    BY <1>2, <2>2 DEF At
  <2>4. Before(map, k + 1) \in Nat /\ Before(map, m) \in Nat
    BY <2>1, BeforeFacts
  <2>5. QED
    BY <2>2, <2>3, <2>4
<1>3. i \in Nat /\ j \in Nat
  BY <1>1
<1>4. QED
  BY <1>1, <1>2, <1>3

\* resolveExtentLBN finds it there.
LEMMA LbnAt ==
  ASSUME NEW map \in Seq(GoodExtent), Apart(map), NEW v \in Nat, NEW i, At(map, i, v)
  PROVE  /\ Lbn(map, v) = map[i].start + v - Before(map, i) - 1
         /\ Lbn(map, v) \in ClustersOf(map[i]) /\ Lbn(map, v) \in Claimed(map)
         /\ v \in 1 .. MappedBlocks(map)
<1> DEFINE chosen == CHOOSE j \in DOMAIN map : At(map, j, v)
<1>1. i \in DOMAIN map
  BY DEF At
<1>2. chosen \in DOMAIN map /\ At(map, chosen, v)
  BY <1>1
<1>3. chosen = i
  BY <1>2, OneExtent
<1>4. chosen = CHOOSE j \in DOMAIN map : /\ MappedBlocks(SubSeq(map, 1, j - 1)) < v
                                        /\ v <= MappedBlocks(SubSeq(map, 1, j - 1)) + map[j].count
  BY DEF At, Before
<1>5. Lbn(map, v) = map[chosen].start + v - MappedBlocks(SubSeq(map, 1, chosen - 1)) - 1
  BY <1>4 DEF Lbn
<1> HIDE DEF chosen
<1>6. Lbn(map, v) = map[i].start + v - Before(map, i) - 1
  BY <1>3, <1>5 DEF Before
<1>7. /\ map[i] \in GoodExtent /\ Before(map, i) \in Nat /\ i \in 1 .. Len(map) + 1
      /\ Before(map, i) < v /\ v <= Before(map, i) + map[i].count
  BY <1>1, BeforeFacts DEF At
<1>8. Lbn(map, v) \in ClustersOf(map[i])
  BY <1>6, <1>7, ExtentFinite, SMTT(30)
<1>9. v \in 1 .. MappedBlocks(map)
  <2>1. i + 1 \in 1 .. Len(map) + 1 /\ Len(map) + 1 \in 1 .. Len(map) + 1 /\ i + 1 <= Len(map) + 1
    BY <1>1
  <2>2. Before(map, i + 1) <= MappedBlocks(map) /\ Before(map, i + 1) = Before(map, i) + map[i].count
    BY <1>1, <2>1, BeforeFacts
  <2>3. MappedBlocks(map) \in Nat /\ map[i].count \in Nat
    BY <1>7, MapFinite, ExtentFinite
  <2>4. QED
    BY <1>7, <2>2, <2>3
<1>10. QED
  BY <1>1, <1>6, <1>8, <1>9 DEF Claimed

\* Blocks of a file are where it has its space, no two at the same place.
LEMMA BlocksAreApart ==
  ASSUME NEW map \in Seq(GoodExtent), Apart(map), NEW v \in 1 .. MappedBlocks(map)
  PROVE  /\ Lbn(map, v) \in Claimed(map) /\ Lbn(map, v) \in Clusters
         /\ \A w \in 1 .. MappedBlocks(map) : Lbn(map, v) = Lbn(map, w) => v = w
<1>1. \A w \in 1 .. MappedBlocks(map) : w \in Nat
  BY MapFinite
<1>2. PICK i \in DOMAIN map : At(map, i, v)
  BY BlockHasExtent
<1>3. /\ Lbn(map, v) = map[i].start + v - Before(map, i) - 1
      /\ Lbn(map, v) \in ClustersOf(map[i]) /\ Lbn(map, v) \in Claimed(map)
  BY <1>1, <1>2, LbnAt
<1>4. ASSUME NEW w \in 1 .. MappedBlocks(map), Lbn(map, v) = Lbn(map, w)
      PROVE  v = w
  <2>1. PICK j \in DOMAIN map : At(map, j, w)
    BY BlockHasExtent
  <2>2. /\ Lbn(map, w) = map[j].start + w - Before(map, j) - 1
        /\ Lbn(map, w) \in ClustersOf(map[j])
    BY <1>1, <2>1, LbnAt
  <2>3. i = j
    BY <1>3, <1>4, <2>2 DEF Apart
  <2>4. i \in 1 .. Len(map) + 1 /\ map[i] \in GoodExtent
    OBVIOUS
  <2>5. Before(map, i) \in Nat /\ map[i].start \in Nat
    BY <2>4, BeforeFacts, ExtentFinite
  <2>6. QED
    BY <1>1, <1>3, <1>4, <2>2, <2>3, <2>5
<1>5. QED
  BY <1>3, <1>4, MapFinite

\* They stay there when the map grows.
LEMMA BlocksStay ==
  ASSUME NEW map \in Seq(GoodExtent), Apart(map), NEW grown \in Seq(GoodExtent), Apart(grown),
         Prolongs(grown, map), NEW v \in 1 .. MappedBlocks(map)
  PROVE  Lbn(grown, v) = Lbn(map, v) /\ v \in 1 .. MappedBlocks(grown)
<1>1. v \in Nat
  BY MapFinite
<1>2. PICK i \in DOMAIN map : At(map, i, v)
  BY BlockHasExtent
<1>3. /\ i \in DOMAIN grown /\ Before(grown, i) = Before(map, i)
      /\ grown[i].start = map[i].start /\ map[i].count <= grown[i].count
  BY DEF Prolongs, Before
<1>4. /\ map[i].count \in Nat /\ grown[i].count \in Nat /\ Before(map, i) \in Nat
  <2>1. map[i] \in GoodExtent /\ grown[i] \in GoodExtent /\ i \in 1 .. Len(map) + 1
    BY <1>3
  <2>2. QED
    BY <2>1, ExtentFinite, BeforeFacts
<1>5. At(grown, i, v)
  BY <1>1, <1>2, <1>3, <1>4 DEF At
<1>6. QED
  BY <1>1, <1>2, <1>3, <1>5, LbnAt

\* The first extents of a map are prolonged by it.
LEMMA PrefixProlongs ==
  ASSUME NEW map \in Seq(GoodExtent), NEW k \in 0 .. Len(map)
  PROVE  Prolongs(map, SubSeq(map, 1, k))
<1>1. SUFFICES ASSUME NEW i \in DOMAIN SubSeq(map, 1, k)
               PROVE  /\ i \in DOMAIN map
                      /\ SubSeq(map, 1, i - 1) = SubSeq(SubSeq(map, 1, k), 1, i - 1)
                      /\ map[i] = SubSeq(map, 1, k)[i]
                      /\ map[i].count <= map[i].count
  BY DEF Prolongs
<1>2. i \in 1 .. k /\ i \in DOMAIN map
  BY PrefixFacts
<1>3. map[i] = SubSeq(map, 1, k)[i]
  BY <1>2, PrefixFacts
<1>4. SubSeq(map, 1, i - 1) = SubSeq(SubSeq(map, 1, k), 1, i - 1)
  <2>1. Len(SubSeq(map, 1, i - 1)) = i - 1
    BY <1>2
  <2>2. Len(SubSeq(SubSeq(map, 1, k), 1, i - 1)) = i - 1
    BY <1>2
  <2>3. \A j \in 1 .. i - 1 : SubSeq(map, 1, i - 1)[j] = SubSeq(SubSeq(map, 1, k), 1, i - 1)[j]
    BY <1>2
  <2>4. SubSeq(map, 1, i - 1) \in Seq(GoodExtent) /\ SubSeq(SubSeq(map, 1, k), 1, i - 1) \in Seq(GoodExtent)
    BY <1>2
  <2>5. QED
    BY <2>1, <2>2, <2>3, <2>4
<1>5. map[i].count <= map[i].count
  <2>1. map[i] \in GoodExtent
    BY <1>2
  <2>2. QED
    BY <2>1, ExtentFinite
<1>6. QED
  BY <1>2, <1>3, <1>4, <1>5

\* An extent goes on the end of a map, and adds its clusters.
LEMMA AppendedExtent ==
  ASSUME NEW map \in Seq(GoodExtent), Apart(map), NEW e \in GoodExtent,
         ClustersOf(e) \cap Claimed(map) = {}
  PROVE  /\ Append(map, e) \in Seq(GoodExtent) /\ Apart(Append(map, e))
         /\ Claimed(Append(map, e)) = Claimed(map) \cup ClustersOf(e)
         /\ MappedBlocks(Append(map, e)) = MappedBlocks(map) + e.count
         /\ Prolongs(Append(map, e), map)
<1> DEFINE grown == Append(map, e)
           n == Len(map)
<1>1. /\ grown \in Seq(GoodExtent) /\ n \in Nat /\ Len(grown) = n + 1 /\ DOMAIN grown = 1 .. n + 1
      /\ DOMAIN map = 1 .. n /\ grown[n + 1] = e /\ \A i \in 1 .. n : grown[i] = map[i]
  OBVIOUS
<1>2. Apart(grown)
  <2>1. \A i \in 1 .. n : ClustersOf(map[i]) \subseteq Claimed(map)
    BY <1>1 DEF Claimed
  <2>2. \A i \in 1 .. n + 1 : i # n + 1 => i \in 1 .. n
    BY <1>1
  <2> HIDE DEF grown, n
  <2>3. QED
    BY <1>1, <2>1, <2>2 DEF Apart
<1>3. Claimed(grown) = Claimed(map) \cup ClustersOf(e)
  <2>1. \A i : i \in 1 .. n + 1 <=> i \in 1 .. n \/ i = n + 1
    BY <1>1
  <2> HIDE DEF grown, n
  <2>2. QED
    BY <1>1, <2>1 DEF Claimed
<1>4. MappedBlocks(grown) = MappedBlocks(map) + e.count
  BY <1>3, MapFinite, ExtentFinite, UnionSize DEF MappedBlocks
<1>5. Prolongs(grown, map)
  <2>1. SubSeq(grown, 1, n) = map
    BY <1>1
  <2>2. n \in 0 .. Len(grown)
    BY <1>1
  <2>3. QED
    BY <1>1, <2>1, <2>2, PrefixProlongs
<1>6. QED
  BY <1>1, <1>2, <1>3, <1>4, <1>5

\* addExtent: the same, whether it is an extent of its own or not.
LEMMA AddedExtent ==
  ASSUME NEW map \in Seq(GoodExtent), Apart(map), NEW e \in GoodExtent,
         ClustersOf(e) \cap Claimed(map) = {}
  PROVE  /\ AddExtent(map, e) \in Seq(GoodExtent) /\ Apart(AddExtent(map, e))
         /\ Claimed(AddExtent(map, e)) = Claimed(map) \cup ClustersOf(e)
         /\ MappedBlocks(AddExtent(map, e)) = MappedBlocks(map) + e.count
         /\ Prolongs(AddExtent(map, e), map)
<1> PICK n : n = Len(map)
  OBVIOUS
<1> DEFINE grown == [map EXCEPT ![n].count = @ + e.count]
           last == [map[n] EXCEPT !.count = @ + e.count]
<1>1. CASE ~(n > 0 /\ map[n].start + map[n].count = e.start)
  <2>1. AddExtent(map, e) = Append(map, e)
    BY <1>1 DEF AddExtent
  <2>2. QED
    BY <2>1, AppendedExtent
<1>2. CASE n > 0 /\ map[n].start + map[n].count = e.start
  <2>1. AddExtent(map, e) = grown /\ grown \in Seq(GoodExtent)
    BY <1>2, AddExtentGrows DEF AddExtent
  <2>2. n \in Nat /\ n \in DOMAIN map /\ map[n] \in GoodExtent
    BY <1>2
  <2>3. /\ Len(grown) = n /\ DOMAIN grown = 1 .. n /\ DOMAIN map = 1 .. n
        /\ grown[n] = last /\ \A i \in 1 .. n : i # n => grown[i] = map[i]
    BY <2>2
  <2>4. last.start = map[n].start /\ last.count = map[n].count + e.count /\ last \in GoodExtent
    <3>1. map[n] \in Extent
      BY <2>2, ExtentFinite
    <3>2. last.start = map[n].start /\ last.count = map[n].count + e.count
      BY <3>1 DEF Extent
    <3>3. grown[n] \in GoodExtent
      BY <2>1, <2>2, <2>3
    <3>4. QED
      BY <2>3, <3>2, <3>3
  <2> HIDE DEF grown, last
  <2>5. ClustersOf(last) = ClustersOf(map[n]) \cup ClustersOf(e)
    <3>1. /\ map[n].start \in Nat /\ map[n].count \in Nat \ {0} /\ e.start \in Nat /\ e.count \in Nat \ {0}
          /\ ClustersOf(map[n]) = map[n].start .. map[n].start + map[n].count - 1
          /\ ClustersOf(e) = e.start .. e.start + e.count - 1
          /\ ClustersOf(last) = last.start .. last.start + last.count - 1
      BY <2>2, <2>4, ExtentFinite
    <3>2. PICK s, c, d : s = map[n].start /\ c = map[n].count /\ d = e.count
      OBVIOUS
    <3>3. /\ ClustersOf(map[n]) = s .. s + c - 1 /\ ClustersOf(e) = s + c .. s + c + d - 1
          /\ ClustersOf(last) = s .. s + (c + d) - 1 /\ {s, c, d} \subseteq Nat
      BY <1>2, <2>4, <3>1, <3>2
    <3>4. (s .. s + c - 1) \cup (s + c .. s + c + d - 1) = s .. s + (c + d) - 1
      BY <3>3
    <3>5. QED
      BY <3>3, <3>4
  <2>6. \A i \in 1 .. n : ClustersOf(grown[i]) = ClustersOf(map[i])
                                                \cup (IF i = n THEN ClustersOf(e) ELSE {})
    BY <2>3, <2>5
  <2>7. Claimed(grown) = Claimed(map) \cup ClustersOf(e)
    <3>1. \A x : x \in Claimed(grown) <=> \E i \in 1 .. n : x \in ClustersOf(grown[i])
      BY <2>3 DEF Claimed
    <3>2. \A x : x \in Claimed(map) <=> \E i \in 1 .. n : x \in ClustersOf(map[i])
      BY <2>3 DEF Claimed
    <3>3. n \in 1 .. n
      BY <2>2
    <3>4. QED
      BY <2>6, <3>1, <3>2, <3>3
  <2>8. Apart(grown)
    <3>1. \A i \in 1 .. n : ClustersOf(map[i]) \subseteq Claimed(map)
      BY <2>3 DEF Claimed
    <3>2. QED
      BY <2>3, <2>6, <3>1 DEF Apart
  <2>9. MappedBlocks(grown) = MappedBlocks(map) + e.count
    BY <2>7, MapFinite, ExtentFinite, UnionSize DEF MappedBlocks
  <2>10. Prolongs(grown, map)
    <3>1. ASSUME NEW i \in 1 .. n PROVE SubSeq(grown, 1, i - 1) = SubSeq(map, 1, i - 1)
      <4>1. \A j \in 1 .. i - 1 : grown[j] = map[j] /\ j \in 1 .. n
        BY <2>2, <2>3
      <4>2. i - 1 \in 0 .. Len(grown) /\ i - 1 \in 0 .. Len(map)
        BY <2>2, <2>3
      <4>3. /\ SubSeq(grown, 1, i - 1) \in Seq(GoodExtent) /\ SubSeq(map, 1, i - 1) \in Seq(GoodExtent)
            /\ Len(SubSeq(grown, 1, i - 1)) = i - 1 /\ Len(SubSeq(map, 1, i - 1)) = i - 1
            /\ \A j \in 1 .. i - 1 : SubSeq(grown, 1, i - 1)[j] = SubSeq(map, 1, i - 1)[j]
        BY <2>1, <4>1, <4>2, PrefixFacts
      <4>4. QED
        BY <4>3
    <3>2. \A i \in 1 .. n : grown[i].start = map[i].start /\ map[i].count <= grown[i].count
      <4>1. TAKE i \in 1 .. n
      <4>2. map[i].count \in Nat /\ e.count \in Nat
        BY <2>3, ExtentFinite
      <4>3. CASE i = n
        BY <2>3, <2>4, <4>2, <4>3
      <4>4. CASE i # n
        BY <2>3, <4>2, <4>4
      <4>5. QED
        BY <4>3, <4>4
    <3>3. QED
      BY <2>3, <3>1, <3>2 DEF Prolongs
  <2>11. QED
    BY <2>1, <2>7, <2>8, <2>9, <2>10
<1>3. QED
  BY <1>1, <1>2

\* The extents still to place, without the first.
LEMMA TodoShrinks ==
  ASSUME NEW map \in Seq(GoodExtent), Apart(map), map # <<>>
  PROVE  /\ Head(map) \in GoodExtent /\ Tail(map) \in Seq(GoodExtent) /\ Apart(Tail(map))
         /\ Claimed(map) = ClustersOf(Head(map)) \cup Claimed(Tail(map))
         /\ ClustersOf(Head(map)) \cap Claimed(Tail(map)) = {}
         /\ MappedBlocks(map) = Head(map).count + MappedBlocks(Tail(map))
<1> PICK rest, n : rest = Tail(map) /\ n = Len(map)
  OBVIOUS
<1>1. /\ n \in Nat \ {0} /\ Head(map) = map[1] /\ Head(map) \in GoodExtent
      /\ rest \in Seq(GoodExtent) /\ DOMAIN map = 1 .. n /\ DOMAIN rest = 1 .. n - 1
      /\ \A i \in 1 .. n - 1 : rest[i] = map[i + 1]
  OBVIOUS
<1>2. \A i \in 1 .. n - 1 : i + 1 \in 1 .. n /\ i + 1 # 1
  BY <1>1
<1>3. Apart(rest)
  BY <1>1, <1>2 DEF Apart
<1>4. ClustersOf(Head(map)) \cap Claimed(rest) = {}
  <2>1. 1 \in 1 .. n
    BY <1>1
  <2>2. \A i \in 1 .. n - 1 : ClustersOf(map[1]) \cap ClustersOf(rest[i]) = {}
    BY <1>1, <1>2, <2>1 DEF Apart
  <2>3. QED
    BY <1>1, <2>2 DEF Claimed
<1>5. Claimed(map) = ClustersOf(Head(map)) \cup Claimed(rest)
  <2>1. \A j \in 1 .. n : j = 1 \/ \E i \in 1 .. n - 1 : j = i + 1
    <3>1. TAKE j \in 1 .. n
    <3>2. j # 1 => j - 1 \in 1 .. n - 1 /\ j = (j - 1) + 1
      BY <1>1
    <3>3. QED
      BY <3>2
  <2>2. 1 \in 1 .. n
    BY <1>1
  <2>3. \A x : x \in Claimed(map) <=> \E i \in 1 .. n : x \in ClustersOf(map[i])
    BY <1>1 DEF Claimed
  <2>4. \A x : x \in Claimed(rest) <=> \E i \in 1 .. n - 1 : x \in ClustersOf(rest[i])
    BY <1>1 DEF Claimed
  <2>5. ASSUME NEW x PROVE x \in Claimed(map) <=> x \in ClustersOf(Head(map)) \/ x \in Claimed(rest)
    <3>1. ASSUME x \in Claimed(map), x \notin ClustersOf(Head(map)) PROVE x \in Claimed(rest)
      <4>1. PICK j \in 1 .. n : x \in ClustersOf(map[j])
        BY <2>3, <3>1
      <4>2. PICK i \in 1 .. n - 1 : j = i + 1
        BY <1>1, <2>1, <3>1, <4>1
      <4>3. QED
        BY <1>1, <2>4, <4>1, <4>2
    <3>2. ASSUME x \in Claimed(rest) PROVE x \in Claimed(map)
      <4>1. PICK i \in 1 .. n - 1 : x \in ClustersOf(rest[i])
        BY <2>4, <3>2
      <4>2. i + 1 \in 1 .. n /\ rest[i] = map[i + 1]
        BY <1>1, <1>2
      <4>3. QED
        BY <2>3, <4>1, <4>2
    <3>3. QED
      BY <1>1, <2>2, <2>3, <3>1, <3>2
  <2>6. QED
    BY <2>5
<1>6. MappedBlocks(map) = Head(map).count + MappedBlocks(rest)
  BY <1>1, <1>4, <1>5, MapFinite, ExtentFinite, UnionSize DEF MappedBlocks
<1>7. QED
  BY <1>1, <1>3, <1>4, <1>5, <1>6

\* A block that a map has where another, which it prolongs, has one is that one.
LEMMA OldBlocksAreOld ==
  ASSUME NEW map \in Seq(GoodExtent), Apart(map), NEW grown \in Seq(GoodExtent), Apart(grown),
         Prolongs(grown, map), NEW v \in 1 .. MappedBlocks(grown), Lbn(grown, v) \in Claimed(map)
  PROVE  v \in 1 .. MappedBlocks(map)
<1>1. v \in Nat
  BY MapFinite
<1>2. PICK i \in DOMAIN grown : At(grown, i, v)
  BY BlockHasExtent
<1>3. /\ Lbn(grown, v) = grown[i].start + v - Before(grown, i) - 1
      /\ Lbn(grown, v) \in ClustersOf(grown[i])
  BY <1>1, <1>2, LbnAt
<1>4. PICK j \in DOMAIN map : Lbn(grown, v) \in ClustersOf(map[j])
  BY DEF Claimed
<1>5. /\ j \in DOMAIN grown /\ Before(grown, j) = Before(map, j)
      /\ grown[j].start = map[j].start /\ map[j].count <= grown[j].count
      /\ map[j] \in GoodExtent /\ grown[j] \in GoodExtent /\ j \in 1 .. Len(map) + 1
  <2>1. /\ j \in DOMAIN grown /\ Before(grown, j) = Before(map, j)
        /\ grown[j].start = map[j].start /\ map[j].count <= grown[j].count
    BY DEF Prolongs, Before
  <2>2. map[j] \in GoodExtent /\ grown[j] \in GoodExtent /\ j \in 1 .. Len(map) + 1
    BY <2>1
  <2>3. QED
    BY <2>1, <2>2
<1>6. /\ map[j].start \in Nat /\ map[j].count \in Nat /\ grown[j].count \in Nat
      /\ Before(map, j) \in Nat
      /\ ClustersOf(map[j]) = map[j].start .. map[j].start + map[j].count - 1
      /\ ClustersOf(grown[j]) = grown[j].start .. grown[j].start + grown[j].count - 1
  BY <1>5, ExtentFinite, BeforeFacts
<1>7. Lbn(grown, v) \in ClustersOf(grown[j])
  BY <1>4, <1>5, <1>6, SMTT(30)
<1>8. i = j
  BY <1>3, <1>5, <1>7 DEF Apart
<1>9. At(map, j, v)
  <2>1. Before(map, j) < v
    BY <1>2, <1>5, <1>8 DEF At
  <2>2. map[j].start + v - Before(map, j) - 1 <= map[j].start + map[j].count - 1
    BY <1>1, <1>3, <1>4, <1>5, <1>6, <1>8
  <2>3. v <= Before(map, j) + map[j].count
    BY <1>1, <1>6, <2>2
  <2>4. QED
    BY <2>1, <2>3 DEF At
<1>10. QED
  BY <1>1, <1>9, LbnAt

-----------------------------------------------------------------------------
(* Slots: what is in them, and what a step does to them.                   *)

\* File numbers are numbers; so are their places in the index file.
LEMMA Numbers ==
  /\ {MaxFiles, ReservedFiles, FirstSlots, ExtendBlocks, PointerWords, WidestPointer, MapWords,
      Lead} \subseteq Nat
  /\ MaxFiles > 0 /\ ReservedFiles > 0 /\ FirstSlots > 0 /\ ExtendBlocks > 0 /\ PointerWords > 0
  /\ FirstBlocks \in Nat
  /\ \A n \in FileNumbers : n \in Nat /\ n > 0 /\ HeaderVbn(n) \in Nat /\ HeaderVbn(n) > 0
  /\ \A m, n \in FileNumbers : HeaderVbn(m) = HeaderVbn(n) <=> m = n
  /\ \A m, n \in FileNumbers : HeaderVbn(m) < HeaderVbn(n) <=> m < n
  /\ 0 \notin FileNumbers /\ IndexFileNumber \in FileNumbers
<1>1. /\ {MaxFiles, ReservedFiles, FirstSlots, ExtendBlocks, PointerWords, WidestPointer, MapWords,
          Lead} \subseteq Nat
      /\ MaxFiles > 0 /\ ReservedFiles > 0 /\ FirstSlots > 0 /\ ExtendBlocks > 0 /\ PointerWords > 0
  <2>1. {MaxFiles, ReservedFiles, FirstSlots, ExtendBlocks, PointerWords} \subseteq Nat
    BY SizesArePositive
  <2>2. {WidestPointer, MapWords, Lead} \subseteq Nat
    BY LeadIsNatural, MapHasRoom
  <2>3. \A k \in {MaxFiles, ReservedFiles, FirstSlots, ExtendBlocks, PointerWords} : k > 0
    BY SizesArePositive
  <2>4. QED
    BY <2>1, <2>2, <2>3
<1>2. \A n \in FileNumbers : n \in Nat /\ n > 0
  BY <1>1 DEF FileNumbers
<1>3. 0 \notin FileNumbers /\ IndexFileNumber \in FileNumbers
  BY <1>1 DEF FileNumbers, IndexFileNumber
<1>4. FirstBlocks \in Nat /\ \A n \in FileNumbers : HeaderVbn(n) \in Nat /\ HeaderVbn(n) > 0
  BY <1>1, <1>2 DEF HeaderVbn, FirstBlocks
<1>5. \A m, n \in FileNumbers : /\ HeaderVbn(m) = HeaderVbn(n) <=> m = n
                                /\ HeaderVbn(m) < HeaderVbn(n) <=> m < n
  BY <1>1, <1>2 DEF HeaderVbn
<1>6. QED
  BY <1>1, <1>2, <1>3, <1>4, <1>5

\* What is used of the types.
LEMMA Types ==
  ASSUME Typed
  PROVE  /\ extents \in Seq(GoodExtent) /\ call.todo \in Seq(GoodExtent)
         /\ MappedBlocks(extents) \in Nat /\ MappedBlocks(call.todo) \in Nat
         /\ used \subseteq FileNumbers /\ primary \in GoodHeader
         /\ call.file \in FileNumbers \cup {0} /\ call.tail \in FileNumbers \cup {0}
         /\ call.segment \in FileNumbers \cup {0}
         /\ call.have \in Nat /\ call.blocks \in Nat /\ call.more \in Nat
         /\ call.newSegment \in BOOLEAN /\ call.step \in Steps
         /\ primary.highWater \in Nat /\ primary.map \in GoodMap /\ primary.ext \in FileNumbers \cup {0}
BY MapFinite DEF Typed, GoodCall, GoodHeader

\* A slot that is mapped is a block of the volume, and no other slot's.
LEMMA SlotFacts ==
  ASSUME Typed, Apart(extents), NEW n \in FileNumbers, SlotMapped(extents, n)
  PROVE  /\ HeaderVbn(n) \in 1 .. MappedBlocks(extents)
         /\ Lbn(extents, HeaderVbn(n)) \in Claimed(extents)
         /\ Lbn(extents, HeaderVbn(n)) \in Clusters
         /\ HeaderIn(extents, n) \in GoodHeader
         /\ \A v \in 1 .. MappedBlocks(extents) :
               Lbn(extents, v) = Lbn(extents, HeaderVbn(n)) => v = HeaderVbn(n)
<1>1. extents \in Seq(GoodExtent) /\ MappedBlocks(extents) \in Nat
  BY Types
<1>2. HeaderVbn(n) \in 1 .. MappedBlocks(extents)
  BY <1>1, Numbers DEF SlotMapped
<1>3. /\ Lbn(extents, HeaderVbn(n)) \in Claimed(extents) /\ Lbn(extents, HeaderVbn(n)) \in Clusters
      /\ \A v \in 1 .. MappedBlocks(extents) :
               Lbn(extents, HeaderVbn(n)) = Lbn(extents, v) => HeaderVbn(n) = v
  BY <1>1, <1>2, BlocksAreApart
<1>4. HeaderIn(extents, n) \in GoodHeader
  BY <1>3 DEF HeaderIn, Typed
<1>5. QED
  BY <1>2, <1>3, <1>4

\* The index file has all the blocks it had, where it had them.
Longer ==
    /\ extents' \in Seq(GoodExtent) /\ Apart(extents') /\ Prolongs(extents', extents)
    /\ MappedBlocks(extents) <= MappedBlocks(extents')

\* As long as it was.
LEMMA AsLong ==
  ASSUME Typed, Apart(extents), extents' = extents
  PROVE  Longer
<1>1. extents \in Seq(GoodExtent) /\ MappedBlocks(extents) \in Nat
  BY Types
<1>2. Prolongs(extents, extents)
  <2>1. \A i \in DOMAIN extents : extents[i].count \in Nat
    BY <1>1, ExtentFinite
  <2>2. QED
    BY <2>1 DEF Prolongs
<1>3. QED
  BY <1>1, <1>2 DEF Longer

\* Slots stay where they are.
LEMMA SlotsStay ==
  ASSUME Typed, Apart(extents), Longer, NEW n \in FileNumbers, SlotMapped(extents, n)
  PROVE  /\ SlotMapped(extents', n) /\ Lbn(extents', HeaderVbn(n)) = Lbn(extents, HeaderVbn(n))
         /\ HeaderVbn(n) \in 1 .. MappedBlocks(extents')
<1>1. HeaderVbn(n) \in 1 .. MappedBlocks(extents)
  BY SlotFacts
<1>2. Lbn(extents', HeaderVbn(n)) = Lbn(extents, HeaderVbn(n))
      /\ HeaderVbn(n) \in 1 .. MappedBlocks(extents')
  BY <1>1, Types, BlocksStay DEF Longer
<1>3. QED
  BY <1>1, <1>2, Types, MapFinite, Numbers DEF SlotMapped, Longer

\* A slot that was not mapped is a block that was not the index file's.
LEMMA NewSlots ==
  ASSUME Typed, Apart(extents), Longer, NEW n \in FileNumbers,
         SlotMapped(extents', n), ~SlotMapped(extents, n)
  PROVE  Lbn(extents', HeaderVbn(n)) \in Clusters \ Claimed(extents)
<1>1. MappedBlocks(extents') \in Nat /\ HeaderVbn(n) \in 1 .. MappedBlocks(extents')
  BY MapFinite, Numbers DEF SlotMapped, Longer
<1>2. HeaderVbn(n) \notin 1 .. MappedBlocks(extents)
  BY Types, Numbers DEF SlotMapped
<1>3. Lbn(extents', HeaderVbn(n)) \in Clusters
  BY <1>1, BlocksAreApart DEF Longer
<1>4. Lbn(extents', HeaderVbn(n)) \notin Claimed(extents)
  BY <1>1, <1>2, Types, OldBlocksAreOld DEF Longer
<1>5. QED
  BY <1>3, <1>4

\* A step that writes no header changes what no slot holds.
LEMMA QuietSlots ==
  ASSUME Typed, Apart(extents), Longer, block' = block
  PROVE  \A n \in FileNumbers : SlotMapped(extents, n) =>
            SlotMapped(extents', n) /\ HeaderIn(extents, n)' = HeaderIn(extents, n)
BY SlotsStay DEF HeaderIn

\* A header that is written changes what its slot holds, and nothing else.
LEMMA WrittenSlot ==
  ASSUME Typed, Apart(extents), Longer, NEW m \in FileNumbers, SlotMapped(extents, m),
         NEW h \in GoodHeader, WriteHeader(m, h)
  PROVE  /\ block' \in [Clusters -> GoodHeader]
         /\ HeaderIn(extents, m)' = h
         /\ \A n \in FileNumbers : SlotMapped(extents, n) =>
               /\ SlotMapped(extents', n)
               /\ n # m => HeaderIn(extents, n)' = HeaderIn(extents, n)
         /\ \A c \in Clusters \ Claimed(extents) : block'[c] = block[c]
<1> DEFINE place == Lbn(extents, HeaderVbn(m))
<1>1. place \in Claimed(extents) /\ place \in Clusters
  BY SlotFacts
<1>2. block' = [block EXCEPT ![place] = h] /\ block \in [Clusters -> GoodHeader]
  BY DEF WriteHeader, Typed
<1>3. block' \in [Clusters -> GoodHeader] /\ block'[place] = h
      /\ \A c \in Clusters : c # place => block'[c] = block[c]
  BY <1>1, <1>2
<1>4. HeaderIn(extents, m)' = h
  BY <1>3, SlotsStay DEF HeaderIn
<1>5. ASSUME NEW n \in FileNumbers, SlotMapped(extents, n), n # m
      PROVE  HeaderIn(extents, n)' = HeaderIn(extents, n)
  <2>1. Lbn(extents, HeaderVbn(n)) \in Clusters /\ Lbn(extents, HeaderVbn(n)) # place
    <3>1. HeaderVbn(n) \in 1 .. MappedBlocks(extents) /\ Lbn(extents, HeaderVbn(n)) \in Clusters
      BY <1>5, SlotFacts
    <3>2. HeaderVbn(n) # HeaderVbn(m)
      BY <1>5, Numbers
    <3>3. QED
      BY <3>1, <3>2, SlotFacts
  <2>2. Lbn(extents', HeaderVbn(n)) = Lbn(extents, HeaderVbn(n))
    BY <1>5, SlotsStay
  <2> HIDE DEF place
  <2>3. QED
    BY <1>3, <2>1, <2>2 DEF HeaderIn
<1>6. \A n \in FileNumbers : SlotMapped(extents, n) => SlotMapped(extents', n)
  BY SlotsStay
<1>7. QED
  BY <1>1, <1>3, <1>4, <1>5, <1>6

-----------------------------------------------------------------------------
(* The last header.                                                        *)

\* The slots that hold headers of the index file, as the session sees them; and
\* 0, which is no slot.
Headed == {0} \cup {n \in FileNumbers : SlotMapped(extents, n) /\ SessionHeader(n).owner = "index"}

\* From one header to the next, if there is one, and to 0 if the link is bad.
NextHeaded(n) ==
    IF n = 0 \/ SessionHeader(n).ext = 0 THEN n
    ELSE IF SlotMapped(extents, SessionHeader(n).ext)
            /\ SessionHeader(SessionHeader(n).ext).owner = "index"
         THEN SessionHeader(n).ext ELSE 0

\* The headers of slots are headers.
LEMMA SessionHeaders ==
  ASSUME Typed, Apart(extents), NEW n \in FileNumbers, SlotMapped(extents, n)
  PROVE  SessionHeader(n) \in GoodHeader
BY SlotFacts DEF SessionHeader, Typed

\* The primary header's slot is the first of the index file's.
LEMMA PrimarySlot ==
  ASSUME Typed, SpaceApart, FirstInPlace
  PROVE  /\ SlotMapped(extents, IndexFileNumber) /\ IndexFileNumber \in used
         /\ Lbn(extents, HeaderVbn(IndexFileNumber)) = PrimaryLbn
         /\ \A n \in 1 .. ReservedFiles : n \in FileNumbers => SlotMapped(extents, n)
         /\ 0 < Len(extents)
<1>1. extents \in Seq(GoodExtent) /\ Apart(extents) /\ used \subseteq FileNumbers
  BY Types DEF SpaceApart
<1>2. 1 \in DOMAIN extents /\ extents[1] \in GoodExtent /\ 0 < Len(extents)
  BY <1>1 DEF FirstInPlace
<1>3. Before(extents, 1) = 0
  BY <1>1, BeforeFacts
<1>4. /\ extents[1].start = 0 /\ FirstBlocks <= extents[1].count /\ extents[1].count \in Nat
      /\ IndexFileNumber \in used
  BY <1>2, ExtentFinite, Numbers DEF FirstInPlace, IndexFileNumber
<1>5. ASSUME NEW v \in 1 .. FirstBlocks
      PROVE  Lbn(extents, v) = v - 1 /\ v \in 1 .. MappedBlocks(extents)
  <2>1. v \in Nat /\ At(extents, 1, v)
    BY <1>2, <1>3, <1>4, Numbers DEF At
  <2>2. Lbn(extents, v) = extents[1].start + v - Before(extents, 1) - 1
        /\ v \in 1 .. MappedBlocks(extents)
    BY <1>1, <2>1, LbnAt
  <2>3. QED
    BY <1>3, <1>4, <2>1, <2>2
<1>6. ASSUME NEW n \in 1 .. ReservedFiles, n \in FileNumbers
      PROVE  HeaderVbn(n) \in 1 .. FirstBlocks
  BY <1>6, Numbers, IndexFileFits DEF HeaderVbn, FirstBlocks
<1>7. IndexFileNumber \in 1 .. ReservedFiles /\ IndexFileNumber \in FileNumbers
  BY Numbers DEF IndexFileNumber
<1>8. ASSUME NEW n \in 1 .. ReservedFiles, n \in FileNumbers
      PROVE  SlotMapped(extents, n) /\ Lbn(extents, HeaderVbn(n)) = HeaderVbn(n) - 1
  BY <1>5, <1>6, <1>8, Types DEF SlotMapped
<1>9. Lbn(extents, HeaderVbn(IndexFileNumber)) = PrimaryLbn
  BY <1>7, <1>8, Numbers DEF PrimaryLbn, HeaderVbn, IndexFileNumber
<1>10. QED
  BY <1>2, <1>4, <1>7, <1>8, <1>9

\* tailHeader walks along the links.
LEMMA TailWalk ==
  ASSUME Typed, SpaceApart, FirstInPlace
  PROVE  \E f \in [0 .. MaxFiles -> Headed] :
            /\ f[0] = IndexFileNumber /\ \A k \in 1 .. MaxFiles : f[k] = NextHeaded(f[k - 1])
            /\ TailSlot = f[MaxFiles]
<1> DEFINE step == [n \in Headed |-> NextHeaded(n)]
<1>1. step \in [Headed -> Headed]
  <2>1. SUFFICES ASSUME NEW n \in Headed PROVE NextHeaded(n) \in Headed
    OBVIOUS
  <2>2. CASE n = 0
    BY <2>2 DEF NextHeaded, Headed
  <2>3. CASE n # 0
    <3>1. n \in FileNumbers /\ SlotMapped(extents, n)
      BY <2>3 DEF Headed
    <3>2. SessionHeader(n).ext \in FileNumbers \cup {0}
      BY <3>1, SessionHeaders DEF SpaceApart, GoodHeader
    <3>3. QED
      BY <3>2 DEF NextHeaded, Headed
  <2>4. QED
    BY <2>2, <2>3
<1>2. IndexFileNumber \in Headed
  BY PrimarySlot, Numbers DEF Headed, SessionHeader, Typed
<1>3. MaxFiles \in Nat
  BY Numbers
<1>4. PICK f \in [0 .. MaxFiles -> Headed] :
         f[0] = IndexFileNumber /\ \A k \in 1 .. MaxFiles : f[k] = step[f[k - 1]]
  <2> PICK S, next, first : S = Headed /\ next = step /\ first = IndexFileNumber
    OBVIOUS
  <2> HIDE DEF step
  <2>1. next \in [S -> S] /\ first \in S
    BY <1>1, <1>2
  <2>2. \E f \in [0 .. MaxFiles -> S] : f[0] = first /\ \A k \in 1 .. MaxFiles : f[k] = next[f[k - 1]]
    BY ONLY <2>1, <1>3, IterationExists, SMTT(90)
  <2>3. QED
    BY <2>2
<1>5. \A k \in 1 .. MaxFiles : f[k] = NextHeaded(f[k - 1])
  <2>1. TAKE k \in 1 .. MaxFiles
  <2>2. k - 1 \in 0 .. MaxFiles
    BY <1>3
  <2>3. QED
    BY <1>4, <2>2
<1> DEFINE Step(g, k) ==
             IF k = 0 THEN IndexFileNumber
             ELSE IF g[k - 1] = 0 \/ SessionHeader(g[k - 1]).ext = 0 THEN g[k - 1]
             ELSE IF SlotMapped(extents, SessionHeader(g[k - 1]).ext)
                     /\ SessionHeader(SessionHeader(g[k - 1]).ext).owner = "index"
                  THEN SessionHeader(g[k - 1]).ext ELSE 0
           slot == CHOOSE g : g = [k \in 0 .. MaxFiles |-> Step(g, k)]
<1>6. f = [k \in 0 .. MaxFiles |-> Step(f, k)]
  <2>1. \A k \in 0 .. MaxFiles : f[k] = Step(f, k)
    <3>1. TAKE k \in 0 .. MaxFiles
    <3>2. CASE k = 0
      BY <1>4, <3>2
    <3>3. CASE k # 0
      <4>1. k \in 1 .. MaxFiles
        BY <1>3, <3>3
      <4>2. QED
        BY <1>5, <3>3, <4>1 DEF NextHeaded
    <3>4. QED
      BY <3>2, <3>3
  <2> HIDE DEF Step
  <2>2. QED
    BY <2>1
<1>7. TailSlot = slot[MaxFiles]
  BY Zenon DEF TailSlot
<1> HIDE DEF Step
<1>8. slot = [k \in 0 .. MaxFiles |-> Step(slot, k)]
  BY <1>6, Zenon
<1> HIDE DEF slot
<1>9. \A k \in 0 .. MaxFiles : slot[k] = Step(slot, k)
  BY <1>8
<1> DEFINE T == {k \in 0 .. MaxFiles : slot[k] = f[k]}
<1>10. T = 0 .. MaxFiles
  <2>1. 0 \in T
    BY <1>3, <1>4, <1>9 DEF Step
  <2>2. ASSUME NEW k \in 1 .. MaxFiles, k - 1 \in T PROVE k \in T
    <3>1. k \in 0 .. MaxFiles /\ k # 0 /\ slot[k - 1] = f[k - 1]
      BY <1>3, <2>2
    <3>2. slot[k] = NextHeaded(slot[k - 1])
      BY <1>9, <3>1, Zenon DEF NextHeaded, Step
    <3>3. QED
      BY <1>5, <3>1, <3>2
  <2> HIDE DEF T
  <2>3. QED
    BY <1>3, <2>1, <2>2, InductionUpTo DEF T
<1>11. slot[MaxFiles] = f[MaxFiles]
  <2>1. MaxFiles \in T
    BY <1>3, <1>10
  <2>2. QED
    BY <2>1
<1>12. QED
  BY <1>4, <1>5, <1>7, <1>11

\* It ends at a header, or nowhere.
LEMMA TailIsHeaded ==
  ASSUME Typed, SpaceApart, FirstInPlace
  PROVE  TailSlot \in Headed
BY TailWalk, Numbers

\* By how much ensureHeaderSlot has the index file grow: enough for the slot at
\* once, and if there is a second growth, for the slot and one more.
LEMMA GrowthFacts ==
  ASSUME NEW n \in FileNumbers, NEW have \in Nat, have < HeaderVbn(n), NEW tail
  PROVE  LET grow == GrowthFor(n, have, tail)
         IN  /\ grow.now \in Nat /\ grow.now > 0 /\ grow.later \in Nat
             /\ HeaderVbn(n) <= have + grow.now
             /\ grow.later > 0 => have + grow.now = HeaderVbn(n) + 1
             /\ grow.later = 0 <=> PointerRoom(tail, 2)
<1>1. \A a, b \in Nat : Max({a, b}) \in Nat /\ a <= Max({a, b}) /\ b <= Max({a, b})
  <2>1. TAKE a, b \in Nat
  <2>2. {a, b} \subseteq 0 .. a + b /\ {a, b} # {} /\ a + b \in Nat
    OBVIOUS
  <2>3. QED
    BY <2>2, MaxInSet
<1>2. PICK vbn \in Nat : vbn = HeaderVbn(n)
  BY Numbers
<1>3. PICK first : first = vbn - have + 1
  OBVIOUS
<1>4. PICK blocks : blocks = Max({vbn - have, ExtendBlocks})
  OBVIOUS
<1>5. /\ blocks \in Nat /\ vbn - have <= blocks /\ first \in Nat /\ vbn - have > 0
  BY <1>1, <1>2, <1>3, <1>4, Numbers
<1>6. blocks - first \in Int /\ Max({blocks - first, 1}) \in Nat /\ Max({blocks - first, 1}) >= 1
  <2>1. CASE blocks - first \in Nat
    BY <1>1, <2>1
  <2>2. CASE blocks - first < 0
    <3> PICK d \in Int : d = blocks - first
      BY <1>5
    <3>1. 1 \in {d, 1} /\ \A k \in {d, 1} : k <= 1
      BY <2>2
    <3>2. \A x \in {d, 1} : (\A k \in {d, 1} : k <= x) => x = 1
      BY <2>2
    <3>3. Max({d, 1}) = 1
      BY <3>1, <3>2 DEF Max
    <3>4. QED
      BY <3>3
  <2>3. QED
    BY <1>5, <2>1, <2>2
<1>7. CASE PointerRoom(tail, 2)
  <2>1. GrowthFor(n, have, tail) = [now |-> blocks, later |-> 0]
    BY <1>2, <1>4, <1>7 DEF GrowthFor
  <2>2. QED
    BY <1>2, <1>5, <1>7, <2>1
<1>8. CASE ~PointerRoom(tail, 2)
  <2>1. GrowthFor(n, have, tail) = [now |-> first, later |-> Max({blocks - first, 1})]
    BY <1>2, <1>3, <1>4, <1>8 DEF GrowthFor
  <2>2. QED
    BY <1>2, <1>3, <1>5, <1>6, <1>8, <2>1
<1>9. QED
  BY <1>7, <1>8

-----------------------------------------------------------------------------
(* What each step keeps.                                                   *)

\* What the parts of the invariant say that steps need.
LEMMA Known ==
  ASSUME HInv
  PROVE  /\ Typed /\ SpaceApart /\ FirstInPlace /\ Underway /\ VacantIsBlank
         /\ Apart(extents) /\ Apart(call.todo)
         /\ SlotMapped(extents, IndexFileNumber) /\ IndexFileNumber \in used
         /\ IndexFileNumber \notin Vacant /\ 0 \notin used
         /\ call.step # "none" => IndexFileNumber # call.file
         /\ Vacant \subseteq FileNumbers
<1>1. /\ Typed /\ SpaceApart /\ FirstInPlace /\ Underway /\ VacantIsBlank
      /\ Apart(extents) /\ Apart(call.todo) /\ used \subseteq FileNumbers
  BY Types DEF HInv, SpaceApart
<1>2. SlotMapped(extents, IndexFileNumber) /\ IndexFileNumber \in used
  BY <1>1, PrimarySlot
<1>3. call.step # "none" => IndexFileNumber # call.file
  BY <1>1, Numbers DEF Underway, IndexFileNumber
<1>4. Growing => call.step # "none" /\ call.file \in FileNumbers
  BY <1>1 DEF Growing, Underway
<1>5. QED
  BY <1>1, <1>2, <1>3, <1>4, Numbers DEF Vacant

\* The fields of a call that has just begun.
LEMMA NoCallFacts ==
  /\ NoCall \in GoodCall /\ NoCall.step = "none" /\ NoCall.file = 0 /\ NoCall.segment = 0
  /\ NoCall.todo = <<>> /\ ~NoCall.newSegment /\ NoCall.more = 0
BY DEF NoCall, GoodCall, Steps

\* A step that changes neither headers nor extents leaves all slots as they are.
LEMMA SameSlots ==
  ASSUME block' = block, extents' = extents, primary' = primary
  PROVE  /\ MappedBlocks(extents') = MappedBlocks(extents)
         /\ \A n : /\ SlotMapped(extents, n)' = SlotMapped(extents, n)
                   /\ HeaderIn(extents, n)' = HeaderIn(extents, n)
                   /\ SessionHeader(n)' = SessionHeader(n)
                   /\ LooksUnused(n)' = LooksUnused(n)
BY DEF SlotMapped, HeaderIn, SessionHeader, LooksUnused

\* A step between calls that changes neither headers, slots nor extents.
LEMMA SpaceStepKeeps ==
  ASSUME HInv, block' = block, extents' = extents, primary' = primary, used' = used,
         call' = call, growth' = growth, free' \subseteq Clusters, files' \subseteq Clusters,
         free' \cap files' = {}, free' \cup files' \subseteq free \cup files
  PROVE  HInv'
<1>1. Typed'
  BY DEF HInv, Typed
<1>2. SpaceApart' /\ FirstInPlace'
  BY DEF HInv, SpaceApart, FirstInPlace
<1>3. Underway' /\ Vacant' = Vacant /\ Growing' = Growing
  BY SameSlots DEF HInv, Underway, Growing, Vacant
<1>4. VacantIsBlank'
  BY <1>3, SameSlots DEF HInv, VacantIsBlank
<1>5. growth' # "overflowed" => UsedHoldHeaders'
  BY <1>3, SameSlots DEF HInv, UsedHoldHeaders
<1>6. QED
  BY <1>1, <1>2, <1>3, <1>4, <1>5 DEF HInv

\* A call that gives up leaves its file's slot as it was, vacant, and what it took
\* taken.
LEMMA GiveUpKeeps ==
  ASSUME HInv, Growing, call.step # "segment", GiveUp, block' = block, extents' = extents,
         primary' = primary, files' = files, free' \subseteq free, growth' \in Growths,
         growth' # "overflowed" => growth # "overflowed"
  PROVE  HInv'
<1>1. /\ used' = used \ {call.file} /\ call' = NoCall /\ call.file \in FileNumbers
      /\ call.file > ReservedFiles /\ call.segment = 0
  BY Known DEF GiveUp, Underway, Growing
<1>2. Typed'
  BY <1>1, NoCallFacts DEF HInv, Typed
<1>3. SpaceApart'
  <2>1. Apart(<<>>) /\ Claimed(<<>>) = {}
    BY DEF Apart, Claimed
  <2>2. QED
    BY <1>1, <2>1, NoCallFacts DEF HInv, SpaceApart
<1>4. FirstInPlace'
  <2>1. \A n \in 1 .. ReservedFiles : n # call.file
    BY <1>1, Numbers
  <2>2. QED
    BY <1>1, <2>1 DEF HInv, FirstInPlace
<1>5. Underway' /\ ~Growing'
  BY <1>1, NoCallFacts DEF Underway, Growing
<1>6. Vacant' \subseteq Vacant
  BY <1>1, <1>5 DEF Vacant
<1>7. VacantIsBlank'
  BY <1>1, <1>5, <1>6, SameSlots, NoCallFacts DEF HInv, VacantIsBlank, Growing
<1>8. growth' # "overflowed" => UsedHoldHeaders'
  <2>1. SUFFICES ASSUME growth # "overflowed", NEW n \in used \ {call.file}, n # 0
                 PROVE  SlotMapped(extents, n) /\ HeaderIn(extents, n).owner \in {"file", "index"}
    BY <1>1, <1>5, SameSlots, NoCallFacts DEF UsedHoldHeaders
  <2>2. QED
    BY <1>1, <2>1 DEF HInv, UsedHoldHeaders
<1>9. QED
  BY <1>2, <1>3, <1>4, <1>5, <1>7, <1>8 DEF HInv

\* A header is to be made in a slot that is mapped and vacant.
LEMMA MakeHeaderKeeps ==
  ASSUME HInv, NEW n \in FileNumbers, MakeHeader(n)
  PROVE  HInv'
<1>1. /\ call = NoCall /\ n \notin used /\ n > ReservedFiles /\ SlotMapped(extents, n)
      /\ call' = [NoCall EXCEPT !.step = "header", !.file = n]
      /\ block' = block /\ free' = free /\ files' = files /\ used' = used
      /\ extents' = extents /\ primary' = primary /\ growth' = growth
  BY DEF MakeHeader, FreeSlot
<1>2. /\ call' \in GoodCall /\ call'.step = "header" /\ call'.file = n /\ call'.segment = 0
      /\ call'.todo = <<>> /\ ~call'.newSegment
  BY <1>1, NoCallFacts DEF NoCall, GoodCall, Steps
<1>3. Typed' /\ SpaceApart' /\ FirstInPlace'
  BY <1>1, <1>2, NoCallFacts DEF HInv, Typed, SpaceApart, FirstInPlace
<1>4. ~Growing' /\ ~Growing
  BY <1>1, <1>2, NoCallFacts DEF Growing
<1>5. Underway'
  BY <1>1, <1>2, <1>4, SameSlots DEF Underway, Growing
<1>6. Vacant' = Vacant /\ n \in Vacant
  BY <1>1, <1>4 DEF Vacant
<1>7. VacantIsBlank'
  BY <1>1, <1>2, <1>4, <1>6, SameSlots, NoCallFacts DEF HInv, VacantIsBlank
<1>8. growth' # "overflowed" => UsedHoldHeaders'
  BY <1>1, <1>2, <1>4, SameSlots, NoCallFacts, Known DEF HInv, UsedHoldHeaders
<1>9. QED
  BY <1>3, <1>5, <1>7, <1>8 DEF HInv

\* The index file is to grow for a slot past its end: all slots before are in use.
LEMMA GrowKeeps ==
  ASSUME HInv, NEW n \in FileNumbers, Grow(n)
  PROVE  HInv'
<1> PICK have, grow : /\ have = MappedBlocks(extents)
                      /\ grow = GrowthFor(n, have, SessionHeader(TailSlot))
  OBVIOUS
<1>1. /\ call = NoCall /\ FreeSlot(n) /\ ~SlotMapped(extents, n) /\ used' = used \cup {n}
      /\ call' = [NoCall EXCEPT !.step = "extend", !.file = n, !.have = have,
                                !.blocks = grow.now, !.more = grow.later]
      /\ block' = block /\ free' = free /\ files' = files
      /\ extents' = extents /\ primary' = primary /\ growth' = growth
  BY DEF Grow
<1>2. have \in Nat /\ have < HeaderVbn(n) /\ HeaderVbn(n) \in Nat
  BY <1>1, Known, Types, Numbers DEF SlotMapped
<1>3. grow.now \in Nat /\ grow.now > 0 /\ grow.later \in Nat /\ HeaderVbn(n) <= have + grow.now
  BY <1>2, GrowthFacts
<1>4. /\ call' \in GoodCall /\ call'.step = "extend" /\ call'.file = n /\ call'.segment = 0
      /\ call'.todo = <<>> /\ ~call'.newSegment /\ call'.have = have /\ call'.blocks = grow.now
  BY <1>1, <1>2, <1>3, NoCallFacts DEF NoCall, GoodCall, Steps
<1>5. /\ n \notin used /\ n > ReservedFiles /\ primary.highWater <= have + 1
      /\ \A k \in FileNumbers \ used : n <= k
  <2>1. \A k \in FileNumbers \ used : k > ReservedFiles
    BY Known, Numbers DEF FirstInPlace
  <2>2. QED
    BY <1>1, <2>1 DEF FreeSlot, HInv, VacantIsBlank
<1>6. Typed' /\ SpaceApart' /\ FirstInPlace'
  BY <1>1, <1>4, NoCallFacts DEF HInv, Typed, SpaceApart, FirstInPlace
<1>7. Growing' /\ ~Growing
  BY <1>1, <1>4, NoCallFacts DEF Growing
<1>8. Underway'
  <2>1. MappedBlocks(<<>>) = 0
    BY FS_EmptySet DEF MappedBlocks, Claimed
  <2>2. HeaderVbn(n) <= have + 0 + grow.now
    BY <1>2, <1>3
  <2>3. QED
    BY <1>1, <1>2, <1>3, <1>4, <1>5, <2>1, <2>2 DEF Underway, Growing
<1>9. Vacant' = Vacant
  BY <1>1, <1>4, <1>5, <1>7 DEF Vacant
<1>10. VacantIsBlank'
  <2>1. \A k \in Vacant : ~(HeaderVbn(k) <= have)
    <3>1. TAKE k \in Vacant
    <3>2. k \in FileNumbers /\ n <= k
      BY <1>5, <1>7 DEF Vacant
    <3>3. HeaderVbn(n) <= HeaderVbn(k) /\ HeaderVbn(k) \in Nat
      BY <3>2, Numbers
    <3>4. QED
      BY <1>2, <3>3
  <2>2. QED
    BY <1>1, <1>4, <1>9, <2>1, SameSlots DEF HInv, VacantIsBlank
<1>11. growth' # "overflowed" => UsedHoldHeaders'
  <2>1. \A k : SlotMapped(extents, k) => HeaderVbn(k) <= have
    BY DEF SlotMapped
  <2>2. QED
    BY <1>1, <1>4, <2>1, SameSlots, NoCallFacts, Known DEF HInv, UsedHoldHeaders
<1>12. QED
  BY <1>6, <1>8, <1>10, <1>11 DEF HInv

\* Headers of the index file are in slots in use, and not the call's.
LEMMA HeadedIsUsed ==
  ASSUME HInv, NEW n \in Headed, n # 0
  PROVE  /\ n \in FileNumbers /\ n \in used \ {call.file} /\ n \notin Vacant /\ SlotMapped(extents, n)
         /\ SessionHeader(n).owner = "index" /\ SessionHeader(n) \in GoodHeader
<1>1. n \in FileNumbers /\ SlotMapped(extents, n) /\ SessionHeader(n).owner = "index"
  BY DEF Headed
<1>2. SessionHeader(n) \in GoodHeader
  BY <1>1, Known, SessionHeaders
<1>3. CASE n = IndexFileNumber
  <2>1. call.file # n
    BY <1>3, Known, NoCallFacts, Numbers DEF Underway
  <2>2. QED
    BY <1>1, <1>2, <1>3, <2>1, Known
<1>4. CASE n # IndexFileNumber
  <2>1. HeaderIn(extents, n).owner = "index"
    BY <1>1, <1>4 DEF SessionHeader
  <2>2. n \notin Vacant
    BY <1>1, <2>1, Known DEF VacantIsBlank
  <2>3. n \in used
    BY <1>1, <2>2 DEF Vacant
  <2>4. n # call.file
    <3>1. CASE Growing
      BY <2>2, <3>1 DEF Vacant
    <3>2. CASE call.step = "header"
      BY <1>1, <2>1, <3>2, Known DEF VacantIsBlank
    <3>3. CASE call.step = "none"
      BY <1>1, <3>3, Known, NoCallFacts, Numbers DEF Underway
    <3>4. QED
      BY <3>1, <3>2, <3>3, Known, Types DEF Steps, Growing
  <2>5. QED
    BY <1>1, <1>2, <2>2, <2>3, <2>4
<1>5. QED
  BY <1>3, <1>4

\* What vacant slots hold after a header is written to another, and the index file
\* has grown perhaps: its new blocks may have leftovers, above all that is known.
LEMMA HeaderWritten ==
  ASSUME HInv, Longer, Claimed(extents) \subseteq Claimed(extents'),
         NEW m \in FileNumbers, SlotMapped(extents, m), NEW h \in GoodHeader, WriteHeader(m, h)
  PROVE  /\ \A c \in Clusters \ Claimed(extents') : block'[c].owner \in {"none", "leftover"}
         /\ primary.highWater <= MappedBlocks(extents') + 1
         /\ \A n \in Vacant : n # m /\ SlotMapped(extents', n) =>
               /\ HeaderIn(extents, n)'.owner \in {"none", "leftover"}
               /\ primary'.highWater = primary.highWater => LooksUnused(n)'
               /\ Growing /\ HeaderVbn(n) <= call.have => HeaderIn(extents, n)'.owner = "none"
               /\ call.step = "record" /\ SlotMapped(extents, n) => HeaderIn(extents, n)'.owner = "none"
<1>1. /\ Typed /\ Apart(extents) /\ VacantIsBlank /\ Underway /\ Vacant \subseteq FileNumbers
      /\ MappedBlocks(extents) \in Nat /\ primary.highWater \in Nat /\ call.have \in Nat
      /\ MappedBlocks(extents') \in Nat /\ MappedBlocks(extents) <= MappedBlocks(extents')
  BY Known, Types, MapFinite DEF Longer
<1>2. /\ \A n \in FileNumbers : SlotMapped(extents, n) =>
               /\ SlotMapped(extents', n)
               /\ n # m => HeaderIn(extents, n)' = HeaderIn(extents, n)
      /\ \A c \in Clusters \ Claimed(extents) : block'[c] = block[c]
  BY <1>1, WrittenSlot
<1>3. \A c \in Clusters \ Claimed(extents') : block'[c].owner \in {"none", "leftover"}
  BY <1>1, <1>2 DEF VacantIsBlank
<1>4. primary.highWater <= MappedBlocks(extents') + 1
  BY <1>1 DEF VacantIsBlank
<1>5. ASSUME NEW n \in Vacant, n # m, SlotMapped(extents', n)
      PROVE  /\ HeaderIn(extents, n)'.owner \in {"none", "leftover"}
             /\ primary'.highWater = primary.highWater => LooksUnused(n)'
             /\ Growing /\ HeaderVbn(n) <= call.have => HeaderIn(extents, n)'.owner = "none"
             /\ call.step = "record" /\ SlotMapped(extents, n) => HeaderIn(extents, n)'.owner = "none"
  <2>1. n \in FileNumbers /\ HeaderVbn(n) \in Nat
    BY <1>1, Numbers
  <2>2. CASE SlotMapped(extents, n)
    <3>1. HeaderIn(extents, n)' = HeaderIn(extents, n)
      BY <1>2, <1>5, <2>1, <2>2
    <3>2. /\ HeaderIn(extents, n).owner \in {"none", "leftover"} /\ LooksUnused(n)
          /\ Growing /\ HeaderVbn(n) <= call.have => HeaderIn(extents, n).owner = "none"
          /\ call.step = "record" => HeaderIn(extents, n).owner = "none"
      BY <1>1, <2>2 DEF VacantIsBlank
    <3>3. primary'.highWater = primary.highWater => LooksUnused(n)'
      BY <3>1, <3>2 DEF LooksUnused
    <3>4. QED
      BY <3>1, <3>2, <3>3
  <2>3. CASE ~SlotMapped(extents, n)
    <3>1. Lbn(extents', HeaderVbn(n)) \in Clusters \ Claimed(extents)
      BY <1>1, <1>5, <2>1, <2>3, NewSlots
    <3>2. HeaderIn(extents, n)'.owner \in {"none", "leftover"}
      BY <1>1, <1>2, <3>1 DEF HeaderIn, VacantIsBlank
    <3>3. MappedBlocks(extents) < HeaderVbn(n)
      BY <1>1, <2>1, <2>3 DEF SlotMapped
    <3>4. primary.highWater <= HeaderVbn(n)
      BY <1>1, <2>1, <3>3 DEF VacantIsBlank
    <3>5. primary'.highWater = primary.highWater => LooksUnused(n)'
      BY <1>1, <2>1, <3>4 DEF LooksUnused
    <3>6. Growing => ~(HeaderVbn(n) <= call.have)
      BY <1>1, <2>1, <3>3 DEF Underway
    <3>7. QED
      BY <2>3, <3>2, <3>5, <3>6
  <2>4. QED
    BY <2>2, <2>3
<1>6. QED
  BY <1>3, <1>4, <1>5

\* The extents that are taken were free; they are now the call's to place.
LEMMA AllocateKeeps ==
  ASSUME HInv, Allocate
  PROVE  HInv'
<1>1. PICK exts \in Allocations(free, call.blocks) :
          /\ free' = free \ Taken(exts)
          /\ IF TailSlot = 0 THEN GiveUp
             ELSE /\ call' = [call EXCEPT !.step = "place", !.todo = exts, !.tail = TailSlot]
                  /\ UNCHANGED used
          /\ IF TailSlot = 0 \/ Len(exts) > 1 THEN Unplanned ELSE UNCHANGED growth
  BY DEF Allocate
<1>2. /\ call.step = "extend" /\ block' = block /\ files' = files /\ extents' = extents
      /\ primary' = primary
  BY DEF Allocate
<1>3. /\ Typed /\ SpaceApart /\ Underway /\ VacantIsBlank /\ Growing /\ call.blocks \in Nat \ {0}
      /\ call.todo = <<>> /\ call.segment = 0 /\ free \subseteq Clusters
  BY <1>2, Known, Types DEF Underway, Growing, Typed
<1>4. IsAllocation(free, call.blocks, exts)
  BY <1>1 DEF Allocations
<1>5. /\ exts \in Seq(GoodExtent) /\ exts # <<>> /\ Apart(exts)
      /\ \A i \in DOMAIN exts : ClustersOf(exts[i]) \subseteq free
  BY <1>3, <1>4, AllocationIsFree DEF Apart
<1>6. Taken(exts) = Claimed(exts)
  BY <1>5 DEF Taken, TakenBefore, Claimed
<1>7. Claimed(exts) \subseteq free /\ MappedBlocks(exts) = call.blocks
  BY <1>4, <1>5, <1>6 DEF Claimed, MappedBlocks, IsAllocation
<1>8. growth' \in Growths /\ (growth' # "overflowed" => growth # "overflowed")
  BY <1>1, <1>3 DEF Unplanned, Typed, Growths
<1>9. CASE TailSlot = 0
  BY <1>1, <1>2, <1>3, <1>8, <1>9, GiveUpKeeps
<1>10. CASE TailSlot # 0
  <2>1. /\ call' = [call EXCEPT !.step = "place", !.todo = exts, !.tail = TailSlot] /\ used' = used
    BY <1>1, <1>10
  <2>2. /\ TailSlot \in FileNumbers /\ TailSlot \in used \ {call.file} /\ SlotMapped(extents, TailSlot)
        /\ SessionHeader(TailSlot).owner = "index"
    BY <1>10, Known, TailIsHeaded, HeadedIsUsed
  <2>3. /\ call' \in GoodCall /\ call'.step = "place" /\ call'.todo = exts /\ call'.tail = TailSlot
        /\ call'.file = call.file /\ call'.segment = 0 /\ call'.have = call.have
        /\ call'.newSegment = call.newSegment /\ call'.more = call.more
    <3>1. call \in GoodCall
      BY <1>3 DEF Typed
    <3>2. QED
      BY <1>3, <1>5, <2>1, <2>2, <3>1 DEF GoodCall, Steps
  <2>4. Typed'
    BY <1>2, <1>3, <1>8, <2>1, <2>3, <1>1 DEF Typed
  <2>5. SpaceApart'
    BY <1>1, <1>2, <1>3, <1>5, <1>6, <1>7, <2>3 DEF SpaceApart
  <2>6. FirstInPlace'
    BY <1>2, <2>1 DEF HInv, FirstInPlace
  <2>7. Growing' /\ Vacant' = Vacant
    BY <1>3, <2>1, <2>3 DEF Growing, Vacant
  <2>8. Underway'
    <3>1. /\ call.file \in FileNumbers /\ call.file > ReservedFiles /\ call.file \in used
          /\ call.have = MappedBlocks(extents) /\ primary.highWater <= call.have + 1
          /\ HeaderVbn(call.file) <= MappedBlocks(extents) + MappedBlocks(<<>>) + call.blocks
          /\ call.newSegment => call.more = 0
      BY <1>2, <1>3 DEF Underway
    <3>2. MappedBlocks(<<>>) = 0
      BY FS_EmptySet DEF MappedBlocks, Claimed
    <3>3. HeaderVbn(call.file) <= MappedBlocks(extents) + MappedBlocks(exts) + 0
      BY <1>3, <1>7, <3>1, <3>2, Types
    <3>4. call.have <= MappedBlocks(extents)
      BY <1>3, <3>1, Types
    <3>5. PICK last : last = TailSlot
      OBVIOUS
    <3>6. /\ call'.tail = last /\ last \in used' \ {call'.file, call'.segment}
          /\ SlotMapped(extents, last)' /\ (SessionHeader(last).owner = "index")'
      BY <1>2, <2>1, <2>2, <2>3, <3>5, Numbers, SameSlots
    <3>7. SlotMapped(extents', call'.tail) /\ (SessionHeader(call.tail).owner = "index")'
      BY <3>6 DEF SessionHeader, HeaderIn, SlotMapped
    <3>8. QED
      BY <1>2, <1>3, <1>5, <2>1, <2>3, <2>7, <3>1, <3>3, <3>4, <3>6, <3>7 DEF Underway
  <2>9. VacantIsBlank'
    BY <1>2, <1>3, <2>3, <2>7, SameSlots DEF VacantIsBlank
  <2>10. growth' # "overflowed" => UsedHoldHeaders'
    BY <1>2, <1>3, <1>8, <2>1, <2>3, <2>7, SameSlots DEF HInv, UsedHoldHeaders
  <2>11. QED
    BY <2>4, <2>5, <2>6, <2>8, <2>9, <2>10 DEF HInv
<1>11. QED
  BY <1>9, <1>10

\* There is not enough space, or no slot for a segment.
LEMMA FailuresKeep ==
  ASSUME HInv, NoSpace \/ NoSlot
  PROVE  HInv'
<1>1. /\ call.step \in {"extend", "place"} /\ GiveUp /\ block' = block /\ extents' = extents
      /\ primary' = primary /\ files' = files /\ free' = free
      /\ Unplanned \/ growth' = growth
  BY DEF NoSpace, NoSlot
<1>2. growth' \in Growths /\ (growth' # "overflowed" => growth # "overflowed")
  BY <1>1, Known DEF Unplanned, Typed, Growths
<1>3. QED
  BY <1>1, <1>2, GiveUpKeeps DEF Growing

\* The first extent stays in place when the map grows.
LEMMA FirstStays ==
  ASSUME HInv, Longer, used \subseteq used'
  PROVE  FirstInPlace'
<1>1. /\ extents \in Seq(GoodExtent) /\ extents # <<>> /\ extents[1].start = 0
      /\ FirstBlocks <= extents[1].count /\ \A n \in 1 .. ReservedFiles : n \in used
  BY Known, Types DEF FirstInPlace
<1>2. 1 \in DOMAIN extents
  BY <1>1
<1>3. /\ 1 \in DOMAIN extents' /\ extents'[1].start = extents[1].start
      /\ extents[1].count <= extents'[1].count /\ extents' \in Seq(GoodExtent)
  BY <1>2 DEF Longer, Prolongs
<1>4. extents[1].count \in Nat /\ extents'[1].count \in Nat /\ FirstBlocks \in Nat
  <2>1. extents[1] \in GoodExtent /\ extents'[1] \in GoodExtent
    BY <1>1, <1>2, <1>3
  <2>2. QED
    BY <2>1, ExtentFinite, Numbers
<1>5. FirstBlocks <= extents'[1].count
  BY <1>1, <1>3, <1>4
<1>6. extents' # <<>>
  BY <1>3
<1>7. QED
  BY <1>1, <1>3, <1>5, <1>6 DEF FirstInPlace

\* An extent goes from those the call has to place to those of the index file.
LEMMA ExtentPlaced ==
  ASSUME HInv, call.todo # <<>>, NEW e, e = Head(call.todo),
         extents' = AddExtent(extents, e) \/ extents' = Append(extents, e)
  PROVE  /\ e \in GoodExtent /\ Longer /\ Claimed(extents) \subseteq Claimed(extents')
         /\ Tail(call.todo) \in Seq(GoodExtent) /\ Apart(Tail(call.todo))
         /\ Claimed(extents') \cap Claimed(Tail(call.todo)) = {}
         /\ Claimed(extents') \cup Claimed(Tail(call.todo)) = Claimed(extents) \cup Claimed(call.todo)
         /\ MappedBlocks(extents') + MappedBlocks(Tail(call.todo))
               = MappedBlocks(extents) + MappedBlocks(call.todo)
         /\ MappedBlocks(extents') \in Nat /\ MappedBlocks(Tail(call.todo)) \in Nat
<1>1. /\ extents \in Seq(GoodExtent) /\ call.todo \in Seq(GoodExtent) /\ Apart(extents)
      /\ Apart(call.todo) /\ Claimed(extents) \cap Claimed(call.todo) = {}
      /\ MappedBlocks(extents) \in Nat
  BY Known, Types DEF SpaceApart
<1>2. /\ e \in GoodExtent /\ Tail(call.todo) \in Seq(GoodExtent) /\ Apart(Tail(call.todo))
      /\ Claimed(call.todo) = ClustersOf(e) \cup Claimed(Tail(call.todo))
      /\ ClustersOf(e) \cap Claimed(Tail(call.todo)) = {}
      /\ MappedBlocks(call.todo) = e.count + MappedBlocks(Tail(call.todo))
  BY <1>1, TodoShrinks
<1>3. ClustersOf(e) \cap Claimed(extents) = {}
  BY <1>1, <1>2
<1>4. /\ extents' \in Seq(GoodExtent) /\ Apart(extents')
      /\ Claimed(extents') = Claimed(extents) \cup ClustersOf(e)
      /\ MappedBlocks(extents') = MappedBlocks(extents) + e.count
      /\ Prolongs(extents', extents)
  <2>1. CASE extents' = AddExtent(extents, e)
    BY <1>1, <1>2, <1>3, <2>1, AddedExtent
  <2>2. CASE extents' = Append(extents, e)
    BY <1>1, <1>2, <1>3, <2>2, AppendedExtent
  <2>3. QED
    BY <2>1, <2>2
<1>5. e.count \in Nat /\ MappedBlocks(extents') \in Nat /\ MappedBlocks(Tail(call.todo)) \in Nat
  BY <1>2, <1>4, ExtentFinite, MapFinite
<1>6. Longer
  BY <1>1, <1>4, <1>5 DEF Longer
<1>7. Claimed(extents') \cap Claimed(Tail(call.todo)) = {}
  BY <1>1, <1>2, <1>4
<1>8. Claimed(extents') \cup Claimed(Tail(call.todo)) = Claimed(extents) \cup Claimed(call.todo)
  BY <1>2, <1>4
<1>9. MappedBlocks(extents') + MappedBlocks(Tail(call.todo))
         = MappedBlocks(extents) + MappedBlocks(call.todo)
  BY <1>1, <1>2, <1>4, <1>5
<1>10. QED
  BY <1>2, <1>4, <1>5, <1>6, <1>7, <1>8, <1>9

\* A pointer goes into the last header, which stays in its slot.
LEMMA PlacePointerKeeps ==
  ASSUME HInv, PlacePointer
  PROVE  HInv'
<1> PICK e, last, old : e = Head(call.todo) /\ last = call.tail /\ old = SessionHeader(call.tail)
  OBVIOUS
<1> PICK h : h = [old EXCEPT !.map = AddExtent(old.map, e)]
  OBVIOUS
<1>1. /\ call.step = "place" /\ call.todo # <<>> /\ ~call.newSegment /\ MapFits(AddExtent(old.map, e))
      /\ Rewrite(last, h) /\ extents' = AddExtent(extents, e)
      /\ call' = [call EXCEPT !.todo = Tail(@)]
      /\ free' = free /\ files' = files /\ used' = used /\ growth' = growth
  BY DEF PlacePointer, TailHasRoom, Grown
<1>2. /\ Typed /\ SpaceApart /\ Underway /\ VacantIsBlank /\ Growing /\ call.segment = 0
      /\ Apart(extents)
  BY <1>1, Known DEF Underway, Growing
<1>3. /\ last \in FileNumbers /\ last \in used \ {call.file, call.segment}
      /\ SlotMapped(extents, last) /\ old.owner = "index" /\ old \in GoodHeader /\ last \notin Vacant
  <2>1. last \in used \ {call.file, call.segment} /\ SlotMapped(extents, last) /\ old.owner = "index"
    BY <1>1, <1>2 DEF Underway
  <2>2. last \in FileNumbers
    BY <1>2, <2>1, Types
  <2>3. QED
    BY <1>2, <2>1, <2>2, SessionHeaders DEF Vacant
<1>4. /\ e \in GoodExtent /\ Longer /\ Claimed(extents) \subseteq Claimed(extents')
      /\ Tail(call.todo) \in Seq(GoodExtent) /\ Apart(Tail(call.todo))
      /\ Claimed(extents') \cap Claimed(Tail(call.todo)) = {}
      /\ Claimed(extents') \cup Claimed(Tail(call.todo)) = Claimed(extents) \cup Claimed(call.todo)
      /\ MappedBlocks(extents') + MappedBlocks(Tail(call.todo))
               = MappedBlocks(extents) + MappedBlocks(call.todo)
      /\ MappedBlocks(extents') \in Nat
  BY <1>1, ExtentPlaced
<1>5. h \in GoodHeader /\ h.owner = "index" /\ h.highWater = old.highWater
  <2>1. old.map \in Seq(GoodExtent)
    BY <1>3 DEF GoodHeader, GoodMap
  <2>2. AddExtent(old.map, e) \in GoodMap
    BY <1>1, <1>4, <2>1, AddExtentGrows DEF GoodMap, MapFits
  <2>3. QED
    BY <1>3, <2>2 DEF GoodHeader
<1>6. WriteHeader(last, h) /\ primary' = IF last = IndexFileNumber THEN h ELSE primary
  BY <1>1 DEF Rewrite
<1>7. primary' \in GoodHeader /\ primary'.owner = "index" /\ primary'.highWater = primary.highWater
  BY <1>2, <1>5, <1>6 DEF Typed, SessionHeader
<1>8. /\ block' \in [Clusters -> GoodHeader] /\ HeaderIn(extents, last)' = h
      /\ \A n \in FileNumbers : SlotMapped(extents, n) =>
            /\ SlotMapped(extents', n)
            /\ n # last => HeaderIn(extents, n)' = HeaderIn(extents, n)
  BY <1>2, <1>3, <1>4, <1>5, <1>6, WrittenSlot
<1>9. /\ call' \in GoodCall /\ call'.todo = Tail(call.todo) /\ call'.step = "place"
      /\ call'.file = call.file /\ call'.segment = 0 /\ call'.tail = last /\ call'.have = call.have
      /\ call'.more = call.more /\ ~call'.newSegment
  <2>1. call \in GoodCall
    BY <1>2 DEF Typed
  <2>2. QED
    BY <1>1, <1>2, <1>4, <2>1 DEF GoodCall
<1>10. Typed'
  BY <1>1, <1>2, <1>4, <1>7, <1>8, <1>9 DEF Typed, Longer
<1>11. SpaceApart'
  BY <1>1, <1>2, <1>4, <1>9 DEF SpaceApart, Longer
<1>12. FirstInPlace'
  BY <1>1, <1>4, FirstStays
<1>13. Growing' /\ Vacant' = Vacant
  BY <1>1, <1>2, <1>9 DEF Growing, Vacant
<1>14. Underway'
  <2>1. /\ call.file \in FileNumbers /\ call.file > ReservedFiles /\ call.file \in used
        /\ call.have <= MappedBlocks(extents) /\ primary.highWater <= call.have + 1
        /\ HeaderVbn(call.file) <= MappedBlocks(extents) + MappedBlocks(call.todo) + 0
    BY <1>1, <1>2 DEF Underway
  <2>2. call.have <= MappedBlocks(extents')
    BY <1>2, <1>4, <2>1, Types DEF Longer
  <2>3. HeaderVbn(call.file) <= MappedBlocks(extents') + MappedBlocks(Tail(call.todo)) + 0
    BY <1>4, <2>1
  <2>4. SessionHeader(last)' = h
    BY <1>6, <1>8 DEF SessionHeader
  <2>5. SlotMapped(extents', call'.tail)
    BY <1>3, <1>8, <1>9
  <2>6. SessionHeader(call.tail)' = h
    BY <1>9, <2>4 DEF SessionHeader, HeaderIn
  <2>7. (SessionHeader(call.tail).owner = "index")'
    BY <1>5, <2>6
  <2>8. call'.tail \in used' \ {call'.file, call'.segment}
    BY <1>1, <1>2, <1>3, <1>9
  <2>9. QED
    BY <1>1, <1>7, <1>9, <1>13, <2>1, <2>2, <2>3, <2>5, <2>7, <2>8 DEF Underway
<1>15. VacantIsBlank'
  <2>1. /\ \A c \in Clusters \ Claimed(extents') : block'[c].owner \in {"none", "leftover"}
        /\ primary.highWater <= MappedBlocks(extents') + 1
        /\ \A n \in Vacant : n # last /\ SlotMapped(extents', n) =>
               /\ HeaderIn(extents, n)'.owner \in {"none", "leftover"}
               /\ LooksUnused(n)'
               /\ Growing /\ HeaderVbn(n) <= call.have => HeaderIn(extents, n)'.owner = "none"
    BY <1>3, <1>4, <1>5, <1>6, <1>7, HeaderWritten
  <2>2. QED
    BY <1>2, <1>3, <1>7, <1>9, <1>13, <2>1 DEF VacantIsBlank
<1>16. growth' # "overflowed" => UsedHoldHeaders'
  <2>1. SUFFICES ASSUME growth # "overflowed" PROVE UsedHoldHeaders'
    BY <1>1
  <2>2. UsedHoldHeaders /\ used \subseteq FileNumbers
    BY <1>2, <2>1, Types DEF HInv
  <2>3. ASSUME NEW n \in used \ {call.file, call.segment}
        PROVE  SlotMapped(extents', n) /\ HeaderIn(extents, n)'.owner \in {"file", "index"}
    <3>1. n \in FileNumbers /\ SlotMapped(extents, n) /\ HeaderIn(extents, n).owner \in {"file", "index"}
      BY <2>2 DEF UsedHoldHeaders
    <3>2. CASE n = last
      BY <1>3, <1>5, <1>8, <3>2
    <3>3. CASE n # last
      BY <1>8, <3>1, <3>3
    <3>4. QED
      BY <3>2, <3>3
  <2>4. QED
    BY <1>1, <1>2, <1>9, <2>2, <2>3 DEF UsedHoldHeaders
<1>17. QED
  BY <1>10, <1>11, <1>12, <1>14, <1>15, <1>16 DEF HInv

\* The last header is linked to a slot that was not in use.
LEMMA LinkSegmentKeeps ==
  ASSUME HInv, LinkSegment
  PROVE  HInv'
<1> PICK last, old : last = call.tail /\ old = SessionHeader(call.tail)
  OBVIOUS
<1>1. PICK seg \in FileNumbers :
          /\ FreeSlotWithin(seg, MappedBlocks(extents))
          /\ Rewrite(last, [old EXCEPT !.ext = seg])
          /\ used' = used \cup {seg}
          /\ call' = [call EXCEPT !.step = "segment", !.segment = seg]
  BY DEF LinkSegment
<1> PICK h : h = [old EXCEPT !.ext = seg]
  OBVIOUS
<1>2. /\ call.step = "place" /\ call.todo # <<>>
      /\ growth' = (IF call.newSegment THEN growth ELSE "overflowed")
      /\ free' = free /\ files' = files /\ extents' = extents
  BY DEF LinkSegment
<1>3. /\ Typed /\ SpaceApart /\ Underway /\ VacantIsBlank /\ Growing /\ call.segment = 0
      /\ Apart(extents) /\ Longer /\ call.file \in used
  BY <1>2, Known, AsLong DEF Underway, Growing
<1>4. /\ last \in FileNumbers /\ last \in used \ {call.file, call.segment}
      /\ SlotMapped(extents, last) /\ old.owner = "index" /\ old \in GoodHeader /\ last \notin Vacant
  <2>1. last \in used \ {call.file, call.segment} /\ SlotMapped(extents, last) /\ old.owner = "index"
    BY <1>2, <1>3 DEF Underway
  <2>2. last \in FileNumbers
    BY <1>3, <2>1, Types
  <2>3. QED
    BY <1>3, <2>1, <2>2, SessionHeaders DEF Vacant
<1>5. /\ seg \notin used /\ SlotMapped(extents, seg) /\ HeaderVbn(seg) <= MappedBlocks(extents)
      /\ seg # last /\ seg # call.file /\ seg # 0
  BY <1>1, <1>3, <1>4, Numbers DEF FreeSlotWithin, FreeSlot, SlotMapped
<1>6. h \in GoodHeader /\ h.owner = "index" /\ h.highWater = old.highWater
  BY <1>4 DEF GoodHeader
<1>7. WriteHeader(last, h) /\ primary' = IF last = IndexFileNumber THEN h ELSE primary
  BY <1>1 DEF Rewrite
<1>8. primary' \in GoodHeader /\ primary'.owner = "index" /\ primary'.highWater = primary.highWater
  BY <1>3, <1>6, <1>7 DEF Typed, SessionHeader
<1>9. /\ block' \in [Clusters -> GoodHeader] /\ HeaderIn(extents, last)' = h
      /\ \A n \in FileNumbers : SlotMapped(extents, n) =>
            /\ SlotMapped(extents', n)
            /\ n # last => HeaderIn(extents, n)' = HeaderIn(extents, n)
  BY <1>3, <1>4, <1>6, <1>7, WrittenSlot
<1>10. /\ call' \in GoodCall /\ call'.todo = call.todo /\ call'.step = "segment"
       /\ call'.file = call.file /\ call'.segment = seg /\ call'.tail = last /\ call'.have = call.have
       /\ call'.more = call.more /\ call'.newSegment = call.newSegment
  <2>1. call \in GoodCall
    BY <1>3 DEF Typed
  <2>2. QED
    BY <1>1, <2>1 DEF GoodCall, Steps
<1>11. Typed'
  <2>1. growth' \in Growths
    BY <1>2, <1>3 DEF Typed, Growths
  <2>2. QED
    BY <1>1, <1>2, <1>3, <1>8, <1>9, <1>10, <2>1 DEF Typed
<1>12. SpaceApart'
  BY <1>2, <1>3, <1>10 DEF SpaceApart
<1>13. FirstInPlace'
  BY <1>1, <1>3, FirstStays
<1>14. Growing' /\ Vacant' = Vacant \ {seg}
  BY <1>1, <1>3, <1>5, <1>10 DEF Growing, Vacant
<1>15. Underway'
  <2>1. /\ call.file \in FileNumbers /\ call.file > ReservedFiles /\ call.file \in used
        /\ call.have <= MappedBlocks(extents) /\ primary.highWater <= call.have + 1
        /\ HeaderVbn(call.file) <= MappedBlocks(extents) + MappedBlocks(call.todo) + 0
        /\ call.newSegment => call.have = MappedBlocks(extents) /\ call.more = 0
    BY <1>2, <1>3 DEF Underway
  <2>2. SessionHeader(last)' = h
    BY <1>7, <1>9 DEF SessionHeader
  <2>3. SlotMapped(extents', call'.tail) /\ SlotMapped(extents', call'.segment)
    BY <1>4, <1>5, <1>9, <1>10
  <2>4. SessionHeader(call.tail)' = h
    BY <1>10, <2>2 DEF SessionHeader, HeaderIn
  <2>5. (SessionHeader(call.tail).owner = "index")'
    BY <1>6, <2>4
  <2>6. call'.tail \in used' \ {call'.file, call'.segment} /\ call'.segment \in used' \ {call'.file}
    BY <1>1, <1>4, <1>5, <1>10
  <2>7. QED
    BY <1>1, <1>2, <1>8, <1>10, <1>14, <2>1, <2>3, <2>5, <2>6 DEF Underway
<1>16. VacantIsBlank'
  <2>1. /\ \A c \in Clusters \ Claimed(extents') : block'[c].owner \in {"none", "leftover"}
        /\ primary.highWater <= MappedBlocks(extents') + 1
        /\ \A n \in Vacant : n # last /\ SlotMapped(extents', n) =>
               /\ HeaderIn(extents, n)'.owner \in {"none", "leftover"}
               /\ LooksUnused(n)'
               /\ Growing /\ HeaderVbn(n) <= call.have => HeaderIn(extents, n)'.owner = "none"
    BY <1>2, <1>3, <1>4, <1>6, <1>7, <1>8, HeaderWritten
  <2>2. QED
    BY <1>3, <1>4, <1>8, <1>10, <1>14, <2>1 DEF VacantIsBlank
<1>17. growth' # "overflowed" => UsedHoldHeaders'
  <2>1. SUFFICES ASSUME growth # "overflowed", call.newSegment PROVE UsedHoldHeaders'
    BY <1>2
  <2>2. UsedHoldHeaders /\ used \subseteq FileNumbers
    BY <1>3, <2>1, Types DEF HInv
  <2>3. ASSUME NEW n \in used' \ {call'.file, call'.segment}
        PROVE  SlotMapped(extents', n) /\ HeaderIn(extents, n)'.owner \in {"file", "index"}
    <3>0. n \in used \ {call.file, call.segment}
      BY <1>1, <1>3, <1>10, <2>2, Numbers
    <3>1. n \in FileNumbers /\ SlotMapped(extents, n) /\ HeaderIn(extents, n).owner \in {"file", "index"}
      BY <2>2, <3>0 DEF UsedHoldHeaders
    <3>2. CASE n = last
      BY <1>4, <1>6, <1>9, <3>2
    <3>3. CASE n # last
      BY <1>9, <3>1, <3>3
    <3>4. QED
      BY <3>2, <3>3
  <2>4. \A n \in used' \ {call'.file} : HeaderVbn(n) <= call'.have
    <3>1. HeaderVbn(seg) <= call.have
      BY <1>3, <1>5, <2>1 DEF Underway
    <3>2. QED
      BY <1>1, <1>3, <1>10, <2>2, <3>1 DEF UsedHoldHeaders
  <2>5. QED
    BY <2>3, <2>4 DEF UsedHoldHeaders
<1>18. QED
  BY <1>11, <1>12, <1>13, <1>15, <1>16, <1>17 DEF HInv

\* The new segment's header goes into that slot, and its extent to the index file.
LEMMA WriteSegmentKeeps ==
  ASSUME HInv, WriteSegment
  PROVE  HInv'
<1> PICK e, seg, h : e = Head(call.todo) /\ seg = call.segment /\ h = IndexHeader(<<e>>, 0, 0)
  OBVIOUS
<1>1. /\ call.step = "segment" /\ WriteHeader(seg, h) /\ extents' = Append(extents, e)
      /\ call' = [call EXCEPT !.step = "place", !.todo = Tail(@), !.newSegment = FALSE,
                              !.tail = seg, !.segment = 0]
      /\ free' = free /\ files' = files /\ used' = used /\ primary' = primary /\ growth' = growth
  BY DEF WriteSegment
<1>2. /\ Typed /\ SpaceApart /\ Underway /\ VacantIsBlank /\ Growing /\ call.todo # <<>>
      /\ Apart(extents)
  BY <1>1, Known DEF Underway, Growing
<1>3. /\ seg \in FileNumbers /\ seg \in used \ {call.file} /\ SlotMapped(extents, seg)
      /\ seg \notin Vacant /\ seg # 0
  <2>1. seg \in used \ {call.file} /\ SlotMapped(extents, seg)
    BY <1>1, <1>2 DEF Underway
  <2>2. seg \in FileNumbers
    BY <1>2, <2>1, Types
  <2>3. QED
    BY <1>2, <2>1, <2>2, Numbers DEF Vacant
<1>4. /\ e \in GoodExtent /\ Longer /\ Claimed(extents) \subseteq Claimed(extents')
      /\ Tail(call.todo) \in Seq(GoodExtent) /\ Apart(Tail(call.todo))
      /\ Claimed(extents') \cap Claimed(Tail(call.todo)) = {}
      /\ Claimed(extents') \cup Claimed(Tail(call.todo)) = Claimed(extents) \cup Claimed(call.todo)
      /\ MappedBlocks(extents') + MappedBlocks(Tail(call.todo))
               = MappedBlocks(extents) + MappedBlocks(call.todo)
      /\ MappedBlocks(extents') \in Nat
  BY <1>1, <1>2, ExtentPlaced
<1>5. h \in GoodHeader /\ h.owner = "index"
  <2>1. <<e>> \in Seq(GoodExtent) /\ Len(<<e>>) = 1
    BY <1>4
  <2>2. 1 * PointerWords <= MapWords
    BY MapHasRoom, Numbers
  <2>3. <<e>> \in GoodMap
    BY <2>1, <2>2 DEF GoodMap
  <2>4. QED
    BY <2>3 DEF IndexHeader, GoodHeader, Owners
<1>6. /\ block' \in [Clusters -> GoodHeader] /\ HeaderIn(extents, seg)' = h
      /\ \A n \in FileNumbers : SlotMapped(extents, n) =>
            /\ SlotMapped(extents', n)
            /\ n # seg => HeaderIn(extents, n)' = HeaderIn(extents, n)
  BY <1>1, <1>2, <1>3, <1>4, <1>5, WrittenSlot
<1>7. /\ call' \in GoodCall /\ call'.todo = Tail(call.todo) /\ call'.step = "place"
      /\ call'.file = call.file /\ call'.segment = 0 /\ call'.tail = seg /\ call'.have = call.have
      /\ call'.more = call.more /\ ~call'.newSegment
  <2>1. call \in GoodCall
    BY <1>2 DEF Typed
  <2>2. QED
    BY <1>1, <1>3, <1>4, <2>1 DEF GoodCall, Steps
<1>8. Typed'
  BY <1>1, <1>2, <1>4, <1>6, <1>7 DEF Typed, Longer
<1>9. SpaceApart'
  BY <1>1, <1>2, <1>4, <1>7 DEF SpaceApart, Longer
<1>10. FirstInPlace'
  BY <1>1, <1>4, FirstStays
<1>11. Growing' /\ Vacant' = Vacant
  BY <1>1, <1>2, <1>7 DEF Growing, Vacant
<1>12. Underway'
  <2>1. /\ call.file \in FileNumbers /\ call.file > ReservedFiles /\ call.file \in used
        /\ call.have <= MappedBlocks(extents) /\ primary.highWater <= call.have + 1
        /\ HeaderVbn(call.file) <= MappedBlocks(extents) + MappedBlocks(call.todo) + 0
    BY <1>1, <1>2 DEF Underway, Growing
  <2>2. call.have <= MappedBlocks(extents')
    BY <1>2, <1>4, <2>1, Types DEF Longer
  <2>3. HeaderVbn(call.file) <= MappedBlocks(extents') + MappedBlocks(Tail(call.todo)) + 0
    BY <1>4, <2>1
  <2>4. (SessionHeader(seg).owner = "index")'
    BY <1>1, <1>2, <1>5, <1>6 DEF SessionHeader, Typed
  <2>5. SlotMapped(extents', call'.tail)
    BY <1>3, <1>6, <1>7
  <2>6. (SessionHeader(call.tail).owner = "index")'
    BY <1>7, <2>4 DEF SessionHeader, HeaderIn
  <2>7. call'.tail \in used' \ {call'.file, call'.segment}
    BY <1>1, <1>3, <1>7
  <2>8. QED
    BY <1>1, <1>7, <1>11, <2>1, <2>2, <2>3, <2>5, <2>6, <2>7 DEF Underway
<1>13. VacantIsBlank'
  <2>1. /\ \A c \in Clusters \ Claimed(extents') : block'[c].owner \in {"none", "leftover"}
        /\ primary.highWater <= MappedBlocks(extents') + 1
        /\ \A n \in Vacant : n # seg /\ SlotMapped(extents', n) =>
               /\ HeaderIn(extents, n)'.owner \in {"none", "leftover"}
               /\ LooksUnused(n)'
               /\ Growing /\ HeaderVbn(n) <= call.have => HeaderIn(extents, n)'.owner = "none"
    BY <1>1, <1>3, <1>4, <1>5, HeaderWritten
  <2>2. QED
    BY <1>1, <1>2, <1>3, <1>7, <1>11, <2>1 DEF VacantIsBlank
<1>14. growth' # "overflowed" => UsedHoldHeaders'
  <2>1. SUFFICES ASSUME growth # "overflowed" PROVE UsedHoldHeaders'
    BY <1>1
  <2>2. UsedHoldHeaders /\ used \subseteq FileNumbers
    BY <1>2, <2>1, Types DEF HInv
  <2>3. ASSUME NEW n \in used' \ {call'.file, call'.segment}
        PROVE  SlotMapped(extents', n) /\ HeaderIn(extents, n)'.owner \in {"file", "index"}
    <3>1. n \in FileNumbers /\ n \in used \ {call.file}
      BY <1>1, <1>7, <2>2
    <3>2. CASE n = seg
      BY <1>3, <1>5, <1>6, <3>2
    <3>3. CASE n # seg
      <4>1. SlotMapped(extents, n) /\ HeaderIn(extents, n).owner \in {"file", "index"}
        BY <2>2, <3>1, <3>3 DEF UsedHoldHeaders
      <4>2. QED
        BY <1>6, <3>1, <3>3, <4>1
    <3>4. QED
      BY <3>2, <3>3
  <2>4. QED
    BY <1>1, <1>2, <1>7, <2>2, <2>3 DEF UsedHoldHeaders
<1>15. QED
  BY <1>8, <1>9, <1>10, <1>12, <1>13, <1>14 DEF HInv

\* The primary header is written as it was.
LEMMA RecordHighestKeeps ==
  ASSUME HInv, RecordHighest
  PROVE  HInv'
<1>1. /\ call.step = "place" /\ call.todo = <<>> /\ WriteHeader(IndexFileNumber, primary)
      /\ primary' = primary /\ call' = [call EXCEPT !.step = "zero"]
      /\ free' = free /\ files' = files /\ used' = used /\ extents' = extents /\ growth' = growth
  BY DEF RecordHighest, Rewrite
<1>2. /\ Typed /\ SpaceApart /\ Underway /\ VacantIsBlank /\ Growing /\ call.segment = 0
      /\ Apart(extents) /\ Longer /\ ~call.newSegment
  BY <1>1, Known, AsLong DEF Underway, Growing
<1>3. /\ IndexFileNumber \in FileNumbers /\ IndexFileNumber \in used /\ IndexFileNumber \notin Vacant
      /\ SlotMapped(extents, IndexFileNumber) /\ primary \in GoodHeader /\ primary.owner = "index"
  BY <1>2, Known, Numbers DEF Typed
<1>4. /\ block' \in [Clusters -> GoodHeader] /\ HeaderIn(extents, IndexFileNumber)' = primary
      /\ \A n \in FileNumbers : SlotMapped(extents, n) =>
            /\ SlotMapped(extents', n)
            /\ n # IndexFileNumber => HeaderIn(extents, n)' = HeaderIn(extents, n)
  BY <1>1, <1>2, <1>3, WrittenSlot
<1>5. /\ call' \in GoodCall /\ call'.todo = <<>> /\ call'.step = "zero" /\ call'.file = call.file
      /\ call'.segment = 0 /\ call'.have = call.have /\ ~call'.newSegment
  <2>1. call \in GoodCall
    BY <1>2 DEF Typed
  <2>2. QED
    BY <1>1, <1>2, <2>1 DEF GoodCall, Steps
<1>6. Typed'
  BY <1>1, <1>2, <1>4, <1>5 DEF Typed
<1>7. SpaceApart' /\ FirstInPlace'
  BY <1>1, <1>2, <1>5, Known DEF SpaceApart, FirstInPlace
<1>8. Growing' /\ Vacant' = Vacant
  BY <1>1, <1>2, <1>5 DEF Growing, Vacant
<1>9. Underway'
  BY <1>1, <1>2, <1>5, <1>8 DEF Underway
<1>10. VacantIsBlank'
  <2>1. /\ \A c \in Clusters \ Claimed(extents') : block'[c].owner \in {"none", "leftover"}
        /\ primary.highWater <= MappedBlocks(extents') + 1
        /\ \A n \in Vacant : n # IndexFileNumber /\ SlotMapped(extents', n) =>
               /\ HeaderIn(extents, n)'.owner \in {"none", "leftover"}
               /\ LooksUnused(n)'
               /\ Growing /\ HeaderVbn(n) <= call.have => HeaderIn(extents, n)'.owner = "none"
    BY <1>1, <1>2, <1>3, HeaderWritten
  <2>2. QED
    BY <1>1, <1>2, <1>3, <1>5, <1>8, <2>1 DEF VacantIsBlank
<1>11. growth' # "overflowed" => UsedHoldHeaders'
  <2>1. SUFFICES ASSUME growth # "overflowed" PROVE UsedHoldHeaders'
    BY <1>1
  <2>2. UsedHoldHeaders /\ used \subseteq FileNumbers
    BY <1>2, <2>1, Types DEF HInv
  <2>3. ASSUME NEW n \in used \ {call.file, call.segment}
        PROVE  SlotMapped(extents', n) /\ HeaderIn(extents, n)'.owner \in {"file", "index"}
    <3>1. n \in FileNumbers /\ SlotMapped(extents, n) /\ HeaderIn(extents, n).owner \in {"file", "index"}
      BY <2>2 DEF UsedHoldHeaders
    <3>2. CASE n = IndexFileNumber
      BY <1>3, <1>4, <3>2
    <3>3. CASE n # IndexFileNumber
      BY <1>4, <3>1, <3>3
    <3>4. QED
      BY <3>2, <3>3
  <2>4. QED
    BY <1>1, <1>2, <1>5, <2>2, <2>3 DEF UsedHoldHeaders
<1>12. QED
  BY <1>6, <1>7, <1>9, <1>10, <1>11 DEF HInv

\* What slots hold after the new blocks are zeroed.
LEMMA ZeroedSlots ==
  ASSUME Typed, Apart(extents), ZeroNewBlocks, NEW n \in FileNumbers, SlotMapped(extents, n)
  PROVE  /\ HeaderVbn(n) <= call.have => HeaderIn(extents, n)' = HeaderIn(extents, n)
         /\ ~(HeaderVbn(n) <= call.have) => HeaderIn(extents, n)' = Other("none")
<1>1. /\ block' = [c \in Clusters |-> IF c \in NewBlocks THEN Other("none") ELSE block[c]]
      /\ extents' = extents /\ MappedBlocks(extents) \in Nat /\ call.have \in Nat
      /\ HeaderVbn(n) \in Nat
  BY Types, Numbers DEF ZeroNewBlocks
<1> PICK place : place = Lbn(extents, HeaderVbn(n))
  OBVIOUS
<1>2. /\ HeaderVbn(n) \in 1 .. MappedBlocks(extents) /\ place \in Clusters
      /\ \A v \in 1 .. MappedBlocks(extents) : Lbn(extents, v) = place => v = HeaderVbn(n)
  BY SlotFacts
<1>3. HeaderIn(extents, n)' = block'[place] /\ HeaderIn(extents, n) = block[place]
  BY <1>1 DEF HeaderIn
<1>4. CASE HeaderVbn(n) <= call.have
  <2>1. place \notin NewBlocks
    <3>1. SUFFICES ASSUME NEW v \in call.have + 1 .. MappedBlocks(extents), Lbn(extents, v) = place
                   PROVE  FALSE
      BY DEF NewBlocks
    <3>2. v \in 1 .. MappedBlocks(extents) /\ call.have < v
      BY <1>1, <3>1
    <3>3. v = HeaderVbn(n)
      BY <1>2, <3>1, <3>2
    <3>4. QED
      BY <1>1, <1>4, <3>2, <3>3
  <2>2. QED
    BY <1>1, <1>2, <1>3, <1>4, <2>1
<1>5. CASE ~(HeaderVbn(n) <= call.have)
  <2>1. HeaderVbn(n) \in call.have + 1 .. MappedBlocks(extents)
    BY <1>1, <1>2, <1>5
  <2>2. place \in NewBlocks
    BY <2>1 DEF NewBlocks
  <2>3. QED
    BY <1>1, <1>2, <1>3, <1>5, <2>2
<1>6. QED
  BY <1>4, <1>5

\* An unused block is one that no header's reader takes for a header.
LEMMA OtherHeaders ==
  /\ \A owner \in Owners : Other(owner) \in GoodHeader /\ Other(owner).owner = owner
  /\ Other("none").owner = "none" /\ Other("file").owner = "file"
<1>1. <<>> \in GoodMap
  BY Numbers DEF GoodMap
<1>2. QED
  BY <1>1, Numbers DEF Other, GoodHeader, Owners

\* The new blocks are zeroed: no slot in use is among them.
LEMMA ZeroNewBlocksKeeps ==
  ASSUME HInv, ZeroNewBlocks
  PROVE  HInv'
<1>1. /\ call.step = "zero" /\ call' = [call EXCEPT !.step = "record"]
      /\ block' = [c \in Clusters |-> IF c \in NewBlocks THEN Other("none") ELSE block[c]]
      /\ free' = free /\ files' = files /\ used' = used /\ extents' = extents
      /\ primary' = primary /\ growth' = growth
  BY DEF ZeroNewBlocks
<1>2. /\ Typed /\ SpaceApart /\ Underway /\ VacantIsBlank /\ Growing /\ call.segment = 0
      /\ Apart(extents) /\ ~call.newSegment /\ call.todo = <<>> /\ Vacant \subseteq FileNumbers
  BY <1>1, Known DEF Underway, Growing
<1>3. /\ call' \in GoodCall /\ call'.todo = <<>> /\ call'.step = "record" /\ call'.file = call.file
      /\ call'.segment = 0 /\ call'.have = call.have /\ ~call'.newSegment
  <2>1. call \in GoodCall
    BY <1>2 DEF Typed
  <2>2. QED
    BY <1>1, <1>2, <2>1 DEF GoodCall, Steps
<1>4. block' \in [Clusters -> GoodHeader]
  BY <1>1, <1>2, OtherHeaders DEF Typed, Owners
<1>5. Typed'
  BY <1>1, <1>2, <1>3, <1>4 DEF Typed
<1>6. SpaceApart' /\ FirstInPlace'
  BY <1>1, <1>2, <1>3, Known DEF SpaceApart, FirstInPlace
<1>7. Growing' /\ Vacant' = Vacant
  BY <1>1, <1>2, <1>3 DEF Growing, Vacant
<1>8. Underway'
  BY <1>1, <1>2, <1>3, <1>7 DEF Underway
<1>9. \A n \in FileNumbers : SlotMapped(extents, n) =>
         /\ HeaderVbn(n) <= call.have => HeaderIn(extents, n)' = HeaderIn(extents, n)
         /\ ~(HeaderVbn(n) <= call.have) => HeaderIn(extents, n)' = Other("none")
  BY <1>2, ZeroedSlots
<1>10. VacantIsBlank'
  <2>1. \A c \in Clusters \ Claimed(extents) : block'[c].owner \in {"none", "leftover"}
    <3>1. TAKE c \in Clusters \ Claimed(extents)
    <3>2. CASE c \in NewBlocks
      BY <1>1, <3>2, OtherHeaders
    <3>3. CASE c \notin NewBlocks
      BY <1>1, <1>2, <3>3 DEF VacantIsBlank
    <3>4. QED
      BY <3>2, <3>3
  <2>2. ASSUME NEW n \in Vacant, SlotMapped(extents, n)
        PROVE  HeaderIn(extents, n)'.owner = "none"
    <3>1. HeaderVbn(n) <= call.have => HeaderIn(extents, n).owner = "none"
      BY <1>2, <2>2 DEF VacantIsBlank
    <3>2. QED
      BY <1>2, <1>9, <2>2, <3>1, OtherHeaders
  <2>3. \A n \in Vacant : SlotMapped(extents, n) => LooksUnused(n)'
    BY <2>2 DEF LooksUnused
  <2>4. primary.highWater <= MappedBlocks(extents) + 1
    BY <1>2 DEF VacantIsBlank
  <2>5. QED
    BY <1>1, <1>3, <1>7, <2>1, <2>2, <2>3, <2>4 DEF VacantIsBlank, SlotMapped
<1>11. growth' # "overflowed" => UsedHoldHeaders'
  <2>1. SUFFICES ASSUME growth # "overflowed" PROVE UsedHoldHeaders'
    BY <1>1
  <2>2. UsedHoldHeaders /\ used \subseteq FileNumbers
    BY <1>2, <2>1, Types DEF HInv
  <2>3. ASSUME NEW n \in used \ {call.file, call.segment}
        PROVE  SlotMapped(extents, n) /\ HeaderIn(extents, n)'.owner \in {"file", "index"}
    <3>1. /\ n \in FileNumbers /\ SlotMapped(extents, n) /\ HeaderIn(extents, n).owner \in {"file", "index"}
          /\ HeaderVbn(n) <= call.have
      BY <1>2, <2>2 DEF UsedHoldHeaders
    <3>2. QED
      BY <1>9, <3>1
  <2>4. QED
    BY <1>1, <1>2, <1>3, <2>2, <2>3 DEF UsedHoldHeaders, SlotMapped
<1>12. QED
  BY <1>5, <1>6, <1>8, <1>10, <1>11 DEF HInv

\* The high-water mark moves past the new blocks, which are all blank.
LEMMA RecordSizeKeeps ==
  ASSUME HInv, RecordSize
  PROVE  HInv'
<1> PICK have, h : have = MappedBlocks(extents) /\ h = [primary EXCEPT !.highWater = have + 1]
  OBVIOUS
<1>1. /\ call.step = "record" /\ WriteHeader(IndexFileNumber, h) /\ primary' = h
      /\ call' = IF call.more = 0
                 THEN [NoCall EXCEPT !.step = "header", !.file = call.file]
                 ELSE [NoCall EXCEPT !.step = "extend", !.file = call.file, !.have = have,
                                     !.blocks = call.more, !.newSegment = TRUE]
      /\ free' = free /\ files' = files /\ used' = used /\ extents' = extents /\ growth' = growth
  BY DEF RecordSize, Rewrite
<1>2. /\ Typed /\ SpaceApart /\ Underway /\ VacantIsBlank /\ Growing /\ call.segment = 0
      /\ Apart(extents) /\ Longer /\ ~call.newSegment /\ call.todo = <<>> /\ Vacant \subseteq FileNumbers
  BY <1>1, Known, AsLong DEF Underway, Growing
<1>3. /\ IndexFileNumber \in FileNumbers /\ IndexFileNumber \in used /\ IndexFileNumber \notin Vacant
      /\ SlotMapped(extents, IndexFileNumber) /\ primary \in GoodHeader /\ primary.owner = "index"
      /\ have \in Nat
  BY <1>2, Known, Numbers, Types DEF Typed
<1>4. h \in GoodHeader /\ h.owner = "index" /\ h.highWater = have + 1
  BY <1>3 DEF GoodHeader
<1>5. /\ block' \in [Clusters -> GoodHeader] /\ HeaderIn(extents, IndexFileNumber)' = h
      /\ \A n \in FileNumbers : SlotMapped(extents, n) =>
            /\ SlotMapped(extents', n)
            /\ n # IndexFileNumber => HeaderIn(extents, n)' = HeaderIn(extents, n)
  BY <1>1, <1>2, <1>3, <1>4, WrittenSlot
<1>6. /\ call.file \in FileNumbers /\ call.file > ReservedFiles /\ call.file \in used
      /\ HeaderVbn(call.file) <= have /\ SlotMapped(extents, call.file) /\ call.more \in Nat
      /\ call.file \in Vacant
  <2>1. /\ call.file \in FileNumbers /\ call.file > ReservedFiles /\ call.file \in used
        /\ HeaderVbn(call.file) <= have + MappedBlocks(<<>>) + 0
    BY <1>1, <1>2 DEF Underway
  <2>2. MappedBlocks(<<>>) = 0
    BY FS_EmptySet DEF MappedBlocks, Claimed
  <2>3. HeaderVbn(call.file) <= have
    BY <1>3, <2>1, <2>2
  <2>4. QED
    BY <1>2, <2>1, <2>3, Types DEF SlotMapped, Vacant
<1>7. /\ call' \in GoodCall /\ call'.todo = <<>> /\ call'.file = call.file /\ call'.segment = 0
      /\ call'.more = 0
      /\ call.more = 0 => call'.step = "header" /\ ~call'.newSegment
      /\ call.more # 0 => /\ call'.step = "extend" /\ call'.have = have /\ call'.newSegment
                          /\ call'.blocks = call.more
  <2>1. CASE call.more = 0
    <3>1. call' = [NoCall EXCEPT !.step = "header", !.file = call.file]
      BY <1>1, <2>1
    <3>2. PICK file : file = call.file
      OBVIOUS
    <3>3. call' = [NoCall EXCEPT !.step = "header", !.file = file] /\ file \in FileNumbers
      BY <1>6, <3>1, <3>2
    <3>4. /\ call' \in GoodCall /\ call'.todo = <<>> /\ call'.file = file /\ call'.segment = 0
          /\ call'.more = 0 /\ call'.step = "header" /\ ~call'.newSegment
      <4>1. /\ call'.todo = <<>> /\ call'.file = file /\ call'.segment = 0
            /\ call'.more = 0 /\ call'.step = "header" /\ ~call'.newSegment
        BY <3>3 DEF NoCall
      <4>2. [NoCall EXCEPT !.step = "header", !.file = file] \in GoodCall
        BY <3>3, NoCallFacts DEF GoodCall, Steps
      <4>3. QED
        BY <3>3, <4>1, <4>2
    <3>5. QED
      BY <2>1, <3>2, <3>4
  <2>2. CASE call.more # 0
    BY <1>1, <1>3, <1>6, <2>2, NoCallFacts DEF NoCall, GoodCall, Steps
  <2>3. QED
    BY <2>1, <2>2
<1>8. Typed'
  BY <1>1, <1>2, <1>4, <1>5, <1>7 DEF Typed
<1>9. SpaceApart' /\ FirstInPlace'
  BY <1>1, <1>2, <1>7, Known DEF SpaceApart, FirstInPlace
<1>10. /\ call.more = 0 => ~Growing'
       /\ call.more # 0 => Growing'
       /\ Vacant' \subseteq Vacant
  BY <1>1, <1>2, <1>7 DEF Growing, Vacant
<1>11. Underway'
  <2>1. CASE call.more = 0
    BY <1>1, <1>6, <1>7, <1>10, <2>1 DEF Underway, Growing, SlotMapped
  <2>2. CASE call.more # 0
    <3>1. MappedBlocks(<<>>) = 0
      BY FS_EmptySet DEF MappedBlocks, Claimed
    <3>2. HeaderVbn(call.file) <= have + 0 + call.more /\ have <= have /\ have + 1 <= have + 1
      BY <1>3, <1>6, Numbers
    <3>3. call.more > 0
      BY <1>6, <2>2
    <3>4. QED
      BY <1>1, <1>4, <1>6, <1>7, <1>10, <2>2, <3>1, <3>2, <3>3 DEF Underway
  <2>3. QED
    BY <2>1, <2>2
<1>12. ASSUME NEW n \in Vacant, SlotMapped(extents, n)
       PROVE  HeaderIn(extents, n)'.owner = "none" /\ LooksUnused(n)'
  <2>1. n \in FileNumbers /\ n # IndexFileNumber /\ HeaderIn(extents, n).owner = "none"
    BY <1>1, <1>2, <1>3, <1>12 DEF VacantIsBlank
  <2>2. HeaderIn(extents, n)'.owner = "none"
    BY <1>5, <1>12, <2>1
  <2>3. QED
    BY <2>2 DEF LooksUnused
<1>13. VacantIsBlank'
  <2>1. \A c \in Clusters \ Claimed(extents') : block'[c].owner \in {"none", "leftover"}
    BY <1>1, <1>2, <1>3, <1>4, HeaderWritten
  <2>2. primary'.highWater <= MappedBlocks(extents') + 1
    BY <1>1, <1>3, <1>4
  <2>3. QED
    BY <1>1, <1>6, <1>7, <1>10, <1>12, <2>1, <2>2 DEF VacantIsBlank, SlotMapped
<1>14. growth' # "overflowed" => UsedHoldHeaders'
  <2>1. SUFFICES ASSUME growth # "overflowed" PROVE UsedHoldHeaders'
    BY <1>1
  <2>2. UsedHoldHeaders /\ used \subseteq FileNumbers
    BY <1>2, <2>1, Types DEF HInv
  <2>3. ASSUME NEW n \in used \ {call.file, call.segment}
        PROVE  SlotMapped(extents', n) /\ HeaderIn(extents, n)'.owner \in {"file", "index"}
    <3>1. n \in FileNumbers /\ SlotMapped(extents, n) /\ HeaderIn(extents, n).owner \in {"file", "index"}
      BY <2>2 DEF UsedHoldHeaders
    <3>2. CASE n = IndexFileNumber
      BY <1>3, <1>4, <1>5, <3>2
    <3>3. CASE n # IndexFileNumber
      BY <1>5, <3>1, <3>3
    <3>4. QED
      BY <3>2, <3>3
  <2>4. Growing' => \A n \in used \ {call.file} : HeaderVbn(n) <= call'.have
    <3>1. SUFFICES ASSUME call.more # 0, NEW n \in used \ {call.file} PROVE HeaderVbn(n) <= have
      BY <1>7, <1>10
    <3>2. n # 0
      BY <2>2, Numbers
    <3>3. QED
      BY <1>2, <2>2, <3>2 DEF UsedHoldHeaders, SlotMapped
  <2>5. QED
    BY <1>1, <1>2, <1>7, <2>3, <2>4 DEF UsedHoldHeaders
<1>15. QED
  BY <1>8, <1>9, <1>11, <1>13, <1>14 DEF HInv

\* A new header goes into the slot that was found for it.
LEMMA WriteNewHeaderKeeps ==
  ASSUME HInv, WriteNewHeader
  PROVE  HInv'
<1> PICK file : file = call.file
  OBVIOUS
<1>1. /\ call.step = "header" /\ WriteHeader(file, Other("file"))
      /\ used' = used \cup {file} /\ call' = NoCall
      /\ free' = free /\ files' = files /\ extents' = extents /\ primary' = primary /\ growth' = growth
  BY DEF WriteNewHeader
<1>2. /\ Typed /\ SpaceApart /\ Underway /\ VacantIsBlank /\ ~Growing /\ call.segment = 0
      /\ Apart(extents) /\ Longer /\ Vacant \subseteq FileNumbers /\ call.todo = <<>>
  BY <1>1, Known, AsLong DEF Underway, Growing
<1>3. file \in FileNumbers /\ SlotMapped(extents, file) /\ file # 0
  BY <1>1, <1>2, Numbers DEF Underway
<1>4. /\ block' \in [Clusters -> GoodHeader] /\ HeaderIn(extents, file)'.owner = "file"
      /\ \A n \in FileNumbers : SlotMapped(extents, n) =>
            /\ SlotMapped(extents', n)
            /\ n # file => HeaderIn(extents, n)' = HeaderIn(extents, n)
  <2>1. Other("file") \in GoodHeader /\ Other("file").owner = "file"
    BY OtherHeaders DEF Owners
  <2>2. PICK h : h = Other("file")
    OBVIOUS
  <2>3. h \in GoodHeader /\ h.owner = "file" /\ WriteHeader(file, h)
    BY <1>1, <2>1, <2>2
  <2>4. QED
    BY <1>2, <1>3, <2>3, WrittenSlot
<1>5. Typed'
  BY <1>1, <1>2, <1>3, <1>4, NoCallFacts DEF Typed
<1>6. SpaceApart' /\ FirstInPlace'
  BY <1>1, <1>2, NoCallFacts, Known DEF SpaceApart, FirstInPlace
<1>7. Underway' /\ ~Growing'
  BY <1>1, NoCallFacts DEF Underway, Growing
<1>8. Vacant' \subseteq Vacant \ {file}
  BY <1>1, <1>2, <1>7 DEF Vacant
<1>9. VacantIsBlank'
  <2>1. Other("file") \in GoodHeader
    BY OtherHeaders DEF Owners
  <2>2. /\ \A c \in Clusters \ Claimed(extents') : block'[c].owner \in {"none", "leftover"}
        /\ primary.highWater <= MappedBlocks(extents') + 1
        /\ \A n \in Vacant : n # file /\ SlotMapped(extents', n) =>
               /\ HeaderIn(extents, n)'.owner \in {"none", "leftover"}
               /\ LooksUnused(n)'
    BY <1>1, <1>2, <1>3, <2>1, HeaderWritten
  <2>3. QED
    BY <1>1, <1>7, <1>8, <2>2, NoCallFacts DEF VacantIsBlank
<1>10. growth' # "overflowed" => UsedHoldHeaders'
  <2>1. SUFFICES ASSUME growth # "overflowed" PROVE UsedHoldHeaders'
    BY <1>1
  <2>2. UsedHoldHeaders /\ used \subseteq FileNumbers
    BY <1>2, <2>1, Types DEF HInv
  <2>3. ASSUME NEW n \in used \cup {file}
        PROVE  SlotMapped(extents', n) /\ HeaderIn(extents, n)'.owner \in {"file", "index"}
    <3>1. CASE n = file
      BY <1>3, <1>4, <3>1
    <3>2. CASE n # file
      <4>1. n \in FileNumbers /\ n \in used \ {call.file, call.segment}
        BY <1>2, <2>2, <3>2, Numbers
      <4>2. SlotMapped(extents, n) /\ HeaderIn(extents, n).owner \in {"file", "index"}
        BY <2>2, <4>1 DEF UsedHoldHeaders
      <4>3. QED
        BY <1>4, <3>2, <4>1, <4>2
    <3>3. QED
      BY <3>1, <3>2
  <2>4. QED
    BY <1>1, <1>7, <2>3, NoCallFacts DEF UsedHoldHeaders
<1>11. QED
  BY <1>5, <1>6, <1>7, <1>9, <1>10 DEF HInv

\* A file's slot is freed, and is blank.
LEMMA FreeHeaderKeeps ==
  ASSUME HInv, NEW file \in FileNumbers, FreeHeader(file)
  PROVE  HInv'
<1>1. /\ call = NoCall /\ file \in used /\ file > ReservedFiles /\ SlotMapped(extents, file)
      /\ WriteHeader(file, Other("none")) /\ used' = used \ {file} /\ call' = call
      /\ free' = free /\ files' = files /\ extents' = extents /\ primary' = primary /\ growth' = growth
  BY DEF FreeHeader
<1>2. /\ Typed /\ SpaceApart /\ Underway /\ VacantIsBlank /\ ~Growing /\ ~Growing'
      /\ Apart(extents) /\ Longer /\ Vacant \subseteq FileNumbers
  BY <1>1, Known, AsLong, NoCallFacts DEF Growing
<1>3. /\ block' \in [Clusters -> GoodHeader] /\ HeaderIn(extents, file)'.owner = "none"
      /\ \A n \in FileNumbers : SlotMapped(extents, n) =>
            /\ SlotMapped(extents', n)
            /\ n # file => HeaderIn(extents, n)' = HeaderIn(extents, n)
  <2>1. Other("none") \in GoodHeader /\ Other("none").owner = "none"
    BY OtherHeaders DEF Owners
  <2>2. PICK h : h = Other("none")
    OBVIOUS
  <2>3. h \in GoodHeader /\ h.owner = "none" /\ WriteHeader(file, h)
    BY <1>1, <2>1, <2>2
  <2>4. QED
    BY <1>1, <1>2, <2>3, WrittenSlot
<1>4. Typed'
  BY <1>1, <1>2, <1>3 DEF Typed
<1>5. SpaceApart'
  BY <1>1, <1>2 DEF SpaceApart
<1>6. FirstInPlace'
  <2>1. \A n \in 1 .. ReservedFiles : n # file
    BY <1>1, Numbers
  <2>2. QED
    BY <1>1, <2>1, Known DEF FirstInPlace
<1>7. Underway'
  BY <1>1, <1>2, NoCallFacts DEF Underway, Growing
<1>8. Vacant' = Vacant \cup {file}
  BY <1>1, <1>2 DEF Vacant
<1>9. VacantIsBlank'
  <2>1. Other("none") \in GoodHeader
    BY OtherHeaders DEF Owners
  <2>2. /\ \A c \in Clusters \ Claimed(extents') : block'[c].owner \in {"none", "leftover"}
        /\ primary.highWater <= MappedBlocks(extents') + 1
        /\ \A n \in Vacant : n # file /\ SlotMapped(extents', n) =>
               /\ HeaderIn(extents, n)'.owner \in {"none", "leftover"}
               /\ LooksUnused(n)'
    BY <1>1, <1>2, <2>1, HeaderWritten
  <2>3. LooksUnused(file)'
    BY <1>3 DEF LooksUnused
  <2>4. QED
    BY <1>1, <1>2, <1>3, <1>8, <2>2, <2>3, NoCallFacts DEF VacantIsBlank
<1>10. growth' # "overflowed" => UsedHoldHeaders'
  <2>1. SUFFICES ASSUME growth # "overflowed" PROVE UsedHoldHeaders'
    BY <1>1
  <2>2. UsedHoldHeaders /\ used \subseteq FileNumbers
    BY <1>2, <2>1, Types DEF HInv
  <2>3. ASSUME NEW n \in used \ {call.file, call.segment}, n # file
        PROVE  SlotMapped(extents', n) /\ HeaderIn(extents, n)'.owner \in {"file", "index"}
    <3>1. n \in FileNumbers /\ SlotMapped(extents, n) /\ HeaderIn(extents, n).owner \in {"file", "index"}
      BY <2>2 DEF UsedHoldHeaders
    <3>2. QED
      BY <1>3, <2>3, <3>1
  <2>4. QED
    BY <1>1, <1>2, <2>3, NoCallFacts DEF UsedHoldHeaders
<1>11. QED
  BY <1>4, <1>5, <1>6, <1>7, <1>9, <1>10 DEF HInv

-----------------------------------------------------------------------------
(* The volume as it is initialized, and every step from it.                *)

\* The index file begins as one extent, from the first cluster.
LEMMA FirstMap ==
  /\ FirstExtents \in Seq(GoodExtent) /\ Len(FirstExtents) = 1 /\ Apart(FirstExtents)
  /\ Claimed(FirstExtents) = 0 .. FirstBlocks - 1 /\ Claimed(FirstExtents) \subseteq Clusters
  /\ MappedBlocks(FirstExtents) = FirstBlocks
  /\ \A v \in 1 .. FirstBlocks : Lbn(FirstExtents, v) = v - 1
<1> PICK e, count : e = [start |-> 0, count |-> FirstBlocks] /\ count = FirstBlocks
  OBVIOUS
<1>1. count \in Nat /\ count > 0 /\ 0 .. count - 1 \subseteq Clusters /\ FirstExtents = <<e>>
  BY Numbers, IndexFileFits DEF FirstBlocks, FirstExtents
<1>2. ClustersOf(e) = 0 .. count - 1
  BY <1>1 DEF ClustersOf, Span
<1>3. Cardinality(ClustersOf(e)) = count
  BY <1>1, SpanSize DEF ClustersOf
<1>4. count <= Cardinality(Clusters) /\ Cardinality(Clusters) \in Nat
  BY <1>1, <1>2, <1>3, ClustersAreNumbers, FS_Subset, FS_CardinalityType
<1>5. e \in GoodExtent
  <2>1. 0 \in 0 .. count - 1 /\ count \in 1 .. Cardinality(Clusters)
    BY <1>1, <1>4
  <2>2. e \in Extent
    BY <1>1, <2>1 DEF Extent
  <2>3. QED
    BY <1>1, <1>2, <2>2 DEF GoodExtent
<1>6. FirstExtents \in Seq(GoodExtent) /\ Len(FirstExtents) = 1 /\ Apart(FirstExtents)
  BY <1>1, <1>5 DEF Apart
<1>7. Claimed(FirstExtents) = ClustersOf(e)
  BY <1>1 DEF Claimed
<1>8. MappedBlocks(FirstExtents) = count
  BY <1>3, <1>7 DEF MappedBlocks
<1>9. ASSUME NEW v \in 1 .. count PROVE Lbn(FirstExtents, v) = v - 1
  <2>1. Before(FirstExtents, 1) = 0
    BY <1>6, BeforeFacts
  <2>2. v \in Nat /\ At(FirstExtents, 1, v) /\ FirstExtents[1].start = 0
    BY <1>1, <1>6, <2>1 DEF At
  <2>3. Lbn(FirstExtents, v) = 0 + v - 0 - 1
    BY <1>6, <2>1, <2>2, LbnAt
  <2>4. QED
    BY <2>2, <2>3
<1>10. QED
  BY <1>1, <1>2, <1>6, <1>7, <1>8, <1>9

\* A volume just initialized has its reserved files' headers, and blank slots.
LEMMA InitHolds == Init => HInv
<1> SUFFICES ASSUME Init PROVE HInv
  OBVIOUS
<1>1. /\ block = [c \in Clusters |-> FirstBlock(c)] /\ files = {}
      /\ free = Clusters \ Claimed(FirstExtents) /\ used = 1 .. ReservedFiles
      /\ extents = FirstExtents /\ primary = FirstPrimary /\ call = NoCall /\ growth = "planned"
  BY DEF Init
<1>2. /\ FirstExtents \in Seq(GoodExtent) /\ Len(FirstExtents) = 1 /\ Apart(FirstExtents)
      /\ Claimed(FirstExtents) = 0 .. FirstBlocks - 1 /\ Claimed(FirstExtents) \subseteq Clusters
      /\ MappedBlocks(FirstExtents) = FirstBlocks
      /\ \A v \in 1 .. FirstBlocks : Lbn(FirstExtents, v) = v - 1
  BY FirstMap
<1>3. FirstPrimary \in GoodHeader /\ FirstPrimary.owner = "index"
      /\ FirstPrimary.highWater = FirstBlocks + 1
  <2>1. 1 * PointerWords <= MapWords
    BY MapHasRoom, Numbers
  <2>2. FirstExtents \in GoodMap
    BY <1>2, <2>1 DEF GoodMap
  <2>3. FirstBlocks + 1 \in Nat
    BY Numbers
  <2>4. QED
    BY <2>2, <2>3 DEF FirstPrimary, IndexHeader, GoodHeader, Owners
<1>4. \A c \in Clusters : FirstBlock(c) \in GoodHeader
  BY <1>3, OtherHeaders DEF FirstBlock, Owners
<1>5. used \subseteq FileNumbers
  BY <1>1, IndexFileFits, Numbers DEF FileNumbers
<1>6. Typed
  <2>1. block \in [Clusters -> GoodHeader] /\ free \subseteq Clusters /\ files \subseteq Clusters
    BY <1>1, <1>4
  <2>2. growth \in Growths /\ call \in GoodCall
    BY <1>1, NoCallFacts DEF Growths
  <2>3. QED
    BY <1>1, <1>2, <1>3, <1>5, <2>1, <2>2 DEF Typed
<1>7. SpaceApart
  <2>1. Apart(<<>>) /\ Claimed(<<>>) = {}
    BY DEF Apart, Claimed
  <2>2. QED
    BY <1>1, <1>2, <2>1, NoCallFacts DEF SpaceApart
<1>8. FirstInPlace
  <2>1. FirstExtents # <<>> /\ FirstExtents[1].start = 0 /\ FirstExtents[1].count = FirstBlocks
    BY DEF FirstExtents
  <2>2. FirstBlocks <= FirstBlocks
    BY Numbers
  <2>3. QED
    BY <1>1, <2>1, <2>2 DEF FirstInPlace
<1>9. Underway /\ ~Growing
  BY <1>1, NoCallFacts DEF Underway, Growing
<1>10. ASSUME NEW n \in FileNumbers, HeaderVbn(n) <= FirstBlocks
       PROVE  HeaderIn(extents, n) = FirstBlock(Lead + n - 1) /\ Lead + n - 1 \in Claimed(FirstExtents)
              /\ Lead + n - 1 \in Nat
  <2>1. HeaderVbn(n) \in 1 .. FirstBlocks /\ HeaderVbn(n) - 1 = Lead + n - 1
    BY <1>10, Numbers DEF HeaderVbn
  <2>2. Lbn(FirstExtents, HeaderVbn(n)) = Lead + n - 1
    BY <1>2, <2>1
  <2>3. Lead + n - 1 \in 0 .. FirstBlocks - 1 /\ Lead + n - 1 \in Nat
    BY <2>1, Numbers
  <2>4. Lead + n - 1 \in Clusters /\ Lead + n - 1 \in Claimed(FirstExtents)
    BY <1>2, <2>3
  <2>5. HeaderIn(extents, n) = block[Lead + n - 1]
    BY <1>1, <2>2 DEF HeaderIn
  <2>6. QED
    BY <1>1, <2>3, <2>4, <2>5
<1>11. ASSUME NEW n \in FileNumbers, n > ReservedFiles, HeaderVbn(n) <= FirstBlocks
       PROVE  HeaderIn(extents, n).owner = "none"
  <2>1. Lead + n - 1 # PrimaryLbn /\ Lead + n - 1 \notin Span(Lead + 1, ReservedFiles - 1)
    BY <1>11, Numbers DEF PrimaryLbn, Span
  <2>2. FirstBlock(Lead + n - 1) = Other("none")
    BY <1>10, <1>11, <2>1 DEF FirstBlock
  <2>3. QED
    BY <1>10, <1>11, <2>2, OtherHeaders
<1>12. VacantIsBlank
  <2>1. ASSUME NEW c \in Clusters \ Claimed(extents) PROVE block[c].owner \in {"none", "leftover"}
    <3>1. c # PrimaryLbn
      <4>1. PrimaryLbn \in 0 .. FirstBlocks - 1
        BY Numbers DEF PrimaryLbn, FirstBlocks
      <4>2. QED
        BY <1>1, <1>2, <4>1
    <3>2. c \notin Span(Lead + 1, ReservedFiles - 1)
      <4>1. Span(Lead + 1, ReservedFiles - 1) \subseteq 0 .. FirstBlocks - 1
        BY Numbers, IndexFileFits DEF Span, FirstBlocks
      <4>2. QED
        BY <1>1, <1>2, <4>1
    <3>3. FirstBlock(c) = Other("leftover")
      BY <1>1, <3>1, <3>2 DEF FirstBlock
    <3>4. QED
      BY <1>1, <3>3, OtherHeaders DEF Owners
  <2>2. Vacant = FileNumbers \ used /\ \A n \in Vacant : n \in FileNumbers /\ n > ReservedFiles
    BY <1>1, <1>9, Numbers DEF Vacant
  <2>3. primary.highWater <= MappedBlocks(extents) + 1
    BY <1>1, <1>2, <1>3, Numbers
  <2>4. \A n \in Vacant : SlotMapped(extents, n) => HeaderIn(extents, n).owner = "none"
    BY <1>1, <1>2, <1>11, <2>2 DEF SlotMapped
  <2>5. QED
    BY <1>1, <1>9, <2>1, <2>3, <2>4, NoCallFacts DEF VacantIsBlank, LooksUnused
<1>13. UsedHoldHeaders
  <2>1. SUFFICES ASSUME NEW n \in used
                 PROVE  SlotMapped(extents, n) /\ HeaderIn(extents, n).owner \in {"file", "index"}
    BY <1>9 DEF UsedHoldHeaders
  <2>2. n \in FileNumbers /\ n \in 1 .. ReservedFiles
    BY <1>1, <1>5
  <2>3. HeaderVbn(n) <= FirstBlocks
    BY <2>2, Numbers, IndexFileFits DEF HeaderVbn, FirstBlocks
  <2>4. HeaderIn(extents, n) = FirstBlock(Lead + n - 1)
    BY <1>10, <2>2, <2>3
  <2>5. Lead + n - 1 = PrimaryLbn \/ Lead + n - 1 \in Span(Lead + 1, ReservedFiles - 1)
    BY <2>2, Numbers DEF PrimaryLbn, Span
  <2>6. FirstBlock(Lead + n - 1) \in {FirstPrimary, Other("file")}
    BY <2>5 DEF FirstBlock
  <2>7. QED
    BY <1>1, <1>2, <1>3, <2>3, <2>4, <2>6, OtherHeaders DEF SlotMapped
<1>14. QED
  BY <1>6, <1>7, <1>8, <1>9, <1>12, <1>13 DEF HInv

\* Every step keeps what slots hold.
LEMMA StepKeeps == HInv /\ [Next]_vars => HInv'
<1> SUFFICES ASSUME HInv, [Next]_vars PROVE HInv'
  OBVIOUS
<1>1. ASSUME NEW n \in FileNumbers, MakeHeader(n) \/ Grow(n) \/ FreeHeader(n) PROVE HInv'
  BY <1>1, MakeHeaderKeeps, GrowKeeps, FreeHeaderKeeps
<1>2. CASE Allocate \/ NoSpace \/ NoSlot
  BY <1>2, AllocateKeeps, FailuresKeep
<1>3. CASE PlacePointer \/ LinkSegment \/ WriteSegment
  BY <1>3, PlacePointerKeeps, LinkSegmentKeeps, WriteSegmentKeeps
<1>4. CASE RecordHighest \/ ZeroNewBlocks \/ RecordSize \/ WriteNewHeader
  BY <1>4, RecordHighestKeeps, ZeroNewBlocksKeeps, RecordSizeKeeps, WriteNewHeaderKeeps
<1>5. ASSUME NEW c \in Clusters, TakeCluster(c) \/ FreeCluster(c) PROVE HInv'
  <2>1. free \subseteq Clusters /\ files \subseteq Clusters /\ free \cap files = {}
    BY Known DEF Typed, SpaceApart
  <2>2. /\ block' = block /\ extents' = extents /\ primary' = primary /\ used' = used
        /\ call' = call /\ growth' = growth
    BY <1>5 DEF TakeCluster, FreeCluster
  <2>3. /\ free' \subseteq Clusters /\ files' \subseteq Clusters /\ free' \cap files' = {}
        /\ free' \cup files' \subseteq free \cup files
    BY <1>5, <2>1 DEF TakeCluster, FreeCluster
  <2>4. QED
    BY <2>2, <2>3, SpaceStepKeeps
<1>6. CASE UNCHANGED vars
  <2>1. free \subseteq Clusters /\ files \subseteq Clusters /\ free \cap files = {}
    BY Known DEF Typed, SpaceApart
  <2>2. QED
    BY <1>6, <2>1, SpaceStepKeeps DEF vars
<1>7. QED
  BY <1>1, <1>2, <1>3, <1>4, <1>5, <1>6 DEF Next

\* What slots hold, always.
THEOREM SlotsHold == Spec => []HInv
<1>1. QED
  BY InitHolds, StepKeeps, PTL DEF Spec

\* Everything has the type it should: block pointers, headers with maps that fit
\* in them, the call in progress.
THEOREM IndexTypes == Spec => []TypeOK
<1>1. HInv => TypeOK
  <2> SUFFICES ASSUME HInv PROVE TypeOK
    OBVIOUS
  <2>1. Typed
    BY Known
  <2>2. GoodExtent \subseteq Extent /\ Seq(GoodExtent) \subseteq Seq(Extent)
    BY DEF GoodExtent
  <2>3. \A map \in GoodMap : map \in Maps
    BY <2>2 DEF GoodMap, Maps
  <2>4. \A c \in Clusters :
           /\ block[c].owner \in Owners /\ block[c].map \in Maps
           /\ block[c].ext \in FileNumbers \cup {0} /\ block[c].highWater \in Nat
    BY <2>1, <2>3 DEF Typed, GoodHeader
  <2>5. primary.map \in Maps /\ primary.ext \in FileNumbers \cup {0}
    BY <2>1, <2>3 DEF Typed, GoodHeader
  <2>6. DOMAIN call = DOMAIN NoCall
    BY <2>1, NoCallFacts DEF Typed, GoodCall
  <2>7. QED
    BY <2>1, <2>2, <2>4, <2>5, <2>6 DEF Typed, GoodCall, TypeOK
<1>2. QED
  BY <1>1, SlotsHold, PTL

\* A slot in use holds a header, whatever the index file grows by and wherever:
\* unless a growth went over the end of a header's map.
THEOREM NoHeaderLost == Spec => []HeadersSurvive
<1>1. HInv => HeadersSurvive
  BY DEF HInv, UsedHoldHeaders, HeadersSurvive
<1>2. QED
  BY <1>1, SlotsHold, PTL

\* A slot that is not in use looks unused, so that the bitmap and the headers
\* never seem to disagree, whatever was in the space the index file took.
THEOREM FreeSlotsAreBlank == Spec => []FreeSlotsLookUnused
<1>1. HInv => FreeSlotsLookUnused
  BY DEF HInv, VacantIsBlank, Vacant, FreeSlotsLookUnused
<1>2. QED
  BY <1>1, SlotsHold, PTL

-----------------------------------------------------------------------------
(* The chain of the index file's headers.                                  *)

\* What is used of a chain again and again: it has a header or more, but no more
\* than there are files, and each has a pointer or more.
LEMMA ChainFacts ==
  ASSUME HInv, NEW s, NEW p, Chained(s, p)
  PROVE  /\ Len(s) \in Nat \ {0} /\ Len(s) <= MaxFiles
         /\ \A i \in 1 .. Len(s) :
               /\ s[i] \in FileNumbers /\ s[i] \in used /\ s[i] # call.file /\ s[i] # call.segment
               /\ SlotMapped(extents, s[i]) /\ HeaderIn(extents, s[i]) \in GoodHeader
               /\ HeaderIn(extents, s[i]).owner = "index"
               /\ p[i - 1] \in Nat /\ p[i] \in Nat /\ p[i - 1] < p[i] /\ p[i] <= Len(extents)
               /\ Len(HeaderIn(extents, s[i]).map) = p[i] - p[i - 1]
<1> PICK m : m = Len(s)
  OBVIOUS
<1>1. /\ s \in Seq(FileNumbers) /\ s # <<>> /\ \A i, j \in 1 .. m : i # j => s[i] # s[j]
      /\ p \in [0 .. m -> 0 .. Len(extents)] /\ \A i, j \in 0 .. m : i < j => p[i] < p[j]
      /\ \A i \in 1 .. m : Linked(s, p, i)
  BY DEF Chained
<1>2. m \in Nat \ {0} /\ \A i \in 1 .. m : s[i] \in FileNumbers
  BY <1>1
<1>3. m <= MaxFiles
  <2>1. s \in Injection(1 .. m, FileNumbers)
    BY <1>1, <1>2 DEF Injection, IsInjective
  <2>2. /\ IsFiniteSet(1 .. m) /\ Cardinality(1 .. m) = m
        /\ IsFiniteSet(1 .. MaxFiles) /\ Cardinality(1 .. MaxFiles) = MaxFiles
    <3>1. 1 \in Int /\ m \in Int /\ MaxFiles \in Int /\ MaxFiles > 0 /\ m > 0
      BY <1>2, Numbers
    <3>2. /\ IsFiniteSet(1 .. m) /\ Cardinality(1 .. m) = IF 1 > m THEN 0 ELSE m - 1 + 1
          /\ IsFiniteSet(1 .. MaxFiles)
          /\ Cardinality(1 .. MaxFiles) = IF 1 > MaxFiles THEN 0 ELSE MaxFiles - 1 + 1
      BY <3>1, FS_Interval
    <3>3. QED
      BY <3>1, <3>2
  <2>3. Cardinality(1 .. m) <= Cardinality(1 .. MaxFiles)
    BY <2>1, <2>2, FS_Injection DEF FileNumbers
  <2>4. QED
    BY <2>2, <2>3
<1>4. extents \in Seq(GoodExtent) /\ Len(extents) \in Nat
  BY Known, Types
<1>5. ASSUME NEW i \in 1 .. m
      PROVE  /\ s[i] \in used /\ s[i] # call.file /\ s[i] # call.segment
             /\ SlotMapped(extents, s[i]) /\ HeaderIn(extents, s[i]) \in GoodHeader
             /\ HeaderIn(extents, s[i]).owner = "index"
             /\ p[i - 1] \in Nat /\ p[i] \in Nat /\ p[i - 1] < p[i] /\ p[i] <= Len(extents)
             /\ Len(HeaderIn(extents, s[i]).map) = p[i] - p[i - 1]
  <2>1. /\ s[i] \in used /\ s[i] # call.file /\ s[i] # call.segment /\ SlotMapped(extents, s[i])
        /\ HeaderIn(extents, s[i]).map = SubSeq(extents, p[i - 1] + 1, p[i])
        /\ HeaderIn(extents, s[i]).owner = "index"
    BY <1>1 DEF Linked
  <2>2. HeaderIn(extents, s[i]) \in GoodHeader
    BY <1>2, <2>1, Known, SlotFacts
  <2>3. i - 1 \in 0 .. m /\ i \in 0 .. m /\ i - 1 < i
    BY <1>2
  <2>4. p[i - 1] \in 0 .. Len(extents) /\ p[i] \in 0 .. Len(extents) /\ p[i - 1] < p[i]
    BY <1>1, <2>3
  <2>5. Len(SubSeq(extents, p[i - 1] + 1, p[i])) = p[i] - p[i - 1]
    BY <1>4, <2>4
  <2>6. QED
    BY <1>4, <2>1, <2>2, <2>4, <2>5
<1>6. QED
  BY <1>2, <1>3, <1>5

\* tailHeader gets to the last header of the chain.
LEMMA TailIsLast ==
  ASSUME HInv, primary = HeaderIn(extents, IndexFileNumber), call.segment = 0,
         NEW s, NEW p, Chained(s, p)
  PROVE  /\ TailSlot = s[Len(s)] /\ TailSlot # 0 /\ LastHeader = HeaderIn(extents, s[Len(s)])
         /\ LastHeader \in GoodHeader /\ Len(LastHeader.map) = p[Len(s)] - p[Len(s) - 1]
<1> PICK m : m = Len(s)
  OBVIOUS
<1>1. /\ m \in Nat \ {0} /\ m <= MaxFiles /\ MaxFiles \in Nat
      /\ \A i \in 1 .. m :
            /\ s[i] \in FileNumbers /\ SlotMapped(extents, s[i])
            /\ HeaderIn(extents, s[i]).owner = "index" /\ HeaderIn(extents, s[i]) \in GoodHeader
            /\ Len(HeaderIn(extents, s[i]).map) = p[i] - p[i - 1]
  BY ChainFacts, Numbers, SMTT(30)
<1>2. /\ s[1] = IndexFileNumber
      /\ \A i \in 1 .. m : HeaderIn(extents, s[i]).ext = IF i = m THEN 0 ELSE s[i + 1]
  BY DEF Chained, Linked
<1>3. \A i \in 1 .. m : SessionHeader(s[i]) = HeaderIn(extents, s[i]) /\ s[i] # 0
  BY <1>1, Numbers DEF SessionHeader
<1>4. PICK f \in [0 .. MaxFiles -> Headed] :
         /\ f[0] = IndexFileNumber /\ \A k \in 1 .. MaxFiles : f[k] = NextHeaded(f[k - 1])
         /\ TailSlot = f[MaxFiles]
  BY Known, TailWalk
<1>5. \A i \in 1 .. m : NextHeaded(s[i]) = s[IF i = m THEN m ELSE i + 1]
  <2>1. TAKE i \in 1 .. m
  <2>2. CASE i = m
    BY <1>2, <1>3, <2>2 DEF NextHeaded
  <2>3. CASE i # m
    <3>1. i + 1 \in 1 .. m
      BY <1>1, <2>3
    <3>2. SessionHeader(s[i]).ext = s[i + 1] /\ s[i] # 0 /\ s[i + 1] # 0
      BY <1>2, <1>3, <2>3, <3>1
    <3>3. SlotMapped(extents, s[i + 1]) /\ SessionHeader(s[i + 1]).owner = "index"
      BY <1>1, <1>3, <3>1
    <3>4. QED
      BY <2>3, <3>2, <3>3 DEF NextHeaded
  <2>4. QED
    BY <2>2, <2>3
<1> DEFINE place(k) == IF k < m THEN k + 1 ELSE m
           T == {k \in 0 .. MaxFiles : f[k] = s[place(k)]}
<1>6. T = 0 .. MaxFiles
  <2>1. 0 \in T
    BY <1>1, <1>2, <1>4
  <2>2. ASSUME NEW k \in 1 .. MaxFiles, k - 1 \in T PROVE k \in T
    <3>1. f[k - 1] = s[place(k - 1)] /\ f[k] = NextHeaded(f[k - 1]) /\ k \in 0 .. MaxFiles
      BY <1>1, <1>4, <2>2
    <3>2. place(k - 1) \in 1 .. m /\ place(k) = IF place(k - 1) = m THEN m ELSE place(k - 1) + 1
      BY <1>1
    <3>3. f[k] = s[place(k)]
      <4> PICK i : i = place(k - 1)
        OBVIOUS
      <4>1. i \in 1 .. m /\ f[k] = NextHeaded(s[i]) /\ place(k) = IF i = m THEN m ELSE i + 1
        BY <3>1, <3>2
      <4> HIDE DEF place
      <4>2. QED
        BY <1>5, <4>1
    <3>4. QED
      BY <3>1, <3>3
  <2> HIDE DEF T
  <2>3. QED
    BY <1>1, <2>1, <2>2, InductionUpTo DEF T
<1>7. MaxFiles \in T /\ place(MaxFiles) = m
  BY <1>1, <1>6
<1>8. TailSlot = s[m]
  BY <1>4, <1>7
<1>9. m \in 1 .. m
  BY <1>1
<1>10. QED
  BY <1>1, <1>3, <1>8, <1>9 DEF LastHeader

\* A mount gets from the primary header to the last one, and has read the whole
\* map then.
LEMMA MountFollowsChain ==
  ASSUME HInv, call.segment = 0, NEW s, NEW p, Chained(s, p)
  PROVE  MountFinds(extents)
<1> PICK m : m = Len(s)
  OBVIOUS
<1>1. /\ m \in Nat \ {0} /\ m <= MaxFiles /\ MaxFiles \in Nat
      /\ \A i \in 1 .. m :
            /\ s[i] \in FileNumbers /\ s[i] # 0 /\ SlotMapped(extents, s[i])
            /\ HeaderIn(extents, s[i]).owner = "index"
            /\ p[i - 1] \in Nat /\ p[i] \in Nat /\ p[i - 1] < p[i] /\ p[i] <= Len(extents)
  BY ChainFacts, Numbers, SMTT(60)
<1>2. /\ s[1] = IndexFileNumber /\ p[0] = 0 /\ p[m] = Len(extents)
      /\ \A i \in 1 .. m :
            /\ HeaderIn(extents, s[i]).map = SubSeq(extents, p[i - 1] + 1, p[i])
            /\ HeaderIn(extents, s[i]).ext = IF i = m THEN 0 ELSE s[i + 1]
            /\ i < m => SlotMapped(SubSeq(extents, 1, p[i]), s[i + 1])
  BY DEF Chained, Linked
<1>3. extents \in Seq(GoodExtent) /\ Apart(extents)
  BY Known, Types
<1>4. HeaderIn(extents, IndexFileNumber) = block[PrimaryLbn]
  BY Known, PrimarySlot DEF HeaderIn
<1>5. ASSUME NEW i \in 1 .. m, i < m
      PROVE  HeaderIn(SubSeq(extents, 1, p[i]), s[i + 1]) = HeaderIn(extents, s[i + 1])
  <2> PICK part : part = SubSeq(extents, 1, p[i])
    OBVIOUS
  <2>1. p[i] \in 0 .. Len(extents) /\ s[i + 1] \in FileNumbers
    <3>1. i + 1 \in 1 .. m
      BY <1>1, <1>5
    <3>2. QED
      BY <1>1, <3>1
  <2>2. part \in Seq(GoodExtent) /\ Apart(part) /\ Prolongs(extents, part)
    BY <1>3, <2>1, PrefixFacts, PrefixProlongs
  <2>3. HeaderVbn(s[i + 1]) \in 1 .. MappedBlocks(part)
    <3>1. HeaderVbn(s[i + 1]) <= MappedBlocks(part)
      BY <1>2, <1>5 DEF SlotMapped
    <3>2. QED
      BY <2>1, <2>2, <3>1, Numbers, MapFinite, SMTT(30)
  <2>4. Lbn(extents, HeaderVbn(s[i + 1])) = Lbn(part, HeaderVbn(s[i + 1]))
    BY <1>3, <2>2, <2>3, BlocksStay
  <2>5. QED
    BY <2>4 DEF HeaderIn
<1>6. ASSUME NEW i \in 1 .. m, i < m
      PROVE  SubSeq(extents, 1, p[i]) \o SubSeq(extents, p[i] + 1, p[i + 1]) = SubSeq(extents, 1, p[i + 1])
  <2>1. i + 1 \in 1 .. m /\ (i + 1) - 1 = i
    BY <1>1, <1>6
  <2>2. p[i] \in Nat /\ p[i + 1] \in Nat /\ p[i] < p[i + 1] /\ p[i + 1] <= Len(extents)
    BY <1>1, <2>1
  <2>3. 1 \in 1 .. Len(extents) + 1 /\ p[i] \in 1 - 1 .. Len(extents) /\ p[i + 1] \in p[i] .. Len(extents)
    BY <1>3, <2>2
  <2>4. QED
    BY <1>3, <2>3, ConcatAdjacentSubSeq
<1> DEFINE place(k) == IF k < m THEN k + 1 ELSE m
           read(k) == [map |-> SubSeq(extents, 1, p[place(k)]),
                       ext |-> HeaderIn(extents, s[place(k)]).ext, ok |-> TRUE]
           Step(g, k) ==
             IF k = 0
             THEN [map |-> block[PrimaryLbn].map, ext |-> block[PrimaryLbn].ext,
                   ok |-> block[PrimaryLbn].owner = "index"]
             ELSE IF g[k - 1].ext = 0 \/ ~g[k - 1].ok THEN g[k - 1]
                  ELSE IF ~SlotMapped(g[k - 1].map, g[k - 1].ext)
                          \/ HeaderIn(g[k - 1].map, g[k - 1].ext).owner # "index"
                  THEN [g[k - 1] EXCEPT !.ok = FALSE]
                  ELSE [map |-> g[k - 1].map \o HeaderIn(g[k - 1].map, g[k - 1].ext).map,
                        ext |-> HeaderIn(g[k - 1].map, g[k - 1].ext).ext, ok |-> TRUE]
           found == CHOOSE g : g = [k \in 0 .. MaxFiles |-> Step(g, k)]
           walk == [k \in 0 .. MaxFiles |-> read(k)]
<1>7. \A k \in 0 .. MaxFiles : place(k) \in 1 .. m
  BY <1>1
<1>8. ASSUME NEW g PROVE Step(g, 0) = read(0)
  <2>1. place(0) = 1 /\ 1 \in 1 .. m
    BY <1>1
  <2>2. block[PrimaryLbn].map = SubSeq(extents, 1, p[1]) /\ block[PrimaryLbn].owner = "index"
    <3>1. 1 - 1 = 0 /\ 0 + 1 = 1
      OBVIOUS
    <3>2. block[PrimaryLbn].map = SubSeq(extents, p[1 - 1] + 1, p[1])
          /\ block[PrimaryLbn].owner = "index"
      BY <1>1, <1>2, <1>4, <2>1, ZenonT(60)
    <3>3. QED
      BY <1>2, <3>1, <3>2, ZenonT(60)
  <2>3. QED
    BY <1>2, <1>4, <2>1, <2>2
<1>9. ASSUME NEW g, NEW k \in 1 .. MaxFiles, g[k - 1] = read(k - 1) PROVE Step(g, k) = read(k)
  <2> PICK i : i = place(k - 1)
    OBVIOUS
  <2>1. i \in 1 .. m /\ place(k) = (IF i = m THEN m ELSE i + 1) /\ k # 0
    BY <1>1
  <2>2. g[k - 1] = [map |-> SubSeq(extents, 1, p[i]), ext |-> HeaderIn(extents, s[i]).ext, ok |-> TRUE]
    BY <1>9
  <2>3. g[k - 1].map = SubSeq(extents, 1, p[i]) /\ g[k - 1].ext = HeaderIn(extents, s[i]).ext /\ g[k - 1].ok
    <3> HIDE DEF read, Step, found, walk
    <3> PICK now, map, next : /\ now = g[k - 1] /\ map = SubSeq(extents, 1, p[i])
                              /\ next = HeaderIn(extents, s[i]).ext
      OBVIOUS
    <3>1. now = [map |-> map, ext |-> next, ok |-> TRUE]
      BY <2>2, Zenon
    <3>2. now.map = map /\ now.ext = next /\ now.ok = TRUE
      BY ONLY <3>1
    <3>3. QED
      BY <3>2, Zenon
  <2>4. CASE i = m
    <3>1. g[k - 1].ext = 0
      BY <1>2, <2>1, <2>3, <2>4
    <3>2. Step(g, k) = g[k - 1]
      BY <2>1, <3>1
    <3>3. QED
      BY <2>1, <2>2, <2>4, <3>2
  <2>5. CASE i # m
    <3>1. i < m /\ i + 1 \in 1 .. m /\ (i + 1) - 1 = i
      BY <1>1, <2>1, <2>5
    <3>2. g[k - 1].ext = s[i + 1] /\ s[i + 1] # 0 /\ SlotMapped(g[k - 1].map, s[i + 1])
      BY <1>1, <1>2, <2>1, <2>3, <2>5, <3>1
    <3>3. HeaderIn(g[k - 1].map, g[k - 1].ext) = HeaderIn(extents, s[i + 1])
      BY <1>5, <2>1, <2>3, <3>1, <3>2
    <3>4. HeaderIn(extents, s[i + 1]).owner = "index"
          /\ HeaderIn(extents, s[i + 1]).map = SubSeq(extents, p[i] + 1, p[i + 1])
      BY <1>1, <1>2, <3>1, SMTT(30)
    <3>5. g[k - 1].map \o HeaderIn(extents, s[i + 1]).map = SubSeq(extents, 1, p[i + 1])
      BY <1>6, <2>1, <2>3, <3>1, <3>4, ZenonT(60)
    <3>6. Step(g, k) = [map |-> SubSeq(extents, 1, p[i + 1]),
                        ext |-> HeaderIn(extents, s[i + 1]).ext, ok |-> TRUE]
      BY <2>1, <2>3, <3>2, <3>3, <3>4, <3>5
    <3>7. QED
      BY <2>1, <2>5, <3>6
  <2>6. QED
    BY <2>4, <2>5
<1> HIDE DEF read, Step
<1>10. walk = [k \in 0 .. MaxFiles |-> Step(walk, k)]
  <2>1. \A k \in 0 .. MaxFiles : walk[k] = read(k)
    OBVIOUS
  <2>2. ASSUME NEW k \in 0 .. MaxFiles PROVE walk[k] = Step(walk, k)
    <3>1. CASE k = 0
      BY <1>1, <1>8, <2>1, <3>1
    <3>2. CASE k # 0
      <4>1. k \in 1 .. MaxFiles /\ k - 1 \in 0 .. MaxFiles
        BY <1>1, <3>2
      <4>2. walk[k - 1] = read(k - 1) /\ walk[k] = read(k)
        BY <2>1, <4>1
      <4> HIDE DEF walk
      <4>3. QED
        BY <1>9, <4>1, <4>2
    <3>3. QED
      BY <3>1, <3>2
  <2>3. QED
    BY <2>2
<1> HIDE DEF walk
<1>11. Found = found[MaxFiles]
  BY Zenon DEF Found, Step
<1>12. found = [k \in 0 .. MaxFiles |-> Step(found, k)]
  BY <1>10, Zenon
<1> HIDE DEF found
<1>13. \A k \in 0 .. MaxFiles : found[k] = Step(found, k)
  BY <1>12
<1> DEFINE T == {k \in 0 .. MaxFiles : found[k] = read(k)}
<1>14. T = 0 .. MaxFiles
  <2>1. 0 \in T
    <3>1. Step(found, 0) = read(0)
      BY <1>8 DEF Step
    <3>2. QED
      BY <1>1, <1>13, <3>1
  <2>2. ASSUME NEW k \in 1 .. MaxFiles, k - 1 \in T PROVE k \in T
    <3>1. found[k - 1] = read(k - 1) /\ k \in 0 .. MaxFiles
      BY <1>1, <2>2
    <3>2. QED
      BY <1>9, <1>13, <3>1
  <2> HIDE DEF T
  <2>3. QED
    BY <1>1, <2>1, <2>2, InductionUpTo DEF T
<1>15. Found = read(MaxFiles)
  BY <1>1, <1>11, <1>14
<1>16. place(MaxFiles) = m /\ SubSeq(extents, 1, p[m]) = extents
  BY <1>1, <1>2, <1>3
<1>17. QED
  BY <1>15, <1>16 DEF MountFinds, read

\* A header of the index file is as it was, but for the high-water mark.
Kept(n) ==
    /\ n \in used' \ {call'.file, call'.segment}
    /\ HeaderIn(extents, n)'.owner = HeaderIn(extents, n).owner
    /\ HeaderIn(extents, n)'.map = HeaderIn(extents, n).map
    /\ HeaderIn(extents, n)'.ext = HeaderIn(extents, n).ext

\* A chain whose headers are kept is still one.
LEMMA ChainStays ==
  ASSUME HInv, NEW s, NEW p, Chained(s, p), extents' = extents, \A i \in 1 .. Len(s) : Kept(s[i]),
         call'.segment = call.segment,
         call'.step \in {"place", "segment"} => call'.tail = s[Len(s)]
  PROVE  Chained(s, p)'
<1>1. \A i \in 1 .. Len(s) : Linked(s, p, i)
  BY DEF Chained
<1>2. ASSUME NEW i \in 1 .. Len(s) PROVE Linked(s, p, i)'
  <2>1. Linked(s, p, i) /\ Kept(s[i])
    BY <1>1
  <2>2. SlotMapped(extents, s[i])' = SlotMapped(extents, s[i])
    BY DEF SlotMapped
  <2>3. SlotMapped(SubSeq(extents, 1, p[i]), s[i + 1])' = SlotMapped(SubSeq(extents, 1, p[i]), s[i + 1])
    BY DEF SlotMapped
  <2>4. /\ s[i] \in used' \ {call'.file, call'.segment}
        /\ HeaderIn(extents, s[i])'.owner = "index"
        /\ HeaderIn(extents, s[i])'.map = SubSeq(extents, p[i - 1] + 1, p[i])
        /\ HeaderIn(extents, s[i])'.ext = IF i = Len(s) THEN call.segment ELSE s[i + 1]
    BY <2>1 DEF Linked, Kept
  <2>5. SlotMapped(extents, s[i]) /\ (i < Len(s) => SlotMapped(SubSeq(extents, 1, p[i]), s[i + 1]))
    BY <2>1 DEF Linked
  <2>6. QED
    BY <2>2, <2>3, <2>4, <2>5 DEF Linked
<1>3. QED
  BY <1>2 DEF Chained

\* A step that writes nothing and takes no header's slot away keeps the chain.
LEMMA ChainUnwritten ==
  ASSUME HInv, primary = HeaderIn(extents, IndexFileNumber), NEW s, NEW p, Chained(s, p),
         extents' = extents, block' = block, primary' = primary, used \ {call.file} \subseteq used',
         call'.segment = call.segment, call'.file \in used => call'.file = call.file,
         call'.step \in {"place", "segment"} => call'.tail = s[Len(s)]
  PROVE  primary' = HeaderIn(extents, IndexFileNumber)' /\ Chained(s, p)'
<1>1. \A n : HeaderIn(extents, n)' = HeaderIn(extents, n)
  BY DEF HeaderIn
<1>2. ASSUME NEW i \in 1 .. Len(s) PROVE Kept(s[i])
  <2>1. s[i] \in used /\ s[i] # call.file /\ s[i] # call.segment
    BY ChainFacts
  <2>2. QED
    BY <1>1, <2>1 DEF Kept
<1>3. QED
  BY <1>1, <1>2, ChainStays

\* A header written to a slot not of the chain, or to one of it with its map and
\* its link as they were, keeps the chain.
LEMMA ChainWritten ==
  ASSUME HInv, NEW s, NEW p, Chained(s, p),
         NEW m \in FileNumbers, SlotMapped(extents, m), NEW h \in GoodHeader, WriteHeader(m, h),
         \A i \in 1 .. Len(s) : s[i] = m =>
             /\ h.owner = "index" /\ h.map = HeaderIn(extents, m).map
             /\ h.ext = HeaderIn(extents, m).ext,
         extents' = extents, \A i \in 1 .. Len(s) : s[i] \in used' \ {call'.file, call'.segment},
         call'.segment = call.segment, call'.step \notin {"place", "segment"}
  PROVE  /\ Chained(s, p)' /\ HeaderIn(extents, m)' = h
         /\ \A n \in FileNumbers : SlotMapped(extents, n) /\ n # m =>
               HeaderIn(extents, n)' = HeaderIn(extents, n)
<1>1. Typed /\ Apart(extents) /\ Longer
  BY Known, AsLong
<1>2. /\ HeaderIn(extents, m)' = h
      /\ \A n \in FileNumbers : SlotMapped(extents, n) =>
            /\ SlotMapped(extents', n)
            /\ n # m => HeaderIn(extents, n)' = HeaderIn(extents, n)
  BY <1>1, WrittenSlot
<1>3. ASSUME NEW i \in 1 .. Len(s) PROVE Kept(s[i])
  <2>1. s[i] \in FileNumbers /\ SlotMapped(extents, s[i]) /\ HeaderIn(extents, s[i]).owner = "index"
    BY ChainFacts
  <2>2. CASE s[i] = m
    BY <1>2, <2>1, <2>2 DEF Kept
  <2>3. CASE s[i] # m
    BY <1>2, <2>1, <2>3 DEF Kept
  <2>4. QED
    BY <2>2, <2>3
<1>4. QED
  BY <1>2, <1>3, ChainStays

\* What a step does that neither grows a map nor links a header.
Quiet ==
    \/ \E n \in FileNumbers : MakeHeader(n) \/ Grow(n) \/ FreeHeader(n)
    \/ Allocate \/ NoSpace \/ NoSlot \/ RecordHighest \/ ZeroNewBlocks \/ RecordSize \/ WriteNewHeader
    \/ \E c \in Clusters : TakeCluster(c) \/ FreeCluster(c)
    \/ UNCHANGED vars

\* It keeps the chain as it is.
LEMMA ChainKept ==
  ASSUME HInv, growth # "overflowed", primary = HeaderIn(extents, IndexFileNumber),
         NEW s, NEW p, Chained(s, p), Quiet
  PROVE  /\ primary' = HeaderIn(extents, IndexFileNumber)' /\ Chained(s, p)'
         /\ extents' = extents /\ call.segment = call'.segment
<1>1. /\ Typed /\ SpaceApart /\ Underway /\ VacantIsBlank /\ UsedHoldHeaders /\ Apart(extents)
      /\ SlotMapped(extents, IndexFileNumber) /\ IndexFileNumber \in used
      /\ IndexFileNumber \in FileNumbers /\ used \subseteq FileNumbers /\ primary \in GoodHeader
      /\ primary.owner = "index"
  BY Known, Numbers, Types DEF HInv, Typed
<1>2. \A i \in 1 .. Len(s) : /\ s[i] \in FileNumbers /\ s[i] \in used /\ s[i] # call.file
                             /\ s[i] # call.segment /\ SlotMapped(extents, s[i])
                             /\ HeaderIn(extents, s[i]).owner = "index"
  BY ChainFacts
<1>3. call.step # "segment" => call.segment = 0
  BY <1>1 DEF Underway
<1>4. ASSUME NEW n \in FileNumbers, MakeHeader(n) \/ Grow(n)
      PROVE  /\ primary' = HeaderIn(extents, IndexFileNumber)' /\ Chained(s, p)'
             /\ extents' = extents /\ call.segment = call'.segment
  <2>1. /\ extents' = extents /\ block' = block /\ primary' = primary /\ used \subseteq used'
        /\ call = NoCall /\ n \notin used
    BY <1>4 DEF MakeHeader, Grow, FreeSlot
  <2>2. call'.segment = 0 /\ call'.file = n /\ call'.step \in {"header", "extend"}
    BY <1>4 DEF MakeHeader, Grow, NoCall
  <2>3. QED
    BY <2>1, <2>2, NoCallFacts, ChainUnwritten
<1>5. ASSUME NEW n \in FileNumbers, FreeHeader(n)
      PROVE  /\ primary' = HeaderIn(extents, IndexFileNumber)' /\ Chained(s, p)'
             /\ extents' = extents /\ call.segment = call'.segment
  <2>1. /\ extents' = extents /\ primary' = primary /\ used' = used \ {n} /\ call' = call /\ call = NoCall
        /\ SlotMapped(extents, n) /\ HeaderIn(extents, n).owner = "file"
        /\ WriteHeader(n, Other("none")) /\ n # IndexFileNumber
    BY <1>1, <1>5 DEF FreeHeader
  <2>2. PICK h : h = Other("none")
    OBVIOUS
  <2>3. h \in GoodHeader /\ WriteHeader(n, h)
    BY <2>1, <2>2, OtherHeaders DEF Owners
  <2>4. \A i \in 1 .. Len(s) : s[i] # n /\ s[i] \in used' \ {call'.file, call'.segment}
    BY <1>2, <2>1
  <2>5. call'.segment = call.segment /\ call'.step \notin {"place", "segment"}
    BY <2>1, NoCallFacts
  <2>6. Chained(s, p)' /\ HeaderIn(extents, IndexFileNumber)' = HeaderIn(extents, IndexFileNumber)
    BY <1>1, <2>1, <2>3, <2>4, <2>5, ChainWritten
  <2>7. QED
    BY <2>1, <2>5, <2>6
<1>6. CASE GiveUp /\ call.step # "segment" /\ extents' = extents /\ block' = block /\ primary' = primary
  <2>1. call' = NoCall /\ used' = used \ {call.file}
    BY <1>6 DEF GiveUp
  <2>2. call'.file \notin used
    BY <1>1, <2>1, NoCallFacts, Numbers
  <2>3. QED
    BY <1>3, <1>6, <2>1, <2>2, NoCallFacts, ChainUnwritten
<1>7. CASE Allocate
  <2>1. /\ call.step = "extend" /\ call.segment = 0 /\ extents' = extents /\ block' = block
        /\ primary' = primary
    BY <1>3, <1>7 DEF Allocate
  <2>2. TailSlot = s[Len(s)] /\ TailSlot # 0
    BY <2>1, TailIsLast
  <2>3. /\ used' = used /\ call'.step = "place" /\ call'.tail = s[Len(s)] /\ call'.segment = 0
        /\ call'.file = call.file
    <3>1. call \in GoodCall
      BY <1>1 DEF Typed
    <3>2. PICK exts : /\ call' = [call EXCEPT !.step = "place", !.todo = exts, !.tail = TailSlot]
                      /\ used' = used
      BY <1>7, <2>2 DEF Allocate
    <3>3. QED
      BY <2>1, <2>2, <3>1, <3>2 DEF GoodCall
  <2>4. QED
    BY <2>1, <2>3, ChainUnwritten
<1>8. CASE NoSpace \/ NoSlot
  BY <1>6, <1>8 DEF NoSpace, NoSlot
<1>9. CASE RecordHighest
  <2>1. /\ call.step = "place" /\ WriteHeader(IndexFileNumber, primary) /\ primary' = primary
        /\ extents' = extents /\ used' = used
    BY <1>9 DEF RecordHighest, Rewrite
  <2>2. call' = [call EXCEPT !.step = "zero"] /\ call \in GoodCall
    BY <1>1, <1>9 DEF RecordHighest, Typed
  <2>3. call'.segment = call.segment /\ call'.file = call.file /\ call'.step = "zero"
    BY <2>2 DEF GoodCall
  <2>4. Chained(s, p)' /\ HeaderIn(extents, IndexFileNumber)' = primary
    BY <1>1, <1>2, <2>1, <2>3, ChainWritten
  <2>5. QED
    BY <2>1, <2>3, <2>4
<1>10. CASE ZeroNewBlocks
  <2>1. /\ call.step = "zero" /\ primary' = primary /\ extents' = extents /\ used' = used
    BY <1>10 DEF ZeroNewBlocks
  <2>2. call' = [call EXCEPT !.step = "record"] /\ call \in GoodCall
    BY <1>1, <1>10 DEF ZeroNewBlocks, Typed
  <2>3. call'.segment = call.segment /\ call'.file = call.file /\ call'.step = "record"
    BY <2>2 DEF GoodCall
  <2>4. \A n \in used \ {call.file} : HeaderVbn(n) <= call.have
    BY <1>1, <2>1 DEF UsedHoldHeaders, Growing
  <2>5. \A n \in used \ {call.file} : SlotMapped(extents, n) => HeaderIn(extents, n)' = HeaderIn(extents, n)
    BY <1>1, <1>10, <2>4, ZeroedSlots
  <2>6. ASSUME NEW i \in 1 .. Len(s) PROVE Kept(s[i])
    BY <1>2, <2>1, <2>3, <2>5 DEF Kept
  <2>7. Chained(s, p)'
    BY <2>1, <2>3, <2>6, ChainStays
  <2>8. IndexFileNumber # call.file
    BY <2>1, Known
  <2>9. QED
    BY <1>1, <2>1, <2>3, <2>5, <2>7, <2>8
<1>11. CASE RecordSize
  <2> PICK h : h = [primary EXCEPT !.highWater = MappedBlocks(extents) + 1]
    OBVIOUS
  <2>1. /\ call.step = "record" /\ WriteHeader(IndexFileNumber, h) /\ primary' = h
        /\ extents' = extents /\ used' = used
    BY <1>11 DEF RecordSize, Rewrite
  <2>2. /\ h \in GoodHeader /\ h.owner = "index" /\ h.map = primary.map /\ h.ext = primary.ext
    BY <1>1, Types DEF GoodHeader
  <2>3. call'.segment = 0 /\ call'.file = call.file /\ call'.step \in {"header", "extend"}
    <3>1. CASE call.more = 0
      <4>1. call' = [NoCall EXCEPT !.step = "header", !.file = call.file]
        BY <1>11, <3>1 DEF RecordSize
      <4>2. QED
        BY <4>1 DEF NoCall
    <3>2. CASE call.more # 0
      <4>1. call' = [NoCall EXCEPT !.step = "extend", !.file = call.file,
                                   !.have = MappedBlocks(extents), !.blocks = call.more,
                                   !.newSegment = TRUE]
        BY <1>11, <3>2 DEF RecordSize
      <4>2. QED
        BY <4>1 DEF NoCall
    <3>3. QED
      BY <3>1, <3>2
  <2>4. call.segment = 0
    BY <1>3, <2>1
  <2>5. Chained(s, p)' /\ HeaderIn(extents, IndexFileNumber)' = h
    <3>1. \A i \in 1 .. Len(s) : s[i] \in used' \ {call'.file, call'.segment}
      BY <1>2, <2>1, <2>3, <2>4
    <3>2. \A i \in 1 .. Len(s) : s[i] = IndexFileNumber =>
             /\ h.owner = "index" /\ h.map = HeaderIn(extents, IndexFileNumber).map
             /\ h.ext = HeaderIn(extents, IndexFileNumber).ext
      BY <2>2
    <3>3. call'.segment = call.segment /\ call'.step \notin {"place", "segment"}
      BY <2>3, <2>4
    <3>4. QED
      BY <1>1, <2>1, <2>2, <3>1, <3>2, <3>3, ChainWritten
  <2>6. QED
    BY <2>1, <2>3, <2>4, <2>5
<1>12. CASE WriteNewHeader
  <2> PICK file, h : file = call.file /\ h = Other("file")
    OBVIOUS
  <2>1. /\ call.step = "header" /\ WriteHeader(file, h) /\ used' = used \cup {file} /\ call' = NoCall
        /\ extents' = extents /\ primary' = primary
    BY <1>12 DEF WriteNewHeader
  <2>2. file \in FileNumbers /\ SlotMapped(extents, file) /\ file # IndexFileNumber /\ call.segment = 0
    BY <1>1, <1>3, <2>1, Known DEF Underway
  <2>3. h \in GoodHeader
    BY OtherHeaders DEF Owners
  <2>4. \A i \in 1 .. Len(s) : s[i] # file /\ s[i] \in used' \ {call'.file, call'.segment}
    BY <1>2, <2>1, <2>2, NoCallFacts, Numbers
  <2>5. Chained(s, p)' /\ HeaderIn(extents, IndexFileNumber)' = HeaderIn(extents, IndexFileNumber)
    BY <1>1, <2>1, <2>2, <2>3, <2>4, NoCallFacts, ChainWritten
  <2>6. QED
    BY <2>1, <2>2, <2>5, NoCallFacts
<1>13. CASE block' = block /\ extents' = extents /\ primary' = primary /\ used' = used /\ call' = call
  <2>1. call'.step \in {"place", "segment"} => call'.tail = s[Len(s)]
    BY <1>13 DEF Chained
  <2>2. QED
    BY <1>13, <2>1, ChainUnwritten
<1>14. QED
  BY <1>4, <1>5, <1>7, <1>8, <1>9, <1>10, <1>11, <1>12, <1>13 DEF Quiet, TakeCluster, FreeCluster, vars

\* A part of a map.
LEMMA PartFacts ==
  ASSUME NEW map \in Seq(GoodExtent), NEW a \in 0 .. Len(map), NEW b \in a .. Len(map)
  PROVE  /\ SubSeq(map, a + 1, b) \in Seq(GoodExtent) /\ Len(SubSeq(map, a + 1, b)) = b - a
         /\ \A i \in 1 .. b - a : SubSeq(map, a + 1, b)[i] = map[a + i]
<1>1. a + 1 \in Int /\ b \in Int /\ \A i \in a + 1 .. b : map[i] \in GoodExtent
  OBVIOUS
<1>2. /\ SubSeq(map, a + 1, b) \in Seq(GoodExtent)
      /\ Len(SubSeq(map, a + 1, b)) = IF a + 1 <= b THEN b - (a + 1) + 1 ELSE 0
      /\ \A i \in 1 .. b - (a + 1) + 1 : SubSeq(map, a + 1, b)[i] = map[a + 1 + i - 1]
  BY ONLY <1>1, SubSeqProperties
<1>3. \A i \in 1 .. b - a : i \in 1 .. b - (a + 1) + 1 /\ a + 1 + i - 1 = a + i
  BY <1>1
<1>4. QED
  BY <1>2, <1>3

\* A map, or a part of it, is the part of another that has the same extents.
LEMMA SamePart ==
  ASSUME NEW map \in Seq(GoodExtent), NEW grown \in Seq(GoodExtent),
         NEW a \in 0 .. Len(grown), NEW b \in a .. Len(grown),
         Len(map) = b - a, \A i \in 1 .. b - a : map[i] = grown[a + i]
  PROVE  map = SubSeq(grown, a + 1, b)
<1>1. /\ SubSeq(grown, a + 1, b) \in Seq(GoodExtent) /\ Len(SubSeq(grown, a + 1, b)) = b - a
      /\ \A i \in 1 .. b - a : SubSeq(grown, a + 1, b)[i] = grown[a + i]
  BY PartFacts
<1>2. QED
  BY <1>1, SeqEqual

\* What a map keeps when one extent is put on its end: all its parts, or when it is
\* added to the last extent, all parts without it.
LEMMA PartsStay ==
  ASSUME NEW map \in Seq(GoodExtent), NEW grown \in Seq(GoodExtent), NEW c \in 0 .. Len(map),
         c <= Len(grown), \A i \in 1 .. c : grown[i] = map[i]
  PROVE  \A d \in 0 .. c : \A b \in 0 .. d : SubSeq(grown, b + 1, d) = SubSeq(map, b + 1, d)
<1>1. TAKE d \in 0 .. c
<1>2. TAKE b \in 0 .. d
<1>3. b \in 0 .. Len(map) /\ d \in b .. Len(map) /\ b \in 0 .. Len(grown) /\ d \in b .. Len(grown)
  OBVIOUS
<1>4. /\ SubSeq(map, b + 1, d) \in Seq(GoodExtent) /\ Len(SubSeq(map, b + 1, d)) = d - b
      /\ \A i \in 1 .. d - b : SubSeq(map, b + 1, d)[i] = map[b + i]
  BY <1>3, PartFacts
<1>5. \A i \in 1 .. d - b : b + i \in 1 .. c
  OBVIOUS
<1>6. SubSeq(map, b + 1, d) = SubSeq(grown, b + 1, d)
  BY <1>3, <1>4, <1>5, SamePart
<1>7. QED
  BY <1>6

\* An extent added to the last part of a map, and to the map, makes the same change.
LEMMA AddedToLast ==
  ASSUME NEW map \in Seq(GoodExtent), NEW e \in GoodExtent, NEW a \in 0 .. Len(map) - 1
  PROVE  LET grown == AddExtent(map, e)
         IN  /\ grown \in Seq(GoodExtent) /\ Len(map) <= Len(grown) /\ Len(grown) <= Len(map) + 1
             /\ AddExtent(SubSeq(map, a + 1, Len(map)), e) = SubSeq(grown, a + 1, Len(grown))
             /\ \A c \in 0 .. Len(map) - 1 : \A b \in 0 .. c :
                   SubSeq(grown, b + 1, c) = SubSeq(map, b + 1, c)
<1>a. PICK n, part, grown : n = Len(map) /\ part = SubSeq(map, a + 1, Len(map)) /\ grown = AddExtent(map, e)
  OBVIOUS
<1>b. PICK last, grownPart : last = [map[n] EXCEPT !.count = @ + e.count] /\ grownPart = AddExtent(part, e)
  OBVIOUS
<1>1. n \in Nat /\ n > 0 /\ a \in 0 .. n /\ n - a \in Nat /\ n - a > 0 /\ n \in a .. n /\ Len(map) = n
      /\ n - 1 \in 0 .. n /\ a <= n
  BY <1>a
<1>2. /\ part \in Seq(GoodExtent) /\ Len(part) = n - a
      /\ \A j \in 1 .. n - a : part[j] = map[a + j]
  BY <1>1, <1>a, PartFacts
<1>3. part[n - a] = map[n]
  BY <1>1, <1>2
<1>4. grown \in Seq(GoodExtent) /\ grownPart \in Seq(GoodExtent)
  BY <1>2, <1>a, <1>b, AddExtentGrows
<1>c. SUFFICES /\ grown \in Seq(GoodExtent) /\ n <= Len(grown) /\ Len(grown) <= n + 1
               /\ grownPart = SubSeq(grown, a + 1, Len(grown))
               /\ \A c \in 0 .. n - 1 : \A b \in 0 .. c :
                     SubSeq(grown, b + 1, c) = SubSeq(map, b + 1, c)
  BY <1>a, <1>b, Zenon
<1>5. CASE ~(map[n].start + map[n].count = e.start)
  <2>1. grown = Append(map, e) /\ grownPart = Append(part, e)
    BY <1>1, <1>2, <1>3, <1>5, <1>a, <1>b DEF AddExtent
  <2>2. /\ Len(grown) = n + 1 /\ grown[n + 1] = e /\ \A j \in 1 .. n : grown[j] = map[j]
    BY <1>1, <2>1, AppendProperties
  <2>3. /\ Len(grownPart) = n - a + 1 /\ grownPart[n - a + 1] = e
        /\ \A j \in 1 .. n - a : grownPart[j] = part[j]
    BY <1>2, <2>1, AppendProperties
  <2>4. \A j \in 1 .. n - a + 1 : grownPart[j] = grown[a + j]
    <3>1. TAKE j \in 1 .. n - a + 1
    <3>2. CASE j = n - a + 1
      BY <1>1, <2>2, <2>3, <3>2
    <3>3. CASE j # n - a + 1
      <4>1. j \in 1 .. n - a /\ a + j \in 1 .. n
        BY <1>1, <3>3
      <4>2. QED
        BY <1>2, <2>2, <2>3, <4>1
    <3>4. QED
      BY <3>2, <3>3
  <2>5. grownPart = SubSeq(grown, a + 1, n + 1)
    <3> PICK m : m = n + 1
      OBVIOUS
    <3>1. /\ a \in 0 .. Len(grown) /\ m \in a .. Len(grown) /\ Len(grownPart) = m - a
          /\ \A j \in 1 .. m - a : grownPart[j] = grown[a + j]
      BY <1>1, <2>2, <2>3, <2>4
    <3>2. grownPart = SubSeq(grown, a + 1, m)
      BY ONLY <1>4, <3>1, SamePart
    <3>3. QED
      BY <3>2
  <2>6. \A c \in 0 .. n - 1 : \A b \in 0 .. c : SubSeq(grown, b + 1, c) = SubSeq(map, b + 1, c)
    <3>1. n - 1 <= Len(grown) /\ \A i \in 1 .. n - 1 : grown[i] = map[i]
      BY <1>1, <2>2
    <3>2. n - 1 \in 0 .. Len(map)
      BY <1>1
    <3>3. QED
      BY ONLY <1>4, <3>1, <3>2, PartsStay, map \in Seq(GoodExtent)
  <2>7. QED
    BY ONLY <1>1, <1>4, <2>2, <2>5, <2>6
<1>6. CASE map[n].start + map[n].count = e.start
  <2>1. grown = [map EXCEPT ![n] = last] /\ grownPart = [part EXCEPT ![n - a] = last]
    BY <1>1, <1>2, <1>3, <1>6, <1>a, <1>b DEF AddExtent
  <2>2. Len(grown) = n /\ grown[n] = last /\ \A j \in 1 .. n - 1 : grown[j] = map[j]
    BY <1>1, <2>1
  <2>3. Len(grownPart) = n - a /\ grownPart[n - a] = last /\ \A j \in 1 .. n - a - 1 : grownPart[j] = part[j]
    <3>1. n - a \in 1 .. Len(part) /\ Len(part) \in Nat
      BY <1>1, <1>2
    <3> PICK k : k = n - a
      OBVIOUS
    <3>2. Len([part EXCEPT ![k] = last]) = k /\ [part EXCEPT ![k] = last][k] = last
          /\ \A j \in 1 .. k - 1 : [part EXCEPT ![k] = last][j] = part[j]
      BY <1>2, <3>1
    <3>3. QED
      BY <2>1, <3>2
  <2>4. \A j \in 1 .. n - a : grownPart[j] = grown[a + j]
    <3>1. TAKE j \in 1 .. n - a
    <3>2. CASE j = n - a
      BY <1>1, <2>2, <2>3, <3>2
    <3>3. CASE j # n - a
      <4>1. j \in 1 .. n - a - 1 /\ a + j \in 1 .. n - 1
        BY <1>1, <3>3
      <4>2. QED
        BY <1>2, <2>2, <2>3, <4>1
    <3>4. QED
      BY <3>2, <3>3
  <2>5. grownPart = SubSeq(grown, a + 1, n)
    <3>1. a \in 0 .. Len(grown) /\ n \in a .. Len(grown)
      BY <1>1, <2>2
    <3>2. QED
      BY ONLY <1>4, <2>3, <2>4, <3>1, SamePart
  <2>6. \A c \in 0 .. n - 1 : \A b \in 0 .. c : SubSeq(grown, b + 1, c) = SubSeq(map, b + 1, c)
    <3>1. n - 1 <= Len(grown)
      BY <1>1, <2>2
    <3>2. n - 1 \in 0 .. Len(map)
      BY <1>1
    <3>3. QED
      BY ONLY <1>4, <2>2, <3>1, <3>2, PartsStay, map \in Seq(GoodExtent)
  <2>7. QED
    BY ONLY <1>1, <1>4, <2>2, <2>5, <2>6
<1>7. QED
  BY ONLY <1>5, <1>6

\* A header that is not written, of extents that stay as they are, is still in the chain.
LEMMA HeaderStays ==
  ASSUME HInv, NEW s, NEW p, Chained(s, p), Longer, NEW c \in Nat,
         \A d \in 0 .. c : \A b \in 0 .. d : SubSeq(extents', b + 1, d) = SubSeq(extents, b + 1, d),
         NEW i \in 1 .. Len(s), p[i] <= c, HeaderIn(extents, s[i])' = HeaderIn(extents, s[i]),
         used \subseteq used', call'.file = call.file, s[i] # call'.segment
  PROVE  /\ s[i] \in used' \ {call'.file, call'.segment} /\ SlotMapped(extents', s[i])
         /\ HeaderIn(extents, s[i])'.owner = "index"
         /\ HeaderIn(extents, s[i])'.map = SubSeq(extents', p[i - 1] + 1, p[i])
         /\ HeaderIn(extents, s[i])'.ext = IF i = Len(s) THEN call.segment ELSE s[i + 1]
         /\ i < Len(s) => SlotMapped(SubSeq(extents', 1, p[i]), s[i + 1])
<1>1. /\ s[i] \in FileNumbers /\ s[i] \in used /\ s[i] # call.file /\ SlotMapped(extents, s[i])
      /\ p[i - 1] \in Nat /\ p[i] \in Nat /\ p[i - 1] < p[i]
  BY ChainFacts
<1>2. /\ HeaderIn(extents, s[i]).owner = "index"
      /\ HeaderIn(extents, s[i]).map = SubSeq(extents, p[i - 1] + 1, p[i])
      /\ HeaderIn(extents, s[i]).ext = IF i = Len(s) THEN call.segment ELSE s[i + 1]
      /\ i < Len(s) => SlotMapped(SubSeq(extents, 1, p[i]), s[i + 1])
  BY DEF Chained, Linked
<1>3. p[i] \in 0 .. c /\ p[i - 1] \in 0 .. p[i] /\ 0 \in 0 .. p[i] /\ 0 + 1 = 1
  BY <1>1
<1>4. /\ SubSeq(extents', p[i - 1] + 1, p[i]) = SubSeq(extents, p[i - 1] + 1, p[i])
      /\ SubSeq(extents', 1, p[i]) = SubSeq(extents, 1, p[i])
  BY <1>3
<1>5. SlotMapped(extents', s[i])
  BY <1>1, Known, SlotsStay
<1>6. i < Len(s) => SlotMapped(SubSeq(extents', 1, p[i]), s[i + 1])
  BY <1>2, <1>4 DEF SlotMapped
<1>7. QED
  BY <1>1, <1>2, <1>4, <1>5, <1>6

\* A pointer placed grows the part of the last header.
LEMMA ChainPlaced ==
  ASSUME HInv, growth # "overflowed", primary = HeaderIn(extents, IndexFileNumber),
         NEW s, NEW p, Chained(s, p), PlacePointer
  PROVE  /\ primary' = HeaderIn(extents, IndexFileNumber)'
         /\ Len(extents') \in Nat /\ Len(extents') <= Len(extents) + 1
         /\ \E q : q[Len(s)] = Len(extents') /\ q[Len(s) - 1] = p[Len(s) - 1] /\ Chained(s, q)'
<1> PICK m, last, e : m = Len(s) /\ last = call.tail /\ e = Head(call.todo)
  OBVIOUS
<1> PICK old : old = SessionHeader(last)
  OBVIOUS
<1>a. PICK q : q = [p EXCEPT ![m] = Len(extents')]
  OBVIOUS
<1>b. \A n : SlotMapped(extents, n)' <=> SlotMapped(extents', n)
  BY DEF SlotMapped
<1> PICK h : h = [old EXCEPT !.map = AddExtent(old.map, e)]
  OBVIOUS
<1>1. /\ call.step = "place" /\ call.todo # <<>> /\ MapFits(AddExtent(old.map, e))
      /\ WriteHeader(last, h) /\ primary' = (IF last = IndexFileNumber THEN h ELSE primary)
      /\ extents' = AddExtent(extents, e) /\ call' = [call EXCEPT !.todo = Tail(@)] /\ used' = used
  BY DEF PlacePointer, TailHasRoom, Grown, Rewrite
<1>3. /\ call'.step = "place" /\ call'.file = call.file /\ call'.segment = 0 /\ call'.tail = last
      /\ call.segment = 0
  <2>1. call \in GoodCall /\ call.segment = 0
    BY <1>1, Known DEF Typed, Underway
  <2>2. QED
    BY <1>1, <2>1 DEF GoodCall
<1>4. /\ m \in Nat \ {0} /\ m \in 1 .. m /\ last = s[m] /\ m - 1 \in 0 .. m
      /\ p[m - 1] \in Nat /\ p[m] = Len(extents) /\ p[m - 1] < p[m]
      /\ last \in FileNumbers /\ SlotMapped(extents, last) /\ HeaderIn(extents, last) \in GoodHeader
      /\ HeaderIn(extents, last).owner = "index" /\ last \in used /\ last # call.file
      /\ HeaderIn(extents, last).map = SubSeq(extents, p[m - 1] + 1, p[m])
      /\ HeaderIn(extents, last).ext = 0
  <2>1. m \in Nat \ {0}
    BY ChainFacts
  <2>2. m \in 1 .. m
    BY <2>1
  <2>3. last = s[m] /\ p[m] = Len(extents) /\ Linked(s, p, m)
    BY <1>1, <2>2 DEF Chained
  <2>4. QED
    BY <1>3, <2>1, <2>2, <2>3, ChainFacts DEF Linked
<1>5. old = HeaderIn(extents, last)
  BY DEF SessionHeader
<1>6. /\ e \in GoodExtent /\ Longer /\ extents \in Seq(GoodExtent) /\ Typed /\ Apart(extents)
  BY <1>1, ExtentPlaced, Known, Types
<1>7. /\ extents' \in Seq(GoodExtent) /\ Len(extents) <= Len(extents')
      /\ Len(extents') <= Len(extents) + 1 /\ Len(extents') \in Nat /\ Len(extents) \in Nat
      /\ AddExtent(old.map, e) = SubSeq(extents', p[m - 1] + 1, Len(extents'))
      /\ \A d \in 0 .. p[m - 1] : \A b \in 0 .. d : SubSeq(extents', b + 1, d) = SubSeq(extents, b + 1, d)
  <2>1. p[m - 1] \in 0 .. Len(extents) - 1 /\ p[m - 1] <= Len(extents) - 1 /\ Len(extents) \in Nat
    BY <1>4, <1>6
  <2>2. old.map = SubSeq(extents, p[m - 1] + 1, Len(extents))
    BY <1>4, <1>5
  <2> PICK grown : grown = AddExtent(extents, e)
    OBVIOUS
  <2>3. /\ grown \in Seq(GoodExtent) /\ Len(extents) <= Len(grown)
        /\ Len(grown) <= Len(extents) + 1
        /\ AddExtent(SubSeq(extents, p[m - 1] + 1, Len(extents)), e)
              = SubSeq(grown, p[m - 1] + 1, Len(grown))
        /\ \A c \in 0 .. Len(extents) - 1 : \A b \in 0 .. c :
              SubSeq(grown, b + 1, c) = SubSeq(extents, b + 1, c)
    BY <1>6, <2>1, AddedToLast
  <2>4. \A d \in 0 .. p[m - 1] : d \in 0 .. Len(extents) - 1
    BY <2>1
  <2>5. QED
    <3>1. extents' = grown
      BY <1>1
    <3>2. Len(grown) \in Nat
      BY <2>3
    <3>3. AddExtent(old.map, e) = SubSeq(grown, p[m - 1] + 1, Len(grown))
      BY <2>2, <2>3, Zenon
    <3>4. \A d \in 0 .. p[m - 1] : \A b \in 0 .. d : SubSeq(grown, b + 1, d) = SubSeq(extents, b + 1, d)
      BY ONLY <2>3, <2>4, Zenon
    <3>5. QED
      BY ONLY <2>1, <2>3, <3>1, <3>2, <3>3, <3>4
<1>8. h \in GoodHeader /\ h.owner = "index" /\ h.map = AddExtent(old.map, e) /\ h.ext = 0
  <2>1. old.map \in Seq(GoodExtent)
    BY <1>4, <1>5 DEF GoodHeader, GoodMap
  <2>2. AddExtent(old.map, e) \in GoodMap
    BY <1>1, <1>6, <2>1, AddExtentGrows DEF GoodMap, MapFits
  <2>3. QED
    BY <1>4, <1>5, <2>2 DEF GoodHeader
<1>9. /\ HeaderIn(extents, last)' = h
      /\ \A n \in FileNumbers : SlotMapped(extents, n) =>
            /\ SlotMapped(extents', n)
            /\ n # last => HeaderIn(extents, n)' = HeaderIn(extents, n)
  BY <1>1, <1>4, <1>6, <1>8, WrittenSlot
<1>10. primary' = HeaderIn(extents, IndexFileNumber)'
  BY <1>1, <1>9, Known, Numbers
<1>11. /\ s \in Seq(FileNumbers) /\ s # <<>> /\ s[1] = IndexFileNumber
       /\ \A i, j \in 1 .. m : i # j => s[i] # s[j]
       /\ p \in [0 .. m -> 0 .. Len(extents)] /\ p[0] = 0 /\ \A i, j \in 0 .. m : i < j => p[i] < p[j]
  BY DEF Chained
<1>12. q \in [0 .. m -> 0 .. Len(extents')] /\ q[m] = Len(extents') /\ \A i \in 0 .. m - 1 : q[i] = p[i]
  BY <1>4, <1>7, <1>11, <1>a
<1>13. \A i, j \in 0 .. m : i < j => q[i] < q[j]
  <2>1. TAKE i, j \in 0 .. m
  <2>2. HAVE i < j
  <2>3. q[i] = p[i] /\ p[i] < p[j] /\ p[i] \in Nat /\ p[j] \in Nat /\ (j = m \/ q[j] = p[j])
    BY <1>4, <1>11, <1>12, <2>2
  <2>4. QED
    BY <1>4, <1>7, <1>12, <2>3
<1>14. ASSUME NEW i \in 1 .. m PROVE Linked(s, q, i)'
  <2>1. CASE i = m
    <3>1. m - 1 \in 0 .. m - 1
      BY <1>4
    <3>2. q[m - 1] = p[m - 1]
      BY <1>12, <3>1
    <3>3. HeaderIn(extents, s[i])' = h
      BY <1>4, <1>9, <2>1 DEF HeaderIn
    <3>4. SlotMapped(extents', s[m]) /\ s[m] \in used' \ {call'.file, call'.segment}
      <4>1. SlotMapped(extents', s[m])
        BY <1>4, <1>9
      <4>2. s[m] \in used' /\ s[m] # call'.file /\ s[m] # call'.segment
        BY <1>1, <1>3, <1>4, Numbers, ZenonT(60)
      <4>3. QED
        BY <4>1, <4>2
    <3>5. /\ h.map = SubSeq(extents', q[i - 1] + 1, q[i]) /\ i = Len(s)
          /\ h.ext = call'.segment
      BY <1>3, <1>7, <1>8, <1>12, <2>1, <3>2
    <3>6. QED
      BY <1>8, <1>b, <2>1, <3>3, <3>4, <3>5 DEF Linked
  <2>2. CASE i # m
    <3>1. i \in 0 .. m - 1 /\ i - 1 \in 0 .. m - 1 /\ i < m /\ i \in 0 .. m
      BY <1>4, <2>2
    <3>2. q[i] = p[i] /\ q[i - 1] = p[i - 1]
      BY <1>12, <3>1
    <3>3. p[i] <= p[m - 1]
      <4>1. i = m - 1 \/ i < m - 1
        BY <1>4, <3>1
      <4>2. p[i] \in Nat
        BY <1>11, <3>1
      <4>3. QED
        BY <1>4, <1>11, <3>1, <4>1, <4>2
    <3>4. s[i] # last /\ s[i] \in FileNumbers /\ SlotMapped(extents, s[i])
      <4>1. s[i] # s[m]
        BY <1>4, <1>11, <2>2
      <4>2. s[i] \in FileNumbers /\ SlotMapped(extents, s[i])
        BY ChainFacts
      <4>3. QED
        BY <1>4, <4>1, <4>2
    <3>5. HeaderIn(extents, s[i])' = HeaderIn(extents, s[i])
      BY <1>9, <3>4
    <3>6. s[i] # call'.segment
      BY <1>3, <3>4, Numbers
    <3>7. /\ s[i] \in used' \ {call'.file, call'.segment} /\ SlotMapped(extents', s[i])
          /\ HeaderIn(extents, s[i])'.owner = "index"
          /\ HeaderIn(extents, s[i])'.map = SubSeq(extents', p[i - 1] + 1, p[i])
          /\ HeaderIn(extents, s[i])'.ext = (IF i = Len(s) THEN call.segment ELSE s[i + 1])
          /\ i < Len(s) => SlotMapped(SubSeq(extents', 1, p[i]), s[i + 1])
      BY <1>1, <1>3, <1>4, <1>6, <1>7, <3>3, <3>5, <3>6, HeaderStays
    <3>8. QED
      <4>1. (SlotMapped(SubSeq(extents, 1, q[i]), s[i + 1]))' <=> SlotMapped(SubSeq(extents', 1, q[i]), s[i + 1])
        BY DEF SlotMapped
      <4>2. HeaderIn(extents, s[i])'.map = SubSeq(extents', q[i - 1] + 1, q[i])
            /\ SlotMapped(SubSeq(extents', 1, q[i]), s[i + 1])
            /\ HeaderIn(extents, s[i])'.ext = s[i + 1] /\ i < Len(s) /\ i # Len(s)
        BY <2>2, <3>1, <3>2, <3>7
      <4>3. QED
        BY <1>b, <3>7, <4>1, <4>2 DEF Linked
  <2>3. QED
    BY <2>1, <2>2
<1>15. call'.tail = s[m]
  BY <1>3, <1>4
<1>16. Chained(s, q)'
  BY <1>11, <1>12, <1>13, <1>14, <1>15 DEF Chained
<1>17. QED
  <2>1. q[m] = Len(extents') /\ q[m - 1] = p[m - 1]
    BY <1>4, <1>12
  <2>2. QED
    BY <1>7, <1>10, <1>16, <2>1

\* The last header is linked to the slot of the segment that the call will write.
LEMMA ChainLinked ==
  ASSUME HInv, growth # "overflowed", primary = HeaderIn(extents, IndexFileNumber),
         NEW s, NEW p, Chained(s, p), LinkSegment, call.newSegment
  PROVE  primary' = HeaderIn(extents, IndexFileNumber)' /\ Chained(s, p)' /\ extents' = extents
<1> PICK m, last : m = Len(s) /\ last = call.tail
  OBVIOUS
<1> PICK old : old = SessionHeader(last)
  OBVIOUS
<1>1. PICK seg \in FileNumbers :
          /\ FreeSlotWithin(seg, MappedBlocks(extents))
          /\ Rewrite(last, [old EXCEPT !.ext = seg])
          /\ used' = used \cup {seg}
          /\ call' = [call EXCEPT !.step = "segment", !.segment = seg]
  BY DEF LinkSegment
<1> PICK h : h = [old EXCEPT !.ext = seg]
  OBVIOUS
<1>2. /\ call.step = "place" /\ extents' = extents /\ seg \notin used
      /\ WriteHeader(last, h) /\ primary' = (IF last = IndexFileNumber THEN h ELSE primary)
  BY <1>1 DEF LinkSegment, FreeSlotWithin, FreeSlot, Rewrite
<1>3. \A n : SlotMapped(extents, n)' <=> SlotMapped(extents', n)
  BY DEF SlotMapped
<1>4. /\ call'.step = "segment" /\ call'.file = call.file /\ call'.segment = seg /\ call'.tail = last
      /\ call.segment = 0
  <2>1. call \in GoodCall /\ call.segment = 0
    BY <1>2, Known DEF Typed, Underway
  <2>2. QED
    BY <1>1, <2>1 DEF GoodCall
<1>5. /\ m \in Nat \ {0} /\ m \in 1 .. m /\ last = s[m]
      /\ last \in FileNumbers /\ SlotMapped(extents, last) /\ HeaderIn(extents, last) \in GoodHeader
      /\ HeaderIn(extents, last).owner = "index" /\ last \in used /\ last # call.file
      /\ HeaderIn(extents, last).map = SubSeq(extents, p[m - 1] + 1, p[m])
  <2>1. m \in Nat \ {0}
    BY ChainFacts
  <2>2. m \in 1 .. m
    BY <2>1
  <2>3. last = s[m] /\ Linked(s, p, m)
    BY <1>2, <2>2 DEF Chained
  <2>4. QED
    BY <1>4, <2>1, <2>2, <2>3, ChainFacts DEF Linked
<1>6. old = HeaderIn(extents, last)
  BY DEF SessionHeader
<1>7. Longer /\ extents \in Seq(GoodExtent) /\ Typed /\ Apart(extents) /\ Len(extents) \in Nat
  BY <1>2, AsLong, Known, Types
<1>8. h \in GoodHeader /\ h.owner = "index" /\ h.map = old.map /\ h.ext = seg
  BY <1>5, <1>6 DEF GoodHeader
<1>9. /\ HeaderIn(extents, last)' = h
      /\ \A n \in FileNumbers : SlotMapped(extents, n) =>
            /\ SlotMapped(extents', n)
            /\ n # last => HeaderIn(extents, n)' = HeaderIn(extents, n)
  BY <1>2, <1>5, <1>7, <1>8, WrittenSlot
<1>10. primary' = HeaderIn(extents, IndexFileNumber)'
  BY <1>2, <1>9, Known, Numbers
<1>11. /\ s \in Seq(FileNumbers) /\ s # <<>> /\ s[1] = IndexFileNumber
       /\ \A i, j \in 1 .. m : i # j => s[i] # s[j]
       /\ p \in [0 .. m -> 0 .. Len(extents)] /\ p[0] = 0 /\ p[m] = Len(extents)
       /\ \A i, j \in 0 .. m : i < j => p[i] < p[j]
  BY DEF Chained
<1>12. ASSUME NEW i \in 1 .. m PROVE Linked(s, p, i)'
  <2>1. s[i] \in FileNumbers /\ SlotMapped(extents, s[i]) /\ s[i] \in used /\ s[i] # call.file
    BY ChainFacts
  <2>2. CASE i = m
    <3>1. HeaderIn(extents, s[i])' = h
      BY <1>5, <1>9, <2>2 DEF HeaderIn
    <3>2. SlotMapped(extents', s[i])
      BY <1>9, <2>1
    <3>3. s[i] \in used' /\ s[i] # call'.file /\ s[i] # call'.segment
      BY <1>1, <1>2, <1>4, <2>1
    <3>4. h.map = SubSeq(extents', p[i - 1] + 1, p[i]) /\ i = Len(s) /\ h.ext = call'.segment
      BY <1>2, <1>4, <1>5, <1>6, <1>8, <2>2
    <3>5. QED
      BY <1>3, <1>8, <2>2, <3>1, <3>2, <3>3, <3>4 DEF Linked
  <2>3. CASE i # m
    <3>1. i < m /\ i \in 0 .. m
      BY <1>5, <2>3
    <3>2. p[i] \in 0 .. Len(extents)
      BY <1>11, <3>1
    <3>3. s[i] # last
      BY <1>5, <1>11, <2>3
    <3>4. HeaderIn(extents, s[i])' = HeaderIn(extents, s[i])
      BY <1>9, <2>1, <3>3
    <3>5. s[i] # call'.segment /\ used \subseteq used'
      BY <1>1, <1>2, <1>4, <2>1
    <3>6. /\ s[i] \in used' \ {call'.file, call'.segment} /\ SlotMapped(extents', s[i])
          /\ HeaderIn(extents, s[i])'.owner = "index"
          /\ HeaderIn(extents, s[i])'.map = SubSeq(extents', p[i - 1] + 1, p[i])
          /\ HeaderIn(extents, s[i])'.ext = (IF i = Len(s) THEN call.segment ELSE s[i + 1])
          /\ i < Len(s) => SlotMapped(SubSeq(extents', 1, p[i]), s[i + 1])
      <4>1. \A d \in 0 .. Len(extents) : \A b \in 0 .. d :
               SubSeq(extents', b + 1, d) = SubSeq(extents, b + 1, d)
        BY <1>2
      <4>2. p[i] <= Len(extents)
        BY <1>7, <3>2
      <4>3. QED
        BY <1>4, <1>7, <3>4, <3>5, <4>1, <4>2, HeaderStays
    <3>7. (SlotMapped(SubSeq(extents, 1, p[i]), s[i + 1]))' <=> SlotMapped(SubSeq(extents', 1, p[i]), s[i + 1])
      BY DEF SlotMapped
    <3>8. HeaderIn(extents, s[i])'.ext = s[i + 1] /\ i < Len(s) /\ i # Len(s)
          /\ SlotMapped(SubSeq(extents', 1, p[i]), s[i + 1])
      BY <2>3, <3>1, <3>6
    <3>9. QED
      BY <1>3, <3>6, <3>7, <3>8 DEF Linked
  <2>4. QED
    BY <2>2, <2>3
<1>13. call'.tail = s[m] /\ extents' = extents
  BY <1>2, <1>4, <1>5
<1>14. Chained(s, p)'
  BY <1>11, <1>12, <1>13 DEF Chained
<1>15. QED
  BY <1>10, <1>13, <1>14

\* The segment written is the last header, and maps the extent that was placed.
LEMMA ChainExtended ==
  ASSUME HInv, growth # "overflowed", primary = HeaderIn(extents, IndexFileNumber),
         NEW s, NEW p, Chained(s, p), WriteSegment
  PROVE  /\ primary' = HeaderIn(extents, IndexFileNumber)'
         /\ \E t, q : q[Len(t)] = q[Len(t) - 1] + 1 /\ q[Len(t) - 1] \in Nat /\ Chained(t, q)'
<1> PICK m, e, seg : m = Len(s) /\ e = Head(call.todo) /\ seg = call.segment
  OBVIOUS
<1> PICK h : h = IndexHeader(<<e>>, 0, 0)
  OBVIOUS
<1>1. /\ call.step = "segment" /\ WriteHeader(seg, h) /\ extents' = Append(extents, e)
      /\ call' = [call EXCEPT !.step = "place", !.todo = Tail(@), !.newSegment = FALSE,
                              !.tail = seg, !.segment = 0]
      /\ used' = used /\ primary' = primary
  BY DEF WriteSegment
<1>2. /\ call.todo # <<>> /\ seg \in used \ {call.file} /\ SlotMapped(extents, seg)
      /\ seg \in FileNumbers /\ seg # 0
  BY <1>1, Known, Types, Numbers DEF Underway
<1>3. \A n : SlotMapped(extents, n)' <=> SlotMapped(extents', n)
  BY DEF SlotMapped
<1>4. call'.step = "place" /\ call'.file = call.file /\ call'.segment = 0 /\ call'.tail = seg
  <2>1. call \in GoodCall
    BY Known DEF Typed
  <2>2. QED
    BY <1>1, <2>1 DEF GoodCall
<1>5. m \in Nat \ {0} /\ m \in 1 .. m /\ \A i \in 1 .. m : s[i] \in FileNumbers /\ s[i] # seg
  <2>1. m \in Nat \ {0} /\ \A i \in 1 .. m : s[i] \in FileNumbers /\ s[i] # seg
    BY ChainFacts
  <2>2. QED
    BY <2>1
<1>6. e \in GoodExtent /\ Longer /\ extents \in Seq(GoodExtent) /\ Typed /\ Apart(extents)
  BY <1>1, <1>2, ExtentPlaced, Known, Types
<1>7. /\ extents' \in Seq(GoodExtent) /\ Len(extents') = Len(extents) + 1 /\ Len(extents) \in Nat
      /\ <<e>> = SubSeq(extents', Len(extents) + 1, Len(extents) + 1)
      /\ \A d \in 0 .. Len(extents) : \A b \in 0 .. d : SubSeq(extents', b + 1, d) = SubSeq(extents, b + 1, d)
      /\ SubSeq(extents', 1, Len(extents)) = extents
  <2>1. PICK grown, n : grown = Append(extents, e) /\ n = Len(extents)
    OBVIOUS
  <2>2. /\ grown \in Seq(GoodExtent) /\ Len(grown) = n + 1 /\ grown[n + 1] = e /\ n \in Nat
        /\ \A i \in 1 .. n : grown[i] = extents[i]
    BY <1>6, <2>1, AppendProperties
  <2>3. <<e>> = SubSeq(grown, n + 1, n + 1)
    <3>1. /\ <<e>> \in Seq(GoodExtent) /\ Len(<<e>>) = n + 1 - n /\ n \in 0 .. Len(grown)
          /\ n + 1 \in n .. Len(grown) /\ \A i \in 1 .. n + 1 - n : <<e>>[i] = grown[n + i]
      BY <1>6, <2>2
    <3> PICK single, k : single = <<e>> /\ k = n + 1
      OBVIOUS
    <3>2. single = SubSeq(grown, n + 1, k)
      BY <2>2, <3>1, SamePart
    <3>3. QED
      BY <3>2
  <2>4. \A d \in 0 .. n : \A b \in 0 .. d : SubSeq(grown, b + 1, d) = SubSeq(extents, b + 1, d)
    <3>1. n \in 0 .. Len(extents) /\ n <= Len(grown)
      BY <2>1, <2>2
    <3>2. QED
      BY <1>6, <2>2, <3>1, PartsStay
  <2>5. SubSeq(grown, 1, n) = extents
    <3>1. n \in 0 .. n /\ 0 \in 0 .. n /\ 0 + 1 = 1
      BY <2>2
    <3>2. SubSeq(grown, 1, n) = SubSeq(extents, 1, n)
      BY <2>4, <3>1
    <3>3. SubSeq(extents, 1, n) = extents
      BY <1>6, <2>1
    <3>4. QED
      BY <3>2, <3>3
  <2>6. extents' = grown
    BY <1>1, <2>1
  <2>7. QED
    BY ONLY <2>1, <2>2, <2>3, <2>4, <2>5, <2>6
<1>8. h \in GoodHeader /\ h.owner = "index" /\ h.map = <<e>> /\ h.ext = 0
  <2>1. <<e>> \in Seq(GoodExtent) /\ Len(<<e>>) = 1
    BY <1>6
  <2>2. 1 * PointerWords <= MapWords
    BY MapHasRoom, Numbers
  <2>3. <<e>> \in GoodMap
    BY <2>1, <2>2 DEF GoodMap
  <2>4. QED
    BY <2>3 DEF IndexHeader, GoodHeader, Owners
<1>9. /\ HeaderIn(extents, seg)' = h
      /\ \A n \in FileNumbers : SlotMapped(extents, n) =>
            /\ SlotMapped(extents', n)
            /\ n # seg => HeaderIn(extents, n)' = HeaderIn(extents, n)
  BY <1>1, <1>2, <1>6, <1>8, WrittenSlot
<1>10. /\ s \in Seq(FileNumbers) /\ s # <<>> /\ s[1] = IndexFileNumber
       /\ \A i, j \in 1 .. m : i # j => s[i] # s[j]
       /\ p \in [0 .. m -> 0 .. Len(extents)] /\ p[0] = 0 /\ p[m] = Len(extents)
       /\ \A i, j \in 0 .. m : i < j => p[i] < p[j]
  BY DEF Chained
<1>11. 1 \in 1 .. m /\ seg # IndexFileNumber /\ primary' = HeaderIn(extents, IndexFileNumber)'
  <2>1. 1 \in 1 .. m
    BY <1>5
  <2>2. seg # IndexFileNumber
    BY <1>5, <1>10, <2>1
  <2>3. QED
    BY <1>1, <1>9, <2>1, <2>2, Known, Numbers
<1>a. PICK t : t = Append(s, seg)
  OBVIOUS
<1>b. PICK q : q = [k \in 0 .. m + 1 |-> IF k <= m THEN p[k] ELSE Len(extents')]
  OBVIOUS
<1>12. /\ t \in Seq(FileNumbers) /\ t # <<>> /\ Len(t) = m + 1 /\ t[m + 1] = seg
       /\ \A i \in 1 .. m : t[i] = s[i]
  BY <1>2, <1>10, <1>a, AppendProperties
<1>13. /\ q \in [0 .. m + 1 -> 0 .. Len(extents')] /\ q[m + 1] = Len(extents) + 1
       /\ \A i \in 0 .. m : q[i] = p[i]
  BY <1>5, <1>7, <1>10, <1>b
<1>14. \A i, j \in 1 .. m + 1 : i # j => t[i] # t[j]
  <2>1. \A i \in 1 .. m + 1 : i = m + 1 \/ i \in 1 .. m
    BY <1>5
  <2>2. QED
    BY <1>5, <1>10, <1>12, <2>1
<1>15. \A i, j \in 0 .. m + 1 : i < j => q[i] < q[j]
  <2>1. TAKE i, j \in 0 .. m + 1
  <2>2. HAVE i < j
  <2>3. i \in 0 .. m /\ p[i] \in 0 .. Len(extents) /\ q[i] = p[i]
    BY <1>5, <1>10, <1>13, <2>2
  <2>4. CASE j = m + 1
    BY <1>7, <1>13, <2>3, <2>4
  <2>5. CASE j # m + 1
    <3>1. j \in 0 .. m
      BY <1>5, <2>5
    <3>2. QED
      BY <1>10, <1>13, <2>2, <2>3, <3>1
  <2>6. QED
    BY <2>4, <2>5
<1>16. ASSUME NEW i \in 1 .. m + 1 PROVE Linked(t, q, i)'
  <2>1. CASE i = m + 1
    <3>1. HeaderIn(extents, t[i])' = h
      BY <1>9, <1>12, <2>1 DEF HeaderIn
    <3>2. q[i] = Len(extents) + 1 /\ q[i - 1] = Len(extents) /\ t[i] = seg /\ i = Len(t)
      BY <1>5, <1>10, <1>12, <1>13, <2>1
    <3>3. SlotMapped(extents', t[i])
      BY <1>2, <1>9, <3>2
    <3>4. t[i] \in used' /\ t[i] # call'.file /\ t[i] # call'.segment
      BY <1>1, <1>2, <1>4, <3>2
    <3>5. h.map = SubSeq(extents', q[i - 1] + 1, q[i]) /\ h.ext = call'.segment
      BY <1>4, <1>7, <1>8, <3>2
    <3>6. ~(i < Len(t))
      BY <1>5, <3>2
    <3>7. QED
      BY <1>3, <1>8, <3>1, <3>2, <3>3, <3>4, <3>5, <3>6 DEF Linked
  <2>2. CASE i # m + 1
    <3>1. i \in 1 .. m /\ i \in 0 .. m /\ i - 1 \in 0 .. m /\ i < Len(t) /\ i # Len(t)
      BY <1>5, <1>12, <2>2
    <3>2. /\ s[i] \in FileNumbers /\ s[i] # seg /\ SlotMapped(extents, s[i]) /\ t[i] = s[i]
          /\ q[i] = p[i] /\ q[i - 1] = p[i - 1] /\ p[i] <= Len(extents)
      BY <1>5, <1>12, <1>13, <3>1, ChainFacts
    <3>3. HeaderIn(extents, s[i])' = HeaderIn(extents, s[i])
      BY <1>9, <3>2
    <3>4. s[i] # call'.segment
      BY <1>4, <3>2, Numbers
    <3>5. /\ s[i] \in used' \ {call'.file, call'.segment} /\ SlotMapped(extents', s[i])
          /\ HeaderIn(extents, s[i])'.owner = "index"
          /\ HeaderIn(extents, s[i])'.map = SubSeq(extents', p[i - 1] + 1, p[i])
          /\ HeaderIn(extents, s[i])'.ext = (IF i = Len(s) THEN call.segment ELSE s[i + 1])
          /\ i < Len(s) => SlotMapped(SubSeq(extents', 1, p[i]), s[i + 1])
      BY <1>1, <1>4, <1>6, <1>7, <3>1, <3>2, <3>3, <3>4, HeaderStays
    <3>6. (SlotMapped(SubSeq(extents, 1, q[i]), t[i + 1]))' <=> SlotMapped(SubSeq(extents', 1, q[i]), t[i + 1])
      BY DEF SlotMapped
    <3>7. HeaderIn(extents, t[i])' = HeaderIn(extents, s[i])'
      BY <3>2 DEF HeaderIn
    <3>8. HeaderIn(extents, s[i])'.ext = t[i + 1] /\ SlotMapped(SubSeq(extents', 1, q[i]), t[i + 1])
      <4>1. CASE i = m
        <5>1. SubSeq(extents', 1, q[i]) = extents /\ t[i + 1] = seg
          BY <1>7, <1>10, <1>12, <3>2, <4>1
        <5>2. QED
          BY <1>2, <3>5, <4>1, <5>1
      <4>2. CASE i # m
        <5>1. i < Len(s) /\ i # Len(s) /\ i + 1 \in 1 .. m
          BY <1>5, <3>1, <4>2
        <5>2. t[i + 1] = s[i + 1]
          BY <1>12, <5>1
        <5>3. QED
          BY <3>2, <3>5, <5>1, <5>2
      <4>3. QED
        BY <4>1, <4>2
    <3>9. QED
      BY <1>3, <3>1, <3>2, <3>5, <3>6, <3>7, <3>8 DEF Linked
  <2>3. QED
    BY <2>1, <2>2
<1>17. t[1] = IndexFileNumber /\ q[0] = 0 /\ call'.tail = t[m + 1] /\ q[m + 1] = Len(extents')
  BY <1>4, <1>5, <1>7, <1>10, <1>11, <1>12, <1>13
<1>18. Chained(t, q)'
  BY <1>12, <1>13, <1>14, <1>15, <1>16, <1>17 DEF Chained
<1>19. q[Len(t)] = q[Len(t) - 1] + 1 /\ q[Len(t) - 1] \in Nat
  <2>1. Len(t) - 1 = m /\ m \in 0 .. m
    BY <1>5, <1>12
  <2>2. q[m] = Len(extents) /\ q[m + 1] = Len(extents) + 1
    BY <1>10, <1>13, <2>1
  <2>3. QED
    BY <1>7, <1>12, <2>1, <2>2
<1>20. QED
  BY <1>11, <1>18, <1>19

\* At first the primary header is the only one, and maps all there is.
LEMMA FirstChain ==
  ASSUME Init
  PROVE  /\ primary = HeaderIn(extents, IndexFileNumber)
         /\ Chained(<<IndexFileNumber>>, [k \in 0 .. 1 |-> k])
<1> PICK s, p : s = <<IndexFileNumber>> /\ p = [k \in 0 .. 1 |-> k]
  OBVIOUS
<1>1. HInv /\ extents = FirstExtents /\ primary = FirstPrimary /\ call = NoCall
      /\ block = [c \in Clusters |-> FirstBlock(c)]
  BY InitHolds DEF Init
<1>2. /\ Lbn(extents, HeaderVbn(IndexFileNumber)) = PrimaryLbn /\ IndexFileNumber \in FileNumbers
      /\ SlotMapped(extents, IndexFileNumber) /\ IndexFileNumber \in used
  BY <1>1, Known, PrimarySlot, Numbers
<1>3. PrimaryLbn \in Clusters
  BY <1>1, <1>2, Known, SlotFacts
<1>4. HeaderIn(extents, IndexFileNumber) = FirstPrimary
  <2>1. HeaderIn(extents, IndexFileNumber) = block[PrimaryLbn]
    BY <1>2 DEF HeaderIn
  <2>2. block[PrimaryLbn] = FirstBlock(PrimaryLbn)
    BY <1>1, <1>3
  <2>3. FirstBlock(PrimaryLbn) = FirstPrimary
    BY DEF FirstBlock
  <2>4. QED
    BY <2>1, <2>2, <2>3
<1>5. FirstPrimary.owner = "index" /\ FirstPrimary.map = FirstExtents /\ FirstPrimary.ext = 0
  BY DEF FirstPrimary, IndexHeader
<1>6. /\ Len(extents) = 1 /\ SubSeq(extents, 1, 1) = extents
  BY <1>1, FirstMap
<1>7. s \in Seq(FileNumbers) /\ s # <<>> /\ s[1] = IndexFileNumber /\ Len(s) = 1
  BY <1>2
<1>8. p \in [0 .. 1 -> 0 .. 1] /\ p[0] = 0 /\ p[1] = 1
  OBVIOUS
<1>9. IndexFileNumber # call.file /\ IndexFileNumber # call.segment
      /\ call.segment = 0 /\ call.step \notin {"place", "segment"}
  BY <1>1, <1>2, NoCallFacts, Numbers
<1>10. Linked(s, p, 1)
  <2>1. p[1 - 1] + 1 = 1
    BY <1>8
  <2>2. HeaderIn(extents, s[1]).map = SubSeq(extents, p[1 - 1] + 1, p[1])
    BY <1>1, <1>4, <1>5, <1>6, <1>7, <1>8, <2>1
  <2>3. QED
    BY <1>2, <1>4, <1>5, <1>7, <1>9, <2>2 DEF Linked
<1>11. \A i \in 1 .. 1 : i = 1
  OBVIOUS
<1>12. \A i, j \in 0 .. 1 : i < j => p[i] < p[j]
  BY <1>8
<1>13. Chained(s, p)
  BY <1>6, <1>7, <1>8, <1>9, <1>10, <1>11, <1>12 DEF Chained
<1>14. QED
  BY <1>1, <1>4, <1>13

\* A step that leaves no growth overflowed follows one that left none.
LEMMA NotOverflowed ==
  ASSUME [Next]_vars, growth' # "overflowed"
  PROVE  growth # "overflowed" /\ (Quiet \/ PlacePointer \/ (LinkSegment /\ call.newSegment) \/ WriteSegment)
<1>1. Quiet \/ PlacePointer \/ LinkSegment \/ WriteSegment
  BY DEF Next, Quiet
<1>2. LinkSegment => call.newSegment /\ growth' = growth
  BY DEF LinkSegment
<1>3. PlacePointer \/ WriteSegment => growth' = growth
  BY DEF PlacePointer, WriteSegment
<1>4. ASSUME Quiet PROVE growth' = growth \/ growth # "overflowed"
  <2>1. ASSUME Unplanned PROVE growth # "overflowed"
    BY <2>1 DEF Unplanned
  <2>2. CASE Allocate \/ NoSpace \/ NoSlot
    BY <2>1, <2>2 DEF Allocate, NoSpace, NoSlot
  <2>3. CASE RecordHighest \/ ZeroNewBlocks \/ RecordSize \/ WriteNewHeader \/ UNCHANGED vars
    BY <2>3 DEF RecordHighest, ZeroNewBlocks, RecordSize, WriteNewHeader, vars
  <2>4. CASE \E n \in FileNumbers : MakeHeader(n) \/ Grow(n) \/ FreeHeader(n)
    BY <2>4 DEF MakeHeader, Grow, FreeHeader
  <2>5. CASE \E c \in Clusters : TakeCluster(c) \/ FreeCluster(c)
    BY <2>5 DEF TakeCluster, FreeCluster
  <2>6. QED
    BY <1>4, <2>2, <2>3, <2>4, <2>5 DEF Quiet
<1>5. QED
  BY <1>1, <1>2, <1>3, <1>4

\* Every step keeps the chain.
LEMMA ChainStep ==
  ASSUME HInv, ChainWhole, growth # "overflowed",
         Quiet \/ PlacePointer \/ (LinkSegment /\ call.newSegment) \/ WriteSegment
  PROVE  ChainWhole'
<1>1. PICK s, p : Chained(s, p)
  BY DEF ChainWhole
<1>2. primary = HeaderIn(extents, IndexFileNumber)
  BY DEF ChainWhole
<1>3. CASE Quiet
  BY <1>1, <1>2, <1>3, ChainKept DEF ChainWhole
<1>4. CASE PlacePointer
  BY <1>1, <1>2, <1>4, ChainPlaced DEF ChainWhole
<1>5. CASE LinkSegment /\ call.newSegment
  BY <1>1, <1>2, <1>5, ChainLinked DEF ChainWhole
<1>6. CASE WriteSegment
  BY <1>1, <1>2, <1>6, ChainExtended DEF ChainWhole
<1>7. QED
  BY <1>3, <1>4, <1>5, <1>6

\* Whatever write a crash interrupts, a mount finds the index file the session has,
\* unless a growth in several extents went over the end of a header's map: by every
\* step the chain of headers that mount follows is whole (growIndexFile, extend,
\* linkNewExtensionSegment and bootstrapIndexFile of volume).
THEOREM MountAlwaysFinds == Spec => []OnlyOverflowBreaksChain
<1>1. Init => CInv
  BY InitHolds, FirstChain DEF CInv, ChainWhole
<1>2. CInv /\ [Next]_vars => CInv'
  <2> SUFFICES ASSUME CInv, [Next]_vars PROVE CInv'
    OBVIOUS
  <2>1. HInv /\ HInv'
    BY StepKeeps DEF CInv
  <2>2. ASSUME growth' # "overflowed" PROVE ChainWhole'
    BY <2>1, <2>2, NotOverflowed, ChainStep DEF CInv
  <2>3. QED
    BY <2>1, <2>2 DEF CInv
<1>3. CInv => OnlyOverflowBreaksChain
  <2> SUFFICES ASSUME CInv, growth # "overflowed", call.step # "segment" PROVE MountFinds(extents)
    BY DEF OnlyOverflowBreaksChain, MountFindsIndexFile
  <2>1. HInv /\ ChainWhole
    BY DEF CInv
  <2>2. call.segment = 0
    BY <2>1, Known DEF Underway
  <2>3. QED
    BY <2>1, <2>2, MountFollowsChain DEF ChainWhole
<1>4. QED
  BY <1>1, <1>2, <1>3, PTL DEF Spec

-----------------------------------------------------------------------------
(* Room to grow.                                                           *)

\* Room for some pointers is room for fewer, and the last header of two has some.
LEMMA RoomForFewer ==
  ASSUME NEW k \in Nat, NEW n \in Nat, NEW j \in Nat, NEW i \in Nat, j + i <= k + n
  PROVE  RoomFor(k, n) => RoomFor(j, i)
<1> PICK words, max, a, b : words = PointerWords /\ max = MapWords /\ a = j + i /\ b = k + n
  OBVIOUS
<1>1. words \in Nat \ {0} /\ max \in Nat /\ a \in Int /\ b \in Int /\ a <= b
  BY Numbers
<1>2. a * words <= b * words
  BY ONLY <1>1, ProductsAreOrdered
<1>3. a * words \in Int /\ b * words \in Int
  BY ONLY <1>1
<1>4. b * words <= max => a * words <= max
  BY ONLY <1>1, <1>2, <1>3
<1>5. QED
  BY <1>4 DEF RoomFor

\* What PointerRoom and MapFits say of pointers of this volume's width.
LEMMA PointersHaveRoom ==
  ASSUME NEW h, NEW k \in Nat, Len(h.map) = k, PointerRoom(h, 2)
  PROVE  RoomFor(k, 2)
<1> PICK words, widest, max : words = PointerWords /\ widest = WidestPointer /\ max = MapWords
  OBVIOUS
<1>1. words \in Nat \ {0} /\ widest \in Nat /\ max \in Nat /\ words <= widest
  BY Numbers, MapHasRoom
<1>2. k * words + 2 * widest <= max
  BY DEF PointerRoom
<1>3. (k + 2) * words <= max
  <2>1. (k + 2) * words = k * words + 2 * words
    BY ONLY <1>1, k \in Nat
  <2>2. k * words \in Nat
    BY ONLY <1>1, k \in Nat
  <2>3. QED
    BY ONLY <1>1, <1>2, <2>1, <2>2
<1>4. QED
  BY <1>3 DEF RoomFor

\* Between growths, room for a pointer is all there has to be.
LEMMA IdleRoom ==
  ASSUME NEW k, RoomFor(k, 1), call'.step \in {"none", "header"}, ~call'.newSegment
  PROVE  RoomLeft(k)'
BY DEF RoomLeft, RoomFor, Growing

\* No extents have no blocks.
LEMMA NothingMapped == Claimed(<<>>) = {} /\ MappedBlocks(<<>>) = 0
BY FS_EmptySet DEF MappedBlocks, Claimed

\* A step that changes nothing that clusters depend on loses none.
LEMMA SameSpace ==
  ASSUME NothingUnrecorded, free' = free, files' = files, extents' = extents, call'.todo = call.todo
  PROVE  NothingUnrecorded'
BY DEF NothingUnrecorded, Claimed

\* A growth begins, as ensureHeaderSlot reckons.
LEMMA GrowthPlanned ==
  ASSUME HInv, NothingUnrecorded, NEW k \in Nat, RoomLeft(k), TailSlot # 0,
         Len(LastHeader.map) = k, NEW n \in FileNumbers, Grow(n)
  PROVE  NothingUnrecorded' /\ RoomLeft(k)'
<1> PICK have, tail : have = MappedBlocks(extents) /\ tail = SessionHeader(TailSlot)
  OBVIOUS
<1> PICK grow : grow = GrowthFor(n, have, tail)
  OBVIOUS
<1>1. /\ call = NoCall /\ FreeSlot(n) /\ ~SlotMapped(extents, n)
      /\ used' = used \cup {n}
      /\ call' = [NoCall EXCEPT !.step = "extend", !.file = n, !.have = have,
                                !.blocks = grow.now, !.more = grow.later]
      /\ free' = free /\ files' = files /\ extents' = extents
  BY DEF Grow
<1>2. /\ call'.step = "extend" /\ call'.file = n /\ call'.have = have /\ call'.blocks = grow.now
      /\ call'.more = grow.later /\ ~call'.newSegment /\ call'.todo = <<>>
  BY <1>1 DEF NoCall
<1>3. have \in Nat /\ have < HeaderVbn(n) /\ FirstInPlace /\ HeaderVbn(n) \in Nat
  BY <1>1, Known, Types, Numbers DEF SlotMapped
<1>4. /\ grow.now \in Nat /\ grow.later \in Nat
      /\ grow.later > 0 => have + grow.now = HeaderVbn(n) + 1
      /\ grow.later = 0 <=> PointerRoom(tail, 2)
  BY <1>3, GrowthFacts
<1>5. RoomFor(k, 1) /\ (grow.later = 0 => RoomFor(k, 2))
  <2>1. RoomFor(k, 1)
    BY <1>1, NoCallFacts DEF RoomLeft, Growing
  <2>2. ASSUME grow.later = 0 PROVE RoomFor(k, 2)
    BY <1>4, <2>2, PointersHaveRoom DEF LastHeader
  <2>3. QED
    BY <2>1, <2>2
<1>6. \A j \in FileNumbers : j < n => j \in used
  <2>1. TAKE j \in FileNumbers
  <2>2. HAVE j < n
  <2>3. j \in Nat /\ j > 0 /\ n \in Nat /\ ReservedFiles \in Nat
    BY Numbers
  <2>4. j \in 1 .. ReservedFiles => j \in used
    BY <1>3 DEF FirstInPlace
  <2>5. j \in FileNumbers \ used /\ j > ReservedFiles => n <= j
    BY <1>1 DEF FreeSlot
  <2>6. QED
    BY <2>2, <2>3, <2>4, <2>5
<1>7. MappedBlocks(<<>>) = 0
  BY NothingMapped
<1>8. NothingUnrecorded'
  BY <1>1, <1>2, NoCallFacts, SameSpace
<1>9. /\ MappedBlocks(extents)' = have /\ MappedBlocks(call.todo)' = 0 /\ Growing'
  BY <1>1, <1>2, <1>7 DEF Growing, MappedBlocks
<1>10. grow.later > 0 => call'.have < HeaderVbn(call'.file)
          /\ HeaderVbn(call'.file) + 1 = MappedBlocks(extents)' + MappedBlocks(call.todo)' + call'.blocks
  BY <1>2, <1>3, <1>4, <1>9
<1>11. RoomFor(k, IF call'.more = 0 THEN 2 ELSE 1) /\ \A j \in FileNumbers : j < call'.file => j \in used'
  BY <1>1, <1>2, <1>5, <1>6
<1>12. QED
  BY <1>2, <1>8, <1>9, <1>10, <1>11 DEF RoomLeft, RoomFor

\* It takes one extent.
LEMMA AllocationPlanned ==
  ASSUME HInv, NothingUnrecorded, NEW k \in Nat, RoomLeft(k), TailSlot # 0, Allocate,
         growth = "planned", growth' = "planned"
  PROVE  NothingUnrecorded' /\ RoomLeft(k)'
<1>1. PICK exts \in Allocations(free, call.blocks) :
          /\ free' = free \ Taken(exts)
          /\ call' = [call EXCEPT !.step = "place", !.todo = exts, !.tail = TailSlot]
          /\ used' = used /\ ~(Len(exts) > 1)
  BY DEF Allocate, Unplanned
<1>2. call.step = "extend" /\ files' = files /\ extents' = extents
  BY DEF Allocate
<1>3. /\ Typed /\ Underway /\ Growing /\ call.blocks \in Nat \ {0}
      /\ call.todo = <<>> /\ free \subseteq Clusters /\ (call.newSegment => call.more = 0)
  BY <1>2, Known, Types DEF Underway, Growing, Typed
<1>4. IsAllocation(free, call.blocks, exts)
  BY <1>1 DEF Allocations
<1>5. /\ exts \in Seq(GoodExtent) /\ exts # <<>>
      /\ \A i \in DOMAIN exts : ClustersOf(exts[i]) \subseteq free
  BY <1>3, <1>4, AllocationIsFree
<1>6. Taken(exts) = Claimed(exts)
  BY <1>5 DEF Taken, TakenBefore, Claimed
<1>7. Claimed(exts) \subseteq free /\ MappedBlocks(exts) = call.blocks /\ Len(exts) = 1
  <2>1. Claimed(exts) \subseteq free /\ MappedBlocks(exts) = call.blocks
    BY <1>4, <1>5, <1>6 DEF Claimed, MappedBlocks, IsAllocation
  <2>2. Len(exts) \in Nat /\ Len(exts) # 0
    BY <1>5
  <2>3. ~(Len(exts) > 1)
    BY <1>1
  <2>4. Len(exts) = 1
    <3>1. \A len \in Nat : len # 0 /\ ~(len > 1) => len = 1
      OBVIOUS
    <3>2. QED
      BY ONLY <2>2, <2>3, <3>1, Zenon
  <2>5. QED
    BY <2>1, <2>4
<1>8. /\ call'.step = "place" /\ call'.todo = exts /\ call'.file = call.file /\ call'.have = call.have
      /\ call'.newSegment = call.newSegment /\ call'.more = call.more
  <2>1. call \in GoodCall
    BY <1>3 DEF Typed
  <2>2. QED
    BY <1>1, <2>1 DEF GoodCall
<1>9. Claimed(<<>>) = {} /\ MappedBlocks(<<>>) = 0
  BY NothingMapped
<1>10. NothingUnrecorded'
  <2>1. free \cup files \cup Claimed(extents) = Clusters
    BY <1>3, <1>9 DEF NothingUnrecorded
  <2>2. Claimed(extents)' = Claimed(extents) /\ Claimed(call.todo)' = Claimed(exts)
    BY <1>2, <1>8 DEF Claimed
  <2>3. QED
    BY <1>1, <1>2, <1>6, <1>7, <2>1, <2>2 DEF NothingUnrecorded
<1>11. Growing' /\ MappedBlocks(extents)' = MappedBlocks(extents) /\ MappedBlocks(call.todo)' = call.blocks
  BY <1>2, <1>7, <1>8 DEF Growing, MappedBlocks, Claimed
<1>12. /\ call.more > 0 =>
             /\ call.have < HeaderVbn(call.file)
             /\ HeaderVbn(call.file) + 1 = MappedBlocks(extents) + 0 + call.blocks
       /\ \A j \in FileNumbers : j < call.file => j \in used
       /\ ~call.newSegment => RoomFor(k, 1 + IF call.more = 0 THEN 1 ELSE 0)
       /\ call.newSegment /\ call.file # MaxFiles =>
             call.file + 1 \notin used /\ HeaderVbn(call.file + 1) <= call.have
  <2>1. ~call.newSegment => RoomFor(k, IF call.more = 0 THEN 2 ELSE 1)
    BY <1>2 DEF RoomLeft
  <2>2. 1 + (IF call.more = 0 THEN 1 ELSE 0) = IF call.more = 0 THEN 2 ELSE 1
    OBVIOUS
  <2>3. QED
    BY <1>2, <1>3, <1>9, <2>1, <2>2 DEF RoomLeft
<1>13. call.more > 0 =>
          HeaderVbn(call.file) + 1 = MappedBlocks(extents)' + MappedBlocks(call.todo)' + 0
  BY <1>3, <1>11, <1>12, Types
<1>14. /\ Len(call'.todo) = 1
       /\ ~call'.newSegment => RoomFor(k, Len(call'.todo) + IF call'.more = 0 THEN 1 ELSE 0)
       /\ \A j \in FileNumbers : j < call'.file => j \in used'
       /\ call'.more > 0 =>
             /\ call'.have < HeaderVbn(call'.file)
             /\ HeaderVbn(call'.file) + 1 = MappedBlocks(extents)' + MappedBlocks(call.todo)' + 0
       /\ call'.newSegment /\ call'.file # MaxFiles =>
             call'.file + 1 \notin used' /\ HeaderVbn(call'.file + 1) <= call'.have
  <2>1. /\ Len(call'.todo) = 1
        /\ ~call'.newSegment => RoomFor(k, Len(call'.todo) + IF call'.more = 0 THEN 1 ELSE 0)
    BY <1>7, <1>8, <1>12
  <2>2. \A j \in FileNumbers : j < call'.file => j \in used'
    BY <1>1, <1>8, <1>12
  <2>3. call'.more > 0 =>
           /\ call'.have < HeaderVbn(call'.file)
           /\ HeaderVbn(call'.file) + 1 = MappedBlocks(extents)' + MappedBlocks(call.todo)' + 0
    BY <1>8, <1>12, <1>13
  <2>4. call'.newSegment /\ call'.file # MaxFiles =>
             call'.file + 1 \notin used' /\ HeaderVbn(call'.file + 1) <= call'.have
    BY <1>1, <1>8, <1>12
  <2>5. QED
    BY <2>1, <2>2, <2>3, <2>4
<1>15. QED
  BY <1>8, <1>10, <1>11, <1>14 DEF RoomLeft, RoomFor

\* The pointer for it fits, and leaves as much room as there was to be.
LEMMA PlacementPlanned ==
  ASSUME HInv, NothingUnrecorded, NEW k \in Nat, RoomLeft(k), PlacePointer,
         NEW j \in Nat, j <= k + 1
  PROVE  NothingUnrecorded' /\ RoomLeft(j)'
<1> PICK e : e = Head(call.todo)
  OBVIOUS
<1>1. /\ call.step = "place" /\ call.todo # <<>> /\ ~call.newSegment
      /\ extents' = AddExtent(extents, e) /\ call' = [call EXCEPT !.todo = Tail(@)]
      /\ free' = free /\ files' = files /\ used' = used
  BY DEF PlacePointer, TailHasRoom
<1>2. /\ Claimed(extents') \cup Claimed(Tail(call.todo)) = Claimed(extents) \cup Claimed(call.todo)
      /\ MappedBlocks(extents') + MappedBlocks(Tail(call.todo))
               = MappedBlocks(extents) + MappedBlocks(call.todo)
      /\ MappedBlocks(extents') \in Nat /\ MappedBlocks(Tail(call.todo)) \in Nat
  BY <1>1, ExtentPlaced
<1>3. /\ call'.todo = Tail(call.todo) /\ call'.step = "place" /\ call'.file = call.file
      /\ call'.have = call.have /\ call'.more = call.more /\ ~call'.newSegment
  <2>1. call \in GoodCall
    BY Known DEF Typed
  <2>2. QED
    BY <1>1, <2>1 DEF GoodCall
<1>4. Len(call.todo) = 1 /\ Len(Tail(call.todo)) = 0
  <2>1. call.todo \in Seq(GoodExtent)
    BY Known, Types
  <2>2. Len(call.todo) \in Nat /\ Len(call.todo) # 0
    BY <1>1, <2>1
  <2>3. Len(call.todo) <= 1
    BY <1>1 DEF RoomLeft
  <2>4. Len(call.todo) = 1
    <3>1. \A len \in Nat : len # 0 /\ len <= 1 => len = 1
      OBVIOUS
    <3>2. QED
      BY ONLY <2>2, <2>3, <3>1, Zenon
  <2>5. QED
    BY <1>1, <2>1, <2>4
<1>5. RoomFor(j, 0 + IF call.more = 0 THEN 1 ELSE 0)
  <2>1. RoomFor(k, 1 + IF call.more = 0 THEN 1 ELSE 0)
    BY <1>1, <1>4 DEF RoomLeft
  <2>2. CASE call.more = 0
    <3>1. RoomFor(k, 2)
      BY <2>1, <2>2
    <3>2. RoomFor(j, 1)
      BY <3>1, RoomForFewer
    <3>3. QED
      BY <2>2, <3>2
  <2>3. CASE call.more # 0
    <3>1. RoomFor(k, 1)
      BY <2>1, <2>3
    <3>2. RoomFor(j, 0)
      BY <3>1, RoomForFewer
    <3>3. QED
      BY <2>3, <3>2
  <2>4. QED
    BY <2>2, <2>3
<1>6. NothingUnrecorded'
  <2>1. Claimed(extents)' = Claimed(extents') /\ Claimed(call.todo)' = Claimed(Tail(call.todo))
    BY <1>3 DEF Claimed
  <2>2. QED
    BY <1>1, <1>2, <2>1 DEF NothingUnrecorded
<1>7. /\ \A n \in FileNumbers : n < call.file => n \in used
      /\ call.more > 0 =>
          /\ call.have < HeaderVbn(call.file)
          /\ HeaderVbn(call.file) + 1 = MappedBlocks(extents) + MappedBlocks(call.todo) + 0
  BY <1>1 DEF RoomLeft, Growing
<1>8. Growing' /\ MappedBlocks(extents)' = MappedBlocks(extents')
      /\ MappedBlocks(call.todo)' = MappedBlocks(Tail(call.todo))
  BY <1>3 DEF Growing, MappedBlocks, Claimed
<1>9. /\ Len(call'.todo) = 0
      /\ RoomFor(j, Len(call'.todo) + IF call'.more = 0 THEN 1 ELSE 0)
      /\ \A n \in FileNumbers : n < call'.file => n \in used'
      /\ call'.more > 0 =>
          /\ call'.have < HeaderVbn(call'.file)
          /\ HeaderVbn(call'.file) + 1 = MappedBlocks(extents)' + MappedBlocks(call.todo)' + 0
  <2>1. Len(call'.todo) = 0 /\ RoomFor(j, Len(call'.todo) + IF call'.more = 0 THEN 1 ELSE 0)
    BY <1>3, <1>4, <1>5
  <2>2. \A n \in FileNumbers : n < call'.file => n \in used'
    BY <1>1, <1>3, <1>7
  <2>3. call'.more > 0 =>
          /\ call'.have < HeaderVbn(call'.file)
          /\ HeaderVbn(call'.file) + 1 = MappedBlocks(extents)' + MappedBlocks(call.todo)' + 0
    BY <1>2, <1>3, <1>7, <1>8
  <2>4. QED
    BY <2>1, <2>2, <2>3
<1>10. Len(call'.todo) <= 1 /\ (RoomFor(j, Len(call.todo) + IF call.more = 0 THEN 1 ELSE 0))'
  BY <1>9 DEF RoomFor
<1>11. QED
  BY <1>3, <1>6, <1>8, <1>9, <1>10 DEF RoomLeft

\* A segment is only linked for a second growth.
LEMMA LinkPlanned ==
  ASSUME HInv, NothingUnrecorded, NEW k \in Nat, RoomLeft(k), LinkSegment, call.newSegment
  PROVE  NothingUnrecorded' /\ RoomLeft(k)'
<1>1. PICK seg \in FileNumbers :
         used' = used \cup {seg} /\ call' = [call EXCEPT !.step = "segment", !.segment = seg]
  BY DEF LinkSegment
<1>2. call.step = "place" /\ free' = free /\ files' = files /\ extents' = extents
  BY DEF LinkSegment
<1>3. /\ call'.step = "segment" /\ call'.todo = call.todo /\ call'.file = call.file
      /\ call'.more = call.more /\ call'.newSegment = TRUE
  <2>1. call \in GoodCall
    BY Known DEF Typed
  <2>2. call'.newSegment = call.newSegment /\ call'.step = "segment" /\ call'.todo = call.todo
        /\ call'.file = call.file /\ call'.more = call.more
    BY <1>1, <2>1 DEF GoodCall
  <2>3. call.newSegment = TRUE
    BY <2>1, Types, Known
  <2>4. QED
    BY <2>2, <2>3
<1>4. call.more = 0 /\ Len(call.todo) = 1 /\ \A n \in FileNumbers : n < call.file => n \in used
  BY <1>2, Known DEF Underway, RoomLeft, Growing
<1>5. NothingUnrecorded'
  BY <1>2, <1>3, SameSpace
<1>6. Growing' /\ Len(call'.todo) = 1 /\ call'.more = 0 /\ \A n \in FileNumbers : n < call'.file => n \in used'
  BY <1>1, <1>3, <1>4 DEF Growing
<1>7. QED
  BY <1>3, <1>5, <1>6 DEF RoomLeft, RoomFor

\* The segment is the last header, and has room for a pointer more.
LEMMA SegmentPlanned ==
  ASSUME HInv, NothingUnrecorded, NEW k \in Nat, RoomLeft(k), WriteSegment
  PROVE  NothingUnrecorded' /\ RoomLeft(1)'
<1> PICK e : e = Head(call.todo)
  OBVIOUS
<1>1. /\ call.step = "segment" /\ extents' = Append(extents, e)
      /\ call' = [call EXCEPT !.step = "place", !.todo = Tail(@), !.newSegment = FALSE,
                              !.tail = call.segment, !.segment = 0]
      /\ free' = free /\ files' = files /\ used' = used
  BY DEF WriteSegment
<1>2. /\ call.newSegment /\ Len(call.todo) = 1 /\ call.more = 0 /\ call.todo \in Seq(GoodExtent)
      /\ call.todo # <<>> /\ \A n \in FileNumbers : n < call.file => n \in used
  BY <1>1, Known, Types DEF RoomLeft, Underway, Growing
<1>3. Claimed(extents') \cup Claimed(Tail(call.todo)) = Claimed(extents) \cup Claimed(call.todo)
  BY <1>1, <1>2, ExtentPlaced
<1>4. /\ call'.step = "place" /\ call'.todo = Tail(call.todo) /\ call'.file = call.file
      /\ call'.more = 0 /\ ~call'.newSegment
  <2>1. call \in GoodCall
    BY Known DEF Typed
  <2>2. QED
    BY <1>1, <1>2, <2>1 DEF GoodCall
<1>5. Len(call'.todo) = 0
  BY <1>2, <1>4
<1>6. RoomFor(1, 1)
  BY MapHasRoom DEF RoomFor
<1>7. NothingUnrecorded'
  <2>1. Claimed(extents)' = Claimed(extents') /\ Claimed(call.todo)' = Claimed(Tail(call.todo))
    BY <1>4 DEF Claimed
  <2>2. QED
    BY <1>1, <1>3, <2>1 DEF NothingUnrecorded
<1>8. /\ RoomFor(1, Len(call'.todo) + IF call'.more = 0 THEN 1 ELSE 0)
      /\ \A n \in FileNumbers : n < call'.file => n \in used'
  <2>1. 0 + (IF call'.more = 0 THEN 1 ELSE 0) = 1
    BY <1>4
  <2>2. QED
    BY <1>1, <1>2, <1>4, <1>5, <1>6, <2>1
<1>9. /\ Len(call'.todo) <= 1 /\ (RoomFor(1, Len(call.todo) + IF call.more = 0 THEN 1 ELSE 0))'
      /\ Growing'
  <2>1. (RoomFor(1, Len(call.todo) + IF call.more = 0 THEN 1 ELSE 0))'
    BY <1>8, Zenon DEF RoomFor
  <2>2. Len(call'.todo) <= 1
    BY ONLY <1>5
  <2>3. Growing'
    BY <1>4 DEF Growing
  <2>4. QED
    BY ONLY <2>1, <2>2, <2>3, Zenon
<1>10. QED
  BY <1>4, <1>7, <1>8, <1>9 DEF RoomLeft

\* The pointers are placed and the new blocks zeroed.
LEMMA BlocksPlanned ==
  ASSUME HInv, NothingUnrecorded, NEW k \in Nat, RoomLeft(k), RecordHighest \/ ZeroNewBlocks
  PROVE  NothingUnrecorded' /\ RoomLeft(k)'
<1>1. /\ free' = free /\ files' = files /\ extents' = extents /\ used' = used
      /\ \/ /\ call.step = "place"
            /\ call.todo = <<>>
            /\ call' = [call EXCEPT !.step = "zero"]
         \/ /\ call.step = "zero"
            /\ call' = [call EXCEPT !.step = "record"]
  BY DEF RecordHighest, ZeroNewBlocks
<1>2. Growing /\ ~call.newSegment /\ call.todo = <<>>
  BY <1>1, Known DEF Growing, Underway
<1>3. /\ call'.step \in {"zero", "record"} /\ call'.todo = <<>> /\ call'.file = call.file
      /\ call'.have = call.have /\ call'.more = call.more /\ ~call'.newSegment
  <2>1. call \in GoodCall
    BY Known DEF Typed
  <2>2. QED
    BY <1>1, <1>2, <2>1 DEF GoodCall
<1>4. call.more = 0 => RoomFor(k, 1)
  <2>1. CASE call.step = "place"
    <3>1. call.more = 0 => RoomFor(k, 0 + IF call.more = 0 THEN 1 ELSE 0)
      BY <1>2, <2>1 DEF RoomLeft
    <3>2. call.more = 0 => 0 + (IF call.more = 0 THEN 1 ELSE 0) = 1
      OBVIOUS
    <3>3. QED
      BY <3>1, <3>2
  <2>2. CASE call.step = "zero"
    BY <2>2 DEF RoomLeft
  <2>3. QED
    BY <1>1, <2>1, <2>2
<1>5. /\ \A n \in FileNumbers : n < call.file => n \in used
      /\ call.more > 0 =>
          /\ call.have < HeaderVbn(call.file)
          /\ HeaderVbn(call.file) + 1 = MappedBlocks(extents) + MappedBlocks(call.todo) + 0
  BY <1>1, <1>2 DEF RoomLeft
<1>6. NothingUnrecorded'
  BY <1>1, <1>2, <1>3, SameSpace
<1>7. Growing' /\ MappedBlocks(extents)' = MappedBlocks(extents) /\ MappedBlocks(call.todo)' = MappedBlocks(call.todo)
  BY <1>1, <1>2, <1>3 DEF Growing, MappedBlocks, Claimed
<1>8. /\ call'.more = 0 => RoomFor(k, 1)'
      /\ \A n \in FileNumbers : n < call'.file => n \in used'
      /\ call'.more > 0 =>
          /\ call'.have < HeaderVbn(call'.file)
          /\ HeaderVbn(call'.file) + 1 = MappedBlocks(extents)' + MappedBlocks(call.todo)' + 0
  <2>1. call'.more = 0 => RoomFor(k, 1)'
    BY <1>3, <1>4, Zenon DEF RoomFor
  <2>2. \A n \in FileNumbers : n < call'.file => n \in used'
    BY <1>1, <1>3, <1>5
  <2>3. call'.more > 0 =>
          /\ call'.have < HeaderVbn(call'.file)
          /\ HeaderVbn(call'.file) + 1 = MappedBlocks(extents)' + MappedBlocks(call.todo)' + 0
    BY <1>3, <1>5, <1>7
  <2>4. QED
    BY <2>1, <2>2, <2>3
<1>9. QED
  BY <1>3, <1>6, <1>7, <1>8 DEF RoomLeft

\* The growth is over; the second one, if there is to be one, has a slot for its
\* segment, the last that the first one added.
LEMMA RecordPlanned ==
  ASSUME HInv, UsedHoldHeaders, NothingUnrecorded, NEW k \in Nat, RoomLeft(k), RecordSize
  PROVE  NothingUnrecorded' /\ RoomLeft(k)'
<1> PICK have : have = MappedBlocks(extents)
  OBVIOUS
<1>1. /\ free' = free /\ files' = files /\ extents' = extents /\ used' = used /\ call.step = "record"
      /\ call' = IF call.more = 0
                 THEN [NoCall EXCEPT !.step = "header", !.file = call.file]
                 ELSE [NoCall EXCEPT !.step = "extend", !.file = call.file, !.have = have,
                                     !.blocks = call.more, !.newSegment = TRUE]
  BY DEF RecordSize
<1>2. /\ Growing /\ call.todo = <<>> /\ call.file \in FileNumbers /\ call.more \in Nat /\ have \in Nat
      /\ call.have \in Nat /\ used \subseteq FileNumbers
  BY <1>1, Known, Types DEF Growing, Underway
<1>3. CASE call.more = 0
  <2>1. call'.step = "header" /\ ~call'.newSegment /\ call'.todo = <<>>
    BY <1>1, <1>3 DEF NoCall
  <2>2. RoomFor(k, 1)
    BY <1>1, <1>3 DEF RoomLeft
  <2>3. QED
    BY <1>1, <1>2, <2>1, <2>2, SameSpace, IdleRoom
<1>4. CASE call.more # 0
  <2>1. /\ call'.step = "extend" /\ call'.file = call.file /\ call'.have = have /\ call'.more = 0
        /\ call'.newSegment /\ call'.todo = <<>>
    BY <1>1, <1>4 DEF NoCall
  <2>2. /\ \A n \in FileNumbers : n < call.file => n \in used
        /\ call.have < HeaderVbn(call.file)
        /\ HeaderVbn(call.file) + 1 = have + 0 + 0
    <3>1. call.more > 0 /\ call.step # "extend"
      BY <1>1, <1>2, <1>4
    <3>2. QED
      BY <1>2, <3>1, NothingMapped DEF RoomLeft
  <2>3. ASSUME call.file # MaxFiles
        PROVE  call.file + 1 \notin used /\ HeaderVbn(call.file + 1) <= have
    <3>1. call.file \in 1 .. MaxFiles - 1 /\ HeaderVbn(call.file + 1) = HeaderVbn(call.file) + 1
          /\ HeaderVbn(call.file) \in Nat
      <4> PICK file : file = call.file
        OBVIOUS
      <4>1. file \in 1 .. MaxFiles /\ file # MaxFiles /\ MaxFiles \in Nat
        BY <1>2, <2>3, Numbers DEF FileNumbers
      <4>2. file \in 1 .. MaxFiles - 1
        BY ONLY <4>1
      <4>3. Lead \in Nat
        BY Numbers
      <4>4. HeaderVbn(file + 1) = HeaderVbn(file) + 1 /\ HeaderVbn(file) \in Nat
        BY ONLY <4>1, <4>3 DEF HeaderVbn
      <4>5. QED
        BY <4>2, <4>4
    <3>2. \A n \in used \ {call.file} : HeaderVbn(n) <= call.have
      BY <1>2 DEF UsedHoldHeaders
    <3>3. call.file + 1 # call.file /\ ~(HeaderVbn(call.file + 1) <= call.have)
      BY <1>2, <2>2, <3>1
    <3>4. QED
      BY <1>2, <2>2, <3>1, <3>2, <3>3
  <2>4. NothingUnrecorded'
    BY <1>1, <1>2, <2>1, SameSpace
  <2>5. Growing' /\ \A n \in FileNumbers : n < call'.file => n \in used'
    BY <1>1, <2>1, <2>2 DEF Growing
  <2>6. call'.file # MaxFiles => call'.file + 1 \notin used' /\ HeaderVbn(call'.file + 1) <= call'.have
    BY <1>1, <2>1, <2>3
  <2>7. QED
    BY <2>1, <2>4, <2>5, <2>6 DEF RoomLeft
<1>5. QED
  BY <1>3, <1>4

\* A growth only fails where it was to take more space than there is, or where there
\* is no file number left for a segment.
LEMMA FailurePlanned ==
  ASSUME HInv, NothingUnrecorded, NEW k \in Nat, RoomLeft(k), primary = HeaderIn(extents, IndexFileNumber),
         NEW s, NEW p, Chained(s, p), k = p[Len(s)] - p[Len(s) - 1],
         NoSpace \/ NoSlot, growth = "planned", growth' = "planned"
  PROVE  NothingUnrecorded' /\ RoomLeft(k)'
<1>1. /\ free' = free /\ files' = files /\ extents' = extents /\ call' = NoCall
  BY DEF NoSpace, NoSlot, GiveUp
<1>2. call'.step = "none" /\ ~call'.newSegment /\ call'.todo = <<>>
  BY <1>1, NoCallFacts
<1>3. CASE NoSpace
  <2>1. call.step = "extend" /\ ~call.newSegment
    BY <1>3 DEF NoSpace, Unplanned
  <2>2. call.todo = <<>>
    BY <2>1, Known DEF Underway
  <2>3. RoomFor(k, IF call.more = 0 THEN 2 ELSE 1)
    BY <2>1 DEF RoomLeft
  <2>4. RoomFor(k, 1)
    <3>1. CASE call.more = 0
      <4>1. RoomFor(k, 2)
        BY <2>3, <3>1
      <4>2. QED
        BY <4>1, RoomForFewer
    <3>2. CASE call.more # 0
      BY <2>3, <3>2
    <3>3. QED
      BY <3>1, <3>2
  <2>5. QED
    BY <1>1, <1>2, <2>2, <2>4, SameSpace, IdleRoom
<1>4. CASE NoSlot
  <2>1. /\ call.step = "place" /\ call.todo # <<>> /\ ~TailHasRoom /\ call.file # MaxFiles
        /\ ~\E n \in FileNumbers : FreeSlotWithin(n, MappedBlocks(extents))
    BY <1>4 DEF NoSlot, Unplanned
  <2>2. /\ Typed /\ Underway /\ Growing /\ call.file \in FileNumbers /\ call.file \in used
        /\ call.file > ReservedFiles /\ VacantIsBlank /\ FirstInPlace
    BY <2>1, Known DEF Underway, Growing
  <2>3. CASE ~call.newSegment
    <3> PICK e, last, old : e = Head(call.todo) /\ last = call.tail /\ old = SessionHeader(call.tail)
      OBVIOUS
    <3>1. last = s[Len(s)] /\ Len(s) \in 1 .. Len(s) /\ old = HeaderIn(extents, last)
      <4>1. Len(s) \in Nat \ {0}
        BY ChainFacts
      <4>2. last = s[Len(s)]
        BY <2>1 DEF Chained
      <4>3. QED
        BY <4>1, <4>2 DEF SessionHeader
    <3>2. Len(old.map) = k /\ old.map \in Seq(GoodExtent)
      BY <3>1, ChainFacts DEF GoodHeader, GoodMap
    <3>3. e \in GoodExtent /\ Len(call.todo) \in Nat /\ Len(call.todo) >= 1
      <4>1. call.todo \in Seq(GoodExtent)
        BY <2>2, Types
      <4>2. QED
        BY <2>1, <4>1
    <3>4. Len(AddExtent(old.map, e)) \in Nat /\ Len(AddExtent(old.map, e)) <= k + 1
      BY <3>2, <3>3 DEF AddExtent
    <3>5. RoomFor(k, Len(call.todo) + IF call.more = 0 THEN 1 ELSE 0)
      BY <2>1, <2>3 DEF RoomLeft
    <3>6. RoomFor(Len(AddExtent(old.map, e)), 0)
      <4> PICK room : room = Len(call.todo) + IF call.more = 0 THEN 1 ELSE 0
        OBVIOUS
      <4> PICK len : len = Len(AddExtent(old.map, e))
        OBVIOUS
      <4> PICK todo, more : todo = Len(call.todo) /\ more = IF call.more = 0 THEN 1 ELSE 0
        OBVIOUS
      <4>a. more \in {0, 1}
        OBVIOUS
      <4>b. room = todo + more /\ todo \in Nat /\ todo >= 1 /\ len \in Nat /\ len <= k + 1
        BY <3>3, <3>4
      <4>1. room \in Nat /\ 1 <= room /\ len \in Nat /\ len + 0 <= k + room /\ 0 \in Nat
        BY ONLY <4>a, <4>b, k \in Nat
      <4>2. RoomFor(len, 0)
        BY <3>5, <4>1, RoomForFewer
      <4>3. QED
        BY <4>2
    <3>7. MapFits(AddExtent(old.map, e))
      <4> PICK len : len = Len(AddExtent(old.map, e))
        OBVIOUS
      <4>1. RoomFor(len, 0) /\ len + 0 = len
        BY <3>4, <3>6
      <4>2. len * PointerWords <= MapWords
        BY <4>1 DEF RoomFor
      <4>3. QED
        BY <4>2 DEF MapFits
    <3>8. TailHasRoom
      BY <2>3, <3>7 DEF TailHasRoom, Grown
    <3>9. QED
      BY <2>1, <3>8
  <2>4. CASE call.newSegment
    <3> PICK n : n = call.file + 1
      OBVIOUS
    <3>1. n \in FileNumbers /\ n > ReservedFiles /\ call.file \in Nat /\ ReservedFiles \in Nat
      <4> PICK file : file = call.file
        OBVIOUS
      <4>1. /\ file \in 1 .. MaxFiles /\ file # MaxFiles /\ MaxFiles \in Nat /\ ReservedFiles \in Nat
            /\ file > ReservedFiles /\ n = file + 1
        BY <2>1, <2>2, Numbers DEF FileNumbers
      <4>2. n \in 1 .. MaxFiles /\ n > ReservedFiles /\ file \in Nat
        BY ONLY <4>1
      <4>3. QED
        BY <4>1, <4>2 DEF FileNumbers
    <3>2. n \notin used /\ HeaderVbn(n) <= call.have /\ call.have = MappedBlocks(extents)
      BY <2>1, <2>2, <2>4 DEF RoomLeft, Underway
    <3>3. \A j \in FileNumbers : j < call.file => j \in used
      BY <2>2 DEF RoomLeft
    <3>4. \A j \in FileNumbers \ used : n <= j
      <4>1. TAKE j \in FileNumbers \ used
      <4>2. j \in Nat /\ ~(j < call.file) /\ j # call.file
        BY <2>2, <3>3, Numbers
      <4>3. QED
        BY <3>1, <4>2
    <3>5. LooksUnused(n)
      <4>1. n \in Vacant /\ SlotMapped(extents, n)
        BY <3>1, <3>2 DEF Vacant, SlotMapped
      <4>2. QED
        BY <2>2, <4>1 DEF VacantIsBlank
    <3>6. FreeSlotWithin(n, MappedBlocks(extents))
      BY <3>1, <3>2, <3>4, <3>5 DEF FreeSlotWithin, FreeSlot
    <3>7. QED
      BY <2>1, <3>1, <3>6
  <2>5. QED
    BY <2>3, <2>4
<1>5. QED
  BY <1>3, <1>4

\* A call that neither begins nor continues a growth leaves the room there is.
LEMMA OthersPlanned ==
  ASSUME HInv, NothingUnrecorded, NEW k \in Nat, RoomLeft(k),
         \/ \E n \in FileNumbers : MakeHeader(n) \/ FreeHeader(n)
         \/ WriteNewHeader
         \/ \E c \in Clusters : TakeCluster(c) \/ FreeCluster(c)
         \/ UNCHANGED vars
  PROVE  NothingUnrecorded' /\ RoomLeft(k)'
<1>1. ASSUME ~Growing, extents' = extents, call'.step \in {"none", "header"}, ~call'.newSegment,
             call.todo = <<>>, call'.todo = <<>>, free' \cup files' = free \cup files
      PROVE  NothingUnrecorded' /\ RoomLeft(k)'
  <2>1. RoomFor(k, 1)
    BY <1>1 DEF RoomLeft
  <2>2. RoomLeft(k)'
    BY <1>1, <2>1, IdleRoom
  <2>3. Claimed(extents)' = Claimed(extents) /\ Claimed(call.todo)' = Claimed(call.todo)
    BY <1>1 DEF Claimed
  <2>4. NothingUnrecorded'
    BY <1>1, <2>3 DEF NothingUnrecorded
  <2>5. QED
    BY <2>2, <2>4
<1>2. CASE \E n \in FileNumbers : MakeHeader(n)
  <2>1. call = NoCall /\ extents' = extents /\ free' = free /\ files' = files
        /\ \E n \in FileNumbers : call' = [NoCall EXCEPT !.step = "header", !.file = n]
    BY <1>2 DEF MakeHeader
  <2>2. call'.step = "header" /\ ~call'.newSegment /\ call'.todo = <<>>
    BY <2>1 DEF NoCall
  <2>3. QED
    BY <1>1, <2>1, <2>2, NoCallFacts DEF Growing
<1>3. CASE \E n \in FileNumbers : FreeHeader(n)
  <2>1. call = NoCall /\ call' = NoCall /\ extents' = extents /\ free' = free /\ files' = files
    BY <1>3 DEF FreeHeader
  <2>2. QED
    BY <1>1, <2>1, NoCallFacts DEF Growing
<1>4. CASE WriteNewHeader
  <2>1. call.step = "header" /\ call' = NoCall /\ extents' = extents /\ free' = free /\ files' = files
    BY <1>4 DEF WriteNewHeader
  <2>2. call.todo = <<>>
    BY <2>1, Known DEF Underway
  <2>3. QED
    BY <1>1, <2>1, <2>2, NoCallFacts DEF Growing
<1>5. CASE \E c \in Clusters : TakeCluster(c) \/ FreeCluster(c)
  <2>1. call = NoCall /\ call' = NoCall /\ extents' = extents /\ free' \cup files' = free \cup files
    BY <1>5 DEF TakeCluster, FreeCluster
  <2>2. QED
    BY <1>1, <2>1, NoCallFacts DEF Growing
<1>6. CASE UNCHANGED vars
  <2>1. call' = call /\ extents' = extents /\ free' = free /\ files' = files /\ used' = used
    BY <1>6 DEF vars
  <2>2. RoomLeft(k)' = RoomLeft(k)
    BY <2>1 DEF RoomLeft, RoomFor, Growing, MappedBlocks, Claimed
  <2>3. QED
    BY <2>1, <2>2, SameSpace
<1>7. QED
  BY <1>2, <1>3, <1>4, <1>5, <1>6

\* No step takes more room than was reckoned with.
LEMMA RoomKept ==
  ASSUME HInv, UsedHoldHeaders, NothingUnrecorded, primary = HeaderIn(extents, IndexFileNumber),
         NEW s, NEW p, Chained(s, p), RoomLeft(p[Len(s)] - p[Len(s) - 1]),
         [Next]_vars, growth = "planned", growth' = "planned"
  PROVE  NothingUnrecorded' /\ \E t, q : Chained(t, q)' /\ (\E j : j = q[Len(t)] - q[Len(t) - 1] /\ RoomLeft(j)')
<1> PICK m : m = Len(s)
  OBVIOUS
<1> PICK k : k = p[m] - p[m - 1]
  OBVIOUS
<1>1. /\ m \in Nat \ {0} /\ p[m] \in Nat /\ p[m - 1] \in Nat /\ p[m - 1] < p[m] /\ p[m] = Len(extents)
      /\ Len(extents) \in Nat
  <2>1. m \in Nat \ {0} /\ m \in 1 .. Len(s)
    BY ChainFacts
  <2>2. p[m] = Len(extents) /\ Len(extents) \in Nat
    BY Known, Types DEF Chained
  <2>3. QED
    BY <2>1, <2>2, ChainFacts
<1>2. k \in Nat /\ RoomLeft(k)
  <2>1. k \in Nat
    BY <1>1
  <2>2. QED
    BY <2>1
<1>3. CASE Quiet
  <2>1. NothingUnrecorded' /\ RoomLeft(k)'
    <3>1. call.segment = 0 => TailSlot # 0 /\ Len(LastHeader.map) = k
      BY TailIsLast
    <3>2. CASE \E n \in FileNumbers : Grow(n)
      <4>1. PICK n \in FileNumbers : Grow(n)
        BY <3>2
      <4>2. TailSlot # 0 /\ Len(LastHeader.map) = k
        BY <3>1, <4>1, NoCallFacts DEF Grow
      <4>3. QED
        BY <1>2, <4>1, <4>2, GrowthPlanned
    <3>3. CASE Allocate
      <4>1. call.segment = 0
        BY <3>3, Known DEF Allocate, Underway
      <4>2. QED
        BY <1>2, <3>1, <3>3, <4>1, AllocationPlanned
    <3>4. CASE NoSpace \/ NoSlot
      BY <1>2, <3>4, FailurePlanned
    <3>5. CASE RecordHighest \/ ZeroNewBlocks
      BY <1>2, <3>5, BlocksPlanned
    <3>6. CASE RecordSize
      BY <1>2, <3>6, RecordPlanned
    <3>7. QED
      BY <1>2, <1>3, <3>2, <3>3, <3>4, <3>5, <3>6, OthersPlanned DEF Quiet
  <2>2. Chained(s, p)'
    BY <1>3, ChainKept
  <2>3. QED
    BY <2>1, <2>2
<1>4. CASE PlacePointer
  <2>1. PICK q : q[m] = Len(extents') /\ q[m - 1] = p[m - 1] /\ Chained(s, q)'
    BY <1>4, ChainPlaced
  <2>2. Len(extents') \in Nat /\ Len(extents') <= Len(extents) + 1
    BY <1>4, ChainPlaced
  <2>3. PICK j : j = q[m] - q[m - 1]
    OBVIOUS
  <2>4. q[m - 1] < q[m]
    <3>1. \A a, b \in 0 .. m : a < b => q[a] < q[b]
      BY <2>1 DEF Chained
    <3>2. m \in 0 .. m /\ m - 1 \in 0 .. m /\ m - 1 < m
      BY <1>1
    <3>3. QED
      BY <3>1, <3>2
  <2>5. j \in Nat /\ j <= k + 1
    BY <1>1, <2>1, <2>2, <2>3, <2>4
  <2>6. NothingUnrecorded' /\ RoomLeft(j)'
    BY <1>2, <1>4, <2>5, PlacementPlanned
  <2>7. QED
    BY <2>1, <2>3, <2>6
<1>5. CASE LinkSegment /\ call.newSegment
  <2>1. Chained(s, p)'
    BY <1>5, ChainLinked
  <2>2. NothingUnrecorded' /\ RoomLeft(k)'
    BY <1>2, <1>5, LinkPlanned
  <2>3. QED
    BY <2>1, <2>2
<1>6. CASE WriteSegment
  <2>1. PICK t, q : q[Len(t)] = q[Len(t) - 1] + 1 /\ q[Len(t) - 1] \in Nat /\ Chained(t, q)'
    BY <1>6, ChainExtended
  <2>2. q[Len(t)] - q[Len(t) - 1] = 1
    BY <2>1
  <2>3. NothingUnrecorded' /\ RoomLeft(1)'
    BY <1>2, <1>6, SegmentPlanned
  <2>4. QED
    BY <2>1, <2>2, <2>3
<1>7. QED
  BY <1>3, <1>4, <1>5, <1>6, NotOverflowed

\* Only a growth that was planned follows none that was not.
LEMMA StaysPlanned ==
  ASSUME [Next]_vars, growth' = "planned"
  PROVE  growth = "planned"
<1>1. Unplanned => growth' # "planned"
  BY DEF Unplanned
<1>2. CASE Allocate \/ NoSpace \/ NoSlot
  BY <1>1, <1>2 DEF Allocate, NoSpace, NoSlot
<1>3. CASE PlacePointer \/ LinkSegment \/ WriteSegment
  BY <1>3 DEF PlacePointer, LinkSegment, WriteSegment
<1>4. CASE RecordHighest \/ ZeroNewBlocks \/ RecordSize \/ WriteNewHeader \/ UNCHANGED vars
  BY <1>4 DEF RecordHighest, ZeroNewBlocks, RecordSize, WriteNewHeader, vars
<1>5. CASE \E n \in FileNumbers : MakeHeader(n) \/ Grow(n) \/ FreeHeader(n)
  BY <1>5 DEF MakeHeader, Grow, FreeHeader
<1>6. CASE \E c \in Clusters : TakeCluster(c) \/ FreeCluster(c)
  BY <1>6 DEF TakeCluster, FreeCluster
<1>7. QED
  BY <1>2, <1>3, <1>4, <1>5, <1>6 DEF Next

\* INITIALIZE leaves room to grow, and no cluster unaccounted for.
LEMMA FirstRoom ==
  ASSUME Init
  PROVE  NothingUnrecorded /\ RoomLeft(1)
<1>1. /\ call = NoCall /\ files = {} /\ extents = FirstExtents
      /\ free = Clusters \ Claimed(FirstExtents)
  BY DEF Init
<1>2. Claimed(FirstExtents) \subseteq Clusters
  <2>1. HInv
    BY InitHolds
  <2>2. QED
    BY <1>1, <2>1, Known, Types, MapFinite
<1>3. NothingUnrecorded
  BY <1>1, <1>2, NoCallFacts, NothingMapped DEF NothingUnrecorded
<1>4. RoomFor(1, 1)
  BY MapHasRoom DEF RoomFor
<1>5. RoomLeft(1)
  BY <1>1, <1>4, NoCallFacts DEF RoomLeft, Growing
<1>6. QED
  BY <1>3, <1>5

\* The index file can always grow, and no growth loses a cluster, as long as every one
\* of them goes as ensureHeaderSlot reckons: it keeps a pointer for the growth after
\* the next, or a slot for the header that will have it (ensureHeaderSlot, extend and
\* linkNewExtensionSegment of volume).
THEOREM GrowthNeverStuck == Spec => []OnlyUnplannedGrowthIsLast
<1>1. Init => GInv
  <2> SUFFICES ASSUME Init PROVE GInv
    OBVIOUS
  <2>1. CInv
    BY InitHolds, FirstChain DEF CInv, ChainWhole
  <2>2. PICK s, p : s = <<IndexFileNumber>> /\ p = [k \in 0 .. 1 |-> k]
    OBVIOUS
  <2>3. Chained(s, p)
    BY <2>2, FirstChain
  <2>4. p[Len(s)] - p[Len(s) - 1] = 1
    BY <2>2
  <2>5. NothingUnrecorded /\ RoomLeft(p[Len(s)] - p[Len(s) - 1])
    BY <2>4, FirstRoom
  <2>6. QED
    BY <2>1, <2>3, <2>5 DEF GInv
<1>2. GInv /\ [Next]_vars => GInv'
  <2> SUFFICES ASSUME GInv, [Next]_vars PROVE GInv'
    OBVIOUS
  <2>1. CInv /\ HInv /\ HInv'
    BY StepKeeps DEF GInv, CInv
  <2>2. ASSUME growth' # "overflowed" PROVE ChainWhole'
    BY <2>1, <2>2, NotOverflowed, ChainStep DEF CInv
  <2>3. ASSUME growth' = "planned"
        PROVE  NothingUnrecorded' /\ \E s, p : Chained(s, p)' /\ \E j : j = p[Len(s)] - p[Len(s) - 1] /\ RoomLeft(j)'
    <3>1. growth = "planned"
      BY <2>3, StaysPlanned
    <3>2. PICK s, p : Chained(s, p) /\ RoomLeft(p[Len(s)] - p[Len(s) - 1])
      BY <3>1 DEF GInv
    <3>3. /\ NothingUnrecorded /\ UsedHoldHeaders
          /\ primary = HeaderIn(extents, IndexFileNumber)
      BY <2>1, <3>1 DEF GInv, CInv, HInv, ChainWhole
    <3>4. QED
      BY <2>1, <2>3, <3>1, <3>2, <3>3, RoomKept
  <2>4. ASSUME growth' = "planned"
        PROVE  \E s, p : Chained(s, p)' /\ RoomLeft(p[Len(s)] - p[Len(s) - 1])'
    <3>1. PICK s, p, j : Chained(s, p)' /\ j = p[Len(s)] - p[Len(s) - 1] /\ RoomLeft(j)'
      BY <2>3, <2>4
    <3>2. RoomLeft(p[Len(s)] - p[Len(s) - 1])'
      BY <3>1
    <3>3. QED
      BY <3>1, <3>2
  <2>5. CInv'
    BY <2>1, <2>2 DEF CInv
  <2>6. QED
    BY <2>3, <2>4, <2>5 DEF GInv
<1>3. GInv => OnlyUnplannedGrowthIsLast
  <2> SUFFICES ASSUME GInv PROVE OnlyUnplannedGrowthIsLast
    OBVIOUS
  <2>1. HInv
    BY DEF GInv, CInv
  <2>2. free \cap (files \cup Claimed(extents)) = {} /\ files \cap Claimed(extents) = {}
    BY <2>1, Known DEF SpaceApart
  <2>3. ASSUME growth = "planned", call = NoCall
        PROVE  /\ free \cup files \cup Claimed(extents) = Clusters
               /\ (Len(SessionHeader(TailSlot).map) + 1) * PointerWords <= MapWords
    <3>1. PICK s, p : Chained(s, p) /\ RoomLeft(p[Len(s)] - p[Len(s) - 1])
      BY <2>3 DEF GInv
    <3>2. ChainWhole /\ NothingUnrecorded
      BY <2>3 DEF GInv, CInv
    <3>3. RoomFor(p[Len(s)] - p[Len(s) - 1], 1)
      BY <2>3, <3>1, NoCallFacts DEF RoomLeft, Growing
    <3>4. Len(LastHeader.map) = p[Len(s)] - p[Len(s) - 1]
      BY <2>1, <2>3, <3>1, <3>2, NoCallFacts, TailIsLast DEF ChainWhole
    <3>5. RoomFor(Len(LastHeader.map), 1)
      BY <3>3, <3>4
    <3>6. free \cup files \cup Claimed(extents) = Clusters
      BY <2>3, <3>2, NoCallFacts, NothingMapped DEF NothingUnrecorded
    <3>7. QED
      BY <3>5, <3>6 DEF RoomFor, LastHeader
  <2>4. QED
    BY <2>2, <2>3 DEF OnlyUnplannedGrowthIsLast, CanStillGrow
<1>4. QED
  BY <1>1, <1>2, <1>3, PTL DEF Spec

=============================================================================

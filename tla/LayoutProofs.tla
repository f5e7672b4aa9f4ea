---------------------------- MODULE LayoutProofs -----------------------------
(***************************************************************************)
(* Proofs about Layout: INITIALIZE's allocation table never has two of the *)
(* fixed structures share a block, and the storage bitmap it writes is     *)
(* exact, whatever the volume's size, its cluster size, and the widths of  *)
(* the structures; and a mount finds the volume: the retrieval pointers of *)
(* a map read back as the blocks they were made from, so that INDEXF.SYS's *)
(* map leads to what was written of each of its blocks.                    *)
(***************************************************************************)
EXTENDS Layout, NaturalsInduction, WellFoundedInduction, SequenceTheorems, TLAPS

(***************************************************************************)
(* Least numbers, induction and division.                                  *)
(***************************************************************************)

Below == OpToRel(<, Nat)

\* Below is the order of the naturals, as a set of pairs.
LEMMA BelowIsLess == Below = {pair \in Nat \X Nat : pair[1] < pair[2]}
BY DEF OpToRel, Below

\* A set of naturals that is not empty has a least member.
LEMMA LeastNatural ==
    ASSUME NEW T, T \subseteq Nat, T # {}
    PROVE  \E least \in T : \A n \in T : least <= n
<1>1. IsWellFoundedOn(Below, Nat)
  BY NatLessThanWellFounded DEF Below
<1>2. \E x \in T : \A y \in T : ~(<<y, x>> \in Below)
  BY <1>1, WFMin
<1>3. \A x, y \in Nat : y < x => <<y, x>> \in Below
  BY BelowIsLess
<1>4. PICK x \in T : \A y \in T : ~(<<y, x>> \in Below)
  BY <1>2
<1>5. \A y \in T : ~(y < x)
  BY <1>3, <1>4
<1>6. \A y \in T : x <= y
  BY <1>5
<1>7. QED
  BY <1>6

\* Induction over the numbers up to a bound, as a statement about sets.
LEMMA InductionUpTo ==
    ASSUME NEW bound \in Nat, NEW T, T \subseteq 0 .. bound, 0 \in T,
           \A k \in 1 .. bound : k - 1 \in T => k \in T
    PROVE  T = 0 .. bound
<1> DEFINE U == 0 .. bound \ T
<1>1. SUFFICES ASSUME U # {} PROVE FALSE
  OBVIOUS
<1>2. PICK least \in U : \A n \in U : least <= n
  BY <1>1, LeastNatural, U \subseteq Nat
<1>3. least \in 1 .. bound /\ least - 1 \in 0 .. bound
  BY <1>2
<1>4. least - 1 \notin U
  BY <1>2, <1>3
<1>5. QED
  BY <1>2, <1>3, <1>4

\* Multiples of a unit keep the order of what they are multiples by.
LEMMA ProductsAreOrdered ==
    ASSUME NEW a \in Int, NEW b \in Int, NEW unit \in Nat \ {0}
    PROVE  /\ a * unit < b * unit <=> a < b
           /\ a * unit <= b * unit <=> a <= b
           /\ a < b => a * unit + unit <= b * unit
OBVIOUS

\* The quotient and the remainder of a natural number.
LEMMA Quotients ==
    ASSUME NEW n \in Nat, NEW unit \in Nat \ {0}
    PROVE  /\ n \div unit \in Nat
           /\ (n \div unit) * unit \in Nat
           /\ (n \div unit) * unit <= n
           /\ n < (n \div unit) * unit + unit
           /\ n % unit \in 0 .. unit - 1
           /\ n % unit = n - (n \div unit) * unit
OBVIOUS

\* A multiple divides exactly.
LEMMA MultipleDivides ==
    ASSUME NEW k \in Nat, NEW unit \in Nat \ {0}
    PROVE  (k * unit) \div unit = k /\ k * unit \in Nat
<1>1. k * unit \in Nat
  OBVIOUS
<1>2. PICK n \in Nat : n = k * unit
  BY <1>1
<1>3. PICK q \in Nat : q = n \div unit
  BY Quotients
<1>4. q * unit <= n /\ n < q * unit + unit
  BY <1>3, Quotients
<1>5. q <= k
  BY <1>2, <1>4, ProductsAreOrdered
<1>6. ~(q < k)
  BY <1>2, <1>4, ProductsAreOrdered
<1>7. QED
  BY <1>1, <1>2, <1>3, <1>5, <1>6

(***************************************************************************)
(* Multiples and quotients of a cluster size.                              *)
(***************************************************************************)

IsMultiple(n, unit) == \E k \in Nat : n = k * unit

\* Sums and differences of multiples are multiples.
LEMMA MultiplesAdd ==
    ASSUME NEW unit \in Nat \ {0}, NEW a \in Nat, NEW b \in Nat, IsMultiple(a, unit), IsMultiple(b, unit)
    PROVE  /\ IsMultiple(a + b, unit)
           /\ b <= a => IsMultiple(a - b, unit)
           /\ a < b => a + unit <= b
<1>1. PICK j \in Nat : a = j * unit
  BY DEF IsMultiple
<1>2. PICK k \in Nat : b = k * unit
  BY DEF IsMultiple
<1>3. a + b = (j + k) * unit /\ j + k \in Nat
  BY <1>1, <1>2
<1>4. a - b = (j - k) * unit
  BY <1>1, <1>2
<1>5. b <= a => j - k \in Nat
  BY <1>1, <1>2, ProductsAreOrdered
<1>6. a < b => a + unit <= b
  BY <1>1, <1>2, ProductsAreOrdered
<1>7. QED
  BY <1>3, <1>4, <1>5, <1>6 DEF IsMultiple

\* A number rounded down to its cluster, and one rounded up.
LEMMA Roundings ==
    ASSUME NEW n \in Nat, NEW unit \in Nat \ {0}
    PROVE  /\ IsMultiple((n \div unit) * unit, unit)
           /\ RoundedUp(n, unit) \in Nat
           /\ IsMultiple(RoundedUp(n, unit), unit)
           /\ n <= RoundedUp(n, unit)
           /\ RoundedUp(n, unit) < n + unit
<1>1. n \div unit \in Nat
  BY Quotients
<1>2. PICK m \in Nat : m = n + unit - 1
  OBVIOUS
<1>3. m \div unit \in Nat /\ (m \div unit) * unit \in Nat /\ (m \div unit) * unit <= m /\ m < (m \div unit) * unit + unit
  BY Quotients
<1>4. RoundedUp(n, unit) = (m \div unit) * unit
  BY <1>2 DEF RoundedUp
<1>5. \A q \in Nat : IsMultiple(q * unit, unit)
  BY DEF IsMultiple
<1>6. IsMultiple((n \div unit) * unit, unit) /\ IsMultiple((m \div unit) * unit, unit)
  BY <1>1, <1>3, <1>5
<1>7. QED
  BY <1>2, <1>3, <1>4, <1>6

\* One is rounded up to the unit.
LEMMA OneRounded ==
    ASSUME NEW unit \in Nat \ {0}
    PROVE  RoundedUp(1, unit) = unit
<1>1. RoundedUp(1, unit) = (unit \div unit) * unit
  BY DEF RoundedUp
<1>2. (1 * unit) \div unit = 1
  BY MultipleDivides
<1>3. 1 * unit = unit
  OBVIOUS
<1>4. QED
  BY <1>1, <1>2, <1>3

(***************************************************************************)
(* The options.                                                            *)
(***************************************************************************)

\* The options' numbers are what INITIALIZE leaves of them.
LEMMA OptionTypes ==
    ASSUME NEW o \in Options
    PROVE  /\ o.blocks \in Nat \ {0} /\ o.cluster \in Nat \ {0}
           /\ o.maxFiles \in Nat /\ o.headers \in Nat /\ o.directories \in Nat
           /\ o.at \in Nat /\ o.delta \in Nat
BY OptionsAssumption

\* The sizes the structures are made from.
LEMMA SizeTypes ==
    /\ Bits \in Nat \ {0} /\ Reserved \in Nat \ {0} /\ MinHeaders \in Nat \ {0} /\ DirEntries \in Nat \ {0}
    /\ SecurityBlocks \in Nat \ {0} /\ SearchLength \in Nat \ {0}
BY SizesAssumption

VolEndCount(o) == (Bits - ((o.blocks \div o.cluster) % Bits)) * o.cluster

\* The volume ends within a cluster of its last whole one, and the bits past its
\* end stand for at least one cluster.
LEMMA VolumeEnds ==
    ASSUME NEW o \in Options
    PROVE  /\ VolumeSize(o) \in Nat /\ IsMultiple(VolumeSize(o), o.cluster) /\ o.blocks <= VolumeSize(o)
           /\ LastWhole(o) \in Nat /\ IsMultiple(LastWhole(o), o.cluster)
           /\ LastWhole(o) <= o.blocks /\ o.blocks < LastWhole(o) + o.cluster
           /\ VolumeSize(o) <= LastWhole(o) + o.cluster
           /\ VolEndCount(o) \in Nat /\ IsMultiple(VolEndCount(o), o.cluster)
           /\ o.cluster <= VolEndCount(o) /\ VolEndCount(o) <= Bits * o.cluster
<1> DEFINE c == o.cluster
           q == o.blocks \div o.cluster
<1>1. o.blocks \in Nat \ {0} /\ c \in Nat \ {0} /\ Bits \in Nat \ {0}
  BY OptionTypes, SizeTypes
<1>2. /\ VolumeSize(o) \in Nat /\ IsMultiple(VolumeSize(o), c)
      /\ o.blocks <= VolumeSize(o) /\ VolumeSize(o) < o.blocks + c
  BY <1>1, Roundings DEF VolumeSize
<1>3. /\ LastWhole(o) \in Nat /\ IsMultiple(LastWhole(o), c)
      /\ LastWhole(o) <= o.blocks /\ o.blocks < LastWhole(o) + c /\ q \in Nat
  BY <1>1, Roundings, Quotients DEF LastWhole
<1>4. VolumeSize(o) <= LastWhole(o) + c
  <2>1. IsMultiple(c, c)
    BY <1>1, c = 1 * c DEF IsMultiple
  <2>2. LastWhole(o) + c \in Nat /\ IsMultiple(LastWhole(o) + c, c)
    BY <1>1, <1>3, <2>1, MultiplesAdd, SMTT(30)
  <2>3. LastWhole(o) + c < VolumeSize(o) => (LastWhole(o) + c) + c <= VolumeSize(o)
    BY <1>1, <1>2, <2>2, MultiplesAdd
  <2>4. QED
    BY <1>1, <1>2, <1>3, <2>3
<1>5. q % Bits \in 0 .. Bits - 1
  BY <1>1, <1>3, Quotients
<1>6. PICK m \in 1 .. Bits : m = Bits - (q % Bits)
  BY <1>1, <1>5
<1>7. VolEndCount(o) = m * c
  BY <1>6 DEF VolEndCount
<1>8. m * c \in Nat /\ IsMultiple(m * c, c) /\ 1 * c <= m * c /\ m * c <= Bits * c
  BY <1>1, <1>6, ProductsAreOrdered DEF IsMultiple
<1>9. QED
  BY <1>1, <1>2, <1>3, <1>4, <1>7, <1>8

\* The names of the table's entries.
AllEntries == Structures \cup {"badBlock", "volEnd"}

\* The table has them, each in its place.
LEMMA TableNames ==
    /\ Range(Entries) = AllEntries
    /\ DOMAIN Entries = 1 .. 10
    /\ \A i \in 1 .. 10 : Entries[i] \in AllEntries
    /\ \A e \in AllEntries : \E i \in 1 .. 10 : Entries[i] = e
<1>1. DOMAIN Entries = 1 .. 10
  BY DEF Entries
<1>2. \A i \in 1 .. 10 : Entries[i] \in AllEntries
  BY DEF Entries, AllEntries, Structures
<1>3. /\ Entries[1] = "boot" /\ Entries[2] = "home1" /\ Entries[3] = "home2" /\ Entries[4] = "altIndex"
      /\ Entries[5] = "index" /\ Entries[6] = "bitmap" /\ Entries[7] = "mfd" /\ Entries[8] = "security"
      /\ Entries[9] = "badBlock" /\ Entries[10] = "volEnd"
  BY DEF Entries
<1>4. \A e \in AllEntries : \E i \in 1 .. 10 : Entries[i] = e
  BY <1>3 DEF AllEntries, Structures
<1>5. QED
  BY <1>1, <1>2, <1>4 DEF Range

\* Structures are placed one after another, each of them.
LEMMA OrderNames ==
    ASSUME NEW o
    PROVE  /\ Len(PlaceOrder(o)) = 8
           /\ \A k \in 1 .. 8 : PlaceOrder(o)[k] \in Structures
           /\ \A e \in Structures : \E k \in 1 .. 8 : PlaceOrder(o)[k] = e
<1> DEFINE order == PlaceOrder(o)
<1>1. CASE IsAtEnd(o)
  <2>1. order = (<<"boot", "home1", "home2">> \o <<"index", "bitmap", "mfd">>) \o <<"altIndex", "security">>
    BY <1>1, Zenon DEF PlaceOrder
  <2>2. Len(order) = 8
    BY <2>1
  <2>3. /\ order[1] = "boot" /\ order[2] = "home1" /\ order[3] = "home2" /\ order[4] = "index"
        /\ order[5] = "bitmap" /\ order[6] = "mfd" /\ order[7] = "altIndex" /\ order[8] = "security"
    BY <2>1
  <2>4. QED
    BY <2>2, <2>3 DEF Structures
<1>2. CASE ~IsAtEnd(o)
  <2>1. order = (<<"boot", "home1", "home2">> \o <<"mfd", "bitmap", "index">>) \o <<"altIndex", "security">>
    BY <1>2, Zenon DEF PlaceOrder
  <2>2. Len(order) = 8
    BY <2>1
  <2>3. /\ order[1] = "boot" /\ order[2] = "home1" /\ order[3] = "home2" /\ order[4] = "mfd"
        /\ order[5] = "bitmap" /\ order[6] = "index" /\ order[7] = "altIndex" /\ order[8] = "security"
    BY <2>1
  <2>4. QED
    BY <2>2, <2>3 DEF Structures
<1>3. QED
  BY <1>1, <1>2

\* A volume can have a number of files.
LEMMA MaxFilesType ==
    ASSUME NEW o \in Options
    PROVE  MaxFiles(o) \in Nat
<1>1. o.blocks \in Nat /\ o.cluster \in Nat \ {0} /\ o.maxFiles \in Nat
  BY OptionTypes
<1>2. VolumeSize(o) \in Nat
  BY VolumeEnds
<1>3. o.cluster + 1 \in Nat \ {0} /\ (o.cluster + 1) * 2 \in Nat \ {0}
  BY <1>1
<1>4. o.blocks \div ((o.cluster + 1) * 2) \in Nat
  BY <1>1, <1>3, Quotients
<1>5. VolumeSize(o) \div (o.cluster + 1) \in Nat
  BY <1>2, <1>3, Quotients
<1>6. \A m, n \in Nat : Smaller(m, n) \in Nat
  BY DEF Smaller
<1>7. (IF o.maxFiles = 0 THEN o.blocks \div ((o.cluster + 1) * 2) ELSE o.maxFiles) \in Nat
  BY <1>1, <1>4
<1>8. MostFiles \in Nat
  BY MostFilesAssumption
<1>9. QED
  BY <1>5, <1>6, <1>7, <1>8, Zenon DEF MaxFiles

\* Each structure needs a number of blocks: the bitmap its map blocks and one
\* more, the MFD and the security file at least one.
LEMMA Needs ==
    ASSUME NEW o \in Options
    PROVE  /\ StorageMapBlocks(o) \in Nat /\ IndexBitmapBlocks(o) \in Nat /\ Headers(o) \in Nat
           /\ \A e \in Structures : Needed(e, o) \in Nat
           /\ Needed("bitmap", o) = StorageMapBlocks(o) + 1
           /\ 1 <= Needed("mfd", o) /\ 1 <= Needed("security", o)
<1>1. /\ o.blocks \in Nat /\ o.cluster \in Nat \ {0} /\ Bits \in Nat \ {0} /\ MinHeaders \in Nat \ {0}
      /\ DirEntries \in Nat \ {0} /\ SecurityBlocks \in Nat \ {0} /\ o.maxFiles \in Nat
      /\ o.headers \in Nat /\ o.directories \in Nat
  BY OptionTypes, SizeTypes
<1>2. MaxFiles(o) \in Nat
  BY MaxFilesType
<1>3. Headers(o) \in Nat
  BY <1>1, <1>2 DEF Headers, Smaller, Larger
<1>4. \A n \in Nat : RoundedUp(n, Bits) \div Bits \in Nat
  BY <1>1, Roundings, Quotients
<1>5. IndexBitmapBlocks(o) \in Nat
  BY <1>2, <1>4 DEF IndexBitmapBlocks
<1>6. VolumeSize(o) \div o.cluster \in Nat
  BY <1>1, VolumeEnds, Quotients
<1>7. StorageMapBlocks(o) \in Nat
  BY <1>4, <1>6 DEF StorageMapBlocks
<1>8. o.directories \div DirEntries \in Nat
  BY <1>1, Quotients
<1>9. \A e \in Structures : Needed(e, o) \in Nat
  BY <1>1, <1>3, <1>5, <1>7, <1>8 DEF Needed, Structures
<1>10. /\ Needed("bitmap", o) = StorageMapBlocks(o) + 1
       /\ 1 <= Needed("mfd", o) /\ 1 <= Needed("security", o)
  BY <1>1, <1>7, <1>8 DEF Needed
<1>11. QED
  BY <1>3, <1>5, <1>7, <1>9, <1>10

\* The bits of the storage map end with the ones marked for the volume's end.
LEMMA MapCoversVolume ==
    ASSUME NEW o \in Options
    PROVE  StorageMapBlocks(o) * Bits <= (o.blocks \div o.cluster) + Bits - ((o.blocks \div o.cluster) % Bits)
<1>1. o.blocks \in Nat /\ o.cluster \in Nat \ {0} /\ Bits \in Nat \ {0}
  BY OptionTypes, SizeTypes
<1>2. PICK q \in Nat : q = o.blocks \div o.cluster
  BY <1>1, Quotients
<1>3. PICK all \in Nat : VolumeSize(o) = all * o.cluster
  BY VolumeEnds DEF IsMultiple
<1>4. VolumeSize(o) \div o.cluster = all
  BY <1>1, <1>3, MultipleDivides
<1>5. all <= q + 1
  <2>1. LastWhole(o) = q * o.cluster
    BY <1>2 DEF LastWhole
  <2>2. all * o.cluster <= (q + 1) * o.cluster
    BY <1>1, <1>2, <1>3, <2>1, VolumeEnds
  <2>3. QED
    BY <1>1, <1>2, <2>2, ProductsAreOrdered
<1>6. PICK rounded \in Nat : RoundedUp(all, Bits) = rounded * Bits
  BY <1>1, Roundings DEF IsMultiple
<1>7. StorageMapBlocks(o) = rounded
  BY <1>1, <1>4, <1>6, MultipleDivides DEF StorageMapBlocks
<1>8. PICK below \in Nat : below = q \div Bits
  BY <1>1, <1>2, Quotients
<1>9. q % Bits = q - below * Bits /\ q < below * Bits + Bits
  BY <1>1, <1>2, <1>8, Quotients
<1>10. rounded * Bits < all + Bits
  BY <1>1, <1>6, Roundings
<1>11. rounded * Bits < (below + 2) * Bits
  BY <1>1, <1>2, <1>5, <1>8, <1>9, <1>10
<1>12. rounded * Bits <= (below + 1) * Bits
  BY <1>1, <1>8, <1>11, ProductsAreOrdered
<1>13. QED
  BY <1>1, <1>2, <1>7, <1>8, <1>9, <1>12

(***************************************************************************)
(* Searches.                                                               *)
(***************************************************************************)

\* A search of M goes on, from where it does not stop, to a place of a lower rank.
GoesDown(M, N, rank, Stop, next) ==
    /\ N \in Nat
    /\ \A l \in M : rank[l] \in 0 .. N
    /\ \A l \in M : ~(l \in Stop) => next[l] \in M /\ rank[next[l]] < rank[l]

\* What it finds is the value of the place where it stops.
IsSearch(f, D, Stop, value, next) == f = [l \in D |-> IF l \in Stop THEN value[l] ELSE f[next[l]]]

\* There is a function that searches so.
LEMMA SearchExists ==
    ASSUME NEW D, NEW N, NEW rank, NEW Stop, NEW value, NEW next, GoesDown(D, N, rank, Stop, next)
    PROVE  \E f : IsSearch(f, D, Stop, value, next)
<1> USE DEF GoesDown
<1> DEFINE Solves(f, k) == \A l \in D : rank[l] < k => f[l] = (IF l \in Stop THEN value[l] ELSE f[next[l]])
           T == {k \in 0 .. N + 1 : \E f : Solves(f, k)}
<1>1. 0 \in T
  <2>1. Solves([l \in D |-> 0], 0)
    OBVIOUS
  <2> HIDE DEF Solves
  <2>2. \E f : Solves(f, 0)
    BY <2>1, Zenon
  <2>3. QED
    BY <2>2
<1>2. ASSUME NEW k \in 1 .. N + 1, k - 1 \in T
      PROVE  k \in T
  <2>1. PICK f : Solves(f, k - 1)
    BY <1>2
  <2> DEFINE g == [l \in D |-> IF rank[l] < k - 1 THEN f[l]
                               ELSE IF l \in Stop THEN value[l] ELSE f[next[l]]]
  <2>2. ASSUME NEW l \in D, rank[l] < k
        PROVE  g[l] = (IF l \in Stop THEN value[l] ELSE g[next[l]])
    <3>1. g[l] = (IF l \in Stop THEN value[l] ELSE f[next[l]])
      BY <2>1
    <3>2. CASE l \in Stop
      BY <3>1, <3>2
    <3>3. CASE ~(l \in Stop)
      <4>1. next[l] \in D /\ rank[next[l]] < k - 1
        BY <2>2, <3>3
      <4>2. g[next[l]] = f[next[l]]
        BY <4>1
      <4>3. QED
        BY <3>1, <3>3, <4>2
    <3>4. QED
      BY <3>2, <3>3
  <2> HIDE DEF g
  <2>3. Solves(g, k)
    BY <2>2
  <2> HIDE DEF Solves
  <2>4. \E x : Solves(x, k)
    BY <2>3, Zenon
  <2>5. QED
    BY <2>4
<1>3. T = 0 .. N + 1
  BY <1>1, <1>2, InductionUpTo, N + 1 \in Nat
<1>4. PICK f : Solves(f, N + 1)
  BY <1>3, N + 1 \in 0 .. N + 1
<1> DEFINE g == [l \in D |-> f[l]]
<1>5. ASSUME NEW l \in D
      PROVE  f[l] = (IF l \in Stop THEN value[l] ELSE g[next[l]])
  BY <1>4
<1>6. g = [l \in D |-> IF l \in Stop THEN value[l] ELSE g[next[l]]]
  BY <1>5
<1>7. IsSearch(g, D, Stop, value, next)
  BY <1>6, Zenon DEF IsSearch
<1> HIDE DEF g
<1>8. QED
  BY <1>7, Zenon

\* What it finds, from a place in a set the search stays in, is the value of a
\* place in that set where it stops.
LEMMA SearchStops ==
    ASSUME NEW D, NEW N, NEW rank, NEW Stop, NEW value, NEW next, NEW f, NEW M,
           IsSearch(f, D, Stop, value, next), M \subseteq D, GoesDown(M, N, rank, Stop, next)
    PROVE  \A l \in M : \E s \in M \cap Stop : f[l] = value[s]
<1> USE DEF GoesDown
<1>a. \A l \in D : f[l] = (IF l \in Stop THEN value[l] ELSE f[next[l]])
  BY Zenon DEF IsSearch
<1> DEFINE Found(l) == \E s \in M \cap Stop : f[l] = value[s]
           T == {k \in 0 .. N + 1 : \A l \in M : rank[l] < k => Found(l)}
<1>1. 0 \in T
  OBVIOUS
<1>2. ASSUME NEW k \in 1 .. N + 1, k - 1 \in T
      PROVE  k \in T
  <2>1. ASSUME NEW l \in M, rank[l] < k
        PROVE  Found(l)
    <3>1. CASE l \in Stop
      BY <1>a, <3>1
    <3>2. CASE ~(l \in Stop)
      <4>1. next[l] \in M /\ rank[next[l]] < k - 1
        BY <2>1, <3>2
      <4>2. Found(next[l])
        BY <1>2, <4>1
      <4>3. f[l] = f[next[l]]
        BY <1>a, <3>2
      <4>4. QED
        BY <4>2, <4>3
    <3>3. QED
      BY <3>1, <3>2
  <2> HIDE DEF Found
  <2>2. QED
    BY <2>1
<1> HIDE DEF Found
<1>3. T = 0 .. N + 1
  BY <1>1, <1>2, InductionUpTo, N + 1 \in Nat
<1>4. \A l \in M : Found(l)
  BY <1>3, N + 1 \in 0 .. N + 1
<1>5. QED
  BY <1>4 DEF Found

(***************************************************************************)
(* The allocation table.                                                   *)
(***************************************************************************)

WholeClusters ==
    \A e \in AllEntries : IsMultiple(layout.lbn[e], asked.cluster) /\ IsMultiple(layout.count[e], asked.cluster)

EndIsTaken ==
    /\ layout.lbn["volEnd"] = LastWhole(asked) /\ layout.count["volEnd"] = VolEndCount(asked)
    /\ layout.lbn["badBlock"] = LastWhole(asked)
    /\ layout.count["badBlock"] = IF asked.blocks % asked.cluster # 0 THEN asked.cluster ELSE 0

WithinVolume == \A e \in Structures : layout.lbn[e] + layout.count[e] <= LastWhole(asked)

Table == [lbn : [AllEntries -> Nat], count : [AllEntries -> Nat], realHome : Int]

TableOK ==
    /\ asked \in Options
    /\ layout \in Table
    /\ WholeClusters
    /\ EndIsTaken
    /\ WithinVolume

\* The table's numbers.
LEMMA TableTypes ==
    ASSUME TableOK
    PROVE  /\ asked.cluster \in Nat \ {0} /\ asked.blocks \in Nat \ {0}
           /\ \A e \in AllEntries : layout.lbn[e] \in Nat /\ layout.count[e] \in Nat
BY OptionTypes DEF TableOK, Table

\* No entry ends past the bits of the storage map.
LEMMA EntriesEnd ==
    ASSUME TableOK, NEW e \in AllEntries
    PROVE  layout.lbn[e] + layout.count[e] <= VolumeSize(asked) + Bits * asked.cluster
<1>1. /\ VolumeSize(asked) \in Nat /\ LastWhole(asked) \in Nat /\ VolEndCount(asked) \in Nat
      /\ LastWhole(asked) <= asked.blocks /\ asked.blocks <= VolumeSize(asked)
      /\ VolEndCount(asked) <= Bits * asked.cluster /\ asked.cluster <= VolEndCount(asked)
  BY VolumeEnds DEF TableOK
<1>2. /\ asked.cluster \in Nat \ {0} /\ asked.blocks \in Nat
      /\ layout.lbn[e] \in Nat /\ layout.count[e] \in Nat
  BY TableTypes
<1>3. PICK most \in Nat : most = Bits * asked.cluster
  BY <1>2, SizeTypes
<1>4. CASE e \in Structures
  BY <1>1, <1>2, <1>3, <1>4 DEF TableOK, WithinVolume
<1>5. CASE e = "volEnd"
  BY <1>1, <1>2, <1>3, <1>5 DEF TableOK, EndIsTaken
<1>6. CASE e = "badBlock"
  BY <1>1, <1>2, <1>3, <1>6 DEF TableOK, EndIsTaken
<1>7. QED
  BY <1>4, <1>5, <1>6 DEF AllEntries

\* Conflict is an entry in use that the blocks overlap.
LEMMA ConflictOverlaps ==
    ASSUME NEW l, NEW n, ~IsFree(l, n)
    PROVE  /\ Conflict(l, n) \in AllEntries
           /\ Overlap(l, n, layout.lbn[Conflict(l, n)], layout.count[Conflict(l, n)])
<1>1. Conflicting(l, n) \subseteq 1 .. 10 /\ Conflicting(l, n) # {}
  BY TableNames DEF IsFree, Conflicting
<1>2. \E least \in Conflicting(l, n) : \A m \in Conflicting(l, n) : least <= m
  BY <1>1, LeastNatural
<1>3. Least(Conflicting(l, n)) \in Conflicting(l, n)
  BY <1>2 DEF Least
<1>4. QED
  BY <1>1, <1>3, TableNames DEF Conflicting, Conflict

\* Blocks that are free overlap no entry in use.
LEMMA FreeOverlapsNothing ==
    ASSUME NEW l, NEW n, IsFree(l, n), NEW e \in AllEntries, layout.count[e] > 0
    PROVE  ~Overlap(l, n, layout.lbn[e], layout.count[e])
<1>1. PICK i \in 1 .. 10 : Entries[i] = e
  BY TableNames
<1>2. i \in DOMAIN Entries /\ e \in Placed
  BY TableNames DEF Placed
<1>3. i \notin Conflicting(l, n)
  BY DEF IsFree
<1>4. QED
  BY <1>1, <1>2, <1>3 DEF Conflicting

\* Free whole clusters before the end of the volume are whole ones of the device,
\* and share no block with a structure.
LEMMA FreeIsApart ==
    ASSUME TableOK, NEW l \in Nat, NEW n \in Nat, l < VolumeSize(asked), IsFree(l, n)
    PROVE  /\ l + n <= LastWhole(asked)
           /\ \A e \in Structures : (l .. l + n - 1) \cap BlocksOf(e) = {}
<1>1. /\ VolumeSize(asked) \in Nat /\ LastWhole(asked) \in Nat /\ VolEndCount(asked) \in Nat
      /\ VolumeSize(asked) <= LastWhole(asked) + asked.cluster
      /\ asked.cluster <= VolEndCount(asked)
  BY VolumeEnds DEF TableOK
<1>2. asked.cluster \in Nat \ {0} /\ \A e \in AllEntries : layout.lbn[e] \in Nat /\ layout.count[e] \in Nat
  BY TableTypes
<1>3. l + n <= LastWhole(asked)
  <2>1. /\ "volEnd" \in AllEntries /\ layout.lbn["volEnd"] = LastWhole(asked)
        /\ layout.count["volEnd"] = VolEndCount(asked)
    BY DEF TableOK, EndIsTaken, AllEntries
  <2>2. layout.count["volEnd"] > 0
    BY <1>1, <1>2, <2>1
  <2>3. ~Overlap(l, n, LastWhole(asked), VolEndCount(asked))
    BY <2>1, <2>2, FreeOverlapsNothing
  <2>4. QED
    BY <1>1, <1>2, <2>3 DEF Overlap
<1>4. ASSUME NEW e \in Structures, NEW b \in l .. l + n - 1, b \in BlocksOf(e)
      PROVE  FALSE
  <2>1. /\ e \in AllEntries /\ layout.lbn[e] \in Nat /\ layout.count[e] \in Nat
    BY <1>2 DEF AllEntries
  <2>2. b \in Int /\ layout.lbn[e] <= b /\ b < layout.lbn[e] + layout.count[e] /\ l <= b /\ b < l + n
    BY <1>4, <2>1 DEF BlocksOf
  <2>3. layout.count[e] > 0
    BY <2>1, <2>2
  <2>4. ~Overlap(l, n, layout.lbn[e], layout.count[e])
    BY <2>1, <2>3, FreeOverlapsNothing
  <2>5. QED
    BY <2>1, <2>2, <2>4 DEF Overlap
<1>5. QED
  BY <1>3, <1>4

\* The search for n blocks finds free whole clusters before the end of the volume,
\* those it starts at if they are.
LEMMA PlaceFromFindsRoom ==
    ASSUME TableOK, NEW start \in Int, NEW n \in Nat, IsMultiple(n, asked.cluster), NEW reverse \in BOOLEAN,
           PlaceFrom(start, n, reverse) # NoRoom
    PROVE  /\ PlaceFrom(start, n, reverse) \in Nat
           /\ PlaceFrom(start, n, reverse) < VolumeSize(asked)
           /\ IsMultiple(PlaceFrom(start, n, reverse), asked.cluster)
           /\ IsFree(PlaceFrom(start, n, reverse), n)
           /\ IsFree((start \div asked.cluster) * asked.cluster, n)
                => PlaceFrom(start, n, reverse) = (start \div asked.cluster) * asked.cluster
<1> DEFINE top == VolumeSize(asked) + Bits * asked.cluster
           D == 0 .. top
           Stop == {l \in D : \/ l >= VolumeSize(asked)
                              \/ IsFree(l, n)
                              \/ reverse /\ layout.lbn[Conflict(l, n)] < n}
           value == [l \in D |-> IF l >= VolumeSize(asked) THEN NoRoom ELSE IF IsFree(l, n) THEN l ELSE NoRoom]
           next == [l \in D |-> IF ~reverse THEN layout.lbn[Conflict(l, n)] + layout.count[Conflict(l, n)]
                                ELSE layout.lbn[Conflict(l, n)] - n]
           rank == [l \in D |-> IF reverse THEN l ELSE top - l]
           Step(g, l) == IF l >= VolumeSize(asked) THEN NoRoom
                         ELSE IF IsFree(l, n) THEN l
                         ELSE IF ~reverse THEN g[layout.lbn[Conflict(l, n)] + layout.count[Conflict(l, n)]]
                         ELSE IF layout.lbn[Conflict(l, n)] < n THEN NoRoom
                         ELSE g[layout.lbn[Conflict(l, n)] - n]
           from == CHOOSE from : from = [l \in D |-> Step(from, l)]
           M == {l \in D : IsMultiple(l, asked.cluster)}
<1>1. /\ VolumeSize(asked) \in Nat /\ asked.cluster \in Nat \ {0} /\ Bits \in Nat
      /\ \A e \in AllEntries : layout.lbn[e] \in Nat /\ layout.count[e] \in Nat
  BY TableTypes, VolumeEnds, SizeTypes DEF TableOK
<1>2. top \in Nat /\ VolumeSize(asked) <= top
  BY <1>1
<1>3. ASSUME NEW l \in D, ~(l \in Stop)
      PROVE  /\ next[l] \in D /\ rank[next[l]] < rank[l]
             /\ l \in M => next[l] \in M
  <2> DEFINE c == Conflict(l, n)
  <2>1. /\ l \in Nat /\ l < VolumeSize(asked) /\ ~IsFree(l, n)
        /\ ~(reverse /\ layout.lbn[c] < n)
    BY <1>1, <1>2, <1>3
  <2>2. c \in AllEntries /\ Overlap(l, n, layout.lbn[c], layout.count[c])
    BY <2>1, ConflictOverlaps
  <2>3. /\ layout.lbn[c] \in Nat /\ layout.count[c] \in Nat
        /\ IsMultiple(layout.lbn[c], asked.cluster) /\ IsMultiple(layout.count[c], asked.cluster)
        /\ layout.lbn[c] + layout.count[c] <= top
    BY <1>1, <2>2, EntriesEnd DEF TableOK, WholeClusters
  <2>4. l < layout.lbn[c] + layout.count[c] /\ layout.lbn[c] < l + n
    BY <2>2 DEF Overlap
  <2> HIDE DEF c
  <2>5. CASE ~reverse
    <3>1. next[l] = layout.lbn[c] + layout.count[c]
      BY <2>5 DEF c
    <3>2. next[l] \in D /\ IsMultiple(next[l], asked.cluster)
      <4>1. layout.lbn[c] + layout.count[c] \in D
        BY <1>2, <2>3
      <4>2. IsMultiple(layout.lbn[c] + layout.count[c], asked.cluster)
        BY ONLY <1>1, <2>3, MultiplesAdd
      <4>3. QED
        BY <3>1, <4>1, <4>2, Zenon
    <3>3. rank[next[l]] = top - next[l] /\ rank[l] = top - l
      BY <2>5, <3>2
    <3> HIDE DEF next, rank, top
    <3>4. rank[next[l]] < rank[l]
      BY <1>2, <2>1, <2>3, <2>4, <3>1, <3>3
    <3>5. QED
      BY <3>2, <3>4
  <2>6. CASE reverse
    <3>1. next[l] = layout.lbn[c] - n
      BY <2>6 DEF c
    <3>2. n <= layout.lbn[c]
      BY <2>1, <2>3, <2>6 DEF c
    <3>3. next[l] \in D /\ next[l] < l
      BY <1>1, <1>2, <2>1, <2>3, <2>4, <3>1, <3>2, SMTT(30)
    <3>4. IsMultiple(next[l], asked.cluster)
      BY <1>1, <2>3, <3>1, <3>2, MultiplesAdd
    <3>5. rank[next[l]] = next[l] /\ rank[l] = l
      BY <2>6, <3>3
    <3>6. QED
      BY <3>3, <3>4, <3>5
  <2>7. QED
    BY <2>5, <2>6
<1>4. \A l \in D : rank[l] \in 0 .. top
  BY <1>2
<1>5. \A l \in D : \A g : Step(g, l) = (IF l \in Stop THEN value[l] ELSE g[next[l]])
  BY Zenon
<1>6. GoesDown(D, top, rank, Stop, next) /\ GoesDown(M, top, rank, Stop, next) /\ M \subseteq D
  <2>1. \A l \in D : ~(l \in Stop) => next[l] \in D /\ rank[next[l]] < rank[l]
    BY <1>3, Zenon
  <2>2. \A l \in M : ~(l \in Stop) => next[l] \in M /\ rank[next[l]] < rank[l]
    BY <1>3, Zenon
  <2> HIDE DEF D, Stop, next, rank, top
  <2>3. QED
    BY <1>2, <1>4, <2>1, <2>2, Zenon DEF GoesDown
<1>7. \A l \in M : l \in Nat /\ IsMultiple(l, asked.cluster)
  BY <1>2
<1>8. \A l \in Stop : \/ value[l] = NoRoom
                      \/ l < VolumeSize(asked) /\ IsFree(l, n) /\ value[l] = l
  BY <1>1, <1>2
<1> HIDE DEF D, Stop, value, next, rank, top
<1>9. from = [l \in D |-> Step(from, l)]
  <2>1. PICK g : IsSearch(g, D, Stop, value, next)
    BY <1>6, SearchExists
  <2>2. g = [l \in D |-> Step(g, l)]
    BY <1>5, <2>1 DEF IsSearch
  <2> HIDE DEF Step
  <2>3. QED
    BY <2>2, Zenon
<1> HIDE DEF from
<1>10. IsSearch(from, D, Stop, value, next)
  BY <1>5, <1>9 DEF IsSearch
<1> HIDE DEF M
<1>11. \A l \in M : \E s \in M \cap Stop : from[l] = value[s]
  BY <1>6, <1>10, SearchStops
<1> DEFINE first == (start \div asked.cluster) * asked.cluster
<1>12. PlaceFrom(start, n, reverse) = (IF start < 0 \/ start >= VolumeSize(asked) THEN NoRoom ELSE from[first])
  BY Zenon DEF PlaceFrom, from, D, top
<1>13. 0 <= start /\ start < VolumeSize(asked) /\ PlaceFrom(start, n, reverse) = from[first]
  BY <1>1, <1>12
<1>14. first \in M
  <2>1. PICK m \in Nat, unit \in Nat \ {0} : m = start /\ unit = asked.cluster
    BY <1>1, <1>13
  <2>2. (m \div unit) * unit \in Nat /\ (m \div unit) * unit <= m /\ IsMultiple((m \div unit) * unit, unit)
    BY ONLY <2>1, Quotients, Roundings
  <2>3. QED
    BY <1>1, <1>2, <1>13, <2>1, <2>2 DEF M, D
<1>15. PICK s \in M \cap Stop : from[first] = value[s]
  BY <1>11, <1>14
<1>16. s < VolumeSize(asked) /\ IsFree(s, n) /\ value[s] = s
  BY <1>8, <1>13, <1>15, Zenon
<1>17. s \in Nat /\ IsMultiple(s, asked.cluster)
  BY <1>7, <1>15, Zenon
<1>18. IsFree(first, n) => from[first] = first
  <2>1. first \in D /\ ~(first >= VolumeSize(asked))
    <3>1. PICK m \in Nat, unit \in Nat \ {0} : m = start /\ unit = asked.cluster
      BY <1>1, <1>13
    <3>2. (m \div unit) * unit \in Nat /\ (m \div unit) * unit <= m
      BY ONLY <3>1, Quotients
    <3>3. first \in Nat /\ first <= start
      BY <3>1, <3>2
    <3>4. QED
      BY <1>1, <1>2, <1>13, <3>3 DEF D
  <2> HIDE DEF first
  <2>2. from[first] = Step(from, first)
    BY <1>9, <2>1, Zenon
  <2>3. QED
    BY <2>1, <2>2, Zenon
<1>19. QED
  BY <1>13, <1>15, <1>16, <1>17, <1>18

\* The home block is in a free cluster before the end of the volume.
LEMMA RealHomeIsFree ==
    ASSUME TableOK, RealHome # NoRoom
    PROVE  /\ RealHome \in Nat
           /\ ClusterOf(RealHome) \in Nat
           /\ ClusterOf(RealHome) < VolumeSize(asked)
           /\ IsMultiple(ClusterOf(RealHome), asked.cluster)
           /\ IsFree(ClusterOf(RealHome), asked.cluster)
<1> DEFINE free == {l \in OnSequence : IsFree(ClusterOf(l), asked.cluster)}
<1>1. VolumeSize(asked) \in Nat /\ asked.cluster \in Nat \ {0}
  BY TableTypes, VolumeEnds DEF TableOK
<1>2. RealHome = Least(free) /\ free # {}
  BY DEF RealHome
<1>3. free \subseteq 0 .. VolumeSize(asked) - 1
  BY DEF OnSequence
<1>4. \E least \in free : \A m \in free : least <= m
  BY <1>1, <1>2, <1>3, LeastNatural
<1>5. Least(free) \in free
  BY <1>4 DEF Least
<1> HIDE DEF free
<1>6. PICK l \in 0 .. VolumeSize(asked) - 1 : l = RealHome
  BY <1>2, <1>3, <1>5
<1>7. IsFree(ClusterOf(l), asked.cluster)
  BY <1>2, <1>5, <1>6 DEF free
<1>8. /\ ClusterOf(l) \in Nat /\ ClusterOf(l) <= l /\ IsMultiple(ClusterOf(l), asked.cluster)
  <2>1. PICK unit \in Nat \ {0} : unit = asked.cluster
    BY <1>1
  <2>2. l \in Nat
    BY <1>6
  <2>3. (l \div unit) * unit \in Nat /\ (l \div unit) * unit <= l /\ IsMultiple((l \div unit) * unit, unit)
    BY ONLY <2>1, <2>2, Quotients, Roundings
  <2>4. QED
    BY <2>1, <2>3, Zenon DEF ClusterOf
<1>9. QED
  BY <1>1, <1>6, <1>7, <1>8

\* Clusters of an entry are those whose first blocks are its.
LEMMA ClustersOfEntry ==
    ASSUME TableOK, NEW e \in AllEntries, NEW cl \in Nat
    PROVE  cl \in layout.lbn[e] \div asked.cluster .. (layout.lbn[e] + layout.count[e]) \div asked.cluster - 1
             <=> layout.lbn[e] <= cl * asked.cluster /\ cl * asked.cluster < layout.lbn[e] + layout.count[e]
<1>1. PICK unit \in Nat \ {0} : unit = asked.cluster
  BY TableTypes
<1>2. PICK a \in Nat : layout.lbn[e] = a * unit
  BY <1>1 DEF TableOK, WholeClusters, IsMultiple
<1>3. PICK b \in Nat : layout.count[e] = b * unit
  BY <1>1 DEF TableOK, WholeClusters, IsMultiple
<1>4. layout.lbn[e] + layout.count[e] = (a + b) * unit /\ a + b \in Nat
  BY <1>1, <1>2, <1>3
<1>5. (a * unit) \div unit = a /\ ((a + b) * unit) \div unit = a + b
  BY ONLY <1>1, <1>2, <1>3, <1>4, MultipleDivides
<1>6. (a * unit <= cl * unit <=> a <= cl) /\ (cl * unit < (a + b) * unit <=> cl < a + b)
  <2>1. PICK s \in Nat : s = a + b
    BY <1>4
  <2>2. a * unit <= cl * unit <=> a <= cl
    BY <1>1, <1>2, ProductsAreOrdered
  <2>3. cl * unit < s * unit <=> cl < s
    BY <1>1, <2>1, ProductsAreOrdered
  <2>4. QED
    BY <2>1, <2>2, <2>3
<1>7. cl \in a .. (a + b) - 1 <=> a <= cl /\ cl < a + b
  BY <1>2, <1>3
<1>8. QED
  BY <1>1, <1>2, <1>4, <1>5, <1>6, <1>7

Taken == {l \in 0 .. LastWhole(asked) - 1 : \E e \in Structures : l \in BlocksOf(e)}

\* The storage bitmap's clusters in use are the structures' and those no cluster
\* of the device is behind.
LEMMA BitmapIsExact ==
    ASSUME TableOK, NEW cl \in 0 .. StorageMapBlocks(asked) * Bits - 1
    PROVE  cl \in InUse <=> \/ (cl + 1) * asked.cluster > asked.blocks
                            \/ cl * asked.cluster \in Taken
<1>1. PICK unit \in Nat \ {0} : unit = asked.cluster
  BY TableTypes
<1>2. PICK q \in Nat : q = asked.blocks \div asked.cluster
  BY TableTypes, Quotients
<1>3. /\ LastWhole(asked) = q * unit /\ LastWhole(asked) \in Nat /\ asked.blocks \in Nat
      /\ LastWhole(asked) <= asked.blocks /\ asked.blocks < LastWhole(asked) + unit
  BY <1>1, <1>2, VolumeEnds, TableTypes DEF LastWhole, TableOK
<1>4. cl \in Nat /\ StorageMapBlocks(asked) * Bits \in Nat /\ cl < StorageMapBlocks(asked) * Bits
  BY Needs, SizeTypes DEF TableOK
<1>5. PICK bits \in Nat \ {0} : bits = Bits
  BY SizeTypes
<1>6. PICK past \in 1 .. bits : past = bits - (q % bits)
  BY <1>2, <1>5, Quotients
<1>7. cl < q + past
  <2>1. StorageMapBlocks(asked) * Bits <= q + bits - (q % bits)
    BY <1>2, <1>5, MapCoversVolume DEF TableOK
  <2>2. q % bits \in Int
    BY <1>2, <1>5, Quotients
  <2>3. QED
    BY <1>2, <1>4, <1>5, <1>6, <2>1, <2>2
<1>8. VolEndCount(asked) = past * unit
  BY <1>1, <1>2, <1>5, <1>6 DEF VolEndCount
<1>9. /\ (cl + 1) * unit > asked.blocks <=> q <= cl
      /\ q <= cl <=> q * unit <= cl * unit
  <2>1. q <= cl => (q + 1) * unit <= (cl + 1) * unit
    BY <1>1, <1>2, <1>4, ProductsAreOrdered
  <2>2. cl < q => (cl + 1) * unit <= q * unit
    BY <1>1, <1>2, <1>4, ProductsAreOrdered
  <2>3. (q + 1) * unit = q * unit + unit /\ (cl + 1) * unit \in Nat /\ q * unit \in Nat
    BY <1>1, <1>2, <1>4
  <2>4. q <= cl <=> q * unit <= cl * unit
    BY <1>1, <1>2, <1>4, ProductsAreOrdered
  <2>5. (cl + 1) * unit > asked.blocks <=> q <= cl
    BY <1>1, <1>2, <1>3, <1>4, <2>1, <2>2, <2>3
  <2>6. QED
    BY <2>4, <2>5
<1>10. cl * unit \in Nat
  BY <1>1, <1>4
<1>11. cl \in InUse <=> \E e \in AllEntries : /\ layout.count[e] > 0
                                              /\ layout.lbn[e] <= cl * unit
                                              /\ cl * unit < layout.lbn[e] + layout.count[e]
  BY <1>1, <1>4, ClustersOfEntry, TableNames DEF InUse, Placed
<1>12. \A e \in AllEntries : layout.lbn[e] \in Nat /\ layout.count[e] \in Nat
  BY TableTypes
<1>13. ASSUME cl \in InUse
       PROVE  q <= cl \/ cl * unit \in Taken
  <2>1. PICK e \in AllEntries : layout.lbn[e] <= cl * unit /\ cl * unit < layout.lbn[e] + layout.count[e]
    BY <1>11, <1>13
  <2>2. CASE e \in Structures
    <3>1. layout.lbn[e] + layout.count[e] <= LastWhole(asked)
      BY <2>2 DEF TableOK, WithinVolume
    <3>2. cl * unit \in BlocksOf(e) /\ cl * unit \in 0 .. LastWhole(asked) - 1
      BY <1>3, <1>10, <1>12, <2>1, <3>1 DEF BlocksOf
    <3>3. QED
      BY <2>2, <3>2 DEF Taken
  <2>3. CASE e \in {"volEnd", "badBlock"}
    <3>1. layout.lbn[e] = q * unit
      BY <1>3, <2>3 DEF TableOK, EndIsTaken
    <3>2. QED
      BY <1>9, <2>1, <3>1
  <2>4. QED
    BY <2>2, <2>3 DEF AllEntries
<1>14. ASSUME q <= cl
       PROVE  cl \in InUse
  <2>1. cl * unit < (q + past) * unit
    BY <1>1, <1>2, <1>4, <1>6, <1>7, ProductsAreOrdered
  <2>2. (q + past) * unit = q * unit + past * unit /\ past * unit > 0
    BY <1>1, <1>2, <1>6
  <2>3. /\ "volEnd" \in AllEntries /\ layout.lbn["volEnd"] = q * unit
        /\ layout.count["volEnd"] = past * unit
    BY <1>3, <1>8 DEF TableOK, EndIsTaken, AllEntries
  <2>4. QED
    BY <1>9, <1>11, <1>14, <2>1, <2>2, <2>3
<1>15. ASSUME cl * unit \in Taken
       PROVE  cl \in InUse
  <2>1. PICK e \in Structures : cl * unit \in BlocksOf(e)
    BY <1>15 DEF Taken
  <2>2. e \in AllEntries
    BY DEF AllEntries
  <2>3. layout.lbn[e] <= cl * unit /\ cl * unit < layout.lbn[e] + layout.count[e]
    BY <1>10, <1>12, <2>1, <2>2 DEF BlocksOf
  <2>4. layout.count[e] > 0
    BY <1>10, <1>12, <2>2, <2>3
  <2>5. QED
    BY <1>11, <2>2, <2>3, <2>4
<1>16. QED
  BY <1>1, <1>9, <1>13, <1>14, <1>15

(***************************************************************************)
(* Placing.                                                                *)
(***************************************************************************)

StructuresDisjoint == \A e, f \in Structures : e # f => BlocksOf(e) \cap BlocksOf(f) = {}

\* The structures placed so far have the blocks they need, in whole clusters.
Sized == \A k \in 1 .. 8 : k <= steps => layout.count[PlaceOrder(asked)[k]] = BlocksNeeded(PlaceOrder(asked)[k])

\* The map blocks of BITMAP.SYS are written in their place, and in no other.
MapWritten ==
    \A l \in DOMAIN disk :
      IF l \in layout.lbn["bitmap"] + 1 .. layout.lbn["bitmap"] + StorageMapBlocks(asked)
      THEN disk[l] = MapBlock(l - layout.lbn["bitmap"] - 1)
      ELSE disk[l].kind # "map"

DiskOK ==
    /\ DOMAIN disk = 0 .. asked.blocks - 1
    /\ steps \in 0 .. 15
    /\ status = "done" => steps = 15
    /\ steps <= 12 => \A l \in DOMAIN disk : disk[l].kind # "map"
    /\ steps > 12 => MapWritten

\* The inductive invariant.
LayoutOK == TableOK /\ StructuresDisjoint /\ Sized /\ DiskOK

\* A structure needs whole clusters.
LEMMA BlocksNeededIsWhole ==
    ASSUME asked \in Options, NEW e \in Structures
    PROVE  /\ BlocksNeeded(e) \in Nat /\ IsMultiple(BlocksNeeded(e), asked.cluster)
           /\ Needed(e, asked) \in Nat /\ Needed(e, asked) <= BlocksNeeded(e)
<1>1. Needed(e, asked) \in Nat /\ asked.cluster \in Nat \ {0}
  BY Needs, OptionTypes
<1>2. QED
  BY <1>1, Roundings DEF BlocksNeeded

\* The place of a structure is free and of whole clusters.
LEMMA PlaceOfIsFree ==
    ASSUME TableOK, NEW e \in Structures, PlaceOf(e, BlocksNeeded(e)) # NoRoom
    PROVE  /\ PlaceOf(e, BlocksNeeded(e)) \in Nat
           /\ PlaceOf(e, BlocksNeeded(e)) < VolumeSize(asked)
           /\ IsMultiple(PlaceOf(e, BlocksNeeded(e)), asked.cluster)
           /\ IsFree(PlaceOf(e, BlocksNeeded(e)), BlocksNeeded(e))
<1>1. CASE IsHome(e)
  <2>1. BlocksNeeded(e) = asked.cluster
    <3>1. Needed(e, asked) = 1
      BY <1>1 DEF IsHome, Needed
    <3>2. QED
      BY <3>1, OneRounded, TableTypes DEF BlocksNeeded
  <2>2. RealHome # NoRoom /\ PlaceOf(e, BlocksNeeded(e)) = ClusterOf(RealHome)
    BY <1>1 DEF PlaceOf
  <2>3. QED
    BY <2>1, <2>2, RealHomeIsFree
<1>2. CASE ~IsHome(e)
  <2> DEFINE reverse == IsAtEnd(asked) /\ e \notin {"boot", "home1"}
             start == StartOf(e, asked)
  <2>1. PlaceOf(e, BlocksNeeded(e)) = PlaceFrom(start, BlocksNeeded(e), reverse)
    BY <1>2 DEF PlaceOf
  <2>2. start \in Int
    <3>1. /\ asked.blocks \in Nat /\ asked.at \in Nat /\ asked.delta \in Nat /\ asked.cluster \in Nat \ {0}
      BY OptionTypes DEF TableOK
    <3>2. Delta(asked) \in Int
      BY <3>1 DEF Delta
    <3>3. asked.blocks \div 2 \in Int
      BY <3>1
    <3>4. IndexStart(asked) \in Int
      BY <3>1, <3>3 DEF IndexStart
    <3>5. layout.lbn["index"] \in Nat
      BY TableTypes DEF AllEntries, Structures
    <3>6. QED
      BY <3>2, <3>4, <3>5 DEF StartOf
  <2>3. BlocksNeeded(e) \in Nat /\ IsMultiple(BlocksNeeded(e), asked.cluster)
    BY BlocksNeededIsWhole DEF TableOK
  <2>4. reverse \in BOOLEAN
    BY DEF IsAtEnd
  <2> HIDE DEF reverse, start
  <2>5. QED
    BY <1>2, <2>1, <2>2, <2>3, <2>4, PlaceFromFindsRoom
<1>3. QED
  BY <1>1, <1>2

\* Placing a structure keeps it apart from the others.
LEMMA PlaceKeepsApart ==
    ASSUME LayoutOK, Place
    PROVE  LayoutOK'
<1> DEFINE e == PlaceOrder(asked)[steps + 1]
           n == BlocksNeeded(e)
           l == PlaceOf(e, n)
<1>1. /\ steps \in 0 .. 7 /\ steps' = steps + 1 /\ asked' = asked /\ disk' = disk /\ status' = status
      /\ status = "running"
  BY OrderNames, SMTT(30) DEF Place, LayoutOK, DiskOK
<1>2. /\ l # NoRoom
      /\ layout' = [layout EXCEPT !.lbn[e] = l, !.count[e] = n, !.realHome = IF IsHome(e) THEN RealHome ELSE @]
  BY DEF Place
<1>3. e \in Structures /\ e \in AllEntries /\ e \notin {"volEnd", "badBlock"}
  BY <1>1, OrderNames DEF AllEntries, Structures
<1>4. TableOK /\ layout \in Table /\ asked \in Options
  BY DEF LayoutOK, TableOK
<1>5. n \in Nat /\ IsMultiple(n, asked.cluster)
  BY <1>3, <1>4, BlocksNeededIsWhole
<1>6. l \in Nat /\ l < VolumeSize(asked) /\ IsMultiple(l, asked.cluster) /\ IsFree(l, n)
  BY <1>2, <1>3, <1>4, PlaceOfIsFree
<1> HIDE DEF l, n
<1>7. /\ l + n <= LastWhole(asked)
      /\ \A f \in Structures : (l .. l + n - 1) \cap BlocksOf(f) = {}
  BY <1>4, <1>5, <1>6, FreeIsApart
<1>8. (IF IsHome(e) THEN RealHome ELSE layout.realHome) \in Int
  <2>1. layout.realHome \in Int
    BY <1>4 DEF Table
  <2>2. RealHome \in Int
    BY <1>4, RealHomeIsFree DEF NoRoom
  <2>3. QED
    BY <2>1, <2>2
<1> HIDE DEF e
<1>9. /\ layout' \in Table
      /\ layout'.lbn = [layout.lbn EXCEPT ![e] = l] /\ layout'.count = [layout.count EXCEPT ![e] = n]
  BY <1>2, <1>3, <1>4, <1>5, <1>6, <1>8 DEF Table
<1>10. /\ layout'.lbn[e] = l /\ layout'.count[e] = n
       /\ \A f \in AllEntries : f # e => layout'.lbn[f] = layout.lbn[f] /\ layout'.count[f] = layout.count[f]
  BY <1>3, <1>4, <1>9 DEF Table
<1>11. TableOK'
  <2>1. WholeClusters'
    BY <1>1, <1>4, <1>5, <1>6, <1>10 DEF WholeClusters, TableOK
  <2>2. EndIsTaken'
    BY <1>1, <1>3, <1>4, <1>10 DEF EndIsTaken, TableOK, AllEntries
  <2>3. WithinVolume'
    BY <1>1, <1>4, <1>7, <1>10 DEF WithinVolume, TableOK, AllEntries
  <2>4. QED
    BY <1>1, <1>4, <1>9, <2>1, <2>2, <2>3 DEF TableOK
<1>12. StructuresDisjoint'
  <2>1. PICK d, place, size : d = e /\ place = l /\ size = n
    OBVIOUS
  <2>2. BlocksOf(d)' = place .. place + size - 1
    BY <1>10, <2>1 DEF BlocksOf
  <2>3. \A f \in Structures : f # d => BlocksOf(f)' = BlocksOf(f)
    BY <1>10, <2>1 DEF BlocksOf, AllEntries
  <2>4. \A f \in Structures : (place .. place + size - 1) \cap BlocksOf(f) = {}
    BY <1>7, <2>1
  <2>5. ASSUME NEW f \in Structures, NEW g \in Structures, f # g
        PROVE  BlocksOf(f)' \cap BlocksOf(g)' = {}
    <3>1. BlocksOf(f) \cap BlocksOf(g) = {}
      BY <2>5 DEF StructuresDisjoint, LayoutOK
    <3>2. CASE f = d
      BY <2>2, <2>3, <2>4, <2>5, <3>2
    <3>3. CASE g = d
      BY <2>2, <2>3, <2>4, <2>5, <3>3
    <3>4. CASE f # d /\ g # d
      BY <2>3, <3>1, <3>4
    <3>5. QED
      BY <3>2, <3>3, <3>4
  <2>6. QED
    BY <2>5 DEF StructuresDisjoint
<1>13. Sized'
  <2>1. \A k \in 1 .. 8 : BlocksNeeded(PlaceOrder(asked)[k])' = BlocksNeeded(PlaceOrder(asked)[k])
    BY <1>1 DEF BlocksNeeded
  <2>2. ASSUME NEW k \in 1 .. 8, k <= steps + 1
        PROVE  layout'.count[PlaceOrder(asked)[k]] = BlocksNeeded(PlaceOrder(asked)[k])
    <3>1. CASE PlaceOrder(asked)[k] = e
      BY <1>10, <3>1 DEF n
    <3>2. CASE PlaceOrder(asked)[k] # e
      <4>1. k <= steps /\ PlaceOrder(asked)[k] \in AllEntries
        BY <1>1, <2>2, <3>2, OrderNames DEF e, AllEntries
      <4>2. QED
        BY <1>10, <3>2, <4>1 DEF LayoutOK, Sized
    <3>3. QED
      BY <3>1, <3>2
  <2>3. QED
    BY <1>1, <2>1, <2>2 DEF Sized
<1>14. DiskOK'
  BY <1>1 DEF LayoutOK, DiskOK
<1>15. QED
  BY <1>11, <1>12, <1>13, <1>14 DEF LayoutOK

(***************************************************************************)
(* Writing.                                                                *)
(***************************************************************************)

\* When each write is done.
LEMMA DoingSteps ==
    ASSUME NEW k \in Nat, Doing(k)
    PROVE  status = "running" /\ steps = 8 + k /\ steps' = 9 + k
<1>1. Len(PlaceOrder(asked)) = 8
  BY OrderNames
<1>2. QED
  BY <1>1 DEF Doing

\* The writes leave the table as it is.
LEMMA TableStays ==
    ASSUME LayoutOK, asked' = asked, layout' = layout, steps' = steps \/ (steps >= 8 /\ steps' = steps + 1)
    PROVE  TableOK' /\ StructuresDisjoint' /\ Sized'
<1>1. TableOK' /\ StructuresDisjoint'
  <2>1. TableOK'
    BY DEF LayoutOK, TableOK, WholeClusters, EndIsTaken, WithinVolume
  <2>2. \A f \in Structures : BlocksOf(f)' = BlocksOf(f)
    BY DEF BlocksOf
  <2>3. StructuresDisjoint'
    BY <2>2 DEF LayoutOK, StructuresDisjoint
  <2>4. QED
    BY <2>1, <2>3
<1>2. \A k \in 1 .. 8 : BlocksNeeded(PlaceOrder(asked)[k])' = BlocksNeeded(PlaceOrder(asked)[k])
  BY DEF BlocksNeeded
<1>3. steps \in Int /\ \A k \in 1 .. 8 : k <= steps' => k <= steps
  BY DEF LayoutOK, DiskOK
<1>4. QED
  BY <1>1, <1>2, <1>3 DEF LayoutOK, Sized

\* Before BITMAP.SYS is written nothing else looks like a map block.
LEMMA EarlierWrites ==
    ASSUME LayoutOK, status = "running", steps \in 8 .. 11, steps' = steps + 1,
           NEW contents, Written(contents), \A l \in DOMAIN contents : contents[l].kind # "map"
    PROVE  LayoutOK'
<1>1. TableOK' /\ StructuresDisjoint' /\ Sized'
  BY TableStays DEF Written
<1>2. DOMAIN disk' = DOMAIN disk /\ \A l \in DOMAIN disk : disk'[l].kind # "map"
  BY DEF Written, LayoutOK, DiskOK
<1>3. DiskOK'
  BY <1>2 DEF Written, LayoutOK, DiskOK
<1>4. QED
  BY <1>1, <1>3 DEF LayoutOK

\* Once all is placed, the map blocks are BITMAP.SYS's, which are the device's,
\* and the MFD's and the security file's first blocks are not among them.
LEMMA MapBlocksPlace ==
    ASSUME LayoutOK, steps >= 8
    PROVE  /\ layout.lbn["bitmap"] \in Nat /\ StorageMapBlocks(asked) \in Nat
           /\ layout.lbn["bitmap"] + StorageMapBlocks(asked) < asked.blocks
           /\ layout.lbn["mfd"] \notin layout.lbn["bitmap"] + 1 .. layout.lbn["bitmap"] + StorageMapBlocks(asked)
           /\ layout.lbn["security"] \notin layout.lbn["bitmap"] + 1 .. layout.lbn["bitmap"] + StorageMapBlocks(asked)
<1>1. TableOK /\ asked \in Options /\ StorageMapBlocks(asked) \in Nat
  BY Needs DEF LayoutOK, TableOK
<1>2. \A e \in Structures : /\ layout.lbn[e] \in Nat /\ layout.count[e] \in Nat
                            /\ layout.lbn[e] + layout.count[e] <= LastWhole(asked)
  BY <1>1, TableTypes DEF TableOK, WithinVolume, AllEntries
<1>3. \A e \in Structures : Needed(e, asked) \in Nat /\ Needed(e, asked) <= layout.count[e]
  <2>1. TAKE e \in Structures
  <2>2. PICK k \in 1 .. 8 : PlaceOrder(asked)[k] = e
    BY OrderNames
  <2>3. layout.count[e] = BlocksNeeded(e)
    BY <2>2 DEF LayoutOK, Sized, DiskOK
  <2>4. QED
    BY <1>1, <2>3, BlocksNeededIsWhole
<1>4. /\ StorageMapBlocks(asked) + 1 <= layout.count["bitmap"]
      /\ 1 <= layout.count["mfd"] /\ 1 <= layout.count["security"]
  BY <1>1, <1>2, <1>3, Needs DEF Structures
<1>5. LastWhole(asked) <= asked.blocks /\ LastWhole(asked) \in Nat /\ asked.blocks \in Nat
  BY <1>1, VolumeEnds, OptionTypes
<1>6. layout.lbn["bitmap"] \in Nat /\ layout.lbn["bitmap"] + StorageMapBlocks(asked) < asked.blocks
  BY <1>1, <1>2, <1>4, <1>5 DEF Structures
<1>7. layout.lbn["bitmap"] + 1 .. layout.lbn["bitmap"] + StorageMapBlocks(asked) \subseteq BlocksOf("bitmap")
  BY <1>1, <1>2, <1>4 DEF BlocksOf, Structures
<1>8. layout.lbn["mfd"] \in BlocksOf("mfd") /\ layout.lbn["security"] \in BlocksOf("security")
  BY <1>2, <1>4 DEF BlocksOf, Structures
<1>9. /\ BlocksOf("mfd") \cap BlocksOf("bitmap") = {}
      /\ BlocksOf("security") \cap BlocksOf("bitmap") = {}
  BY DEF LayoutOK, StructuresDisjoint, Structures
<1>10. QED
  BY <1>1, <1>6, <1>7, <1>8, <1>9

\* What is written stays if nothing is.
LEMMA StillWritten ==
    ASSUME UNCHANGED <<asked, layout, disk>>, MapWritten
    PROVE  MapWritten'
<1>1. \A i : MapBlock(i)' = MapBlock(i)
  BY DEF MapBlock, InUse, Placed
<1>2. QED
  BY <1>1 DEF MapWritten

\* BITMAP.SYS is written in its place.
LEMMA BitmapWrite ==
    ASSUME LayoutOK, WriteStorageBitmap
    PROVE  LayoutOK'
<1> DEFINE first == layout.lbn["bitmap"]
           size == StorageMapBlocks(asked)
           contents == [l \in first .. first + size |-> IF l = first THEN Of("scb") ELSE MapBlock(l - first - 1)]
<1>1. steps = 12 /\ steps' = 13 /\ Written(contents) /\ status = "running"
  <2>1. Doing(4) /\ Written(contents)
    BY Zenon DEF WriteStorageBitmap
  <2>2. Doing(4)
    BY <2>1, Zenon
  <2>3. steps = 12 /\ steps' = 13 /\ status = "running"
    BY ONLY <2>2, DoingSteps
  <2>4. QED
    BY <2>1, <2>3, Zenon
<1>2. TableOK' /\ StructuresDisjoint' /\ Sized'
  BY <1>1, TableStays DEF Written
<1>3. first \in Nat /\ size \in Nat
  BY <1>1, MapBlocksPlace
<1>4. /\ asked' = asked /\ layout' = layout /\ status' = status
      /\ disk' = [l \in DOMAIN disk |-> IF l \in first .. first + size THEN contents[l] ELSE disk[l]]
  BY <1>1 DEF Written
<1>5. DOMAIN disk = 0 .. asked.blocks - 1 /\ \A l \in DOMAIN disk : disk[l].kind # "map" /\ l \in Int
  BY <1>1 DEF LayoutOK, DiskOK
<1>6. \A l \in DOMAIN disk : IF l \in first + 1 .. first + size
                             THEN disk'[l] = MapBlock(l - first - 1)
                             ELSE disk'[l].kind # "map"
  <2>1. TAKE l \in DOMAIN disk
  <2>2. CASE l \in first + 1 .. first + size
    BY <1>3, <1>4, <2>2
  <2>3. CASE l = first
    BY <1>3, <1>4, <2>3 DEF Of
  <2>4. CASE l \notin first .. first + size
    BY <1>3, <1>4, <1>5, <2>4
  <2>5. QED
    BY <1>3, <1>5, <2>2, <2>3, <2>4
<1>7. \A i : MapBlock(i)' = MapBlock(i)
  BY <1>4 DEF MapBlock, InUse, Placed
<1>8. MapWritten'
  BY <1>4, <1>6, <1>7 DEF MapWritten
<1>9. DOMAIN disk' = DOMAIN disk
  BY <1>4
<1>10. DiskOK'
  BY <1>1, <1>4, <1>5, <1>8, <1>9 DEF DiskOK
<1>11. QED
  BY <1>2, <1>10 DEF LayoutOK

\* What is written after it does not run into it.
LEMMA LaterWrites ==
    ASSUME LayoutOK, steps \in 13 .. 14, steps' = steps + 1, UNCHANGED <<asked, layout>>, NEW block, NEW value,
           value.kind # "map", block \notin layout.lbn["bitmap"] + 1 .. layout.lbn["bitmap"] + StorageMapBlocks(asked),
           DOMAIN disk' = DOMAIN disk, \A l \in DOMAIN disk : disk'[l] = IF l = block THEN value ELSE disk[l],
           status' = "done" => steps = 14
    PROVE  LayoutOK'
<1>1. TableOK' /\ StructuresDisjoint' /\ Sized'
  BY TableStays
<1>2. MapWritten
  BY DEF LayoutOK, DiskOK
<1>3. \A i : MapBlock(i)' = MapBlock(i)
  BY DEF MapBlock, InUse, Placed
<1>4. MapWritten'
  BY <1>2, <1>3 DEF MapWritten
<1>5. DiskOK'
  BY <1>4 DEF LayoutOK, DiskOK
<1>6. QED
  BY <1>1, <1>5 DEF LayoutOK

(***************************************************************************)
(* The invariant.                                                          *)
(***************************************************************************)

\* A volume starts with nothing placed but its end.
LEMMA LayoutStarts ==
    ASSUME Init
    PROVE  LayoutOK
<1>1. asked \in Options /\ layout = AtFirst(asked) /\ disk = [l \in 0 .. asked.blocks - 1 |-> Old] /\ steps = 0
  BY DEF Init
<1>2. status # "done"
  BY DEF Init
<1>3. /\ LastWhole(asked) \in Nat /\ IsMultiple(LastWhole(asked), asked.cluster)
      /\ VolEndCount(asked) \in Nat /\ IsMultiple(VolEndCount(asked), asked.cluster)
      /\ asked.cluster \in Nat \ {0} /\ IsMultiple(asked.cluster, asked.cluster) /\ IsMultiple(0, asked.cluster)
  <2>1. asked.cluster \in Nat \ {0}
    BY <1>1, OptionTypes
  <2>2. asked.cluster = 1 * asked.cluster /\ 0 = 0 * asked.cluster
    BY <2>1
  <2>3. QED
    BY <1>1, <2>1, <2>2, VolumeEnds DEF IsMultiple
<1>4. /\ layout.lbn = [e \in AllEntries |-> IF e \in {"badBlock", "volEnd"} THEN LastWhole(asked) ELSE 0]
      /\ layout.count = [e \in AllEntries |->
                           IF e = "volEnd" THEN VolEndCount(asked)
                           ELSE IF e = "badBlock" /\ asked.blocks % asked.cluster # 0 THEN asked.cluster ELSE 0]
  BY <1>1, TableNames DEF AtFirst, VolEndCount
<1>5. layout = [lbn |-> layout.lbn, count |-> layout.count, realHome |-> 0]
  BY <1>1 DEF AtFirst
<1>6. layout \in Table
  <2>1. layout.lbn \in [AllEntries -> Nat]
    BY <1>3, <1>4
  <2>2. layout.count \in [AllEntries -> Nat]
    BY <1>3, <1>4
  <2>3. QED
    BY <1>5, <2>1, <2>2 DEF Table
<1>7. WholeClusters
  BY <1>3, <1>4 DEF WholeClusters
<1>8. EndIsTaken
  BY <1>4 DEF EndIsTaken, AllEntries
<1>9. \A e \in Structures : layout.lbn[e] = 0 /\ layout.count[e] = 0
  BY <1>4 DEF AllEntries, Structures
<1>10. WithinVolume /\ StructuresDisjoint
  BY <1>3, <1>9 DEF WithinVolume, StructuresDisjoint, BlocksOf
<1>11. Sized
  BY <1>1 DEF Sized
<1>12. DiskOK
  BY <1>1, <1>2 DEF DiskOK, Old
<1>13. QED
  BY <1>1, <1>6, <1>7, <1>8, <1>10, <1>11, <1>12 DEF LayoutOK, TableOK

\* Every step keeps the invariant.
LEMMA LayoutSteps ==
    ASSUME LayoutOK, [Next]_vars
    PROVE  LayoutOK'
<1>1. CASE Place
  BY <1>1, PlaceKeepsApart
<1>2. CASE UNCHANGED <<asked, layout, disk, steps>> /\ status' \in {status, "refused", "failed"}
  <2>1. asked' = asked /\ layout' = layout /\ disk' = disk /\ steps' = steps
    BY <1>2
  <2>2. TableOK' /\ StructuresDisjoint' /\ Sized'
    BY <2>1, TableStays
  <2>3. MapWritten => MapWritten'
    BY <2>1, StillWritten
  <2>4. DiskOK'
    BY <1>2, <2>1, <2>3 DEF LayoutOK, DiskOK
  <2>5. QED
    BY <2>2, <2>4 DEF LayoutOK
<1>3. CASE PlaceRefused \/ WriteFails
  BY <1>2, <1>3 DEF PlaceRefused, WriteFails
<1>4. CASE UNCHANGED vars
  <2>1. UNCHANGED <<asked, layout, disk, steps>> /\ status' = status
    BY <1>4 DEF vars
  <2>2. QED
    BY <1>2, <2>1
<1>5. CASE ZeroFixedStructures
  <2> DEFINE contents == [l \in UNION {BlocksOf(e) : e \in Structures} |-> Zero]
  <2>1. Doing(0) /\ Written(contents)
    BY <1>5, Zenon DEF ZeroFixedStructures
  <2>2. status = "running" /\ steps \in 8 .. 11 /\ steps' = steps + 1
    <3>1. Doing(0)
      BY <2>1, Zenon
    <3>2. QED
      BY ONLY <3>1, DoingSteps
  <2>3. \A l \in DOMAIN contents : contents[l].kind # "map"
    BY DEF Zero
  <2> HIDE DEF contents
  <2>4. QED
    BY <2>1, <2>2, <2>3, EarlierWrites
<1>6. CASE WriteHomeBlocks
  <2> DEFINE contents == [l \in {h[1] : h \in HomeBlocks} |->
                            HomeBlock(l, (CHOOSE h \in HomeBlocks : h[1] = l)[2])]
  <2>1. Doing(1) /\ Written(contents)
    BY <1>6, Zenon DEF WriteHomeBlocks
  <2>2. status = "running" /\ steps \in 8 .. 11 /\ steps' = steps + 1
    <3>1. Doing(1)
      BY <2>1, Zenon
    <3>2. QED
      BY ONLY <3>1, DoingSteps
  <2>3. \A l, vbn : HomeBlock(l, vbn).kind # "map"
    BY DEF HomeBlock
  <2>4. \A l \in DOMAIN contents : contents[l].kind # "map"
    BY <2>3
  <2> HIDE DEF contents
  <2>5. QED
    BY <2>1, <2>2, <2>4, EarlierWrites
<1>7. CASE WriteIndexBitmap
  <2> DEFINE contents == [l \in {layout.lbn["index"]} |-> [kind |-> "slots", inUse |-> 1 .. Reserved]]
  <2>1. Doing(2) /\ Written(contents)
    BY <1>7, Zenon DEF WriteIndexBitmap
  <2>2. status = "running" /\ steps \in 8 .. 11 /\ steps' = steps + 1
    <3>1. Doing(2)
      BY <2>1, Zenon
    <3>2. QED
      BY ONLY <3>1, DoingSteps
  <2>3. \A l \in DOMAIN contents : contents[l].kind # "map"
    OBVIOUS
  <2> HIDE DEF contents
  <2>4. QED
    BY <2>1, <2>2, <2>3, EarlierWrites
<1>8. CASE WriteHeaders
  <2> DEFINE contents == [l \in HeaderLBN(1) .. HeaderLBN(Reserved) \union BlocksOf("altIndex") |->
                            IF l \in BlocksOf("altIndex") THEN Header(1) ELSE Header(l - HeaderLBN(1) + 1)]
  <2>1. Doing(3) /\ Written(contents)
    BY <1>8, Zenon DEF WriteHeaders
  <2>2. status = "running" /\ steps \in 8 .. 11 /\ steps' = steps + 1
    <3>1. Doing(3)
      BY <2>1, Zenon
    <3>2. QED
      BY ONLY <3>1, DoingSteps
  <2>3. \A n : Header(n).kind # "map"
    BY DEF Header
  <2>4. \A l \in DOMAIN contents : contents[l].kind # "map"
    BY <2>3
  <2> HIDE DEF contents
  <2>5. QED
    BY <2>1, <2>2, <2>4, EarlierWrites
<1>9. CASE WriteStorageBitmap
  BY <1>9, BitmapWrite
<1>10. CASE WriteMFD
  <2>1. Doing(5) /\ Written([l \in {layout.lbn["mfd"]} |-> Of("mfd")])
    BY <1>10, Zenon DEF WriteMFD
  <2>2. steps = 13 /\ steps' = 14 /\ status = "running"
    <3>1. Doing(5)
      BY <2>1, Zenon
    <3>2. QED
      BY ONLY <3>1, DoingSteps
  <2>3. /\ UNCHANGED <<asked, layout, status>> /\ DOMAIN disk' = DOMAIN disk
        /\ \A l \in DOMAIN disk : disk'[l] = IF l = layout.lbn["mfd"] THEN Of("mfd") ELSE disk[l]
    BY <2>1 DEF Written
  <2>4. Of("mfd").kind # "map"
    BY DEF Of
  <2>5. QED
    BY <2>2, <2>3, <2>4, MapBlocksPlace, LaterWrites
<1>11. CASE WriteSecurity
  <2>1. /\ Doing(6) /\ disk' = [disk EXCEPT ![layout.lbn["security"]] = Of("security")]
        /\ UNCHANGED <<asked, layout>>
    BY <1>11 DEF WriteSecurity
  <2>2. steps = 14 /\ steps' = 15
    <3>1. Doing(6)
      BY <2>1, Zenon
    <3>2. QED
      BY ONLY <3>1, DoingSteps
  <2>3. /\ DOMAIN disk' = DOMAIN disk
        /\ \A l \in DOMAIN disk : disk'[l] = IF l = layout.lbn["security"] THEN Of("security") ELSE disk[l]
    BY <2>1
  <2>4. Of("security").kind # "map"
    BY DEF Of
  <2>5. layout.lbn["security"] \notin layout.lbn["bitmap"] + 1 .. layout.lbn["bitmap"] + StorageMapBlocks(asked)
    BY <2>2, MapBlocksPlace
  <2>6. UNCHANGED <<asked, layout>> /\ steps \in 13 .. 14 /\ steps' = steps + 1 /\ (status' = "done" => steps = 14)
    BY <2>1, <2>2
  <2>7. QED
    BY ONLY LayoutOK, <2>3, <2>4, <2>5, <2>6, LaterWrites
<1>12. QED
  BY <1>1, <1>3, <1>4, <1>5, <1>6, <1>7, <1>8, <1>9, <1>10, <1>11 DEF Next

\* What is written once all is placed: the storage bitmap's clusters in use.
LEMMA WrittenBitmap ==
    ASSUME LayoutOK, steps > 12, NEW cl \in 0 .. StorageMapBlocks(asked) * Bits - 1
    PROVE  cl \in UNION {disk[l].inUse : l \in {m \in DOMAIN disk : disk[m].kind = "map"}} <=> cl \in InUse
<1> DEFINE first == layout.lbn["bitmap"]
           size == StorageMapBlocks(asked)
<1>1. first \in Nat /\ size \in Nat /\ first + size < asked.blocks /\ asked.blocks \in Nat
  BY MapBlocksPlace, OptionTypes DEF LayoutOK, TableOK, DiskOK
<1>2. MapWritten /\ DOMAIN disk = 0 .. asked.blocks - 1
  BY DEF LayoutOK, DiskOK
<1>3. PICK bits \in Nat \ {0} : bits = Bits
  BY SizeTypes
<1>4. cl \in Nat /\ cl < size * bits
  BY <1>1, <1>3
<1>5. ASSUME NEW l \in DOMAIN disk, disk[l].kind = "map", cl \in disk[l].inUse
      PROVE  cl \in InUse
  <2>1. disk[l] = MapBlock(l - first - 1)
    BY <1>2, <1>5 DEF MapWritten
  <2>2. QED
    BY <1>5, <2>1 DEF MapBlock
<1>6. ASSUME cl \in InUse
      PROVE  \E l \in DOMAIN disk : disk[l].kind = "map" /\ cl \in disk[l].inUse
  <2>1. PICK i \in Nat : i = cl \div bits
    BY <1>3, <1>4, Quotients
  <2>2. i * bits <= cl
    BY <1>3, <1>4, <2>1, Quotients
  <2>3. i * bits < size * bits
    BY <1>1, <1>3, <1>4, <2>1, <2>2
  <2>4. i < size
    BY <1>1, <1>3, <2>1, <2>3, ProductsAreOrdered
  <2>5. PICK l \in first + 1 .. first + size : l = first + 1 + i
    BY <1>1, <2>1, <2>4
  <2>6. l \in DOMAIN disk /\ l - first - 1 = i
    <3>1. l \in 0 .. asked.blocks - 1
      BY <1>1, <2>1, <2>4, <2>5
    <3>2. l - first - 1 = i
      BY <1>1, <2>1, <2>5
    <3>3. QED
      BY <1>2, <3>1, <3>2
  <2>7. disk[l] = MapBlock(i)
    BY <1>2, <2>5, <2>6 DEF MapWritten
  <2>8. disk[l].kind = "map" /\ cl \in disk[l].inUse
    BY <1>3, <1>6, <2>1, <2>7 DEF MapBlock
  <2>9. QED
    BY <2>6, <2>8
<1>7. QED
  BY <1>5, <1>6

\* The invariant says what is to be shown.
LEMMA LayoutIsApart ==
    ASSUME LayoutOK
    PROVE  StructuresApart
<1>1. \A e, f \in Placed \intersect Structures : e # f => BlocksOf(e) \intersect BlocksOf(f) = {}
  BY DEF LayoutOK, StructuresDisjoint
<1>2. \A e \in Placed \intersect Structures : BlocksOf(e) \subseteq 0 .. LastWhole(asked) - 1
  <2>1. \A e \in Structures : /\ layout.lbn[e] \in Nat /\ layout.count[e] \in Nat
                              /\ layout.lbn[e] + layout.count[e] <= LastWhole(asked)
    BY TableTypes DEF LayoutOK, TableOK, WithinVolume, AllEntries
  <2>2. LastWhole(asked) \in Nat
    BY VolumeEnds DEF LayoutOK, TableOK
  <2>3. QED
    BY <2>1, <2>2 DEF BlocksOf
<1>3. ASSUME status = "done", NEW cl \in 0 .. StorageMapBlocks(asked) * Bits - 1
      PROVE  cl \in UNION {disk[l].inUse : l \in {m \in DOMAIN disk : disk[m].kind = "map"}}
               <=> \/ (cl + 1) * asked.cluster > asked.blocks
                   \/ cl * asked.cluster \in Taken
  <2>1. steps > 12 /\ TableOK
    BY <1>3 DEF LayoutOK, DiskOK
  <2>2. QED
    BY <2>1, WrittenBitmap, BitmapIsExact
<1>4. QED
  BY <1>1, <1>2, <1>3 DEF StructuresApart, Taken

\* INITIALIZE never gives a block to two structures nor one past the last whole
\* cluster, and the storage bitmap it writes has exactly the structures' clusters
\* and those past the device in use (allocate, conflict, writeStorageBitmap).
THEOREM StructuresStayApart == Spec => []StructuresApart
<1>1. Init => LayoutOK
  BY LayoutStarts
<1>2. LayoutOK /\ [Next]_vars => LayoutOK'
  BY LayoutSteps
<1>3. LayoutOK => StructuresApart
  BY LayoutIsApart
<1>4. QED
  BY <1>1, <1>2, <1>3, PTL DEF Spec

(***************************************************************************)
(* Retrieval pointers.                                                     *)
(***************************************************************************)

\* What a quotient and a remainder are put together to is taken apart again.
LEMMA PartsReadBack ==
    ASSUME NEW q \in Nat, NEW r \in Nat, NEW unit \in Nat \ {0}, r < unit, NEW n, n = q * unit + r
    PROVE  /\ n \in Nat
           /\ n \div unit = q
           /\ n % unit = r
<1>1. q * unit \in Nat
  OBVIOUS
<1>2. n \in Nat
  BY <1>1
<1>3. PICK d \in Nat : d = n \div unit
  BY <1>2, Quotients
<1>4. d * unit <= n /\ n < d * unit + unit /\ d * unit \in Nat /\ n % unit = n - d * unit
  BY <1>2, <1>3, Quotients
<1>5. ~(d < q)
  <2>1. d < q => d * unit + unit <= q * unit
    BY ProductsAreOrdered
  <2>2. QED
    BY <1>1, <1>2, <1>4, <2>1
<1>6. ~(q < d)
  <2>1. q < d => q * unit + unit <= d * unit
    BY ProductsAreOrdered
  <2>2. QED
    BY <1>1, <1>2, <1>4, <2>1
<1>7. d = q
  BY <1>5, <1>6
<1>8. QED
  BY <1>1, <1>2, <1>3, <1>4, <1>7

\* The parts a number has.
LEMMA Parts ==
    ASSUME NEW n \in Nat, NEW unit \in Nat \ {0}
    PROVE  /\ n \div unit \in Nat /\ n % unit \in Nat
           /\ (n \div unit) * unit \in Nat
           /\ (n \div unit) * unit + (n % unit) = n
           /\ n % unit < unit
BY Quotients

Quarter == Sixes * Byte

\* A quarter of a word holds the high bits of an LBN and a count.
LEMMA Quarters ==
    /\ Byte \in Nat \ {0} /\ Sixes \in Nat \ {0} /\ Quarter \in Nat \ {0} /\ Word \in Nat \ {0}
    /\ Word \div 4 = Quarter /\ Word = 4 * Quarter
    /\ 1 < Quarter
<1>1. Byte \in Nat \ {0, 1} /\ Sixes \in Nat \ {0, 1}
  BY WidthsAssumption
<1>2. PICK q \in Nat : q = Quarter
  BY <1>1 DEF Quarter
<1>3. Word = q * 4
  BY <1>1, <1>2 DEF Word, Quarter
<1>4. (q * 4) \div 4 = q
  BY <1>2, MultipleDivides
<1>5. 1 < q
  <2>1. 1 * Byte < Sixes * Byte
    BY <1>1, ProductsAreOrdered
  <2>2. QED
    BY <1>1, <1>2, <2>1 DEF Quarter
<1>6. QED
  BY <1>1, <1>2, <1>3, <1>4, <1>5

\* Extents that have a pointer.
Pointed == [lbn : Nat, count : {n \in Nat \ {0} : n <= MostBlocks}]

\* A pointer is of two to four words.
LEMMA PointerWords ==
    ASSUME NEW x \in Pointed
    PROVE  EncodedExtent(x) \in Seq(Nat) /\ Len(EncodedExtent(x)) \in 2 .. 4
<1> DEFINE n == x.count - 1
           low == x.lbn % Word
           high == x.lbn \div Word
<1>1. /\ x.lbn \in Nat /\ x.count \in Nat \ {0} /\ n \in Nat
      /\ Byte \in Nat \ {0} /\ Quarter \in Nat /\ Word \in Nat \ {0} /\ Word \div 4 = Quarter
  BY Quarters DEF Pointed
<1>2. low \in Nat /\ high \in Nat /\ n \div Word \in Nat /\ n % Word \in Nat
  BY <1>1, Parts, Zenon
<1>3. high * Byte \in Nat
  BY <1>1, <1>2
<1> HIDE DEF n, low, high
<1>4. EncodedExtent(x) \in {<<(Word \div 4) + (high * Byte) + n, low>>, <<2 * (Word \div 4) + n, low, high>>,
                            <<3 * (Word \div 4) + (n \div Word), n % Word, low, high>>}
  BY Zenon DEF EncodedExtent, n, low, high
<1>5. PICK a \in Nat, b \in Nat, c \in Nat, d \in Nat :
        EncodedExtent(x) \in {<<a, low>>, <<b, low, high>>, <<c, d, low, high>>}
  <2>1. /\ (Word \div 4) + (high * Byte) + n \in Nat
        /\ 2 * (Word \div 4) + n \in Nat
        /\ 3 * (Word \div 4) + (n \div Word) \in Nat
    BY <1>1, <1>2, <1>3
  <2>2. QED
    BY <1>2, <1>4, <2>1, Zenon
<1>6. /\ <<a, low>> \in Seq(Nat) /\ Len(<<a, low>>) = 2
      /\ <<b, low, high>> \in Seq(Nat) /\ Len(<<b, low, high>>) = 3
      /\ <<c, d, low, high>> \in Seq(Nat) /\ Len(<<c, d, low, high>>) = 4
  BY ONLY <1>2
<1>7. 2 \in 2 .. 4 /\ 3 \in 2 .. 4 /\ 4 \in 2 .. 4
  OBVIOUS
<1>8. QED
  BY <1>5, <1>6, <1>7, Zenon

\* encodeExtent's pointer is read back as the extent it was made from, at the
\* front of any map (RetrievalPointers).
LEMMA PointersReadBack ==
    ASSUME NEW x \in Pointed, NEW words,
           \A j \in 1 .. Len(EncodedExtent(x)) : words[j] = EncodedExtent(x)[j]
    PROVE  FirstExtent(words) = [count |-> x.count, lbn |-> x.lbn, size |-> Len(EncodedExtent(x))]
<1> DEFINE n == x.count - 1
           low == x.lbn % Word
           high == x.lbn \div Word
           format == words[1] \div Quarter
           field == words[1] % Quarter
<1>1. /\ x.lbn \in Nat /\ x.count \in Nat \ {0} /\ n \in Nat /\ x.count = n + 1
      /\ Byte \in Nat \ {0} /\ Sixes \in Nat \ {0} /\ Quarter \in Nat \ {0} /\ Word \in Nat \ {0}
      /\ Word \div 4 = Quarter /\ Word = 4 * Quarter
      /\ x.count <= MostBlocks
  BY Quarters DEF Pointed
<1>p. ASSUME NEW m \in Nat
      PROVE  /\ m \div Word \in Nat /\ m % Word \in Nat /\ (m \div Word) * Word \in Nat
             /\ (m \div Word) * Word + (m % Word) = m /\ m % Word < Word
  BY <1>1, Parts, Zenon
<1>2. /\ low \in Nat /\ high \in Nat /\ high * Word + low = x.lbn /\ low < Word /\ high * Word \in Nat
  BY <1>1, <1>p, Zenon
<1>a. EncodedExtent(x) =
        (IF x.count <= Byte /\ x.lbn < Sixes * Word THEN <<(Word \div 4) + (high * Byte) + n, low>>
         ELSE IF x.count <= Word \div 4 THEN <<2 * (Word \div 4) + n, low, high>>
         ELSE <<3 * (Word \div 4) + (n \div Word), n % Word, low, high>>)
  BY Zenon DEF EncodedExtent
<1>b. FirstExtent(words) =
        CASE words[1] \div (Word \div 4) = 0 -> [count |-> 0, lbn |-> 0, size |-> 1]
          [] words[1] \div (Word \div 4) = 1 ->
               [count |-> ((words[1] % (Word \div 4)) % Byte) + 1,
                lbn |-> ((words[1] % (Word \div 4)) \div Byte) * Word + words[2], size |-> 2]
          [] words[1] \div (Word \div 4) = 2 ->
               [count |-> (words[1] % (Word \div 4)) + 1, lbn |-> words[3] * Word + words[2], size |-> 3]
          [] OTHER ->
               [count |-> (words[1] % (Word \div 4)) * Word + words[2] + 1,
                lbn |-> words[4] * Word + words[3], size |-> 4]
  BY Zenon DEF FirstExtent
<1>3. FirstExtent(words) =
        CASE format = 0 -> [count |-> 0, lbn |-> 0, size |-> 1]
          [] format = 1 -> [count |-> (field % Byte) + 1, lbn |-> (field \div Byte) * Word + words[2], size |-> 2]
          [] format = 2 -> [count |-> field + 1, lbn |-> words[3] * Word + words[2], size |-> 3]
          [] OTHER -> [count |-> field * Word + words[2] + 1, lbn |-> words[4] * Word + words[3], size |-> 4]
  BY <1>1, <1>b, Zenon
<1>q. ASSUME NEW q \in Nat, NEW r \in Nat, r < Quarter, words[1] = q * Quarter + r
      PROVE  format = q /\ field = r
  <2>1. Quarter \in Nat \ {0}
    BY <1>1
  <2>2. words[1] \div Quarter = q /\ words[1] % Quarter = r
    BY ONLY <2>1, <1>q, PartsReadBack, ZenonT(60)
  <2>3. QED
    BY <2>2
<1> HIDE DEF n, low, high, format, field
<1>4. CASE x.count <= Byte /\ x.lbn < Sixes * Word
  <2>1. EncodedExtent(x) = <<Quarter + (high * Byte) + n, low>>
    BY <1>1, <1>a, <1>4, Zenon
  <2>2. words[1] = Quarter + (high * Byte) + n /\ words[2] = low /\ Len(EncodedExtent(x)) = 2
    BY <2>1
  <2>3. n < Byte /\ high < Sixes
    <3>1. high * Word < Sixes * Word
      BY <1>1, <1>2, <1>4
    <3>2. QED
      BY <1>1, <1>2, <1>4, <3>1, ProductsAreOrdered
  <2>4. PICK rest \in Nat : rest = high * Byte + n
    BY <1>1, <1>2
  <2>5. rest \div Byte = high /\ rest % Byte = n
    <3>1. Byte \in Nat \ {0} /\ high \in Nat /\ n \in Nat
      BY <1>1, <1>2
    <3>2. QED
      BY ONLY <3>1, <2>3, <2>4, PartsReadBack
  <2>6. rest < Quarter
    <3>1. high * Byte + Byte <= Sixes * Byte
      BY <1>1, <1>2, <2>3, ProductsAreOrdered
    <3>2. high * Byte \in Nat
      BY <1>1, <1>2
    <3>3. QED
      BY <1>1, <2>3, <2>4, <3>1, <3>2 DEF Quarter
  <2>7. format = 1 /\ field = rest
    <3>1. words[1] = 1 * Quarter + rest
      <4>1. high * Byte \in Nat
        BY <1>1, <1>2
      <4>2. QED
        BY <1>1, <2>2, <2>4, <4>1
    <3>2. QED
      BY <1>q, <2>4, <2>6, <3>1, 1 \in Nat, Zenon
  <2>8. FirstExtent(words) = [count |-> (field % Byte) + 1, lbn |-> (field \div Byte) * Word + words[2], size |-> 2]
    BY <1>3, <2>7
  <2>9. (field % Byte) + 1 = x.count /\ (field \div Byte) * Word + words[2] = x.lbn
    BY <1>1, <1>2, <2>2, <2>5, <2>7
  <2>10. QED
    BY <2>2, <2>8, <2>9, Zenon
<1>5. CASE ~(x.count <= Byte /\ x.lbn < Sixes * Word) /\ x.count <= Quarter
  <2>1. EncodedExtent(x) = <<2 * Quarter + n, low, high>>
    BY <1>1, <1>a, <1>5, Zenon
  <2>2. words[1] = 2 * Quarter + n /\ words[2] = low /\ words[3] = high /\ Len(EncodedExtent(x)) = 3
    BY <2>1
  <2>3. n < Quarter
    BY <1>1, <1>5
  <2>4. format = 2 /\ field = n
    BY <1>1, <1>q, <2>2, <2>3, 2 \in Nat, Zenon
  <2>5. FirstExtent(words) = [count |-> field + 1, lbn |-> words[3] * Word + words[2], size |-> 3]
    BY <1>3, <2>4
  <2>6. field + 1 = x.count /\ words[3] * Word + words[2] = x.lbn
    BY <1>1, <1>2, <2>2, <2>4
  <2>7. QED
    BY <2>2, <2>5, <2>6, Zenon
<1>6. CASE ~(x.count <= Byte /\ x.lbn < Sixes * Word) /\ ~(x.count <= Quarter)
  <2> DEFINE top == n \div Word
             rest == n % Word
  <2>1. EncodedExtent(x) = <<3 * Quarter + top, rest, low, high>>
    BY <1>1, <1>a, <1>6, Zenon
  <2>2. /\ words[1] = 3 * Quarter + top /\ words[2] = rest /\ words[3] = low /\ words[4] = high
        /\ Len(EncodedExtent(x)) = 4
    BY <2>1
  <2>3. top \in Nat /\ rest \in Nat /\ top * Word + rest = n /\ top * Word \in Nat
    BY <1>1, <1>p, Zenon
  <2> HIDE DEF top, rest
  <2>4. top < Quarter
    <3>1. n < Quarter * Word
      <4>1. MostBlocks = Word * Quarter
        BY <1>1 DEF MostBlocks
      <4>2. Quarter * Word \in Nat /\ Quarter * Word = Word * Quarter
        BY <1>1
      <4>3. QED
        BY <1>1, <4>1, <4>2
    <3>2. top * Word < Quarter * Word
      <4>1. Quarter * Word \in Nat
        BY <1>1
      <4>2. QED
        BY <1>1, <2>3, <3>1, <4>1
    <3>3. QED
      BY <1>1, <2>3, <3>2, ProductsAreOrdered
  <2>5. format = 3 /\ field = top
    BY <1>q, <2>2, <2>3, <2>4, 3 \in Nat, Zenon
  <2>6. FirstExtent(words) = [count |-> field * Word + words[2] + 1, lbn |-> words[4] * Word + words[3], size |-> 4]
    BY <1>3, <2>5
  <2>7. field * Word + words[2] + 1 = x.count /\ words[4] * Word + words[3] = x.lbn
    BY <1>1, <1>2, <2>2, <2>3, <2>5
  <2>8. QED
    BY <2>2, <2>6, <2>7, Zenon
<1>7. QED
  BY <1>4, <1>5, <1>6

\* A step of its own for each number, one after another: what a loop computes.
IsLoop(f, m, S, x, step) ==
    f \in [0 .. m -> S] /\ f[0] = x /\ \A k \in 1 .. m : f[k] = step[k][f[k - 1]]

\* There is a function that does.
LEMMA LoopExists ==
    ASSUME NEW m, NEW S, NEW x, NEW step, m \in Nat, x \in S, step \in [1 .. m -> [S -> S]]
    PROVE  \E f : IsLoop(f, m, S, x, step)
<1> DEFINE Walk(n, f) == f[0] = x /\ \A k \in 1 .. n : f[k] = step[k][f[k - 1]]
           T == {n \in 0 .. m : \E f \in [0 .. n -> S] : Walk(n, f)}
<1>1. 0 \in T
  <2> DEFINE f == [j \in 0 .. 0 |-> x]
  <2>1. f \in [0 .. 0 -> S] /\ Walk(0, f)
    OBVIOUS
  <2> HIDE DEF f, Walk
  <2>2. QED
    BY <2>1
<1>2. ASSUME NEW n \in 1 .. m, n - 1 \in T
      PROVE  n \in T
  <2>1. PICK f \in [0 .. n - 1 -> S] : Walk(n - 1, f)
    BY <1>2
  <2> DEFINE g == [j \in 0 .. n |-> IF j = n THEN step[n][f[n - 1]] ELSE f[j]]
  <2>2. f[n - 1] \in S /\ step[n] \in [S -> S]
    BY <2>1
  <2>3. g \in [0 .. n -> S]
    BY <2>1, <2>2
  <2>4. ASSUME NEW k \in 1 .. n
        PROVE  g[k] = step[k][g[k - 1]]
    <3>1. g[k - 1] = f[k - 1]
      OBVIOUS
    <3>2. CASE k = n
      <4>1. g[k] = step[n][f[n - 1]]
        BY <3>2
      <4>2. QED
        BY <3>1, <3>2, <4>1, Zenon
    <3>3. CASE k # n
      <4>1. g[k] = f[k] /\ k \in 1 .. n - 1
        BY <3>3
      <4>2. QED
        BY <2>1, <3>1, <4>1
    <3>4. QED
      BY <3>2, <3>3
  <2>5. g[0] = x
    BY <2>1
  <2> HIDE DEF g
  <2>6. Walk(n, g)
    BY <2>4, <2>5
  <2> HIDE DEF Walk
  <2>7. QED
    BY <2>3, <2>6
<1>3. T = 0 .. m
  BY <1>1, <1>2, InductionUpTo
<1>4. m \in T
  BY <1>3
<1>5. QED
  BY <1>4 DEF IsLoop

\* A walk down that puts a part before what it finds further down.
IsJoining(f, D, Stop, head, next) == f = [l \in D |-> IF l \in Stop THEN <<>> ELSE head[l] \o f[next[l]]]

\* There is a function that does.
LEMMA JoinExists ==
    ASSUME NEW D, NEW N, NEW rank, NEW Stop, NEW head, NEW next, GoesDown(D, N, rank, Stop, next)
    PROVE  \E f : IsJoining(f, D, Stop, head, next)
<1> USE DEF GoesDown, IsJoining
<1> DEFINE Joined(l, rest) == head[l] \o rest
<1>0. SUFFICES \E f : f = [l \in D |-> IF l \in Stop THEN <<>> ELSE Joined(l, f[next[l]])]
  OBVIOUS
<1> HIDE DEF Joined
<1> DEFINE Solves(f, k) == \A l \in D : rank[l] < k => f[l] = (IF l \in Stop THEN <<>> ELSE Joined(l, f[next[l]]))
           T == {k \in 0 .. N + 1 : \E f : Solves(f, k)}
<1>1. 0 \in T
  <2>1. Solves([l \in D |-> 0], 0)
    OBVIOUS
  <2> HIDE DEF Solves
  <2>2. \E f : Solves(f, 0)
    BY <2>1, Zenon
  <2>3. QED
    BY <2>2
<1>2. ASSUME NEW k \in 1 .. N + 1, k - 1 \in T
      PROVE  k \in T
  <2>1. PICK f : Solves(f, k - 1)
    BY <1>2
  <2> DEFINE g == [l \in D |-> IF rank[l] < k - 1 THEN f[l]
                               ELSE IF l \in Stop THEN <<>> ELSE Joined(l, f[next[l]])]
  <2>2. ASSUME NEW l \in D, rank[l] < k
        PROVE  g[l] = (IF l \in Stop THEN <<>> ELSE Joined(l, g[next[l]]))
    <3>1. g[l] = (IF l \in Stop THEN <<>> ELSE Joined(l, f[next[l]]))
      BY <2>1
    <3>2. CASE l \in Stop
      BY <3>1, <3>2
    <3>3. CASE ~(l \in Stop)
      <4>1. next[l] \in D /\ rank[next[l]] < k - 1
        BY <2>2, <3>3
      <4>2. g[next[l]] = f[next[l]]
        BY <4>1
      <4>3. QED
        BY <3>1, <3>3, <4>2
    <3>4. QED
      BY <3>2, <3>3
  <2> HIDE DEF g
  <2>3. Solves(g, k)
    BY <2>2
  <2> HIDE DEF Solves
  <2>4. \E x : Solves(x, k)
    BY <2>3, Zenon
  <2>5. QED
    BY <2>4
<1>3. T = 0 .. N + 1
  BY <1>1, <1>2, InductionUpTo, N + 1 \in Nat
<1>4. PICK f : Solves(f, N + 1)
  BY <1>3, N + 1 \in 0 .. N + 1
<1> DEFINE g == [l \in D |-> f[l]]
<1>5. ASSUME NEW l \in D
      PROVE  f[l] = (IF l \in Stop THEN <<>> ELSE Joined(l, g[next[l]]))
  BY <1>4
<1>6. g = [l \in D |-> IF l \in Stop THEN <<>> ELSE Joined(l, g[next[l]])]
  BY <1>5
<1> HIDE DEF g
<1>7. QED
  BY <1>6, Zenon

(***************************************************************************)
(* Maps.                                                                   *)
(***************************************************************************)

\* The words of a map are its extents' pointers, one after another.
LEMMA EncodedGrows ==
    ASSUME NEW exts \in Seq(Pointed)
    PROVE  \E upTo \in [0 .. Len(exts) -> Seq(Nat)] :
              /\ upTo[0] = <<>> /\ Encoded(exts) = upTo[Len(exts)]
              /\ \A k \in 1 .. Len(exts) : upTo[k] = upTo[k - 1] \o EncodedExtent(exts[k])
<1> DEFINE m == Len(exts)
           Grown(g) == [k \in 0 .. m |-> IF k = 0 THEN <<>> ELSE g[k - 1] \o EncodedExtent(exts[k])]
           step == [k \in 1 .. m |-> [words \in Seq(Nat) |-> words \o EncodedExtent(exts[k])]]
           chosen == CHOOSE g : g = Grown(g)
<1>1. m \in Nat /\ \A k \in 1 .. m : exts[k] \in Pointed
  OBVIOUS
<1>z. 0 \in 0 .. m /\ m \in 0 .. m /\ \A k \in 1 .. m : k \in 0 .. m /\ k - 1 \in 0 .. m /\ k # 0
  BY <1>1
<1> HIDE DEF m
<1>2. \A k \in 1 .. m : EncodedExtent(exts[k]) \in Seq(Nat)
  BY <1>1, PointerWords
<1>3. step \in [1 .. m -> [Seq(Nat) -> Seq(Nat)]]
  <2>1. ASSUME NEW k \in 1 .. m
        PROVE  [words \in Seq(Nat) |-> words \o EncodedExtent(exts[k])] \in [Seq(Nat) -> Seq(Nat)]
    <3>1. PICK more \in Seq(Nat) : more = EncodedExtent(exts[k])
      BY <1>2, <2>1
    <3>2. \A words \in Seq(Nat) : words \o more \in Seq(Nat)
      OBVIOUS
    <3>3. QED
      BY <3>1, <3>2, Zenon
  <2>2. QED
    BY <2>1, Zenon
<1>4. PICK f \in [0 .. m -> Seq(Nat)] : f[0] = <<>> /\ \A k \in 1 .. m : f[k] = step[k][f[k - 1]]
  <2>1. <<>> \in Seq(Nat)
    OBVIOUS
  <2> HIDE DEF step
  <2>2. QED
    <3>1. \E f : IsLoop(f, m, Seq(Nat), <<>>, step)
      BY <1>1, <1>3, <2>1, LoopExists, Zenon
    <3>2. QED
      BY <3>1, Zenon DEF IsLoop
<1>5. \A k \in 1 .. m : f[k] = f[k - 1] \o EncodedExtent(exts[k])
  <2>1. ASSUME NEW k \in 1 .. m
        PROVE  f[k] = f[k - 1] \o EncodedExtent(exts[k])
    <3>1. k - 1 \in 0 .. m
      BY <1>1
    <3>2. f[k - 1] \in Seq(Nat)
      BY <1>4, <3>1
    <3>3. step[k] = [words \in Seq(Nat) |-> words \o EncodedExtent(exts[k])]
      OBVIOUS
    <3>4. step[k][f[k - 1]] = f[k - 1] \o EncodedExtent(exts[k])
      BY <3>2, <3>3, Zenon
    <3>5. QED
      BY <1>4, <3>4
  <2>2. QED
    BY <2>1
<1>6. f = Grown(f)
  <2>1. f = [k \in 0 .. m |-> f[k]]
    BY <1>4
  <2>2. ASSUME NEW k \in 0 .. m
        PROVE  f[k] = (IF k = 0 THEN <<>> ELSE f[k - 1] \o EncodedExtent(exts[k]))
    <3>1. CASE k = 0
      BY <1>4, <3>1, Zenon
    <3>2. CASE k # 0
      <4>1. k \in 1 .. m
        BY <1>1, <3>2
      <4>2. QED
        BY <1>5, <3>2, <4>1, Zenon
    <3>3. QED
      BY <3>1, <3>2
  <2>3. QED
    BY <2>1, <2>2, Zenon
<1> HIDE DEF Grown
<1>7. chosen = Grown(chosen)
  BY <1>6, Zenon
<1>8. \A k \in 0 .. m : chosen[k] = (IF k = 0 THEN <<>> ELSE chosen[k - 1] \o EncodedExtent(exts[k]))
  BY <1>7 DEF Grown
<1>9. Encoded(exts) = chosen[m]
  BY Zenon DEF Encoded, Grown, m
<1> HIDE DEF chosen
<1> DEFINE T == {k \in 0 .. m : chosen[k] \in Seq(Nat)}
<1>10. T = 0 .. m
  <2>1. 0 \in T
    <3>1. chosen[0] = <<>>
      BY <1>z, <1>8, Zenon
    <3>2. <<>> \in Seq(Nat)
      OBVIOUS
    <3>3. QED
      BY <1>z, <3>1, <3>2, Zenon
  <2>2. ASSUME NEW k \in 1 .. m, k - 1 \in T
        PROVE  k \in T
    <3>1. chosen[k] = chosen[k - 1] \o EncodedExtent(exts[k])
      BY <1>z, <1>8, Zenon
    <3>2. chosen[k - 1] \in Seq(Nat) /\ EncodedExtent(exts[k]) \in Seq(Nat)
      BY <1>2, <2>2
    <3>3. chosen[k] \in Seq(Nat)
      BY <3>1, <3>2
    <3>4. QED
      BY <1>1, <3>3
  <2>3. QED
    BY <1>1, <2>1, <2>2, InductionUpTo
<1>11. chosen = [k \in 0 .. m |-> chosen[k]]
  BY <1>7 DEF Grown
<1>12. chosen \in [0 .. m -> Seq(Nat)]
  BY <1>10, <1>11
<1>13. \A k \in 1 .. m : chosen[k] = chosen[k - 1] \o EncodedExtent(exts[k])
  BY <1>z, <1>8, Zenon
<1>14. chosen[0] = <<>>
  BY <1>z, <1>8, Zenon
<1>15. QED
  BY <1>9, <1>12, <1>13, <1>14, Zenon DEF m

\* The k-th of m extents stands for the values of f from ends[k - 1] to ends[k].
IsListing(ends, m, exts, f, n) ==
    /\ \A k \in 0 .. m : ends[k] \in Nat
    /\ ends[0] = 0 /\ ends[m] = n
    /\ \A k \in 1 .. m :
         /\ ends[k] = ends[k - 1] + exts[k].count
         /\ \A o \in 0 .. exts[k].count - 1 : f[ends[k - 1] + o] = exts[k].lbn + o

\* The extents stand for the first n values of f.
Lists(exts, f, n) == \E ends : IsListing(ends, Len(exts), exts, f, n)

\* What a sequence begins with stays as more is added at its end.
LEMMA SequencesExtend ==
    ASSUME NEW m \in Nat, NEW upTo \in [0 .. m -> Seq(Nat)], NEW more \in [1 .. m -> Seq(Nat)],
           \A k \in 1 .. m : upTo[k] = upTo[k - 1] \o more[k]
    PROVE  \A k \in 0 .. m : \A j \in 0 .. k :
              /\ Len(upTo[j]) <= Len(upTo[k])
              /\ \A i \in 1 .. Len(upTo[j]) : upTo[k][i] = upTo[j][i]
<1> DEFINE Holds(k) == \A j \in 0 .. k : /\ Len(upTo[j]) <= Len(upTo[k])
                                         /\ \A i \in 1 .. Len(upTo[j]) : upTo[k][i] = upTo[j][i]
           T == {k \in 0 .. m : Holds(k)}
<1>1. 0 \in T
  <2>1. upTo[0] \in Seq(Nat)
    OBVIOUS
  <2>2. Len(upTo[0]) \in Nat
    BY <2>1
  <2>3. \A j \in 0 .. 0 : j = 0
    OBVIOUS
  <2>4. Holds(0)
    BY <2>2, <2>3
  <2>5. QED
    BY <2>4
<1>2. ASSUME NEW k \in 1 .. m, k - 1 \in T
      PROVE  k \in T
  <2>1. k - 1 \in 0 .. m /\ k \in 0 .. m /\ Holds(k - 1)
    BY <1>2
  <2>2. PICK old \in Seq(Nat), new \in Seq(Nat), rest \in Seq(Nat) :
          old = upTo[k - 1] /\ new = upTo[k] /\ rest = more[k] /\ new = old \o rest
    BY <2>1
  <2>3. Len(old) <= Len(new) /\ Len(new) \in Nat /\ \A i \in 1 .. Len(old) : new[i] = old[i]
    BY ONLY <2>2
  <2>4. ASSUME NEW j \in 0 .. k
        PROVE  /\ Len(upTo[j]) <= Len(upTo[k])
               /\ \A i \in 1 .. Len(upTo[j]) : upTo[k][i] = upTo[j][i]
    <3>1. CASE j = k
      <4>1. Len(new) <= Len(new)
        BY <2>3
      <4>2. QED
        BY <2>2, <3>1, <4>1, Zenon
    <3>2. CASE j # k
      <4>1. j \in 0 .. k - 1 /\ j \in 0 .. m
        BY <1>2, <3>2
      <4>2. PICK first \in Seq(Nat) : first = upTo[j]
        BY <4>1
      <4>3. Len(first) <= Len(old) /\ \A i \in 1 .. Len(first) : old[i] = first[i]
        BY <2>1, <2>2, <4>1, <4>2
      <4>4. Len(first) \in Nat /\ Len(old) \in Nat
        BY <2>2, <4>2, SMTT(30)
      <4>5. Len(first) <= Len(new) /\ \A i \in 1 .. Len(first) : new[i] = first[i]
        BY ONLY <2>3, <4>3, <4>4
      <4>6. QED
        BY <2>2, <4>2, <4>5
    <3>3. QED
      BY <3>1, <3>2
  <2>5. Holds(k)
    BY <2>4
  <2> HIDE DEF Holds
  <2>6. QED
    BY <2>1, <2>5
<1> HIDE DEF Holds
<1>3. T = 0 .. m
  BY <1>1, <1>2, InductionUpTo
<1>4. QED
  BY <1>3 DEF Holds

\* A pointer read from a map takes one to four words.
LEMMA PointerSizes ==
    ASSUME NEW words
    PROVE  FirstExtent(words).size \in 1 .. 4
<1> DEFINE format == words[1] \div (Word \div 4)
<1>1. CASE format = 0
  BY <1>1 DEF FirstExtent
<1>2. CASE format = 1
  BY <1>2 DEF FirstExtent
<1>3. CASE format = 2
  BY <1>3 DEF FirstExtent
<1>4. CASE format \notin {0, 1, 2}
  BY <1>4 DEF FirstExtent
<1>5. QED
  BY <1>1, <1>2, <1>3, <1>4

\* Values of a function, from one place on, are those up to another and those
\* from there.
LEMMA RunsJoin ==
    ASSUME NEW f, \A i \in Nat : f[i] \in Nat, NEW a \in Nat, NEW b \in Nat, NEW c \in Nat
    PROVE  [v \in 1 .. b |-> f[a + v - 1]] \o [v \in 1 .. c |-> f[a + b + v - 1]]
              = [v \in 1 .. b + c |-> f[a + v - 1]]
<1> DEFINE s == [v \in 1 .. b |-> f[a + v - 1]]
           t == [v \in 1 .. c |-> f[a + b + v - 1]]
           r == [v \in 1 .. b + c |-> f[a + v - 1]]
<1>1. s \in Seq(Nat) /\ Len(s) = b /\ t \in Seq(Nat) /\ Len(t) = c /\ r \in Seq(Nat) /\ Len(r) = b + c
  OBVIOUS
<1>2. s \o t \in Seq(Nat) /\ Len(s \o t) = b + c
  BY <1>1
<1>3. ASSUME NEW v \in 1 .. b + c
      PROVE  (s \o t)[v] = r[v]
  <2>1. CASE v <= b
    <3>1. (s \o t)[v] = s[v]
      BY <1>1, <2>1
    <3>2. s[v] = r[v]
      BY <2>1
    <3>3. QED
      BY <3>1, <3>2
  <2>2. CASE ~(v <= b)
    <3>1. v - b \in 1 .. c
      BY <2>2
    <3>2. (s \o t)[v] = t[v - b]
      BY <1>1, <2>2, <3>1
    <3>3. t[v - b] = f[a + b + (v - b) - 1]
      BY <3>1
    <3>4. a + b + (v - b) - 1 = a + v - 1
      OBVIOUS
    <3>5. QED
      BY <3>2, <3>3, <3>4
  <2>3. QED
    BY <2>1, <2>2
<1>4. s \o t = r
  <2> DEFINE joined == s \o t
  <2>1. joined \in Seq(Nat) /\ Len(joined) = Len(r) /\ r \in Seq(Nat)
    BY <1>1, <1>2
  <2>2. \A v \in 1 .. Len(r) : joined[v] = r[v]
    BY <1>1, <1>3
  <2> HIDE DEF s, t, r, joined
  <2>3. joined = r
    BY <2>1, <2>2, SeqEqual
  <2>4. QED
    BY <2>3 DEF joined
<1>5. QED
  BY <1>4

\* A walk over the words of a map, from pointer to pointer.
IsReading(from, L, counts, lbns, sizes) ==
    \A i \in 1 .. L + 4 : from[i] = IF i > L THEN <<>>
                                   ELSE [k \in 1 .. counts[i] |-> lbns[i] + k - 1] \o from[i + sizes[i]]

\* The k-th pointer, at starts[k - 1] + 1, is of the blocks from ends[k - 1] to ends[k].
IsLaidOut(k, starts, ends, f, L, counts, lbns, sizes) ==
    /\ starts[k - 1] < L /\ sizes[starts[k - 1] + 1] = starts[k] - starts[k - 1]
    /\ counts[starts[k - 1] + 1] \in Nat /\ lbns[starts[k - 1] + 1] \in Nat
    /\ ends[k] = ends[k - 1] + counts[starts[k - 1] + 1]
    /\ \A o \in 0 .. counts[starts[k - 1] + 1] - 1 : f[ends[k - 1] + o] = lbns[starts[k - 1] + 1] + o

IsMapWalk(from, m, n, starts, ends, f, L, counts, lbns, sizes) ==
    /\ m \in Nat /\ L \in Nat /\ n \in Nat /\ \A i \in Nat : f[i] \in Nat
    /\ \A k \in 0 .. m : starts[k] \in Nat /\ ends[k] \in Nat
    /\ starts[0] = 0 /\ starts[m] = L /\ ends[0] = 0 /\ ends[m] = n
    /\ IsReading(from, L, counts, lbns, sizes)
    /\ \A k \in 1 .. m : IsLaidOut(k, starts, ends, f, L, counts, lbns, sizes)

\* The first n values of f, in a sequence.
FirstOf(f, n) == [v \in 1 .. n |-> f[v - 1]]

\* It joins the blocks they stand for.
LEMMA WalkReads ==
    ASSUME NEW m, NEW L, NEW n, NEW f, NEW starts, NEW ends, NEW counts, NEW lbns, NEW sizes, NEW from,
           IsMapWalk(from, m, n, starts, ends, f, L, counts, lbns, sizes)
    PROVE  from[1] = FirstOf(f, n)
<1> DEFINE Rest(k) == [v \in 1 .. n - ends[k] |-> f[ends[k] + v - 1]]
           Reads(k) == ends[k] <= n /\ from[starts[k] + 1] = Rest(k)
           T == {j \in 0 .. m : Reads(m - j)}
<1>0. /\ m \in Nat /\ L \in Nat /\ n \in Nat
      /\ \A k \in 0 .. m : starts[k] \in Nat /\ ends[k] \in Nat
      /\ \A i \in Nat : f[i] \in Nat
      /\ starts[0] = 0 /\ starts[m] = L /\ ends[0] = 0 /\ ends[m] = n
  BY Zenon DEF IsMapWalk
<1> USE <1>0
<1>1. 0 \in T
  <2>1. from[L + 1] = <<>>
    BY L + 1 \in 1 .. L + 4, L + 1 > L, Zenon DEF IsMapWalk, IsReading
  <2>2. Rest(m) = <<>>
    <3>1. n - ends[m] = 0
      OBVIOUS
    <3>2. \A g : [v \in 1 .. 0 |-> g[v]] = <<>>
      OBVIOUS
    <3>3. Rest(m) = [v \in 1 .. 0 |-> [w \in Nat |-> f[ends[m] + w - 1]][v]]
      BY <3>1
    <3>4. QED
      BY <3>2, <3>3
  <2>3. m - 0 = m /\ 0 \in 0 .. m /\ ends[m] <= n
    OBVIOUS
  <2> HIDE DEF Rest
  <2>4. Reads(m)
    BY <2>1, <2>2, <2>3
  <2> HIDE DEF Reads
  <2>5. QED
    BY <2>3, <2>4
<1>2. ASSUME NEW j \in 1 .. m, j - 1 \in T
      PROVE  j \in T
  <2>1. PICK k \in 1 .. m : k = m - j + 1
    OBVIOUS
  <2>2. m - (j - 1) = k /\ m - j = k - 1 /\ j \in 0 .. m
    BY <2>1
  <2>3. Reads(k)
    BY <1>2, <2>2
  <2>a. starts[k - 1] \in Nat /\ starts[k] \in Nat /\ ends[k - 1] \in Nat /\ ends[k] \in Nat
    BY ONLY <2>1, <1>0
  <2>b. IsLaidOut(k, starts, ends, f, L, counts, lbns, sizes)
    BY <2>1, Zenon DEF IsMapWalk
  <2>4. PICK i \in 1 .. L : i = starts[k - 1] + 1
    BY <2>a, <2>b DEF IsLaidOut
  <2>5. PICK c \in Nat, l \in Nat, a \in Nat : c = counts[i] /\ l = lbns[i] /\ a = ends[k - 1]
    BY <2>a, <2>b, <2>4, Zenon DEF IsLaidOut
  <2>6. ends[k] = a + c /\ (\A o \in 0 .. c - 1 : f[a + o] = l + o) /\ i + sizes[i] = starts[k] + 1
    <3>1. ends[k] = a + c /\ \A o \in 0 .. c - 1 : f[a + o] = l + o
      BY <2>b, <2>4, <2>5, Zenon DEF IsLaidOut
    <3>2. sizes[i] = starts[k] - starts[k - 1]
      BY <2>b, <2>4, Zenon DEF IsLaidOut
    <3>3. i + sizes[i] = starts[k] + 1
      BY ONLY <2>a, <2>4, <3>2
    <3>4. QED
      BY <3>1, <3>3, Zenon
  <2>7. from[i] = [v \in 1 .. c |-> l + v - 1] \o from[starts[k] + 1]
    <3>1. i \in 1 .. L + 4 /\ ~(i > L)
      BY ONLY <2>4, <1>0
    <3>2. from[i] = [v \in 1 .. counts[i] |-> lbns[i] + v - 1] \o from[i + sizes[i]]
      BY <3>1, Zenon DEF IsMapWalk, IsReading
    <3>3. QED
      BY <2>5, <2>6, <3>2, Zenon
  <2>8. [v \in 1 .. c |-> l + v - 1] = [v \in 1 .. c |-> f[a + v - 1]]
    <3>1. ASSUME NEW v \in 1 .. c
          PROVE  l + v - 1 = f[a + v - 1]
      <4>1. v - 1 \in 0 .. c - 1
        OBVIOUS
      <4>2. f[a + (v - 1)] = l + (v - 1)
        BY <2>6, <4>1
      <4>3. a + (v - 1) = a + v - 1 /\ l + (v - 1) = l + v - 1
        OBVIOUS
      <4>4. QED
        BY <4>2, <4>3
    <3>2. QED
      BY <3>1, Zenon
  <2>9. PICK rest \in Nat : rest = n - ends[k]
    BY <2>3
  <2>10. from[starts[k] + 1] = [v \in 1 .. rest |-> f[a + c + v - 1]]
    BY <2>3, <2>6, <2>9, Zenon
  <2>11. from[i] = [v \in 1 .. c + rest |-> f[a + v - 1]]
    <3>1. [v \in 1 .. c |-> f[a + v - 1]] \o [v \in 1 .. rest |-> f[a + c + v - 1]]
             = [v \in 1 .. c + rest |-> f[a + v - 1]]
      BY RunsJoin
    <3>2. QED
      BY <2>7, <2>8, <2>10, <3>1, Zenon
  <2>12. c + rest = n - ends[k - 1] /\ ends[k - 1] <= n
    <3>1. ends[k] <= n
      BY <2>3
    <3>2. QED
      BY ONLY <2>5, <2>6, <2>9, <3>1, <1>0
  <2>13. Reads(k - 1)
    BY <2>4, <2>5, <2>11, <2>12, Zenon
  <2> HIDE DEF Reads
  <2>14. QED
    BY <2>2, <2>13
<1>3. T = 0 .. m
  <2> HIDE DEF Reads
  <2>1. QED
    BY <1>1, <1>2, InductionUpTo
<1>4. Reads(0)
  <2> HIDE DEF Reads
  <2>1. m \in T /\ m - m = 0
    BY ONLY <1>3, <1>0
  <2>2. QED
    BY <2>1
<1>5. Rest(0) = [v \in 1 .. n |-> f[v - 1]]
  OBVIOUS
<1>6. starts[0] + 1 = 1
  OBVIOUS
<1>7. QED
  BY <1>4, <1>5, <1>6 DEF FirstOf

\* Functions with equal values are equal.
LEMMA SameValues ==
    ASSUME NEW S, NEW f, NEW g, f = [x \in S |-> f[x]], g = [x \in S |-> g[x]], \A x \in S : f[x] = g[x]
    PROVE  f = g
OBVIOUS

\* The end of a sequence, from one place on.
LEMMA EndOfSequence ==
    ASSUME NEW s \in Seq(Nat), NEW i \in Nat \ {0}, NEW w \in Nat \ {0}, i + w - 1 <= Len(s)
    PROVE  SubSeq(s, i, Len(s))[w] = s[i + w - 1]
OBVIOUS

\* What is joined to a sequence is found behind it.
LEMMA FoundBehind ==
    ASSUME NEW s \in Seq(Nat), NEW t \in Seq(Nat)
    PROVE  /\ Len(s) \in Nat /\ Len(t) \in Nat /\ Len(s \o t) = Len(s) + Len(t)
           /\ \A w \in 1 .. Len(t) : (s \o t)[Len(s) + w] = t[w]
OBVIOUS

\* The words of the k-th extent's pointer are where those of the extents before
\* it end.
LEMMA PointerPlaces ==
    ASSUME NEW exts \in Seq(Pointed), NEW L \in Nat, NEW words \in Seq(Nat), L = Len(words), words = Encoded(exts)
    PROVE  \E starts :
             /\ \A k \in 0 .. Len(exts) : starts[k] \in Nat
             /\ starts[0] = 0 /\ starts[Len(exts)] = L
             /\ \A k \in 1 .. Len(exts) :
                  /\ starts[k - 1] < L
                  /\ FirstExtent(SubSeq(words, starts[k - 1] + 1, L))
                       = [count |-> exts[k].count, lbn |-> exts[k].lbn, size |-> starts[k] - starts[k - 1]]
<1> DEFINE m == Len(exts)
<1>1. m \in Nat /\ \A k \in 1 .. m : exts[k] \in Pointed
  OBVIOUS
<1>2. PICK upTo \in [0 .. m -> Seq(Nat)] :
        /\ upTo[0] = <<>> /\ words = upTo[m]
        /\ \A k \in 1 .. m : upTo[k] = upTo[k - 1] \o EncodedExtent(exts[k])
  BY EncodedGrows, Zenon
<1> HIDE DEF m
<1> DEFINE more == [k \in 1 .. m |-> EncodedExtent(exts[k])]
<1>3. \A k \in 1 .. m : more[k] = EncodedExtent(exts[k]) /\ more[k] \in Seq(Nat) /\ Len(more[k]) \in 2 .. 4
  BY <1>1, PointerWords, Zenon
<1>4. more \in [1 .. m -> Seq(Nat)]
  BY <1>3
<1> HIDE DEF more
<1>5. \A k \in 1 .. m : upTo[k] = upTo[k - 1] \o more[k]
  BY <1>2, <1>3, Zenon
<1>6. \A k \in 0 .. m : \A j \in 0 .. k : /\ Len(upTo[j]) <= Len(upTo[k])
                                          /\ \A i \in 1 .. Len(upTo[j]) : upTo[k][i] = upTo[j][i]
  BY <1>1, <1>4, <1>5, SequencesExtend, Zenon
<1>z. 0 \in 0 .. m /\ m \in 0 .. m /\ \A k \in 1 .. m : k \in 0 .. m /\ k - 1 \in 0 .. m
  BY ONLY <1>1
<1>7. \A k \in 0 .. m : upTo[k] \in Seq(Nat)
  BY <1>2, Zenon
<1> DEFINE starts == [k \in 0 .. m |-> Len(upTo[k])]
<1>8. \A k \in 0 .. m : starts[k] = Len(upTo[k]) /\ starts[k] \in Nat
  <2>1. \A s \in Seq(Nat) : Len(s) \in Nat
    OBVIOUS
  <2>2. QED
    BY <1>7, <2>1, Zenon
<1>9. starts[0] = 0 /\ starts[m] = L
  <2>1. Len(<<>>) = 0
    OBVIOUS
  <2>2. QED
    BY <1>2, <1>8, <1>z, <2>1, Zenon
<1> HIDE DEF starts
<1>10. ASSUME NEW k \in 1 .. m
       PROVE  /\ starts[k - 1] < L
              /\ FirstExtent(SubSeq(words, starts[k - 1] + 1, L))
                       = [count |-> exts[k].count, lbn |-> exts[k].lbn, size |-> starts[k] - starts[k - 1]]
  <2>1. PICK old \in Seq(Nat), new \in Seq(Nat), rest \in Seq(Nat) :
          old = upTo[k - 1] /\ new = upTo[k] /\ rest = more[k] /\ new = old \o rest
    BY <1>3, <1>5, <1>7, <1>z, ZenonT(60)
  <2>2. PICK x \in Pointed : x = exts[k] /\ rest = EncodedExtent(x) /\ Len(rest) \in 2 .. 4
    BY <1>1, <1>3, <2>1, Zenon
  <2>3. starts[k - 1] = Len(old) /\ starts[k] = Len(new)
    BY <1>8, <1>z, <2>1, Zenon
  <2>4. Len(new) <= L /\ \A i \in 1 .. Len(new) : words[i] = new[i]
    <3>1. k \in 0 .. m /\ m \in 0 .. m
      BY <1>z
    <3>2. Len(upTo[k]) <= Len(upTo[m]) /\ \A i \in 1 .. Len(upTo[k]) : upTo[m][i] = upTo[k][i]
      BY <1>6, <1>z, Zenon
    <3>3. QED
      BY <1>2, <2>1, <3>2, Zenon
  <2>5. PICK a \in Nat, r \in 2 .. 4 : a = Len(old) /\ r = Len(rest)
    <3>1. Len(old) \in Nat
      BY <2>1, FoundBehind, Zenon
    <3>2. \E a \in Nat : a = Len(old)
      BY <3>1, Zenon
    <3>3. \E r \in 2 .. 4 : r = Len(rest)
      BY <2>2, Zenon
    <3>4. QED
      BY <3>2, <3>3, Zenon
  <2>t. a \in Nat /\ r \in Nat /\ 2 <= r
    BY ONLY <2>5
  <2>6. Len(new) = a + r /\ \A w \in 1 .. r : new[a + w] = rest[w]
    <3>1. Len(old \o rest) = Len(old) + Len(rest) /\ \A w \in 1 .. Len(rest) : (old \o rest)[Len(old) + w] = rest[w]
      BY <2>1, FoundBehind, Zenon
    <3>2. new = old \o rest
      BY <2>1, Zenon
    <3>3. Len(new) = Len(old) + Len(rest) /\ \A w \in 1 .. Len(rest) : new[Len(old) + w] = rest[w]
      BY <3>1, <3>2, Zenon
    <3>4. a = Len(old) /\ r = Len(rest)
      BY <2>5, Zenon
    <3>5. QED
      BY <3>3, <3>4, Zenon
  <2>7. PICK i \in Nat \ {0} : i = a + 1
    OBVIOUS
  <2>a. a + r <= L
    BY <2>4, <2>6, Zenon
  <2>8. ASSUME NEW w \in 1 .. Len(rest)
        PROVE  SubSeq(words, i, L)[w] = rest[w]
    <3>1. w \in 1 .. r
      BY <2>5, <2>8, Zenon
    <3>2. PICK v \in Nat \ {0} : v = w /\ i + v - 1 <= L /\ i + v - 1 = a + v /\ i + v - 1 \in 1 .. a + r
      <4>1. \A v \in 1 .. r : v \in Nat \ {0} /\ i + v - 1 <= L /\ i + v - 1 = a + v /\ i + v - 1 \in 1 .. a + r
        BY ONLY <2>5, <2>7, <2>a, L \in Nat
      <4>2. QED
        BY <3>1, <4>1, Zenon
    <3>3. SubSeq(words, i, L)[v] = words[i + v - 1]
      BY <3>2, EndOfSequence, Zenon
    <3>4. words[i + v - 1] = new[i + v - 1]
      BY <2>4, <2>6, <3>2, Zenon
    <3>5. new[a + v] = rest[v]
      BY <2>6, <3>1, <3>2, Zenon
    <3>6. QED
      BY <3>2, <3>3, <3>4, <3>5, Zenon
  <2>9. FirstExtent(SubSeq(words, i, L)) = [count |-> x.count, lbn |-> x.lbn, size |-> Len(rest)]
    BY <2>2, <2>8, PointersReadBack, Zenon
  <2>10. starts[k] - starts[k - 1] = Len(rest) /\ starts[k - 1] < L /\ starts[k - 1] + 1 = i
    <3>1. starts[k - 1] = a /\ starts[k] = a + r
      BY <2>3, <2>5, <2>6, Zenon
    <3>2. r = Len(rest)
      BY <2>5
    <3>3. PICK c \in Nat, d \in Nat : c = starts[k - 1] /\ d = starts[k]
      BY <1>8, <1>z, Zenon
    <3>4. c = a /\ d = a + r
      BY <3>1, <3>3, Zenon
    <3>5. d - c = r /\ c < L /\ c + 1 = i
      BY ONLY <2>t, <2>7, <2>a, <3>4, L \in Nat
    <3>6. QED
      BY <3>2, <3>3, <3>5, Zenon
  <2>11. QED
    BY <2>2, <2>9, <2>10, Zenon
<1>11. QED
  BY <1>8, <1>9, <1>10, Zenon DEF m

\* What a map's words stand for is the blocks its extents list.
LEMMA MapReads ==
    ASSUME NEW exts \in Seq(Pointed), NEW n \in Nat, NEW f, \A i \in Nat : f[i] \in Nat, Lists(exts, f, n)
    PROVE  BlocksOfMap(Encoded(exts)) = FirstOf(f, n)
<1> DEFINE m == Len(exts)
<1>1. m \in Nat /\ \A k \in 1 .. m : exts[k].count \in Nat /\ exts[k].lbn \in Nat
  <2>1. m \in Nat /\ \A k \in 1 .. m : exts[k] \in Pointed
    OBVIOUS
  <2>2. \A x \in Pointed : x.count \in Nat /\ x.lbn \in Nat
    BY DEF Pointed
  <2> HIDE DEF m
  <2>3. QED
    BY <2>1, <2>2, Zenon
<1>2. PICK words \in Seq(Nat) : words = Encoded(exts)
  <2>1. PICK upTo \in [0 .. m -> Seq(Nat)] : Encoded(exts) = upTo[m]
    BY EncodedGrows, Zenon
  <2>2. m \in 0 .. m
    BY <1>1
  <2>3. QED
    BY <2>1, <2>2, Zenon
<1>3. PICK L \in Nat : L = Len(words)
  OBVIOUS
<1>4. PICK ends : /\ \A k \in 0 .. m : ends[k] \in Nat
                  /\ ends[0] = 0 /\ ends[m] = n
                  /\ \A k \in 1 .. m :
                        /\ ends[k] = ends[k - 1] + exts[k].count
                        /\ \A o \in 0 .. exts[k].count - 1 : f[ends[k - 1] + o] = exts[k].lbn + o
  BY Zenon DEF Lists, IsListing
<1>5. PICK starts :
        /\ \A k \in 0 .. m : starts[k] \in Nat
        /\ starts[0] = 0 /\ starts[m] = L
        /\ \A k \in 1 .. m :
             /\ starts[k - 1] < L
             /\ FirstExtent(SubSeq(words, starts[k - 1] + 1, L))
                  = [count |-> exts[k].count, lbn |-> exts[k].lbn, size |-> starts[k] - starts[k - 1]]
  BY <1>2, <1>3, PointerPlaces, Zenon
<1> HIDE DEF m
<1> DEFINE ext(i) == FirstExtent(SubSeq(words, i, L))
           D == 1 .. L + 4
           Stop == {i \in D : i > L}
           counts == [i \in D |-> ext(i).count]
           lbns == [i \in D |-> ext(i).lbn]
           sizes == [i \in D |-> ext(i).size]
           rank == [i \in D |-> L + 4 - i]
           head == [i \in D |-> [k \in 1 .. ext(i).count |-> ext(i).lbn + k - 1]]
           next == [i \in D |-> i + ext(i).size]
           Joined(g) == [i \in D |-> IF i \in Stop THEN <<>> ELSE head[i] \o g[next[i]]]
           Walked(g) == [i \in 1 .. Len(words) + 4 |->
                           IF i > Len(words) THEN <<>>
                           ELSE LET x == FirstExtent(SubSeq(words, i, Len(words))) IN
                                [k \in 1 .. x.count |-> x.lbn + k - 1] \o g[i + x.size]]
           chosen == CHOOSE g : g = Walked(g)
<1>6. \A g : Joined(g) = Walked(g)
  <2>1. ASSUME NEW g, NEW i \in D
        PROVE  Joined(g)[i] = Walked(g)[i]
    <3>1. i \in 1 .. Len(words) + 4
      BY <1>3
    <3>2. CASE i > L
      BY <1>3, <3>1, <3>2
    <3>3. CASE ~(i > L)
      <4>1. Joined(g)[i] = head[i] \o g[next[i]]
        BY <3>3
      <4>2. head[i] = [k \in 1 .. ext(i).count |-> ext(i).lbn + k - 1] /\ next[i] = i + ext(i).size
        BY Zenon
      <4>3. Walked(g)[i] = [k \in 1 .. ext(i).count |-> ext(i).lbn + k - 1] \o g[i + ext(i).size]
        BY <1>3, <3>1, <3>3, Zenon
      <4>4. QED
        BY <4>1, <4>2, <4>3, Zenon
    <3>4. QED
      BY <3>2, <3>3
  <2>2. \A g : DOMAIN Joined(g) = D /\ DOMAIN Walked(g) = D
    BY <1>3
  <2>3. \A g : Joined(g) = [i \in D |-> Joined(g)[i]] /\ Walked(g) = [i \in D |-> Walked(g)[i]]
    BY <1>3, Zenon
  <2>4. ASSUME NEW g
        PROVE  Joined(g) = Walked(g)
    <3> DEFINE j == Joined(g)
               w == Walked(g)
    <3>1. j = [i \in D |-> j[i]] /\ w = [i \in D |-> w[i]]
      BY <2>3, Zenon
    <3>2. \A i \in D : j[i] = w[i]
      BY <2>1, Zenon
    <3> HIDE DEF j, w, D
    <3>3. j = w
      BY <3>1, <3>2, SameValues, Zenon
    <3>4. QED
      BY <3>3, Zenon DEF j, w
  <2>5. QED
    BY <2>4, Zenon
<1>7. \E g : g = Joined(g)
  <2>1. GoesDown(D, L + 4, rank, Stop, next)
    <3>1. \A i \in D : rank[i] = L + 4 - i /\ next[i] = i + ext(i).size
      BY Zenon
    <3>2. \A i \in D : rank[i] \in 0 .. L + 4
      BY <3>1
    <3>3. ASSUME NEW i \in D, ~(i \in Stop)
          PROVE  next[i] \in D /\ rank[next[i]] < rank[i]
      <4>1. PICK s \in 1 .. 4 : s = ext(i).size
        BY PointerSizes, Zenon
      <4>2. next[i] = i + s /\ i <= L /\ i \in Nat
        BY <3>1, <3>3, <4>1
      <4>3. next[i] \in D
        BY <4>2
      <4>4. rank[next[i]] = L + 4 - next[i] /\ rank[i] = L + 4 - i
        BY <3>1, <4>3, Zenon
      <4>5. QED
        BY <4>2, <4>3, <4>4
    <3>4. L + 4 \in Nat
      OBVIOUS
    <3> HIDE DEF D, rank, Stop, next
    <3>5. QED
      BY <3>2, <3>3, <3>4, Zenon DEF GoesDown
  <2> HIDE DEF D, rank, Stop, next, head
  <2>2. \E g : IsJoining(g, D, Stop, head, next)
    BY <2>1, JoinExists, Zenon
  <2>3. QED
    BY <2>2, Zenon DEF IsJoining
<1>8. chosen = Walked(chosen)
  <2> HIDE DEF Joined, Walked
  <2>1. \E g : g = Walked(g)
    BY <1>6, <1>7, Zenon
  <2>2. QED
    BY <2>1, Zenon
<1>9. BlocksOfMap(words) = chosen[1]
  BY Zenon DEF BlocksOfMap
<1> HIDE DEF chosen
<1>10. IsReading(chosen, L, counts, lbns, sizes)
  <2>1. ASSUME NEW i \in 1 .. L + 4
        PROVE  chosen[i] = IF i > L THEN <<>> ELSE [k \in 1 .. counts[i] |-> lbns[i] + k - 1] \o chosen[i + sizes[i]]
    <3>1. counts[i] = ext(i).count /\ lbns[i] = ext(i).lbn /\ sizes[i] = ext(i).size
      BY Zenon
    <3>2. chosen[i] = Walked(chosen)[i]
      BY <1>8, Zenon
    <3>3. i \in 1 .. Len(words) + 4
      BY <1>3
    <3>4. Walked(chosen)[i] = IF i > Len(words) THEN <<>>
                              ELSE [k \in 1 .. ext(i).count |-> ext(i).lbn + k - 1] \o chosen[i + ext(i).size]
      BY <1>3, <3>3, Zenon
    <3>5. QED
      BY <1>3, <3>1, <3>2, <3>4, Zenon
  <2> HIDE DEF counts, lbns, sizes
  <2>2. QED
    BY <2>1, Zenon DEF IsReading
<1>11. ASSUME NEW k \in 1 .. m
       PROVE  IsLaidOut(k, starts, ends, f, L, counts, lbns, sizes)
  <2>1. k - 1 \in 0 .. m /\ k \in 0 .. m
    BY <1>1
  <2>2. PICK a \in Nat : a = starts[k - 1]
    BY <1>5, <2>1, Zenon
  <2>3. a < L /\ a + 1 \in D
    <3>1. a < L
      BY <1>5, <2>2, Zenon
    <3>2. QED
      BY <3>1
  <2>4. ext(a + 1) = [count |-> exts[k].count, lbn |-> exts[k].lbn, size |-> starts[k] - starts[k - 1]]
    BY <1>5, <2>2, Zenon
  <2>5. counts[a + 1] = exts[k].count /\ lbns[a + 1] = exts[k].lbn /\ sizes[a + 1] = starts[k] - starts[k - 1]
    <3>1. counts[a + 1] = ext(a + 1).count /\ lbns[a + 1] = ext(a + 1).lbn /\ sizes[a + 1] = ext(a + 1).size
      BY <2>3, Zenon
    <3> HIDE DEF ext, counts, lbns, sizes
    <3>2. QED
      BY <2>4, <3>1
  <2> HIDE DEF counts, lbns, sizes, ext
  <2>6. /\ starts[k - 1] < L /\ sizes[starts[k - 1] + 1] = starts[k] - starts[k - 1]
        /\ counts[starts[k - 1] + 1] \in Nat /\ lbns[starts[k - 1] + 1] \in Nat
    BY <1>1, <2>2, <2>3, <2>5, Zenon
  <2>7. /\ ends[k] = ends[k - 1] + counts[starts[k - 1] + 1]
        /\ \A o \in 0 .. counts[starts[k - 1] + 1] - 1 : f[ends[k - 1] + o] = lbns[starts[k - 1] + 1] + o
    BY <1>4, <2>2, <2>5, Zenon
  <2>8. QED
    BY <2>6, <2>7, Zenon DEF IsLaidOut
<1> HIDE DEF counts, lbns, sizes
<1>12. \A k \in 0 .. m : starts[k] \in Nat /\ ends[k] \in Nat
  BY <1>4, <1>5, Zenon
<1>13. starts[0] = 0 /\ starts[m] = L /\ ends[0] = 0 /\ ends[m] = n
  BY <1>4, <1>5, Zenon
<1>14. chosen[1] = FirstOf(f, n)
  <2>1. m \in Nat /\ L \in Nat /\ n \in Nat /\ \A i \in Nat : f[i] \in Nat
    BY <1>1, Zenon
  <2>2. IsMapWalk(chosen, m, n, starts, ends, f, L, counts, lbns, sizes)
    BY <2>1, <1>10, <1>11, <1>12, <1>13, Zenon DEF IsMapWalk
  <2>3. QED
    BY ONLY <2>2, WalkReads, SMTT(30)
<1>15. QED
  BY <1>2, <1>9, <1>14, Zenon

(***************************************************************************)
(* INDEXF.SYS's extents: its parts' blocks, adjacent ones merged.          *)
(***************************************************************************)

Counted == [lbn : Nat, count : Nat \ {0}]

\* indexFileExtents: an extent follows others, or runs on from the last of them.
Followed(exts, x) ==
    IF exts[Len(exts)].lbn + exts[Len(exts)].count = x.lbn
    THEN [exts EXCEPT ![Len(exts)].count = @ + x.count]
    ELSE Append(exts, x)

\* Then they list its blocks too.
LEMMA ListGrows ==
    ASSUME NEW exts \in Seq(Counted), exts # <<>>, NEW n \in Nat, NEW f, Lists(exts, f, n),
           NEW x \in Counted, \A o \in 0 .. x.count - 1 : f[n + o] = x.lbn + o
    PROVE  /\ Followed(exts, x) \in Seq(Counted) /\ Followed(exts, x) # <<>>
           /\ Lists(Followed(exts, x), f, n + x.count)
<1> DEFINE m == Len(exts)
           more == Followed(exts, x)
<1>1. m \in Nat \ {0} /\ exts[m] \in Counted /\ \A k \in 1 .. m : exts[k] \in Counted
  OBVIOUS
<1>2. PICK ends : /\ \A k \in 0 .. m : ends[k] \in Nat
                  /\ ends[0] = 0 /\ ends[m] = n
                  /\ \A k \in 1 .. m :
                        /\ ends[k] = ends[k - 1] + exts[k].count
                        /\ \A o \in 0 .. exts[k].count - 1 : f[ends[k - 1] + o] = exts[k].lbn + o
  BY Zenon DEF Lists, IsListing
<1>3. PICK lbn \in Nat, count \in Nat \ {0}, size \in Nat \ {0} : lbn = exts[m].lbn /\ count = exts[m].count /\ size = x.count
  BY <1>1 DEF Counted
<1>4. PICK a \in Nat : a = ends[m - 1] /\ n = a + count /\ \A o \in 0 .. count - 1 : f[a + o] = lbn + o
  <2>1. m \in 1 .. m /\ m - 1 \in 0 .. m
    BY <1>1
  <2> HIDE DEF m
  <2>2. QED
    BY <1>2, <1>3, <2>1, Zenon
<1>5. CASE lbn + count = x.lbn
  <2> DEFINE sum == [lbn |-> lbn, count |-> count + size]
             now == [k \in 0 .. m |-> IF k = m THEN n + size ELSE ends[k]]
  <2>1. more = [exts EXCEPT ![m] = sum]
    <3>1. more = [exts EXCEPT ![m].count = @ + x.count]
      BY <1>3, <1>5 DEF Followed
    <3>2. [exts[m] EXCEPT !.count = @ + x.count] = sum
      BY <1>1, <1>3 DEF Counted
    <3>3. QED
      BY <3>1, <3>2
  <2>2. sum \in Counted /\ sum.lbn = lbn /\ sum.count = count + size
    BY DEF Counted
  <2> HIDE DEF more, sum
  <2>3. more \in Seq(Counted) /\ Len(more) = m /\ more # <<>> /\ more[m] = sum
        /\ \A k \in 1 .. m : k # m => more[k] = exts[k]
    BY <1>1, <2>1, <2>2
  <2> HIDE DEF m
  <2>4. \A k \in 0 .. m : now[k] = IF k = m THEN n + size ELSE ends[k]
    BY Zenon
  <2> HIDE DEF now
  <2>5. (\A k \in 0 .. m : now[k] \in Nat) /\ now[0] = 0 /\ now[m] = n + size
    <3>1. 0 \in 0 .. m /\ m \in 0 .. m /\ 0 # m /\ n + size \in Nat
      BY <1>1
    <3>2. QED
      BY <1>2, <2>4, <3>1, Zenon
  <2>6. ASSUME NEW k \in 1 .. m
        PROVE  /\ now[k] = now[k - 1] + more[k].count
               /\ \A o \in 0 .. more[k].count - 1 : f[now[k - 1] + o] = more[k].lbn + o
    <3>1. k \in 0 .. m /\ k - 1 \in 0 .. m /\ k - 1 # m
      BY <1>1
    <3>2. now[k - 1] = ends[k - 1]
      BY <2>4, <3>1, Zenon
    <3>3. CASE k # m
      <4>1. now[k] = ends[k] /\ more[k] = exts[k]
        BY <2>3, <2>4, <3>1, <3>3, Zenon
      <4>2. QED
        BY <1>2, <3>2, <4>1, Zenon
    <3>4. CASE k = m
      <4>1. now[k - 1] = a /\ now[k] = n + size /\ more[k] = sum
        BY <1>4, <2>3, <2>5, <3>2, <3>4, Zenon
      <4>2. n + size = a + (count + size)
        BY ONLY <1>4, n \in Nat, a \in Nat, count \in Nat, size \in Nat
      <4>3. ASSUME NEW o \in 0 .. count + size - 1
            PROVE  f[a + o] = lbn + o
        <5>1. CASE o < count
          <6>1. o \in 0 .. count - 1
            BY ONLY <5>1, o \in 0 .. count + size - 1, count \in Nat, size \in Nat
          <6>2. QED
            BY <1>4, <6>1, Zenon
        <5>2. CASE ~(o < count)
          <6>1. PICK r \in 0 .. size - 1 : a + o = n + r /\ lbn + o = (lbn + count) + r
            <7>1. o - count \in 0 .. size - 1
              BY ONLY <5>2, o \in 0 .. count + size - 1, count \in Nat, size \in Nat
            <7>2. a + o = n + (o - count) /\ lbn + o = (lbn + count) + (o - count)
              BY ONLY <1>4, a \in Nat, lbn \in Nat, o \in 0 .. count + size - 1, count \in Nat, size \in Nat
            <7>3. QED
              BY <7>1, <7>2, Zenon
          <6>2. f[n + r] = x.lbn + r
            BY <1>3, <6>1, Zenon
          <6>3. QED
            BY <1>5, <6>1, <6>2, Zenon
        <5>3. QED
          BY <5>1, <5>2, Zenon
      <4>4. now[k] = now[k - 1] + (count + size) /\ more[k].count = count + size /\ more[k].lbn = lbn
        BY <2>2, <4>1, <4>2
      <4>5. \A o \in 0 .. more[k].count - 1 : f[now[k - 1] + o] = more[k].lbn + o
        BY <4>1, <4>3, <4>4
      <4>6. QED
        BY <4>4, <4>5
    <3>5. QED
      BY <3>3, <3>4, Zenon
  <2>7. Lists(more, f, n + size)
    <3>1. IsListing(now, m, more, f, n + size)
      BY <2>5, <2>6, Zenon DEF IsListing
    <3>2. QED
      BY <2>3, <3>1, Zenon DEF Lists
  <2>8. QED
    BY <1>3, <2>3, <2>7, Zenon DEF more
<1>6. CASE lbn + count # x.lbn
  <2> DEFINE now == [k \in 0 .. m + 1 |-> IF k = m + 1 THEN n + size ELSE ends[k]]
  <2>1. more = Append(exts, x)
    BY <1>3, <1>6 DEF Followed
  <2> HIDE DEF more
  <2>2. more \in Seq(Counted) /\ Len(more) = m + 1 /\ more # <<>> /\ more[m + 1] = x
        /\ \A k \in 1 .. m + 1 : k # m + 1 => more[k] = exts[k]
    BY <1>1, <2>1
  <2> HIDE DEF m
  <2>3. \A k \in 0 .. m + 1 : now[k] = IF k = m + 1 THEN n + size ELSE ends[k]
    BY Zenon
  <2> HIDE DEF now
  <2>4. (\A k \in 0 .. m + 1 : now[k] \in Nat) /\ now[0] = 0 /\ now[m + 1] = n + size
    <3>1. \A k \in 0 .. m + 1 : k = m + 1 \/ k \in 0 .. m
      BY <1>1
    <3>2. 0 \in 0 .. m + 1 /\ m + 1 \in 0 .. m + 1 /\ 0 # m + 1
      BY <1>1
    <3>3. n + size \in Nat
      OBVIOUS
    <3>4. QED
      BY <1>2, <2>3, <3>1, <3>2, <3>3, Zenon
  <2>5. ASSUME NEW k \in 1 .. m + 1
        PROVE  /\ now[k] = now[k - 1] + more[k].count
               /\ \A o \in 0 .. more[k].count - 1 : f[now[k - 1] + o] = more[k].lbn + o
    <3>1. k \in 0 .. m + 1 /\ k - 1 \in 0 .. m + 1 /\ k - 1 # m + 1
      BY <1>1
    <3>2. now[k - 1] = ends[k - 1]
      BY <2>3, <3>1, Zenon
    <3>3. CASE k # m + 1
      <4>1. now[k] = ends[k] /\ more[k] = exts[k] /\ k \in 1 .. m
        BY <1>1, <2>2, <2>3, <3>1, <3>3
      <4>2. ends[k] = ends[k - 1] + exts[k].count /\ \A o \in 0 .. exts[k].count - 1 : f[ends[k - 1] + o] = exts[k].lbn + o
        BY <1>2, <4>1, Zenon
      <4>3. QED
        BY <3>2, <4>1, <4>2
    <3>4. CASE k = m + 1
      <4>1. k - 1 = m
        BY <1>1, <3>4
      <4>2. now[k - 1] = n /\ now[k] = n + size /\ more[k] = x
        BY <1>2, <2>2, <2>4, <3>2, <3>4, <4>1, Zenon
      <4>3. QED
        BY <1>3, <4>2, Zenon
    <3>5. QED
      BY <3>3, <3>4, Zenon
  <2>6. Lists(more, f, n + size)
    <3>1. IsListing(now, m + 1, more, f, n + size)
      <4>1. \A k \in 1 .. m + 1 : now[k] = now[k - 1] + more[k].count /\ \A o \in 0 .. more[k].count - 1 : f[now[k - 1] + o] = more[k].lbn + o
        BY <2>5, Zenon
      <4>2. QED
        BY <2>4, <4>1, Zenon DEF IsListing
    <3>2. QED
      BY <2>2, <3>1, Zenon DEF Lists
  <2>7. QED
    BY <1>3, <2>2, <2>6, Zenon DEF more
<1>7. QED
  BY <1>5, <1>6, Zenon

\* One extent lists its own blocks.
LEMMA OneLists ==
    ASSUME NEW x \in Counted, NEW f, \A o \in 0 .. x.count - 1 : f[o] = x.lbn + o
    PROVE  /\ <<x>> \in Seq(Counted) /\ <<x>> # <<>>
           /\ Lists(<<x>>, f, x.count)
<1> DEFINE exts == <<x>>
           ends == [k \in 0 .. 1 |-> IF k = 1 THEN x.count ELSE 0]
<1>1. exts \in Seq(Counted) /\ exts # <<>> /\ Len(exts) = 1 /\ exts[1] = x
  OBVIOUS
<1>2. PICK size \in Nat \ {0} : size = x.count
  BY DEF Counted
<1>3. (\A k \in 0 .. 1 : ends[k] \in Nat) /\ ends[0] = 0 /\ ends[1] = size
  BY <1>2
<1> HIDE DEF ends, exts
<1>4. ASSUME NEW k \in 1 .. 1
      PROVE  /\ ends[k] = ends[k - 1] + exts[k].count
             /\ \A o \in 0 .. exts[k].count - 1 : f[ends[k - 1] + o] = exts[k].lbn + o
  <2>1. k = 1 /\ k - 1 = 0
    OBVIOUS
  <2>2. exts[k] = x /\ ends[k] = size /\ ends[k - 1] = 0
    BY <1>1, <1>3, <2>1, Zenon
  <2>3. size = 0 + size /\ \A o \in 0 .. size - 1 : 0 + o = o
    OBVIOUS
  <2>4. QED
    BY <1>2, <2>2, <2>3, Zenon
<1>5. Lists(exts, f, size)
  <2>1. IsListing(ends, 1, exts, f, size)
    BY <1>3, <1>4, Zenon DEF IsListing
  <2>2. QED
    BY <1>1, <2>1, Zenon DEF Lists
<1>6. QED
  BY <1>1, <1>2, <1>5, Zenon DEF exts

\* INDEXF.SYS's blocks: four clusters and the index.
FileBlocks ==
    LET c == asked.cluster IN
    [o \in Nat |-> IF o < c THEN layout.lbn["boot"] + o
                   ELSE IF o < 2 * c THEN layout.lbn["home1"] + (o - c)
                   ELSE IF o < 3 * c THEN layout.lbn["home2"] + (o - 2 * c)
                   ELSE IF o < 4 * c THEN layout.lbn["altIndex"] + (o - 3 * c)
                   ELSE layout.lbn["index"] + (o - 4 * c)]

\* INDEXF.SYS's extents are its parts' extents, each after the others.
LEMMA PartsFollow ==
    IndexFileExtents = Followed(Followed(Followed(Followed(<<Extent("boot")>>, Extent("home1")), Extent("home2")),
                                         Extent("altIndex")), Extent("index"))
<1> DEFINE E1 == <<Extent("boot")>>
           E2 == Followed(E1, Extent("home1"))
           E3 == Followed(E2, Extent("home2"))
           E4 == Followed(E3, Extent("altIndex"))
           E5 == Followed(E4, Extent("index"))
           Grown(g) == [k \in DOMAIN MapParts |->
                          IF k = 1 THEN <<Extent("boot")>>
                          ELSE LET before == g[k - 1]
                                   last == before[Len(before)]
                               IN  IF last.lbn + last.count = layout.lbn[MapParts[k]]
                                   THEN [before EXCEPT ![Len(before)].count = @ + layout.count[MapParts[k]]]
                                   ELSE Append(before, Extent(MapParts[k]))]
           Next1(g, k) == IF k = 1 THEN <<Extent("boot")>> ELSE Followed(g[k - 1], Extent(MapParts[k]))
           chosen == CHOOSE g : g = Grown(g)
<1>1. /\ DOMAIN MapParts = 1 .. 5 /\ Len(MapParts) = 5
      /\ MapParts[2] = "home1" /\ MapParts[3] = "home2" /\ MapParts[4] = "altIndex" /\ MapParts[5] = "index"
  BY DEF MapParts
<1>2. ASSUME NEW g, NEW k \in 1 .. 5
      PROVE  Grown(g)[k] = Next1(g, k)
  <2>1. Extent(MapParts[k]).lbn = layout.lbn[MapParts[k]] /\ Extent(MapParts[k]).count = layout.count[MapParts[k]]
    BY DEF Extent
  <2>2. k \in DOMAIN MapParts
    BY <1>1
  <2>3. CASE k = 1
    BY <2>2, <2>3, Zenon
  <2>4. CASE k # 1
    <3> DEFINE before == g[k - 1]
               last == before[Len(before)]
    <3>1. Grown(g)[k] = IF last.lbn + last.count = layout.lbn[MapParts[k]]
                        THEN [before EXCEPT ![Len(before)].count = @ + layout.count[MapParts[k]]]
                        ELSE Append(before, Extent(MapParts[k]))
      BY <2>2, <2>4, Zenon
    <3> HIDE DEF before
    <3>2. Followed(before, Extent(MapParts[k])) =
            IF last.lbn + last.count = layout.lbn[MapParts[k]]
            THEN [before EXCEPT ![Len(before)].count = @ + layout.count[MapParts[k]]]
            ELSE Append(before, Extent(MapParts[k]))
      BY <2>1 DEF Followed
    <3>3. QED
      BY <2>4, <3>1, <3>2, Zenon DEF before
  <2>5. QED
    BY <2>3, <2>4, Zenon
<1>3. \A g : Grown(g) = [k \in 1 .. 5 |-> Grown(g)[k]]
  BY <1>1, Zenon
<1> DEFINE w == [k \in 1 .. 5 |-> CASE k = 1 -> E1 [] k = 2 -> E2 [] k = 3 -> E3 [] k = 4 -> E4 [] OTHER -> E5]
<1>4. w = Grown(w)
  <2>1. w = [k \in 1 .. 5 |-> w[k]]
    <3> HIDE DEF E1, E2, E3, E4, E5
    <3>1. QED
      OBVIOUS
  <2>2. w[1] = E1 /\ w[2] = E2 /\ w[3] = E3 /\ w[4] = E4 /\ w[5] = E5
    <3> HIDE DEF E1, E2, E3, E4, E5
    <3>1. QED
      OBVIOUS
  <2>3. ASSUME NEW k \in 1 .. 5
        PROVE  w[k] = Grown(w)[k]
    <3>1. Grown(w)[k] = Next1(w, k)
      BY <1>2, Zenon
    <3>2. k = 1 \/ k = 2 \/ k = 3 \/ k = 4 \/ k = 5
      OBVIOUS
    <3> HIDE DEF w, Grown
    <3>3. w[k] = Next1(w, k)
      <4>1. CASE k = 1
        BY <2>2, <4>1, Zenon
      <4>2. CASE k = 2
        BY <1>1, <2>2, <4>2, 2 - 1 = 1, 2 # 1, Zenon
      <4>3. CASE k = 3
        BY <1>1, <2>2, <4>3, 3 - 1 = 2, 3 # 1, Zenon
      <4>4. CASE k = 4
        BY <1>1, <2>2, <4>4, 4 - 1 = 3, 4 # 1, Zenon
      <4>5. CASE k = 5
        BY <1>1, <2>2, <4>5, 5 - 1 = 4, 5 # 1, Zenon
      <4>6. QED
        BY <3>2, <4>1, <4>2, <4>3, <4>4, <4>5, Zenon
    <3>4. QED
      BY <3>1, <3>3, Zenon
  <2> DEFINE x == Grown(w)
  <2>4. x = [k \in 1 .. 5 |-> x[k]]
    BY <1>3, Zenon
  <2>5. \A k \in 1 .. 5 : w[k] = x[k]
    BY <2>3, Zenon
  <2> HIDE DEF w, x
  <2>6. w = x
    BY <2>1, <2>4, <2>5, SameValues, Zenon
  <2>7. QED
    BY <2>6, Zenon DEF x
<1> HIDE DEF w, Grown
<1>5. chosen = Grown(chosen)
  BY <1>4, Zenon
<1>6. IndexFileExtents = chosen[5]
  BY <1>1, Zenon DEF IndexFileExtents, Grown
<1> HIDE DEF chosen
<1>7. \A k \in 1 .. 5 : chosen[k] = Next1(chosen, k)
  BY <1>2, <1>5, Zenon
<1>8. chosen[1] = E1 /\ chosen[2] = Followed(chosen[1], Extent("home1"))
      /\ chosen[3] = Followed(chosen[2], Extent("home2")) /\ chosen[4] = Followed(chosen[3], Extent("altIndex"))
      /\ chosen[5] = Followed(chosen[4], Extent("index"))
  <2>1. chosen[1] = Next1(chosen, 1) /\ chosen[2] = Next1(chosen, 2) /\ chosen[3] = Next1(chosen, 3)
        /\ chosen[4] = Next1(chosen, 4) /\ chosen[5] = Next1(chosen, 5)
    BY <1>7
  <2>2. 2 - 1 = 1 /\ 3 - 1 = 2 /\ 4 - 1 = 3 /\ 5 - 1 = 4
    OBVIOUS
  <2>3. QED
    BY <1>1, <2>1, <2>2, 2 # 1, 3 # 1, 4 # 1, 5 # 1, Zenon
<1>9. QED
  BY <1>6, <1>8, Zenon

\* They list its blocks.
LEMMA IndexFileLists ==
    ASSUME TableOK, \A e \in {"boot", "home1", "home2", "altIndex"} : layout.count[e] = asked.cluster,
           NEW N \in Nat \ {0}, layout.count["index"] = N
    PROVE  /\ IndexFileExtents \in Seq(Counted)
           /\ Lists(IndexFileExtents, FileBlocks, 4 * asked.cluster + N)
           /\ \A i \in Nat : FileBlocks[i] \in Nat
<1> DEFINE E1 == <<Extent("boot")>>
           E2 == Followed(E1, Extent("home1"))
           E3 == Followed(E2, Extent("home2"))
           E4 == Followed(E3, Extent("altIndex"))
           E5 == Followed(E4, Extent("index"))
           f == FileBlocks
<1>1. PICK c \in Nat \ {0} : c = asked.cluster
  BY TableTypes, Zenon
<1>2. PICK b \in Nat, h1 \in Nat, h2 \in Nat, a \in Nat, x \in Nat :
        /\ b = layout.lbn["boot"] /\ h1 = layout.lbn["home1"] /\ h2 = layout.lbn["home2"]
        /\ a = layout.lbn["altIndex"] /\ x = layout.lbn["index"]
  <2>1. \A e \in Structures : layout.lbn[e] \in Nat
    BY TableTypes DEF AllEntries
  <2>2. QED
    BY <2>1, Zenon DEF Structures
<1>3. /\ Extent("boot") = [lbn |-> b, count |-> c]
      /\ Extent("home1") = [lbn |-> h1, count |-> c]
      /\ Extent("home2") = [lbn |-> h2, count |-> c]
      /\ Extent("altIndex") = [lbn |-> a, count |-> c]
      /\ Extent("index") = [lbn |-> x, count |-> N]
  BY <1>1, <1>2, Zenon DEF Extent
<1>4. f = [o \in Nat |-> IF o < c THEN b + o
                         ELSE IF o < 2 * c THEN h1 + (o - c)
                         ELSE IF o < 3 * c THEN h2 + (o - 2 * c)
                         ELSE IF o < 4 * c THEN a + (o - 3 * c)
                         ELSE x + (o - 4 * c)]
  BY <1>1, <1>2 DEF FileBlocks
<1> HIDE DEF f
<1>5. \A o \in Nat : f[o] = IF o < c THEN b + o
                            ELSE IF o < 2 * c THEN h1 + (o - c)
                            ELSE IF o < 3 * c THEN h2 + (o - 2 * c)
                            ELSE IF o < 4 * c THEN a + (o - 3 * c)
                            ELSE x + (o - 4 * c)
  BY <1>4
<1>6. \A i \in Nat : f[i] \in Nat
  BY <1>5
<1>7. /\ Extent("boot") \in Counted /\ Extent("home1") \in Counted /\ Extent("home2") \in Counted
      /\ Extent("altIndex") \in Counted /\ Extent("index") \in Counted
  BY <1>3 DEF Counted
<1>8. /\ Extent("boot").count = c /\ Extent("home1").count = c /\ Extent("home2").count = c
      /\ Extent("altIndex").count = c /\ Extent("index").count = N
      /\ Extent("boot").lbn = b /\ Extent("home1").lbn = h1 /\ Extent("home2").lbn = h2
      /\ Extent("altIndex").lbn = a /\ Extent("index").lbn = x
  BY <1>3
<1>9. PICK c2 \in Nat, c3 \in Nat, c4 \in Nat : c2 = c + c /\ c3 = c2 + c /\ c4 = c3 + c
  OBVIOUS
<1>10. /\ \A o \in 0 .. c - 1 : f[o] = b + o
       /\ \A o \in 0 .. c - 1 : f[c + o] = h1 + o
       /\ \A o \in 0 .. c - 1 : f[c2 + o] = h2 + o
       /\ \A o \in 0 .. c - 1 : f[c3 + o] = a + o
       /\ \A o \in 0 .. N - 1 : f[c4 + o] = x + o
  <2>1. \A o \in 0 .. c - 1 : f[o] = b + o
    BY <1>5
  <2>2. \A o \in 0 .. c - 1 : f[c + o] = h1 + o
    <3>1. ASSUME NEW o \in 0 .. c - 1 PROVE f[c + o] = h1 + o
      <4>1. c + o \in Nat /\ ~(c + o < c) /\ c + o < 2 * c /\ h1 + (c + o - c) = h1 + o
        OBVIOUS
      <4>2. QED
        BY <1>5, <4>1
    <3>2. QED
      BY <3>1
  <2>3. \A o \in 0 .. c - 1 : f[c2 + o] = h2 + o
    <3>1. ASSUME NEW o \in 0 .. c - 1 PROVE f[c2 + o] = h2 + o
      <4>1. c2 + o \in Nat /\ ~(c2 + o < c) /\ ~(c2 + o < 2 * c) /\ c2 + o < 3 * c /\ h2 + (c2 + o - 2 * c) = h2 + o
        BY <1>9
      <4>2. QED
        BY <1>5, <4>1
    <3>2. QED
      BY <3>1
  <2>4. \A o \in 0 .. c - 1 : f[c3 + o] = a + o
    <3>1. ASSUME NEW o \in 0 .. c - 1 PROVE f[c3 + o] = a + o
      <4>1. /\ c3 + o \in Nat /\ ~(c3 + o < c) /\ ~(c3 + o < 2 * c) /\ ~(c3 + o < 3 * c) /\ c3 + o < 4 * c
            /\ a + (c3 + o - 3 * c) = a + o
        BY <1>9
      <4>2. QED
        BY <1>5, <4>1
    <3>2. QED
      BY <3>1
  <2>5. \A o \in 0 .. N - 1 : f[c4 + o] = x + o
    <3>1. ASSUME NEW o \in 0 .. N - 1 PROVE f[c4 + o] = x + o
      <4>1. /\ c4 + o \in Nat /\ ~(c4 + o < c) /\ ~(c4 + o < 2 * c) /\ ~(c4 + o < 3 * c) /\ ~(c4 + o < 4 * c)
            /\ x + (c4 + o - 4 * c) = x + o
        BY <1>9
      <4>2. QED
        BY <1>5, <4>1
    <3>2. QED
      BY <3>1
  <2>6. QED
    BY <2>1, <2>2, <2>3, <2>4, <2>5, Zenon
<1>11. E1 \in Seq(Counted) /\ E1 # <<>> /\ Lists(E1, f, c)
  BY <1>7, <1>8, <1>10, OneLists, Zenon
<1> HIDE DEF E1
<1>12. E2 \in Seq(Counted) /\ E2 # <<>> /\ Lists(E2, f, c2)
  <2>1. E2 \in Seq(Counted) /\ E2 # <<>> /\ Lists(E2, f, c + Extent("home1").count)
    BY <1>7, <1>8, <1>10, <1>11, ListGrows, Zenon
  <2>2. QED
    BY <1>8, <1>9, <2>1, Zenon
<1> HIDE DEF E2
<1>13. E3 \in Seq(Counted) /\ E3 # <<>> /\ Lists(E3, f, c3)
  <2>1. E3 \in Seq(Counted) /\ E3 # <<>> /\ Lists(E3, f, c2 + Extent("home2").count)
    BY <1>7, <1>8, <1>10, <1>12, ListGrows, Zenon
  <2>2. QED
    BY <1>8, <1>9, <2>1, Zenon
<1> HIDE DEF E3
<1>14. E4 \in Seq(Counted) /\ E4 # <<>> /\ Lists(E4, f, c4)
  <2>1. E4 \in Seq(Counted) /\ E4 # <<>> /\ Lists(E4, f, c3 + Extent("altIndex").count)
    BY <1>7, <1>8, <1>10, <1>13, ListGrows, Zenon
  <2>2. QED
    BY <1>8, <1>9, <2>1, Zenon
<1> HIDE DEF E4
<1>15. E5 \in Seq(Counted) /\ E5 # <<>> /\ Lists(E5, f, c4 + N)
  <2>1. E5 \in Seq(Counted) /\ E5 # <<>> /\ Lists(E5, f, c4 + Extent("index").count)
    BY <1>7, <1>8, <1>10, <1>14, ListGrows, Zenon
  <2>2. QED
    BY <1>8, <2>1, Zenon
<1> HIDE DEF E5
<1>16. IndexFileExtents = E5
  BY PartsFollow, Zenon DEF E5, E4, E3, E2, E1
<1>17. c4 + N = 4 * asked.cluster + N
  BY <1>1, <1>9
<1>18. QED
  BY <1>6, <1>15, <1>16, <1>17, Zenon DEF f

\* Every extent of a reserved file has a pointer.
HaveMaps ==
    \A x \in Range(IndexFileExtents) \union {Extent(e) : e \in {"bitmap", "badBlock", "mfd", "security"}} :
        x.count <= MostBlocks

\* Options INITIALIZE accepts leave room for the reserved files' headers, and an
\* index file bitmap whose blocks are counted in a word.
LEMMA AcceptedSizes ==
    ASSUME NEW o \in Options, IsAcceptable(o)
    PROVE  /\ Headers(o) \in Nat /\ Reserved <= Headers(o)
           /\ IndexBitmapBlocks(o) \in Nat \ {0} /\ IndexBitmapBlocks(o) % Word = IndexBitmapBlocks(o)
           /\ MinClusters <= VolumeSize(o) \div o.cluster
<1>1. /\ Bits \in Nat \ {0} /\ Reserved \in Nat \ {0} /\ MinHeaders \in Nat \ {0} /\ Reserved <= MinHeaders
      /\ Word \in Nat \ {0} /\ MostFiles \in Nat /\ MostFiles <= (Word - 1) * Bits
      /\ o.headers \in Nat /\ o.maxFiles \in Nat /\ MinClusters \in Nat \ {0}
  BY SizesAssumption, ReservedAssumption, MostFilesAssumption, Quarters, OptionTypes
<1>2. Headers(o) \in Nat
  BY Needs
<1>3. PICK n \in Nat : n = MaxFiles(o) /\ Reserved <= n /\ n <= MostFiles
  <2>1. MaxFiles(o) \in Nat
    BY MaxFilesType
  <2>2. \A k : Smaller(k, MostFiles) \in Nat => Smaller(k, MostFiles) <= MostFiles
    BY <1>1 DEF Smaller
  <2>3. MaxFiles(o) <= MostFiles
    BY <2>1, <2>2, Zenon DEF MaxFiles
  <2>4. Reserved <= MaxFiles(o)
    BY <1>1, <2>1 DEF IsAcceptable
  <2>5. QED
    BY <2>1, <2>3, <2>4, Zenon
<1>4. Reserved <= Headers(o)
  BY <1>1, <1>3 DEF Headers, Smaller, Larger
<1>5. PICK r \in Nat : r = RoundedUp(n, Bits) /\ IsMultiple(r, Bits) /\ n <= r /\ r < n + Bits
  BY <1>1, Roundings, Zenon
<1>6. PICK q \in Nat : r = q * Bits
  BY <1>5 DEF IsMultiple
<1>7. r \div Bits = q
  BY <1>1, <1>6, MultipleDivides
<1>8. q # 0
  BY <1>1, <1>3, <1>5, <1>6
<1>9. q < Word
  <2>1. q * Bits < Word * Bits
    <3>1. (Word - 1) * Bits = Word * Bits - Bits /\ Word * Bits \in Nat
      BY <1>1
    <3>2. QED
      BY <1>1, <1>3, <1>5, <1>6, <3>1
  <2>2. Word <= q => Word * Bits <= q * Bits
    BY <1>1, ProductsAreOrdered
  <2>3. q * Bits \in Nat /\ Word * Bits \in Nat
    BY <1>1
  <2>4. QED
    BY <1>1, <2>1, <2>2, <2>3
<1>10. q % Word = q
  BY <1>1, <1>9
<1>11. IndexBitmapBlocks(o) = q
  BY <1>3, <1>5, <1>7 DEF IndexBitmapBlocks
<1>12. MinClusters <= VolumeSize(o) \div o.cluster
  <2>1. VolumeSize(o) \div o.cluster \in Nat
    BY VolumeEnds, OptionTypes, Quotients
  <2>2. QED
    BY <1>1, <2>1 DEF IsAcceptable
<1>13. QED
  BY <1>2, <1>4, <1>8, <1>10, <1>11, <1>12

\* Once all is placed every structure has its blocks.
LEMMA AllSized ==
    ASSUME LayoutOK, steps >= 8, IsAcceptable(asked)
    PROVE  /\ asked \in Options /\ asked.cluster \in Nat \ {0}
           /\ \A e \in Structures : /\ layout.count[e] = BlocksNeeded(e) /\ layout.count[e] \in Nat \ {0}
                                    /\ layout.lbn[e] \in Nat
                                    /\ Needed(e, asked) <= layout.count[e]
           /\ \A e \in {"boot", "home1", "home2", "altIndex"} : layout.count[e] = asked.cluster
<1>1. asked \in Options /\ asked.cluster \in Nat \ {0} /\ \A e \in AllEntries : layout.lbn[e] \in Nat /\ layout.count[e] \in Nat
  BY TableTypes DEF LayoutOK, TableOK
<1>2. \A e \in Structures : layout.count[e] = BlocksNeeded(e)
  <2>1. \A e \in Structures : \E k \in 1 .. 8 : PlaceOrder(asked)[k] = e
    BY OrderNames, Zenon
  <2>2. \A k \in 1 .. 8 : k <= steps
    BY DEF LayoutOK, DiskOK
  <2>3. QED
    BY <2>1, <2>2, Zenon DEF LayoutOK, Sized
<1>3. ASSUME NEW e \in Structures
      PROVE  BlocksNeeded(e) \in Nat \ {0} /\ Needed(e, asked) <= BlocksNeeded(e)
  <2>1. BlocksNeeded(e) \in Nat /\ Needed(e, asked) \in Nat /\ Needed(e, asked) <= BlocksNeeded(e)
    BY <1>1, BlocksNeededIsWhole, Zenon
  <2>2. 1 <= Needed(e, asked)
    <3>1. CASE e \in {"bitmap", "mfd", "security"}
      BY <1>1, <3>1, Needs
    <3>2. CASE e = "index"
      <4>1. Headers(asked) \in Nat /\ IndexBitmapBlocks(asked) \in Nat
        BY <1>1, Needs
      <4>2. 1 <= IndexBitmapBlocks(asked)
        BY <1>1, AcceptedSizes
      <4>3. QED
        BY <3>2, <4>1, <4>2 DEF Needed
    <3>3. CASE e \in {"boot", "home1", "home2", "altIndex"}
      BY <3>3 DEF Needed
    <3>4. QED
      BY <3>1, <3>2, <3>3 DEF Structures
  <2>3. QED
    BY <2>1, <2>2
<1>4. \A e \in {"boot", "home1", "home2", "altIndex"} : BlocksNeeded(e) = asked.cluster
  <2>1. \A e \in {"boot", "home1", "home2", "altIndex"} : Needed(e, asked) = 1
    BY DEF Needed
  <2>2. QED
    BY <1>1, <2>1, OneRounded, Zenon DEF BlocksNeeded
<1>5. QED
  BY <1>1, <1>2, <1>3, <1>4 DEF AllEntries, Structures

\* A structure's extent, in a map of its own, leads to its first block.
LEMMA OneMapReads ==
    ASSUME LayoutOK, steps >= 8, IsAcceptable(asked), HaveMaps, NEW e \in {"bitmap", "mfd", "security"}
    PROVE  BlocksOfMap(Encoded(<<Extent(e)>>))[1] = layout.lbn[e]
<1> DEFINE x == Extent(e)
           f == [o \in Nat |-> layout.lbn[e] + o]
<1>1. PICK l \in Nat, n \in Nat \ {0} : l = layout.lbn[e] /\ n = layout.count[e]
  BY AllSized, Zenon DEF Structures
<1>2. x = [lbn |-> l, count |-> n]
  BY <1>1, Zenon DEF Extent
<1>3. x.count <= MostBlocks
  BY Zenon DEF HaveMaps
<1>4. x \in Counted /\ x \in Pointed /\ x.count = n /\ x.lbn = l
  BY <1>2, <1>3 DEF Counted, Pointed
<1>5. \A i \in Nat : f[i] = l + i /\ f[i] \in Nat
  BY <1>1
<1> HIDE DEF x, f
<1>6. \A o \in 0 .. x.count - 1 : f[o] = x.lbn + o
  BY <1>4, <1>5
<1>7. Lists(<<x>>, f, x.count)
  BY <1>4, <1>6, OneLists, Zenon
<1>8. <<x>> \in Seq(Pointed)
  BY <1>4
<1>9. BlocksOfMap(Encoded(<<x>>)) = FirstOf(f, n)
  BY <1>4, <1>5, <1>7, <1>8, MapReads, Zenon
<1>10. FirstOf(f, n)[1] = f[0]
  BY DEF FirstOf
<1>11. f[0] = l
  BY <1>5
<1>12. QED
  BY <1>1, <1>9, <1>10, <1>11, Zenon DEF x

\* INDEXF.SYS's map leads to its blocks.
LEMMA IndexMapReads ==
    ASSUME LayoutOK, steps >= 8, IsAcceptable(asked), HaveMaps
    PROVE  /\ BlocksOfMap(Header(1).map) = FirstOf(FileBlocks, 4 * asked.cluster + layout.count["index"])
           /\ \A i \in Nat : FileBlocks[i] \in Nat
<1>1. PICK N \in Nat \ {0} : N = layout.count["index"]
  BY AllSized, Zenon DEF Structures
<1>2. /\ IndexFileExtents \in Seq(Counted)
      /\ Lists(IndexFileExtents, FileBlocks, 4 * asked.cluster + N)
      /\ \A i \in Nat : FileBlocks[i] \in Nat
  BY <1>1, AllSized, IndexFileLists, Zenon DEF LayoutOK
<1>3. PICK n \in Nat : n = 4 * asked.cluster + N
  BY AllSized
<1> DEFINE exts == IndexFileExtents
<1>4. exts \in Seq(Counted)
  BY <1>2
<1>5. \A x \in Range(exts) : x.count <= MostBlocks
  BY Zenon DEF HaveMaps
<1> HIDE DEF exts
<1>6. exts \in Seq(Pointed)
  <2>1. \A k \in 1 .. Len(exts) : exts[k] \in Counted /\ exts[k] \in Range(exts)
    BY <1>4 DEF Range
  <2>2. \A k \in 1 .. Len(exts) : exts[k] \in Pointed
    BY <1>5, <2>1 DEF Counted, Pointed
  <2>3. Len(exts) \in Nat /\ exts = [k \in 1 .. Len(exts) |-> exts[k]]
    BY <1>4
  <2>4. QED
    BY <2>2, <2>3
<1>7. BlocksOfMap(Encoded(exts)) = FirstOf(FileBlocks, n)
  BY <1>2, <1>3, <1>6, MapReads, Zenon DEF exts
<1>8. Header(1).map = Encoded(exts)
  BY ReservedAssumption, SizesAssumption DEF Header, MapOf, exts
<1>9. QED
  BY <1>1, <1>2, <1>3, <1>7, <1>8, Zenon

(***************************************************************************)
(* The home blocks: one is where a mount looks first.                      *)
(***************************************************************************)

\* Structures not placed yet have no blocks.
Unplaced == \A k \in 1 .. 8 : k > steps => layout.count[PlaceOrder(asked)[k]] = 0

\* The home blocks' places: one is at LBN 1, where a mount looks first.
HomesPlaced ==
    /\ Unplaced
    /\ status = "running" \/ steps > 0 => IsAcceptable(asked)
    /\ steps >= 1 => layout.lbn["boot"] = 0
    /\ steps >= 2 /\ asked.cluster = 1 => layout.lbn["home1"] = 1
    /\ steps >= 3 => layout.realHome \in Nat /\ ClusterOf(layout.realHome) = layout.lbn["home2"]

\* The boot block and the home blocks are placed first.
LEMMA FirstPlaced ==
    ASSUME NEW o
    PROVE  /\ PlaceOrder(o)[1] = "boot" /\ PlaceOrder(o)[2] = "home1" /\ PlaceOrder(o)[3] = "home2"
           /\ \A j, k \in 1 .. 8 : PlaceOrder(o)[j] = PlaceOrder(o)[k] => j = k
<1> DEFINE order == PlaceOrder(o)
<1>1. CASE IsAtEnd(o)
  <2>1. order = (<<"boot", "home1", "home2">> \o <<"index", "bitmap", "mfd">>) \o <<"altIndex", "security">>
    BY <1>1, Zenon DEF PlaceOrder
  <2>2. /\ order[1] = "boot" /\ order[2] = "home1" /\ order[3] = "home2" /\ order[4] = "index"
        /\ order[5] = "bitmap" /\ order[6] = "mfd" /\ order[7] = "altIndex" /\ order[8] = "security"
    BY <2>1
  <2> HIDE DEF order
  <2>3. \A j, k \in 1 .. 8 : order[j] = order[k] => j = k
    BY <2>2
  <2>4. QED
    BY <2>2, <2>3 DEF order
<1>2. CASE ~IsAtEnd(o)
  <2>1. order = (<<"boot", "home1", "home2">> \o <<"mfd", "bitmap", "index">>) \o <<"altIndex", "security">>
    BY <1>2, Zenon DEF PlaceOrder
  <2>2. /\ order[1] = "boot" /\ order[2] = "home1" /\ order[3] = "home2" /\ order[4] = "mfd"
        /\ order[5] = "bitmap" /\ order[6] = "index" /\ order[7] = "altIndex" /\ order[8] = "security"
    BY <2>1
  <2> HIDE DEF order
  <2>3. \A j, k \in 1 .. 8 : order[j] = order[k] => j = k
    BY <2>2
  <2>4. QED
    BY <2>2, <2>3 DEF order
<1>3. QED
  BY <1>1, <1>2

\* What a step of placing does to the table.
LEMMA PlaceChanges ==
    ASSUME LayoutOK, Place, NEW e, e = PlaceOrder(asked)[steps + 1]
    PROVE  /\ steps \in 0 .. 7 /\ steps' = steps + 1 /\ asked' = asked /\ status' = status /\ status = "running"
           /\ disk' = disk
           /\ e \in Structures
           /\ PlaceOf(e, BlocksNeeded(e)) # NoRoom
           /\ layout'.lbn[e] = PlaceOf(e, BlocksNeeded(e)) /\ layout'.count[e] = BlocksNeeded(e)
           /\ \A f \in AllEntries : f # e => layout'.lbn[f] = layout.lbn[f] /\ layout'.count[f] = layout.count[f]
           /\ layout'.realHome = IF IsHome(e) THEN RealHome ELSE layout.realHome
<1>1. /\ steps \in 0 .. 7 /\ steps' = steps + 1 /\ asked' = asked /\ disk' = disk /\ status' = status
      /\ status = "running"
  BY OrderNames, SMTT(30) DEF Place, LayoutOK, DiskOK
<1> DEFINE n == BlocksNeeded(e)
           l == PlaceOf(e, n)
<1>2. /\ l # NoRoom
      /\ layout' = [layout EXCEPT !.lbn[e] = l, !.count[e] = n, !.realHome = IF IsHome(e) THEN RealHome ELSE @]
  BY DEF Place
<1>3. e \in Structures /\ e \in AllEntries
  BY <1>1, OrderNames DEF AllEntries
<1>4. layout \in Table
  BY DEF LayoutOK, TableOK
<1> HIDE DEF l, n
<1>5. layout.lbn \in [AllEntries -> Nat] /\ layout.count \in [AllEntries -> Nat]
  BY <1>4 DEF Table
<1>6. /\ layout'.lbn = [layout.lbn EXCEPT ![e] = l] /\ layout'.count = [layout.count EXCEPT ![e] = n]
      /\ layout'.realHome = IF IsHome(e) THEN RealHome ELSE layout.realHome
  BY <1>2, <1>4 DEF Table
<1>7. /\ layout'.lbn[e] = l /\ layout'.count[e] = n
      /\ \A f \in AllEntries : f # e => layout'.lbn[f] = layout.lbn[f] /\ layout'.count[f] = layout.count[f]
  BY <1>3, <1>5, <1>6
<1>8. QED
  BY <1>1, <1>2, <1>3, <1>6, <1>7 DEF l, n

\* The boot block is at the volume's start.
LEMMA BootIsFirst ==
    ASSUME LayoutOK, Unplaced, steps = 0, PlaceOf("boot", BlocksNeeded("boot")) # NoRoom
    PROVE  PlaceOf("boot", BlocksNeeded("boot")) = 0
<1>1. TableOK /\ asked \in Options /\ asked.cluster \in Nat \ {0}
      /\ \A e \in AllEntries : layout.lbn[e] \in Nat /\ layout.count[e] \in Nat
  BY TableTypes DEF LayoutOK, TableOK
<1>2. BlocksNeeded("boot") = asked.cluster
  <2>1. Needed("boot", asked) = 1
    BY DEF Needed
  <2>2. QED
    BY <1>1, <2>1, OneRounded DEF BlocksNeeded
<1>3. PICK c \in Nat \ {0} : c = asked.cluster
  BY <1>1
<1>4. PlaceOf("boot", c) = PlaceFrom(0, c, FALSE)
  <2>1. ~IsHome("boot")
    BY DEF IsHome
  <2>2. StartOf("boot", asked) = 0
    BY DEF StartOf
  <2>3. (IsAtEnd(asked) /\ "boot" \notin {"boot", "home1"}) = FALSE
    BY DEF IsAtEnd
  <2>4. QED
    BY <2>1, <2>2, <2>3 DEF PlaceOf
<1>5. IsMultiple(c, c)
  BY 1 \in Nat, c = 1 * c, Zenon DEF IsMultiple
<1> DEFINE l == PlaceFrom(0, c, FALSE)
<1>6. /\ l \in Nat /\ l < VolumeSize(asked) /\ IsFree(l, c)
      /\ IsFree((0 \div c) * c, c) => l = (0 \div c) * c
  <2>1. l # NoRoom
    BY <1>2, <1>3, <1>4
  <2>2. 0 \in Int /\ c \in Nat /\ FALSE \in BOOLEAN /\ IsMultiple(c, asked.cluster)
    BY <1>3, <1>5
  <2>3. /\ l \in Nat /\ l < VolumeSize(asked) /\ IsFree(l, c)
        /\ IsFree((0 \div asked.cluster) * asked.cluster, c) => l = (0 \div asked.cluster) * asked.cluster
    BY <1>1, <2>1, <2>2, PlaceFromFindsRoom, Zenon
  <2>4. QED
    BY <1>3, <2>3
<1> HIDE DEF l
<1>7. LastWhole(asked) \in Nat /\ c <= LastWhole(asked)
  <2>1. l + c <= LastWhole(asked) /\ LastWhole(asked) \in Nat
    BY <1>1, <1>3, <1>6, FreeIsApart, VolumeEnds
  <2>2. QED
    BY <1>3, <1>6, <2>1
<1>8. (0 \div c) * c = 0
  BY <1>3
<1>9. IsFree(0, c)
  <2>1. SUFFICES ASSUME ~IsFree(0, c) PROVE FALSE
    OBVIOUS
  <2>2. PICK i \in DOMAIN Entries : Entries[i] \in Placed /\ Overlap(0, c, layout.lbn[Entries[i]], layout.count[Entries[i]])
    BY <2>1 DEF IsFree, Conflicting
  <2>3. PICK e \in AllEntries : e \in Placed /\ Overlap(0, c, layout.lbn[e], layout.count[e])
    BY <2>2, TableNames
  <2>4. layout.count[e] > 0 /\ layout.lbn[e] < c
    <3>1. layout.lbn[e] < 0 + c
      BY <2>3 DEF Overlap
    <3>2. QED
      BY <1>1, <1>3, <2>3, <3>1 DEF Placed
  <2>5. e \notin Structures
    <3>1. ASSUME e \in Structures
          PROVE  layout.count[e] = 0
      <4>1. PICK k \in 1 .. 8 : PlaceOrder(asked)[k] = e
        BY <3>1, OrderNames
      <4>2. QED
        BY <4>1 DEF Unplaced
    <3>2. QED
      BY <2>4, <3>1
  <2>6. layout.lbn[e] = LastWhole(asked)
    BY <1>1, <2>5 DEF AllEntries, TableOK, EndIsTaken
  <2>7. QED
    BY <1>3, <1>7, <2>4, <2>6
<1>10. QED
  BY <1>2, <1>3, <1>4, <1>6, <1>8, <1>9 DEF l

\* With clusters of a block the first home block is at LBN 1.
LEMMA HomeIsNext ==
    ASSUME LayoutOK, Unplaced, steps = 1, asked.cluster = 1, layout.lbn["boot"] = 0, RealHome # NoRoom
    PROVE  ClusterOf(RealHome) = 1
<1>1. TableOK /\ asked \in Options /\ \A e \in AllEntries : layout.lbn[e] \in Nat /\ layout.count[e] \in Nat
  BY TableTypes DEF LayoutOK, TableOK
<1>2. \A l \in Int : ClusterOf(l) = l
  BY DEF ClusterOf
<1> DEFINE free == {l \in OnSequence : IsFree(ClusterOf(l), asked.cluster)}
           h == RealHome
<1>3. h = Least(free) /\ free # {}
  BY DEF RealHome
<1>4. /\ h \in Nat /\ h < VolumeSize(asked) /\ IsFree(h, 1)
  <2>1. h \in Nat /\ ClusterOf(h) < VolumeSize(asked) /\ IsFree(ClusterOf(h), asked.cluster)
    BY <1>1, RealHomeIsFree
  <2> HIDE DEF h
  <2>2. ClusterOf(h) = h
    BY <1>2, <2>1
  <2>3. QED
    BY <2>1, <2>2
<1> HIDE DEF h
<1>5. layout.count["boot"] = 1
  <2>1. PlaceOrder(asked)[1] = "boot"
    BY FirstPlaced
  <2>2. layout.count["boot"] = BlocksNeeded("boot")
    BY <2>1 DEF LayoutOK, Sized
  <2>3. Needed("boot", asked) = 1
    BY DEF Needed
  <2>4. BlocksNeeded("boot") = 1
    BY <2>3, OneRounded DEF BlocksNeeded
  <2>5. QED
    BY <2>2, <2>4
<1>6. h + 1 <= LastWhole(asked) /\ h # 0
  <2>1. h + 1 <= LastWhole(asked) /\ (h .. h + 1 - 1) \cap BlocksOf("boot") = {}
    BY <1>1, <1>4, FreeIsApart DEF Structures
  <2>2. 0 \in BlocksOf("boot")
    BY <1>5 DEF BlocksOf
  <2>3. QED
    BY <1>4, <2>1, <2>2
<1>7. LastWhole(asked) \in Nat /\ 1 < LastWhole(asked) /\ VolumeSize(asked) \in Nat /\ 1 < VolumeSize(asked)
  <2>1. LastWhole(asked) \in Nat /\ VolumeSize(asked) \in Nat
    BY <1>1, VolumeEnds
  <2>2. QED
    BY <1>4, <1>6, <2>1
<1>8. IsFree(1, 1)
  <2>1. SUFFICES ASSUME ~IsFree(1, 1) PROVE FALSE
    OBVIOUS
  <2>2. PICK i \in DOMAIN Entries : Entries[i] \in Placed /\ Overlap(1, 1, layout.lbn[Entries[i]], layout.count[Entries[i]])
    BY <2>1 DEF IsFree, Conflicting
  <2>3. PICK e \in AllEntries : e \in Placed /\ Overlap(1, 1, layout.lbn[e], layout.count[e])
    BY <2>2, TableNames
  <2>4. layout.count[e] > 0 /\ layout.lbn[e] < 2 /\ 1 < layout.lbn[e] + layout.count[e]
    <3>1. layout.lbn[e] < 1 + 1 /\ 1 < layout.lbn[e] + layout.count[e]
      BY <2>3 DEF Overlap
    <3>2. QED
      BY <1>1, <2>3, <3>1 DEF Placed
  <2>5. e # "boot"
    BY <1>5, <2>4
  <2>6. e \notin Structures
    <3>1. ASSUME e \in Structures
          PROVE  layout.count[e] = 0
      <4>1. PICK k \in 1 .. 8 : PlaceOrder(asked)[k] = e
        BY <3>1, OrderNames
      <4>2. k # 1
        BY <2>5, <4>1, FirstPlaced
      <4>3. QED
        BY <4>1, <4>2 DEF Unplaced
    <3>2. QED
      BY <2>4, <3>1
  <2>7. layout.lbn[e] = LastWhole(asked)
    BY <1>1, <2>6 DEF AllEntries, TableOK, EndIsTaken
  <2>8. QED
    BY <1>7, <2>4, <2>7
<1>9. 1 \in free
  <2>1. Delta(asked) \in Nat
    BY <1>1, OptionTypes DEF Delta
  <2>2. 1 \in {1 + k * Delta(asked) : k \in 0 .. VolumeSize(asked)}
    <3>1. 0 \in 0 .. VolumeSize(asked) /\ 1 = 1 + 0 * Delta(asked)
      BY <1>7, <2>1
    <3>2. QED
      BY <3>1
  <2>3. 1 \in OnSequence
    BY <1>7, <2>2 DEF OnSequence
  <2>4. QED
    BY <1>2, <1>8, <2>3
<1>10. h <= 1
  <2>1. free \subseteq Nat
    BY <1>7 DEF OnSequence
  <2>2. \E least \in free : \A m \in free : least <= m
    BY <1>3, <2>1, LeastNatural
  <2>3. \A m \in free : Least(free) <= m
    BY <2>2 DEF Least
  <2>4. QED
    BY <1>3, <1>9, <2>3
<1>11. h = 1
  BY <1>4, <1>6, <1>10
<1>12. QED
  BY <1>2, <1>11 DEF h

\* Placing leaves the home blocks' places as they are to be.
LEMMA PlaceKeepsHomes ==
    ASSUME LayoutOK, HomesPlaced, Place
    PROVE  HomesPlaced'
<1> DEFINE e == PlaceOrder(asked)[steps + 1]
<1>1. /\ steps \in 0 .. 7 /\ steps' = steps + 1 /\ asked' = asked /\ status' = status /\ status = "running"
      /\ e \in Structures
      /\ PlaceOf(e, BlocksNeeded(e)) # NoRoom
      /\ layout'.lbn[e] = PlaceOf(e, BlocksNeeded(e)) /\ layout'.count[e] = BlocksNeeded(e)
      /\ \A f \in AllEntries : f # e => layout'.lbn[f] = layout.lbn[f] /\ layout'.count[f] = layout.count[f]
      /\ layout'.realHome = IF IsHome(e) THEN RealHome ELSE layout.realHome
  BY PlaceChanges, Zenon
<1>2. /\ PlaceOrder(asked)[1] = "boot" /\ PlaceOrder(asked)[2] = "home1" /\ PlaceOrder(asked)[3] = "home2"
      /\ \A j, k \in 1 .. 8 : PlaceOrder(asked)[j] = PlaceOrder(asked)[k] => j = k
  BY FirstPlaced, Zenon
<1>3. steps + 1 \in 1 .. 8
  BY <1>1
<1>4. {"boot", "home1", "home2"} \subseteq AllEntries
  BY DEF AllEntries, Structures
<1>5. (steps = 0 <=> e = "boot") /\ (steps = 1 <=> e = "home1") /\ (steps = 2 <=> e = "home2")
  <2>1. 1 \in 1 .. 8 /\ 2 \in 1 .. 8 /\ 3 \in 1 .. 8
    OBVIOUS
  <2>2. /\ e = PlaceOrder(asked)[1] <=> steps + 1 = 1
        /\ e = PlaceOrder(asked)[2] <=> steps + 1 = 2
        /\ e = PlaceOrder(asked)[3] <=> steps + 1 = 3
    BY <1>2, <1>3, <2>1, Zenon
  <2>3. (steps + 1 = 1 <=> steps = 0) /\ (steps + 1 = 2 <=> steps = 1) /\ (steps + 1 = 3 <=> steps = 2)
    BY <1>1
  <2>4. QED
    BY <1>2, <2>2, <2>3, Zenon
<1>6. Unplaced'
  <2>1. ASSUME NEW k \in 1 .. 8, k > steps + 1
        PROVE  layout'.count[PlaceOrder(asked)[k]] = 0
    <3>1. k # steps + 1 /\ k > steps
      BY <1>1, <2>1
    <3>2. PlaceOrder(asked)[k] # e
      BY <1>2, <1>3, <3>1
    <3>3. PlaceOrder(asked)[k] \in AllEntries
      BY OrderNames DEF AllEntries
    <3>4. layout.count[PlaceOrder(asked)[k]] = 0
      BY <3>1 DEF HomesPlaced, Unplaced
    <3>5. QED
      BY <1>1, <3>2, <3>3, <3>4, Zenon
  <2>2. QED
    BY <1>1, <2>1 DEF Unplaced
<1>7. IsAcceptable(asked)
  BY <1>1 DEF HomesPlaced
<1> HIDE DEF e
<1>8. layout'.lbn["boot"] = 0
  <2>1. CASE steps = 0
    BY <1>1, <1>5, <2>1, BootIsFirst DEF HomesPlaced
  <2>2. CASE steps # 0
    BY <1>1, <1>4, <1>5, <2>2 DEF HomesPlaced
  <2>3. QED
    BY <2>1, <2>2
<1>9. ASSUME steps + 1 >= 2, asked.cluster = 1
      PROVE  layout'.lbn["home1"] = 1
  <2>1. CASE steps = 1
    <3>1. e = "home1" /\ IsHome("home1")
      BY <1>5, <1>9, <2>1 DEF IsHome
    <3>2. RealHome # NoRoom /\ layout'.lbn["home1"] = ClusterOf(RealHome)
      BY <1>1, <3>1 DEF PlaceOf
    <3>3. layout.lbn["boot"] = 0
      BY <2>1 DEF HomesPlaced
    <3>4. ClusterOf(RealHome) = 1
      BY <1>9, <2>1, <3>2, <3>3, HomeIsNext DEF HomesPlaced
    <3>5. QED
      BY <3>2, <3>4
  <2>2. CASE steps # 1
    BY <1>1, <1>4, <1>5, <1>9, <2>2 DEF HomesPlaced
  <2>3. QED
    BY <2>1, <2>2
<1>10. ASSUME steps + 1 >= 3
       PROVE  layout'.realHome \in Nat /\ ClusterOf(layout'.realHome) = layout'.lbn["home2"]
  <2>1. CASE steps = 2
    <3>1. e = "home2" /\ IsHome("home2")
      BY <1>5, <2>1 DEF IsHome
    <3>2. RealHome # NoRoom /\ layout'.lbn["home2"] = ClusterOf(RealHome) /\ layout'.realHome = RealHome
      BY <1>1, <3>1 DEF PlaceOf
    <3>3. RealHome \in Nat
      BY <3>2, RealHomeIsFree DEF LayoutOK
    <3>4. QED
      BY <3>2, <3>3
  <2>2. CASE steps # 2
    <3>1. steps >= 3 /\ e # "home2" /\ e # "home1"
      BY <1>1, <1>5, <1>10, <2>2
    <3>2. ~IsHome(e)
      BY <3>1 DEF IsHome
    <3>3. layout'.realHome = layout.realHome /\ layout'.lbn["home2"] = layout.lbn["home2"]
      BY <1>1, <1>4, <3>1, <3>2
    <3>4. QED
      BY <3>1, <3>3 DEF HomesPlaced
  <2>3. QED
    BY <2>1, <2>2
<1>11. \A l : ClusterOf(l)' = (l \div asked.cluster) * asked.cluster /\ ClusterOf(l) = (l \div asked.cluster) * asked.cluster
  BY <1>1 DEF ClusterOf
<1>12. QED
  BY <1>1, <1>6, <1>7, <1>8, <1>9, <1>10, <1>11 DEF HomesPlaced

\* So does everything else.
LEMMA HomesStay ==
    ASSUME HomesPlaced, asked' = asked, layout' = layout, steps' = steps \/ (steps >= 8 /\ steps' = steps + 1),
           steps \in Nat, status' = "running" => status = "running"
    PROVE  HomesPlaced'
<1>1. \A l : ClusterOf(l)' = ClusterOf(l)
  BY DEF ClusterOf
<1>2. Unplaced'
  BY DEF Unplaced, HomesPlaced
<1>3. QED
  BY <1>1, <1>2 DEF HomesPlaced

(***************************************************************************)
(* What the writes leave on the disk.                                      *)
(***************************************************************************)

\* A home block that says where it is, of some VBN.
IsHomeCopy(l) == \E vbn \in Int : disk[l] = HomeBlock(l, vbn)

\* No block of a structure is as the disk was before; no block is a home block;
\* every home block is a copy; every place of one has one.
NoneOld == \A e \in Structures : \A l \in BlocksOf(e) : disk[l] # Old
NoHomes == \A l \in DOMAIN disk : disk[l].kind # "home"
HomesAreCopies == \A l \in DOMAIN disk : disk[l].kind = "home" => IsHomeCopy(l)
HomesThere ==
    /\ \A l \in BlocksOf("boot") : l # layout.lbn["boot"] => disk[l].kind = "home"
    /\ \A e \in {"home1", "home2"} : \A l \in BlocksOf(e) : disk[l].kind = "home"

\* The index file's bitmap, its headers and their copies, and the first blocks of
\* the other files are there.
SlotsThere == disk[layout.lbn["index"]].kind = "slots"
HeadersThere ==
    /\ \A n \in 1 .. Reserved : disk[HeaderLBN(n)] = Header(n)
    /\ \A l \in BlocksOf("altIndex") : disk[l] = Header(1)
FirstThere(e, kind) == disk[layout.lbn[e]] = Of(kind)

\* What the writes done so far leave on the disk.
Image ==
    /\ steps < 10 => NoHomes
    /\ steps >= 9 => NoneOld
    /\ steps >= 10 => HomesAreCopies /\ HomesThere
    /\ steps >= 11 => SlotsThere
    /\ steps >= 12 => HaveMaps /\ HeadersThere
    /\ steps >= 13 => FirstThere("bitmap", "scb")
    /\ steps >= 14 => FirstThere("mfd", "mfd")
    /\ steps >= 15 => FirstThere("security", "security")

\* The inductive invariant of MountFindsVolume.
ImageOK == LayoutOK /\ HomesPlaced /\ Image

\* The same table has the same places and the same headers.
LEMMA SameTable ==
    ASSUME asked' = asked, layout' = layout
    PROVE  /\ \A e : BlocksOf(e)' = BlocksOf(e)
           /\ \A n : HeaderLBN(n)' = HeaderLBN(n) /\ Header(n)' = Header(n)
           /\ \A l, vbn : HomeBlock(l, vbn)' = HomeBlock(l, vbn)
           /\ HaveMaps' = HaveMaps
<1>1. \A e : BlocksOf(e)' = BlocksOf(e) /\ Extent(e)' = Extent(e)
  BY DEF BlocksOf, Extent
<1>2. IndexFileExtents' = IndexFileExtents
  BY DEF IndexFileExtents, Extent
<1>3. \A n : HeaderLBN(n)' = HeaderLBN(n)
  BY DEF HeaderLBN
<1>4. \A n : MapOf(n)' = MapOf(n)
  BY <1>2 DEF MapOf, Extent
<1>5. \A n : Header(n)' = Header(n)
  BY <1>4 DEF Header
<1>6. \A l, vbn : HomeBlock(l, vbn)' = HomeBlock(l, vbn)
  BY DEF HomeBlock
<1>7. HaveMaps' = HaveMaps
  BY <1>2 DEF HaveMaps, Extent
<1>8. QED
  BY <1>1, <1>3, <1>5, <1>6, <1>7, Zenon

\* Once all is placed the structures' blocks are the disk's, each one structure's;
\* the reserved files' headers are INDEXF.SYS's, past the first of its bitmap's.
LEMMA StructuresOnDisk ==
    ASSUME LayoutOK, steps >= 8, IsAcceptable(asked)
    PROVE  /\ \A e \in Structures : BlocksOf(e) \subseteq DOMAIN disk /\ layout.lbn[e] \in BlocksOf(e)
           /\ \A e, g \in Structures : \A l \in BlocksOf(e) : l \in BlocksOf(g) => e = g
           /\ \A n \in 1 .. Reserved : HeaderLBN(n) \in BlocksOf("index") /\ HeaderLBN(n) # layout.lbn["index"]
           /\ \A l \in HeaderLBN(1) .. HeaderLBN(Reserved) : l \in BlocksOf("index") /\ l # layout.lbn["index"]
           /\ \A l \in HeaderLBN(1) .. HeaderLBN(Reserved) : \E n \in 1 .. Reserved : l = HeaderLBN(n)
           /\ layout.lbn["bitmap"] .. layout.lbn["bitmap"] + StorageMapBlocks(asked) \subseteq BlocksOf("bitmap")
<1>1. /\ asked \in Options
      /\ \A e \in Structures : /\ layout.count[e] \in Nat \ {0} /\ layout.lbn[e] \in Nat
                               /\ Needed(e, asked) <= layout.count[e]
  BY AllSized, Zenon
<1>2. \A e \in Structures : layout.lbn[e] + layout.count[e] <= LastWhole(asked)
  BY DEF LayoutOK, TableOK, WithinVolume
<1>3. LastWhole(asked) \in Nat /\ LastWhole(asked) <= asked.blocks /\ asked.blocks \in Nat
  BY <1>1, VolumeEnds, OptionTypes
<1>4. DOMAIN disk = 0 .. asked.blocks - 1
  BY DEF LayoutOK, DiskOK
<1>5. ASSUME NEW e \in Structures
      PROVE  BlocksOf(e) \subseteq DOMAIN disk /\ layout.lbn[e] \in BlocksOf(e)
  BY <1>1, <1>2, <1>3, <1>4 DEF BlocksOf
<1>6. \A e, g \in Structures : \A l \in BlocksOf(e) : l \in BlocksOf(g) => e = g
  BY DEF LayoutOK, StructuresDisjoint
<1>7. PICK x \in Nat, N \in Nat, b \in Nat \ {0}, h \in Nat :
        /\ x = layout.lbn["index"] /\ N = layout.count["index"] /\ b = IndexBitmapBlocks(asked) /\ h = Headers(asked)
        /\ Reserved <= h /\ h + b <= N
  <2>1. "index" \in Structures /\ Needed("index", asked) = Headers(asked) + IndexBitmapBlocks(asked)
    BY DEF Structures, Needed
  <2>2. Headers(asked) \in Nat /\ Reserved <= Headers(asked) /\ IndexBitmapBlocks(asked) \in Nat \ {0}
    BY <1>1, AcceptedSizes, Zenon
  <2>3. layout.lbn["index"] \in Nat /\ layout.count["index"] \in Nat /\ Headers(asked) + IndexBitmapBlocks(asked) <= layout.count["index"]
    BY <1>1, <2>1
  <2>4. QED
    BY <2>2, <2>3
<1>8. Reserved \in Nat \ {0}
  BY SizesAssumption
<1>9. \A n : HeaderLBN(n) = x + b + n - 1
  BY <1>7 DEF HeaderLBN
<1>10. BlocksOf("index") = x .. x + N - 1
  BY <1>7 DEF BlocksOf
<1>11. \A l \in x + b .. x + b + Reserved - 1 : l \in BlocksOf("index") /\ l # layout.lbn["index"]
  <2>1. ASSUME NEW l \in x + b .. x + b + Reserved - 1
        PROVE  l \in x .. x + N - 1 /\ l # x
    <3>1. Reserved \in Nat /\ Reserved <= h /\ h + b <= N
      BY <1>7, <1>8
    <3>2. QED
      BY ONLY <3>1, x \in Nat, N \in Nat, b \in Nat \ {0}, h \in Nat, l \in x + b .. x + b + Reserved - 1
  <2>2. QED
    BY <1>7, <1>10, <2>1, Zenon
<1>12. HeaderLBN(1) = x + b /\ HeaderLBN(Reserved) = x + b + Reserved - 1
  BY <1>7, <1>8, <1>9
<1>13. \A n \in 1 .. Reserved : HeaderLBN(n) \in x + b .. x + b + Reserved - 1
  BY <1>7, <1>8, <1>9
<1>14. ASSUME NEW l \in x + b .. x + b + Reserved - 1
       PROVE  \E n \in 1 .. Reserved : l = HeaderLBN(n)
  <2>1. l - x - b + 1 \in 1 .. Reserved /\ l = x + b + (l - x - b + 1) - 1
    BY <1>7, <1>8
  <2>2. QED
    BY <1>9, <2>1
<1>15. layout.lbn["bitmap"] .. layout.lbn["bitmap"] + StorageMapBlocks(asked) \subseteq BlocksOf("bitmap")
  <2>1. "bitmap" \in Structures /\ StorageMapBlocks(asked) \in Nat /\ Needed("bitmap", asked) = StorageMapBlocks(asked) + 1
    BY <1>1, Needs DEF Structures
  <2>2. QED
    BY <1>1, <2>1 DEF BlocksOf
<1>16. QED
  BY <1>5, <1>6, <1>11, <1>12, <1>13, <1>14, <1>15, Zenon

\* What is not written over stays.
LEMMA PartsStay ==
    ASSUME ImageOK, steps >= 8, asked' = asked, layout' = layout, DOMAIN disk' = DOMAIN disk,
           NEW P, \A l \in DOMAIN disk : l \notin P => disk'[l] = disk[l],
           \A l \in DOMAIN disk : l \in P => disk'[l] # Old
    PROVE  /\ NoneOld => NoneOld'
           /\ (\A l \in DOMAIN disk : l \in P => disk'[l].kind # "home") /\ HomesAreCopies => HomesAreCopies'
           /\ (\A e \in {"boot", "home1", "home2"} : \A l \in BlocksOf(e) : l \notin P) /\ HomesThere => HomesThere'
           /\ layout.lbn["index"] \notin P /\ SlotsThere => SlotsThere'
           /\ (\A l \in BlocksOf("altIndex") : l \notin P) /\ (\A n \in 1 .. Reserved : HeaderLBN(n) \notin P)
                /\ HeadersThere => HeadersThere'
           /\ \A e \in Structures : \A kind : layout.lbn[e] \notin P /\ FirstThere(e, kind) => FirstThere(e, kind)'
           /\ HaveMaps' = HaveMaps
<1>1. IsAcceptable(asked) /\ LayoutOK
  <2>1. LayoutOK /\ HomesPlaced
    BY DEF ImageOK
  <2>2. steps > 0
    BY <2>1 DEF LayoutOK, DiskOK
  <2>3. QED
    BY <2>1, <2>2, Zenon DEF HomesPlaced
<1>2. /\ \A e \in Structures : BlocksOf(e) \subseteq DOMAIN disk /\ layout.lbn[e] \in BlocksOf(e)
      /\ \A n \in 1 .. Reserved : HeaderLBN(n) \in BlocksOf("index")
  BY <1>1, StructuresOnDisk, Zenon
<1>3. /\ \A e : BlocksOf(e)' = BlocksOf(e)
      /\ \A n : HeaderLBN(n)' = HeaderLBN(n) /\ Header(n)' = Header(n)
      /\ \A l, vbn : HomeBlock(l, vbn)' = HomeBlock(l, vbn)
      /\ HaveMaps' = HaveMaps
  BY SameTable, Zenon
<1>4. {"boot", "home1", "home2", "altIndex", "index"} \subseteq Structures
  BY DEF Structures
<1>5. ASSUME NoneOld
      PROVE  NoneOld'
  <2>1. ASSUME NEW e \in Structures, NEW l \in BlocksOf(e)
        PROVE  disk'[l] # Old
    <3>1. l \in DOMAIN disk /\ disk[l] # Old
      BY <1>2, <1>5 DEF NoneOld
    <3>2. QED
      BY <3>1
  <2>2. Old' = Old
    BY DEF Old
  <2>3. QED
    BY <1>3, <2>1, <2>2 DEF NoneOld
<1>6. ASSUME \A l \in DOMAIN disk : l \in P => disk'[l].kind # "home", HomesAreCopies
      PROVE  HomesAreCopies'
  <2>1. ASSUME NEW l \in DOMAIN disk, disk'[l].kind = "home"
        PROVE  \E vbn \in Int : disk'[l] = HomeBlock(l, vbn)
    <3>1. disk'[l] = disk[l]
      BY <1>6, <2>1
    <3>2. QED
      BY <1>6, <2>1, <3>1 DEF HomesAreCopies, IsHomeCopy
  <2>2. QED
    BY <1>3, <2>1 DEF HomesAreCopies, IsHomeCopy
<1>7. ASSUME \A e \in {"boot", "home1", "home2"} : \A l \in BlocksOf(e) : l \notin P, HomesThere
      PROVE  HomesThere'
  <2>1. \A e \in {"boot", "home1", "home2"} : \A l \in BlocksOf(e) : disk'[l] = disk[l]
    BY <1>2, <1>4, <1>7
  <2>2. QED
    BY <1>3, <1>7, <2>1 DEF HomesThere
<1>8. ASSUME layout.lbn["index"] \notin P, SlotsThere
      PROVE  SlotsThere'
  BY <1>2, <1>4, <1>8 DEF SlotsThere
<1>9. ASSUME \A l \in BlocksOf("altIndex") : l \notin P, \A n \in 1 .. Reserved : HeaderLBN(n) \notin P, HeadersThere
      PROVE  HeadersThere'
  <2>1. \A l \in BlocksOf("altIndex") : disk'[l] = Header(1)
    BY <1>2, <1>4, <1>9 DEF HeadersThere
  <2>2. \A n \in 1 .. Reserved : disk'[HeaderLBN(n)] = Header(n)
    BY <1>2, <1>4, <1>9 DEF HeadersThere
  <2>3. QED
    BY <1>3, <2>1, <2>2 DEF HeadersThere
<1>10. ASSUME NEW e \in Structures, NEW kind, layout.lbn[e] \notin P, FirstThere(e, kind)
       PROVE  FirstThere(e, kind)'
  BY <1>2, <1>10 DEF FirstThere, Of
<1>11. QED
  BY <1>3, <1>5, <1>6, <1>7, <1>8, <1>9, <1>10

\* What each write finds: its step's number, and where the structures are.
LEMMA WriteFacts ==
    ASSUME ImageOK, NEW k \in 0 .. 6, Doing(k)
    PROVE  /\ steps = 8 + k /\ steps' = 9 + k /\ steps >= 8 /\ status = "running"
           /\ IsAcceptable(asked) /\ LayoutOK
           /\ \A e \in Structures : BlocksOf(e) \subseteq DOMAIN disk /\ layout.lbn[e] \in BlocksOf(e)
           /\ \A e, g \in Structures : \A l \in BlocksOf(e) : l \in BlocksOf(g) => e = g
<1>1. steps = 8 + k /\ steps' = 9 + k /\ status = "running"
  BY DoingSteps
<1>2. steps >= 8
  BY <1>1
<1>3. IsAcceptable(asked) /\ LayoutOK
  BY <1>1 DEF ImageOK, HomesPlaced
<1>4. QED
  BY <1>1, <1>2, <1>3, StructuresOnDisk, Zenon

\* Written contents are the disk's where they are, and leave the rest.
LEMMA WrittenThere ==
    ASSUME NEW contents, Written(contents)
    PROVE  /\ asked' = asked /\ layout' = layout /\ status' = status /\ DOMAIN disk' = DOMAIN disk
           /\ \A l \in DOMAIN disk : l \notin DOMAIN contents => disk'[l] = disk[l]
           /\ \A l \in DOMAIN disk : l \in DOMAIN contents => disk'[l] = contents[l]
BY DEF Written

\* Zeroed structures are not as the disk was before.
LEMMA ZeroImage ==
    ASSUME ImageOK, ZeroFixedStructures
    PROVE  Image'
<1> DEFINE P == UNION {BlocksOf(e) : e \in Structures}
           contents == [l \in P |-> Zero]
<1>1. Doing(0) /\ Written(contents)
  BY Zenon DEF ZeroFixedStructures
<1>2. /\ steps = 8 + 0 /\ steps' = 9 + 0
      /\ \A e \in Structures : BlocksOf(e) \subseteq DOMAIN disk
  BY <1>1, 0 \in 0 .. 6, WriteFacts, Zenon
<1>3. DOMAIN contents = P /\ \A l \in P : contents[l] = Zero
  OBVIOUS
<1> HIDE DEF contents
<1>4. /\ asked' = asked /\ layout' = layout /\ DOMAIN disk' = DOMAIN disk
      /\ \A l \in DOMAIN disk : disk'[l] = IF l \in P THEN Zero ELSE disk[l]
  BY <1>1, <1>3, WrittenThere
<1>5. NoneOld'
  <2>1. ASSUME NEW e \in Structures, NEW l \in BlocksOf(e)
        PROVE  disk'[l] # Old
    <3>1. l \in DOMAIN disk /\ l \in P
      BY <1>2
    <3>2. disk'[l] = Zero
      BY <1>4, <3>1, Zenon
    <3>3. Zero # Old
      BY DEF Zero, Old
    <3>4. QED
      BY <3>2, <3>3
  <2>2. \A e : BlocksOf(e)' = BlocksOf(e)
    BY <1>4, SameTable, Zenon
  <2>3. Old' = Old
    BY DEF Old
  <2>4. QED
    BY <2>1, <2>2, <2>3 DEF NoneOld
<1>6. NoHomes'
  <2>1. NoHomes
    BY <1>2 DEF ImageOK, Image
  <2>2. Zero.kind # "home"
    BY DEF Zero
  <2> HIDE DEF P
  <2>3. \A l \in DOMAIN disk : disk'[l].kind # "home"
    BY <1>4, <2>1, <2>2 DEF NoHomes
  <2>4. QED
    BY <1>4, <2>3 DEF NoHomes
<1>7. QED
  BY <1>2, <1>5, <1>6 DEF Image

\* The home blocks' clusters have home blocks, but for the boot block.
LEMMA HomePlaces ==
    ASSUME asked.cluster \in Nat \ {0},
           \A e \in {"boot", "home1", "home2"} : layout.lbn[e] \in Nat /\ layout.count[e] = asked.cluster
    PROVE  /\ \A h \in HomeBlocks : h[2] \in Int
           /\ \A l \in BlocksOf("boot") : l # layout.lbn["boot"] => l \in {h[1] : h \in HomeBlocks}
           /\ \A e \in {"home1", "home2"} : \A l \in BlocksOf(e) : l \in {h[1] : h \in HomeBlocks}
<1>1. PICK c \in Nat \ {0}, b \in Nat, x \in Nat, y \in Nat :
        c = asked.cluster /\ b = layout.lbn["boot"] /\ x = layout.lbn["home1"] /\ y = layout.lbn["home2"]
  OBVIOUS
<1> DEFINE A == {<<b + i, 1 + i>> : i \in 1 .. c - 1}
           B == {<<x + i, (c + 1) + i>> : i \in 0 .. c - 1}
           C == {<<y + i, (2 * c + 1) + i>> : i \in 0 .. c - 1}
<1>2. HomeBlocks = A \union B \union C
  BY <1>1 DEF HomeBlocks
<1>3. /\ BlocksOf("boot") = b .. b + c - 1 /\ BlocksOf("home1") = x .. x + c - 1
      /\ BlocksOf("home2") = y .. y + c - 1
  BY <1>1 DEF BlocksOf
<1>4. \A h \in HomeBlocks : h[2] \in Int
  <2>1. (\A h \in A : h[2] \in Int) /\ (\A h \in B : h[2] \in Int) /\ (\A h \in C : h[2] \in Int)
    OBVIOUS
  <2> HIDE DEF A, B, C
  <2>2. QED
    BY <1>2, <2>1
<1>5. ASSUME NEW l \in b .. b + c - 1, l # b
      PROVE  \E h \in A : h[1] = l
  <2>1. l - b \in 1 .. c - 1 /\ b + (l - b) = l
    BY <1>5
  <2>2. <<b + (l - b), 1 + (l - b)>> \in A
    BY <2>1
  <2>3. <<b + (l - b), 1 + (l - b)>>[1] = b + (l - b)
    OBVIOUS
  <2> HIDE DEF A
  <2>4. QED
    BY <2>1, <2>2, <2>3
<1>6. ASSUME NEW l \in x .. x + c - 1
      PROVE  \E h \in B : h[1] = l
  <2>1. l - x \in 0 .. c - 1 /\ x + (l - x) = l
    BY <1>6
  <2>2. <<x + (l - x), (c + 1) + (l - x)>> \in B
    BY <2>1
  <2>3. <<x + (l - x), (c + 1) + (l - x)>>[1] = x + (l - x)
    OBVIOUS
  <2> HIDE DEF B
  <2>4. QED
    BY <2>1, <2>2, <2>3
<1>7. ASSUME NEW l \in y .. y + c - 1
      PROVE  \E h \in C : h[1] = l
  <2>1. l - y \in 0 .. c - 1 /\ y + (l - y) = l
    BY <1>7
  <2>2. <<y + (l - y), (2 * c + 1) + (l - y)>> \in C
    BY <2>1
  <2>3. <<y + (l - y), (2 * c + 1) + (l - y)>>[1] = y + (l - y)
    OBVIOUS
  <2> HIDE DEF C
  <2>4. QED
    BY <2>1, <2>2, <2>3
<1> HIDE DEF A, B, C
<1>8. A \subseteq HomeBlocks /\ B \subseteq HomeBlocks /\ C \subseteq HomeBlocks
  BY <1>2
<1>9. /\ \A l \in BlocksOf("boot") : l # layout.lbn["boot"] => \E h \in HomeBlocks : h[1] = l
      /\ \A l \in BlocksOf("home1") : \E h \in HomeBlocks : h[1] = l
      /\ \A l \in BlocksOf("home2") : \E h \in HomeBlocks : h[1] = l
  <2>1. \A l \in BlocksOf("boot") : l # layout.lbn["boot"] => \E h \in HomeBlocks : h[1] = l
    BY <1>1, <1>3, <1>5, <1>8
  <2>2. \A l \in BlocksOf("home1") : \E h \in HomeBlocks : h[1] = l
    BY <1>3, <1>6, <1>8
  <2>3. \A l \in BlocksOf("home2") : \E h \in HomeBlocks : h[1] = l
    BY <1>3, <1>7, <1>8
  <2>4. QED
    BY <2>1, <2>2, <2>3, Zenon
<1>10. \A l : (\E h \in HomeBlocks : h[1] = l) => l \in {h[1] : h \in HomeBlocks}
  BY Zenon
<1>11. QED
  BY <1>4, <1>9, <1>10, Zenon

\* The home blocks are written.
LEMMA HomeImage ==
    ASSUME ImageOK, WriteHomeBlocks
    PROVE  Image'
<1> DEFINE P == {h[1] : h \in HomeBlocks}
           vbn(l) == (CHOOSE h \in HomeBlocks : h[1] = l)[2]
           contents == [l \in P |-> HomeBlock(l, vbn(l))]
<1>1. Doing(1) /\ Written(contents)
  BY Zenon DEF WriteHomeBlocks
<1>2. /\ steps = 8 + 1 /\ steps' = 9 + 1 /\ steps >= 8 /\ IsAcceptable(asked) /\ LayoutOK
      /\ \A e \in Structures : BlocksOf(e) \subseteq DOMAIN disk
  BY <1>1, 1 \in 0 .. 6, WriteFacts, Zenon
<1>3. /\ \A h \in HomeBlocks : h[2] \in Int
      /\ \A l \in BlocksOf("boot") : l # layout.lbn["boot"] => l \in P
      /\ \A e \in {"home1", "home2"} : \A l \in BlocksOf(e) : l \in P
  <2>1. /\ asked.cluster \in Nat \ {0} /\ \A e \in Structures : layout.lbn[e] \in Nat
        /\ \A e \in {"boot", "home1", "home2", "altIndex"} : layout.count[e] = asked.cluster
    BY <1>2, AllSized, Zenon
  <2>2. \A e \in {"boot", "home1", "home2"} : layout.lbn[e] \in Nat /\ layout.count[e] = asked.cluster
    BY <2>1 DEF Structures
  <2>3. QED
    BY <2>1, <2>2, HomePlaces, Zenon
<1>4. DOMAIN contents = P /\ \A l \in P : contents[l] = HomeBlock(l, vbn(l)) /\ vbn(l) \in Int
  <2>1. DOMAIN contents = P /\ \A l \in P : contents[l] = HomeBlock(l, vbn(l))
    BY Zenon
  <2>2. \A l \in P : \E h \in HomeBlocks : h[1] = l
    OBVIOUS
  <2>3. \A l \in P : (CHOOSE h \in HomeBlocks : h[1] = l) \in HomeBlocks
    BY <2>2, Zenon
  <2>4. QED
    BY <1>3, <2>1, <2>3, Zenon
<1> HIDE DEF contents, vbn, P
<1>5. /\ asked' = asked /\ layout' = layout /\ DOMAIN disk' = DOMAIN disk
      /\ \A l \in DOMAIN disk : l \notin P => disk'[l] = disk[l]
      /\ \A l \in DOMAIN disk : l \in P => disk'[l] = HomeBlock(l, vbn(l))
  BY <1>1, <1>4, WrittenThere, Zenon
<1>6. \A l, v : HomeBlock(l, v).kind = "home" /\ HomeBlock(l, v) # Old /\ HomeBlock(l, v)' = HomeBlock(l, v)
  <2>1. \A l, v : HomeBlock(l, v).kind = "home"
    BY DEF HomeBlock
  <2>2. Old.kind = "old"
    BY DEF Old
  <2>3. \A l, v : HomeBlock(l, v)' = HomeBlock(l, v)
    BY <1>5, SameTable, Zenon
  <2>4. QED
    BY <2>1, <2>2, <2>3
<1>7. NoneOld'
  <2>1. NoneOld
    BY <1>2 DEF ImageOK, Image
  <2>2. \A l \in DOMAIN disk : l \in P => disk'[l] # Old
    BY <1>5, <1>6, Zenon
  <2>3. QED
    BY <1>2, <1>5, <2>1, <2>2, PartsStay, Zenon
<1>8. HomesAreCopies'
  <2>1. NoHomes
    BY <1>2 DEF ImageOK, Image
  <2>2. ASSUME NEW l \in DOMAIN disk, disk'[l].kind = "home"
        PROVE  \E v \in Int : disk'[l] = HomeBlock(l, v)
    <3>1. l \in P
      BY <1>5, <2>1, <2>2 DEF NoHomes
    <3>2. QED
      BY <1>4, <1>5, <3>1, Zenon
  <2>3. QED
    BY <1>5, <1>6, <2>2 DEF HomesAreCopies, IsHomeCopy
<1>9. HomesThere'
  <2>1. \A e : BlocksOf(e)' = BlocksOf(e)
    BY <1>5, SameTable, Zenon
  <2>2. {"boot", "home1", "home2"} \subseteq Structures
    BY DEF Structures
  <2>3. \A l \in BlocksOf("boot") : l # layout.lbn["boot"] => disk'[l].kind = "home"
    BY <1>2, <1>3, <1>5, <1>6, <2>2
  <2>4. \A e \in {"home1", "home2"} : \A l \in BlocksOf(e) : disk'[l].kind = "home"
    BY <1>2, <1>3, <1>5, <1>6, <2>2
  <2>5. QED
    BY <1>5, <2>1, <2>3, <2>4 DEF HomesThere
<1>10. QED
  BY <1>2, <1>7, <1>8, <1>9 DEF Image

\* A write to one structure leaves the others.
LEMMA WriteInto ==
    ASSUME ImageOK, NEW k \in 2 .. 6, Doing(k), asked' = asked, layout' = layout, DOMAIN disk' = DOMAIN disk,
           NEW P, NEW e \in {"index", "bitmap", "mfd", "security"}, P \subseteq BlocksOf(e),
           \A l \in DOMAIN disk : l \notin P => disk'[l] = disk[l],
           \A l \in DOMAIN disk : l \in P => disk'[l] # Old /\ disk'[l].kind # "home"
    PROVE  /\ steps = 8 + k /\ steps' = 9 + k
           /\ NoneOld' /\ HomesAreCopies' /\ HomesThere'
           /\ e # "index" /\ SlotsThere => SlotsThere'
           /\ e # "index" /\ HaveMaps /\ HeadersThere => HaveMaps' /\ HeadersThere'
           /\ \A g \in {"bitmap", "mfd", "security"} : \A kind : g # e /\ FirstThere(g, kind) => FirstThere(g, kind)'
<1>1. /\ steps = 8 + k /\ steps' = 9 + k /\ steps >= 8 /\ IsAcceptable(asked) /\ LayoutOK
      /\ \A g \in Structures : BlocksOf(g) \subseteq DOMAIN disk /\ layout.lbn[g] \in BlocksOf(g)
      /\ \A g, h \in Structures : \A l \in BlocksOf(g) : l \in BlocksOf(h) => g = h
  <2>1. k \in 0 .. 6
    OBVIOUS
  <2>2. QED
    BY <2>1, WriteFacts, Zenon
<1>2. steps >= 10
  BY <1>1
<1>3. NoneOld /\ HomesAreCopies /\ HomesThere
  BY <1>1, <1>2 DEF ImageOK, Image
<1>4. \A n \in 1 .. Reserved : HeaderLBN(n) \in BlocksOf("index")
  BY <1>1, StructuresOnDisk, Zenon
<1>5. e \in Structures /\ {"boot", "home1", "home2", "altIndex", "index", "bitmap", "mfd", "security"} = Structures
  BY DEF Structures
<1>6. \A g \in Structures : g # e => \A l \in BlocksOf(g) : l \notin P
  BY <1>1, <1>5
<1>7. \A g \in {"boot", "home1", "home2", "altIndex"} : \A l \in BlocksOf(g) : l \notin P
  BY <1>5, <1>6
<1>8. \A g \in Structures : g # e => layout.lbn[g] \notin P
  BY <1>1, <1>6
<1>9. e # "index" => layout.lbn["index"] \notin P /\ \A n \in 1 .. Reserved : HeaderLBN(n) \notin P
  BY <1>4, <1>5, <1>6, <1>8
<1>10. /\ NoneOld => NoneOld'
       /\ HomesAreCopies => HomesAreCopies'
       /\ HomesThere => HomesThere'
       /\ layout.lbn["index"] \notin P /\ SlotsThere => SlotsThere'
       /\ (\A n \in 1 .. Reserved : HeaderLBN(n) \notin P) /\ HeadersThere => HeadersThere'
       /\ \A g \in Structures : \A kind : layout.lbn[g] \notin P /\ FirstThere(g, kind) => FirstThere(g, kind)'
       /\ HaveMaps' = HaveMaps
  <2>1. (\A l \in DOMAIN disk : l \in P => disk'[l].kind # "home") /\ (\A l \in DOMAIN disk : l \in P => disk'[l] # Old)
    BY Zenon
  <2>2. (\A g \in {"boot", "home1", "home2"} : \A l \in BlocksOf(g) : l \notin P) /\ \A l \in BlocksOf("altIndex") : l \notin P
    BY <1>7
  <2>3. QED
    BY <1>1, <2>1, <2>2, PartsStay, Zenon
<1>11. \A g \in {"bitmap", "mfd", "security"} : \A kind : g # e /\ FirstThere(g, kind) => FirstThere(g, kind)'
  <2>1. \A g \in {"bitmap", "mfd", "security"} : g \in Structures
    BY DEF Structures
  <2>2. QED
    BY <1>8, <1>10, <2>1, Zenon
<1>12. QED
  BY <1>1, <1>3, <1>9, <1>10, <1>11, Zenon

\* The index file's bitmap is written.
LEMMA SlotsImage ==
    ASSUME ImageOK, WriteIndexBitmap
    PROVE  Image'
<1> DEFINE value == [kind |-> "slots", inUse |-> 1 .. Reserved]
           P == {layout.lbn["index"]}
           contents == [l \in P |-> value]
<1>1. Doing(2) /\ Written(contents)
  BY Zenon DEF WriteIndexBitmap
<1>2. DOMAIN contents = P /\ \A l \in P : contents[l] = value
  BY Zenon
<1> HIDE DEF contents
<1>3. /\ asked' = asked /\ layout' = layout /\ DOMAIN disk' = DOMAIN disk
      /\ \A l \in DOMAIN disk : l \notin P => disk'[l] = disk[l]
      /\ \A l \in DOMAIN disk : l \in P => disk'[l] = value
  BY <1>1, <1>2, WrittenThere, Zenon
<1>4. value # Old /\ value.kind = "slots"
  BY DEF Old
<1>5. \A e \in Structures : BlocksOf(e) \subseteq DOMAIN disk /\ layout.lbn[e] \in BlocksOf(e)
  BY <1>1, 2 \in 0 .. 6, WriteFacts, Zenon
<1>6. layout.lbn["index"] \in BlocksOf("index") /\ layout.lbn["index"] \in DOMAIN disk
  BY <1>5 DEF Structures
<1>7. P \subseteq BlocksOf("index")
  BY <1>6
<1>8. \A l \in DOMAIN disk : l \in P => disk'[l] # Old /\ disk'[l].kind # "home"
  BY <1>3, <1>4
<1> HIDE DEF value
<1>9. /\ steps' = 9 + 2
      /\ NoneOld' /\ HomesAreCopies' /\ HomesThere'
  BY <1>1, <1>3, <1>7, <1>8, 2 \in 2 .. 6, "index" \in {"index", "bitmap", "mfd", "security"}, WriteInto, Zenon
<1>10. SlotsThere'
  BY <1>3, <1>4, <1>6 DEF SlotsThere
<1>11. QED
  BY <1>9, <1>10 DEF Image

\* The reserved files' headers are written.
LEMMA HeaderImage ==
    ASSUME ImageOK, WriteHeaders
    PROVE  Image'
<1> DEFINE Alt == BlocksOf("altIndex")
           Main == HeaderLBN(1) .. HeaderLBN(Reserved)
           P == Main \union Alt
           contents == [l \in P |-> IF l \in Alt THEN Header(1) ELSE Header(l - HeaderLBN(1) + 1)]
<1>1. Doing(3) /\ Written(contents) /\ HaveMaps
  BY Zenon DEF WriteHeaders, HaveMaps
<1>2. /\ steps = 8 + 3 /\ steps' = 9 + 3 /\ steps >= 8 /\ IsAcceptable(asked) /\ LayoutOK
      /\ \A e \in Structures : BlocksOf(e) \subseteq DOMAIN disk /\ layout.lbn[e] \in BlocksOf(e)
      /\ \A e, g \in Structures : \A l \in BlocksOf(e) : l \in BlocksOf(g) => e = g
  BY <1>1, 3 \in 0 .. 6, WriteFacts, Zenon
<1>3. /\ \A l \in Main : l \in BlocksOf("index") /\ l # layout.lbn["index"]
      /\ \A l \in Main : \E n \in 1 .. Reserved : l = HeaderLBN(n)
  BY <1>2, StructuresOnDisk, Zenon
<1>4. \A n \in 1 .. Reserved : HeaderLBN(n) \in Main /\ HeaderLBN(n) - HeaderLBN(1) + 1 = n
  <2>1. HeaderLBN(1) \in Int /\ \A n : HeaderLBN(n) = layout.lbn["index"] + IndexBitmapBlocks(asked) + n - 1
    <3>1. layout.lbn["index"] \in Nat /\ IndexBitmapBlocks(asked) \in Nat
      BY <1>2, AllSized, AcceptedSizes DEF Structures
    <3>2. QED
      BY <3>1 DEF HeaderLBN
  <2>2. PICK x \in Nat : \A n : HeaderLBN(n) = x + n - 1
    <3>1. layout.lbn["index"] \in Nat /\ IndexBitmapBlocks(asked) \in Nat
      BY <1>2, AllSized, AcceptedSizes DEF Structures
    <3>2. layout.lbn["index"] + IndexBitmapBlocks(asked) \in Nat
      BY <3>1
    <3>3. QED
      BY <2>1, <3>2
  <2>3. Reserved \in Nat
    BY SizesAssumption
  <2>4. HeaderLBN(1) = x /\ HeaderLBN(Reserved) = x + Reserved - 1
    BY <2>2, <2>3
  <2>5. QED
    BY <2>2, <2>3, <2>4
<1>5. \A l \in Main : l \notin Alt
  BY <1>2, <1>3 DEF Structures
<1>6. /\ DOMAIN contents = P /\ (\A l \in Alt : contents[l] = Header(1))
      /\ (\A n \in 1 .. Reserved : contents[HeaderLBN(n)] = Header(n))
  <2>1. DOMAIN contents = P /\ \A l \in P : contents[l] = IF l \in Alt THEN Header(1) ELSE Header(l - HeaderLBN(1) + 1)
    BY Zenon
  <2>2. \A n \in 1 .. Reserved : HeaderLBN(n) \in P /\ HeaderLBN(n) \notin Alt
    BY <1>4, <1>5
  <2> HIDE DEF contents
  <2>3. \A l \in Alt : contents[l] = Header(1)
    BY <2>1, Zenon
  <2>4. \A n \in 1 .. Reserved : contents[HeaderLBN(n)] = Header(n)
    BY <1>4, <2>1, <2>2
  <2>5. QED
    BY <2>1, <2>3, <2>4, Zenon
<1> HIDE DEF contents
<1>7. /\ asked' = asked /\ layout' = layout /\ DOMAIN disk' = DOMAIN disk
      /\ \A l \in DOMAIN disk : l \notin P => disk'[l] = disk[l]
      /\ \A l \in DOMAIN disk : l \in P => disk'[l] = contents[l]
  BY <1>1, <1>6, WrittenThere, Zenon
<1>8. \A n : Header(n).kind = "header" /\ Header(n) # Old /\ Header(n)' = Header(n)
  <2>1. \A n : Header(n).kind = "header"
    BY DEF Header
  <2>2. Old.kind = "old"
    BY DEF Old
  <2>3. \A n : Header(n)' = Header(n)
    BY <1>7, SameTable, Zenon
  <2>4. QED
    BY <2>1, <2>2, <2>3
<1>9. \A l \in P : \E n : contents[l] = Header(n)
  <2>1. ASSUME NEW l \in Main PROVE \E n : contents[l] = Header(n)
    BY <1>3, <1>6, Zenon
  <2>2. ASSUME NEW l \in Alt PROVE \E n : contents[l] = Header(n)
    BY <1>6, Zenon
  <2>3. QED
    BY <2>1, <2>2
<1>10. \A l \in DOMAIN disk : l \in P => disk'[l] # Old /\ disk'[l].kind # "home"
  BY <1>7, <1>8, <1>9
<1>11. /\ NoneOld' /\ HomesAreCopies' /\ HomesThere' /\ SlotsThere' /\ HaveMaps'
  <2>1. NoneOld /\ HomesAreCopies /\ HomesThere /\ SlotsThere
    BY <1>2 DEF ImageOK, Image
  <2>2. \A e \in {"boot", "home1", "home2"} : \A l \in BlocksOf(e) : l \notin P
    BY <1>2, <1>3 DEF Structures
  <2>3. layout.lbn["index"] \notin P
    BY <1>2, <1>3 DEF Structures
  <2>4. (\A l \in DOMAIN disk : l \in P => disk'[l].kind # "home") /\ (\A l \in DOMAIN disk : l \in P => disk'[l] # Old)
    BY <1>10, Zenon
  <2> HIDE DEF P
  <2>5. QED
    BY <1>1, <1>2, <1>7, <2>1, <2>2, <2>3, <2>4, PartsStay, Zenon
<1>12. HeadersThere'
  <2>1. \A l \in Alt : l \in DOMAIN disk
    BY <1>2 DEF Structures
  <2>2. \A n \in 1 .. Reserved : HeaderLBN(n) \in DOMAIN disk
    BY <1>2, <1>3, <1>4 DEF Structures
  <2>3. \A l \in Alt : disk'[l] = Header(1)
    BY <1>6, <1>7, <2>1
  <2>4. \A n \in 1 .. Reserved : disk'[HeaderLBN(n)] = Header(n)
    BY <1>4, <1>6, <1>7, <2>2
  <2>5. (\A n : HeaderLBN(n)' = HeaderLBN(n)) /\ \A e : BlocksOf(e)' = BlocksOf(e)
    BY <1>7, SameTable, Zenon
  <2>6. QED
    BY <1>8, <2>3, <2>4, <2>5 DEF HeadersThere
<1>13. QED
  BY <1>2, <1>11, <1>12 DEF Image

\* The storage bitmap is written.
LEMMA BitmapImage ==
    ASSUME ImageOK, WriteStorageBitmap
    PROVE  Image'
<1> DEFINE first == layout.lbn["bitmap"]
           P == first .. first + StorageMapBlocks(asked)
           contents == [l \in P |-> IF l = first THEN Of("scb") ELSE MapBlock(l - first - 1)]
<1>1. Doing(4) /\ Written(contents)
  BY Zenon DEF WriteStorageBitmap
<1>2. /\ steps = 8 + 4 /\ steps' = 9 + 4 /\ steps >= 8 /\ IsAcceptable(asked) /\ LayoutOK
      /\ \A e \in Structures : BlocksOf(e) \subseteq DOMAIN disk /\ layout.lbn[e] \in BlocksOf(e)
  BY <1>1, 4 \in 0 .. 6, WriteFacts, Zenon
<1>3. P \subseteq BlocksOf("bitmap")
  BY <1>2, StructuresOnDisk, Zenon
<1>4. first \in P /\ first \in DOMAIN disk
  <2>1. first \in Nat /\ StorageMapBlocks(asked) \in Nat
    BY <1>2, AllSized, Needs DEF Structures
  <2>2. first \in P
    BY <2>1
  <2>3. QED
    BY <1>2, <2>2 DEF Structures
<1>5. DOMAIN contents = P /\ contents[first] = Of("scb") /\ \A l \in P : contents[l].kind \in {"scb", "map"}
  <2>1. DOMAIN contents = P /\ \A l \in P : contents[l] = IF l = first THEN Of("scb") ELSE MapBlock(l - first - 1)
    BY Zenon
  <2> HIDE DEF contents
  <2>2. contents[first] = Of("scb")
    BY <1>4, <2>1, Zenon
  <2>3. \A l \in P : contents[l].kind \in {"scb", "map"}
    <3>1. Of("scb").kind = "scb"
      BY DEF Of
    <3>2. \A i : MapBlock(i).kind = "map"
      BY DEF MapBlock
    <3> HIDE DEF P, first
    <3>3. ASSUME NEW l \in P
          PROVE  contents[l].kind \in {"scb", "map"}
      <4>1. CASE l = first
        BY <2>2, <3>1, <4>1
      <4>2. CASE l # first
        <5>1. contents[l] = MapBlock(l - first - 1)
          BY <2>1, <3>3, <4>2, Zenon
        <5>2. contents[l].kind = "map"
          BY <3>2, <5>1, Zenon
        <5>3. QED
          BY <5>2
      <4>3. QED
        BY <4>1, <4>2
    <3>4. QED
      BY <3>3
  <2>4. QED
    BY <2>1, <2>2, <2>3, Zenon
<1> HIDE DEF contents, P
<1>6. /\ asked' = asked /\ layout' = layout /\ DOMAIN disk' = DOMAIN disk
      /\ \A l \in DOMAIN disk : l \notin P => disk'[l] = disk[l]
      /\ \A l \in DOMAIN disk : l \in P => disk'[l] = contents[l]
  BY <1>1, <1>5, WrittenThere, Zenon
<1>7. \A l \in DOMAIN disk : l \in P => disk'[l] # Old /\ disk'[l].kind # "home"
  <2>1. ASSUME NEW l \in DOMAIN disk, l \in P
        PROVE  disk'[l] # Old /\ disk'[l].kind # "home"
    <3>1. disk'[l].kind \in {"scb", "map"}
      BY <1>5, <1>6, <2>1
    <3>2. QED
      BY <3>1 DEF Old
  <2>2. QED
    BY <2>1
<1>8. SlotsThere /\ HaveMaps /\ HeadersThere
  BY <1>2 DEF ImageOK, Image
<1>9. /\ NoneOld' /\ HomesAreCopies' /\ HomesThere'
      /\ SlotsThere' /\ HaveMaps' /\ HeadersThere'
  BY <1>1, <1>3, <1>6, <1>7, <1>8, 4 \in 2 .. 6, "bitmap" \in {"index", "bitmap", "mfd", "security"},
     "bitmap" # "index", WriteInto, Zenon
<1>10. FirstThere("bitmap", "scb")'
  BY <1>4, <1>5, <1>6 DEF FirstThere, Of
<1>11. QED
  BY <1>2, <1>9, <1>10 DEF Image

\* The master file directory's first block is written.
LEMMA MfdImage ==
    ASSUME ImageOK, WriteMFD
    PROVE  Image'
<1> DEFINE P == {layout.lbn["mfd"]}
           contents == [l \in P |-> Of("mfd")]
<1>1. Doing(5) /\ Written(contents)
  BY Zenon DEF WriteMFD
<1>2. DOMAIN contents = P /\ \A l \in P : contents[l] = Of("mfd")
  BY Zenon
<1> HIDE DEF contents
<1>3. /\ asked' = asked /\ layout' = layout /\ DOMAIN disk' = DOMAIN disk
      /\ \A l \in DOMAIN disk : l \notin P => disk'[l] = disk[l]
      /\ \A l \in DOMAIN disk : l \in P => disk'[l] = Of("mfd")
  BY <1>1, <1>2, WrittenThere, Zenon
<1>4. Of("mfd") # Old /\ Of("mfd").kind = "mfd"
  BY DEF Old, Of
<1>5. /\ steps = 8 + 5
      /\ \A e \in Structures : BlocksOf(e) \subseteq DOMAIN disk /\ layout.lbn[e] \in BlocksOf(e)
  BY <1>1, 5 \in 0 .. 6, WriteFacts, Zenon
<1>6. layout.lbn["mfd"] \in BlocksOf("mfd") /\ layout.lbn["mfd"] \in DOMAIN disk
  BY <1>5 DEF Structures
<1>7. P \subseteq BlocksOf("mfd")
  BY <1>6
<1>8. \A l \in DOMAIN disk : l \in P => disk'[l] # Old /\ disk'[l].kind # "home"
  BY <1>3, <1>4
<1>9. SlotsThere /\ HaveMaps /\ HeadersThere /\ FirstThere("bitmap", "scb")
  BY <1>5 DEF ImageOK, Image
<1>10. /\ steps' = 9 + 5
       /\ NoneOld' /\ HomesAreCopies' /\ HomesThere'
       /\ SlotsThere' /\ HaveMaps' /\ HeadersThere'
       /\ FirstThere("bitmap", "scb")'
  <2>1. "mfd" \in {"index", "bitmap", "mfd", "security"} /\ "mfd" # "index" /\ "bitmap" # "mfd"
        /\ "bitmap" \in {"bitmap", "mfd", "security"} /\ 5 \in 2 .. 6
    OBVIOUS
  <2>2. QED
    BY <1>1, <1>3, <1>7, <1>8, <1>9, <2>1, WriteInto, Zenon
<1>11. FirstThere("mfd", "mfd")'
  BY <1>3, <1>6 DEF FirstThere, Of
<1>12. QED
  BY <1>10, <1>11 DEF Image

\* SECURITY.SYS is written, and all is.
LEMMA SecurityImage ==
    ASSUME ImageOK, WriteSecurity
    PROVE  Image'
<1> DEFINE P == {layout.lbn["security"]}
<1>1. Doing(6) /\ disk' = [disk EXCEPT ![layout.lbn["security"]] = Of("security")]
      /\ asked' = asked /\ layout' = layout
  BY DEF WriteSecurity
<1>2. /\ DOMAIN disk' = DOMAIN disk
      /\ \A l \in DOMAIN disk : l \notin P => disk'[l] = disk[l]
      /\ \A l \in DOMAIN disk : l \in P => disk'[l] = Of("security")
  BY <1>1
<1>3. Of("security") # Old /\ Of("security").kind = "security"
  BY DEF Old, Of
<1>4. /\ steps = 8 + 6
      /\ \A e \in Structures : BlocksOf(e) \subseteq DOMAIN disk /\ layout.lbn[e] \in BlocksOf(e)
  BY <1>1, 6 \in 0 .. 6, WriteFacts, Zenon
<1>5. layout.lbn["security"] \in BlocksOf("security") /\ layout.lbn["security"] \in DOMAIN disk
  BY <1>4 DEF Structures
<1>6. P \subseteq BlocksOf("security")
  BY <1>5
<1>7. \A l \in DOMAIN disk : l \in P => disk'[l] # Old /\ disk'[l].kind # "home"
  BY <1>2, <1>3
<1>8. SlotsThere /\ HaveMaps /\ HeadersThere /\ FirstThere("bitmap", "scb") /\ FirstThere("mfd", "mfd")
  BY <1>4 DEF ImageOK, Image
<1>9. /\ steps' = 9 + 6
      /\ NoneOld' /\ HomesAreCopies' /\ HomesThere'
      /\ SlotsThere' /\ HaveMaps' /\ HeadersThere'
      /\ FirstThere("bitmap", "scb")' /\ FirstThere("mfd", "mfd")'
  <2>1. "security" \in {"index", "bitmap", "mfd", "security"} /\ "security" # "index" /\ "bitmap" # "security"
        /\ "mfd" # "security" /\ "bitmap" \in {"bitmap", "mfd", "security"} /\ "mfd" \in {"bitmap", "mfd", "security"}
        /\ 6 \in 2 .. 6
    OBVIOUS
  <2>2. QED
    BY <1>1, <1>2, <1>6, <1>7, <1>8, <2>1, WriteInto, ZenonT(60)
<1>10. FirstThere("security", "security")'
  BY <1>1, <1>2, <1>5 DEF FirstThere, Of
<1>11. QED
  BY <1>9, <1>10 DEF Image

(***************************************************************************)
(* The mount.                                                              *)
(***************************************************************************)

\* Nothing is on the disk at first, and nothing is placed.
LEMMA ImageStarts ==
    ASSUME Init
    PROVE  ImageOK
<1>1. asked \in Options /\ layout = AtFirst(asked) /\ disk = [l \in 0 .. asked.blocks - 1 |-> Old] /\ steps = 0
      /\ status = IF IsAcceptable(asked) THEN "running" ELSE "refused"
  BY DEF Init
<1>2. LayoutOK
  BY LayoutStarts
<1>3. Unplaced
  <2>1. \A e \in Structures : layout.count[e] = 0
    <3>1. layout.count = [e \in AllEntries |->
                           IF e = "volEnd" THEN VolEndCount(asked)
                           ELSE IF e = "badBlock" /\ asked.blocks % asked.cluster # 0 THEN asked.cluster ELSE 0]
      BY <1>1, TableNames DEF AtFirst, VolEndCount
    <3>2. QED
      BY <3>1 DEF AllEntries, Structures
  <2>2. \A k \in 1 .. 8 : PlaceOrder(asked)[k] \in Structures
    BY OrderNames
  <2>3. QED
    BY <2>1, <2>2 DEF Unplaced
<1>4. HomesPlaced
  <2>1. status = "running" => IsAcceptable(asked)
    BY <1>1
  <2>2. QED
    BY <1>1, <1>3, <2>1 DEF HomesPlaced
<1>5. Image
  <2>1. NoHomes
    BY <1>1 DEF NoHomes, Old
  <2>2. QED
    BY <1>1, <2>1 DEF Image
<1>6. QED
  BY <1>2, <1>4, <1>5 DEF ImageOK

\* A disk and a table that stay keep the image.
LEMMA ImageStays ==
    ASSUME ImageOK, asked' = asked, layout' = layout, disk' = disk, steps' = steps
    PROVE  Image'
<1>1. /\ \A e : BlocksOf(e)' = BlocksOf(e)
      /\ \A n : HeaderLBN(n)' = HeaderLBN(n) /\ Header(n)' = Header(n)
      /\ \A l, vbn : HomeBlock(l, vbn)' = HomeBlock(l, vbn)
      /\ HaveMaps' = HaveMaps
  BY SameTable, Zenon
<1>2. NoHomes => NoHomes'
  BY DEF NoHomes
<1>3. NoneOld => NoneOld'
  BY <1>1 DEF NoneOld, Old
<1>4. HomesAreCopies => HomesAreCopies'
  BY <1>1 DEF HomesAreCopies, IsHomeCopy
<1>5. HomesThere => HomesThere'
  BY <1>1 DEF HomesThere
<1>6. SlotsThere => SlotsThere'
  BY DEF SlotsThere
<1>7. HeadersThere => HeadersThere'
  BY <1>1 DEF HeadersThere
<1>8. \A e, kind : FirstThere(e, kind) => FirstThere(e, kind)'
  BY DEF FirstThere, Of
<1>9. QED
  BY <1>1, <1>2, <1>3, <1>4, <1>5, <1>6, <1>7, <1>8 DEF ImageOK, Image

\* What each write may do to the table, the options and the status.
LEMMA WritesKeepTable ==
    ASSUME ImageOK, \/ ZeroFixedStructures \/ WriteHomeBlocks \/ WriteIndexBitmap \/ WriteHeaders
                    \/ WriteStorageBitmap \/ WriteMFD \/ WriteSecurity
    PROVE  /\ asked' = asked /\ layout' = layout /\ status = "running"
           /\ steps >= 8 /\ steps' = steps + 1
<1>1. asked' = asked /\ layout' = layout /\ \E k \in 0 .. 6 : Doing(k)
  <2>1. asked' = asked /\ layout' = layout
    BY DEF ZeroFixedStructures, WriteHomeBlocks, WriteIndexBitmap, WriteHeaders, WriteStorageBitmap, WriteMFD, WriteSecurity, Written
  <2>2. Doing(0) \/ Doing(1) \/ Doing(2) \/ Doing(3) \/ Doing(4) \/ Doing(5) \/ Doing(6)
    BY Zenon DEF ZeroFixedStructures, WriteHomeBlocks, WriteIndexBitmap, WriteHeaders, WriteStorageBitmap, WriteMFD, WriteSecurity
  <2>3. QED
    BY <2>1, <2>2
<1>2. PICK k \in 0 .. 6 : Doing(k)
  BY <1>1
<1>3. steps = 8 + k /\ steps' = 9 + k /\ status = "running"
  BY <1>2, DoingSteps
<1>4. QED
  BY <1>1, <1>3

\* Every step keeps the invariant.
LEMMA ImageStepsKeep ==
    ASSUME ImageOK, [Next]_vars
    PROVE  ImageOK'
<1>1. LayoutOK /\ HomesPlaced /\ Image /\ steps \in 0 .. 15
  BY DEF ImageOK, LayoutOK, DiskOK
<1>2. LayoutOK'
  BY <1>1, LayoutSteps
<1>3. CASE Place
  <2>1. HomesPlaced'
    BY <1>1, <1>3, PlaceKeepsHomes
  <2>2. steps < 8 /\ steps' = steps + 1 /\ disk' = disk
    BY <1>3, OrderNames DEF Place
  <2>3. NoHomes'
    BY <1>1, <2>2 DEF Image, NoHomes
  <2>4. steps' < 9
    BY <1>1, <2>2
  <2>5. Image'
    BY <1>1, <2>2, <2>3, <2>4 DEF Image
  <2>6. QED
    BY <1>2, <2>1, <2>5 DEF ImageOK
<1>4. CASE PlaceRefused \/ WriteFails \/ UNCHANGED vars
  <2>1. /\ asked' = asked /\ layout' = layout /\ disk' = disk /\ steps' = steps
        /\ status' = "running" => status = "running"
    BY <1>4 DEF PlaceRefused, WriteFails, vars
  <2>2. HomesPlaced'
    BY <1>1, <2>1, HomesStay
  <2>3. QED
    BY <1>2, <2>1, <2>2, ImageStays DEF ImageOK
<1>5. CASE \/ ZeroFixedStructures \/ WriteHomeBlocks \/ WriteIndexBitmap \/ WriteHeaders
           \/ WriteStorageBitmap \/ WriteMFD \/ WriteSecurity
  <2>1. asked' = asked /\ layout' = layout /\ status = "running" /\ steps >= 8 /\ steps' = steps + 1
    BY <1>5, WritesKeepTable, Zenon
  <2>2. HomesPlaced'
    BY <1>1, <2>1, HomesStay
  <2>3. Image'
    BY <1>5, ZeroImage, HomeImage, SlotsImage, HeaderImage, BitmapImage, MfdImage, SecurityImage, Zenon
  <2>4. QED
    BY <1>2, <2>2, <2>3 DEF ImageOK
<1>6. QED
  BY <1>3, <1>4, <1>5, Zenon DEF Next

\* What a new volume's disk is like.
LEMMA DoneImage ==
    ASSUME ImageOK, status = "done"
    PROVE  /\ LayoutOK /\ HomesPlaced /\ steps = 15 /\ IsAcceptable(asked)
           /\ NoneOld /\ HomesAreCopies /\ HomesThere /\ SlotsThere /\ HaveMaps /\ HeadersThere
           /\ FirstThere("bitmap", "scb") /\ FirstThere("mfd", "mfd") /\ FirstThere("security", "security")
<1>1. LayoutOK /\ HomesPlaced /\ Image /\ steps = 15
  BY DEF ImageOK, LayoutOK, DiskOK
<1>2. IsAcceptable(asked)
  BY <1>1 DEF HomesPlaced
<1>3. QED
  BY <1>1, <1>2 DEF Image

\* A mount finds a home block, at LBN 1 if nowhere before it.
LEMMA HomeFound ==
    ASSUME ImageOK, status = "done"
    PROVE  FoundHomes # {} /\ \E l \in FoundHomes, vbn \in Int : Home = HomeBlock(l, vbn)
<1>1. LayoutOK /\ HomesPlaced /\ steps = 15 /\ IsAcceptable(asked) /\ HomesAreCopies /\ HomesThere
  BY DoneImage
<1>2. /\ asked.cluster \in Nat \ {0} /\ \A e \in Structures : layout.lbn[e] \in Nat
      /\ layout.count["boot"] = asked.cluster /\ layout.count["home1"] = asked.cluster
      /\ BlocksOf("boot") \subseteq DOMAIN disk /\ BlocksOf("home1") \subseteq DOMAIN disk
  <2>1. steps >= 8
    BY <1>1
  <2>2. \A e \in {"boot", "home1", "home2", "altIndex"} : layout.count[e] = asked.cluster
    BY <1>1, <2>1, AllSized, Zenon
  <2>3. "boot" \in Structures /\ "home1" \in Structures
    BY DEF Structures
  <2>4. QED
    BY <1>1, <2>1, <2>2, <2>3, AllSized, StructuresOnDisk, Zenon
<1>3. DOMAIN disk = 0 .. asked.blocks - 1 /\ asked.blocks \in Nat /\ ScanLimit \in Nat \ {0}
  <2>1. asked \in Options
    BY <1>1 DEF LayoutOK, TableOK
  <2>2. QED
    BY <1>1, <2>1, OptionTypes, SizesAssumption DEF LayoutOK, DiskOK
<1>4. 1 \in DOMAIN disk /\ disk[1].kind = "home"
  <2>1. CASE asked.cluster = 1
    <3>1. layout.lbn["home1"] = 1
      BY <1>1, <2>1 DEF HomesPlaced
    <3>2. 1 \in BlocksOf("home1")
      BY <1>2, <2>1, <3>1 DEF BlocksOf
    <3>3. QED
      BY <1>1, <1>2, <3>2 DEF HomesThere
  <2>2. CASE asked.cluster # 1
    <3>1. layout.lbn["boot"] = 0
      BY <1>1 DEF HomesPlaced
    <3>2. 1 \in BlocksOf("boot") /\ 1 # layout.lbn["boot"]
      BY <1>2, <2>2, <3>1 DEF BlocksOf
    <3>3. QED
      BY <1>1, <1>2, <3>2 DEF HomesThere
  <2>3. QED
    BY <2>1, <2>2
<1>5. \A l \in DOMAIN disk : disk[l].kind = "home" => \E vbn \in Int : disk[l] = HomeBlock(l, vbn)
  BY <1>1, Zenon DEF HomesAreCopies, IsHomeCopy
<1>6. \A l, vbn : HomeBlock(l, vbn).homeLBN = l
  BY DEF HomeBlock
<1>7. PICK m \in Nat : m = Smaller(ScanLimit, asked.blocks - 1) /\ 1 <= m /\ m <= asked.blocks - 1
  BY <1>3, <1>4 DEF Smaller
<1>8. FoundHomes = {l \in 1 .. m : disk[l].kind = "home" /\ disk[l].homeLBN = l}
  BY <1>7, Zenon DEF FoundHomes
<1>9. disk[1].homeLBN = 1
  BY <1>4, <1>5, <1>6, Zenon
<1>10. 1 \in FoundHomes /\ FoundHomes \subseteq Nat
  BY <1>4, <1>7, <1>8, <1>9
<1>11. Least(FoundHomes) \in FoundHomes
  <2>1. \E least \in FoundHomes : \A n \in FoundHomes : least <= n
    BY <1>10, LeastNatural
  <2>2. QED
    BY <2>1 DEF Least
<1>12. Least(FoundHomes) \in DOMAIN disk /\ disk[Least(FoundHomes)].kind = "home"
  BY <1>3, <1>7, <1>8, <1>11
<1>13. PICK vbn \in Int : disk[Least(FoundHomes)] = HomeBlock(Least(FoundHomes), vbn)
  BY <1>5, <1>12, Zenon
<1>14. QED
  BY <1>10, <1>11, <1>13, Zenon DEF Home

\* Its fields, when the VBNs of the volume's clusters fit its words.
LEMMA HomeFields ==
    ASSUME ImageOK, status = "done", asked.cluster * 4 + 1 < Word
    PROVE  /\ Home.alternateHomeLBN = layout.realHome
           /\ Home.alternateHomeVBN = layout.realHome - layout.lbn["home2"] + asked.cluster * 2 + 1
           /\ Home.alternateIndexLBN = layout.lbn["altIndex"]
           /\ Home.alternateIndexVBN = asked.cluster * 3 + 1
           /\ Home.indexBitmapLBN = layout.lbn["index"]
           /\ Home.indexBitmapVBN = asked.cluster * 4 + 1
           /\ Home.indexBitmapSize = IndexBitmapBlocks(asked)
           /\ layout.realHome \in BlocksOf("home2")
<1>1. LayoutOK /\ HomesPlaced /\ steps = 15 /\ IsAcceptable(asked)
  BY DoneImage
<1>2. PICK l, vbn : Home = HomeBlock(l, vbn)
  BY HomeFound, Zenon
<1>3. /\ asked.cluster \in Nat \ {0} /\ layout.lbn["home2"] \in Nat /\ layout.count["home2"] = asked.cluster
      /\ asked \in Options
  <2>1. steps >= 8
    BY <1>1
  <2>2. /\ \A e \in {"boot", "home1", "home2", "altIndex"} : layout.count[e] = asked.cluster
        /\ asked.cluster \in Nat \ {0} /\ asked \in Options
        /\ \A e \in Structures : layout.lbn[e] \in Nat
    BY <1>1, <2>1, AllSized, Zenon
  <2>3. "home2" \in Structures /\ "home2" \in {"boot", "home1", "home2", "altIndex"}
    BY DEF Structures
  <2>4. QED
    BY <2>2, <2>3, Zenon
<1>4. PICK c \in Nat \ {0}, y \in Nat, r \in Nat :
        c = asked.cluster /\ y = layout.lbn["home2"] /\ r = layout.realHome
  BY <1>1, <1>3 DEF HomesPlaced
<1>5. y <= r /\ r < y + c
  <2>1. (r \div c) * c = y
    BY <1>1, <1>4 DEF HomesPlaced, ClusterOf
  <2>2. (r \div c) * c <= r /\ r < (r \div c) * c + c
    BY <1>4, Quotients
  <2>3. QED
    BY <2>1, <2>2
<1>6. PICK w \in Nat \ {0} : w = Word /\ c * 4 + 1 < w
  BY <1>4, Quarters
<1>7. /\ (r - y + c * 2 + 1) % w = r - y + c * 2 + 1
      /\ (c * 3 + 1) % w = c * 3 + 1 /\ (c * 4 + 1) % w = c * 4 + 1
  <2>1. r - y + c * 2 + 1 \in 0 .. w - 1 /\ c * 3 + 1 \in 0 .. w - 1 /\ c * 4 + 1 \in 0 .. w - 1
    BY ONLY <1>5, <1>6, c \in Nat \ {0}, y \in Nat, r \in Nat, w \in Nat \ {0}
  <2>2. \A n \in 0 .. w - 1 : n % w = n
    OBVIOUS
  <2>3. QED
    BY <2>1, <2>2
<1>8. IndexBitmapBlocks(asked) % Word = IndexBitmapBlocks(asked)
  BY <1>1, <1>3, AcceptedSizes, Zenon
<1>9. layout.realHome \in BlocksOf("home2")
  BY <1>3, <1>4, <1>5 DEF BlocksOf
<1>10. /\ Home.alternateHomeLBN = layout.realHome
       /\ Home.alternateHomeVBN = (layout.realHome - layout.lbn["home2"] + asked.cluster * 2 + 1) % Word
       /\ Home.alternateIndexLBN = layout.lbn["altIndex"]
       /\ Home.alternateIndexVBN = (asked.cluster * 3 + 1) % Word
       /\ Home.indexBitmapLBN = layout.lbn["index"]
       /\ Home.indexBitmapVBN = (asked.cluster * 4 + 1) % Word
       /\ Home.indexBitmapSize = IndexBitmapBlocks(asked) % Word
  BY <1>2 DEF HomeBlock
<1>11. QED
  BY <1>4, <1>6, <1>7, <1>8, <1>9, <1>10

\* INDEXF.SYS's map, read from its header, leads to each of its blocks.
LEMMA IndexFileReads ==
    ASSUME ImageOK, status = "done", asked.cluster * 4 + 1 < Word
    PROVE  /\ IndexHeader = Header(1)
           /\ \A o \in Nat : o < 4 * asked.cluster + layout.count["index"] => AtVBN(o + 1) = disk[FileBlocks[o]]
<1>1. LayoutOK /\ HomesPlaced /\ steps = 15 /\ IsAcceptable(asked) /\ HeadersThere /\ HaveMaps
  BY DoneImage
<1>2. IndexHeader = Header(1)
  <2>1. IndexHeader = disk[layout.lbn["index"] + IndexBitmapBlocks(asked)]
    BY HomeFields, Zenon DEF IndexHeader
  <2>2. disk[HeaderLBN(1)] = Header(1)
    BY <1>1, SizesAssumption DEF HeadersThere
  <2>3. HeaderLBN(1) = layout.lbn["index"] + IndexBitmapBlocks(asked)
    <3>1. layout.lbn["index"] \in Nat /\ IndexBitmapBlocks(asked) \in Nat
      <4>1. asked \in Options /\ layout.lbn["index"] \in Nat
        BY <1>1, TableTypes DEF LayoutOK, TableOK, AllEntries, Structures
      <4>2. QED
        BY <1>1, <4>1, AcceptedSizes
    <3>2. QED
      BY <3>1 DEF HeaderLBN
  <2>4. QED
    BY <2>1, <2>2, <2>3
<1>3. IndexBlocks = FirstOf(FileBlocks, 4 * asked.cluster + layout.count["index"])
  BY <1>1, <1>2, 15 >= 8, IndexMapReads, Zenon DEF IndexBlocks
<1>4. PICK n \in Nat : n = 4 * asked.cluster + layout.count["index"]
  BY <1>1, TableTypes DEF LayoutOK, AllEntries, Structures
<1>5. ASSUME NEW o \in Nat, o < n
      PROVE  AtVBN(o + 1) = disk[FileBlocks[o]]
  <2>1. o + 1 \in 1 .. n /\ (o + 1) - 1 = o
    BY <1>5
  <2>2. DOMAIN IndexBlocks = 1 .. n /\ IndexBlocks[o + 1] = FileBlocks[(o + 1) - 1]
    BY <1>3, <1>4, <2>1, Zenon DEF FirstOf
  <2>3. QED
    BY <2>1, <2>2 DEF AtVBN
<1>6. QED
  BY <1>2, <1>4, <1>5

\* INDEXF.SYS's home block, its header's copies, bitmap and headers are where
\* the home block's VBNs say.
LEMMA IndexFileFound ==
    ASSUME ImageOK, status = "done", asked.cluster * 4 + 1 < Word
    PROVE  /\ \A n \in 1 .. Reserved : AtVBN(FileHeaderVBN(n)) = Header(n)
           /\ AtVBN(Home.indexBitmapVBN).kind = "slots"
           /\ AtVBN(Home.alternateHomeVBN) = disk[layout.realHome]
           /\ AtVBN(Home.alternateIndexVBN) = Header(1)
<1>1. LayoutOK /\ HomesPlaced /\ steps = 15 /\ steps >= 8 /\ IsAcceptable(asked) /\ HeadersThere /\ SlotsThere
  <2>1. LayoutOK /\ HomesPlaced /\ steps = 15 /\ IsAcceptable(asked) /\ HeadersThere /\ SlotsThere
    BY DoneImage
  <2>2. QED
    BY <2>1
<1>2. /\ asked.cluster \in Nat \ {0} /\ asked \in Options
      /\ \A e \in Structures : layout.lbn[e] \in Nat /\ layout.count[e] \in Nat \ {0}
      /\ \A n \in 1 .. Reserved : HeaderLBN(n) \in BlocksOf("index")
      /\ \A e \in Structures : layout.lbn[e] \in BlocksOf(e)
  <2>1. /\ asked.cluster \in Nat \ {0} /\ asked \in Options
        /\ \A e \in Structures : layout.lbn[e] \in Nat /\ layout.count[e] \in Nat \ {0}
    BY <1>1, AllSized, Zenon
  <2>2. /\ \A n \in 1 .. Reserved : HeaderLBN(n) \in BlocksOf("index")
        /\ \A e \in Structures : layout.lbn[e] \in BlocksOf(e)
    BY <1>1, StructuresOnDisk, Zenon
  <2>3. QED
    BY <2>1, <2>2
<1>3. PICK c \in Nat \ {0}, y \in Nat, a \in Nat, x \in Nat, N \in Nat \ {0}, b \in Nat, r \in Int :
        /\ c = asked.cluster /\ y = layout.lbn["home2"] /\ a = layout.lbn["altIndex"]
        /\ x = layout.lbn["index"] /\ N = layout.count["index"] /\ b = IndexBitmapBlocks(asked)
        /\ r = layout.realHome
  <2>1. IndexBitmapBlocks(asked) \in Nat /\ layout.realHome \in Nat
    BY <1>1, <1>2, AcceptedSizes DEF HomesPlaced
  <2>2. /\ layout.lbn["home2"] \in Nat /\ layout.lbn["altIndex"] \in Nat
        /\ layout.lbn["index"] \in Nat /\ layout.count["index"] \in Nat \ {0}
    BY <1>2 DEF Structures
  <2>3. layout.realHome \in Int
    BY <2>1
  <2>4. QED
    BY <1>2, <2>1, <2>2, <2>3, Zenon
<1>4. \A o \in Nat : o < 4 * c + N => AtVBN(o + 1) = disk[FileBlocks[o]]
  BY <1>3, IndexFileReads
<1>5. /\ \A o \in Nat : 2 * c <= o /\ o < 3 * c => FileBlocks[o] = y + (o - 2 * c)
      /\ \A o \in Nat : 3 * c <= o /\ o < 4 * c => FileBlocks[o] = a + (o - 3 * c)
      /\ \A o \in Nat : 4 * c <= o => FileBlocks[o] = x + (o - 4 * c)
  <2>1. \A o \in Nat : FileBlocks[o] = IF o < c THEN layout.lbn["boot"] + o
                                       ELSE IF o < 2 * c THEN layout.lbn["home1"] + (o - c)
                                       ELSE IF o < 3 * c THEN y + (o - 2 * c)
                                       ELSE IF o < 4 * c THEN a + (o - 3 * c)
                                       ELSE x + (o - 4 * c)
    BY <1>3 DEF FileBlocks
  <2>2. QED
    BY <2>1
<1>6. /\ Home.alternateHomeVBN = r - y + c * 2 + 1
      /\ Home.alternateIndexVBN = c * 3 + 1
      /\ Home.indexBitmapVBN = c * 4 + 1
      /\ Home.indexBitmapSize = b
      /\ r \in BlocksOf("home2")
  BY <1>3, HomeFields, Zenon
<1>7. layout.count["home2"] = c
  BY <1>1, <1>3, AllSized, Zenon
<1>8. AtVBN(Home.indexBitmapVBN).kind = "slots"
  <2>1. c * 4 \in Nat /\ c * 4 < 4 * c + N /\ 4 * c <= c * 4 /\ x + (c * 4 - 4 * c) = x
    BY <1>3
  <2>2. AtVBN(c * 4 + 1) = disk[FileBlocks[c * 4]] /\ FileBlocks[c * 4] = x
    BY <1>4, <1>5, <2>1
  <2>3. disk[x].kind = "slots"
    BY <1>1, <1>3 DEF SlotsThere
  <2>4. QED
    BY <1>6, <2>2, <2>3
<1>9. AtVBN(Home.alternateIndexVBN) = Header(1)
  <2>1. c * 3 \in Nat /\ c * 3 < 4 * c + N /\ 3 * c <= c * 3 /\ c * 3 < 4 * c /\ a + (c * 3 - 3 * c) = a
    BY <1>3
  <2>2. AtVBN(c * 3 + 1) = disk[FileBlocks[c * 3]] /\ FileBlocks[c * 3] = a
    BY <1>4, <1>5, <2>1
  <2>3. disk[a] = Header(1)
    BY <1>1, <1>2, <1>3 DEF HeadersThere, Structures
  <2>4. QED
    BY <1>6, <2>2, <2>3
<1>10. AtVBN(Home.alternateHomeVBN) = disk[layout.realHome]
  <2>1. r \in y .. y + c - 1
    BY <1>3, <1>6, <1>7 DEF BlocksOf
  <2>2. PICK o \in Nat : o = r - y + c * 2 /\ 2 * c <= o /\ o < 3 * c /\ o < 4 * c + N /\ y + (o - 2 * c) = r
    BY <2>1
  <2>3. AtVBN(o + 1) = disk[FileBlocks[o]] /\ FileBlocks[o] = r
    BY <1>4, <1>5, <2>2
  <2>4. QED
    BY <1>3, <1>6, <2>2, <2>3
<1>11. ASSUME NEW n \in 1 .. Reserved
       PROVE  AtVBN(FileHeaderVBN(n)) = Header(n)
  <2>1. n \in Nat \ {0}
    BY SizesAssumption
  <2>2. x + b + n - 1 \in x .. x + N - 1 /\ HeaderLBN(n) = x + b + n - 1
    BY <1>2, <1>3 DEF HeaderLBN, BlocksOf
  <2>3. PICK o \in Nat : o = n - 1 + c * 4 + b /\ 4 * c <= o /\ o < 4 * c + N /\ x + (o - 4 * c) = x + b + n - 1
    BY <2>1, <2>2
  <2>4. FileHeaderVBN(n) = o + 1
    BY <1>6, <2>1, <2>3 DEF FileHeaderVBN
  <2>5. AtVBN(o + 1) = disk[FileBlocks[o]] /\ FileBlocks[o] = HeaderLBN(n)
    BY <1>4, <1>5, <2>2, <2>3
  <2>6. disk[HeaderLBN(n)] = Header(n)
    BY <1>1 DEF HeadersThere
  <2>7. QED
    BY <2>4, <2>5, <2>6
<1>12. QED
  BY <1>8, <1>9, <1>10, <1>11

\* The maps of the storage bitmap's, the directory's and the security file's
\* headers lead to what was written there.
LEMMA MapsLeadThere ==
    ASSUME ImageOK, status = "done"
    PROVE  /\ disk[BlocksOfMap(Header(4).map)[1]] = Of("mfd")
           /\ disk[BlocksOfMap(Header(2).map)[1]] = Of("scb")
           /\ disk[BlocksOfMap(Header(Reserved).map)[1]] = Of("security")
<1>1. LayoutOK /\ steps >= 8 /\ IsAcceptable(asked) /\ HaveMaps
  BY DoneImage
<1>2. /\ Header(4).map = Encoded(<<Extent("mfd")>>)
      /\ Header(2).map = Encoded(<<Extent("bitmap")>>)
      /\ Header(Reserved).map = Encoded(<<Extent("security")>>)
  BY ReservedAssumption, SizesAssumption DEF Header, MapOf
<1>3. /\ BlocksOfMap(Encoded(<<Extent("mfd")>>))[1] = layout.lbn["mfd"]
      /\ BlocksOfMap(Encoded(<<Extent("bitmap")>>))[1] = layout.lbn["bitmap"]
      /\ BlocksOfMap(Encoded(<<Extent("security")>>))[1] = layout.lbn["security"]
  BY <1>1, OneMapReads
<1>4. FirstThere("bitmap", "scb") /\ FirstThere("mfd", "mfd") /\ FirstThere("security", "security")
  BY DoneImage
<1>5. QED
  BY <1>2, <1>3, <1>4, Zenon DEF FirstThere

\* A mount finds all of it.
LEMMA ImageIsFound ==
    ASSUME ImageOK
    PROVE  MountFindsVolume
<1>1. SUFFICES ASSUME status = "done", asked.cluster * 4 + 1 < Word
               PROVE  FoundByMount
  BY DEF MountFindsVolume
<1>2. LayoutOK /\ steps >= 8 /\ IsAcceptable(asked) /\ NoneOld /\ HomesAreCopies /\ HomesThere /\ HeadersThere
  BY <1>1, DoneImage
<1>3. /\ Home.alternateHomeLBN = layout.realHome /\ layout.realHome \in BlocksOf("home2")
      /\ Home.alternateIndexLBN = layout.lbn["altIndex"]
  BY <1>1, HomeFields, Zenon
<1>4. /\ \A e \in Structures : BlocksOf(e) \subseteq DOMAIN disk /\ layout.lbn[e] \in BlocksOf(e)
      /\ "home2" \in Structures /\ "altIndex" \in Structures
  BY <1>2, StructuresOnDisk DEF Structures
<1>5. disk[layout.realHome].kind = "home" /\ disk[layout.realHome].homeLBN = layout.realHome
  <2>1. disk[layout.realHome].kind = "home" /\ layout.realHome \in DOMAIN disk
    BY <1>2, <1>3, <1>4 DEF HomesThere
  <2>2. PICK vbn : disk[layout.realHome] = HomeBlock(layout.realHome, vbn)
    BY <1>2, <2>1, Zenon DEF HomesAreCopies, IsHomeCopy
  <2>3. QED
    BY <2>1, <2>2 DEF HomeBlock
<1>6. disk[layout.lbn["altIndex"]] = Header(1)
  BY <1>2, <1>4, Zenon DEF HeadersThere
<1>7. \A e \in Structures, l \in DOMAIN disk : l \in BlocksOf(e) => disk[l] # Old
  BY <1>2, Zenon DEF NoneOld
<1>8. FoundHomes # {}
  BY <1>1, HomeFound
<1>9. IndexHeader = Header(1)
  BY <1>1, IndexFileReads, Zenon
<1>10. QED
  BY <1>1, <1>3, <1>5, <1>6, <1>7, <1>8, <1>9, IndexFileFound, MapsLeadThere, Zenon DEF FoundByMount

\* MountFindsVolume, of every size of volume, cluster, bitmap and pointer: once
\* INITIALIZE is done a mount finds INDEXF.SYS and each reserved file through the
\* home block and the map Initialize encoded (findHomeBlock, bootstrapIndexFile).
THEOREM NewVolumesMount == Spec => []MountFindsVolume
<1>1. Init => ImageOK
  BY ImageStarts
<1>2. ImageOK /\ [Next]_vars => ImageOK'
  BY ImageStepsKeep
<1>3. ImageOK => MountFindsVolume
  BY ImageIsFound
<1>4. QED
  BY <1>1, <1>2, <1>3, PTL DEF Spec
=============================================================================

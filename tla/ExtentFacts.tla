---------------------------- MODULE ExtentFacts ----------------------------
(***************************************************************************)
(* Facts about Extents, for any volume: the extents that are allocated are *)
(* of free clusters and apart, and an extent added to a map adds its       *)
(* clusters to those of the map and nothing else.  First, what the proofs  *)
(* of several components need of least numbers, loops and multiples.       *)
(***************************************************************************)
EXTENDS Extents, NaturalsInduction, WellFoundedInduction, FiniteSetTheorems,
        SequenceTheorems, TLAPS

-----------------------------------------------------------------------------
(* Least numbers, loops and multiples.                                     *)

Below == OpToRel(<, Nat)

\* Below is the order of the naturals, as a set of pairs.
LEMMA BelowIsLess == Below = {pair \in Nat \X Nat : pair[1] < pair[2]}
BY DEF OpToRel, Below

\* A set of naturals that is not empty has a least member.
LEMMA LeastNatural ==
    ASSUME NEW T, T \subseteq Nat, T # {}
    PROVE  \E least \in T : \A n \in T : least <= n
<1>1. IsWellFoundedOn(Below, Nat)
  BY NatLessThanWellFounded DEF Below
<1>2. \E x \in T : \A y \in T : ~(<<y, x>> \in Below)
  BY <1>1, WFMin
<1>3. \A x, y \in Nat : y < x => <<y, x>> \in Below
  BY BelowIsLess
<1>4. PICK x \in T : \A y \in T : ~(<<y, x>> \in Below)
  BY <1>2
<1>5. \A y \in T : ~(y < x)
  BY <1>3, <1>4
<1>6. \A y \in T : x <= y
  BY <1>5
<1>7. QED
  BY <1>6

\* Induction over the numbers up to a bound, as a statement about sets.
LEMMA InductionUpTo ==
    ASSUME NEW bound \in Nat, NEW T, T \subseteq 0 .. bound, 0 \in T,
           \A k \in 1 .. bound : k - 1 \in T => k \in T
    PROVE  T = 0 .. bound
<1> DEFINE U == 0 .. bound \ T
<1>1. SUFFICES ASSUME U # {} PROVE FALSE
  OBVIOUS
<1>2. PICK least \in U : \A n \in U : least <= n
  BY <1>1, LeastNatural, U \subseteq Nat
<1>3. least \in 1 .. bound /\ least - 1 \in 0 .. bound
  BY <1>2
<1>4. least - 1 \notin U
  BY <1>2, <1>3
<1>5. QED
  BY <1>2, <1>3, <1>4

\* A step taken m times, from x on: what a walk along links computes.
LEMMA IterationExists ==
    ASSUME NEW m \in Nat, NEW S, NEW x \in S, NEW step \in [S -> S]
    PROVE  \E f \in [0 .. m -> S] : f[0] = x /\ \A k \in 1 .. m : f[k] = step[f[k - 1]]
<1> DEFINE Walk(n, f) == f[0] = x /\ \A k \in 1 .. n : f[k] = step[f[k - 1]]
           T == {n \in 0 .. m : \E f \in [0 .. n -> S] : Walk(n, f)}
<1>1. 0 \in T
  <2> DEFINE f == [k \in 0 .. 0 |-> x]
  <2>1. f \in [0 .. 0 -> S] /\ f[0] = x
    OBVIOUS
  <2>2. \A k \in 1 .. 0 : FALSE
    OBVIOUS
  <2>3. Walk(0, f)
    BY <2>1, <2>2
  <2>4. 0 \in 0 .. m
    OBVIOUS
  <2> HIDE DEF f, Walk
  <2>5. QED
    BY <2>1, <2>3, <2>4
<1>2. ASSUME NEW n \in 1 .. m, n - 1 \in T
      PROVE  n \in T
  <2>1. PICK f \in [0 .. n - 1 -> S] : Walk(n - 1, f)
    BY <1>2
  <2> DEFINE g == [k \in 0 .. n |-> IF k = n THEN step[f[n - 1]] ELSE f[k]]
  <2>2. \A k \in 0 .. n : k # n => k \in 0 .. n - 1
    OBVIOUS
  <2>3. n - 1 \in 0 .. n - 1
    OBVIOUS
  <2>4. g \in [0 .. n -> S]
    BY <2>2, <2>3
  <2>5. g[0] = x
    BY <2>1
  <2>6. \A k \in 1 .. n : g[k] = step[g[k - 1]]
    <3>1. TAKE k \in 1 .. n
    <3>2. k - 1 \in 0 .. n /\ k - 1 # n /\ k \in 0 .. n
      OBVIOUS
    <3>3. g[k - 1] = f[k - 1]
      BY <3>2
    <3>4. CASE k = n
      BY <3>2, <3>3, <3>4
    <3>5. CASE k # n
      <4>1. k \in 1 .. n - 1 /\ g[k] = f[k]
        BY <3>2, <3>5
      <4>2. QED
        BY <2>1, <3>3, <4>1
    <3>6. QED
      BY <3>4, <3>5
  <2>7. QED
    BY <2>4, <2>5, <2>6, SMTT(30)
<1>3. T = 0 .. m
  <2> HIDE DEF Walk
  <2>1. QED
    BY <1>1, <1>2, InductionUpTo
<1>4. m \in T
  BY <1>3
<1>5. QED
  BY <1>4

\* Multiples of a unit keep the order of what they are multiples by.
LEMMA ProductsAreOrdered ==
    ASSUME NEW a \in Int, NEW b \in Int, NEW unit \in Nat \ {0}
    PROVE  /\ a * unit < b * unit <=> a < b
           /\ a * unit <= b * unit <=> a <= b
           /\ a < b => a * unit + unit <= b * unit
OBVIOUS

-----------------------------------------------------------------------------
(* Allocating.                                                             *)

\* An extent of the volume, all its clusters.
GoodExtent == {e \in Extent : ClustersOf(e) \subseteq Clusters}

\* The least and the greatest of a set of naturals are in it.
LEMMA MinInSet ==
  ASSUME NEW T, T \subseteq Nat, T # {}
  PROVE  Min(T) \in T /\ \A n \in T : Min(T) <= n
BY LeastNatural DEF Min

\* The greatest, if there is a bound.
LEMMA MaxInSet ==
  ASSUME NEW m \in Nat, NEW T, T \subseteq 0 .. m, T # {}
  PROVE  Max(T) \in T /\ \A n \in T : n <= Max(T)
<1> DEFINE U == {m - n : n \in T}
<1>1. U \subseteq Nat /\ U # {}
  <2>1. \A n \in T : m - n \in Nat
    OBVIOUS
  <2>2. PICK n \in T : TRUE
    OBVIOUS
  <2>3. m - n \in U
    OBVIOUS
  <2>4. QED
    BY <2>1, <2>3
<1>2. PICK least \in U : \A u \in U : least <= u
  BY <1>1, LeastNatural
<1>3. PICK x \in T : least = m - x
  BY <1>2
<1>4. \A n \in T : n <= x
  <2>1. TAKE n \in T
  <2>2. m - x <= m - n
    BY <1>2, <1>3
  <2>3. n \in 0 .. m /\ x \in 0 .. m
    OBVIOUS
  <2>4. QED
    BY <2>2, <2>3
<1>5. QED
  BY <1>3, <1>4 DEF Max

\* The clusters of an extent are as many as it says.
LEMMA SpanSize ==
  ASSUME NEW start \in Nat, NEW count \in Nat
  PROVE  IsFiniteSet(Span(start, count)) /\ Cardinality(Span(start, count)) = count
<1>1. start \in Int /\ start + count - 1 \in Int
  OBVIOUS
<1>2. /\ IsFiniteSet(start .. start + count - 1)
      /\ Cardinality(start .. start + count - 1) =
            IF start > start + count - 1 THEN 0 ELSE (start + count - 1) - start + 1
  BY <1>1, FS_Interval
<1>3. QED
  BY <1>2 DEF Span

\* An extent that is found is free: the request was cut to a run there is.
LEMMA FoundIsFree ==
  ASSUME NEW left, left \subseteq Clusters, NEW missing \in Nat,
         FindFree(left, OneRun(left, missing)) \in Extent
  PROVE  ClustersOf(FindFree(left, OneRun(left, missing))) \subseteq left
<1> DEFINE runs == {k \in 0 .. Cardinality(left) : k = 0 \/ RunStarts(left, k) # {}}
           largest == LargestFreeRun(left)
           count == OneRun(left, missing)
<1>1. Cardinality(left) \in Nat /\ left \subseteq Nat
  BY ClustersAreNumbers, FS_Subset, FS_CardinalityType
<1>2. runs \subseteq 0 .. Cardinality(left) /\ 0 \in runs
  BY <1>1
<1>3. largest \in runs
  BY <1>1, <1>2, MaxInSet DEF LargestFreeRun
<1>4. {missing, largest} \subseteq Nat
  BY <1>1, <1>3
<1>5. count \in {missing, largest} /\ count <= largest
  <2>1. {missing, largest} # {}
    OBVIOUS
  <2>2. Min({missing, largest}) \in {missing, largest} /\ Min({missing, largest}) <= largest
    BY <1>4, <2>1, MinInSet
  <2>3. QED
    BY <2>2 DEF OneRun
<1>6. count \in 1 .. Cardinality(Clusters)
  BY DEF Extent, FindFree
<1>7. RunStarts(left, largest) # {}
  BY <1>1, <1>3, <1>5, <1>6
<1>8. RunStarts(left, largest) \subseteq RunStarts(left, count)
  <2>1. SUFFICES ASSUME NEW c \in RunStarts(left, largest) PROVE c \in RunStarts(left, count)
    OBVIOUS
  <2>2. c \in left /\ Span(c, largest) \subseteq left
    BY <2>1 DEF RunStarts
  <2>3. c \in Nat /\ largest \in Nat /\ count \in Nat /\ count <= largest
    BY <1>1, <1>3, <1>4, <1>5, <2>2
  <2>4. \A d \in Span(c, count) : d \in Span(c, largest)
    BY <2>3 DEF Span
  <2>5. QED
    BY <2>2, <2>4 DEF RunStarts
<1>9. Min(RunStarts(left, count)) \in RunStarts(left, count)
  <2>1. RunStarts(left, count) \subseteq Nat
    BY <1>1 DEF RunStarts
  <2>2. QED
    BY <1>7, <1>8, <2>1, MinInSet
<1>10. QED
  BY <1>9 DEF RunStarts, FindFree, ClustersOf

\* An extent has one cluster or more.
LEMMA ExtentsAreRuns ==
  /\ Cardinality(Clusters) \in Nat
  /\ \A e \in Extent : e.start \in Clusters /\ e.start \in Nat /\ e.count \in Nat \ {0}
<1>1. Cardinality(Clusters) \in Nat
  BY ClustersAreNumbers, FS_CardinalityType
<1>2. \A e \in Extent : e.start \in Clusters /\ e.count \in 1 .. Cardinality(Clusters)
  BY DEF Extent
<1>3. Clusters \subseteq Nat
  BY ClustersAreNumbers
<1>4. \A m \in Nat : \A c \in 1 .. m : c \in Nat \ {0}
  OBVIOUS
<1>5. \A e \in Extent : e.count \in Nat \ {0}
  BY <1>1, <1>2, <1>4
<1>6. QED
  BY <1>1, <1>2, <1>3, <1>5

\* The clusters of a sequence of extents are finitely many.
LEMMA TakenFinite ==
  ASSUME NEW exts \in Seq(Extent), NEW i \in DOMAIN exts
  PROVE  IsFiniteSet(TakenBefore(exts, i))
<1> DEFINE J == 1 .. i - 1
           spans == {ClustersOf(exts[j]) : j \in J}
<1>1. i \in Nat /\ J \subseteq DOMAIN exts
  OBVIOUS
<1>2. IsFiniteSet(J)
  BY <1>1, FS_Interval, 1 \in Int, i - 1 \in Int
<1>3. IsFiniteSet(spans)
  <2> DEFINE span == [j \in J |-> ClustersOf(exts[j])]
  <2>1. span \in Surjection(J, spans)
    BY DEF Surjection
  <2>2. QED
    BY <1>2, <2>1, FS_Surjection
<1>4. \A j \in J : IsFiniteSet(ClustersOf(exts[j]))
  <2>1. TAKE j \in J
  <2>2. exts[j] \in Extent
    BY <1>1
  <2>3. exts[j].start \in Nat /\ exts[j].count \in Nat
    BY <2>2, ExtentsAreRuns
  <2>4. QED
    BY <2>3, SpanSize DEF ClustersOf
<1>5. \A span \in spans : IsFiniteSet(span)
  BY <1>4
<1>6. QED
  BY <1>3, <1>5, FS_UNION DEF TakenBefore

\* What allocateExtents returns: at least one extent, all of free clusters, no
\* two of the same.
LEMMA AllocationIsFree ==
  ASSUME NEW bits, bits \subseteq Clusters, NEW k \in Nat \ {0}, NEW exts,
         IsAllocation(bits, k, exts)
  PROVE  /\ exts \in Seq(GoodExtent) /\ exts # <<>>
         /\ \A i \in DOMAIN exts :
               /\ ClustersOf(exts[i]) \subseteq bits
               /\ \A j \in DOMAIN exts : i # j => ClustersOf(exts[i]) \cap ClustersOf(exts[j]) = {}
<1>1. exts \in Seq(Extent) /\ Cardinality(Taken(exts)) = k
  BY DEF IsAllocation
<1>2. ASSUME NEW i \in DOMAIN exts
      PROVE  ClustersOf(exts[i]) \subseteq bits \ TakenBefore(exts, i)
  <2> DEFINE left == bits \ TakenBefore(exts, i)
             missing == k - Cardinality(TakenBefore(exts, i))
  <2>1. missing > 0 /\ exts[i] = FindFree(left, OneRun(left, missing))
    BY DEF IsAllocation
  <2>2. missing \in Nat
    BY <1>1, <2>1, TakenFinite, FS_CardinalityType
  <2>3. exts[i] \in Extent /\ left \subseteq Clusters
    BY <1>1
  <2>4. QED
    BY <2>1, <2>2, <2>3, FoundIsFree
<1>3. ASSUME NEW i \in DOMAIN exts, NEW j \in DOMAIN exts, j < i
      PROVE  ClustersOf(exts[i]) \cap ClustersOf(exts[j]) = {}
  <2>1. j \in 1 .. i - 1
    BY <1>1, <1>3
  <2>2. ClustersOf(exts[j]) \subseteq TakenBefore(exts, i)
    BY <2>1 DEF TakenBefore
  <2>3. QED
    BY <1>2, <2>2
<1>4. exts \in Seq(GoodExtent)
  <2>1. \A i \in 1 .. Len(exts) : exts[i] \in GoodExtent
    BY <1>1, <1>2 DEF GoodExtent
  <2>2. QED
    BY <1>1, <2>1
<1>5. exts # <<>>
  <2>1. SUFFICES ASSUME exts = <<>> PROVE FALSE
    OBVIOUS
  <2>2. Taken(exts) = {}
    BY <2>1 DEF Taken, TakenBefore
  <2>3. QED
    BY <1>1, <2>2, FS_EmptySet
<1>6. \A i, j \in DOMAIN exts : i # j => ClustersOf(exts[i]) \cap ClustersOf(exts[j]) = {}
  <2>1. TAKE i, j \in DOMAIN exts
  <2>2. i \in Nat /\ j \in Nat
    BY <1>1
  <2>3. CASE j < i
    BY <1>3, <2>3
  <2>4. CASE i < j
    BY <1>3, <2>4
  <2>5. QED
    BY <2>2, <2>3, <2>4
<1>7. QED
  BY <1>2, <1>4, <1>5, <1>6

-----------------------------------------------------------------------------
(* Growing a map.                                                          *)

\* addExtent adds the clusters of the extent to those of the last one, or as an
\* extent of their own.
LEMMA AddExtentGrows ==
  ASSUME NEW map \in Seq(GoodExtent), NEW e \in GoodExtent
  PROVE  LET grown == AddExtent(map, e)
         IN  /\ grown \in Seq(GoodExtent)
             /\ \A i \in DOMAIN grown :
                   ClustersOf(grown[i]) \subseteq
                      (IF i \in DOMAIN map THEN ClustersOf(map[i]) ELSE {})
                      \cup (IF i = Len(grown) THEN ClustersOf(e) ELSE {})
<1> DEFINE grown == AddExtent(map, e)
           n == Len(map)
           last == [map[n] EXCEPT !.count = @ + e.count]
<1>1. n \in Nat
  OBVIOUS
<1>2. \A x \in GoodExtent : /\ x \in Extent /\ x.start \in Nat /\ x.count \in Nat \ {0}
                            /\ x.start \in Clusters /\ ClustersOf(x) \subseteq Clusters
  BY ExtentsAreRuns DEF GoodExtent
<1>3. CASE n > 0 /\ map[n].start + map[n].count = e.start
  <2>1. grown = [map EXCEPT ![n] = last]
    BY <1>3 DEF AddExtent
  <2>2. map[n] \in GoodExtent
    BY <1>1, <1>3
  <2>3. last.start = map[n].start /\ last.count = map[n].count + e.count
    BY <1>2, <2>2 DEF Extent
  <2>4. ClustersOf(last) = ClustersOf(map[n]) \cup ClustersOf(e)
    <3>1. /\ map[n].start \in Nat /\ map[n].count \in Nat \ {0}
          /\ e.start \in Nat /\ e.count \in Nat \ {0} /\ map[n].start + map[n].count = e.start
      BY <1>2, <1>3, <2>2
    <3>2. \A s, c, d \in Nat : Span(s, c) \cup Span(s + c, d) = Span(s, c + d)
      BY DEF Span
    <3>3. QED
      BY <2>3, <3>1, <3>2 DEF ClustersOf
  <2>5. last \in GoodExtent
    <3>1. ClustersOf(last) \subseteq Clusters
      BY <1>2, <2>2, <2>4
    <3>2. last.count \in Nat \ {0} /\ last.start \in Nat
      BY <1>2, <2>2, <2>3
    <3>3. Cardinality(ClustersOf(last)) = last.count
      BY <3>2, SpanSize DEF ClustersOf
    <3>4. last.count <= Cardinality(Clusters) /\ Cardinality(Clusters) \in Nat
      BY <3>1, <3>3, ClustersAreNumbers, FS_Subset, FS_CardinalityType
    <3>5. last.count \in 1 .. Cardinality(Clusters)
      BY <3>2, <3>4
    <3>6. last = [start |-> map[n].start, count |-> map[n].count + e.count]
      BY <1>2, <2>2, SMTT(30) DEF Extent
    <3>7. last \in Extent
      BY <1>2, <2>2, <2>3, <3>5, <3>6 DEF Extent
    <3>8. QED
      BY <3>1, <3>7 DEF GoodExtent
  <2>6. grown \in Seq(GoodExtent) /\ Len(grown) = n
    BY <1>1, <1>3, <2>1, <2>5
  <2>7. \A i \in DOMAIN grown : grown[i] = IF i = n THEN last ELSE map[i]
    BY <1>1, <1>3, <2>1
  <2>8. QED
    BY <1>1, <2>1, <2>4, <2>6, <2>7
<1>4. CASE ~(n > 0 /\ map[n].start + map[n].count = e.start)
  <2>1. grown = Append(map, e)
    BY <1>4 DEF AddExtent
  <2>2. grown \in Seq(GoodExtent) /\ Len(grown) = n + 1
    BY <1>1, <2>1
  <2>3. \A i \in DOMAIN grown : grown[i] = IF i = n + 1 THEN e ELSE map[i]
    BY <1>1, <2>1
  <2>4. DOMAIN grown = 1 .. n + 1 /\ DOMAIN map = 1 .. n
    BY <1>1, <2>2
  <2>5. ASSUME NEW i \in DOMAIN grown
        PROVE  ClustersOf(grown[i]) \subseteq
                      (IF i \in DOMAIN map THEN ClustersOf(map[i]) ELSE {})
                      \cup (IF i = Len(grown) THEN ClustersOf(e) ELSE {})
    <3>1. CASE i = n + 1
      BY <2>2, <2>3, <3>1
    <3>2. CASE i # n + 1
      <4>1. i \in DOMAIN map
        BY <1>1, <2>4, <3>2
      <4>2. QED
        BY <2>3, <3>2, <4>1
    <3>3. QED
      BY <3>1, <3>2
  <2>6. QED
    BY <2>2, <2>5
<1>5. QED
  BY <1>3, <1>4

=============================================================================

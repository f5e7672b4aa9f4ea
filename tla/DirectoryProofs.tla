-------------------------- MODULE DirectoryProofs ---------------------------
(***************************************************************************)
(* Proofs about Directory, for any directories, files, names, versions,    *)
(* clusters and sizes of entries, and any writes that fail: no two         *)
(* directories own a block, a directory can be read but for the first      *)
(* writes after it moved, its entries stay in order until a rewrite is     *)
(* left half-way, what is left of it when an entry goes fits into the      *)
(* blocks it has, and the file a name is of is there.  A file whose        *)
(* deletion failed owns nothing and is named by nothing, until a write of  *)
(* a directory is left half-way too.                                       *)
(***************************************************************************)
EXTENDS Directory, ExtentFacts

-----------------------------------------------------------------------------
(* Loops and orders.                                                       *)

\* A walk of M goes on, from where it does not stop, to a place of a lower rank.
GoesDown(M, N, rank, Stop, next) ==
    /\ N \in Nat
    /\ \A l \in M : rank[l] \in 0 .. N
    /\ \A l \in M : ~(l \in Stop) => next[l] \in M /\ rank[next[l]] < rank[l]

\* A step of its own for each number, one after another: what a loop computes.
IsLoop(f, m, S, x, step) ==
    f \in [0 .. m -> S] /\ f[0] = x /\ \A k \in 1 .. m : f[k] = step[k][f[k - 1]]

\* There is a function that does.
LEMMA LoopExists ==
    ASSUME NEW m, NEW S, NEW x, NEW step, m \in Nat, x \in S, step \in [1 .. m -> [S -> S]]
    PROVE  \E f : IsLoop(f, m, S, x, step)
<1> DEFINE Walk(n, f) == f[0] = x /\ \A k \in 1 .. n : f[k] = step[k][f[k - 1]]
           T == {n \in 0 .. m : \E f \in [0 .. n -> S] : Walk(n, f)}
<1>1. 0 \in T
  <2> DEFINE f == [j \in 0 .. 0 |-> x]
  <2>1. f \in [0 .. 0 -> S] /\ Walk(0, f)
    OBVIOUS
  <2> HIDE DEF f, Walk
  <2>2. QED
    BY <2>1
<1>2. ASSUME NEW n \in 1 .. m, n - 1 \in T
      PROVE  n \in T
  <2>1. PICK f \in [0 .. n - 1 -> S] : Walk(n - 1, f)
    BY <1>2
  <2> DEFINE g == [j \in 0 .. n |-> IF j = n THEN step[n][f[n - 1]] ELSE f[j]]
  <2>2. f[n - 1] \in S /\ step[n] \in [S -> S]
    BY <2>1
  <2>3. g \in [0 .. n -> S]
    BY <2>1, <2>2
  <2>4. ASSUME NEW k \in 1 .. n
        PROVE  g[k] = step[k][g[k - 1]]
    <3>1. g[k - 1] = f[k - 1]
      OBVIOUS
    <3>2. CASE k = n
      <4>1. g[k] = step[n][f[n - 1]]
        BY <3>2
      <4>2. QED
        BY <3>1, <3>2, <4>1, Zenon
    <3>3. CASE k # n
      <4>1. g[k] = f[k] /\ k \in 1 .. n - 1
        BY <3>3
      <4>2. QED
        BY <2>1, <3>1, <4>1
    <3>4. QED
      BY <3>2, <3>3
  <2>5. g[0] = x
    BY <2>1
  <2> HIDE DEF g
  <2>6. Walk(n, g)
    BY <2>4, <2>5
  <2> HIDE DEF Walk
  <2>7. QED
    BY <2>3, <2>6
<1>3. T = 0 .. m
  BY <1>1, <1>2, InductionUpTo
<1>4. m \in T
  BY <1>3
<1>5. QED
  BY <1>4 DEF IsLoop

\* A walk down that puts a part before what it finds further down.
IsJoining(f, D, Stop, head, next) == f = [l \in D |-> IF l \in Stop THEN <<>> ELSE head[l] \o f[next[l]]]

\* There is a function that does.
LEMMA JoinExists ==
    ASSUME NEW D, NEW N, NEW rank, NEW Stop, NEW head, NEW next, GoesDown(D, N, rank, Stop, next)
    PROVE  \E f : IsJoining(f, D, Stop, head, next)
<1> USE DEF GoesDown, IsJoining
<1> DEFINE Joined(l, rest) == head[l] \o rest
<1>0. SUFFICES \E f : f = [l \in D |-> IF l \in Stop THEN <<>> ELSE Joined(l, f[next[l]])]
  OBVIOUS
<1> HIDE DEF Joined
<1> DEFINE Solves(f, k) == \A l \in D : rank[l] < k => f[l] = (IF l \in Stop THEN <<>> ELSE Joined(l, f[next[l]]))
           T == {k \in 0 .. N + 1 : \E f : Solves(f, k)}
<1>1. 0 \in T
  <2>1. Solves([l \in D |-> 0], 0)
    OBVIOUS
  <2> HIDE DEF Solves
  <2>2. \E f : Solves(f, 0)
    BY <2>1, Zenon
  <2>3. QED
    BY <2>2
<1>2. ASSUME NEW k \in 1 .. N + 1, k - 1 \in T
      PROVE  k \in T
  <2>1. PICK f : Solves(f, k - 1)
    BY <1>2
  <2> DEFINE g == [l \in D |-> IF rank[l] < k - 1 THEN f[l]
                               ELSE IF l \in Stop THEN <<>> ELSE Joined(l, f[next[l]])]
  <2>2. ASSUME NEW l \in D, rank[l] < k
        PROVE  g[l] = (IF l \in Stop THEN <<>> ELSE Joined(l, g[next[l]]))
    <3>1. g[l] = (IF l \in Stop THEN <<>> ELSE Joined(l, f[next[l]]))
      BY <2>1
    <3>2. CASE l \in Stop
      BY <3>1, <3>2
    <3>3. CASE ~(l \in Stop)
      <4>1. next[l] \in D /\ rank[next[l]] < k - 1
        BY <2>2, <3>3
      <4>2. g[next[l]] = f[next[l]]
        BY <4>1
      <4>3. QED
        BY <3>1, <3>3, <4>2
    <3>4. QED
      BY <3>2, <3>3
  <2> HIDE DEF g
  <2>3. Solves(g, k)
    BY <2>2
  <2> HIDE DEF Solves
  <2>4. \E x : Solves(x, k)
    BY <2>3, Zenon
  <2>5. QED
    BY <2>4
<1>3. T = 0 .. N + 1
  BY <1>1, <1>2, InductionUpTo, N + 1 \in Nat
<1>4. PICK f : Solves(f, N + 1)
  BY <1>3, N + 1 \in 0 .. N + 1
<1> DEFINE g == [l \in D |-> f[l]]
<1>5. ASSUME NEW l \in D
      PROVE  f[l] = (IF l \in Stop THEN <<>> ELSE Joined(l, g[next[l]]))
  BY <1>4
<1>6. g = [l \in D |-> IF l \in Stop THEN <<>> ELSE Joined(l, g[next[l]])]
  BY <1>5
<1> HIDE DEF g
<1>7. QED
  BY <1>6, Zenon

\* The sizes of records and blocks.
LEMMA SizeNumbers ==
    /\ MaxVersion \in Nat \ {0} /\ NameSize \in Nat \ {0} /\ EntrySize \in Nat \ {0} /\ BlockRoom \in Nat \ {0}
    /\ NameSize + EntrySize <= BlockRoom
    /\ Names \subseteq Nat /\ VersionLimit \in Nat /\ MaxFailures \in Nat /\ MaxCalls \in Nat
    /\ 0 \in Clusters
BY SizesFit

\* Is entry j before entry i in the order?
Earlier(L, j, i) == Precedes(L[j], L[i]) \/ (j < i /\ ~Precedes(L[i], L[j]))

\* It is a total order of the places.
LEMMA EarlierOrders ==
    ASSUME NEW L \in Seq(Entry), NEW i \in 1 .. Len(L), NEW j \in 1 .. Len(L), NEW k \in 1 .. Len(L)
    PROVE  /\ ~Earlier(L, i, i)
           /\ i # j => Earlier(L, i, j) \/ Earlier(L, j, i)
           /\ Earlier(L, i, j) => ~Earlier(L, j, i)
           /\ Earlier(L, i, j) /\ Earlier(L, j, k) => Earlier(L, i, k)
<1>1. L[i] \in Entry /\ L[j] \in Entry /\ L[k] \in Entry
  BY ElementOfSeq
<1>2. PICK a \in Nat, b \in Nat, c \in Nat, u \in Nat, v \in Nat, w \in Nat :
        /\ a = L[i].name /\ b = L[j].name /\ c = L[k].name
        /\ u = L[i].version /\ v = L[j].version /\ w = L[k].version
  <2>1. Names \subseteq Nat /\ Versions \subseteq Nat
    BY SizeNumbers DEF Versions
  <2>2. \A e \in Entry : e.name \in Nat /\ e.version \in Nat
    BY <2>1 DEF Entry
  <2>3. QED
    BY <1>1, <2>2
<1>3. i \in Nat /\ j \in Nat /\ k \in Nat
  OBVIOUS
<1> DEFINE ij == a < b \/ (a = b /\ u > v)
           ji == b < a \/ (b = a /\ v > u)
           jk == b < c \/ (b = c /\ v > w)
           kj == c < b \/ (c = b /\ w > v)
           ik == a < c \/ (a = c /\ u > w)
           ki == c < a \/ (c = a /\ w > u)
<1>4. /\ Earlier(L, i, j) <=> (ij \/ (i < j /\ ~ji))
      /\ Earlier(L, j, i) <=> (ji \/ (j < i /\ ~ij))
      /\ Earlier(L, j, k) <=> (jk \/ (j < k /\ ~kj))
      /\ Earlier(L, i, k) <=> (ik \/ (i < k /\ ~ki))
      /\ ~Earlier(L, i, i)
  BY <1>2, <1>3 DEF Earlier, Precedes
<1>5. i # j => (ij \/ (i < j /\ ~ji)) \/ (ji \/ (j < i /\ ~ij))
  BY <1>3
<1>6. (ij \/ (i < j /\ ~ji)) => ~(ji \/ (j < i /\ ~ij))
  BY <1>3
<1>7. (ij \/ (i < j /\ ~ji)) /\ (jk \/ (j < k /\ ~kj)) => (ik \/ (i < k /\ ~ki))
  BY <1>3
<1>8. QED
  BY <1>4, <1>5, <1>6, <1>7

\* The places before one.
Before(L, i) == {j \in DOMAIN L : Earlier(L, j, i)}

\* An entry's place is its rank: each place is one entry's.
LEMMA PlacesAreRanks ==
    ASSUME NEW L \in Seq(Entry)
    PROVE  /\ \A i \in 1 .. Len(L) : PlaceIn(L, i) \in 1 .. Len(L)
           /\ \A i, j \in 1 .. Len(L) : Earlier(L, i, j) => PlaceIn(L, i) < PlaceIn(L, j)
           /\ \A i, j \in 1 .. Len(L) : PlaceIn(L, i) = PlaceIn(L, j) => i = j
           /\ \A k \in 1 .. Len(L) : \E i \in 1 .. Len(L) : PlaceIn(L, i) = k
<1> DEFINE n == Len(L)
           D == 1 .. n
<1>1. n \in Nat /\ DOMAIN L = D
  BY LenProperties
<1>2. \A i : PlaceIn(L, i) = Cardinality(Before(L, i)) + 1
  BY DEF PlaceIn, Before, Earlier
<1>3. IsFiniteSet(D) /\ Cardinality(D) = n
  BY <1>1, FS_Interval
<1>4. ASSUME NEW i \in D
      PROVE  /\ IsFiniteSet(Before(L, i)) /\ Cardinality(Before(L, i)) \in Nat
             /\ Cardinality(Before(L, i)) <= n - 1
  <2>1. Before(L, i) \in SUBSET (D \ {i})
    <3>1. i \notin Before(L, i)
      BY EarlierOrders DEF Before
    <3>2. QED
      BY <1>1, <3>1 DEF Before
  <2>2. IsFiniteSet(D \ {i}) /\ Cardinality(D \ {i}) = n - 1
    BY <1>3, FS_RemoveElement
  <2>3. QED
    BY <2>1, <2>2, FS_Subset, FS_CardinalityType
<1>5. ASSUME NEW i \in D, NEW j \in D, Earlier(L, i, j)
      PROVE  Cardinality(Before(L, i)) < Cardinality(Before(L, j))
  <2>1. i \notin Before(L, i)
    BY EarlierOrders DEF Before
  <2>2. Before(L, i) \cup {i} \in SUBSET Before(L, j)
    <3>1. \A x \in Before(L, i) : x \in Before(L, j)
      BY <1>1, <1>5, EarlierOrders DEF Before
    <3>2. i \in Before(L, j)
      BY <1>1, <1>5 DEF Before
    <3>3. QED
      BY <3>1, <3>2
  <2>3. IsFiniteSet(Before(L, i)) /\ IsFiniteSet(Before(L, j))
        /\ Cardinality(Before(L, i)) \in Nat /\ Cardinality(Before(L, j)) \in Nat
    BY <1>4
  <2>4. Cardinality(Before(L, i) \cup {i}) = Cardinality(Before(L, i)) + 1
    BY <2>1, <2>3, FS_AddElement
  <2>5. Cardinality(Before(L, i) \cup {i}) <= Cardinality(Before(L, j))
    BY <2>2, <2>3, FS_Subset
  <2>6. QED
    BY <2>3, <2>4, <2>5
<1>6. \A i \in D : PlaceIn(L, i) \in D
  <2>1. ASSUME NEW i \in D PROVE PlaceIn(L, i) \in D
    <3>1. Cardinality(Before(L, i)) \in Nat /\ Cardinality(Before(L, i)) <= n - 1
      BY <1>4
    <3>2. QED
      BY <1>1, <1>2, <3>1
  <2>2. QED
    BY <2>1
<1>7. \A i, j \in D : Earlier(L, i, j) => PlaceIn(L, i) < PlaceIn(L, j)
  <2>1. ASSUME NEW i \in D, NEW j \in D, Earlier(L, i, j) PROVE PlaceIn(L, i) < PlaceIn(L, j)
    <3>1. Cardinality(Before(L, i)) \in Nat /\ Cardinality(Before(L, j)) \in Nat
      BY <1>4
    <3>2. Cardinality(Before(L, i)) < Cardinality(Before(L, j))
      BY <1>5, <2>1
    <3>3. QED
      BY <1>2, <3>1, <3>2
  <2>2. QED
    BY <2>1
<1>8. \A i, j \in D : PlaceIn(L, i) = PlaceIn(L, j) => i = j
  <2>1. ASSUME NEW i \in D, NEW j \in D, i # j PROVE PlaceIn(L, i) # PlaceIn(L, j)
    <3>1. Earlier(L, i, j) \/ Earlier(L, j, i)
      BY <2>1, EarlierOrders
    <3>2. PlaceIn(L, i) \in Nat /\ PlaceIn(L, j) \in Nat
      BY <1>6
    <3>3. QED
      BY <1>7, <3>1, <3>2
  <2>2. QED
    BY <2>1
<1>9. ASSUME NEW k \in D
      PROVE  \E i \in D : PlaceIn(L, i) = k
  <2> DEFINE f == [i \in D |-> PlaceIn(L, i)]
  <2>1. f \in Injection(D, D)
    BY <1>6, <1>8 DEF Injection, IsInjective
  <2>2. f \in Surjection(D, D)
    BY <1>3, <2>1, FS_Injection
  <2>3. \E i \in D : f[i] = k
    BY <2>2 DEF Surjection
  <2>4. QED
    BY <2>3
<1>10. QED
  BY <1>6, <1>7, <1>8, <1>9

\* Where the k-th entry of the order is.
SourceOf(L, k) == CHOOSE i \in DOMAIN L : PlaceIn(L, i) = k

\* Is each entry of the list before the next?
IsOrdered(L) == \A i, j \in 1 .. Len(L) : i < j => Precedes(L[i], L[j])

\* Has a list no two entries of one name and version?
IsDistinct(L) ==
    \A i, j \in 1 .. Len(L) : L[i].name = L[j].name /\ L[i].version = L[j].version => i = j

\* Sorting permutes.
LEMMA SortedPermutes ==
    ASSUME NEW L \in Seq(Entry)
    PROVE  /\ Sorted(L) \in Seq(Entry) /\ Len(Sorted(L)) = Len(L)
           /\ \A k \in 1 .. Len(L) : /\ SourceOf(L, k) \in 1 .. Len(L)
                                     /\ PlaceIn(L, SourceOf(L, k)) = k
                                     /\ Sorted(L)[k] = L[SourceOf(L, k)]
           /\ \A i \in 1 .. Len(L) : SourceOf(L, PlaceIn(L, i)) = i
           /\ ToSet(Sorted(L)) = ToSet(L)
<1>1. Len(L) \in Nat /\ DOMAIN L = 1 .. Len(L) /\ \A i \in 1 .. Len(L) : L[i] \in Entry
  BY LenProperties
<1>2. \A k \in 1 .. Len(L) : SourceOf(L, k) \in 1 .. Len(L) /\ PlaceIn(L, SourceOf(L, k)) = k
  BY <1>1, PlacesAreRanks DEF SourceOf
<1>3. Sorted(L) = [k \in 1 .. Len(L) |-> L[SourceOf(L, k)]]
  BY <1>1 DEF Sorted, SourceOf
<1>4. Sorted(L) \in Seq(Entry) /\ Len(Sorted(L)) = Len(L)
  <2>1. \A k \in 1 .. Len(L) : L[SourceOf(L, k)] \in Entry
    BY <1>1, <1>2
  <2>2. QED
    BY <1>1, <1>3, <2>1
<1>5. \A i \in 1 .. Len(L) : SourceOf(L, PlaceIn(L, i)) = i
  BY <1>2, PlacesAreRanks
<1>6. ToSet(Sorted(L)) = ToSet(L)
  <2>1. \A k \in 1 .. Len(L) : Sorted(L)[k] = L[SourceOf(L, k)]
    BY <1>3
  <2>2. \A k \in 1 .. Len(L) : \E i \in 1 .. Len(L) : Sorted(L)[k] = L[i]
    BY <1>2, <2>1
  <2>3. \A i \in 1 .. Len(L) : \E k \in 1 .. Len(L) : L[i] = Sorted(L)[k]
    BY <1>5, <2>1, PlacesAreRanks
  <2>4. DOMAIN Sorted(L) = 1 .. Len(L)
    BY <1>3
  <2>5. ToSet(Sorted(L)) = {Sorted(L)[k] : k \in 1 .. Len(L)} /\ ToSet(L) = {L[i] : i \in 1 .. Len(L)}
    BY <1>1, <2>4 DEF ToSet
  <2>6. QED
    BY <2>2, <2>3, <2>5, Zenon
<1>7. QED
  BY <1>2, <1>3, <1>4, <1>5, <1>6

\* Entries of distinct names or versions are in order once they are sorted, and a
\* list in order is its own sorted list.
LEMMA SortedOrders ==
    ASSUME NEW L \in Seq(Entry)
    PROVE  /\ IsDistinct(L) => IsOrdered(Sorted(L)) /\ IsDistinct(Sorted(L))
           /\ IsOrdered(L) => Sorted(L) = L /\ IsDistinct(L)
<1> DEFINE S == Sorted(L)
           n == Len(L)
<1>1. /\ S \in Seq(Entry) /\ Len(S) = n /\ n \in Nat
      /\ \A k \in 1 .. n : SourceOf(L, k) \in 1 .. n /\ PlaceIn(L, SourceOf(L, k)) = k /\ S[k] = L[SourceOf(L, k)]
      /\ \A i \in 1 .. n : SourceOf(L, PlaceIn(L, i)) = i
  BY SortedPermutes, LenProperties
<1>2. Names \subseteq Nat /\ Versions \subseteq Nat
  BY SizeNumbers DEF Versions
<1>3. \A e \in Entry : e.name \in Nat /\ e.version \in Nat
  BY <1>2 DEF Entry
<1>4. \A i \in 1 .. n : L[i].name \in Nat /\ L[i].version \in Nat
  BY <1>3
<1>5. ASSUME IsDistinct(L)
      PROVE  IsOrdered(S) /\ IsDistinct(S)
  <2>1. ASSUME NEW k \in 1 .. n, NEW m \in 1 .. n, k < m
        PROVE  Precedes(S[k], S[m])
    <3>1. PICK i \in 1 .. n, j \in 1 .. n : i = SourceOf(L, k) /\ j = SourceOf(L, m)
      BY <1>1
    <3>2. PlaceIn(L, i) = k /\ PlaceIn(L, j) = m /\ S[k] = L[i] /\ S[m] = L[j]
      BY <1>1, <3>1
    <3>3. i # j /\ ~Earlier(L, j, i)
      <4>1. Earlier(L, j, i) => PlaceIn(L, j) < PlaceIn(L, i)
        BY PlacesAreRanks, Zenon
      <4>2. QED
        BY <1>1, <2>1, <3>2, <4>1
    <3>4. ~Precedes(L[j], L[i])
      BY <3>3 DEF Earlier
    <3>5. L[i].name # L[j].name \/ L[i].version # L[j].version
      BY <1>5, <3>3 DEF IsDistinct
    <3>6. Precedes(L[i], L[j])
      BY <1>4, <3>4, <3>5 DEF Precedes
    <3>7. QED
      BY <3>2, <3>6
  <2>2. IsOrdered(S)
    BY <1>1, <2>1 DEF IsOrdered
  <2>3. IsDistinct(S)
    <3>1. ASSUME NEW k \in 1 .. n, NEW m \in 1 .. n, S[k].name = S[m].name, S[k].version = S[m].version
          PROVE  k = m
      <4>1. SourceOf(L, k) = SourceOf(L, m)
        BY <1>1, <1>5, <3>1 DEF IsDistinct
      <4>2. QED
        BY <1>1, <4>1
    <3>2. QED
      BY <1>1, <3>1 DEF IsDistinct
  <2>4. QED
    BY <2>2, <2>3
<1>6. ASSUME IsOrdered(L)
      PROVE  S = L /\ IsDistinct(L)
  <2>1. \A i, j \in 1 .. n : i < j => Earlier(L, i, j)
    BY <1>6 DEF IsOrdered, Earlier
  <2>2. \A i, j \in 1 .. n : i < j => PlaceIn(L, i) < PlaceIn(L, j)
    BY <2>1, PlacesAreRanks
  <2>3. \A i \in 1 .. n : PlaceIn(L, i) = i
    <3>1. ASSUME NEW i \in 1 .. n
          PROVE  Before(L, i) = 1 .. i - 1
      <4>1. \A j \in 1 .. n : Earlier(L, j, i) <=> j < i
        <5>1. ASSUME NEW j \in 1 .. n PROVE Earlier(L, j, i) <=> j < i
          <6>1. CASE j < i
            BY <2>1, <6>1
          <6>2. CASE j = i
            BY <6>2, EarlierOrders
          <6>3. CASE i < j
            BY <2>1, <6>3, EarlierOrders
          <6>4. QED
            BY <1>1, <6>1, <6>2, <6>3
        <5>2. QED
          BY <5>1
      <4>2. DOMAIN L = 1 .. n
        BY LenProperties
      <4>3. Before(L, i) = {j \in 1 .. n : j < i}
        BY <4>1, <4>2 DEF Before
      <4>4. QED
        BY <1>1, <4>3
    <3>2. ASSUME NEW i \in 1 .. n PROVE PlaceIn(L, i) = i
      <4>1. PlaceIn(L, i) = Cardinality(Before(L, i)) + 1
        BY DEF PlaceIn, Before, Earlier
      <4>2. Cardinality(1 .. i - 1) = i - 1
        BY <1>1, FS_Interval
      <4>3. QED
        BY <1>1, <3>1, <4>1, <4>2
    <3>3. QED
      BY <3>2
  <2>4. \A k \in 1 .. n : S[k] = L[k]
    BY <1>1, <2>3
  <2>5. S = L
    BY <1>1, <2>4, SeqEqual
  <2>6. \A i, j \in 1 .. n : i < j => L[i].name # L[j].name \/ L[i].version # L[j].version
    BY <1>4, <1>6 DEF IsOrdered, Precedes
  <2>7. IsDistinct(L)
    BY <1>1, <2>6 DEF IsDistinct
  <2>8. QED
    BY <2>5, <2>7
<1>7. QED
  BY <1>5, <1>6

-----------------------------------------------------------------------------
(* Packing.                                                                *)

\* A list that has no more entries, and no other, takes no more room.
LEMMA SizeGrows ==
    ASSUME NEW A \in Seq(Entry), NEW B \in Seq(Entry), ToSet(A) \subseteq ToSet(B), Len(A) <= Len(B)
    PROVE  Size(A) \in Nat /\ Size(B) \in Nat /\ Size(A) <= Size(B)
<1> DEFINE namesOf(L) == {e.name : e \in ToSet(L)}
<1>1. ASSUME NEW L \in Seq(Entry)
      PROVE  IsFiniteSet(namesOf(L)) /\ Cardinality(namesOf(L)) \in Nat
  <2> DEFINE D == 1 .. Len(L)
             f == [i \in D |-> L[i].name]
  <2>1. IsFiniteSet(D)
    BY LenProperties, FS_Interval
  <2>2. DOMAIN L = D
    BY LenProperties
  <2>3. f \in Surjection(D, namesOf(L))
    BY <2>2 DEF Surjection, ToSet
  <2>4. QED
    BY <2>1, <2>3, FS_Surjection, FS_CardinalityType
<1>2. namesOf(A) \subseteq namesOf(B)
  OBVIOUS
<1>3. Cardinality(namesOf(A)) <= Cardinality(namesOf(B))
  BY <1>1, <1>2, FS_Subset
<1>4. PICK a \in Nat, b \in Nat, m \in Nat, n \in Nat :
        /\ a = Cardinality(namesOf(A)) /\ b = Cardinality(namesOf(B)) /\ m = Len(A) /\ n = Len(B)
  <2>1. Cardinality(namesOf(A)) \in Nat /\ Cardinality(namesOf(B)) \in Nat
    BY <1>1
  <2>2. Len(A) \in Nat /\ Len(B) \in Nat
    BY LenProperties
  <2> HIDE DEF namesOf
  <2>3. QED
    BY <2>1, <2>2
<1>5. Size(A) = NameSize * a + EntrySize * m /\ Size(B) = NameSize * b + EntrySize * n
  BY <1>4 DEF Size
<1>6. a <= b /\ m <= n
  BY <1>3, <1>4
<1>7. PICK s \in Nat \ {0}, t \in Nat \ {0} : s = NameSize /\ t = EntrySize
  BY SizeNumbers
<1>8. s * a \in Nat /\ s * b \in Nat /\ s * a = a * s /\ s * b = b * s /\ a * s <= b * s
  BY <1>6, ProductsAreOrdered
<1>9. t * m \in Nat /\ t * n \in Nat /\ t * m = m * t /\ t * n = n * t /\ m * t <= n * t
  BY <1>6, ProductsAreOrdered
<1>10. QED
  BY ONLY <1>5, <1>7, <1>8, <1>9

\* One entry fits, and no entries do.
LEMMA OneFits ==
    /\ \A e \in Entry : Size(<<e>>) = NameSize + EntrySize
    /\ Size(<<>>) = 0
    /\ 0 <= BlockRoom
<1>1. ASSUME NEW e \in Entry
      PROVE  Size(<<e>>) = NameSize + EntrySize
  <2>1. ToSet(<<e>>) = {e} /\ Len(<<e>>) = 1
    BY DEF ToSet
  <2>2. {x.name : x \in ToSet(<<e>>)} = {e.name}
    BY <2>1
  <2>3. Cardinality({e.name}) = 1
    BY FS_Singleton
  <2>4. Size(<<e>>) = NameSize * 1 + EntrySize * 1
    BY <2>1, <2>2, <2>3 DEF Size
  <2>5. QED
    BY <2>4, SizeNumbers
<1>2. Size(<<>>) = 0
  <2>1. ToSet(<<>>) = {} /\ Len(<<>>) = 0
    BY DEF ToSet
  <2>2. {x.name : x \in ToSet(<<>>)} = {}
    BY <2>1
  <2>3. Cardinality({}) = 0
    BY FS_EmptySet
  <2>4. Size(<<>>) = NameSize * 0 + EntrySize * 0
    BY <2>1, <2>2, <2>3 DEF Size
  <2>5. QED
    BY <2>4, SizeNumbers
<1>3. QED
  BY <1>1, <1>2, SizeNumbers

\* A part of a list.
LEMMA Parts ==
    ASSUME NEW S \in Seq(Entry), NEW i \in 1 .. Len(S) + 1, NEW k \in i - 1 .. Len(S)
    PROVE  /\ SubSeq(S, i, k) \in Seq(Entry) /\ Len(SubSeq(S, i, k)) = k - i + 1
           /\ \A j \in 1 .. k - i + 1 : SubSeq(S, i, k)[j] = S[i + j - 1]
           /\ ToSet(SubSeq(S, i, k)) = {S[j] : j \in i .. k}
<1>1. /\ SubSeq(S, i, k) \in Seq(Entry) /\ Len(SubSeq(S, i, k)) = k - i + 1
      /\ \A j \in 1 .. k - i + 1 : SubSeq(S, i, k)[j] = S[i + j - 1]
  OBVIOUS
<1>2. ToSet(SubSeq(S, i, k)) = {S[j] : j \in i .. k}
  <2>1. DOMAIN SubSeq(S, i, k) = 1 .. k - i + 1
    BY <1>1
  <2>2. \A j \in 1 .. k - i + 1 : i + j - 1 \in i .. k
    OBVIOUS
  <2>3. \A j \in i .. k : j - i + 1 \in 1 .. k - i + 1 /\ SubSeq(S, i, k)[j - i + 1] = S[j]
    BY <1>1
  <2>4. ToSet(SubSeq(S, i, k)) = {SubSeq(S, i, k)[j] : j \in 1 .. k - i + 1}
    BY <2>1 DEF ToSet
  <2> DEFINE part == SubSeq(S, i, k)
             J == 1 .. k - i + 1
             K == i .. k
  <2>5. \A j \in J : \E m \in K : part[j] = S[m]
    BY <1>1, <2>2
  <2>6. \A m \in K : \E j \in J : part[j] = S[m]
    BY <2>3
  <2>7. ToSet(part) = {part[j] : j \in J}
    BY <2>4
  <2> HIDE DEF part, J, K
  <2>8. ToSet(part) = {S[m] : m \in K}
    BY <2>5, <2>6, <2>7
  <2>9. QED
    BY <2>8 DEF part, K
<1>3. QED
  BY <1>1, <1>2

\* The last entry that fits into a block with entry i and what is between them.
LastFitting(S, i) == Max(Fitting(S, i))

\* There is one.
LEMMA OneMoreFits ==
    ASSUME NEW S \in Seq(Entry), NEW i \in 1 .. Len(S)
    PROVE  /\ LastFitting(S, i) \in i .. Len(S)
           /\ Size(SubSeq(S, i, LastFitting(S, i))) <= BlockRoom
           /\ \A k \in i .. Len(S) : Size(SubSeq(S, i, k)) <= BlockRoom => k <= LastFitting(S, i)
<1>1. Len(S) \in Nat /\ Fitting(S, i) \subseteq 0 .. Len(S) /\ i \in i .. Len(S)
  BY LenProperties DEF Fitting
<1>2. i \in Fitting(S, i)
  <2>1. SubSeq(S, i, i) = <<S[i]>> /\ S[i] \in Entry
    <3>1. i \in 1 .. Len(S) + 1 /\ i \in i - 1 .. Len(S) /\ i - i + 1 = 1 /\ S[i] \in Entry
      OBVIOUS
    <3>2. /\ SubSeq(S, i, i) \in Seq(Entry) /\ Len(SubSeq(S, i, i)) = 1
          /\ \A j \in 1 .. 1 : SubSeq(S, i, i)[j] = S[i + j - 1]
      BY <3>1, Parts
    <3>3. i + 1 - 1 = i /\ 1 \in 1 .. 1
      OBVIOUS
    <3>4. SubSeq(S, i, i)[1] = S[i]
      BY <3>2, <3>3
    <3>5. PICK e \in Entry : e = S[i]
      BY <3>1
    <3>6. <<e>> \in Seq(Entry) /\ Len(<<e>>) = 1 /\ <<e>>[1] = e
      OBVIOUS
    <3>7. \A j \in 1 .. 1 : SubSeq(S, i, i)[j] = <<e>>[j]
      BY <3>4, <3>5, <3>6
    <3>8. SubSeq(S, i, i) = <<e>>
      BY <3>2, <3>6, <3>7, SeqEqual, Zenon
    <3>9. QED
      BY <3>5, <3>8
  <2>2. Size(<<S[i]>>) <= BlockRoom
    BY <2>1, OneFits, SizeNumbers
  <2>3. QED
    BY <1>1, <2>1, <2>2 DEF Fitting
<1>3. Max(Fitting(S, i)) \in Fitting(S, i) /\ \A k \in Fitting(S, i) : k <= Max(Fitting(S, i))
  BY <1>1, <1>2, MaxInSet
<1>4. QED
  BY <1>3 DEF LastFitting, Fitting

\* The blocks that entry i and those after it are packed into, for each i.
IsPacking(S, p) ==
    /\ p[Len(S) + 1] = <<>>
    /\ \A i \in 1 .. Len(S) :
          /\ LastFitting(S, i) + 1 \in i + 1 .. Len(S) + 1
          /\ p[i] = <<SubSeq(S, i, LastFitting(S, i))>> \o p[LastFitting(S, i) + 1]

\* Pack computes them.
LEMMA PackingExists ==
    ASSUME NEW L \in Seq(Entry), L # <<>>
    PROVE  \E p : IsPacking(Sorted(L), p) /\ Pack(L) = p[1]
<1> DEFINE S == Sorted(L)
           n == Len(S)
           D == 1 .. n + 1
           Stop == {n + 1}
           head == [i \in D |-> <<SubSeq(S, i, LastFitting(S, i))>>]
           next == [i \in D |-> LastFitting(S, i) + 1]
           rank == [i \in D |-> n + 1 - i]
           Packed(g) == [i \in D |-> IF i > n THEN <<>>
                                     ELSE <<SubSeq(S, i, LastFitting(S, i))>> \o g[LastFitting(S, i) + 1]]
           Joined(g) == [i \in D |-> IF i \in Stop THEN <<>> ELSE head[i] \o g[next[i]]]
           chosen == CHOOSE g : g = Packed(g)
<1>1. S \in Seq(Entry) /\ n \in Nat
  BY SortedPermutes, LenProperties
<1>2. \A i \in 1 .. n : LastFitting(S, i) \in i .. n
  BY <1>1, OneMoreFits
<1>3. \A i \in 1 .. n : i \in D /\ LastFitting(S, i) + 1 \in i + 1 .. n + 1 /\ LastFitting(S, i) + 1 \in D /\ ~(i \in Stop) /\ ~(i > n)
  BY <1>1, <1>2
<1>4. n + 1 \in D /\ n + 1 \in Stop /\ n + 1 > n
  BY <1>1
<1>5. GoesDown(D, n, rank, Stop, next)
  <2>1. \A i \in D : rank[i] \in 0 .. n
    BY <1>1
  <2>2. \A i \in D : ~(i \in Stop) => i \in 1 .. n
    BY <1>1
  <2>3. ASSUME NEW i \in D, ~(i \in Stop)
        PROVE  next[i] \in D /\ rank[next[i]] < rank[i]
    <3>1. i \in 1 .. n
      BY <2>2, <2>3
    <3>2. PICK x \in i + 1 .. n + 1 : x = LastFitting(S, i) + 1
      BY <1>3, <3>1
    <3>3. next[i] = x /\ x \in D
      BY <1>1, <2>3, <3>1, <3>2
    <3>4. rank[x] = n + 1 - x /\ rank[i] = n + 1 - i
      BY <3>3, <2>3
    <3>5. QED
      BY <1>1, <3>1, <3>2, <3>3, <3>4
  <2> HIDE DEF D, rank, Stop, next
  <2>4. QED
    BY <1>1, <2>1, <2>3, Zenon DEF GoesDown
<1>6. \E g : g = Joined(g)
  <2> HIDE DEF D, rank, Stop, next, head
  <2>1. \E g : IsJoining(g, D, Stop, head, next)
    BY <1>5, JoinExists, Zenon
  <2>2. QED
    BY <2>1, Zenon DEF IsJoining
<1>7. \A g : Joined(g) = Packed(g)
  <2>1. ASSUME NEW g
        PROVE  Joined(g) = Packed(g)
    <3>1. ASSUME NEW i \in D
          PROVE  (IF i \in Stop THEN <<>> ELSE head[i] \o g[next[i]])
                 = (IF i > n THEN <<>> ELSE <<SubSeq(S, i, LastFitting(S, i))>> \o g[LastFitting(S, i) + 1])
      <4>1. i \in Stop <=> i > n
        BY <1>1
      <4>2. head[i] = <<SubSeq(S, i, LastFitting(S, i))>> /\ next[i] = LastFitting(S, i) + 1
        OBVIOUS
      <4> HIDE DEF head, next, Stop, n, S
      <4>3. QED
        BY <4>1, <4>2, Zenon
    <3>2. QED
      BY <3>1, Zenon
  <2>2. QED
    BY <2>1
<1>8. chosen = Packed(chosen)
  <2> HIDE DEF Joined, Packed
  <2>1. \E g : g = Packed(g)
    BY <1>6, <1>7, Zenon
  <2>2. QED
    BY <2>1, Zenon
<1>9. Pack(L) = chosen[1]
  BY Zenon DEF Pack, LastFitting
<1> HIDE DEF chosen
<1>10. chosen[n + 1] = <<>>
  <2>1. Packed(chosen)[n + 1] = <<>>
    BY <1>4
  <2> HIDE DEF Packed
  <2>2. QED
    BY <1>8, <2>1
<1>11. \A i \in 1 .. n : chosen[i] = <<SubSeq(S, i, LastFitting(S, i))>> \o chosen[LastFitting(S, i) + 1]
  <2>1. ASSUME NEW i \in 1 .. n
        PROVE  chosen[i] = <<SubSeq(S, i, LastFitting(S, i))>> \o chosen[LastFitting(S, i) + 1]
    <3>1. Packed(chosen)[i] = <<SubSeq(S, i, LastFitting(S, i))>> \o chosen[LastFitting(S, i) + 1]
      BY <1>3, Zenon
    <3> HIDE DEF Packed
    <3>2. QED
      BY <1>8, <3>1, Zenon
  <2>2. QED
    BY <2>1
<1>12. IsPacking(S, chosen)
  BY <1>3, <1>10, <1>11 DEF IsPacking
<1>13. QED
  BY <1>9, <1>12

\* Blocks that hold the entries of S from i on, in order: block v up to bound[v].
IsCut(S, i, B, bound) ==
    /\ bound \in [0 .. Len(B) -> i - 1 .. Len(S)]
    /\ bound[0] = i - 1 /\ bound[Len(B)] = Len(S)
    /\ \A v \in 1 .. Len(B) : /\ bound[v - 1] <= bound[v]
                              /\ B[v] = SubSeq(S, bound[v - 1] + 1, bound[v])
                              /\ Size(B[v]) <= BlockRoom

\* A block more, before them.
LEMMA CutExtends ==
    ASSUME NEW S \in Seq(Entry), NEW i \in 1 .. Len(S), NEW j \in i + 1 .. Len(S) + 1,
           NEW B \in Seq(Seq(Entry)), NEW bound, IsCut(S, j, B, bound),
           Size(SubSeq(S, i, j - 1)) <= BlockRoom
    PROVE  /\ <<SubSeq(S, i, j - 1)>> \o B \in Seq(Seq(Entry))
           /\ Len(<<SubSeq(S, i, j - 1)>> \o B) = Len(B) + 1
           /\ \E more : IsCut(S, i, <<SubSeq(S, i, j - 1)>> \o B, more)
<1> DEFINE first == SubSeq(S, i, j - 1)
           C == <<first>> \o B
           m == Len(B)
           n == Len(S)
           more == [v \in 0 .. m + 1 |-> IF v = 0 THEN i - 1 ELSE bound[v - 1]]
<1>1. n \in Nat /\ m \in Nat /\ i \in Nat /\ j \in Nat
  BY LenProperties
<1>2. first \in Seq(Entry)
  BY Parts
<1>3. /\ bound \in [0 .. m -> j - 1 .. n] /\ bound[0] = j - 1 /\ bound[m] = n
      /\ \A v \in 1 .. m : /\ bound[v - 1] <= bound[v]
                           /\ B[v] = SubSeq(S, bound[v - 1] + 1, bound[v])
                           /\ Size(B[v]) <= BlockRoom
  BY DEF IsCut
<1> HIDE DEF first
<1>4. C \in Seq(Seq(Entry)) /\ Len(C) = m + 1 /\ C[1] = first /\ \A v \in 2 .. m + 1 : C[v] = B[v - 1]
  BY <1>1, <1>2
<1>5. more \in [0 .. m + 1 -> i - 1 .. n]
  <2>1. ASSUME NEW v \in 0 .. m + 1
        PROVE  (IF v = 0 THEN i - 1 ELSE bound[v - 1]) \in i - 1 .. n
    <3>1. CASE v = 0
      BY <1>1, <3>1
    <3>2. CASE v # 0
      <4>1. v - 1 \in 0 .. m
        BY <1>1, <3>2
      <4>2. bound[v - 1] \in j - 1 .. n
        BY <1>3, <4>1
      <4>3. QED
        BY <1>1, <3>2, <4>2
    <3>3. QED
      BY <3>1, <3>2
  <2>2. QED
    BY <2>1
<1>6. more[0] = i - 1 /\ more[m + 1] = n
  <2>1. 0 \in 0 .. m + 1 /\ m + 1 \in 0 .. m + 1 /\ m + 1 # 0 /\ m + 1 - 1 = m
    BY <1>1
  <2>2. QED
    BY <1>3, <2>1
<1>7. ASSUME NEW v \in 1 .. m + 1
      PROVE  /\ more[v - 1] <= more[v]
             /\ C[v] = SubSeq(S, more[v - 1] + 1, more[v])
             /\ Size(C[v]) <= BlockRoom
  <2>1. more[v] = bound[v - 1]
    BY <1>1
  <2>2. CASE v = 1
    <3>1. more[v - 1] = i - 1 /\ more[v] = j - 1
      BY <1>1, <1>3, <2>1, <2>2
    <3>2. i - 1 <= j - 1 /\ i - 1 + 1 = i
      BY <1>1
    <3>3. C[v] = first
      BY <1>4, <2>2
    <3>4. QED
      BY <3>1, <3>2, <3>3 DEF first
  <2>3. CASE v # 1
    <3>1. v - 1 \in 1 .. m /\ v \in 2 .. m + 1 /\ v - 1 \in 0 .. m + 1 /\ v - 1 # 0
      BY <1>1, <2>3
    <3>2. more[v - 1] = bound[v - 1 - 1] /\ C[v] = B[v - 1]
      BY <1>4, <3>1
    <3>3. QED
      BY <1>3, <2>1, <3>1, <3>2
  <2>4. QED
    BY <2>2, <2>3
<1> HIDE DEF more
<1>8. IsCut(S, i, C, more)
  BY <1>4, <1>5, <1>6, <1>7 DEF IsCut
<1> HIDE DEF C
<1>9. \E x : IsCut(S, i, C, x)
  BY <1>8, Zenon
<1>10. QED
  BY <1>4, <1>9 DEF C, first

\* What entries are packed into holds them, in order.
LEMMA PackingCuts ==
    ASSUME NEW S \in Seq(Entry), NEW p, IsPacking(S, p)
    PROVE  \A i \in 1 .. Len(S) + 1 : p[i] \in Seq(Seq(Entry)) /\ \E bound : IsCut(S, i, p[i], bound)
<1> DEFINE n == Len(S)
           Holds(i) == p[i] \in Seq(Seq(Entry)) /\ \E bound : IsCut(S, i, p[i], bound)
           T == {k \in 0 .. n : \A i \in n + 1 - k .. n + 1 : Holds(i)}
<1>1. n \in Nat
  BY LenProperties
<1>2. Holds(n + 1)
  <2> DEFINE bound == [v \in 0 .. 0 |-> n]
  <2>1. p[n + 1] = <<>> /\ Len(<<>>) = 0 /\ n + 1 - 1 = n
    BY <1>1 DEF IsPacking
  <2>2. bound \in [0 .. 0 -> n .. n] /\ bound[0] = n
    BY <1>1
  <2>3. \A v \in 1 .. 0 : FALSE
    OBVIOUS
  <2> HIDE DEF bound
  <2>4. IsCut(S, n + 1, p[n + 1], bound)
    BY <2>1, <2>2, <2>3 DEF IsCut
  <2>5. <<>> \in Seq(Seq(Entry))
    OBVIOUS
  <2>6. QED
    BY <2>1, <2>4, <2>5, Zenon
<1>3. 0 \in T
  <2>1. \A i \in n + 1 - 0 .. n + 1 : i = n + 1
    BY <1>1
  <2> HIDE DEF Holds
  <2>2. QED
    BY <1>1, <1>2, <2>1
<1>4. ASSUME NEW k \in 1 .. n, k - 1 \in T
      PROVE  k \in T
  <2> DEFINE i == n + 1 - k
             j == LastFitting(S, i) + 1
  <2>1. i \in 1 .. n /\ i \in 1 .. n + 1
    BY <1>1
  <2>2. j \in i + 1 .. n + 1 /\ p[i] = <<SubSeq(S, i, LastFitting(S, i))>> \o p[j]
    BY <2>1 DEF IsPacking
  <2>3. LastFitting(S, i) \in i .. n /\ Size(SubSeq(S, i, LastFitting(S, i))) <= BlockRoom
    BY <2>1, OneMoreFits
  <2>4. LastFitting(S, i) = j - 1
    BY <2>1, <2>3
  <2> HIDE DEF j
  <2>5. \A h \in i + 1 .. n + 1 : Holds(h)
    BY <1>1, <1>4
  <2>6. p[j] \in Seq(Seq(Entry)) /\ \E bound : IsCut(S, j, p[j], bound)
    BY <2>2, <2>5
  <2>7. PICK bound : IsCut(S, j, p[j], bound)
    BY <2>6
  <2>8. /\ <<SubSeq(S, i, j - 1)>> \o p[j] \in Seq(Seq(Entry))
        /\ \E more : IsCut(S, i, <<SubSeq(S, i, j - 1)>> \o p[j], more)
    <3> HIDE DEF i
    <3>1. QED
      BY <2>1, <2>2, <2>3, <2>4, <2>6, <2>7, CutExtends
  <2>9. Holds(i)
    BY <2>2, <2>4, <2>8, Zenon
  <2>10. \A h \in n + 1 - k .. n + 1 : h = i \/ h \in i + 1 .. n + 1
    BY <1>1
  <2> HIDE DEF i, Holds
  <2>11. \A h \in n + 1 - k .. n + 1 : Holds(h)
    BY <2>5, <2>9, <2>10
  <2>12. QED
    BY <1>4, <2>11
<1>5. T = 0 .. n
  <2> HIDE DEF Holds
  <2>1. QED
    BY <1>1, <1>3, <1>4, InductionUpTo
<1>6. n \in T /\ n + 1 - n = 1
  BY <1>1, <1>5
<1>7. QED
  BY <1>6

\* No other way to cut the list takes fewer blocks: from where m - t other blocks
\* are left, or later, packing takes no more.
LEMMA PackingLeast ==
    ASSUME NEW S \in Seq(Entry), NEW p, IsPacking(S, p), NEW B, NEW b, IsCut(S, 1, B, b), Len(B) \in Nat
    PROVE  \A i \in 1 .. Len(S) + 1 : \A t \in 0 .. Len(B) : b[t] <= i - 1 => Len(p[i]) <= Len(B) - t
<1> DEFINE n == Len(S)
           m == Len(B)
           Holds(i) == \A t \in 0 .. m : b[t] <= i - 1 => Len(p[i]) <= m - t
           T == {k \in 0 .. n : \A i \in n + 1 - k .. n + 1 : Holds(i)}
<1>1. n \in Nat /\ m \in Nat
  BY LenProperties
<1>2. /\ \A t \in 0 .. m : b[t] \in 0 .. n
      /\ b[0] = 0 /\ b[m] = n
      /\ \A v \in 1 .. m : b[v - 1] <= b[v] /\ B[v] = SubSeq(S, b[v - 1] + 1, b[v]) /\ Size(B[v]) <= BlockRoom
  BY DEF IsCut
<1>3. \A i \in 1 .. n + 1 : p[i] \in Seq(Seq(Entry)) /\ Len(p[i]) \in Nat
  BY PackingCuts, LenProperties
<1>4. 0 \in T
  <2>1. p[n + 1] = <<>> /\ Len(<<>>) = 0
    BY DEF IsPacking
  <2>2. Holds(n + 1)
    BY <1>1, <2>1
  <2>3. \A i \in n + 1 - 0 .. n + 1 : i = n + 1
    BY <1>1
  <2> HIDE DEF Holds
  <2>4. QED
    BY <1>1, <2>2, <2>3
<1>5. ASSUME NEW k \in 1 .. n, k - 1 \in T
      PROVE  k \in T
  <2> DEFINE i == n + 1 - k
  <2>1. i \in 1 .. n /\ i \in 1 .. n + 1
    BY <1>1
  <2>2. \A h \in i + 1 .. n + 1 : Holds(h)
    BY <1>1, <1>5
  <2> HIDE DEF i
  <2>3. ASSUME NEW t \in 0 .. m, b[t] <= i - 1
        PROVE  Len(p[i]) <= m - t
    <3> DEFINE U == {x \in 0 .. m : b[x] <= i - 1}
    <3>1. t \in U /\ U \subseteq 0 .. m
      BY <2>3
    <3>2. PICK u \in U : \A x \in U : x <= u
      BY <1>1, <3>1, MaxInSet
    <3>3. u \in 0 .. m /\ b[u] <= i - 1 /\ t <= u
      BY <3>1, <3>2
    <3>4. u # m
      BY <1>1, <1>2, <2>1, <3>3
    <3>5. u + 1 \in 1 .. m /\ u + 1 \in 0 .. m /\ u + 1 \notin U
      BY <1>1, <3>2, <3>3, <3>4
    <3>6. PICK c \in 0 .. n, a \in 0 .. n : c = b[u + 1] /\ a = b[u]
      BY <1>2, <3>3, <3>5
    <3>7. c \in i .. n /\ a <= i - 1 /\ a \in 0 .. n
      BY <1>1, <2>1, <3>3, <3>5, <3>6
    <3>8. Size(SubSeq(S, a + 1, c)) <= BlockRoom
      <4>1. u + 1 - 1 = u
        BY <3>3
      <4>2. B[u + 1] = SubSeq(S, b[u + 1 - 1] + 1, b[u + 1]) /\ Size(B[u + 1]) <= BlockRoom
        BY <1>2, <3>5
      <4>3. QED
        BY <3>6, <4>1, <4>2
    <3>9. Size(SubSeq(S, i, c)) <= BlockRoom
      <4>1. /\ a + 1 \in 1 .. n + 1 /\ c \in (a + 1) - 1 .. n /\ i \in 1 .. n + 1 /\ c \in i - 1 .. n
            /\ c - i + 1 <= c - (a + 1) + 1
        BY <1>1, <2>1, <3>7
      <4>2. /\ SubSeq(S, a + 1, c) \in Seq(Entry) /\ Len(SubSeq(S, a + 1, c)) = c - (a + 1) + 1
            /\ ToSet(SubSeq(S, a + 1, c)) = {S[j] : j \in a + 1 .. c}
        BY <4>1, Parts
      <4>3. /\ SubSeq(S, i, c) \in Seq(Entry) /\ Len(SubSeq(S, i, c)) = c - i + 1
            /\ ToSet(SubSeq(S, i, c)) = {S[j] : j \in i .. c}
        BY <4>1, Parts
      <4>4. \A j \in i .. c : j \in a + 1 .. c
        BY <1>1, <2>1, <3>7
      <4>5. ToSet(SubSeq(S, i, c)) \subseteq ToSet(SubSeq(S, a + 1, c))
        BY <4>2, <4>3, <4>4
      <4>6. PICK x \in Nat, y \in Nat : x = Size(SubSeq(S, i, c)) /\ y = Size(SubSeq(S, a + 1, c)) /\ x <= y
        BY <4>1, <4>2, <4>3, <4>5, SizeGrows
      <4>7. QED
        BY <3>8, <4>6, SizeNumbers
    <3>10. c <= LastFitting(S, i) /\ LastFitting(S, i) \in i .. n
      BY <2>1, <3>7, <3>9, OneMoreFits
    <3>11. PICK j \in i + 1 .. n + 1 : j = LastFitting(S, i) + 1
      BY <1>1, <2>1, <3>10
    <3>12. p[i] = <<SubSeq(S, i, LastFitting(S, i))>> \o p[j]
      BY <2>1, <3>11 DEF IsPacking
    <3>13. p[j] \in Seq(Seq(Entry)) /\ Len(p[j]) \in Nat
      BY <1>1, <1>3, <2>1, <3>11
    <3>14. Len(p[i]) = 1 + Len(p[j])
      <4>1. SubSeq(S, i, LastFitting(S, i)) \in Seq(Entry)
        <5>1. i \in 1 .. n + 1 /\ LastFitting(S, i) \in i - 1 .. n
          BY <1>1, <2>1, <3>10
        <5>2. QED
          BY <5>1, Parts
      <4>2. \A x \in Seq(Entry) : Len(<<x>> \o p[j]) = 1 + Len(p[j])
        BY <3>13
      <4>3. QED
        BY <3>12, <4>1, <4>2
    <3>15. b[u + 1] <= j - 1
      BY <1>1, <2>1, <3>6, <3>10, <3>11
    <3>16. Len(p[j]) <= m - (u + 1)
      BY <2>2, <3>5, <3>15
    <3>17. QED
      BY <1>1, <3>3, <3>13, <3>14, <3>16
  <2>4. Holds(i)
    BY <2>3
  <2>5. \A h \in n + 1 - k .. n + 1 : h = i \/ h \in i + 1 .. n + 1
    BY <1>1 DEF i
  <2> HIDE DEF Holds
  <2>6. \A h \in n + 1 - k .. n + 1 : Holds(h)
    BY <2>2, <2>4, <2>5
  <2>7. QED
    BY <1>5, <2>6
<1>6. T = 0 .. n
  <2> HIDE DEF Holds
  <2>1. QED
    BY <1>1, <1>4, <1>5, InductionUpTo
<1>7. n \in T /\ n + 1 - n = 1
  BY <1>1, <1>6
<1>8. QED
  BY <1>7

-----------------------------------------------------------------------------
(* Listing.                                                                *)

\* The entries of the blocks up to each, one after another.
IsListing(B, upTo) ==
    /\ upTo \in [0 .. Len(B) -> Seq(Entry)]
    /\ upTo[0] = <<>>
    /\ \A v \in 1 .. Len(B) : upTo[v] = upTo[v - 1] \o B[v]

\* Blocks can be listed.
LEMMA ListingExists ==
    ASSUME NEW B \in Seq(Seq(Entry))
    PROVE  \E upTo : IsListing(B, upTo)
<1> DEFINE m == Len(B)
           step == [k \in 1 .. m |-> [entries \in Seq(Entry) |-> entries \o B[k]]]
<1>1. m \in Nat /\ <<>> \in Seq(Entry)
  BY LenProperties
<1>2. step \in [1 .. m -> [Seq(Entry) -> Seq(Entry)]]
  <2>1. ASSUME NEW k \in 1 .. m
        PROVE  [entries \in Seq(Entry) |-> entries \o B[k]] \in [Seq(Entry) -> Seq(Entry)]
    <3>1. PICK more \in Seq(Entry) : more = B[k]
      BY ElementOfSeq
    <3>2. \A entries \in Seq(Entry) : entries \o more \in Seq(Entry)
      OBVIOUS
    <3>3. QED
      BY <3>1, <3>2, Zenon
  <2>2. QED
    BY <2>1, Zenon
<1> HIDE DEF step
<1>3. PICK f : IsLoop(f, m, Seq(Entry), <<>>, step)
  BY <1>1, <1>2, LoopExists, Zenon
<1>4. f \in [0 .. m -> Seq(Entry)] /\ f[0] = <<>> /\ \A k \in 1 .. m : f[k] = step[k][f[k - 1]]
  BY <1>3, Zenon DEF IsLoop
<1>5. ASSUME NEW k \in 1 .. m
      PROVE  f[k] = f[k - 1] \o B[k]
  <2>1. k - 1 \in 0 .. m
    BY <1>1
  <2>2. f[k - 1] \in Seq(Entry)
    BY <1>4, <2>1
  <2>3. step[k][f[k - 1]] = f[k - 1] \o B[k]
    BY <2>2, Zenon DEF step
  <2>4. QED
    BY <1>4, <2>3
<1>6. IsListing(B, f)
  BY <1>4, <1>5 DEF IsListing
<1>7. QED
  BY <1>6

\* Two listings of the same blocks are the same.
LEMMA ListingIsOne ==
    ASSUME NEW B \in Seq(Seq(Entry)), NEW f, IsListing(B, f), NEW g, IsListing(B, g)
    PROVE  \A v \in 0 .. Len(B) : f[v] = g[v]
<1> DEFINE m == Len(B)
           T == {v \in 0 .. m : f[v] = g[v]}
<1>1. m \in Nat
  BY LenProperties
<1>2. 0 \in T
  BY <1>1 DEF IsListing
<1>3. ASSUME NEW k \in 1 .. m, k - 1 \in T
      PROVE  k \in T
  <2>1. f[k] = f[k - 1] \o B[k] /\ g[k] = g[k - 1] \o B[k]
    BY Zenon DEF IsListing
  <2>2. f[k - 1] = g[k - 1] /\ k \in 0 .. m
    BY <1>1, <1>3
  <2>3. f[k] = g[k]
    BY <2>1, <2>2, Zenon
  <2>4. QED
    BY <2>2, <2>3
<1>4. T = 0 .. m
  <2> HIDE DEF T
  <2>1. T \subseteq 0 .. m
    BY DEF T
  <2>2. QED
    BY <1>1, <1>2, <1>3, <2>1, InductionUpTo
<1>5. QED
  BY <1>4

\* What a list is cut into is listed as it was.
LEMMA CutsList ==
    ASSUME NEW S \in Seq(Entry), NEW B \in Seq(Seq(Entry)), NEW b, IsCut(S, 1, B, b),
           NEW f, IsListing(B, f)
    PROVE  f[Len(B)] = S
<1> DEFINE m == Len(B)
           T == {v \in 0 .. m : f[v] = SubSeq(S, 1, b[v])}
<1>1. m \in Nat /\ Len(S) \in Nat
  BY LenProperties
<1>2. /\ \A t \in 0 .. m : b[t] \in 0 .. Len(S)
      /\ b[0] = 0 /\ b[m] = Len(S)
      /\ \A v \in 1 .. m : b[v - 1] <= b[v] /\ B[v] = SubSeq(S, b[v - 1] + 1, b[v])
  <2>1. /\ b \in [0 .. m -> 1 - 1 .. Len(S)] /\ b[0] = 1 - 1 /\ b[m] = Len(S)
        /\ \A v \in 1 .. m : b[v - 1] <= b[v] /\ B[v] = SubSeq(S, b[v - 1] + 1, b[v])
    BY Zenon DEF IsCut
  <2>2. \A t \in 0 .. m : b[t] \in 1 - 1 .. Len(S)
    BY <2>1, Zenon
  <2>3. 1 - 1 = 0
    OBVIOUS
  <2>4. QED
    BY <2>1, <2>2, <2>3, Zenon
<1>3. 0 \in T
  <2>1. SubSeq(S, 1, 0) = <<>>
    OBVIOUS
  <2>2. QED
    BY <1>1, <1>2, <2>1 DEF IsListing
<1>4. ASSUME NEW k \in 1 .. m, k - 1 \in T
      PROVE  k \in T
  <2>1. k - 1 \in 0 .. m /\ k \in 0 .. m
    BY <1>1
  <2>2. PICK x \in 0 .. Len(S), y \in 0 .. Len(S) : x = b[k - 1] /\ y = b[k] /\ x <= y
    BY <1>2, <2>1
  <2>3. f[k] = SubSeq(S, 1, x) \o SubSeq(S, x + 1, y)
    BY <1>2, <1>4, <2>2 DEF IsListing
  <2>4. SubSeq(S, 1, x) \o SubSeq(S, x + 1, y) = SubSeq(S, 1, y)
    <3>1. 1 \in 1 .. Len(S) + 1 /\ x \in 1 - 1 .. Len(S) /\ y \in x .. Len(S)
      BY <1>1, <2>2
    <3>2. QED
      BY <3>1, ConcatAdjacentSubSeq
  <2>5. QED
    BY <2>1, <2>2, <2>3, <2>4
<1>5. T = 0 .. m
  BY <1>1, <1>3, <1>4, InductionUpTo
<1>6. f[m] = SubSeq(S, 1, Len(S))
  BY <1>1, <1>2, <1>5
<1>7. QED
  BY <1>6

\* Blocks whose entries fit are a cut of their list.
LEMMA ListsAreCut ==
    ASSUME NEW B \in Seq(Seq(Entry)), NEW f, IsListing(B, f),
           \A v \in 1 .. Len(B) : Size(B[v]) <= BlockRoom
    PROVE  IsCut(f[Len(B)], 1, B, [v \in 0 .. Len(B) |-> Len(f[v])])
<1> DEFINE m == Len(B)
           L == f[m]
           b == [v \in 0 .. m |-> Len(f[v])]
           Prefix(s, t) == Len(s) <= Len(t) /\ \A j \in 1 .. Len(s) : s[j] = t[j]
<1>1. m \in Nat /\ \A v \in 0 .. m : f[v] \in Seq(Entry) /\ Len(f[v]) \in Nat
  BY LenProperties DEF IsListing
<1>2. ASSUME NEW v \in 1 .. m
      PROVE  /\ v - 1 \in 0 .. m /\ v \in 0 .. m /\ B[v] \in Seq(Entry)
             /\ f[v] = f[v - 1] \o B[v]
  <2>1. f[v] = f[v - 1] \o B[v]
    BY Zenon DEF IsListing
  <2>2. B[v] \in Seq(Entry)
    BY ElementOfSeq
  <2>3. QED
    BY <1>1, <2>1, <2>2
<1>3. ASSUME NEW v \in 0 .. m
      PROVE  Prefix(f[v], L)
  <2> DEFINE T == {k \in 0 .. m : v <= k => Prefix(f[v], f[k])}
  <2>1. Prefix(f[v], f[v])
    BY <1>1
  <2>2. 0 \in T
    <3>1. v <= 0 => v = 0
      BY <1>1
    <3> HIDE DEF Prefix
    <3>2. QED
      BY <1>1, <2>1, <3>1
  <2>3. ASSUME NEW k \in 1 .. m, k - 1 \in T
        PROVE  k \in T
    <3>1. CASE v <= k - 1
      <4>1. Prefix(f[v], f[k - 1])
        BY <2>3, <3>1
      <4>2. PICK s \in Seq(Entry), t \in Seq(Entry), r \in Seq(Entry) : s = f[v] /\ t = f[k - 1] /\ r = B[k] /\ f[k] = t \o r
        BY <1>1, <1>2
      <4>3. Prefix(s, t) => Prefix(s, t \o r)
        <5>1. /\ Len(s) \in Nat /\ Len(t) \in Nat /\ Len(r) \in Nat
              /\ Len(t \o r) = Len(t) + Len(r)
          BY LenProperties, ConcatProperties
        <5>2. \A j \in 1 .. Len(t) : (t \o r)[j] = t[j]
          BY <5>1, ConcatProperties
        <5>3. ASSUME Prefix(s, t)
              PROVE  Prefix(s, t \o r)
          BY ONLY <5>1, <5>2, <5>3
        <5>4. QED
          BY <5>3
      <4> HIDE DEF Prefix
      <4>4. Prefix(f[v], f[k])
        BY <4>1, <4>2, <4>3, Zenon
      <4>5. QED
        BY <1>2, <4>4
    <3>2. CASE v = k
      <4> HIDE DEF Prefix
      <4>1. QED
        BY <2>1, <3>2
    <3>3. CASE ~(v <= k)
      BY <3>3
    <3>4. QED
      BY <1>1, <3>1, <3>2, <3>3
  <2>4. T = 0 .. m
    <3> HIDE DEF Prefix
    <3>1. QED
      BY <1>1, <2>2, <2>3, InductionUpTo
  <2>5. m \in T /\ v <= m
    BY <1>1, <2>4
  <2> HIDE DEF Prefix
  <2>6. QED
    BY <2>5
<1>4. L \in Seq(Entry)
  BY <1>1
<1>5. b \in [0 .. m -> 0 .. Len(L)]
  <2>1. \A v \in 0 .. m : Len(f[v]) \in 0 .. Len(L)
    BY <1>1, <1>3
  <2>2. QED
    BY <2>1
<1>6. b[0] = 0 /\ b[m] = Len(L)
  BY <1>1 DEF IsListing
<1>7. ASSUME NEW v \in 1 .. m
      PROVE  b[v - 1] <= b[v] /\ B[v] = SubSeq(L, b[v - 1] + 1, b[v])
  <2>1. PICK s \in Seq(Entry), t \in Seq(Entry), r \in Seq(Entry) : s = f[v - 1] /\ t = f[v] /\ r = B[v] /\ t = s \o r
    BY <1>1, <1>2
  <2>2. b[v - 1] = Len(s) /\ b[v] = Len(t)
    BY <1>2, <2>1
  <2>3. Prefix(t, L)
    BY <1>2, <1>3, <2>1
  <2> HIDE DEF L, b
  <2>4. Len(t) = Len(s) + Len(r) /\ Len(s) \in Nat /\ Len(r) \in Nat /\ Len(t) <= Len(L)
        /\ \A j \in 1 .. Len(r) : L[Len(s) + j] = r[j]
    <3>1. Len(t) = Len(s) + Len(r) /\ Len(s) \in Nat /\ Len(r) \in Nat
      BY <2>1, ConcatProperties, LenProperties
    <3>2. ASSUME NEW j \in 1 .. Len(r)
          PROVE  Len(s) + j \in 1 .. Len(t) /\ t[Len(s) + j] = r[j]
      <4>1. Len(s) + j \in 1 .. Len(s) + Len(r) /\ ~(Len(s) + j <= Len(s)) /\ Len(s) + j - Len(s) = j
        BY <3>1
      <4>2. (s \o r)[Len(s) + j] = r[j]
        BY <4>1, ConcatProperties
      <4>3. QED
        BY <2>1, <3>1, <4>1, <4>2
    <3>3. QED
      BY <2>3, <3>1, <3>2
  <2>5. Len(s) + 1 \in 1 .. Len(L) + 1 /\ Len(t) \in (Len(s) + 1) - 1 .. Len(L)
    BY <1>4, <2>4
  <2>6. /\ SubSeq(L, Len(s) + 1, Len(t)) \in Seq(Entry)
        /\ Len(SubSeq(L, Len(s) + 1, Len(t))) = Len(r)
        /\ \A j \in 1 .. Len(r) : SubSeq(L, Len(s) + 1, Len(t))[j] = r[j]
    <3>1. Len(t) - (Len(s) + 1) + 1 = Len(r)
      BY <2>4
    <3>2. /\ SubSeq(L, Len(s) + 1, Len(t)) \in Seq(Entry)
          /\ Len(SubSeq(L, Len(s) + 1, Len(t))) = Len(r)
          /\ \A j \in 1 .. Len(r) : SubSeq(L, Len(s) + 1, Len(t))[j] = L[Len(s) + 1 + j - 1]
      BY <1>4, <2>5, <3>1, Parts
    <3>3. \A j \in 1 .. Len(r) : Len(s) + 1 + j - 1 = Len(s) + j
      BY <2>4
    <3>4. QED
      BY <2>4, <3>2, <3>3
  <2>7. SubSeq(L, Len(s) + 1, Len(t)) = r
    BY <2>1, <2>6, SeqEqual, Zenon
  <2>8. b[v - 1] <= b[v]
    BY <2>2, <2>4
  <2>9. B[v] = SubSeq(L, b[v - 1] + 1, b[v])
    BY <2>1, <2>2, <2>7, Zenon
  <2>10. QED
    BY <2>8, <2>9
<1> HIDE DEF b, L
<1>8. IsCut(L, 1, B, b)
  BY <1>5, <1>6, <1>7 DEF IsCut
<1>9. QED
  BY <1>8 DEF b, L

-----------------------------------------------------------------------------
(* What the variables hold.                                                *)

Block == [decodes : BOOLEAN, entries : Seq(Entry)]

Header ==
    {h \in [live : BOOLEAN, left : BOOLEAN, extent : GoodExtent \cup {NoExtent}, used : Nat,
            link : Place \cup {NoPlace}] :
        ~(h.live /\ h.left) /\ h.used <= h.extent.count}

Target == [dir : Directories, name : Names \cup {0}, version : Nat]

Known == [dir : Directories, name : Names, version : Versions, fid : Fids]

Call ==
    [kind : Kinds, phase : Phases, old : Target, new : Target, fid : Fids, victim : Fids,
     dir : Directories, blocks : Seq(Seq(Entry)), written : Nat, moved : BOOLEAN,
     next : Phases, before : SUBSET Known]

\* What is in a call at each of its phases.
SoundCall(c) ==
    /\ c.kind = "rename" => c.old \in Place /\ c.new.name \in Names
    /\ c.kind \in {"create", "createdir"} => c.new \in Place
    /\ "insert" \in {c.phase, c.next} \/ c.phase = "giveback" => c.kind = "createdir"
    /\ c.phase \in {"enter", "restore", "name"} \/ c.next \in {"enter", "name"} => c.kind = "rename"
    /\ "name" \in {c.phase, c.next} => c.new \in Place
    /\ c.next \in {"none", "insert", "enter", "name", "purge", "free"}
    /\ c.phase \in {"relocate", "write", "record"} => Len(c.blocks) > 0
    /\ c.written <= Len(c.blocks)

\* The blocks of a directory that is rewritten, next to those it has.
CallHasRoom(c, h) ==
    /\ c.phase = "relocate" => h.extent.count < Len(c.blocks)
    /\ c.phase = "record" => c.written = Len(c.blocks) /\ Len(c.blocks) <= h.extent.count

TypeInv ==
    /\ header \in [Fids -> Header]
    /\ block \in [Clusters -> Block]
    /\ free \subseteq Clusters
    /\ call \in Call /\ SoundCall(call) /\ CallHasRoom(call, header[call.dir])
    /\ calls \in 0 .. MaxCalls

\* The parts of a call.
LEMMA CallParts ==
    ASSUME NEW c \in Call
    PROVE  /\ c.kind \in Kinds /\ c.phase \in Phases /\ c.old \in Target /\ c.new \in Target
           /\ c.fid \in Fids /\ c.victim \in Fids /\ c.dir \in Directories
           /\ c.blocks \in Seq(Seq(Entry)) /\ Len(c.blocks) \in Nat /\ c.written \in Nat
           /\ c.moved \in BOOLEAN /\ c.next \in Phases /\ c.before \in SUBSET Known
BY LenProperties DEF Call

\* The parts of a header.
LEMMA HeaderParts ==
    ASSUME NEW h \in Header
    PROVE  /\ h.live \in BOOLEAN /\ h.left \in BOOLEAN /\ ~(h.live /\ h.left)
           /\ h.extent \in Extent \cup {NoExtent}
           /\ h.extent.start \in Nat /\ h.extent.count \in Nat
           /\ h.used \in Nat /\ h.used <= h.extent.count /\ h.link \in Place \cup {NoPlace}
           /\ ClustersOf(h.extent) \subseteq Clusters
<1>1. /\ h.live \in BOOLEAN /\ h.left \in BOOLEAN /\ ~(h.live /\ h.left)
      /\ h.extent \in GoodExtent \cup {NoExtent}
      /\ h.used \in Nat /\ h.used <= h.extent.count /\ h.link \in Place \cup {NoPlace}
  BY DEF Header
<1>2. NoExtent.start = 0 /\ NoExtent.count = 0
  BY DEF NoExtent
<1>3. \A e \in Extent : e.start \in Clusters /\ e.start \in Nat /\ e.count \in Nat
  BY ExtentsAreRuns
<1>4. GoodExtent \subseteq Extent /\ \A e \in GoodExtent : ClustersOf(e) \subseteq Clusters
  BY DEF GoodExtent
<1>5. ClustersOf(NoExtent) = {}
  BY <1>2 DEF ClustersOf, Span
<1>6. QED
  BY <1>1, <1>2, <1>3, <1>4, <1>5

\* The parts of the constants.
LEMMA ConstantParts ==
    /\ NoCall \in Call /\ SoundCall(NoCall) /\ NoHeader \in Header
    /\ NoPlace \in Target /\ Place \subseteq Target
    /\ \A p \in Target : p.dir \in Directories /\ p.name \in Names \cup {0} /\ p.version \in Nat
    /\ \A p \in Place : p.dir \in Directories /\ p.name \in Names /\ p.version \in Versions
    /\ Directories \subseteq Fids /\ Root \in Directories
    /\ 1 \in Versions /\ Versions \subseteq Nat
<1>1. Directories \subseteq Fids /\ Root \in Directories
  BY DEF Directories, Fids
<1>2. 1 \in Versions /\ Versions \subseteq Nat
  BY SizeNumbers DEF Versions
<1>3. NoPlace \in Target /\ Place \subseteq Target
  BY <1>1, <1>2 DEF NoPlace, Target, Place
<1>4. /\ \A p \in Target : p.dir \in Directories /\ p.name \in Names \cup {0} /\ p.version \in Nat
      /\ \A p \in Place : p.dir \in Directories /\ p.name \in Names /\ p.version \in Versions
  BY DEF Target, Place
<1>5. NoHeader \in Header
  BY DEF NoHeader, Header, NoExtent
<1>6. NoCall \in Call
  <2>1. "none" \in Kinds /\ "none" \in Phases /\ Root \in Fids /\ <<>> \in Seq(Seq(Entry))
    BY <1>1 DEF Kinds, Phases
  <2>2. QED
    BY <1>1, <1>3, <2>1 DEF NoCall, Call
<1>7. SoundCall(NoCall)
  <2>1. NoCall.kind = "none" /\ NoCall.phase = "none" /\ NoCall.next = "none" /\ NoCall.written = 0 /\ NoCall.blocks = <<>>
    BY DEF NoCall
  <2>2. Len(<<>>) = 0
    OBVIOUS
  <2>3. QED
    BY <2>1, <2>2 DEF SoundCall
<1>8. QED
  BY <1>1, <1>2, <1>3, <1>4, <1>5, <1>6, <1>7

\* Entries are packed into one block or more, which they fit into; the blocks list
\* them sorted.
LEMMA PackHolds ==
    ASSUME NEW L \in Seq(Entry)
    PROVE  /\ Pack(L) \in Seq(Seq(Entry)) /\ Len(Pack(L)) \in Nat /\ Len(Pack(L)) > 0
           /\ \E bound : IsCut(Sorted(L), 1, Pack(L), bound)
<1>1. CASE L = <<>>
  <2> DEFINE bound == [v \in 0 .. 1 |-> 0]
  <2>1. Pack(L) = << <<>> >>
    BY <1>1 DEF Pack
  <2>2. << <<>> >> \in Seq(Seq(Entry)) /\ Len(<< <<>> >>) = 1 /\ << <<>> >>[1] = <<>>
    OBVIOUS
  <2>3. Sorted(L) = <<>>
    <3>1. Sorted(L) \in Seq(Entry) /\ Len(Sorted(L)) = Len(L) /\ Len(L) = 0
      BY <1>1, SortedPermutes
    <3>2. QED
      BY <3>1, EmptySeq
  <2>4. bound \in [0 .. 1 -> 1 - 1 .. 0] /\ bound[0] = 1 - 1 /\ bound[1] = 0 /\ bound[1 - 1] <= bound[1] /\ bound[1 - 1] = 0
    OBVIOUS
  <2>5. <<>> = SubSeq(<<>>, 0 + 1, 0) /\ Len(<<>>) = 0
    OBVIOUS
  <2>6. \A v \in 1 .. 1 : v = 1
    OBVIOUS
  <2> HIDE DEF bound
  <2>7. Size(<<>>) <= BlockRoom
    BY OneFits
  <2>8. IsCut(<<>>, 1, << <<>> >>, bound)
    BY <2>2, <2>4, <2>5, <2>6, <2>7 DEF IsCut
  <2>9. \E b : IsCut(Sorted(L), 1, Pack(L), b)
    BY <2>1, <2>3, <2>8, Zenon
  <2>10. QED
    BY <2>1, <2>2, <2>9
<1>2. CASE L # <<>>
  <2> DEFINE S == Sorted(L)
  <2>1. PICK p : IsPacking(S, p) /\ Pack(L) = p[1]
    BY <1>2, PackingExists
  <2>2. S \in Seq(Entry) /\ Len(S) = Len(L) /\ Len(L) \in Nat \ {0}
    BY <1>2, SortedPermutes, LenProperties, EmptySeq
  <2>3. 1 \in 1 .. Len(S) + 1
    BY <2>2
  <2>4. p[1] \in Seq(Seq(Entry)) /\ \E bound : IsCut(S, 1, p[1], bound)
    BY <2>1, <2>2, <2>3, PackingCuts
  <2>5. PICK bound : IsCut(S, 1, p[1], bound)
    BY <2>4
  <2>6. Len(p[1]) # 0
    <3>1. bound[0] = 1 - 1 /\ bound[Len(p[1])] = Len(S)
      BY <2>5 DEF IsCut
    <3>2. QED
      BY <2>2, <3>1
  <2>7. Len(p[1]) \in Nat
    BY <2>4, LenProperties
  <2>8. QED
    BY <2>1, <2>4, <2>6, <2>7
<1>3. QED
  BY <1>1, <1>2

-----------------------------------------------------------------------------
(* Reading and rewriting.                                                  *)

\* The blocks of a directory with this header, on a volume of these blocks.
InUse(h, b) == [v \in 1 .. Min({h.used, h.extent.count}) |-> b[h.extent.start + v - 1]]

\* What is read of a directory: as many blocks as are in use, one after another.
LEMMA InUseRead ==
    ASSUME NEW h \in Header, NEW b \in [Clusters -> Block]
    PROVE  /\ InUse(h, b) \in Seq(Block) /\ Len(InUse(h, b)) = h.used
           /\ h.used \in Nat /\ h.used <= h.extent.count
           /\ h.extent.count \in Nat /\ h.extent.start \in Nat
           /\ \A v \in 1 .. h.extent.count : h.extent.start + v - 1 \in ClustersOf(h.extent)
           /\ ClustersOf(h.extent) \subseteq Clusters
           /\ \A v \in 1 .. h.used : InUse(h, b)[v] = b[h.extent.start + v - 1]
<1>2. PICK s \in Nat, c \in Nat, u \in Nat :
        s = h.extent.start /\ c = h.extent.count /\ u = h.used /\ u <= c
  BY HeaderParts
<1>3. Min({u, c}) = u
  <2>1. {u, c} \subseteq Nat /\ {u, c} # {}
    OBVIOUS
  <2>2. Min({u, c}) \in {u, c} /\ Min({u, c}) <= u
    BY <2>1, MinInSet
  <2>3. QED
    BY <1>2, <2>2
<1>4. InUse(h, b) = [v \in 1 .. u |-> b[s + v - 1]]
  BY <1>2, <1>3 DEF InUse
<1>5. \A v \in 1 .. c : s + v - 1 \in Span(s, c)
  BY DEF Span
<1>6. ClustersOf(h.extent) = Span(s, c) /\ ClustersOf(h.extent) \subseteq Clusters
  BY <1>2, HeaderParts DEF ClustersOf
<1>7. ASSUME NEW v \in 1 .. u
      PROVE  b[s + v - 1] \in Block
  <2>1. s + v - 1 \in Clusters
    BY <1>2, <1>5, <1>6
  <2>2. QED
    BY <2>1
<1>8. InUse(h, b) \in Seq(Block) /\ Len(InUse(h, b)) = u
  BY <1>4, <1>7
<1>9. \A v \in 1 .. u : InUse(h, b)[v] = b[s + v - 1]
  BY <1>4
<1>10. QED
  BY <1>2, <1>5, <1>6, <1>8, <1>9

\* So it is on disk.
LEMMA BlocksRead ==
    ASSUME TypeInv, NEW d \in Fids
    PROVE  /\ Blocks(d) \in Seq(Block) /\ Len(Blocks(d)) = header[d].used
           /\ header[d].used \in Nat /\ header[d].used <= header[d].extent.count
           /\ header[d].extent.count \in Nat /\ header[d].extent.start \in Nat
           /\ \A v \in 1 .. header[d].extent.count :
                 header[d].extent.start + v - 1 \in ClustersOf(header[d].extent)
           /\ ClustersOf(header[d].extent) \subseteq Clusters
           /\ \A v \in 1 .. header[d].used : Blocks(d)[v] = block[header[d].extent.start + v - 1]
<1>1. header[d] \in Header /\ block \in [Clusters -> Block]
  BY DEF TypeInv
<1>2. Blocks(d) = InUse(header[d], block)
  BY DEF Blocks, InUse
<1>3. QED
  BY <1>1, <1>2, InUseRead

\* The entries of each of these blocks, and all of them as List has them.
EntriesIn(h, b) == [v \in 1 .. Len(InUse(h, b)) |-> InUse(h, b)[v].entries]

Listed(h, b) ==
    LET blocks == InUse(h, b)
        upTo[v \in 0 .. Len(blocks)] ==
            IF v = 0 THEN <<>> ELSE upTo[v - 1] \o blocks[v].entries
    IN  upTo[Len(blocks)]

\* A directory's list is that of its blocks.
LEMMA ListedReads ==
    ASSUME NEW h \in Header, NEW b \in [Clusters -> Block]
    PROVE  /\ EntriesIn(h, b) \in Seq(Seq(Entry)) /\ Len(EntriesIn(h, b)) = h.used
           /\ \A v \in 1 .. h.used : EntriesIn(h, b)[v] = b[h.extent.start + v - 1].entries
           /\ Listed(h, b) \in Seq(Entry)
           /\ \E f : IsListing(EntriesIn(h, b), f) /\ Listed(h, b) = f[h.used]
<1> DEFINE B == EntriesIn(h, b)
           m == Len(InUse(h, b))
           Grown(g) == [v \in 0 .. m |-> IF v = 0 THEN <<>> ELSE g[v - 1] \o InUse(h, b)[v].entries]
           chosen == CHOOSE g : g = Grown(g)
<1>1. /\ InUse(h, b) \in Seq(Block) /\ m = h.used /\ m \in Nat
      /\ \A v \in 1 .. h.used : InUse(h, b)[v] = b[h.extent.start + v - 1]
  BY InUseRead
<1>2. \A v \in 1 .. m : InUse(h, b)[v] \in Block /\ InUse(h, b)[v].entries \in Seq(Entry)
  <2>1. \A v \in 1 .. m : InUse(h, b)[v] \in Block
    BY <1>1, ElementOfSeq
  <2>2. \A x \in Block : x.entries \in Seq(Entry)
    BY DEF Block
  <2>3. QED
    BY <2>1, <2>2
<1>3. B = [v \in 1 .. m |-> InUse(h, b)[v].entries]
  BY DEF EntriesIn
<1>4. B \in Seq(Seq(Entry)) /\ Len(B) = m
  <2>1. \A n \in Nat : \A F \in [1 .. n -> Seq(Entry)] : F \in Seq(Seq(Entry)) /\ Len(F) = n
    OBVIOUS
  <2>2. B \in [1 .. m -> Seq(Entry)]
    BY <1>2, <1>3, Zenon
  <2>3. QED
    BY <1>1, <2>1, <2>2, Zenon
<1>5. \A v \in 1 .. m : B[v] = InUse(h, b)[v].entries
  BY <1>3
<1> HIDE DEF B
<1>6. PICK f : IsListing(B, f)
  BY <1>4, ListingExists
<1>7. /\ f \in [0 .. m -> Seq(Entry)] /\ f[0] = <<>>
      /\ \A v \in 1 .. m : f[v] = f[v - 1] \o B[v]
  BY <1>4, <1>6, Zenon DEF IsListing
<1>8. f = Grown(f)
  <2>1. ASSUME NEW v \in 0 .. m
        PROVE  f[v] = (IF v = 0 THEN <<>> ELSE f[v - 1] \o InUse(h, b)[v].entries)
    <3>1. CASE v = 0
      BY <1>7, <3>1, Zenon
    <3>2. CASE v # 0
      <4>1. v \in 1 .. m
        BY <1>1, <3>2
      <4>2. QED
        BY <1>5, <1>7, <3>2, <4>1, Zenon
    <3>3. QED
      BY <3>1, <3>2
  <2>2. f = [v \in 0 .. m |-> f[v]]
    BY <1>7, Zenon
  <2>3. QED
    BY <2>1, <2>2, Zenon
<1>9. chosen = Grown(chosen)
  <2> HIDE DEF Grown
  <2>1. QED
    BY <1>8, Zenon
<1>10. Listed(h, b) = chosen[m]
  BY Zenon DEF Listed
<1> HIDE DEF chosen
<1>11. ASSUME NEW v \in 0 .. m
       PROVE  chosen[v] = f[v]
  <2> DEFINE T == {w \in 0 .. m : chosen[w] = f[w]}
  <2>1. 0 \in T
    <3>1. 0 \in 0 .. m
      BY <1>1
    <3>2. chosen[0] = <<>>
      <4>1. Grown(chosen)[0] = <<>>
        BY <3>1
      <4> HIDE DEF Grown
      <4>2. QED
        BY <1>9, <4>1
    <3>3. QED
      BY <1>7, <3>1, <3>2
  <2>2. ASSUME NEW k \in 1 .. m, k - 1 \in T
        PROVE  k \in T
    <3>1. k \in 0 .. m /\ k # 0
      BY <1>1
    <3>2. chosen[k] = chosen[k - 1] \o InUse(h, b)[k].entries
      <4>1. Grown(chosen)[k] = chosen[k - 1] \o InUse(h, b)[k].entries
        BY <3>1, Zenon
      <4> HIDE DEF Grown
      <4>2. QED
        BY <1>9, <4>1, Zenon
    <3>3. chosen[k - 1] = f[k - 1]
      BY <2>2
    <3>4. chosen[k] = f[k]
      BY <1>5, <1>7, <3>2, <3>3, Zenon
    <3>5. QED
      BY <3>1, <3>4
  <2>3. T = 0 .. m
    <3>1. T \subseteq 0 .. m
      OBVIOUS
    <3> HIDE DEF T
    <3>2. QED
      BY <1>1, <2>1, <2>2, <3>1, InductionUpTo
  <2>4. QED
    BY <2>3
<1>12. m \in 0 .. m
  BY <1>1
<1>13. Listed(h, b) = f[m] /\ f[m] \in Seq(Entry)
  BY <1>7, <1>10, <1>11, <1>12
<1>14. \A v \in 1 .. h.used : B[v] = b[h.extent.start + v - 1].entries
  BY <1>1, <1>5
<1>15. QED
  BY <1>1, <1>4, <1>6, <1>13, <1>14 DEF B

\* The entries of each block of a directory.
EntriesOf(d) == EntriesIn(header[d], block)

\* What List reads.
LEMMA ListReads ==
    ASSUME TypeInv, NEW d \in Fids
    PROVE  /\ List(d) = Listed(header[d], block)
           /\ EntriesOf(d) \in Seq(Seq(Entry)) /\ Len(EntriesOf(d)) = header[d].used
           /\ \A v \in 1 .. header[d].used : EntriesOf(d)[v] = block[header[d].extent.start + v - 1].entries
           /\ List(d) \in Seq(Entry)
           /\ \E f : IsListing(EntriesOf(d), f) /\ List(d) = f[header[d].used]
<1>1. header[d] \in Header /\ block \in [Clusters -> Block]
  BY DEF TypeInv
<1>2. List(d) = Listed(header[d], block)
  BY DEF List, Blocks, Listed, InUse
<1>3. QED
  BY <1>1, <1>2, ListedReads DEF EntriesOf

\* A list without its first entry of a place: the same, if there is none.
Without(L, d, p) == RemoveFirstMatch(L, LAMBDA e : At(e, d) = p)

\* What is left of it.
LEMMA RemovalLeaves ==
    ASSUME NEW L \in Seq(Entry), NEW d, NEW p
    PROVE  /\ Without(L, d, p) \in Seq(Entry)
           /\ (\A i \in 1 .. Len(L) : At(L[i], d) # p) => Without(L, d, p) = L
           /\ (\E i \in 1 .. Len(L) : At(L[i], d) = p) =>
                 \E r \in 1 .. Len(L) : /\ At(L[r], d) = p
                                        /\ Without(L, d, p) = SubSeq(L, 1, r - 1) \o SubSeq(L, r + 1, Len(L))
<1> DEFINE I == {i \in 1 .. Len(L) : At(L[i], d) = p}
           r == Min(I)
<1>1. Len(L) \in Nat
  BY LenProperties
<1>2. CASE I = {}
  <2>1. Without(L, d, p) = L
    BY <1>2 DEF Without, RemoveFirstMatch
  <2>2. QED
    BY <1>2, <2>1
<1>3. CASE I # {}
  <2>1. r \in I
    <3>1. I \subseteq Nat
      BY <1>1
    <3> HIDE DEF I
    <3>2. QED
      BY <1>3, <3>1, MinInSet
  <2>2. \E i \in 1 .. Len(L) : At(L[i], d) = p
    BY <1>3
  <2>3. Without(L, d, p) = SubSeq(L, 1, r - 1) \o SubSeq(L, r + 1, Len(L))
    <3>1. Without(L, d, p) = RemoveAt(L, r)
      BY <1>3, <2>2 DEF Without, RemoveFirstMatch, SelectInSeq
    <3>2. QED
      BY <3>1 DEF RemoveAt
  <2> HIDE DEF r
  <2>4. SubSeq(L, 1, r - 1) \in Seq(Entry) /\ SubSeq(L, r + 1, Len(L)) \in Seq(Entry)
    <3>1. /\ 1 \in 1 .. Len(L) + 1 /\ r - 1 \in 1 - 1 .. Len(L)
          /\ r + 1 \in 1 .. Len(L) + 1 /\ Len(L) \in (r + 1) - 1 .. Len(L)
      BY <1>1, <2>1
    <3>2. QED
      BY <3>1, Parts
  <2>5. Without(L, d, p) \in Seq(Entry)
    BY <2>3, <2>4, ConcatProperties
  <2>6. QED
    BY <2>1, <2>2, <2>3, <2>5
<1>4. QED
  BY <1>2, <1>3

\* A call that rewrites a directory.
IsRewriting(w, c, d, L, next) ==
    /\ w \in Call
    /\ w.kind = c.kind /\ w.old = c.old /\ w.new = c.new /\ w.fid = c.fid /\ w.victim = c.victim
    /\ w.before = c.before
    /\ w.dir = d /\ w.blocks = Pack(L) /\ w.written = 0 /\ w.moved = FALSE /\ w.next = next
    /\ Len(w.blocks) > 0

\* What it is made of.
LEMMA Rewrites ==
    ASSUME NEW c \in Call, NEW d \in Directories, NEW L \in Seq(Entry), NEW next \in Phases
    PROVE  /\ IsRewriting(Rewriting(c, d, L, next), c, d, L, next)
           /\ Rewriting(c, d, L, next).phase = "write"
           /\ [Rewriting(c, d, L, next) EXCEPT !.phase = "relocate"].phase = "relocate"
           /\ IsRewriting([Rewriting(c, d, L, next) EXCEPT !.phase = "relocate"], c, d, L, next)
<1>1. Pack(L) \in Seq(Seq(Entry)) /\ Len(Pack(L)) > 0
  BY PackHolds
<1>2. "write" \in Phases /\ "relocate" \in Phases
  BY DEF Phases
<1> DEFINE w == Rewriting(c, d, L, next)
<1>3. w = [c EXCEPT !.phase = "write", !.dir = d, !.blocks = Pack(L), !.written = 0,
                    !.moved = FALSE, !.next = next]
  BY DEF Rewriting
<1> HIDE DEF w
<1>4. w \in Call
  BY <1>1, <1>2, <1>3 DEF Call
<1>5. /\ w.kind = c.kind /\ w.old = c.old /\ w.new = c.new /\ w.fid = c.fid /\ w.victim = c.victim
      /\ w.before = c.before
      /\ w.dir = d /\ w.blocks = Pack(L) /\ w.written = 0 /\ w.moved = FALSE /\ w.next = next
      /\ w.phase = "write"
  BY <1>3 DEF Call
<1> DEFINE z == [w EXCEPT !.phase = "relocate"]
<1>6. z \in Call
  BY <1>2, <1>4 DEF Call
<1>7. /\ z.kind = w.kind /\ z.old = w.old /\ z.new = w.new /\ z.fid = w.fid /\ z.victim = w.victim
      /\ z.before = w.before
      /\ z.dir = w.dir /\ z.blocks = w.blocks /\ z.written = w.written /\ z.moved = w.moved /\ z.next = w.next
      /\ z.phase = "relocate"
  BY <1>4 DEF Call
<1> HIDE DEF z
<1>8. IsRewriting(w, c, d, L, next)
  BY <1>1, <1>4, <1>5 DEF IsRewriting
<1>9. IsRewriting(z, c, d, L, next)
  BY <1>1, <1>5, <1>6, <1>7 DEF IsRewriting
<1>10. QED
  BY <1>5, <1>7, <1>8, <1>9 DEF w, z

\* The entry that names a call's file at a place.
EntryFor(c, p) == [name |-> p.name, version |-> p.version, fid |-> c.fid]

\* An insertion writes, if the directory has room, and else moves it first.
LEMMA Inserts ==
    ASSUME TypeInv, NEW c \in Call, NEW p \in Place, NEW next \in Phases
    PROVE  /\ IsRewriting(Inserting(c, p, next), c, p.dir, Append(List(p.dir), EntryFor(c, p)), next)
           /\ EntryFor(c, p) \in Entry
           /\ Append(List(p.dir), EntryFor(c, p)) \in Seq(Entry)
           /\ \/ /\ Inserting(c, p, next).phase = "write"
                 /\ Len(Inserting(c, p, next).blocks) <= header[p.dir].extent.count
              \/ /\ Inserting(c, p, next).phase = "relocate"
                 /\ Len(Inserting(c, p, next).blocks) > header[p.dir].extent.count
<1> DEFINE L == Append(List(p.dir), EntryFor(c, p))
           w == Rewriting(c, p.dir, L, next)
           z == [w EXCEPT !.phase = "relocate"]
<1>1. p.dir \in Directories /\ p.dir \in Fids /\ p.name \in Names /\ p.version \in Versions
  BY ConstantParts
<1>2. EntryFor(c, p) \in Entry
  BY <1>1, CallParts DEF EntryFor, Entry
<1>3. L \in Seq(Entry)
  BY <1>1, <1>2, ListReads, AppendProperties
<1> HIDE DEF L
<1>4. IsRewriting(w, c, p.dir, L, next) /\ w.phase = "write" /\ IsRewriting(z, c, p.dir, L, next) /\ z.phase = "relocate"
  BY <1>1, <1>3, Rewrites
<1>5. Inserting(c, p, next) = IF HasRoom(p.dir, w.blocks) THEN w ELSE z
  BY Zenon DEF Inserting, L, EntryFor
<1>6. Len(w.blocks) = Len(z.blocks) /\ Len(w.blocks) \in Nat /\ header[p.dir].extent.count \in Nat
  <2>1. w.blocks = Pack(L) /\ z.blocks = Pack(L)
    BY <1>4 DEF IsRewriting
  <2>2. QED
    BY <1>1, <1>3, <2>1, PackHolds, BlocksRead
<1>7. HasRoom(p.dir, w.blocks) <=> Len(w.blocks) <= header[p.dir].extent.count
  BY DEF HasRoom
<1> HIDE DEF w, z
<1>8. CASE HasRoom(p.dir, w.blocks)
  BY <1>2, <1>3, <1>4, <1>5, <1>7, <1>8 DEF L
<1>9. CASE ~HasRoom(p.dir, w.blocks)
  BY <1>2, <1>3, <1>4, <1>5, <1>6, <1>7, <1>9 DEF L
<1>10. QED
  BY <1>8, <1>9

\* A removal writes.
LEMMA Removals ==
    ASSUME TypeInv, NEW c \in Call, NEW p, p.dir \in Directories, NEW next \in Phases
    PROVE  /\ IsRewriting(Removing(c, p, next), c, p.dir, Without(List(p.dir), p.dir, p), next)
           /\ Without(List(p.dir), p.dir, p) \in Seq(Entry)
           /\ Removing(c, p, next).phase = "write"
<1>1. p.dir \in Fids
  BY ConstantParts
<1>2. List(p.dir) \in Seq(Entry)
  BY <1>1, ListReads
<1>3. Without(List(p.dir), p.dir, p) \in Seq(Entry)
  BY <1>2, RemovalLeaves
<1>4. Removing(c, p, next) = Rewriting(c, p.dir, Without(List(p.dir), p.dir, p), next)
  BY DEF Removing, Without
<1>5. IsRewriting(Rewriting(c, p.dir, Without(List(p.dir), p.dir, p), next), c, p.dir,
                  Without(List(p.dir), p.dir, p), next)
      /\ Rewriting(c, p.dir, Without(List(p.dir), p.dir, p), next).phase = "write"
  BY <1>3, Rewrites, ZenonT(60)
<1>6. QED
  BY <1>3, <1>4, <1>5, Zenon

\* What a list holds are entries.
LEMMA ListedAreEntries ==
    ASSUME TypeInv, NEW d \in Fids
    PROVE  /\ ToSet(List(d)) \subseteq Entry
           /\ \A e \in ToSet(List(d)) : e.name \in Names /\ e.version \in Versions /\ e.fid \in Fids
           /\ \A e : e \in ToSet(List(d)) <=> \E i \in 1 .. Len(List(d)) : e = List(d)[i]
<1>1. List(d) \in Seq(Entry)
  BY ListReads
<1>2. ToSet(List(d)) = {List(d)[i] : i \in 1 .. Len(List(d))}
  BY <1>1, LenProperties DEF ToSet
<1>3. \A i \in 1 .. Len(List(d)) : List(d)[i] \in Entry
  BY <1>1, ElementOfSeq
<1>4. ToSet(List(d)) \subseteq Entry
  BY <1>2, <1>3
<1>5. \A e \in Entry : e.name \in Names /\ e.version \in Versions /\ e.fid \in Fids
  BY DEF Entry
<1>6. QED
  BY <1>2, <1>4, <1>5

\* The highest version of a name is one of them.
LEMMA HighestIsListed ==
    ASSUME TypeInv, NEW d \in Directories, NEW n
    PROVE  /\ VersionsIn(d, n) \subseteq ToSet(List(d))
           /\ VersionsIn(d, n) # {} =>
                 /\ Highest(d, n) \in VersionsIn(d, n)
                 /\ \A x \in VersionsIn(d, n) : x.version <= Highest(d, n).version
           /\ NextVersion(d, n) \in Nat \ {0}
<1>1. VersionsIn(d, n) \subseteq ToSet(List(d))
  BY DEF VersionsIn
<1>2. \A e \in VersionsIn(d, n) : e.version \in Versions
  BY <1>1, ListedAreEntries, ConstantParts
<1>3. ASSUME VersionsIn(d, n) # {}
      PROVE  /\ Highest(d, n) \in VersionsIn(d, n)
             /\ \A x \in VersionsIn(d, n) : x.version <= Highest(d, n).version
  <2> DEFINE T == {e.version : e \in VersionsIn(d, n)}
  <2>1. T \subseteq 0 .. MaxVersion /\ T # {} /\ MaxVersion \in Nat
    BY <1>2, <1>3, SizeNumbers DEF Versions
  <2>2. PICK m \in T : \A v \in T : v <= m
    <3> HIDE DEF T
    <3>1. QED
      BY <2>1, MaxInSet
  <2>3. PICK e \in VersionsIn(d, n) : m = e.version
    BY <2>2
  <2>4. \A x \in VersionsIn(d, n) : x.version <= e.version
    BY <2>2, <2>3
  <2>5. QED
    BY <2>4 DEF Highest
<1>4. NextVersion(d, n) \in Nat \ {0}
  <2>1. CASE VersionsIn(d, n) = {}
    BY <2>1 DEF NextVersion
  <2>2. CASE VersionsIn(d, n) # {}
    <3>1. Highest(d, n).version \in Nat
      BY <1>2, <1>3, <2>2, ConstantParts
    <3>2. QED
      BY <2>2, <3>1 DEF NextVersion
  <2>3. QED
    BY <2>1, <2>2
<1>5. QED
  BY <1>1, <1>3, <1>4

\* All entries of the volume.
LEMMA EntriesAreKnown ==
    ASSUME TypeInv
    PROVE  AllEntries \in SUBSET Known
<1>1. \A d \in Directories : \A e \in ToSet(List(d)) :
         [dir |-> d, name |-> e.name, version |-> e.version, fid |-> e.fid] \in Known
  BY ListedAreEntries, ConstantParts DEF Known
<1>2. QED
  BY <1>1 DEF AllEntries

\* A call that differs in its phase alone.
SameBut(z, c) ==
    /\ z.kind = c.kind /\ z.old = c.old /\ z.new = c.new /\ z.fid = c.fid /\ z.victim = c.victim
    /\ z.before = c.before
    /\ z.dir = c.dir /\ z.blocks = c.blocks /\ z.written = c.written /\ z.moved = c.moved /\ z.next = c.next

\* One that goes on in another phase.
LEMMA PhaseChanges ==
    ASSUME NEW c \in Call, NEW phase \in Phases
    PROVE  /\ [c EXCEPT !.phase = phase] \in Call
           /\ [c EXCEPT !.phase = phase].phase = phase
           /\ SameBut([c EXCEPT !.phase = phase], c)
BY DEF Call, SameBut

\* The names of phases and kinds.
LEMMA PhaseNames ==
    /\ \A phase \in {"none", "insert", "enter", "restore", "name", "purge",
                     "free", "giveback", "relocate", "write", "record"} : phase \in Phases
    /\ \A kind \in {"none", "create", "createdir", "delete", "rename"} : kind \in Kinds
BY DEF Phases, Kinds

\* An error leaves a call sound, with no directory to rewrite.
LEMMA ErrorsAreSound ==
    ASSUME TypeInv
    PROVE  /\ AfterError \in Call /\ SoundCall(AfterError)
           /\ AfterError.phase \in {"none", "restore", "giveback"}
           /\ AfterError.phase = "none" => AfterError = NoCall
           /\ AfterError.phase = "restore" =>
                 SameBut(AfterError, call) /\ call.kind = "rename" /\ call.next = "name"
           /\ AfterError.phase = "giveback" => SameBut(AfterError, call) /\ call.kind = "createdir"
<1>1. call \in Call /\ SoundCall(call)
  BY DEF TypeInv
<1>2. CASE call.kind = "rename" /\ call.next = "name"
  <2> DEFINE z == [call EXCEPT !.phase = "restore"]
  <2>1. z \in Call /\ z.phase = "restore" /\ SameBut(z, call)
    BY <1>1, PhaseChanges, PhaseNames
  <2>2. AfterError = z
    BY <1>2 DEF AfterError
  <2> HIDE DEF z
  <2>3. SoundCall(z)
    BY <1>1, <1>2, <2>1 DEF SoundCall, SameBut
  <2>4. QED
    BY <1>2, <2>1, <2>2, <2>3
<1>3. CASE ~(call.kind = "rename" /\ call.next = "name") /\ call.kind = "createdir"
  <2> DEFINE z == [call EXCEPT !.phase = "giveback"]
  <2>1. z \in Call /\ z.phase = "giveback" /\ SameBut(z, call)
    BY <1>1, PhaseChanges, PhaseNames
  <2>2. AfterError = z
    BY <1>3 DEF AfterError
  <2> HIDE DEF z
  <2>3. SoundCall(z)
    BY <1>1, <1>3, <2>1 DEF SoundCall, SameBut
  <2>4. QED
    BY <1>3, <2>1, <2>2, <2>3
<1>4. CASE ~(call.kind = "rename" /\ call.next = "name") /\ call.kind # "createdir"
  <2>1. AfterError = NoCall
    BY <1>4 DEF AfterError, Ended
  <2>2. NoCall.phase = "none"
    BY DEF NoCall
  <2>3. QED
    BY <2>1, <2>2, ConstantParts
<1>5. QED
  BY <1>2, <1>3, <1>4

-----------------------------------------------------------------------------
(* Every step keeps the types.                                             *)

\* A new call.
LEMMA NewCalls ==
    ASSUME NEW kind \in Kinds, NEW old \in Target, NEW new \in Target, NEW f \in Fids
    PROVE  LET c == CallFor(kind, old, new, f)
           IN  /\ c \in Call /\ c.kind = kind /\ c.old = old /\ c.new = new /\ c.fid = f
               /\ c.victim = Root /\ c.phase = "none" /\ c.next = "none"
<1>1. NoCall \in Call
  BY ConstantParts
<1>2. NoCall.victim = Root /\ NoCall.phase = "none" /\ NoCall.next = "none"
  BY DEF NoCall
<1> DEFINE c == CallFor(kind, old, new, f)
<1>3. c = [NoCall EXCEPT !.kind = kind, !.old = old, !.new = new, !.fid = f]
  BY DEF CallFor
<1>4. c \in Call /\ c.kind = kind /\ c.old = old /\ c.new = new /\ c.fid = f
      /\ c.victim = NoCall.victim /\ c.phase = NoCall.phase /\ c.next = NoCall.next
  BY <1>1, <1>3 DEF Call
<1>5. QED
  BY <1>2, <1>4

\* A call as it was, but for the entries there were when it began.
LEMMA CallsBegin ==
    ASSUME NEW c \in Call, NEW known \in SUBSET Known
    PROVE  LET z == [c EXCEPT !.before = known]
           IN  /\ z \in Call /\ z.before = known
               /\ z.kind = c.kind /\ z.old = c.old /\ z.new = c.new /\ z.fid = c.fid /\ z.victim = c.victim
               /\ z.dir = c.dir /\ z.blocks = c.blocks /\ z.written = c.written /\ z.moved = c.moved
               /\ z.next = c.next /\ z.phase = c.phase
BY DEF Call

\* A call with another victim.
LEMMA VictimChanges ==
    ASSUME NEW c \in Call, NEW f \in Fids
    PROVE  LET z == [c EXCEPT !.victim = f]
           IN  /\ z \in Call /\ z.victim = f
               /\ z.kind = c.kind /\ z.old = c.old /\ z.new = c.new /\ z.fid = c.fid
               /\ z.before = c.before /\ z.next = c.next /\ z.phase = c.phase
BY DEF Call

\* A call with another target.
LEMMA TargetChanges ==
    ASSUME NEW c \in Call, NEW p \in Target
    PROVE  LET z == [c EXCEPT !.new = p]
           IN  /\ z \in Call /\ z.new = p
               /\ z.kind = c.kind /\ z.old = c.old /\ z.victim = c.victim /\ z.fid = c.fid
               /\ z.before = c.before /\ z.next = c.next /\ z.phase = c.phase
BY DEF Call

\* A call that writes has room, or is yet to have it.
LEMMA RewritingIsTyped ==
    ASSUME NEW w, NEW c, NEW d, NEW L, NEW next, IsRewriting(w, c, d, L, next),
           NEW h \in Header,
           \/ w.phase = "write"
           \/ w.phase = "relocate" /\ Len(w.blocks) > h.extent.count,
           c.kind = "rename" => c.old \in Place /\ c.new.name \in Names,
           c.kind \in {"create", "createdir"} => c.new \in Place,
           next = "insert" => c.kind = "createdir",
           next \in {"enter", "name"} => c.kind = "rename",
           next = "name" => c.new \in Place,
           next \in {"none", "insert", "enter", "name", "purge", "free"}
    PROVE  w \in Call /\ SoundCall(w) /\ CallHasRoom(w, h)
<1>1. /\ w \in Call /\ w.kind = c.kind /\ w.old = c.old /\ w.new = c.new
      /\ w.written = 0 /\ w.next = next /\ Len(w.blocks) > 0
  BY DEF IsRewriting
<1>2. w.phase \in {"write", "relocate"}
  OBVIOUS
<1>3. Len(w.blocks) \in Nat /\ h.extent.count \in Nat
  BY <1>1, CallParts, HeaderParts
<1>4. SoundCall(w)
  <2>1. 0 <= Len(w.blocks)
    BY <1>3
  <2>2. QED
    BY <1>1, <1>2, <2>1 DEF SoundCall
<1>5. CallHasRoom(w, h)
  BY <1>2, <1>3 DEF CallHasRoom
<1>6. QED
  BY <1>1, <1>4, <1>5

\* A call that has no directory to rewrite has no room to look for.
LEMMA OthersHaveRoom ==
    ASSUME NEW c, c.phase \notin {"relocate", "record"}, NEW h
    PROVE  CallHasRoom(c, h)
BY DEF CallHasRoom

\* A new volume.
LEMMA InitTyped == Init => TypeInv
<1> SUFFICES ASSUME Init PROVE TypeInv
  OBVIOUS
<1>1. header \in [Fids -> Header]
  <2> DEFINE first == [start |-> 0, count |-> 1]
             root == [live |-> TRUE, left |-> FALSE, extent |-> first, used |-> 1, link |-> NoPlace]
  <2>1. first \in GoodExtent
    <3>1. 0 \in Clusters /\ Cardinality(Clusters) \in Nat
      BY SizeNumbers, ExtentsAreRuns
    <3>2. Span(0, 1) = {0}
      BY DEF Span
    <3>3. Cardinality({0}) <= Cardinality(Clusters) /\ Cardinality({0}) = 1
      <4>1. {0} \in SUBSET Clusters
        BY <3>1
      <4>2. QED
        BY <4>1, ClustersAreNumbers, FS_Subset, FS_Singleton
    <3>4. first \in Extent
      BY <3>1, <3>3 DEF Extent
    <3>5. ClustersOf(first) \subseteq Clusters
      BY <3>1, <3>2 DEF ClustersOf
    <3>6. QED
      BY <3>4, <3>5 DEF GoodExtent
  <2>2. root \in Header
    <3>1. first.count = 1
      OBVIOUS
    <3> HIDE DEF first
    <3>2. QED
      BY <2>1, <3>1 DEF Header
  <2>3. \A f \in Fids : (IF f = Root THEN root ELSE NoHeader) \in Header
    <3> HIDE DEF root
    <3>1. QED
      BY <2>2, ConstantParts
  <2> HIDE DEF root
  <2>4. header = [f \in Fids |-> IF f = Root THEN root ELSE NoHeader]
    BY DEF Init, root
  <2>5. QED
    BY <2>3, <2>4
<1>2. block \in [Clusters -> Block]
  <2>1. DirectoryBlock(<<>>) \in Block /\ Zeroed \in Block
    BY EmptySeq DEF DirectoryBlock, Zeroed, Block
  <2>2. block = [c \in Clusters |-> IF c = 0 THEN DirectoryBlock(<<>>) ELSE Zeroed]
    BY DEF Init
  <2>3. QED
    BY <2>1, <2>2
<1>3. free \subseteq Clusters /\ call = NoCall /\ calls \in 0 .. MaxCalls
  BY SizeNumbers DEF Init
<1>4. CallHasRoom(call, header[call.dir])
  BY <1>3, OthersHaveRoom DEF NoCall
<1>5. QED
  BY <1>1, <1>2, <1>3, <1>4, ConstantParts DEF TypeInv

-----------------------------------------------------------------------------
(* What the steps that rewrite a directory do.                             *)

\* A header as it is made.
LEMMA NewHeaders ==
    ASSUME NEW p \in Place
    PROVE  /\ NewHeader(p) \in Header /\ NewHeader(p).live /\ ~NewHeader(p).left
           /\ NewHeader(p).extent = NoExtent /\ NewHeader(p).used = 0 /\ NewHeader(p).link = p
<1>1. NewHeader(p) = [live |-> TRUE, left |-> FALSE, extent |-> NoExtent, used |-> 0, link |-> p]
  <2>1. NewHeader(p) = [[live |-> FALSE, left |-> FALSE, extent |-> NoExtent, used |-> 0, link |-> NoPlace]
                          EXCEPT !.live = TRUE, !.link = p]
    BY DEF NewHeader, NoHeader
  <2>2. QED
    BY <2>1
<1>2. NoExtent.count = 0
  BY DEF NoExtent
<1>3. QED
  BY <1>1, <1>2 DEF Header

\* Blocks of which the directory has enough, or for which it moves.
FitsOrMoves(w, h) ==
    \/ w.phase = "write" /\ Len(w.blocks) <= h.extent.count
    \/ w.phase = "relocate" /\ Len(w.blocks) > h.extent.count

\* A call that begins to rewrite a directory.
LEMMA RewritingsBegin ==
    ASSUME TypeInv, NEW c \in Call, NEW d, NEW L, NEW next, NEW w, IsRewriting(w, c, d, L, next)
    PROVE  LET z == [w EXCEPT !.before = AllEntries]
               b == [c EXCEPT !.before = AllEntries]
           IN  /\ IsRewriting(z, b, d, L, next) /\ z.phase = w.phase /\ z.blocks = w.blocks
               /\ b \in Call /\ b.before = AllEntries
               /\ b.kind = c.kind /\ b.old = c.old /\ b.new = c.new /\ b.fid = c.fid /\ b.victim = c.victim
<1>1. AllEntries \in SUBSET Known
  BY EntriesAreKnown
<1>2. w \in Call
  BY DEF IsRewriting
<1>3. QED
  BY <1>1, <1>2, CallsBegin DEF IsRewriting

\* CreateFile inserts an entry for a new file.
LEMMA CreateFileDoes ==
    ASSUME TypeInv, NEW d \in Directories, NEW n \in Names, NEW version \in Versions \cup {0}, NEW f \in Files,
           CreateFile(d, n, version, f)
    PROVE  \E p \in Place, c \in Call :
              /\ p.dir = d /\ p.name = n /\ MayInsert(p) /\ Opens(d)
              /\ c.kind = "create" /\ c.old = NoPlace /\ c.new = p /\ c.fid = f /\ c.victim = Root
              /\ c.before = AllEntries
              /\ IsRewriting(call', c, d, Append(List(d), EntryFor(c, p)), "purge")
              /\ FitsOrMoves(call', header[d])
              /\ header' = [header EXCEPT ![f] = NewHeader(p)]
<1> DEFINE v == IF version = 0 THEN NextVersion(d, n) ELSE version
           p == [dir |-> d, name |-> n, version |-> v]
           a == CallFor("create", NoPlace, p, f)
           w == Inserting(a, p, "purge")
           c == [a EXCEPT !.before = AllEntries]
<1>1. MayInsert(p) /\ v <= MaxVersion /\ Opens(d) /\ header' = [header EXCEPT ![f] = NewHeader(p)]
      /\ call' = [w EXCEPT !.before = AllEntries]
  BY Zenon DEF CreateFile, Begin
<1>2. v \in Versions
  <2>1. v \in Nat \ {0}
    BY HighestIsListed, SizeNumbers DEF Versions
  <2>2. QED
    BY <1>1, <2>1, SizeNumbers DEF Versions
<1> HIDE DEF v
<1>3. p \in Place /\ p.dir = d /\ p.name = n
  BY <1>2 DEF Place
<1> HIDE DEF p
<1>4. a \in Call /\ a.kind = "create" /\ a.old = NoPlace /\ a.new = p /\ a.fid = f /\ a.victim = Root
  <2>1. p \in Target /\ f \in Fids /\ NoPlace \in Target
    BY <1>3, ConstantParts DEF Fids
  <2>2. QED
    BY <2>1, NewCalls, PhaseNames
<1> HIDE DEF a
<1>5. /\ IsRewriting(w, a, d, Append(List(d), EntryFor(a, p)), "purge")
      /\ FitsOrMoves(w, header[d])
  BY <1>3, <1>4, Inserts, PhaseNames DEF FitsOrMoves
<1> HIDE DEF w
<1>6. /\ IsRewriting(call', c, d, Append(List(d), EntryFor(a, p)), "purge")
      /\ call'.phase = w.phase /\ call'.blocks = w.blocks
      /\ c \in Call /\ c.before = AllEntries
      /\ c.kind = a.kind /\ c.old = a.old /\ c.new = a.new /\ c.fid = a.fid /\ c.victim = a.victim
  BY <1>1, <1>4, <1>5, RewritingsBegin
<1>7. EntryFor(a, p) = EntryFor(c, p)
  BY <1>6 DEF EntryFor
<1> HIDE DEF c
<1>8. FitsOrMoves(call', header[d])
  BY <1>5, <1>6 DEF FitsOrMoves
<1>9. QED
  BY <1>1, <1>3, <1>4, <1>6, <1>7, <1>8

\* CreateDirectory makes a directory with a block of no entries.
LEMMA CreateDirectoryDoes ==
    ASSUME TypeInv, NEW d \in Directories, NEW n \in Names, NEW f \in Subdirectories,
           CreateDirectory(d, n, f)
    PROVE  \E p \in Place, c \in Call :
              /\ p.dir = d /\ p.name = n /\ p.version = 1 /\ Opens(d) /\ Readable(d) /\ VersionsIn(d, n) = {}
              /\ c.kind = "createdir" /\ c.old = NoPlace /\ c.new = p /\ c.fid = f /\ c.victim = Root
              /\ c.before = AllEntries
              /\ IsRewriting(call', c, f, <<>>, "insert")
              /\ call'.phase = "relocate"
              /\ header' = [header EXCEPT ![f] = NewHeader(p)]
<1> DEFINE p == [dir |-> d, name |-> n, version |-> 1]
           a == CallFor("createdir", NoPlace, p, f)
           r == Rewriting(a, f, <<>>, "insert")
           w == [r EXCEPT !.phase = "relocate"]
           c == [a EXCEPT !.before = AllEntries]
<1>1. Opens(d) /\ Readable(d) /\ VersionsIn(d, n) = {} /\ header' = [header EXCEPT ![f] = NewHeader(p)]
      /\ call' = [w EXCEPT !.before = AllEntries]
  BY Zenon DEF CreateDirectory, Begin
<1>2. p \in Place /\ p.dir = d /\ p.name = n /\ p.version = 1
  BY ConstantParts DEF Place
<1> HIDE DEF p
<1>3. f \in Directories /\ f \in Fids
  BY DEF Directories, Fids
<1>4. a \in Call /\ a.kind = "createdir" /\ a.old = NoPlace /\ a.new = p /\ a.fid = f /\ a.victim = Root
  BY <1>2, <1>3, NewCalls, PhaseNames, ConstantParts
<1> HIDE DEF a
<1>5. IsRewriting(w, a, f, <<>>, "insert") /\ w.phase = "relocate"
  <2>1. "insert" \in Phases /\ <<>> \in Seq(Entry)
    BY PhaseNames, EmptySeq
  <2>2. \A L \in Seq(Entry) :
           /\ IsRewriting([Rewriting(a, f, L, "insert") EXCEPT !.phase = "relocate"], a, f, L, "insert")
           /\ [Rewriting(a, f, L, "insert") EXCEPT !.phase = "relocate"].phase = "relocate"
    BY <1>3, <1>4, <2>1, Rewrites
  <2>3. QED
    BY <2>1, <2>2, Zenon
<1> HIDE DEF w
<1>6. /\ IsRewriting(call', c, f, <<>>, "insert")
      /\ call'.phase = w.phase
      /\ c \in Call /\ c.before = AllEntries
      /\ c.kind = a.kind /\ c.old = a.old /\ c.new = a.new /\ c.fid = a.fid /\ c.victim = a.victim
  BY <1>1, <1>4, <1>5, RewritingsBegin
<1> HIDE DEF c
<1>7. QED
  BY <1>1, <1>2, <1>4, <1>5, <1>6

\* DeleteFile takes away a file's entry.
LEMMA DeleteFileDoes ==
    ASSUME TypeInv, NEW d \in Directories, NEW e \in ToSet(List(d)), DeleteFile(d, e)
    PROVE  \E c \in Call :
              /\ At(e, d) \in Place /\ Opens(d) /\ Readable(d) /\ Deletable(e.fid)
              /\ c.kind = "delete" /\ c.old = At(e, d) /\ c.new = NoPlace /\ c.fid = e.fid /\ c.victim = e.fid
              /\ c.before = AllEntries
              /\ IsRewriting(call', c, d, Without(List(d), d, At(e, d)), "free")
              /\ call'.phase = "write" /\ UNCHANGED header
<1> DEFINE p == At(e, d)
           b == CallFor("delete", p, NoPlace, e.fid)
           a == [b EXCEPT !.victim = e.fid]
           w == Removing(a, p, "free")
           c == [a EXCEPT !.before = AllEntries]
<1>1. Opens(d) /\ Readable(d) /\ Deletable(e.fid) /\ UNCHANGED header /\ call' = [w EXCEPT !.before = AllEntries]
  BY Zenon DEF DeleteFile, Begin
<1>2. p \in Place /\ p.dir = d /\ e.fid \in Fids
  BY ListedAreEntries, ConstantParts DEF At, Place
<1> HIDE DEF p
<1>3. b \in Call /\ b.kind = "delete" /\ b.old = p /\ b.new = NoPlace /\ b.fid = e.fid
  BY <1>2, NewCalls, PhaseNames, ConstantParts
<1> HIDE DEF b
<1>4. a \in Call /\ a.kind = "delete" /\ a.old = p /\ a.new = NoPlace /\ a.fid = e.fid /\ a.victim = e.fid
  BY <1>2, <1>3, VictimChanges
<1> HIDE DEF a
<1>5. IsRewriting(w, a, d, Without(List(d), d, p), "free") /\ w.phase = "write"
  BY <1>2, <1>4, Removals, PhaseNames, ConstantParts
<1> HIDE DEF w
<1>6. /\ IsRewriting(call', c, d, Without(List(d), d, p), "free")
      /\ call'.phase = w.phase
      /\ c \in Call /\ c.before = AllEntries
      /\ c.kind = a.kind /\ c.old = a.old /\ c.new = a.new /\ c.fid = a.fid /\ c.victim = a.victim
  BY <1>1, <1>4, <1>5, RewritingsBegin
<1> HIDE DEF c
<1>7. QED
  BY <1>1, <1>2, <1>4, <1>5, <1>6 DEF p

\* Rename takes away the old entry.
LEMMA RenameDoes ==
    ASSUME TypeInv, NEW d \in Directories, NEW t \in Directories, NEW n \in Names, NEW version \in Versions \cup {0},
           NEW e \in ToSet(List(d)), Rename(d, e, t, n, version)
    PROVE  \E q \in Target, c \in Call :
              /\ At(e, d) \in Place /\ Opens(d) /\ Readable(d) /\ IsThere(e.fid) /\ MayMove(e.fid, t)
              /\ q.dir = t /\ q.name = n /\ q.version = version /\ Opens(t)
              /\ c.kind = "rename" /\ c.old = At(e, d) /\ c.new = q /\ c.fid = e.fid /\ c.victim = Root
              /\ c.before = AllEntries
              /\ IsRewriting(call', c, d, Without(List(d), d, At(e, d)), "enter")
              /\ call'.phase = "write" /\ UNCHANGED header
<1> DEFINE p == At(e, d)
           q == [dir |-> t, name |-> n, version |-> version]
           a == CallFor("rename", p, q, e.fid)
           w == Removing(a, p, "enter")
           c == [a EXCEPT !.before = AllEntries]
<1>1. /\ Opens(d) /\ Readable(d) /\ IsThere(e.fid) /\ MayMove(e.fid, t) /\ Opens(t)
      /\ UNCHANGED header /\ call' = [w EXCEPT !.before = AllEntries]
  BY Zenon DEF Rename, Begin
<1>2. p \in Place /\ p.dir = d /\ e.fid \in Fids
  BY ListedAreEntries, ConstantParts DEF At, Place
<1> HIDE DEF p
<1>3. q \in Target /\ q.dir = t /\ q.name = n /\ q.version = version
  BY ConstantParts DEF Target
<1> HIDE DEF q
<1>4. a \in Call /\ a.kind = "rename" /\ a.old = p /\ a.new = q /\ a.fid = e.fid /\ a.victim = Root
  BY <1>2, <1>3, NewCalls, PhaseNames, ConstantParts
<1> HIDE DEF a
<1>5. IsRewriting(w, a, d, Without(List(d), d, p), "enter") /\ w.phase = "write"
  BY <1>2, <1>4, Removals, PhaseNames, ConstantParts
<1> HIDE DEF w
<1>6. /\ IsRewriting(call', c, d, Without(List(d), d, p), "enter")
      /\ call'.phase = w.phase
      /\ c \in Call /\ c.before = AllEntries
      /\ c.kind = a.kind /\ c.old = a.old /\ c.new = a.new /\ c.fid = a.fid /\ c.victim = a.victim
  BY <1>1, <1>4, <1>5, RewritingsBegin
<1> HIDE DEF c
<1>7. QED
  BY <1>1, <1>2, <1>3, <1>4, <1>5, <1>6 DEF p

\* EnterDirectory inserts the new directory's entry.
LEMMA EnterDirectoryDoes ==
    ASSUME TypeInv, EnterDirectory
    PROVE  /\ call.kind = "createdir" /\ call.new \in Place /\ UNCHANGED header
           /\ IsRewriting(call', call, call.new.dir, Append(List(call.new.dir), EntryFor(call, call.new)), "none")
           /\ FitsOrMoves(call', header[call.new.dir])
<1>1. call.phase = "insert" /\ call' = Inserting(call, call.new, "none") /\ UNCHANGED header
  BY DEF EnterDirectory
<1>2. call \in Call /\ call.kind = "createdir" /\ call.new \in Place
  BY <1>1 DEF TypeInv, SoundCall
<1>3. QED
  BY <1>1, <1>2, Inserts, PhaseNames DEF FitsOrMoves

\* Enter inserts the new entry of a file that is renamed.
LEMMA EnterDoes ==
    ASSUME TypeInv, Enter
    PROVE  \E p \in Place, c \in Call :
              /\ p.dir = call.new.dir /\ p.name = call.new.name /\ MayInsert(p) /\ UNCHANGED header
              /\ call.kind = "rename" /\ c.kind = "rename" /\ c.old = call.old /\ c.new = p /\ c.fid = call.fid
              /\ c.victim = call.victim /\ c.before = call.before
              /\ IsRewriting(call', c, p.dir, Append(List(p.dir), EntryFor(c, p)), "name")
              /\ FitsOrMoves(call', header[p.dir])
<1> DEFINE p == Resolved(call.new)
           c == [call EXCEPT !.new = p]
<1>1. call.phase = "enter" /\ MayEnter(call.new) /\ call' = Inserting(c, p, "name") /\ UNCHANGED header
  BY DEF Enter
<1>2. call \in Call /\ call.kind = "rename" /\ call.new.name \in Names /\ call.new \in Target
  BY <1>1, CallParts DEF TypeInv, SoundCall
<1>3. MayInsert(p) /\ p.version <= MaxVersion
  BY <1>1 DEF MayEnter
<1> DEFINE v == IF call.new.version = 0 THEN NextVersion(call.new.dir, call.new.name) ELSE call.new.version
<1>4. p = [call.new EXCEPT !.version = v]
  BY DEF Resolved
<1>5. call.new.dir \in Directories /\ call.new.version \in Nat
  BY <1>2, ConstantParts
<1>6. v \in Nat \ {0}
  BY <1>5, HighestIsListed
<1> HIDE DEF p, v
<1>7. p.dir = call.new.dir /\ p.name = call.new.name /\ p.version = v
      /\ p = [dir |-> p.dir, name |-> p.name, version |-> p.version]
  BY <1>2, <1>4 DEF Target
<1>8. v \in Versions
  BY <1>3, <1>6, <1>7, SizeNumbers DEF Versions
<1>9. p \in Place
  BY <1>2, <1>5, <1>7, <1>8 DEF Place
<1>10. c \in Call /\ c.kind = call.kind /\ c.old = call.old /\ c.new = p /\ c.fid = call.fid
       /\ c.victim = call.victim /\ c.before = call.before
  BY <1>2, <1>9, TargetChanges, ConstantParts
<1> HIDE DEF c
<1>11. /\ IsRewriting(call', c, p.dir, Append(List(p.dir), EntryFor(c, p)), "name")
       /\ FitsOrMoves(call', header[p.dir])
  BY <1>1, <1>9, <1>10, Inserts, PhaseNames DEF FitsOrMoves
<1>12. QED
  BY <1>1, <1>2, <1>3, <1>7, <1>9, <1>10, <1>11

\* Restore inserts the old one.
LEMMA RestoreDoes ==
    ASSUME TypeInv, Restore
    PROVE  /\ call.kind = "rename" /\ call.old \in Place /\ MayInsert(call.old) /\ UNCHANGED header
           /\ IsRewriting(call', call, call.old.dir, Append(List(call.old.dir), EntryFor(call, call.old)), "none")
           /\ FitsOrMoves(call', header[call.old.dir])
<1>1. call.phase = "restore" /\ MayInsert(call.old) /\ call' = Inserting(call, call.old, "none") /\ UNCHANGED header
  BY DEF Restore
<1>2. call \in Call /\ call.kind = "rename" /\ call.old \in Place
  BY <1>1 DEF TypeInv, SoundCall
<1>3. QED
  BY <1>1, <1>2, Inserts, PhaseNames DEF FitsOrMoves

\* Purge takes away the entry of a version that goes.
LEMMA PurgeDoes ==
    ASSUME TypeInv, Purge
    PROVE  \E e \in VersionsIn(call.new.dir, call.new.name), c \in Call :
              /\ call.new.dir \in Directories /\ e \in Excess(call.new)
              /\ At(e, call.new.dir) \in Place /\ Readable(call.new.dir) /\ Deletable(e.fid)
              /\ c.kind = call.kind /\ c.old = call.old /\ c.new = call.new /\ c.fid = call.fid
              /\ c.victim = e.fid /\ c.before = call.before
              /\ IsRewriting(call', c, call.new.dir,
                             Without(List(call.new.dir), call.new.dir, At(e, call.new.dir)), "free")
              /\ call'.phase = "write" /\ UNCHANGED header
<1>1. PICK e \in Excess(call.new) :
        /\ Deletable(e.fid)
        /\ call' = Removing([call EXCEPT !.victim = e.fid], At(e, call.new.dir), "free")
        /\ Readable(call.new.dir) /\ UNCHANGED header
  BY DEF Purge
<1> DEFINE d == call.new.dir
           c == [call EXCEPT !.victim = e.fid]
           p == At(e, d)
<1>2. call \in Call /\ call.new \in Target /\ d \in Directories /\ d \in Fids
  BY CallParts, ConstantParts DEF TypeInv
<1>3. e \in VersionsIn(d, call.new.name)
  <2>1. \A x \in Countable(call.new) : x \in VersionsIn(d, call.new.name)
    BY DEF Countable
  <2>2. e \in Countable(call.new)
    BY <1>1 DEF Excess
  <2>3. QED
    BY <2>1, <2>2
<1>4. e \in ToSet(List(d))
  BY <1>3 DEF VersionsIn
<1>5. p \in Place /\ p.dir = d /\ e.fid \in Fids
  BY <1>2, <1>4, ListedAreEntries DEF At, Place
<1> HIDE DEF p
<1>6. c \in Call /\ c.kind = call.kind /\ c.old = call.old /\ c.new = call.new /\ c.fid = call.fid
      /\ c.victim = e.fid /\ c.before = call.before
  BY <1>2, <1>5, VictimChanges
<1>7. call' = Removing(c, p, "free")
  BY <1>1 DEF p
<1> HIDE DEF c
<1>8. IsRewriting(call', c, d, Without(List(d), d, p), "free") /\ call'.phase = "write"
  BY <1>2, <1>5, <1>6, <1>7, Removals, PhaseNames
<1>9. QED
  BY <1>1, <1>2, <1>3, <1>5, <1>6, <1>8 DEF p

\* A run that is found is free, and an extent.
LEMMA NewRunIsFree ==
    ASSUME TypeInv, NEW k \in Nat \ {0}, RunStarts(free, k) # {}
    PROVE  /\ NewRun(k) \in GoodExtent /\ NewRun(k).count = k /\ NewRun(k).start \in Nat
           /\ ClustersOf(NewRun(k)) \subseteq free
<1> DEFINE s == Min(RunStarts(free, k))
<1>1. free \subseteq Clusters /\ Clusters \subseteq Nat /\ IsFiniteSet(Clusters)
  BY ClustersAreNumbers DEF TypeInv
<1>2. s \in RunStarts(free, k)
  <2>1. RunStarts(free, k) \subseteq Nat
    BY <1>1 DEF RunStarts
  <2>2. QED
    BY <2>1, MinInSet
<1>3. NewRun(k) = [start |-> s, count |-> k]
  BY DEF NewRun, FindFree
<1> HIDE DEF s
<1>4. s \in free /\ Span(s, k) \subseteq free /\ s \in Nat
  BY <1>1, <1>2 DEF RunStarts
<1>5. k \in 1 .. Cardinality(Clusters)
  <2>1. IsFiniteSet(Span(s, k)) /\ Cardinality(Span(s, k)) = k
    BY <1>4, SpanSize
  <2>2. Span(s, k) \in SUBSET Clusters
    BY <1>1, <1>4
  <2>3. k <= Cardinality(Clusters) /\ Cardinality(Clusters) \in Nat
    BY <1>1, <2>1, <2>2, FS_Subset, FS_CardinalityType
  <2>4. QED
    BY <2>3
<1>6. NewRun(k) \in Extent /\ NewRun(k).start = s /\ NewRun(k).count = k
  BY <1>1, <1>3, <1>4, <1>5 DEF Extent
<1>7. ClustersOf(NewRun(k)) = Span(s, k)
  BY <1>6 DEF ClustersOf
<1>8. QED
  BY <1>1, <1>4, <1>6, <1>7 DEF GoodExtent

-----------------------------------------------------------------------------
(* Every step keeps the types.                                             *)

\* A step that rewrites a directory, which keeps its extent.
LEMMA RewritingStepTyped ==
    ASSUME TypeInv, NEW c \in Call, NEW d \in Directories, NEW L, NEW next,
           IsRewriting(call', c, d, L, next),
           header' \in [Fids -> Header], header'[d].extent = header[d].extent,
           FitsOrMoves(call', header[d]) \/ call'.phase = "write",
           UNCHANGED <<block, free>>, calls' \in 0 .. MaxCalls,
           c.kind = "rename" => c.old \in Place /\ c.new.name \in Names,
           c.kind \in {"create", "createdir"} => c.new \in Place,
           next = "insert" => c.kind = "createdir",
           next \in {"enter", "name"} => c.kind = "rename",
           next = "name" => c.new \in Place,
           next \in {"none", "insert", "enter", "name", "purge", "free"}
    PROVE  TypeInv'
<1>1. d \in Fids /\ header'[d] \in Header
  BY ConstantParts
<1>2. call'.dir = d
  BY DEF IsRewriting
<1>3. \/ call'.phase = "write"
      \/ call'.phase = "relocate" /\ Len(call'.blocks) > header'[d].extent.count
  BY DEF FitsOrMoves
<1>4. call' \in Call /\ SoundCall(call') /\ CallHasRoom(call', header'[d])
  BY <1>1, <1>3, RewritingIsTyped
<1>5. QED
  BY <1>2, <1>4 DEF TypeInv

\* A step to a call that rewrites nothing.
LEMMA OtherStepTyped ==
    ASSUME TypeInv, header' \in [Fids -> Header], UNCHANGED block, free' \subseteq Clusters, UNCHANGED calls,
           call' \in Call, SoundCall(call'), call'.phase \notin {"relocate", "record"}
    PROVE  TypeInv'
BY OthersHaveRoom DEF TypeInv

\* CreateFile keeps the types.
LEMMA CreateFileTyped ==
    ASSUME TypeInv, NEW d \in Directories, NEW n \in Names, NEW version \in Versions \cup {0}, NEW f \in Files,
           CreateFile(d, n, version, f)
    PROVE  TypeInv'
<1>1. PICK p \in Place, c \in Call :
              /\ c.kind = "create" /\ c.new = p
              /\ IsRewriting(call', c, d, Append(List(d), EntryFor(c, p)), "purge")
              /\ FitsOrMoves(call', header[d])
              /\ header' = [header EXCEPT ![f] = NewHeader(p)]
  BY CreateFileDoes
<1>2. header[f].extent = NoExtent /\ UNCHANGED <<block, free>> /\ calls' = calls + 1 /\ calls < MaxCalls
  BY DEF CreateFile, Fresh, Begin, Idle
<1>3. header \in [Fids -> Header] /\ f \in Fids /\ d \in Fids /\ calls \in 0 .. MaxCalls /\ MaxCalls \in Nat
  BY ConstantParts, SizeNumbers DEF TypeInv, Fids
<1>4. header' \in [Fids -> Header] /\ header'[d].extent = header[d].extent
  BY <1>1, <1>2, <1>3, NewHeaders
<1>5. calls' \in 0 .. MaxCalls
  BY <1>2, <1>3
<1>6. QED
  BY <1>1, <1>2, <1>4, <1>5, RewritingStepTyped

\* CreateDirectory keeps them.
LEMMA CreateDirectoryTyped ==
    ASSUME TypeInv, NEW d \in Directories, NEW n \in Names, NEW f \in Subdirectories, CreateDirectory(d, n, f)
    PROVE  TypeInv'
<1>1. PICK p \in Place, c \in Call :
              /\ c.kind = "createdir" /\ c.new = p
              /\ IsRewriting(call', c, f, <<>>, "insert")
              /\ call'.phase = "relocate"
              /\ header' = [header EXCEPT ![f] = NewHeader(p)]
  BY CreateDirectoryDoes
<1>2. header[f].extent = NoExtent /\ UNCHANGED <<block, free>> /\ calls' = calls + 1 /\ calls < MaxCalls
  BY DEF CreateDirectory, Fresh, Begin, Idle
<1>3. header \in [Fids -> Header] /\ f \in Directories /\ f \in Fids /\ calls \in 0 .. MaxCalls /\ MaxCalls \in Nat
  BY SizeNumbers DEF TypeInv, Directories, Fids
<1>4. header' \in [Fids -> Header] /\ header'[f].extent = header[f].extent
  BY <1>1, <1>2, <1>3, NewHeaders
<1>5. calls' \in 0 .. MaxCalls
  BY <1>2, <1>3
<1>6. FitsOrMoves(call', header[f])
  <2>1. Len(call'.blocks) > 0
    BY <1>1 DEF IsRewriting
  <2>2. header[f].extent.count = 0
    BY <1>2 DEF NoExtent
  <2>3. QED
    BY <1>1, <2>1, <2>2 DEF FitsOrMoves
<1>7. QED
  BY <1>1, <1>2, <1>3, <1>4, <1>5, <1>6, RewritingStepTyped

\* DeleteFile and Rename keep them.
LEMMA RemovalTyped ==
    ASSUME TypeInv, NEW d \in Directories, NEW e \in ToSet(List(d)),
           \/ DeleteFile(d, e)
           \/ \E t \in Directories, n \in Names, version \in Versions \cup {0} : Rename(d, e, t, n, version)
    PROVE  TypeInv'
<1>1. header \in [Fids -> Header] /\ calls \in 0 .. MaxCalls /\ MaxCalls \in Nat
  BY SizeNumbers DEF TypeInv
<1>2. CASE DeleteFile(d, e)
  <2>1. PICK c \in Call :
              /\ c.kind = "delete"
              /\ IsRewriting(call', c, d, Without(List(d), d, At(e, d)), "free")
              /\ call'.phase = "write" /\ UNCHANGED header
    BY <1>2, DeleteFileDoes
  <2>2. UNCHANGED <<block, free>> /\ calls' = calls + 1 /\ calls < MaxCalls
    BY <1>2 DEF DeleteFile, Begin, Idle
  <2>3. calls' \in 0 .. MaxCalls
    BY <1>1, <2>2
  <2>4. QED
    BY <1>1, <2>1, <2>2, <2>3, RewritingStepTyped
<1>3. CASE \E t \in Directories, n \in Names, version \in Versions \cup {0} : Rename(d, e, t, n, version)
  <2>1. PICK t \in Directories, n \in Names, version \in Versions \cup {0} : Rename(d, e, t, n, version)
    BY <1>3
  <2>2. PICK q \in Target, c \in Call :
              /\ At(e, d) \in Place /\ q.name = n
              /\ c.kind = "rename" /\ c.old = At(e, d) /\ c.new = q
              /\ IsRewriting(call', c, d, Without(List(d), d, At(e, d)), "enter")
              /\ call'.phase = "write" /\ UNCHANGED header
    BY <2>1, RenameDoes
  <2>3. UNCHANGED <<block, free>> /\ calls' = calls + 1 /\ calls < MaxCalls
    BY <2>1 DEF Rename, Begin, Idle
  <2>4. calls' \in 0 .. MaxCalls
    BY <1>1, <2>3
  <2>5. QED
    BY <1>1, <2>2, <2>3, <2>4, RewritingStepTyped
<1>4. QED
  BY <1>2, <1>3

\* So do the steps of a call that rewrite another directory.
LEMMA NextRewritingTyped ==
    ASSUME TypeInv, EnterDirectory \/ Enter \/ Restore \/ Purge
    PROVE  TypeInv'
<1>1. header \in [Fids -> Header] /\ calls \in 0 .. MaxCalls /\ call \in Call /\ SoundCall(call)
  BY DEF TypeInv
<1>2. UNCHANGED <<block, free>> /\ UNCHANGED calls
  BY DEF EnterDirectory, Enter, Restore, Purge
<1>3. CASE EnterDirectory
  <2>1. /\ call.kind = "createdir" /\ call.new \in Place /\ UNCHANGED header
        /\ IsRewriting(call', call, call.new.dir, Append(List(call.new.dir), EntryFor(call, call.new)), "none")
        /\ FitsOrMoves(call', header[call.new.dir])
    BY <1>3, EnterDirectoryDoes
  <2>2. call.new.dir \in Directories
    BY <2>1, ConstantParts
  <2>3. QED
    BY <1>1, <1>2, <2>1, <2>2, RewritingStepTyped
<1>4. CASE Enter
  <2>1. PICK p \in Place, c \in Call :
              /\ p.name = call.new.name /\ UNCHANGED header
              /\ call.kind = "rename" /\ c.kind = "rename" /\ c.old = call.old /\ c.new = p
              /\ IsRewriting(call', c, p.dir, Append(List(p.dir), EntryFor(c, p)), "name")
              /\ FitsOrMoves(call', header[p.dir])
    BY <1>4, EnterDoes
  <2>2. p.dir \in Directories /\ p.name \in Names
    BY <2>1, ConstantParts
  <2>3. c.old \in Place
    BY <1>1, <2>1 DEF SoundCall
  <2>4. QED
    BY <1>1, <1>2, <2>1, <2>2, <2>3, RewritingStepTyped
<1>5. CASE Restore
  <2>1. /\ call.kind = "rename" /\ call.old \in Place /\ UNCHANGED header
        /\ IsRewriting(call', call, call.old.dir, Append(List(call.old.dir), EntryFor(call, call.old)), "none")
        /\ FitsOrMoves(call', header[call.old.dir])
    BY <1>5, RestoreDoes
  <2>2. call.old.dir \in Directories /\ call.new.name \in Names
    BY <1>1, <2>1, ConstantParts DEF SoundCall
  <2>3. QED
    BY <1>1, <1>2, <2>1, <2>2, RewritingStepTyped
<1>6. CASE Purge
  <2>1. PICK e \in VersionsIn(call.new.dir, call.new.name), c \in Call :
              /\ call.new.dir \in Directories
              /\ c.kind = call.kind /\ c.old = call.old /\ c.new = call.new
              /\ IsRewriting(call', c, call.new.dir,
                             Without(List(call.new.dir), call.new.dir, At(e, call.new.dir)), "free")
              /\ call'.phase = "write" /\ UNCHANGED header
    BY <1>6, PurgeDoes
  <2>2. /\ c.kind = "rename" => c.old \in Place /\ c.new.name \in Names
        /\ c.kind \in {"create", "createdir"} => c.new \in Place
    BY <1>1, <2>1 DEF SoundCall
  <2>3. QED
    BY <1>1, <1>2, <2>1, <2>2, RewritingStepTyped
<1>7. QED
  BY <1>3, <1>4, <1>5, <1>6

\* A file's storage is freed, and its header cleared or left.
LEMMA ClearingDoes ==
    ASSUME TypeInv, GiveBack \/ GiveBackFails \/ FreeStorage \/ FreeFails
    PROVE  \E f \in Fids, h \in Header :
              /\ \/ call.phase = "giveback" /\ f = call.fid
                 \/ call.phase = "free" /\ f = call.victim
              /\ header' = [header EXCEPT ![f] = h] /\ free' = free \cup ClustersOf(header[f].extent)
              /\ ~h.live /\ UNCHANGED <<block, calls>>
              /\ \/ h = NoHeader /\ UNCHANGED failed
                 \/ h.left /\ failed' = failed \cup {"free"} /\ call' = NoCall
              /\ \/ call' = NoCall
                 \/ call.phase = "free" /\ call' = [call EXCEPT !.phase = "purge"]
<1>1. header \in [Fids -> Header] /\ call.fid \in Fids /\ call.victim \in Fids /\ NoHeader \in Header
  BY CallParts, ConstantParts DEF TypeInv
<1>2. ~NoHeader.live
  BY DEF NoHeader
<1>3. ASSUME NEW f \in Fids,
             \/ call.phase = "giveback" /\ f = call.fid
             \/ call.phase = "free" /\ f = call.victim,
             Freeing(f) /\ (call' = NoCall \/ (call.phase = "free" /\ call' = [call EXCEPT !.phase = "purge"]))
      PROVE  \E h \in Header :
              /\ header' = [header EXCEPT ![f] = h] /\ free' = free \cup ClustersOf(header[f].extent)
              /\ ~h.live /\ UNCHANGED <<block, calls>>
              /\ \/ h = NoHeader /\ UNCHANGED failed
                 \/ h.left /\ failed' = failed \cup {"free"} /\ call' = NoCall
              /\ \/ call' = NoCall
                 \/ call.phase = "free" /\ call' = [call EXCEPT !.phase = "purge"]
  BY <1>1, <1>2, <1>3, Zenon DEF Freeing
<1>4. ASSUME NEW f \in Fids, FreeingFails(f), call' = NoCall
      PROVE  \E h \in Header :
              /\ header' = [header EXCEPT ![f] = h] /\ free' = free \cup ClustersOf(header[f].extent)
              /\ ~h.live /\ h.left /\ UNCHANGED <<block, calls>> /\ failed' = failed \cup {"free"}
  <2> DEFINE h == [header[f] EXCEPT !.live = FALSE, !.left = TRUE]
  <2>1. header[f] \in Header
    BY <1>1
  <2>2. h \in Header /\ ~h.live /\ h.left
    BY <2>1 DEF Header
  <2>3. header' = [header EXCEPT ![f] = h]
    BY <1>1, <1>4 DEF FreeingFails
  <2> HIDE DEF h
  <2>4. QED
    BY <1>4, <2>2, <2>3 DEF FreeingFails, Fails
<1>5. CASE GiveBack
  BY <1>1, <1>3, <1>5 DEF GiveBack, Ended
<1>6. CASE FreeStorage
  BY <1>1, <1>3, <1>6 DEF FreeStorage, Ended
<1>7. CASE GiveBackFails
  BY <1>1, <1>4, <1>7 DEF GiveBackFails, Ended
<1>8. CASE FreeFails
  BY <1>1, <1>4, <1>8 DEF FreeFails, Ended
<1>9. QED
  BY <1>5, <1>6, <1>7, <1>8

\* The steps after which nothing is rewritten keep the types.
LEMMA EndingTyped ==
    ASSUME TypeInv,
           \/ GiveBack \/ GiveBackFails \/ FreeStorage \/ FreeFails \/ PurgeEnds \/ EnterFails \/ RestoreFails
           \/ RenameHeader \/ RenameHeaderFails \/ NoRun \/ RelocateFails \/ WriteFails \/ RecordFails
    PROVE  TypeInv'
<1>1. /\ header \in [Fids -> Header] /\ free \subseteq Clusters /\ call \in Call /\ SoundCall(call)
      /\ call.fid \in Fids /\ call.victim \in Fids /\ call.new \in Target
  BY CallParts DEF TypeInv
<1>2. NoCall.phase = "none" /\ NoCall \in Call /\ SoundCall(NoCall) /\ NoHeader \in Header
  BY ConstantParts DEF NoCall
<1>3. \A f \in Fids : ClustersOf(header[f].extent) \subseteq Clusters
  BY <1>1, HeaderParts
<1>4. AfterError \in Call /\ SoundCall(AfterError) /\ AfterError.phase \in {"none", "restore", "giveback"}
  BY ErrorsAreSound
<1>5. CASE GiveBack \/ GiveBackFails \/ FreeStorage \/ FreeFails
  <2> DEFINE z == [call EXCEPT !.phase = "purge"]
  <2>1. PICK f \in Fids, h \in Header :
              /\ header' = [header EXCEPT ![f] = h] /\ free' = free \cup ClustersOf(header[f].extent)
              /\ UNCHANGED <<block, calls>>
              /\ call' = NoCall \/ (call.phase = "free" /\ call' = z)
    BY <1>5, ClearingDoes
  <2>2. header' \in [Fids -> Header] /\ free' \subseteq Clusters
    BY <1>1, <1>3, <2>1
  <2>3. z \in Call /\ z.phase = "purge" /\ SameBut(z, call)
    BY <1>1, PhaseChanges, PhaseNames
  <2> HIDE DEF z
  <2>4. call.phase = "free" => SoundCall(z)
    BY <1>1, <2>3 DEF SoundCall, SameBut
  <2>5. call' \in Call /\ SoundCall(call') /\ call'.phase \notin {"relocate", "record"}
    BY <1>2, <2>1, <2>3, <2>4
  <2>6. QED
    BY <2>1, <2>2, <2>5, OtherStepTyped
<1>6. CASE PurgeEnds \/ RestoreFails \/ RenameHeaderFails
  <2>1. call' = NoCall /\ UNCHANGED <<header, block, free, calls>>
    BY <1>6 DEF PurgeEnds, RestoreFails, RenameHeaderFails, Ended
  <2>2. QED
    BY <1>1, <1>2, <2>1, OtherStepTyped
<1>8. CASE EnterFails
  <2>1. call.phase = "enter" /\ call' = [call EXCEPT !.phase = "restore"] /\ UNCHANGED <<header, block, free, calls>>
    BY <1>8 DEF EnterFails
  <2>2. call' \in Call /\ call'.phase = "restore" /\ SameBut(call', call)
    BY <1>1, <2>1, PhaseChanges, PhaseNames
  <2>3. SoundCall(call')
    BY <1>1, <2>1, <2>2 DEF SoundCall, SameBut
  <2>4. QED
    BY <1>1, <2>1, <2>2, <2>3, OtherStepTyped
<1>9. CASE RenameHeader
  <2>1. /\ call.phase = "name" /\ call' = [call EXCEPT !.phase = "purge"] /\ UNCHANGED <<block, free, calls>>
        /\ header' = header \/ header' = [header EXCEPT ![call.fid].link = call.new]
    BY <1>9 DEF RenameHeader
  <2>2. call' \in Call /\ call'.phase = "purge" /\ SameBut(call', call)
    BY <1>1, <2>1, PhaseChanges, PhaseNames
  <2>3. call.new \in Place /\ SoundCall(call')
    BY <1>1, <2>1, <2>2 DEF SoundCall, SameBut
  <2>4. [header EXCEPT ![call.fid].link = call.new] \in [Fids -> Header]
    <3>1. [header[call.fid] EXCEPT !.link = call.new] \in Header
      <4>1. header[call.fid] \in Header
        BY <1>1
      <4>2. QED
        BY <2>3, <4>1 DEF Header
    <3>2. QED
      BY <1>1, <3>1
  <2>5. QED
    BY <1>1, <2>1, <2>2, <2>3, <2>4, OtherStepTyped
<1>10. CASE NoRun \/ RelocateFails \/ WriteFails \/ RecordFails
  <2>1. call' = AfterError /\ free' \subseteq free /\ UNCHANGED <<header, block, calls>>
    BY <1>10 DEF NoRun, RelocateFails, WriteFails, RecordFails
  <2>2. QED
    BY <1>1, <1>4, <2>1, OtherStepTyped
<1>11. QED
  BY <1>5, <1>6, <1>8, <1>9, <1>10

\* A directory moves to a run that is free, of as many blocks as it needs.
LEMMA RelocateDoes ==
    ASSUME TypeInv, Relocate
    PROVE  \E run \in GoodExtent :
              /\ call.phase = "relocate" /\ call.dir \in Fids
              /\ run.count = Len(call.blocks) /\ run.start \in Nat /\ ClustersOf(run) \subseteq free
              /\ Len(call.blocks) > header[call.dir].extent.count
              /\ header' \in [Fids -> Header]
              /\ header'[call.dir].extent = run /\ header'[call.dir].live = header[call.dir].live
              /\ header'[call.dir].left = header[call.dir].left
              /\ header'[call.dir].used = header[call.dir].used /\ header'[call.dir].link = header[call.dir].link
              /\ \A f \in Fids \ {call.dir} : header'[f] = header[f]
              /\ block' = [c \in Clusters |-> IF c \in ClustersOf(run) THEN Zeroed ELSE block[c]]
              /\ free' = (free \ ClustersOf(run)) \cup ClustersOf(header[call.dir].extent)
              /\ call' \in Call /\ call'.phase = "write" /\ call'.moved
              /\ call'.kind = call.kind /\ call'.old = call.old /\ call'.new = call.new /\ call'.fid = call.fid
              /\ call'.victim = call.victim /\ call'.before = call.before /\ call'.dir = call.dir
              /\ call'.blocks = call.blocks /\ call'.written = call.written /\ call'.next = call.next
              /\ UNCHANGED <<failed, calls>>
<1> DEFINE run == NewRun(Len(call.blocks))
<1>1. /\ header \in [Fids -> Header] /\ call \in Call /\ SoundCall(call) /\ CallHasRoom(call, header[call.dir])
      /\ call.dir \in Fids /\ Len(call.blocks) \in Nat
  BY CallParts, ConstantParts DEF TypeInv
<1>2. /\ call.phase = "relocate" /\ RunStarts(free, Len(call.blocks)) # {}
      /\ block' = [c \in Clusters |-> IF c \in ClustersOf(run) THEN Zeroed ELSE block[c]]
      /\ header' = [header EXCEPT ![call.dir].extent = run]
      /\ free' = (free \ ClustersOf(run)) \cup ClustersOf(header[call.dir].extent)
      /\ call' = [call EXCEPT !.phase = "write", !.moved = TRUE]
      /\ UNCHANGED <<failed, calls>>
  BY DEF Relocate
<1>3. Len(call.blocks) \in Nat \ {0} /\ Len(call.blocks) > header[call.dir].extent.count
  BY <1>1, <1>2 DEF SoundCall, CallHasRoom
<1>4. run \in GoodExtent /\ run.count = Len(call.blocks) /\ run.start \in Nat /\ ClustersOf(run) \subseteq free
  BY <1>2, <1>3, NewRunIsFree
<1> HIDE DEF run
<1>5. header[call.dir] \in Header
  BY <1>1
<1>6. [header[call.dir] EXCEPT !.extent = run] \in Header
  <2>1. header[call.dir].used <= run.count
    <3>1. PICK u \in Nat, x \in Nat, y \in Nat :
            u = header[call.dir].used /\ x = header[call.dir].extent.count /\ y = run.count /\ u <= x /\ x < y
      BY <1>3, <1>4, <1>5, HeaderParts
    <3>2. QED
      BY <3>1
  <2>2. QED
    BY <1>4, <1>5, <2>1 DEF Header
<1>7. header' \in [Fids -> Header]
  BY <1>1, <1>2, <1>6
<1>8. /\ header'[call.dir].extent = run /\ header'[call.dir].live = header[call.dir].live
      /\ header'[call.dir].left = header[call.dir].left
      /\ header'[call.dir].used = header[call.dir].used /\ header'[call.dir].link = header[call.dir].link
      /\ \A f \in Fids \ {call.dir} : header'[f] = header[f]
  BY <1>1, <1>2, <1>5 DEF Header
<1>9. /\ call' \in Call /\ call'.phase = "write" /\ call'.moved
      /\ call'.kind = call.kind /\ call'.old = call.old /\ call'.new = call.new /\ call'.fid = call.fid
      /\ call'.victim = call.victim /\ call'.before = call.before /\ call'.dir = call.dir
      /\ call'.blocks = call.blocks /\ call'.written = call.written /\ call'.next = call.next
  BY <1>1, <1>2, PhaseNames DEF Call
<1>10. QED
  BY <1>1, <1>2, <1>3, <1>4, <1>7, <1>8, <1>9

\* Moving keeps the types.
LEMMA RelocateTyped ==
    ASSUME TypeInv, Relocate
    PROVE  TypeInv'
<1>1. PICK run \in GoodExtent :
              /\ call.phase = "relocate"
              /\ ClustersOf(run) \subseteq free
              /\ header' \in [Fids -> Header] /\ call.dir \in Fids
              /\ block' = [c \in Clusters |-> IF c \in ClustersOf(run) THEN Zeroed ELSE block[c]]
              /\ free' = (free \ ClustersOf(run)) \cup ClustersOf(header[call.dir].extent)
              /\ call' \in Call /\ call'.phase = "write"
              /\ call'.kind = call.kind /\ call'.old = call.old /\ call'.new = call.new
              /\ call'.blocks = call.blocks /\ call'.written = call.written /\ call'.next = call.next
              /\ UNCHANGED calls
  BY RelocateDoes
<1>2. header \in [Fids -> Header] /\ block \in [Clusters -> Block] /\ free \subseteq Clusters /\ SoundCall(call)
      /\ calls \in 0 .. MaxCalls
  BY DEF TypeInv
<1>3. Zeroed \in Block
  BY EmptySeq DEF Zeroed, Block
<1>4. block' \in [Clusters -> Block]
  BY <1>1, <1>2, <1>3
<1>5. ClustersOf(header[call.dir].extent) \subseteq Clusters
  BY <1>1, <1>2, HeaderParts
<1>6. free' \subseteq Clusters
  BY <1>1, <1>2, <1>5
<1>7. SoundCall(call')
  BY <1>1, <1>2 DEF SoundCall
<1>8. CallHasRoom(call', header'[call'.dir])
  BY <1>1, OthersHaveRoom
<1>9. QED
  BY <1>1, <1>2, <1>4, <1>6, <1>7, <1>8 DEF TypeInv

\* The next block is written in its place, if the directory has it.
LEMMA WriteBlockDoes ==
    ASSUME TypeInv, WriteBlock
    PROVE  /\ call.phase = "write" /\ call.dir \in Fids /\ UNCHANGED <<header, free, failed, calls>>
           /\ \/ call' = AfterError /\ UNCHANGED block /\ call.written + 1 > header[call.dir].extent.count
              \/ \E c \in ClustersOf(header[call.dir].extent) :
                    LET v == call.written + 1
                    IN  /\ c \in Clusters /\ c = header[call.dir].extent.start + v - 1
                        /\ v \in 1 .. Len(call.blocks) /\ v <= header[call.dir].extent.count
                        /\ call.blocks[v] \in Seq(Entry) /\ DirectoryBlock(call.blocks[v]) \in Block
                        /\ block' = [block EXCEPT ![c] = DirectoryBlock(call.blocks[v])]
                        /\ call' \in Call /\ call'.written = v
                        /\ call'.phase = IF v = Len(call.blocks) THEN "record" ELSE "write"
                        /\ call'.kind = call.kind /\ call'.old = call.old /\ call'.new = call.new
                        /\ call'.fid = call.fid /\ call'.victim = call.victim /\ call'.before = call.before
                        /\ call'.dir = call.dir /\ call'.blocks = call.blocks /\ call'.moved = call.moved
                        /\ call'.next = call.next
<1> DEFINE v == call.written + 1
           e == header[call.dir].extent
           c == e.start + v - 1
<1>1. /\ call.phase = "write" /\ v <= Len(call.blocks) /\ UNCHANGED <<header, free, failed, calls>>
      /\ IF v > e.count
         THEN call' = AfterError /\ UNCHANGED block
         ELSE /\ block' = [block EXCEPT ![c] = DirectoryBlock(call.blocks[v])]
              /\ call' = [call EXCEPT !.written = v,
                                      !.phase = IF v = Len(call.blocks) THEN "record" ELSE "write"]
  BY DEF WriteBlock
<1>2. /\ call \in Call /\ call.dir \in Fids /\ Len(call.blocks) \in Nat /\ call.written \in Nat
      /\ call.blocks \in Seq(Seq(Entry))
  BY CallParts, ConstantParts DEF TypeInv
<1>3. v \in 1 .. Len(call.blocks)
  BY <1>1, <1>2
<1>4. CASE v > e.count
  BY <1>1, <1>2, <1>4
<1>5. CASE ~(v > e.count)
  <2>1. /\ e.count \in Nat /\ e.start \in Nat
        /\ \A w \in 1 .. e.count : e.start + w - 1 \in ClustersOf(e)
        /\ ClustersOf(e) \subseteq Clusters
    BY <1>2, BlocksRead
  <2>2. v \in 1 .. e.count
    BY <1>3, <1>5, <2>1
  <2>3. c \in ClustersOf(e) /\ c \in Clusters
    BY <2>1, <2>2
  <2>4. call.blocks[v] \in Seq(Entry)
    BY <1>2, <1>3, ElementOfSeq
  <2>5. DirectoryBlock(call.blocks[v]) \in Block
    BY <2>4 DEF DirectoryBlock, Block
  <2>6. /\ block' = [block EXCEPT ![c] = DirectoryBlock(call.blocks[v])]
        /\ call' = [call EXCEPT !.written = v,
                                !.phase = IF v = Len(call.blocks) THEN "record" ELSE "write"]
    BY <1>1, <1>5
  <2>7. v \in Nat
    BY <1>2
  <2> HIDE DEF v, c
  <2>8. /\ call' \in Call /\ call'.written = v
        /\ call'.phase = IF v = Len(call.blocks) THEN "record" ELSE "write"
        /\ call'.kind = call.kind /\ call'.old = call.old /\ call'.new = call.new
        /\ call'.fid = call.fid /\ call'.victim = call.victim /\ call'.before = call.before
        /\ call'.dir = call.dir /\ call'.blocks = call.blocks /\ call'.moved = call.moved
        /\ call'.next = call.next
    <3>1. PICK phase \in Phases : phase = IF v = Len(call.blocks) THEN "record" ELSE "write"
      BY PhaseNames
    <3>2. call' = [call EXCEPT !.written = v, !.phase = phase]
      BY <2>6, <3>1
    <3>3. QED
      BY <1>2, <2>7, <3>1, <3>2 DEF Call
  <2>9. v <= e.count
    BY <1>3, <1>5, <2>1
  <2>10. c = header[call.dir].extent.start + v - 1
    BY DEF c
  <2>11. \E x \in ClustersOf(e) :
                        /\ x \in Clusters /\ x = header[call.dir].extent.start + v - 1
                        /\ v \in 1 .. Len(call.blocks) /\ v <= header[call.dir].extent.count
                        /\ call.blocks[v] \in Seq(Entry) /\ DirectoryBlock(call.blocks[v]) \in Block
                        /\ block' = [block EXCEPT ![x] = DirectoryBlock(call.blocks[v])]
                        /\ call' \in Call /\ call'.written = v
                        /\ call'.phase = IF v = Len(call.blocks) THEN "record" ELSE "write"
                        /\ call'.kind = call.kind /\ call'.old = call.old /\ call'.new = call.new
                        /\ call'.fid = call.fid /\ call'.victim = call.victim /\ call'.before = call.before
                        /\ call'.dir = call.dir /\ call'.blocks = call.blocks /\ call'.moved = call.moved
                        /\ call'.next = call.next
    BY <1>3, <2>3, <2>4, <2>5, <2>6, <2>8, <2>9, <2>10, Zenon
  <2>12. QED
    BY <1>1, <1>2, <2>11 DEF v
<1>6. QED
  BY <1>4, <1>5

\* Writing keeps the types.
LEMMA WriteBlockTyped ==
    ASSUME TypeInv, WriteBlock
    PROVE  TypeInv'
<1>1. /\ header \in [Fids -> Header] /\ block \in [Clusters -> Block] /\ free \subseteq Clusters /\ SoundCall(call)
      /\ calls \in 0 .. MaxCalls /\ call.blocks \in Seq(Seq(Entry)) /\ Len(call.blocks) \in Nat
  BY CallParts DEF TypeInv
<1>2. call.phase = "write" /\ call.dir \in Fids /\ UNCHANGED <<header, free, calls>>
  BY WriteBlockDoes
<1>3. CASE call' = AfterError /\ UNCHANGED block
  BY <1>1, <1>2, <1>3, ErrorsAreSound, OtherStepTyped
<1>4. ASSUME NEW c \in ClustersOf(header[call.dir].extent), NEW v, v = call.written + 1,
             /\ c \in Clusters
             /\ v \in 1 .. Len(call.blocks) /\ v <= header[call.dir].extent.count
             /\ DirectoryBlock(call.blocks[v]) \in Block
             /\ block' = [block EXCEPT ![c] = DirectoryBlock(call.blocks[v])]
             /\ call' \in Call /\ call'.written = v
             /\ call'.phase = IF v = Len(call.blocks) THEN "record" ELSE "write"
             /\ call'.kind = call.kind /\ call'.old = call.old /\ call'.new = call.new
             /\ call'.dir = call.dir /\ call'.blocks = call.blocks
             /\ call'.next = call.next
      PROVE  TypeInv'
  <2>1. block' \in [Clusters -> Block]
    BY <1>1, <1>4
  <2>2. SoundCall(call')
    <3>1. v <= Len(call.blocks)
      BY <1>1, <1>4
    <3>2. call'.phase \in {"record", "write"}
      BY <1>4
    <3>3. QED
      BY <1>1, <1>2, <1>4, <3>1, <3>2 DEF SoundCall
  <2>3. CallHasRoom(call', header'[call'.dir])
    BY <1>2, <1>4 DEF CallHasRoom
  <2>4. QED
    BY <1>1, <1>2, <1>4, <2>1, <2>2, <2>3 DEF TypeInv
<1>5. QED
  BY <1>3, <1>4, WriteBlockDoes

\* The header's blocks in use are recorded.
LEMMA RecordUsedDoes ==
    ASSUME TypeInv, RecordUsed
    PROVE  /\ call.phase = "record" /\ call.dir \in Fids /\ UNCHANGED <<block, free, failed, calls>>
           /\ header' \in [Fids -> Header]
           /\ header'[call.dir].used = Len(call.blocks)
           /\ header'[call.dir].extent = header[call.dir].extent /\ header'[call.dir].live = header[call.dir].live
           /\ header'[call.dir].left = header[call.dir].left
           /\ header'[call.dir].link = header[call.dir].link
           /\ \A f \in Fids \ {call.dir} : header'[f] = header[f]
           /\ \/ call.next = "none" /\ call' = NoCall
              \/ call.next # "none" /\ call' \in Call /\ call'.phase = call.next /\ SameBut(call', call)
<1>1. /\ header \in [Fids -> Header] /\ call \in Call /\ CallHasRoom(call, header[call.dir])
      /\ call.dir \in Fids /\ call.next \in Phases /\ Len(call.blocks) \in Nat
  BY CallParts, ConstantParts DEF TypeInv
<1>2. /\ call.phase = "record" /\ UNCHANGED <<block, free, failed, calls>>
      /\ header' = [header EXCEPT ![call.dir].used = Len(call.blocks)]
      /\ call' = IF call.next = "none" THEN NoCall ELSE [call EXCEPT !.phase = call.next]
  BY DEF RecordUsed, Ended
<1>3. header[call.dir] \in Header /\ Len(call.blocks) <= header[call.dir].extent.count
  BY <1>1, <1>2 DEF CallHasRoom
<1>4. [header[call.dir] EXCEPT !.used = Len(call.blocks)] \in Header
  BY <1>1, <1>3 DEF Header
<1>5. /\ header' \in [Fids -> Header]
      /\ header'[call.dir].used = Len(call.blocks)
      /\ header'[call.dir].extent = header[call.dir].extent /\ header'[call.dir].live = header[call.dir].live
      /\ header'[call.dir].left = header[call.dir].left
      /\ header'[call.dir].link = header[call.dir].link
      /\ \A f \in Fids \ {call.dir} : header'[f] = header[f]
  BY <1>1, <1>2, <1>3, <1>4 DEF Header
<1>6. call.next # "none" => call' \in Call /\ call'.phase = call.next /\ SameBut(call', call)
  BY <1>1, <1>2, PhaseChanges
<1>7. QED
  BY <1>1, <1>2, <1>5, <1>6

\* So it keeps the types.
LEMMA RecordUsedTyped ==
    ASSUME TypeInv, RecordUsed
    PROVE  TypeInv'
<1>1. /\ call.phase = "record" /\ UNCHANGED <<block, free, calls>> /\ header' \in [Fids -> Header]
      /\ \/ call.next = "none" /\ call' = NoCall
         \/ call.next # "none" /\ call' \in Call /\ call'.phase = call.next /\ SameBut(call', call)
  BY RecordUsedDoes
<1>2. free \subseteq Clusters /\ SoundCall(call)
  BY DEF TypeInv
<1>3. call.next \in {"none", "insert", "enter", "name", "purge", "free"}
  BY <1>2 DEF SoundCall
<1>4. CASE call' = NoCall
  BY <1>1, <1>2, <1>4, ConstantParts, OtherStepTyped DEF NoCall
<1>5. CASE call' \in Call /\ call'.phase = call.next /\ SameBut(call', call) /\ call.next # "none"
  <2>1. SoundCall(call')
    BY <1>1, <1>2, <1>3, <1>5 DEF SoundCall, SameBut
  <2>2. QED
    BY <1>1, <1>2, <1>3, <1>5, <2>1, OtherStepTyped
<1>6. QED
  BY <1>1, <1>4, <1>5

\* Which step was it?
LEMMA Steps ==
    ASSUME Next
    PROVE  \/ \E d \in Directories, n \in Names, version \in Versions \cup {0}, f \in Files : CreateFile(d, n, version, f)
           \/ \E d \in Directories, n \in Names, f \in Subdirectories : CreateDirectory(d, n, f)
           \/ \E d \in Directories : \E e \in ToSet(List(d)) :
                 \/ DeleteFile(d, e)
                 \/ \E t \in Directories, n \in Names, version \in Versions \cup {0} : Rename(d, e, t, n, version)
           \/ EnterDirectory \/ Enter \/ Restore \/ Purge
           \/ GiveBack \/ GiveBackFails \/ FreeStorage \/ FreeFails
           \/ PurgeEnds \/ EnterFails \/ RestoreFails \/ RenameHeaderFails
           \/ RenameHeader
           \/ NoRun \/ RelocateFails \/ WriteFails \/ RecordFails
           \/ Relocate \/ WriteBlock \/ RecordUsed
BY Zenon DEF Next

\* Every step keeps the types.
LEMMA NextTyped ==
    ASSUME TypeInv, [Next]_vars
    PROVE  TypeInv'
<1>1. CASE Next
  BY <1>1, Steps, CreateFileTyped, CreateDirectoryTyped, RemovalTyped, NextRewritingTyped, EndingTyped,
     RelocateTyped, WriteBlockTyped, RecordUsedTyped
<1>2. CASE UNCHANGED vars
  BY <1>2 DEF vars, TypeInv
<1>3. QED
  BY <1>1, <1>2

\* So the types hold.
LEMMA Typed == Spec => []TypeInv
<1>1. Init => TypeInv
  BY InitTyped
<1>2. TypeInv /\ [Next]_vars => TypeInv'
  BY NextTyped
<1>3. QED
  BY <1>1, <1>2, PTL DEF Spec

\* They are what TypeOK says.
LEMMA TypesAreOK == TypeInv => TypeOK
<1> SUFFICES ASSUME TypeInv PROVE TypeOK
  OBVIOUS
<1>1. /\ header \in [Fids -> Header] /\ block \in [Clusters -> Block]
      /\ free \subseteq Clusters /\ call \in Call /\ SoundCall(call) /\ calls \in 0 .. MaxCalls
  BY DEF TypeInv
<1>2. DOMAIN header = Fids
  BY <1>1
<1>3. ASSUME NEW f \in Fids
      PROVE  /\ DOMAIN header[f] = DOMAIN NoHeader /\ {header[f].live, header[f].left} \subseteq BOOLEAN
             /\ ~(header[f].live /\ header[f].left)
             /\ header[f].extent \in Extent \cup {NoExtent}
             /\ header[f].used \in 0 .. header[f].extent.count
             /\ header[f].link \in Place \cup {NoPlace}
  <2>1. header[f] \in Header
    BY <1>1
  <2>2. /\ {header[f].live, header[f].left} \subseteq BOOLEAN /\ ~(header[f].live /\ header[f].left)
        /\ header[f].extent \in GoodExtent \cup {NoExtent}
        /\ header[f].used \in Nat /\ header[f].used <= header[f].extent.count /\ header[f].link \in Place \cup {NoPlace}
        /\ DOMAIN header[f] = {"live", "left", "extent", "used", "link"}
    BY <2>1 DEF Header
  <2>3. header[f].extent.count \in Nat
    BY <2>1, HeaderParts
  <2>4. DOMAIN NoHeader = {"live", "left", "extent", "used", "link"}
    BY DEF NoHeader
  <2>5. GoodExtent \subseteq Extent
    BY DEF GoodExtent
  <2>6. header[f].used \in 0 .. header[f].extent.count
    BY <2>2, <2>3
  <2>7. QED
    BY <2>2, <2>4, <2>5, <2>6
<1>4. ASSUME NEW c \in Clusters
      PROVE  block[c].decodes \in BOOLEAN /\ block[c].entries \in Seq(Entry)
  BY <1>1 DEF Block
<1>5. DOMAIN call = DOMAIN NoCall
  <2>1. \A c \in Call : DOMAIN c = {"kind", "phase", "old", "new", "fid", "victim",
                                    "dir", "blocks", "written", "moved", "next", "before"}
    BY DEF Call
  <2>2. QED
    BY <1>1, <2>1, ConstantParts
<1>6. /\ call.kind \in Kinds /\ {call.phase, call.next} \subseteq Phases
      /\ {call.old, call.new} \subseteq [dir : Directories, name : Names \cup {0}, version : Nat]
      /\ {call.fid, call.victim} \subseteq Fids /\ call.dir \in Directories /\ call.moved \in BOOLEAN
      /\ call.written \in Nat /\ Len(call.blocks) \in Nat
  BY <1>1, CallParts DEF Target
<1>7. call.written \in 0 .. Len(call.blocks)
  BY <1>1, <1>6 DEF SoundCall
<1>8. QED
  BY <1>1, <1>2, <1>3, <1>4, <1>5, <1>6, <1>7 DEF TypeOK

\* TypeOK always holds.
THEOREM DirectoryTypes == Spec => []TypeOK
BY Typed, TypesAreOK, PTL

-----------------------------------------------------------------------------
(* Files whose deletion failed.                                            *)

\* No write failed that left a directory's blocks some of them old and some new.
Whole == failed \cap {"used", "later", "moved"} = {}

\* Is a directory with new blocks being rewritten?
Underway == call.phase \in {"relocate", "write", "record"}

\* The files a call has to do with.
AtHand == {Root, call.dir, call.old.dir, call.new.dir, call.fid, call.victim}

\* No call has come upon a file whose deletion failed, as long as such files have no
\* names; and none deletes the root.
LeftInv ==
    /\ "free" \notin failed => \A f \in Fids : ~header[f].left
    /\ Whole => \A f \in AtHand : ~header[f].left
    /\ "free" \in {call.phase, call.next} => call.victim # Root
    /\ call.kind = "createdir" => call.fid # Root

\* What keeps calls from such files: an entry names a file that is there.
NamedAreLive == Whole /\ ~Underway => \A e \in AllEntries : header[e.fid].live

\* A failure stays one.
LEMMA FailuresStay ==
    ASSUME failed \subseteq failed'
    PROVE  /\ Whole' => Whole
           /\ DeletedAreUnnamed' => DeletedAreUnnamed
           /\ \A which : which \notin failed' => which \notin failed
BY DEF Whole, DeletedAreUnnamed

\* So the files at hand are not left.
LEMMA AtHandAreThere ==
    ASSUME TypeInv, LeftInv, DeletedAreUnnamed
    PROVE  \A f \in AtHand : f \in Fids /\ ~header[f].left
<1>1. /\ call.old.dir \in Fids /\ call.new.dir \in Fids /\ call.dir \in Fids
      /\ call.fid \in Fids /\ call.victim \in Fids /\ Root \in Fids
  BY CallParts, ConstantParts DEF TypeInv
<1>2. \A f \in AtHand : f \in Fids
  BY <1>1 DEF AtHand
<1>3. CASE Whole
  BY <1>2, <1>3 DEF LeftInv
<1>4. CASE "free" \notin failed
  BY <1>2, <1>4 DEF LeftInv
<1>5. QED
  BY <1>3, <1>4 DEF DeletedAreUnnamed, Whole

\* An entry of a directory that is there.
LEMMA EntriesOfLive ==
    ASSUME NEW d \in Directories, header[d].live, NEW e \in ToSet(List(d))
    PROVE  \E x \in AllEntries : x.dir = d /\ x.name = e.name /\ x.version = e.version /\ x.fid = e.fid
<1> DEFINE x == [dir |-> d, name |-> e.name, version |-> e.version, fid |-> e.fid]
<1>1. x \in AllEntries
  BY DEF AllEntries
<1>2. x.dir = d /\ x.name = e.name /\ x.version = e.version /\ x.fid = e.fid
  OBVIOUS
<1> HIDE DEF x
<1>3. QED
  BY <1>1, <1>2

\* A directory that opens is there, between the rewritings.
LEMMA OpenedAreThere ==
    ASSUME TypeInv, LeftInv, NamedAreLive, DeletedAreUnnamed, ~Underway, NEW d \in Directories, Opens(d)
    PROVE  header[d].live /\ ~header[d].left
<1>1. d \in Fids /\ ~(header[d].live /\ header[d].left)
  BY HeaderParts, ConstantParts DEF TypeInv
<1>2. CASE "free" \notin failed
  BY <1>1, <1>2 DEF Opens, LeftInv
<1>3. CASE Whole
  <2>1. \A e \in AllEntries : header[e.fid].live
    BY <1>3 DEF NamedAreLive
  <2>2. QED
    BY <1>1, <2>1 DEF Opens
<1>4. QED
  BY <1>2, <1>3 DEF DeletedAreUnnamed, Whole

\* So is what an entry of such a directory names.
LEMMA NamedAreThere ==
    ASSUME TypeInv, LeftInv, NamedAreLive, Whole, ~Underway, NEW d \in Directories, header[d].live,
           NEW e \in ToSet(List(d))
    PROVE  e.fid \in Fids /\ header[e.fid].live /\ ~header[e.fid].left
<1>1. PICK x \in AllEntries : x.fid = e.fid
  BY EntriesOfLive
<1>2. header[e.fid].live
  BY <1>1 DEF NamedAreLive
<1>3. e.fid \in Fids
  BY ListedAreEntries, ConstantParts
<1>4. QED
  BY <1>2, <1>3, HeaderParts DEF TypeInv

\* No file is left, and no other file comes to hand than ones that are there.
LEMMA LeftStays ==
    ASSUME LeftInv, failed \subseteq failed',
           \A f \in Fids : header'[f].left => header[f].left,
           Whole => \A f \in AtHand' : f \in Fids /\ (f \in AtHand \/ ~header'[f].left),
           "free" \in {call'.phase, call'.next} => call'.victim # Root,
           call'.kind = "createdir" => call'.fid # Root
    PROVE  LeftInv'
<1>1. "free" \notin failed' => \A f \in Fids : ~header'[f].left
  BY DEF LeftInv
<1>2. Whole' => \A f \in AtHand' : ~header'[f].left
  BY FailuresStay DEF LeftInv
<1>3. QED
  BY <1>1, <1>2 DEF LeftInv

\* A new call has to do with files that are there.
LEMMA LeftAtBeginning ==
    ASSUME TypeInv, LeftInv, NamedAreLive, NEW d \in Directories,
           \/ \E n \in Names, version \in Versions \cup {0}, f \in Files : CreateFile(d, n, version, f)
           \/ \E n \in Names, f \in Subdirectories : CreateDirectory(d, n, f)
           \/ \E e \in ToSet(List(d)) :
                 \/ DeleteFile(d, e)
                 \/ \E t \in Directories, n \in Names, version \in Versions \cup {0} : Rename(d, e, t, n, version)
    PROVE  LeftInv'
<1>1. header \in [Fids -> Header] /\ d \in Fids /\ NoPlace.dir = Root /\ Root \in Fids
  BY ConstantParts DEF TypeInv, NoPlace
<1>2. ~Underway /\ failed \subseteq failed'
  <2>1. Idle /\ failed' = failed
    BY Zenon DEF CreateFile, CreateDirectory, DeleteFile, Rename, Begin
  <2>2. QED
    BY <2>1 DEF Idle, Underway, NoCall
<1>3. Whole => ~header[Root].left
  BY DEF LeftInv, AtHand
<1>4. failed \subseteq failed'
  BY <1>2
<1>5. Whole => DeletedAreUnnamed
  BY DEF Whole, DeletedAreUnnamed
<1>6. ASSUME NEW n \in Names, NEW version \in Versions \cup {0}, NEW f \in Files, CreateFile(d, n, version, f)
      PROVE  LeftInv'
  <2>1. PICK p \in Place, c \in Call :
              /\ p.dir = d /\ Opens(d)
              /\ c.kind = "create" /\ c.old = NoPlace /\ c.new = p /\ c.fid = f /\ c.victim = Root
              /\ IsRewriting(call', c, d, Append(List(d), EntryFor(c, p)), "purge")
              /\ header' = [header EXCEPT ![f] = NewHeader(p)]
    BY <1>6, CreateFileDoes
  <2>2. f \in Fids /\ ~header'[f].left /\ \A g \in Fids \ {f} : header'[g] = header[g]
    BY <1>1, <2>1, NewHeaders DEF Fids
  <2>3. Whole => ~header[d].left
    BY <1>2, <1>5, <2>1, OpenedAreThere
  <2>4. /\ call'.dir = d /\ call'.old.dir = Root /\ call'.new.dir = d /\ call'.fid = f /\ call'.victim = Root
        /\ call'.kind = "create" /\ call'.phase \in {"write", "relocate"} /\ call'.next = "purge"
    <3>1. call'.phase \in {"write", "relocate"}
      BY <1>6, CreateFileDoes DEF FitsOrMoves
    <3>2. QED
      BY <1>1, <2>1, <3>1 DEF IsRewriting
  <2>5. AtHand' = {Root, d, f}
    BY <2>4 DEF AtHand
  <2>6. Whole => ~header'[d].left /\ ~header'[Root].left
    BY <1>1, <1>3, <2>2, <2>3
  <2>7. \A g \in Fids : header'[g].left => header[g].left
    BY <2>2
  <2>8. Whole => \A g \in AtHand' : g \in Fids /\ ~header'[g].left
    BY <1>1, <2>2, <2>5, <2>6
  <2>9. QED
    BY <1>4, <2>4, <2>7, <2>8, LeftStays
<1>7. ASSUME NEW n \in Names, NEW f \in Subdirectories, CreateDirectory(d, n, f)
      PROVE  LeftInv'
  <2>1. PICK p \in Place, c \in Call :
              /\ p.dir = d /\ Opens(d)
              /\ c.kind = "createdir" /\ c.old = NoPlace /\ c.new = p /\ c.fid = f /\ c.victim = Root
              /\ IsRewriting(call', c, f, <<>>, "insert")
              /\ call'.phase = "relocate"
              /\ header' = [header EXCEPT ![f] = NewHeader(p)]
    BY <1>7, CreateDirectoryDoes
  <2>2. f \in Fids /\ ~header'[f].left /\ \A g \in Fids \ {f} : header'[g] = header[g]
    BY <1>1, <2>1, NewHeaders DEF Fids, Directories
  <2>3. Whole => ~header[d].left
    BY <1>2, <1>5, <2>1, OpenedAreThere
  <2>4. /\ call'.dir = f /\ call'.old.dir = Root /\ call'.new.dir = d /\ call'.fid = f /\ call'.victim = Root
        /\ call'.kind = "createdir" /\ call'.next = "insert"
    BY <1>1, <2>1 DEF IsRewriting
  <2>5. AtHand' = {Root, d, f}
    BY <2>4 DEF AtHand
  <2>6. Whole => ~header'[d].left /\ ~header'[Root].left
    BY <1>1, <1>3, <2>2, <2>3
  <2>7. \A g \in Fids : header'[g].left => header[g].left
    BY <2>2
  <2>8. Whole => \A g \in AtHand' : g \in Fids /\ ~header'[g].left
    BY <1>1, <2>2, <2>5, <2>6
  <2>9. f # Root
    BY KindsOfFiles
  <2>10. QED
    BY <1>4, <2>1, <2>4, <2>7, <2>8, <2>9, LeftStays
<1>8. ASSUME NEW e \in ToSet(List(d)), DeleteFile(d, e)
      PROVE  LeftInv'
  <2>1. PICK c \in Call :
              /\ At(e, d) \in Place /\ Opens(d) /\ Deletable(e.fid)
              /\ c.kind = "delete" /\ c.old = At(e, d) /\ c.new = NoPlace /\ c.fid = e.fid /\ c.victim = e.fid
              /\ IsRewriting(call', c, d, Without(List(d), d, At(e, d)), "free")
              /\ call'.phase = "write" /\ UNCHANGED header
    BY <1>8, DeleteFileDoes
  <2>2. Whole => header[d].live /\ ~header[d].left
    BY <1>2, <1>5, <2>1, OpenedAreThere
  <2>3. Whole => e.fid \in Fids /\ ~header[e.fid].left
    BY <1>2, <2>2, NamedAreThere
  <2>4. At(e, d).dir = d
    BY DEF At
  <2>5. /\ call'.dir = d /\ call'.old.dir = d /\ call'.new.dir = Root /\ call'.fid = e.fid /\ call'.victim = e.fid
        /\ call'.kind = "delete"
    BY <1>1, <2>1, <2>4 DEF IsRewriting
  <2>6. AtHand' = {Root, d, e.fid}
    BY <2>5 DEF AtHand
  <2>7. Whole => \A g \in AtHand' : g \in Fids /\ ~header'[g].left
    BY <1>1, <1>3, <2>1, <2>2, <2>3, <2>6
  <2>8. e.fid # Root
    BY <2>1 DEF Deletable
  <2>9. QED
    BY <1>4, <2>1, <2>5, <2>7, <2>8, LeftStays
<1>9. ASSUME NEW e \in ToSet(List(d)), NEW t \in Directories, NEW n \in Names, NEW version \in Versions \cup {0},
             Rename(d, e, t, n, version)
      PROVE  LeftInv'
  <2>1. PICK q \in Target, c \in Call :
              /\ At(e, d) \in Place /\ Opens(d) /\ q.dir = t /\ Opens(t)
              /\ c.kind = "rename" /\ c.old = At(e, d) /\ c.new = q /\ c.fid = e.fid /\ c.victim = Root
              /\ IsRewriting(call', c, d, Without(List(d), d, At(e, d)), "enter")
              /\ call'.phase = "write" /\ UNCHANGED header
    BY <1>9, RenameDoes
  <2>2. Whole => header[d].live /\ ~header[d].left /\ ~header[t].left
    BY <1>2, <1>5, <2>1, OpenedAreThere
  <2>3. Whole => e.fid \in Fids /\ ~header[e.fid].left
    BY <1>2, <2>2, NamedAreThere
  <2>4. At(e, d).dir = d /\ t \in Fids
    BY ConstantParts DEF At
  <2>5. /\ call'.dir = d /\ call'.old.dir = d /\ call'.new.dir = t /\ call'.fid = e.fid /\ call'.victim = Root
        /\ call'.kind = "rename" /\ call'.next = "enter"
    BY <1>1, <2>1, <2>4 DEF IsRewriting
  <2>6. AtHand' = {Root, d, t, e.fid}
    BY <2>5 DEF AtHand
  <2>7. Whole => \A g \in AtHand' : g \in Fids /\ ~header'[g].left
    BY <1>1, <1>3, <2>1, <2>2, <2>3, <2>4, <2>6
  <2>8. QED
    BY <1>4, <2>1, <2>5, <2>7, LeftStays
<1>10. QED
  BY <1>6, <1>7, <1>8, <1>9

\* A call goes on with files at hand, or comes upon the version to delete.
LEMMA LeftAtNextRewriting ==
    ASSUME TypeInv, LeftInv, NamedAreLive, EnterDirectory \/ Enter \/ Restore \/ Purge
    PROVE  LeftInv'
<1>1. /\ header \in [Fids -> Header] /\ \A f \in AtHand : f \in Fids
      /\ call.new.dir \in Directories /\ call.new.dir \in AtHand /\ call.old.dir \in AtHand
  <2>1. /\ call.old.dir \in Fids /\ call.new.dir \in Directories /\ call.new.dir \in Fids /\ call.dir \in Fids
        /\ call.fid \in Fids /\ call.victim \in Fids /\ Root \in Fids
    BY CallParts, ConstantParts DEF TypeInv
  <2>2. QED
    BY <2>1 DEF AtHand, TypeInv
<1>2. failed' = failed
  BY DEF EnterDirectory, Enter, Restore, Purge
<1>3. ASSUME AtHand' \subseteq AtHand, UNCHANGED header, "free" \notin {call'.phase, call'.next},
             call'.kind = "createdir" => call'.fid # Root
      PROVE  LeftInv'
  BY <1>1, <1>2, <1>3, LeftStays
<1>4. CASE EnterDirectory
  <2>1. /\ call.kind = "createdir" /\ UNCHANGED header
        /\ IsRewriting(call', call, call.new.dir, Append(List(call.new.dir), EntryFor(call, call.new)), "none")
        /\ FitsOrMoves(call', header[call.new.dir])
    BY <1>4, EnterDirectoryDoes
  <2>2. /\ call'.dir = call.new.dir /\ call'.old = call.old /\ call'.new = call.new /\ call'.fid = call.fid
        /\ call'.victim = call.victim /\ call'.kind = call.kind /\ "free" \notin {call'.phase, call'.next}
    BY <2>1 DEF IsRewriting, FitsOrMoves
  <2>3. AtHand' \subseteq AtHand
    BY <2>2 DEF AtHand
  <2>4. QED
    BY <1>3, <2>1, <2>2, <2>3 DEF LeftInv
<1>5. CASE Enter
  <2>1. PICK p \in Place, c \in Call :
              /\ p.dir = call.new.dir /\ UNCHANGED header
              /\ c.kind = "rename" /\ c.old = call.old /\ c.new = p /\ c.fid = call.fid /\ c.victim = call.victim
              /\ IsRewriting(call', c, p.dir, Append(List(p.dir), EntryFor(c, p)), "name")
              /\ FitsOrMoves(call', header[p.dir])
    BY <1>5, EnterDoes
  <2>2. /\ call'.dir = call.new.dir /\ call'.old = call.old /\ call'.new.dir = call.new.dir /\ call'.fid = call.fid
        /\ call'.victim = call.victim /\ call'.kind = "rename" /\ "free" \notin {call'.phase, call'.next}
    BY <2>1 DEF IsRewriting, FitsOrMoves
  <2>3. AtHand' \subseteq AtHand
    BY <2>2 DEF AtHand
  <2>4. QED
    BY <1>3, <2>1, <2>2, <2>3
<1>6. CASE Restore
  <2>1. /\ call.kind = "rename" /\ UNCHANGED header
        /\ IsRewriting(call', call, call.old.dir, Append(List(call.old.dir), EntryFor(call, call.old)), "none")
        /\ FitsOrMoves(call', header[call.old.dir])
    BY <1>6, RestoreDoes
  <2>2. /\ call'.dir = call.old.dir /\ call'.old = call.old /\ call'.new = call.new /\ call'.fid = call.fid
        /\ call'.victim = call.victim /\ call'.kind = "rename" /\ "free" \notin {call'.phase, call'.next}
    BY <2>1 DEF IsRewriting, FitsOrMoves
  <2>3. AtHand' \subseteq AtHand
    BY <2>2 DEF AtHand
  <2>4. QED
    BY <1>3, <2>1, <2>2, <2>3
<1>7. CASE Purge
  <2>1. PICK e \in VersionsIn(call.new.dir, call.new.name), c \in Call :
              /\ Readable(call.new.dir) /\ Deletable(e.fid)
              /\ c.kind = call.kind /\ c.old = call.old /\ c.new = call.new /\ c.fid = call.fid
              /\ c.victim = e.fid
              /\ IsRewriting(call', c, call.new.dir,
                             Without(List(call.new.dir), call.new.dir, At(e, call.new.dir)), "free")
              /\ call'.phase = "write" /\ UNCHANGED header
    BY <1>7, PurgeDoes
  <2>2. /\ call'.dir = call.new.dir /\ call'.old = call.old /\ call'.new = call.new /\ call'.fid = call.fid
        /\ call'.victim = e.fid /\ call'.kind = call.kind
    BY <2>1 DEF IsRewriting
  <2>3. AtHand' \subseteq AtHand \cup {e.fid}
    BY <2>2 DEF AtHand
  <2>4. e \in ToSet(List(call.new.dir)) /\ e.fid # Root
    BY <2>1 DEF VersionsIn, Deletable
  <2>5. Whole => e.fid \in Fids /\ ~header[e.fid].left
    <3>1. ~Underway
      BY <1>7 DEF Purge, Underway
    <3>2. Whole => header[call.new.dir].live
      BY <1>1, <2>1 DEF LeftInv, Readable, IsThere
    <3>3. QED
      BY <1>1, <2>4, <3>1, <3>2, NamedAreThere
  <2>6. Whole => \A f \in AtHand' : f \in Fids /\ (f \in AtHand \/ ~header'[f].left)
    BY <1>1, <2>1, <2>3, <2>5
  <2>7. call.kind = "createdir" => call.fid # Root
    BY DEF LeftInv
  <2>8. QED
    BY <1>2, <2>1, <2>2, <2>4, <2>6, <2>7, LeftStays
<1>8. QED
  BY <1>4, <1>5, <1>6, <1>7

\* Every step but one that begins a call or a rewriting.
LEMMA LeftAtOthers ==
    ASSUME TypeInv, LeftInv,
           \/ GiveBack \/ GiveBackFails \/ FreeStorage \/ FreeFails
           \/ PurgeEnds \/ EnterFails \/ RestoreFails \/ RenameHeader \/ RenameHeaderFails
           \/ NoRun \/ RelocateFails \/ WriteFails \/ RecordFails
           \/ Relocate \/ WriteBlock \/ RecordUsed
    PROVE  LeftInv'
<1>1. /\ header \in [Fids -> Header] /\ \A f \in AtHand : f \in Fids
      /\ call \in Call /\ SoundCall(call) /\ call.dir \in Fids
  <2>1. /\ call.old.dir \in Fids /\ call.new.dir \in Fids /\ call.dir \in Fids
        /\ call.fid \in Fids /\ call.victim \in Fids /\ Root \in Fids
    BY CallParts, ConstantParts DEF TypeInv
  <2>2. QED
    BY <2>1 DEF AtHand, TypeInv
<1>2. /\ NoCall.kind = "none" /\ NoCall.phase = "none" /\ NoCall.next = "none" /\ NoCall.dir = Root
      /\ NoCall.old.dir = Root /\ NoCall.new.dir = Root /\ NoCall.fid = Root /\ NoCall.victim = Root
  BY DEF NoCall, NoPlace
<1>3. ASSUME \/ call' = NoCall
             \/ /\ call'.kind = call.kind /\ call'.old = call.old /\ call'.new = call.new /\ call'.fid = call.fid
                /\ call'.victim = call.victim /\ call'.dir = call.dir /\ call'.next = call.next
                /\ call'.phase = "free" => "free" \in {call.phase, call.next}
      PROVE  /\ AtHand' \subseteq AtHand
             /\ "free" \in {call'.phase, call'.next} => call'.victim # Root
             /\ call'.kind = "createdir" => call'.fid # Root
  <2>1. CASE call' = NoCall
    BY <1>2, <2>1 DEF AtHand
  <2>2. CASE call' # NoCall
    BY <1>3, <2>2 DEF AtHand, LeftInv
  <2>3. QED
    BY <2>1, <2>2
<1>4. ASSUME \A f \in Fids : header'[f].left = header[f].left, failed \subseteq failed',
             \/ call' = NoCall
             \/ /\ call'.kind = call.kind /\ call'.old = call.old /\ call'.new = call.new /\ call'.fid = call.fid
                /\ call'.victim = call.victim /\ call'.dir = call.dir /\ call'.next = call.next
                /\ call'.phase = "free" => "free" \in {call.phase, call.next}
      PROVE  LeftInv'
  BY <1>1, <1>3, <1>4, LeftStays
<1>5. CASE GiveBack \/ GiveBackFails \/ FreeStorage \/ FreeFails
  <2>1. PICK f \in Fids, h \in Header :
              /\ \/ call.phase = "giveback" /\ f = call.fid
                 \/ call.phase = "free" /\ f = call.victim
              /\ header' = [header EXCEPT ![f] = h]
              /\ \/ h = NoHeader /\ UNCHANGED failed
                 \/ h.left /\ failed' = failed \cup {"free"} /\ call' = NoCall
              /\ \/ call' = NoCall
                 \/ call.phase = "free" /\ call' = [call EXCEPT !.phase = "purge"]
    BY <1>5, ClearingDoes
  <2>2. f # Root
    BY <1>1, <2>1 DEF LeftInv, SoundCall
  <2>3. header'[f] = h /\ \A g \in Fids \ {f} : header'[g] = header[g]
    BY <1>1, <2>1
  <2>4. \/ call' = NoCall
        \/ call'.phase = "purge" /\ SameBut(call', call)
    <3>1. "purge" \in Phases
      BY PhaseNames
    <3>2. QED
      BY <1>1, <2>1, <3>1, PhaseChanges
  <2>5. /\ AtHand' \subseteq AtHand
        /\ "free" \in {call'.phase, call'.next} => call'.victim # Root
        /\ call'.kind = "createdir" => call'.fid # Root
    BY <1>3, <2>4 DEF SameBut
  <2>6. CASE h = NoHeader /\ UNCHANGED failed
    <3>1. ~NoHeader.left
      BY DEF NoHeader
    <3>2. \A g \in Fids : header'[g].left => header[g].left
      BY <2>3, <2>6, <3>1
    <3>3. QED
      BY <1>1, <2>5, <2>6, <3>2, LeftStays
  <2>7. CASE failed' = failed \cup {"free"} /\ call' = NoCall
    <3>1. Whole' => Whole
      BY <2>7 DEF Whole
    <3>2. AtHand' = {Root}
      BY <1>2, <2>7 DEF AtHand
    <3>3. header'[Root] = header[Root] /\ (Whole => ~header[Root].left)
      BY <2>2, <2>3, ConstantParts DEF LeftInv, AtHand
    <3>4. QED
      BY <2>5, <2>7, <3>1, <3>2, <3>3 DEF LeftInv
  <2>8. QED
    BY <2>1, <2>6, <2>7
<1>6. CASE PurgeEnds \/ RestoreFails \/ RenameHeaderFails
  <2>1. call' = NoCall /\ UNCHANGED header /\ failed \subseteq failed'
    BY <1>6 DEF PurgeEnds, RestoreFails, RenameHeaderFails, Ended, Fails
  <2>2. QED
    BY <1>4, <2>1
<1>7. CASE EnterFails
  <2>1. call' = [call EXCEPT !.phase = "restore"] /\ UNCHANGED <<header, failed>>
    BY <1>7 DEF EnterFails
  <2>2. call'.phase = "restore" /\ SameBut(call', call)
    BY <1>1, <2>1, PhaseChanges, PhaseNames
  <2>3. QED
    BY <1>4, <2>1, <2>2 DEF SameBut
<1>8. CASE RenameHeader
  <2>1. /\ call' = [call EXCEPT !.phase = "purge"] /\ UNCHANGED failed
        /\ header' = header \/ header' = [header EXCEPT ![call.fid].link = call.new]
    BY <1>8 DEF RenameHeader
  <2>2. call'.phase = "purge" /\ SameBut(call', call)
    BY <1>1, <2>1, PhaseChanges, PhaseNames
  <2>3. \A g \in Fids : header'[g].left = header[g].left
    <3>1. CASE header' = header
      BY <3>1
    <3>2. CASE header' = [header EXCEPT ![call.fid].link = call.new]
      <4>1. call.fid \in Fids /\ header[call.fid] \in Header
        BY <1>1, CallParts
      <4>2. header'[call.fid].left = header[call.fid].left
        BY <1>1, <3>2, <4>1 DEF Header
      <4>3. \A g \in Fids \ {call.fid} : header'[g] = header[g]
        BY <1>1, <3>2
      <4>4. QED
        BY <4>2, <4>3
    <3>3. QED
      BY <2>1, <3>1, <3>2
  <2>4. QED
    BY <1>4, <2>1, <2>2, <2>3 DEF SameBut
<1>9. CASE NoRun \/ RelocateFails \/ WriteFails \/ RecordFails
  <2>1. call' = AfterError /\ UNCHANGED header /\ failed \subseteq failed'
    BY <1>9 DEF NoRun, RelocateFails, WriteFails, RecordFails, Fails
  <2>2. call' = NoCall \/ (SameBut(call', call) /\ call'.phase \in {"restore", "giveback"})
    BY <2>1, ErrorsAreSound
  <2>3. QED
    BY <1>4, <2>1, <2>2 DEF SameBut
<1>10. CASE Relocate
  <2>1. /\ header'[call.dir].left = header[call.dir].left
        /\ \A f \in Fids \ {call.dir} : header'[f] = header[f]
        /\ call'.kind = call.kind /\ call'.old = call.old /\ call'.new = call.new /\ call'.fid = call.fid
        /\ call'.victim = call.victim /\ call'.dir = call.dir /\ call'.next = call.next
        /\ call'.phase = "write" /\ UNCHANGED failed
    BY <1>10, RelocateDoes
  <2>2. QED
    BY <1>4, <2>1
<1>11. CASE WriteBlock
  <2>1. UNCHANGED <<header, failed>>
    BY <1>11, WriteBlockDoes
  <2>2. CASE call' = AfterError
    <3>1. call' = NoCall \/ (SameBut(call', call) /\ call'.phase \in {"restore", "giveback"})
      BY <2>2, ErrorsAreSound
    <3>2. QED
      BY <1>4, <2>1, <3>1 DEF SameBut
  <2>3. CASE call' # AfterError
    <3>1. /\ call'.phase \in {"record", "write"}
          /\ call'.kind = call.kind /\ call'.old = call.old /\ call'.new = call.new
          /\ call'.fid = call.fid /\ call'.victim = call.victim /\ call'.dir = call.dir /\ call'.next = call.next
      BY <1>11, <2>3, WriteBlockDoes
    <3>2. QED
      BY <1>4, <2>1, <3>1
  <2>4. QED
    BY <2>2, <2>3
<1>12. CASE RecordUsed
  <2>1. /\ header'[call.dir].left = header[call.dir].left
        /\ \A f \in Fids \ {call.dir} : header'[f] = header[f]
        /\ call' = NoCall \/ (call'.phase = call.next /\ SameBut(call', call))
        /\ UNCHANGED failed
    BY <1>12, RecordUsedDoes
  <2>2. QED
    BY <1>4, <1>12, <2>1 DEF SameBut, RecordUsed
<1>13. QED
  BY <1>5, <1>6, <1>7, <1>8, <1>9, <1>10, <1>11, <1>12

\* Every step keeps calls from files whose deletion failed.
LEMMA LeftKept ==
    ASSUME TypeInv, LeftInv, NamedAreLive, [Next]_vars
    PROVE  LeftInv'
<1>1. CASE Next
  BY <1>1, Steps, LeftAtBeginning, LeftAtNextRewriting, LeftAtOthers
<1>2. CASE UNCHANGED vars
  BY <1>2 DEF vars, LeftInv, Whole, AtHand
<1>3. QED
  BY <1>1, <1>2

\* On a new volume nothing is left.
LEMMA InitLeft == Init => LeftInv
<1> SUFFICES ASSUME Init PROVE LeftInv
  OBVIOUS
<1>1. \A f \in Fids : ~header[f].left
  BY DEF Init, NoHeader
<1>2. call = NoCall /\ NoCall.kind = "none" /\ NoCall.phase = "none" /\ NoCall.next = "none"
  BY DEF Init, NoCall
<1>3. \A f \in AtHand : f = Root
  BY <1>2 DEF AtHand, NoCall, NoPlace
<1>4. QED
  BY <1>1, <1>2, <1>3, ConstantParts DEF LeftInv

-----------------------------------------------------------------------------
(* Space.                                                                  *)

SpaceOf(f) == IF header[f].left THEN {} ELSE ClustersOf(header[f].extent)

SpaceInv ==
    DeletedAreUnnamed =>
        /\ \A f \in Fids : SpaceOf(f) \cap free = {}
        /\ \A f, g \in Fids : f # g => SpaceOf(f) \cap SpaceOf(g) = {}
        /\ "relocate" \notin failed => \A c : c \in Clusters <=> c \in free \/ \E f \in Fids : c \in SpaceOf(f)

\* That is what SpaceIsOwnedOnce says, cluster by cluster.
LEMMA SpaceSays == SpaceIsOwnedOnce <=> SpaceInv
<1> DEFINE all == UNION {SpaceOf(f) : f \in Fids}
<1>1. \A c : c \in all <=> \E f \in Fids : c \in SpaceOf(f)
  OBVIOUS
<1>2. SpaceIsOwnedOnce <=>
        (DeletedAreUnnamed =>
            /\ \A f \in Fids : SpaceOf(f) \cap free = {} /\ \A g \in Fids \ {f} : SpaceOf(f) \cap SpaceOf(g) = {}
            /\ "relocate" \notin failed => free \cup all = Clusters)
  BY DEF SpaceIsOwnedOnce, SpaceOf
<1>3. free \cup all = Clusters <=> \A c : c \in Clusters <=> c \in free \/ c \in all
  OBVIOUS
<1> HIDE DEF all
<1>4. QED
  BY <1>1, <1>2, <1>3 DEF SpaceInv

\* One file gives its clusters back and takes others that were free, or none.
LEMMA SpaceMoves ==
    ASSUME SpaceInv, NEW f \in Fids, NEW S, S \subseteq free, free \subseteq Clusters,
           SpaceOf(f)' = S, \A g \in Fids \ {f} : SpaceOf(g)' = SpaceOf(g),
           free' = (free \ S) \cup SpaceOf(f), failed \subseteq failed'
    PROVE  SpaceInv'
<1> SUFFICES ASSUME DeletedAreUnnamed'
             PROVE  SpaceInv'
  BY DEF SpaceInv
<1>1. /\ \A g \in Fids : SpaceOf(g) \cap free = {}
      /\ \A g, h \in Fids : g # h => SpaceOf(g) \cap SpaceOf(h) = {}
      /\ "relocate" \notin failed => \A c : c \in Clusters <=> c \in free \/ \E g \in Fids : c \in SpaceOf(g)
  BY FailuresStay DEF SpaceInv
<1>2. ASSUME NEW g \in Fids
      PROVE  SpaceOf(g)' \cap free' = {}
  <2>1. CASE g = f
    BY <1>1, <2>1
  <2>2. CASE g # f
    BY <1>1, <2>2
  <2>3. QED
    BY <2>1, <2>2
<1>3. ASSUME NEW g \in Fids, NEW h \in Fids, g # h
      PROVE  SpaceOf(g)' \cap SpaceOf(h)' = {}
  <2>1. CASE g = f
    BY <1>1, <1>3, <2>1
  <2>2. CASE h = f
    BY <1>1, <1>3, <2>2
  <2>3. CASE g # f /\ h # f
    BY <1>1, <1>3, <2>3
  <2>4. QED
    BY <2>1, <2>2, <2>3
<1>4. ASSUME "relocate" \notin failed'
      PROVE  \A c : c \in Clusters <=> c \in free' \/ \E g \in Fids : c \in SpaceOf(g)'
  <2>1. \A c : c \in Clusters <=> c \in free \/ \E g \in Fids : c \in SpaceOf(g)
    BY <1>1, <1>4
  <2>2. ASSUME NEW c
        PROVE  (c \in free \/ \E g \in Fids : c \in SpaceOf(g)) <=> (c \in free' \/ \E g \in Fids : c \in SpaceOf(g)')
    <3>1. ASSUME c \in free
          PROVE  c \in free' \/ \E g \in Fids : c \in SpaceOf(g)'
      BY <3>1
    <3>2. ASSUME NEW g \in Fids, c \in SpaceOf(g)
          PROVE  c \in free' \/ \E h \in Fids : c \in SpaceOf(h)'
      <4>1. CASE g = f
        BY <3>2, <4>1
      <4>2. CASE g # f
        BY <3>2, <4>2
      <4>3. QED
        BY <4>1, <4>2
    <3>3. ASSUME c \in free'
          PROVE  c \in free \/ \E g \in Fids : c \in SpaceOf(g)
      BY <3>3
    <3>4. ASSUME NEW g \in Fids, c \in SpaceOf(g)'
          PROVE  c \in free \/ \E h \in Fids : c \in SpaceOf(h)
      <4>1. CASE g = f
        BY <3>4, <4>1
      <4>2. CASE g # f
        BY <3>4, <4>2
      <4>3. QED
        BY <4>1, <4>2
    <3>5. QED
      BY <3>1, <3>2, <3>3, <3>4
  <2>3. QED
    BY <2>1, <2>2
<1>5. QED
  BY <1>2, <1>3, <1>4 DEF SpaceInv

\* No file's extent changes.
LEMMA SpaceStays ==
    ASSUME SpaceInv, failed \subseteq failed', \A g \in Fids : SpaceOf(g)' = SpaceOf(g),
           free' = free \/ (free' \subseteq free /\ "relocate" \in failed')
    PROVE  SpaceInv'
<1> SUFFICES ASSUME DeletedAreUnnamed'
             PROVE  SpaceInv'
  BY DEF SpaceInv
<1>1. /\ \A g \in Fids : SpaceOf(g) \cap free = {}
      /\ \A g, h \in Fids : g # h => SpaceOf(g) \cap SpaceOf(h) = {}
      /\ "relocate" \notin failed => \A c : c \in Clusters <=> c \in free \/ \E g \in Fids : c \in SpaceOf(g)
  BY FailuresStay DEF SpaceInv
<1>3. \A g \in Fids : SpaceOf(g)' \cap free' = {}
  BY <1>1
<1>4. \A g, h \in Fids : g # h => SpaceOf(g)' \cap SpaceOf(h)' = {}
  BY <1>1
<1>5. "relocate" \notin failed' => \A c : c \in Clusters <=> c \in free' \/ \E g \in Fids : c \in SpaceOf(g)'
  BY <1>1
<1>6. QED
  BY <1>3, <1>4, <1>5 DEF SpaceInv

\* A file whose deletion clears or leaves its header gives its clusters back.
LEMMA ClearingKeepsSpace ==
    ASSUME TypeInv, SpaceInv, DeletedAreUnnamed, NEW f \in Fids, ~header[f].left,
           NEW h, h = NoHeader \/ h.left, header' = [header EXCEPT ![f] = h],
           free' = free \cup ClustersOf(header[f].extent), failed \subseteq failed'
    PROVE  SpaceInv'
<1>1. header \in [Fids -> Header] /\ free \subseteq Clusters
  BY DEF TypeInv
<1>2. ClustersOf(NoExtent) = {}
  BY DEF ClustersOf, Span, NoExtent
<1>3. header'[f] = h /\ \A g \in Fids \ {f} : header'[g] = header[g]
  BY <1>1
<1>4. NoHeader.extent = NoExtent /\ ~NoHeader.left
  BY DEF NoHeader
<1>5. SpaceOf(f)' = {} /\ \A g \in Fids \ {f} : SpaceOf(g)' = SpaceOf(g)
  BY <1>2, <1>3, <1>4 DEF SpaceOf
<1>6. free' = (free \ {}) \cup SpaceOf(f)
  BY DEF SpaceOf
<1>7. QED
  BY <1>1, <1>5, <1>6, SpaceMoves

\* Every step keeps the space owned once.
LEMMA SpaceKept ==
    ASSUME TypeInv, LeftInv, SpaceInv, [Next]_vars
    PROVE  SpaceInv'
<1>1. header \in [Fids -> Header] /\ free \subseteq Clusters /\ call \in Call /\ call.fid \in Fids /\ call.victim \in Fids
  BY CallParts DEF TypeInv
<1>0. DeletedAreUnnamed => ~header[call.dir].left /\ ~header[call.fid].left /\ ~header[call.victim].left
  BY AtHandAreThere DEF AtHand
<1>2. ASSUME NEW f \in Fids, NEW p \in Place, Fresh(f), header' = [header EXCEPT ![f] = NewHeader(p)],
             UNCHANGED <<free, failed>>
      PROVE  SpaceInv'
  <2>1. header[f].extent = NoExtent
    BY <1>2 DEF Fresh
  <2>2. NewHeader(p).extent = NoExtent /\ ClustersOf(NoExtent) = {}
    BY NewHeaders DEF ClustersOf, Span, NoExtent
  <2>3. SpaceOf(f)' = {} /\ SpaceOf(f) = {} /\ \A g \in Fids \ {f} : SpaceOf(g)' = SpaceOf(g)
    BY <1>1, <1>2, <2>1, <2>2 DEF SpaceOf
  <2>4. QED
    BY <1>2, <2>3, SpaceStays
<1>3. ASSUME UNCHANGED header, failed \subseteq failed', UNCHANGED free
      PROVE  SpaceInv'
  BY <1>3, SpaceStays DEF SpaceOf
<1>4. ASSUME NEW d \in Directories, NEW n \in Names, NEW version \in Versions \cup {0}, NEW f \in Files,
             CreateFile(d, n, version, f)
      PROVE  SpaceInv'
  <2>1. PICK p \in Place : header' = [header EXCEPT ![f] = NewHeader(p)]
    BY <1>4, CreateFileDoes
  <2>2. Fresh(f) /\ UNCHANGED <<free, failed>>
    BY <1>4 DEF CreateFile, Begin
  <2>3. f \in Fids
    BY DEF Fids
  <2>4. QED
    BY <1>2, <2>1, <2>2, <2>3
<1>5. ASSUME NEW d \in Directories, NEW n \in Names, NEW f \in Subdirectories, CreateDirectory(d, n, f)
      PROVE  SpaceInv'
  <2>1. PICK p \in Place : header' = [header EXCEPT ![f] = NewHeader(p)]
    BY <1>5, CreateDirectoryDoes
  <2>2. Fresh(f) /\ UNCHANGED <<free, failed>>
    BY <1>5 DEF CreateDirectory, Begin
  <2>3. f \in Fids
    BY DEF Fids, Directories
  <2>4. QED
    BY <1>2, <2>1, <2>2, <2>3
<1>6. ASSUME NEW d \in Directories, NEW e \in ToSet(List(d)),
                 \/ DeleteFile(d, e)
                 \/ \E t \in Directories, n \in Names, version \in Versions \cup {0} : Rename(d, e, t, n, version)
      PROVE  SpaceInv'
  <2>1. UNCHANGED <<header, free, failed>>
    BY <1>6 DEF DeleteFile, Rename, Begin
  <2>2. QED
    BY <1>3, <2>1
<1>7. CASE EnterDirectory \/ Enter \/ Restore \/ Purge
  <2>1. UNCHANGED <<header, free, failed>>
    BY <1>7 DEF EnterDirectory, Enter, Restore, Purge
  <2>2. QED
    BY <1>3, <2>1
<1>8. CASE GiveBack \/ GiveBackFails \/ FreeStorage \/ FreeFails
  <2>1. PICK f \in Fids, h \in Header :
              /\ f = call.fid \/ f = call.victim
              /\ header' = [header EXCEPT ![f] = h] /\ free' = free \cup ClustersOf(header[f].extent)
              /\ (h = NoHeader /\ UNCHANGED failed) \/ (h.left /\ failed' = failed \cup {"free"})
    BY <1>8, ClearingDoes
  <2>2. failed \subseteq failed'
    BY <2>1
  <2>3. CASE DeletedAreUnnamed
    BY <1>0, <2>1, <2>2, <2>3, ClearingKeepsSpace
  <2>4. CASE ~DeletedAreUnnamed
    BY <2>2, <2>4, FailuresStay DEF SpaceInv
  <2>5. QED
    BY <2>3, <2>4
<1>10. CASE PurgeEnds \/ EnterFails \/ RestoreFails \/ RenameHeaderFails \/ NoRun \/ WriteFails \/ RecordFails
  <2>1. UNCHANGED <<header, free>> /\ failed \subseteq failed'
    BY <1>10 DEF PurgeEnds, EnterFails, RestoreFails, RenameHeaderFails, NoRun, WriteFails, RecordFails, Fails
  <2>2. QED
    BY <1>3, <2>1
<1>11. CASE RenameHeader
  <2>1. UNCHANGED <<free, failed>> /\ (header' = header \/ header' = [header EXCEPT ![call.fid].link = call.new])
    BY <1>11 DEF RenameHeader
  <2>2. \A g \in Fids : header'[g].extent = header[g].extent /\ header'[g].left = header[g].left
    <3>1. CASE header' = header
      BY <3>1
    <3>2. CASE header' = [header EXCEPT ![call.fid].link = call.new]
      <4>1. header[call.fid] \in Header
        BY <1>1
      <4>2. header'[call.fid].extent = header[call.fid].extent /\ header'[call.fid].left = header[call.fid].left
        BY <1>1, <3>2, <4>1 DEF Header
      <4>3. \A g \in Fids \ {call.fid} : header'[g] = header[g]
        BY <1>1, <3>2
      <4>4. QED
        BY <4>2, <4>3
    <3>3. QED
      BY <2>1, <3>1, <3>2
  <2>3. QED
    BY <2>1, <2>2, SpaceStays DEF SpaceOf
<1>12. CASE RelocateFails
  <2>1. free' \subseteq free /\ "relocate" \in failed' /\ failed \subseteq failed' /\ UNCHANGED header
    BY <1>12 DEF RelocateFails, Fails
  <2>2. QED
    BY <2>1, SpaceStays DEF SpaceOf
<1>13. CASE Relocate
  <2>1. PICK run \in GoodExtent :
              /\ call.dir \in Fids /\ ClustersOf(run) \subseteq free
              /\ header'[call.dir].extent = run /\ header'[call.dir].left = header[call.dir].left
              /\ \A f \in Fids \ {call.dir} : header'[f] = header[f]
              /\ free' = (free \ ClustersOf(run)) \cup ClustersOf(header[call.dir].extent)
              /\ UNCHANGED failed
    BY <1>13, RelocateDoes
  <2>2. PICK d \in Fids : d = call.dir
    BY <2>1
  <2> DEFINE S == ClustersOf(run)
  <2>3. CASE DeletedAreUnnamed
    <3>1. ~header[d].left /\ ~header'[d].left /\ header'[d].extent = run
      BY <1>0, <2>1, <2>2, <2>3
    <3>2. /\ d \in Fids /\ S \subseteq free /\ \A f \in Fids \ {d} : SpaceOf(f)' = SpaceOf(f)
          /\ free' = (free \ S) \cup SpaceOf(d) /\ failed \subseteq failed'
      BY <2>1, <2>2, <3>1 DEF SpaceOf
    <3>3. ClustersOf(header'[d].extent) = S
      BY <3>1
    <3>4. QED
      BY <1>1, <3>1, <3>2, <3>3, SpaceMoves DEF SpaceOf
  <2>4. CASE ~DeletedAreUnnamed
    BY <2>1, <2>4 DEF SpaceInv, DeletedAreUnnamed
  <2>5. QED
    BY <2>3, <2>4
<1>14. CASE WriteBlock
  <2>1. UNCHANGED <<header, free, failed>>
    BY <1>14 DEF WriteBlock
  <2>2. QED
    BY <1>3, <2>1
<1>15. CASE RecordUsed
  <2>1. /\ UNCHANGED <<free, failed>> /\ call.dir \in Fids
        /\ header'[call.dir].extent = header[call.dir].extent /\ header'[call.dir].left = header[call.dir].left
        /\ \A f \in Fids \ {call.dir} : header'[f] = header[f]
    BY <1>15, RecordUsedDoes
  <2>2. \A g \in Fids : header'[g].extent = header[g].extent /\ header'[g].left = header[g].left
    BY <2>1
  <2>3. QED
    BY <2>1, <2>2, SpaceStays DEF SpaceOf
<1>16. CASE UNCHANGED vars
  BY <1>3, <1>16 DEF vars
<1>17. CASE Next
  BY <1>4, <1>5, <1>6, <1>7, <1>8, <1>10, <1>11, <1>12, <1>13, <1>14, <1>15, <1>17, Steps
<1>18. QED
  BY <1>16, <1>17

\* A new volume's space is owned once.
LEMMA InitSpace == Init => SpaceInv
<1> SUFFICES ASSUME Init PROVE SpaceInv
  OBVIOUS
<1>1. header[Root].extent = [start |-> 0, count |-> 1] /\ ~header[Root].left /\ Root \in Fids
  BY ConstantParts DEF Init
<1>2. SpaceOf(Root) = {0}
  BY <1>1 DEF SpaceOf, ClustersOf, Span
<1>3. ASSUME NEW f \in Fids, f # Root
      PROVE  SpaceOf(f) = {}
  <2>1. header[f].extent = NoExtent
    BY <1>3 DEF Init, NoHeader
  <2>2. QED
    BY <2>1 DEF SpaceOf, ClustersOf, Span, NoExtent
<1>4. free = Clusters \ {0} /\ 0 \in Clusters
  BY SizeNumbers DEF Init
<1>5. \A f \in Fids : SpaceOf(f) = IF f = Root THEN {0} ELSE {}
  BY <1>2, <1>3
<1>6. \A c : c \in Clusters <=> c \in free \/ \E f \in Fids : c \in SpaceOf(f)
  BY <1>1, <1>4, <1>5
<1>7. /\ \A f \in Fids : SpaceOf(f) \cap free = {}
      /\ \A f, g \in Fids : f # g => SpaceOf(f) \cap SpaceOf(g) = {}
  BY <1>4, <1>5
<1>8. QED
  BY <1>6, <1>7 DEF SpaceInv

-----------------------------------------------------------------------------
(* Blocks that decode.                                                     *)

\* Do the first k blocks of a directory decode?
Decodes(d, k) == \A v \in 1 .. k : block[header[d].extent.start + v - 1].decodes

ReadInv ==
    /\ call.phase = "relocate" => call.written = 0
    /\ call.phase \in {"relocate", "write"} /\ call.next = "insert" => header[call.dir].used = 0
    /\ call.phase = "write" /\ call.moved =>
          header[call.dir].used <= Len(call.blocks) /\ Len(call.blocks) = header[call.dir].extent.count
    /\ call.phase \in {"write", "record"} => Decodes(call.dir, call.written)
    /\ DeletedAreUnnamed /\ "moved" \notin failed =>
          \A d \in Directories :
              ~header[d].left /\ ~(call.phase = "write" /\ call.moved /\ d = call.dir) => Decodes(d, header[d].used)

\* A step that leaves the blocks of directory d in use as they are, if it has any.
KeepsBlocks(d) ==
    \/ header'[d].used = 0 \/ header'[d].left
    \/ header'[d].used = header[d].used /\ header'[d].extent = header[d].extent /\ header'[d].left = header[d].left

\* That is more than DirectoriesAreReadable.
LEMMA DecodingIsReading ==
    ASSUME TypeInv, ReadInv
    PROVE  DirectoriesAreReadable
<1>1. ASSUME NEW d \in Directories, header[d].live, Decodes(d, header[d].used)
      PROVE  Readable(d)
  <2>1. d \in Fids
    BY ConstantParts
  <2>2. /\ Blocks(d) \in Seq(Block) /\ Len(Blocks(d)) = header[d].used
        /\ \A v \in 1 .. header[d].used : Blocks(d)[v] = block[header[d].extent.start + v - 1]
    BY <2>1, BlocksRead
  <2>3. DOMAIN Blocks(d) = 1 .. header[d].used
    BY <2>2, LenProperties
  <2>4. QED
    BY <1>1, <2>2, <2>3 DEF Readable, IsThere, Decodes
<1>2. \A d \in Directories : header[d].live => ~header[d].left
  BY ConstantParts, HeaderParts DEF TypeInv
<1>3. QED
  BY <1>1, <1>2 DEF ReadInv, DirectoriesAreReadable

\* A step that writes no block, and leaves no directory unfinished that has moved.
LEMMA DecodingStays ==
    ASSUME TypeInv, ReadInv, UNCHANGED block, failed \subseteq failed',
           \A d \in Directories : KeepsBlocks(d),
           ~(call.phase = "write" /\ call.moved) \/ "moved" \in failed' \/ header'[call.dir].used = 0,
           call'.phase \notin {"write", "record"} \/ (call'.written = 0 /\ ~call'.moved /\ call'.phase = "write"),
           call'.phase = "relocate" => call'.written = 0,
           call'.phase \in {"relocate", "write"} /\ call'.next = "insert" => header'[call'.dir].used = 0
    PROVE  ReadInv'
<1>1. \A v \in 1 .. 0 : FALSE
  OBVIOUS
<1>2. call'.phase \in {"write", "record"} => (Decodes(call.dir, call.written))'
  BY <1>1 DEF Decodes
<1>3. ASSUME DeletedAreUnnamed', "moved" \notin failed', NEW d \in Directories, ~header'[d].left
      PROVE  Decodes(d, header[d].used)'
  <2>1. CASE header'[d].used = 0
    BY <1>1, <2>1 DEF Decodes
  <2>2. CASE header'[d].used # 0
    <3>1. header'[d].used = header[d].used /\ header'[d].extent = header[d].extent /\ header'[d].left = header[d].left
      BY <1>3, <2>2 DEF KeepsBlocks
    <3>2. ~(call.phase = "write" /\ call.moved /\ d = call.dir)
      BY <1>3, <2>2
    <3>3. Decodes(d, header[d].used)
      BY <1>3, <3>1, <3>2, FailuresStay DEF ReadInv
    <3>4. QED
      BY <3>1, <3>3 DEF Decodes
  <2>3. QED
    BY <2>1, <2>2
<1>4. QED
  BY <1>2, <1>3 DEF ReadInv

\* A step that begins to rewrite a directory.
LEMMA DecodingAtRewriting ==
    ASSUME TypeInv, ReadInv, UNCHANGED block, failed \subseteq failed', call.phase # "write",
           \A d \in Directories : KeepsBlocks(d),
           NEW c, NEW e, NEW L, NEW next, IsRewriting(call', c, e, L, next),
           call'.phase \in {"relocate", "write"},
           next = "insert" => header'[e].used = 0
    PROVE  ReadInv'
<1>1. call'.written = 0 /\ call'.moved = FALSE /\ call'.dir = e /\ call'.next = next
  BY DEF IsRewriting
<1>2. QED
  BY <1>1, DecodingStays

\* Headers that are made or cleared have no block in use.
LEMMA UnusedHeaders ==
    ASSUME TypeInv, NEW f \in Fids, NEW h \in Header, h.used = 0, header' = [header EXCEPT ![f] = h]
    PROVE  \A d \in Directories : KeepsBlocks(d)
BY ConstantParts DEF TypeInv, KeepsBlocks

\* A file that is new has no block in use.
LEMMA WriteFailsLate ==
    ASSUME TypeInv, ReadInv, WriteFails
    PROVE  ~(call.phase = "write" /\ call.moved) \/ "moved" \in failed' \/ header[call.dir].used = 0
<1>1. call.phase = "write" /\ failed' = failed \cup {WhichWrite}
  BY DEF WriteFails, Fails
<1>2. CASE call.moved
  <2>1. NothingDone => call.next = "insert"
    BY <1>2 DEF NothingDone
  <2>2. CASE NothingDone
    BY <1>1, <2>1, <2>2 DEF ReadInv
  <2>3. CASE ~NothingDone
    BY <1>1, <1>2, <2>3 DEF WhichWrite
  <2>4. QED
    BY <2>2, <2>3
<1>3. QED
  BY <1>2

\* Moving zeroes blocks that no directory has.
LEMMA DecodingAtRelocate ==
    ASSUME TypeInv, SpaceInv, ReadInv, Relocate
    PROVE  ReadInv'
<1>1. PICK run \in GoodExtent :
              /\ call.phase = "relocate" /\ call.dir \in Fids
              /\ run.count = Len(call.blocks) /\ run.start \in Nat /\ ClustersOf(run) \subseteq free
              /\ Len(call.blocks) > header[call.dir].extent.count
              /\ header'[call.dir].extent = run
              /\ header'[call.dir].used = header[call.dir].used /\ header'[call.dir].left = header[call.dir].left
              /\ \A f \in Fids \ {call.dir} : header'[f] = header[f]
              /\ block' = [c \in Clusters |-> IF c \in ClustersOf(run) THEN Zeroed ELSE block[c]]
              /\ call'.phase = "write" /\ call'.moved /\ call'.dir = call.dir
              /\ call'.blocks = call.blocks /\ call'.written = call.written /\ call'.next = call.next
              /\ UNCHANGED failed
  BY RelocateDoes
<1>2. PICK dir \in Directories : dir = call.dir
  BY CallParts DEF TypeInv
<1>3. header[dir] \in Header /\ dir \in Fids
  BY <1>1, <1>2 DEF TypeInv
<1>4. header'[dir].used <= Len(call.blocks)
  <2>1. PICK u \in Nat, x \in Nat : u = header[dir].used /\ x = header[dir].extent.count /\ u <= x
    BY <1>3, HeaderParts
  <2>2. Len(call.blocks) \in Nat
    BY CallParts DEF TypeInv
  <2>3. QED
    BY <1>1, <1>2, <2>1, <2>2
<1>5. call'.written = 0
  BY <1>1 DEF ReadInv
<1>6. \A v \in 1 .. 0 : FALSE
  OBVIOUS
<1>7. (Decodes(call.dir, call.written))'
  BY <1>5, <1>6 DEF Decodes
<1>8. ASSUME NEW d \in Directories, d # dir, DeletedAreUnnamed, "moved" \notin failed, ~header[d].left
      PROVE  Decodes(d, header[d].used)'
  <2>1. d \in Fids
    BY ConstantParts
  <2>2. Decodes(d, header[d].used)
    BY <1>1, <1>2, <1>8 DEF ReadInv
  <2>3. /\ header[d].used \in Nat /\ header[d].used <= header[d].extent.count /\ header[d].extent.count \in Nat
        /\ \A v \in 1 .. header[d].extent.count :
              header[d].extent.start + v - 1 \in ClustersOf(header[d].extent)
        /\ ClustersOf(header[d].extent) \subseteq Clusters
    BY <2>1, BlocksRead
  <2>4. header'[d] = header[d]
    BY <1>1, <1>2, <1>8, <2>1
  <2>5. ASSUME NEW v \in 1 .. header[d].used
        PROVE  block'[header[d].extent.start + v - 1].decodes
    <3>1. v \in 1 .. header[d].extent.count
      BY <2>3
    <3>2. PICK c \in Clusters : c = header[d].extent.start + v - 1 /\ c \in SpaceOf(d)
      BY <1>8, <2>3, <3>1 DEF SpaceOf
    <3>3. c \notin ClustersOf(run)
      BY <1>1, <1>8, <2>1, <3>2 DEF SpaceInv
    <3>4. block'[c] = block[c]
      BY <1>1, <3>2, <3>3
    <3>5. block[c].decodes
      BY <2>2, <3>2 DEF Decodes
    <3>6. QED
      BY <3>2, <3>4, <3>5
  <2>6. QED
    BY <2>4, <2>5 DEF Decodes
<1>9. call'.phase \in {"relocate", "write"} /\ call'.next = "insert" => header'[call'.dir].used = 0
  BY <1>1 DEF ReadInv
<1>10. call'.phase = "write" /\ header'[call'.dir].used <= Len(call'.blocks) /\ Len(call'.blocks) = header'[call'.dir].extent.count
  BY <1>1, <1>2, <1>4
<1>11. DeletedAreUnnamed' /\ "moved" \notin failed' =>
          \A d \in Directories :
              ~header'[d].left /\ ~(call'.phase = "write" /\ call'.moved /\ d = call'.dir) => Decodes(d, header[d].used)'
  <2>1. \A d \in Directories : d # dir => header'[d] = header[d]
    BY <1>1, <1>2, ConstantParts
  <2>2. DeletedAreUnnamed' => DeletedAreUnnamed
    BY <1>1, FailuresStay
  <2>3. QED
    BY <1>1, <1>2, <1>8, <2>1, <2>2
<1>12. QED
  BY <1>5, <1>7, <1>9, <1>10, <1>11 DEF ReadInv

\* A block that is written decodes.
LEMMA DecodingAtWriteBlock ==
    ASSUME TypeInv, ReadInv, WriteBlock
    PROVE  ReadInv'
<1>1. call.phase = "write" /\ call.dir \in Fids /\ UNCHANGED <<header, failed>>
  BY WriteBlockDoes
<1>2. PICK dir \in Directories : dir = call.dir
  BY CallParts DEF TypeInv
<1>3. PICK m \in Nat, w \in Nat, u \in Nat, x \in Nat :
          m = Len(call.blocks) /\ w = call.written /\ u = header[dir].used /\ x = header[dir].extent.count
  BY <1>2, CallParts, BlocksRead, ConstantParts DEF TypeInv
<1>4. CASE call' = AfterError /\ UNCHANGED block /\ call.written + 1 > header[call.dir].extent.count
  <2>1. call.written + 1 <= Len(call.blocks)
    BY DEF WriteBlock
  <2>2. ~call.moved
    <3>1. SUFFICES ASSUME call.moved PROVE FALSE
      OBVIOUS
    <3>2. Len(call.blocks) = header[call.dir].extent.count
      BY <1>1, <3>1 DEF ReadInv
    <3>3. w + 1 > x /\ w + 1 <= m /\ m = x
      BY <1>2, <1>3, <1>4, <2>1, <3>2
    <3>4. QED
      BY <3>3
  <2>3. call'.phase \in {"none", "restore", "giveback"}
    BY <1>4, ErrorsAreSound
  <2>4. QED
    BY <1>1, <1>4, <2>2, <2>3, DecodingStays DEF KeepsBlocks
<1>5. ASSUME NEW c \in Clusters, NEW v, v = call.written + 1, c = header[call.dir].extent.start + v - 1,
             v \in 1 .. Len(call.blocks), v <= header[call.dir].extent.count,
             block' = [block EXCEPT ![c] = DirectoryBlock(call.blocks[v])],
             call'.written = v, call'.phase = IF v = Len(call.blocks) THEN "record" ELSE "write",
             call'.dir = call.dir, call'.blocks = call.blocks, call'.moved = call.moved, call'.next = call.next
      PROVE  ReadInv'
  <2>1. block'[c].decodes /\ \A y \in Clusters : block[y].decodes => block'[y].decodes
    BY <1>5 DEF DirectoryBlock, TypeInv
  <2>2. ASSUME NEW d \in Directories, NEW k \in Nat, k <= header[d].extent.count, Decodes(d, k)
        PROVE  Decodes(d, k)'
    <3>1. /\ header[d].extent.count \in Nat
          /\ \A y \in 1 .. header[d].extent.count :
                header[d].extent.start + y - 1 \in ClustersOf(header[d].extent)
          /\ ClustersOf(header[d].extent) \subseteq Clusters
      BY ConstantParts, BlocksRead
    <3>2. ASSUME NEW y \in 1 .. k
          PROVE  block'[header[d].extent.start + y - 1].decodes
      <4>1. y \in 1 .. header[d].extent.count
        BY <2>2, <3>1
      <4>2. header[d].extent.start + y - 1 \in Clusters
        BY <3>1, <4>1
      <4>3. block[header[d].extent.start + y - 1].decodes
        BY <2>2 DEF Decodes
      <4>4. QED
        BY <2>1, <4>2, <4>3
    <3>3. header' = header
      BY <1>1
    <3>4. QED
      BY <3>2, <3>3 DEF Decodes
  <2>3. v = w + 1 /\ v \in Nat /\ v <= m
    BY <1>3, <1>5
  <2>4. \A y \in 1 .. v : block'[header[dir].extent.start + y - 1].decodes
    <3>1. Decodes(dir, w)
      BY <1>1, <1>2, <1>3 DEF ReadInv
    <3>2. w <= x
      <4>1. header[dir].extent.start + v - 1 = c
        BY <1>2, <1>5
      <4>2. v <= header[dir].extent.count
        BY <1>2, <1>5
      <4>3. QED
        BY <1>3, <2>3, <4>2
    <3>3. Decodes(dir, w)'
      BY <1>3, <2>2, <3>1, <3>2
    <3>4. header' = header
      BY <1>1
    <3>5. ASSUME NEW y \in 1 .. v
          PROVE  block'[header[dir].extent.start + y - 1].decodes
      <4>1. CASE y = v
        BY <1>2, <1>5, <2>1, <4>1
      <4>2. CASE y # v
        <5>1. y \in 1 .. w
          BY <2>3, <4>2
        <5>2. QED
          BY <3>3, <3>4, <5>1 DEF Decodes
      <4>3. QED
        BY <4>1, <4>2
    <3>6. QED
      BY <3>5
  <2>5. (Decodes(call.dir, call.written))'
    BY <1>1, <1>2, <1>5, <2>4 DEF Decodes
  <2>6. ASSUME DeletedAreUnnamed', "moved" \notin failed', NEW d \in Directories, ~header'[d].left,
               ~(call'.phase = "write" /\ call'.moved /\ d = call'.dir)
        PROVE  Decodes(d, header[d].used)'
    <3>1. header' = header /\ DeletedAreUnnamed /\ "moved" \notin failed /\ ~header[d].left
      BY <1>1, <2>6, FailuresStay
    <3>2. CASE call.moved /\ d = dir
      <4>1. m <= v
        BY <1>2, <1>3, <1>5, <2>3, <2>6, <3>2
      <4>2. u <= m
        BY <1>1, <1>2, <1>3, <3>2 DEF ReadInv
      <4>3. \A y \in 1 .. u : y \in 1 .. v
        BY <2>3, <4>1, <4>2
      <4>4. QED
        BY <1>3, <2>4, <3>1, <3>2, <4>3 DEF Decodes
    <3>3. CASE ~(call.moved /\ d = dir)
      <4>1. Decodes(d, header[d].used)
        BY <1>2, <3>1, <3>3 DEF ReadInv
      <4>2. header[d].used \in Nat /\ header[d].used <= header[d].extent.count
        BY ConstantParts, BlocksRead
      <4>3. Decodes(d, header[d].used)'
        <5>1. PICK k \in Nat : k = header[d].used
          BY <4>2
        <5>2. Decodes(d, k)'
          BY <2>2, <4>1, <4>2, <5>1
        <5>3. QED
          BY <3>1, <5>1, <5>2
      <4>4. QED
        BY <4>3
    <3>4. QED
      BY <3>2, <3>3
  <2>7. call'.phase \in {"write", "record"}
    BY <1>5
  <2>8. QED
    BY <1>1, <1>5, <2>5, <2>6, <2>7 DEF ReadInv
<1>6. QED
  BY <1>4, <1>5, WriteBlockDoes

\* What is recorded are blocks that were written.
LEMMA DecodingAtRecordUsed ==
    ASSUME TypeInv, ReadInv, RecordUsed
    PROVE  ReadInv'
<1>1. /\ call.phase = "record" /\ call.dir \in Fids /\ UNCHANGED <<block, failed>>
      /\ header'[call.dir].used = Len(call.blocks)
      /\ header'[call.dir].extent = header[call.dir].extent /\ header'[call.dir].left = header[call.dir].left
      /\ \A f \in Fids \ {call.dir} : header'[f] = header[f]
      /\ \/ call.next = "none" /\ call' = NoCall
         \/ call.next # "none" /\ call' \in Call /\ call'.phase = call.next /\ SameBut(call', call)
  BY RecordUsedDoes
<1>2. PICK dir \in Directories : dir = call.dir
  BY CallParts DEF TypeInv
<1>3. call.written = Len(call.blocks)
  BY <1>1 DEF TypeInv, CallHasRoom
<1>4. call'.phase \notin {"relocate", "write", "record"}
  <2>1. call.next \in {"none", "insert", "enter", "name", "purge", "free"}
    BY DEF TypeInv, SoundCall
  <2>2. NoCall.phase = "none"
    BY DEF NoCall
  <2>3. QED
    BY <1>1, <2>1, <2>2
<1>5. ASSUME DeletedAreUnnamed', "moved" \notin failed', NEW d \in Directories, ~header'[d].left
      PROVE  Decodes(d, header[d].used)'
  <2>1. CASE d = dir
    <3>1. Decodes(call.dir, call.written)
      BY <1>1 DEF ReadInv
    <3>2. \A v \in 1 .. Len(call.blocks) : block[header[dir].extent.start + v - 1].decodes
      BY <1>2, <1>3, <3>1 DEF Decodes
    <3>3. header'[d].used = Len(call.blocks) /\ header'[d].extent = header[d].extent /\ block' = block
      BY <1>1, <1>2, <2>1
    <3>4. QED
      BY <2>1, <3>2, <3>3 DEF Decodes
  <2>2. CASE d # dir
    <3>1. header'[d] = header[d] /\ block' = block
      BY <1>1, <1>2, <2>2, ConstantParts
    <3>2. Decodes(d, header[d].used)
      BY <1>1, <1>5, <3>1, FailuresStay DEF ReadInv
    <3>3. QED
      BY <3>1, <3>2 DEF Decodes
  <2>3. QED
    BY <2>1, <2>2
<1>6. QED
  BY <1>4, <1>5 DEF ReadInv

\* What ends a call, or an error in it, writes nothing.
LEMMA EndingDoes ==
    ASSUME TypeInv,
           \/ GiveBack \/ GiveBackFails \/ FreeStorage \/ FreeFails \/ PurgeEnds \/ EnterFails \/ RestoreFails
           \/ RenameHeader \/ RenameHeaderFails \/ NoRun \/ RelocateFails \/ WriteFails \/ RecordFails
    PROVE  /\ UNCHANGED block /\ failed \subseteq failed'
           /\ call'.phase \notin {"relocate", "write", "record", "insert"}
           /\ \A d \in Fids : \/ ~header'[d].live /\ (header'[d] = NoHeader \/ header'[d].left)
                             \/ /\ header'[d].used = header[d].used /\ header'[d].extent = header[d].extent
                                /\ header'[d].live = header[d].live /\ header'[d].left = header[d].left
           /\ call.phase \in {"write", "record"} => WriteFails \/ RecordFails
<1>1. NoCall.phase = "none" /\ ~NoHeader.live
  BY DEF NoCall, NoHeader
<1>2. header \in [Fids -> Header] /\ call \in Call /\ call.fid \in Fids /\ call.victim \in Fids
  BY CallParts DEF TypeInv
<1>3. CASE GiveBack \/ GiveBackFails \/ FreeStorage \/ FreeFails
  <2>1. PICK f \in Fids, h \in Header :
              /\ call.phase \in {"giveback", "free"}
              /\ header' = [header EXCEPT ![f] = h] /\ ~h.live /\ UNCHANGED block
              /\ (h = NoHeader /\ UNCHANGED failed) \/ (h.left /\ failed' = failed \cup {"free"})
              /\ call' = NoCall \/ call' = [call EXCEPT !.phase = "purge"]
    BY <1>3, ClearingDoes
  <2>2. call'.phase \in {"none", "purge"}
    <3>1. "purge" \in Phases
      BY PhaseNames
    <3>2. QED
      BY <1>1, <1>2, <2>1, <3>1, PhaseChanges
  <2>3. header'[f] = h /\ \A d \in Fids \ {f} : header'[d] = header[d]
    BY <1>2, <2>1
  <2>4. QED
    BY <2>1, <2>2, <2>3
<1>4. CASE PurgeEnds \/ RestoreFails \/ RenameHeaderFails
  <2>1. UNCHANGED <<header, block>> /\ failed \subseteq failed' /\ call' = NoCall /\ call.phase \in {"purge", "restore", "name"}
    BY <1>4 DEF PurgeEnds, RestoreFails, RenameHeaderFails, Ended, Fails
  <2>2. QED
    BY <1>1, <2>1
<1>5. CASE EnterFails \/ RenameHeader
  <2>1. /\ call' = [call EXCEPT !.phase = "restore"] \/ call' = [call EXCEPT !.phase = "purge"]
        /\ UNCHANGED <<block, failed>> /\ call.phase \in {"enter", "name"}
        /\ header' = header \/ header' = [header EXCEPT ![call.fid].link = call.new]
    BY <1>5 DEF EnterFails, RenameHeader
  <2>2. call'.phase \in {"restore", "purge"}
    <3>1. "purge" \in Phases /\ "restore" \in Phases
      BY PhaseNames
    <3>2. QED
      BY <1>2, <2>1, <3>1, PhaseChanges
  <2>3. ASSUME NEW f \in Fids
        PROVE  /\ header'[f].used = header[f].used /\ header'[f].extent = header[f].extent
               /\ header'[f].live = header[f].live /\ header'[f].left = header[f].left
    <3>1. header[f] \in Header
      BY <1>2
    <3>2. QED
      BY <1>2, <2>1, <3>1 DEF Header
  <2>4. QED
    BY <2>1, <2>2, <2>3
<1>6. CASE NoRun \/ RelocateFails \/ WriteFails \/ RecordFails
  <2>1. UNCHANGED <<header, block>> /\ failed \subseteq failed' /\ call' = AfterError
    BY <1>6 DEF NoRun, RelocateFails, WriteFails, RecordFails, Fails
  <2>2. call'.phase \in {"none", "restore", "giveback"}
    BY <2>1, ErrorsAreSound
  <2>3. call.phase \in {"write", "record"} => WriteFails \/ RecordFails
    BY <1>6 DEF NoRun, RelocateFails
  <2>4. QED
    BY <2>1, <2>2, <2>3
<1>7. QED
  BY <1>3, <1>4, <1>5, <1>6

\* A step that changes no header's extent or blocks in use, and writes nothing.
LEMMA DecodingAtEnding ==
    ASSUME TypeInv, ReadInv,
           \/ GiveBack \/ GiveBackFails \/ FreeStorage \/ FreeFails \/ PurgeEnds \/ EnterFails \/ RestoreFails
           \/ RenameHeader \/ RenameHeaderFails \/ NoRun \/ RelocateFails \/ WriteFails \/ RecordFails
    PROVE  ReadInv'
<1>1. NoHeader.used = 0
  BY DEF NoHeader
<1>3. UNCHANGED block /\ failed \subseteq failed'
  BY EndingDoes
<1>4. call'.phase \notin {"relocate", "write", "record"}
  BY EndingDoes
<1>5. \A d \in Directories : KeepsBlocks(d)
  <2>1. \A d \in Fids : \/ header'[d] = NoHeader \/ header'[d].left
                       \/ /\ header'[d].used = header[d].used /\ header'[d].extent = header[d].extent
                          /\ header'[d].left = header[d].left
    BY EndingDoes
  <2>2. QED
    BY <1>1, <2>1, ConstantParts DEF KeepsBlocks
<1>6. ~(call.phase = "write" /\ call.moved) \/ "moved" \in failed' \/ header'[call.dir].used = 0
  <2>1. CASE WriteFails
    <3>1. UNCHANGED header
      BY <2>1 DEF WriteFails
    <3>2. QED
      BY <2>1, <3>1, WriteFailsLate
  <2>2. CASE ~WriteFails
    <3>1. call.phase # "write"
      BY <2>2, EndingDoes DEF RecordFails
    <3>2. QED
      BY <3>1
  <2>3. QED
    BY <2>1, <2>2
<1>7. QED
  BY <1>3, <1>4, <1>5, <1>6, DecodingStays

\* A call that begins writes nothing yet.
LEMMA DecodingAtBeginning ==
    ASSUME TypeInv, ReadInv, NEW d \in Directories,
           \/ \E n \in Names, version \in Versions \cup {0}, f \in Files : CreateFile(d, n, version, f)
           \/ \E n \in Names, f \in Subdirectories : CreateDirectory(d, n, f)
           \/ \E e \in ToSet(List(d)) :
                 \/ DeleteFile(d, e)
                 \/ \E t \in Directories, n \in Names, version \in Versions \cup {0} : Rename(d, e, t, n, version)
    PROVE  ReadInv'
<1>1. UNCHANGED <<block, failed>> /\ call = NoCall
  BY ZenonT(60) DEF CreateFile, CreateDirectory, DeleteFile, Rename, Begin, Idle
<1>2. call.phase # "write"
  BY <1>1 DEF NoCall
<1>3. ASSUME NEW n \in Names, NEW version \in Versions \cup {0}, NEW f \in Files, CreateFile(d, n, version, f)
      PROVE  ReadInv'
  <2>1. PICK p \in Place, c \in Call :
              /\ IsRewriting(call', c, d, Append(List(d), EntryFor(c, p)), "purge")
              /\ FitsOrMoves(call', header[d])
              /\ header' = [header EXCEPT ![f] = NewHeader(p)]
    BY <1>3, CreateFileDoes
  <2>2. NewHeader(p) \in Header /\ NewHeader(p).used = 0 /\ f \in Fids
    BY NewHeaders DEF Fids
  <2>3. call'.phase \in {"relocate", "write"}
    BY <2>1 DEF FitsOrMoves
  <2>4. QED
    BY <1>1, <1>2, <2>1, <2>2, <2>3, UnusedHeaders, DecodingAtRewriting
<1>4. ASSUME NEW n \in Names, NEW f \in Subdirectories, CreateDirectory(d, n, f)
      PROVE  ReadInv'
  <2>1. PICK p \in Place, c \in Call :
              /\ IsRewriting(call', c, f, <<>>, "insert")
              /\ call'.phase = "relocate"
              /\ header' = [header EXCEPT ![f] = NewHeader(p)]
    BY <1>4, CreateDirectoryDoes
  <2>2. NewHeader(p) \in Header /\ NewHeader(p).used = 0 /\ f \in Fids
    BY NewHeaders DEF Fids, Directories
  <2>3. header'[f].used = 0
    BY <2>1, <2>2 DEF TypeInv
  <2>4. QED
    BY <1>1, <1>2, <2>1, <2>2, <2>3, UnusedHeaders, DecodingAtRewriting
<1>5. ASSUME NEW e \in ToSet(List(d)), DeleteFile(d, e)
      PROVE  ReadInv'
  <2>1. PICK c \in Call :
              /\ IsRewriting(call', c, d, Without(List(d), d, At(e, d)), "free")
              /\ call'.phase = "write" /\ UNCHANGED header
    BY <1>5, DeleteFileDoes
  <2>2. QED
    BY <1>1, <1>2, <2>1, DecodingAtRewriting DEF KeepsBlocks
<1>6. ASSUME NEW e \in ToSet(List(d)), NEW t \in Directories, NEW n \in Names, NEW version \in Versions \cup {0},
             Rename(d, e, t, n, version)
      PROVE  ReadInv'
  <2>1. PICK c \in Call :
              /\ IsRewriting(call', c, d, Without(List(d), d, At(e, d)), "enter")
              /\ call'.phase = "write" /\ UNCHANGED header
    BY <1>6, RenameDoes
  <2>2. QED
    BY <1>1, <1>2, <2>1, DecodingAtRewriting DEF KeepsBlocks
<1>7. QED
  BY <1>3, <1>4, <1>5, <1>6

\* Nor does a call that goes on to another directory.
LEMMA DecodingAtNextRewriting ==
    ASSUME TypeInv, ReadInv, EnterDirectory \/ Enter \/ Restore \/ Purge
    PROVE  ReadInv'
<1>1. UNCHANGED <<block, failed, header>> /\ call.phase # "write"
  BY DEF EnterDirectory, Enter, Restore, Purge
<1>2. CASE EnterDirectory
  <2>1. /\ IsRewriting(call', call, call.new.dir, Append(List(call.new.dir), EntryFor(call, call.new)), "none")
        /\ FitsOrMoves(call', header[call.new.dir])
    BY <1>2, EnterDirectoryDoes
  <2>2. QED
    BY <1>1, <2>1, DecodingAtRewriting DEF FitsOrMoves, KeepsBlocks
<1>3. CASE Enter
  <2>1. PICK p \in Place, c \in Call :
              /\ IsRewriting(call', c, p.dir, Append(List(p.dir), EntryFor(c, p)), "name")
              /\ FitsOrMoves(call', header[p.dir])
    BY <1>3, EnterDoes
  <2>2. QED
    BY <1>1, <2>1, DecodingAtRewriting DEF FitsOrMoves, KeepsBlocks
<1>4. CASE Restore
  <2>1. /\ IsRewriting(call', call, call.old.dir, Append(List(call.old.dir), EntryFor(call, call.old)), "none")
        /\ FitsOrMoves(call', header[call.old.dir])
    BY <1>4, RestoreDoes
  <2>2. QED
    BY <1>1, <2>1, DecodingAtRewriting DEF FitsOrMoves, KeepsBlocks
<1>5. CASE Purge
  <2>1. PICK e \in VersionsIn(call.new.dir, call.new.name), c \in Call :
              /\ IsRewriting(call', c, call.new.dir,
                             Without(List(call.new.dir), call.new.dir, At(e, call.new.dir)), "free")
              /\ call'.phase = "write"
    BY <1>5, PurgeDoes
  <2>2. QED
    BY <1>1, <2>1, DecodingAtRewriting DEF KeepsBlocks
<1>6. QED
  BY <1>2, <1>3, <1>4, <1>5

\* Every step keeps what can be read.
LEMMA DecodingKept ==
    ASSUME TypeInv, SpaceInv, ReadInv, [Next]_vars
    PROVE  ReadInv'
<1>1. CASE Next
  BY <1>1, Steps, DecodingAtBeginning, DecodingAtNextRewriting, DecodingAtEnding, DecodingAtRelocate,
     DecodingAtWriteBlock, DecodingAtRecordUsed
<1>2. CASE UNCHANGED vars
  <2>1. UNCHANGED <<header, block, call, failed>>
    BY <1>2 DEF vars
  <2>2. \A d, k : Decodes(d, k)' <=> Decodes(d, k)
    BY <2>1 DEF Decodes
  <2>3. QED
    BY <2>1 DEF ReadInv, Decodes, DeletedAreUnnamed
<1>3. QED
  BY <1>1, <1>2

\* A new volume's directory is empty, and decodes.
LEMMA InitDecodes == Init => ReadInv
<1> SUFFICES ASSUME Init PROVE ReadInv
  OBVIOUS
<1>1. call.phase = "none"
  BY DEF Init, NoCall
<1>2. ASSUME NEW d \in Directories
      PROVE  Decodes(d, header[d].used)
  <2>1. d \in Fids
    BY ConstantParts
  <2>2. CASE d = Root
    <3>1. header[d].extent.start = 0 /\ header[d].used = 1
      BY <2>1, <2>2 DEF Init
    <3>2. block[0].decodes
      BY SizeNumbers DEF Init, DirectoryBlock
    <3>3. \A v \in 1 .. 1 : 0 + v - 1 = 0
      OBVIOUS
    <3>4. QED
      BY <3>1, <3>2, <3>3 DEF Decodes
  <2>3. CASE d # Root
    <3>1. header[d].used = 0
      BY <2>1, <2>3 DEF Init, NoHeader
    <3>2. \A v \in 1 .. 0 : FALSE
      OBVIOUS
    <3>3. QED
      BY <3>1, <3>2 DEF Decodes
  <2>4. QED
    BY <2>2, <2>3
<1>3. QED
  BY <1>1, <1>2 DEF ReadInv

-----------------------------------------------------------------------------
(* Order.                                                                  *)

\* Blocks that hold a list in order.
IsOrderedCut(B) == \E S \in Seq(Entry) : IsOrdered(S) /\ \E bound : IsCut(S, 1, B, bound)

\* Does a directory list its entries in order, in blocks they fit into?
OrderedIn(h, b) ==
    /\ IsOrdered(Listed(h, b))
    /\ \A v \in 1 .. h.used : Size(b[h.extent.start + v - 1].entries) <= BlockRoom

\* A directory whose blocks are not changed is as it was.
LEMMA ListingStays ==
    ASSUME NEW h \in Header, NEW b \in [Clusters -> Block], NEW g \in Header, NEW c \in [Clusters -> Block],
           g.used = h.used, g.extent = h.extent,
           \A x \in ClustersOf(h.extent) : c[x] = b[x]
    PROVE  /\ Listed(g, c) = Listed(h, b)
           /\ OrderedIn(h, b) => OrderedIn(g, c)
<1>1. PICK s \in Nat, n \in Nat, u \in Nat :
        s = h.extent.start /\ n = h.extent.count /\ u = h.used /\ u <= n
  BY HeaderParts
<1>2. /\ \A v \in 1 .. n : s + v - 1 \in ClustersOf(h.extent)
      /\ InUse(h, b) \in Seq(Block) /\ Len(InUse(h, b)) = u
      /\ \A v \in 1 .. u : InUse(h, b)[v] = b[s + v - 1]
  BY <1>1, InUseRead
<1>3. /\ InUse(g, c) \in Seq(Block) /\ Len(InUse(g, c)) = u
      /\ \A v \in 1 .. u : InUse(g, c)[v] = c[s + v - 1]
  BY <1>1, InUseRead
<1>4. \A v \in 1 .. u : c[s + v - 1] = b[s + v - 1]
  <2>1. \A v \in 1 .. u : v \in 1 .. n
    BY <1>1
  <2>2. QED
    BY <1>2, <2>1
<1>5. InUse(g, c) = InUse(h, b)
  <2>1. \A v \in 1 .. u : InUse(g, c)[v] = InUse(h, b)[v]
    BY <1>2, <1>3, <1>4
  <2>2. QED
    BY <1>2, <1>3, <2>1, SeqEqual
<1>6. Listed(g, c) = Listed(h, b)
  BY <1>5 DEF Listed
<1>7. ASSUME OrderedIn(h, b)
      PROVE  OrderedIn(g, c)
  BY <1>1, <1>4, <1>6, <1>7 DEF OrderedIn
<1>8. QED
  BY <1>6, <1>7

\* A directory with no block in use has no entries.
LEMMA UnusedIsOrdered ==
    ASSUME NEW h \in Header, NEW b \in [Clusters -> Block], h.used = 0
    PROVE  Listed(h, b) = <<>> /\ OrderedIn(h, b)
<1>1. PICK f : IsListing(EntriesIn(h, b), f) /\ Listed(h, b) = f[h.used]
  BY ListedReads
<1>2. Listed(h, b) = <<>>
  BY <1>1 DEF IsListing
<1>3. IsOrdered(<<>>)
  <2>1. \A i \in 1 .. 0 : FALSE
    OBVIOUS
  <2>2. Len(<<>>) = 0
    OBVIOUS
  <2>3. QED
    BY <2>1, <2>2 DEF IsOrdered
<1>4. \A v \in 1 .. h.used : FALSE
  OBVIOUS
<1>5. QED
  BY <1>2, <1>3, <1>4 DEF OrderedIn

\* A directory that has been written lists what its blocks were cut from.
LEMMA WrittenIsOrdered ==
    ASSUME NEW h \in Header, NEW b \in [Clusters -> Block], NEW B \in Seq(Seq(Entry)), h.used = Len(B),
           IsOrderedCut(B),
           \A v \in 1 .. Len(B) : b[h.extent.start + v - 1].entries = B[v]
    PROVE  /\ OrderedIn(h, b)
           /\ \A S \in Seq(Entry) : (\E bound : IsCut(S, 1, B, bound)) => Listed(h, b) = S
<1>1. /\ EntriesIn(h, b) \in Seq(Seq(Entry)) /\ Len(EntriesIn(h, b)) = h.used
      /\ \A v \in 1 .. h.used : EntriesIn(h, b)[v] = b[h.extent.start + v - 1].entries
  BY ListedReads
<1>2. PICK f : IsListing(EntriesIn(h, b), f) /\ Listed(h, b) = f[h.used]
  BY ListedReads
<1>3. EntriesIn(h, b) = B
  <2>1. \A v \in 1 .. Len(B) : EntriesIn(h, b)[v] = B[v]
    BY <1>1
  <2>2. QED
    BY <1>1, <2>1, SeqEqual
<1>4. ASSUME NEW S \in Seq(Entry), NEW bound, IsCut(S, 1, B, bound)
      PROVE  Listed(h, b) = S
  BY <1>2, <1>3, <1>4, CutsList
<1>5. PICK S \in Seq(Entry) : IsOrdered(S) /\ \E bound : IsCut(S, 1, B, bound)
  BY DEF IsOrderedCut
<1>6. \A v \in 1 .. Len(B) : Size(B[v]) <= BlockRoom
  BY <1>5 DEF IsCut
<1>7. QED
  BY <1>4, <1>5, <1>6 DEF OrderedIn

\* An entry that is not there goes where it belongs.
LEMMA InsertionOrders ==
    ASSUME NEW L \in Seq(Entry), IsOrdered(L), NEW e \in Entry,
           ~\E x \in ToSet(L) : x.name = e.name /\ x.version = e.version
    PROVE  /\ IsOrderedCut(Pack(Append(L, e)))
           /\ IsOrdered(Sorted(Append(L, e)))
<1> DEFINE M == Append(L, e)
<1>1. M \in Seq(Entry) /\ Len(M) = Len(L) + 1 /\ Len(L) \in Nat
      /\ (\A i \in 1 .. Len(L) : M[i] = L[i]) /\ M[Len(L) + 1] = e
  BY AppendProperties, LenProperties
<1>2. IsDistinct(L)
  BY SortedOrders
<1>3. \A i \in 1 .. Len(L) : L[i] \in ToSet(L)
  BY DEF ToSet
<1> HIDE DEF M
<1>4. IsDistinct(M)
  <2>1. ASSUME NEW i \in 1 .. Len(M), NEW j \in 1 .. Len(M), M[i].name = M[j].name, M[i].version = M[j].version
        PROVE  i = j
    <3>1. CASE i \in 1 .. Len(L) /\ j \in 1 .. Len(L)
      BY <1>1, <1>2, <2>1, <3>1 DEF IsDistinct
    <3>2. CASE i = Len(L) + 1 /\ j \in 1 .. Len(L)
      <4>1. M[j] \in ToSet(L) /\ M[i] = e
        BY <1>1, <1>3, <3>2
      <4>2. QED
        BY <2>1, <4>1
    <3>3. CASE j = Len(L) + 1 /\ i \in 1 .. Len(L)
      <4>1. M[i] \in ToSet(L) /\ M[j] = e
        BY <1>1, <1>3, <3>3
      <4>2. QED
        BY <2>1, <4>1
    <3>4. i \in 1 .. Len(L) \/ i = Len(L) + 1
      BY <1>1
    <3>5. j \in 1 .. Len(L) \/ j = Len(L) + 1
      BY <1>1
    <3>6. QED
      BY <3>1, <3>2, <3>3, <3>4, <3>5
  <2>2. QED
    BY <2>1 DEF IsDistinct
<1>5. IsOrdered(Sorted(M)) /\ Sorted(M) \in Seq(Entry)
  BY <1>1, <1>4, SortedOrders, SortedPermutes
<1>6. IsOrderedCut(Pack(M))
  BY <1>1, <1>5, PackHolds DEF IsOrderedCut
<1>7. QED
  BY <1>5, <1>6 DEF M

\* A list in order without one of its entries.
LEMMA RemovalOrders ==
    ASSUME NEW L \in Seq(Entry), IsOrdered(L), NEW r \in 1 .. Len(L),
           NEW W, W = SubSeq(L, 1, r - 1) \o SubSeq(L, r + 1, Len(L))
    PROVE  /\ W \in Seq(Entry) /\ Len(W) = Len(L) - 1 /\ IsOrdered(W)
           /\ \A i \in 1 .. Len(W) : W[i] = IF i < r THEN L[i] ELSE L[i + 1]
<1> DEFINE A == SubSeq(L, 1, r - 1)
           B == SubSeq(L, r + 1, Len(L))
<1>1. Len(L) \in Nat
  BY LenProperties
<1>2. /\ A \in Seq(Entry) /\ Len(A) = r - 1 /\ \A j \in 1 .. r - 1 : A[j] = L[j]
  <2>1. 1 \in 1 .. Len(L) + 1 /\ r - 1 \in 1 - 1 .. Len(L)
    BY <1>1
  <2>2. /\ A \in Seq(Entry) /\ Len(A) = (r - 1) - 1 + 1
        /\ \A j \in 1 .. (r - 1) - 1 + 1 : A[j] = L[1 + j - 1]
    BY <2>1, Parts
  <2>3. (r - 1) - 1 + 1 = r - 1 /\ \A j \in 1 .. r - 1 : 1 + j - 1 = j
    OBVIOUS
  <2> HIDE DEF A
  <2>4. QED
    BY <2>2, <2>3
<1>3. /\ B \in Seq(Entry) /\ Len(B) = Len(L) - r /\ \A j \in 1 .. Len(L) - r : B[j] = L[r + j]
  <2>1. r + 1 \in 1 .. Len(L) + 1 /\ Len(L) \in (r + 1) - 1 .. Len(L)
    BY <1>1
  <2>2. /\ B \in Seq(Entry) /\ Len(B) = Len(L) - (r + 1) + 1
        /\ \A j \in 1 .. Len(L) - (r + 1) + 1 : B[j] = L[(r + 1) + j - 1]
    BY <2>1, Parts
  <2>3. Len(L) - (r + 1) + 1 = Len(L) - r /\ \A j \in 1 .. Len(L) - r : (r + 1) + j - 1 = r + j
    BY <1>1
  <2> HIDE DEF B
  <2>4. QED
    BY <2>2, <2>3
<1> HIDE DEF A, B
<1>9. W = A \o B
  BY DEF A, B
<1>10. PICK n \in Nat : n = Len(L)
  BY <1>1
<1>11. r \in 1 .. n /\ Len(A) = r - 1 /\ Len(B) = n - r
  BY <1>2, <1>3, <1>10
<1>4. /\ W \in Seq(Entry) /\ Len(W) = n - 1
      /\ \A i \in 1 .. n - 1 : W[i] = IF i <= r - 1 THEN A[i] ELSE B[i - (r - 1)]
  <2>1. \A i \in 1 .. Len(A) + Len(B) : (A \o B)[i] = IF i <= Len(A) THEN A[i] ELSE B[i - Len(A)]
    BY <1>2, <1>3, ConcatProperties, Zenon
  <2>2. Len(W) = Len(A) + Len(B) /\ W \in Seq(Entry)
    BY <1>2, <1>3, <1>9, ConcatProperties
  <2>3. \A i \in 1 .. Len(A) + Len(B) : W[i] = IF i <= Len(A) THEN A[i] ELSE B[i - Len(A)]
    BY <1>9, <2>1, Zenon
  <2>4. Len(A) + Len(B) = n - 1
    BY <1>11
  <2>5. QED
    BY <1>11, <2>2, <2>3, <2>4, Zenon
<1>5. Len(W) = Len(L) - 1
  BY <1>4, <1>10
<1>6. ASSUME NEW i \in 1 .. Len(W)
      PROVE  W[i] = IF i < r THEN L[i] ELSE L[i + 1]
  <2>1. CASE i < r
    <3>1. i \in 1 .. n - 1 /\ i <= r - 1 /\ i \in 1 .. r - 1
      BY <1>4, <1>11, <2>1
    <3>2. QED
      BY <1>2, <1>4, <2>1, <3>1
  <2>2. CASE ~(i < r)
    <3>5. i \in 1 .. n - 1 /\ r \in 1 .. n
      BY <1>4, <1>11
    <3>0. i \in 1 .. n - 1 /\ ~(i <= r - 1) /\ i - (r - 1) \in 1 .. n - r
      BY <2>2, <3>5
    <3>1. W[i] = B[i - (r - 1)] /\ i - (r - 1) \in 1 .. Len(L) - r
      BY <1>4, <1>10, <3>0
    <3>2. r + (i - (r - 1)) = i + 1
      BY <1>11, <3>0
    <3>3. QED
      BY <1>3, <2>2, <3>1, <3>2
  <2>3. QED
    BY <2>1, <2>2
<1>7. IsOrdered(W)
  <2>1. ASSUME NEW i \in 1 .. Len(W), NEW j \in 1 .. Len(W), i < j
        PROVE  Precedes(W[i], W[j])
    <3>1. PICK x \in 1 .. Len(L), y \in 1 .. Len(L) : x < y /\ W[i] = L[x] /\ W[j] = L[y]
      <4> DEFINE x == IF i < r THEN i ELSE i + 1
                 y == IF j < r THEN j ELSE j + 1
      <4>1. x \in 1 .. Len(L) /\ y \in 1 .. Len(L) /\ x < y
        <5>1. i \in 1 .. n - 1 /\ j \in 1 .. n - 1 /\ r \in 1 .. n /\ n \in Nat
          BY <1>4, <1>11
        <5>2. x \in 1 .. n /\ y \in 1 .. n /\ x < y
          BY <2>1, <5>1
        <5>3. QED
          BY <1>10, <5>2
      <4>2. W[i] = L[x] /\ W[j] = L[y]
        BY <1>6
      <4> HIDE DEF x, y
      <4>3. QED
        BY <4>1, <4>2
    <3>2. Precedes(L[x], L[y])
      BY <3>1 DEF IsOrdered
    <3>3. QED
      BY <3>1, <3>2
  <2>2. QED
    BY <2>1 DEF IsOrdered
<1>8. QED
  BY <1>4, <1>5, <1>6, <1>7

\* Without one of its entries, a list that is cut into m blocks can still be.
LEMMA CutsWithout ==
    ASSUME NEW L \in Seq(Entry), NEW B \in Seq(Seq(Entry)), NEW c, IsCut(L, 1, B, c),
           NEW r \in 1 .. Len(L), NEW W \in Seq(Entry), Len(W) = Len(L) - 1,
           \A i \in 1 .. Len(W) : W[i] = IF i < r THEN L[i] ELSE L[i + 1]
    PROVE  \E D, d : Len(D) = Len(B) /\ IsCut(W, 1, D, d)
<1>1. PICK m \in Nat, n \in Nat : m = Len(B) /\ n = Len(L)
  BY LenProperties
<1>2. r \in 1 .. n /\ Len(W) = n - 1
  BY <1>1
<1>3. c \in [0 .. m -> 1 - 1 .. n] /\ c[0] = 1 - 1 /\ c[m] = n
  BY <1>1, Zenon DEF IsCut
<1>4. \A v \in 1 .. m : c[v - 1] <= c[v] /\ B[v] = SubSeq(L, c[v - 1] + 1, c[v]) /\ Size(B[v]) <= BlockRoom
  BY <1>1, Zenon DEF IsCut
<1>5. 1 - 1 = 0
  OBVIOUS
<1> DEFINE x(k) == IF k >= r THEN k - 1 ELSE k
           d == [v \in 0 .. m |-> x(c[v])]
           D == [v \in 1 .. m |-> SubSeq(W, d[v - 1] + 1, d[v])]
<1>6. \A v \in 0 .. m : c[v] \in 0 .. n
  BY <1>3, <1>5, Zenon
<1>7. /\ \A k \in 0 .. n : x(k) \in 0 .. n - 1
      /\ x(0) = 0 /\ x(n) = n - 1
      /\ \A j, k \in 0 .. n : j <= k => x(j) <= x(k) /\ x(k) - x(j) <= k - j
  BY <1>2
<1>8. \A v \in 0 .. m : d[v] = x(c[v])
  OBVIOUS
<1>9. \A v \in 1 .. m : D[v] = SubSeq(W, d[v - 1] + 1, d[v])
  OBVIOUS
<1>10. d \in [0 .. m -> 0 .. n - 1]
  <2> HIDE DEF x
  <2>1. QED
    BY <1>6, <1>7
<1>11. d[0] = 0 /\ d[m] = n - 1
  <2>1. 0 \in 0 .. m /\ m \in 0 .. m
    BY <1>1
  <2> HIDE DEF x, d
  <2>2. QED
    BY <1>3, <1>5, <1>7, <1>8, <2>1
<1>12. Len(D) = m
  <2> HIDE DEF d, x
  <2>1. ASSUME NEW T, NEW F \in [1 .. m -> T]
        PROVE  Len(F) = m
    BY <1>1
  <2>2. D \in [1 .. m -> {D[v] : v \in 1 .. m}]
    OBVIOUS
  <2> HIDE DEF D
  <2>3. QED
    BY <2>1, <2>2
<1> HIDE DEF D, d
<1>13. ASSUME NEW v \in 1 .. m
       PROVE  d[v - 1] <= d[v] /\ D[v] = SubSeq(W, d[v - 1] + 1, d[v]) /\ Size(D[v]) <= BlockRoom
  <2>1. v \in 0 .. m /\ v - 1 \in 0 .. m
    BY <1>1
  <2>2. PICK j \in 0 .. n, k \in 0 .. n : j = c[v - 1] /\ k = c[v]
    BY <1>6, <2>1
  <2>3. j <= k /\ B[v] = SubSeq(L, j + 1, k) /\ Size(B[v]) <= BlockRoom
    BY <1>4, <2>2
  <2>4. PICK y \in 0 .. n - 1, z \in 0 .. n - 1 :
            /\ y = d[v - 1] /\ z = d[v] /\ y = x(j) /\ z = x(k)
            /\ y <= z /\ z - y <= k - j
    <3> HIDE DEF x
    <3>1. d[v - 1] = x(j) /\ d[v] = x(k)
      BY <1>8, <2>1, <2>2
    <3>2. QED
      BY <1>7, <2>2, <2>3, <3>1
  <2>5. D[v] = SubSeq(W, y + 1, z)
    BY <1>9, <2>4, Zenon
  <2>6. /\ SubSeq(L, j + 1, k) \in Seq(Entry) /\ Len(SubSeq(L, j + 1, k)) = k - (j + 1) + 1
        /\ ToSet(SubSeq(L, j + 1, k)) = {L[i] : i \in j + 1 .. k}
    <3>1. j + 1 \in 1 .. Len(L) + 1 /\ k \in (j + 1) - 1 .. Len(L)
      BY <1>1, <2>2, <2>3, SMTT(30)
    <3>2. QED
      BY <3>1, Parts
  <2>7. /\ SubSeq(W, y + 1, z) \in Seq(Entry) /\ Len(SubSeq(W, y + 1, z)) = z - (y + 1) + 1
        /\ ToSet(SubSeq(W, y + 1, z)) = {W[i] : i \in y + 1 .. z}
    <3>1. y + 1 \in 1 .. Len(W) + 1 /\ z \in (y + 1) - 1 .. Len(W)
      BY <1>2, <2>4
    <3>2. QED
      BY <3>1, Parts
  <2>8. Len(SubSeq(W, y + 1, z)) <= Len(SubSeq(L, j + 1, k))
    BY <2>4, <2>6, <2>7
  <2>9. \A i \in y + 1 .. z : W[i] \in {L[o] : o \in j + 1 .. k}
    <3>1. SUFFICES ASSUME NEW i \in y + 1 .. z
                   PROVE  \E o \in j + 1 .. k : W[i] = L[o]
      OBVIOUS
    <3>2. i \in 1 .. Len(W)
      BY <1>2, <2>4
    <3>3. W[i] = IF i < r THEN L[i] ELSE L[i + 1]
      BY <3>2
    <3>7. y = (IF j >= r THEN j - 1 ELSE j) /\ z = (IF k >= r THEN k - 1 ELSE k) /\ r \in Nat
      BY <2>4
    <3>8. j \in Nat /\ k \in Nat /\ i \in y + 1 .. z
      OBVIOUS
    <3>4. CASE i < r
      <4>1. i \in j + 1 .. k
        BY <3>4, <3>7, <3>8
      <4>2. QED
        BY <3>3, <3>4, <4>1
    <3>5. CASE ~(i < r)
      <4>1. i + 1 \in j + 1 .. k
        BY <3>5, <3>7, <3>8
      <4>2. QED
        BY <3>3, <3>5, <4>1
    <3>6. QED
      BY <3>4, <3>5
  <2>10. Size(SubSeq(W, y + 1, z)) <= Size(SubSeq(L, j + 1, k))
         /\ Size(SubSeq(W, y + 1, z)) \in Nat /\ Size(SubSeq(L, j + 1, k)) \in Nat
    <3>1. ToSet(SubSeq(W, y + 1, z)) \subseteq ToSet(SubSeq(L, j + 1, k))
      BY <2>6, <2>7, <2>9
    <3>2. QED
      BY <2>6, <2>7, <2>8, <3>1, SizeGrows
  <2>11. Size(D[v]) <= BlockRoom
    <3>1. PICK s \in Nat, t \in Nat : s = Size(D[v]) /\ t = Size(B[v]) /\ s <= t
      BY <2>3, <2>5, <2>10
    <3>2. BlockRoom \in Nat /\ t <= BlockRoom
      BY <2>3, <3>1, SizeNumbers
    <3>3. QED
      BY <3>1, <3>2
  <2>12. QED
    BY <1>9, <2>4, <2>11
<1>14. IsCut(W, 1, D, d)
  <2>1. d \in [0 .. Len(D) -> 1 - 1 .. Len(W)]
    BY <1>2, <1>5, <1>10, <1>12
  <2>2. d[0] = 1 - 1 /\ d[Len(D)] = Len(W)
    BY <1>2, <1>5, <1>11, <1>12
  <2>3. \A v \in 1 .. Len(D) : d[v - 1] <= d[v] /\ D[v] = SubSeq(W, d[v - 1] + 1, d[v]) /\ Size(D[v]) <= BlockRoom
    BY <1>12, <1>13
  <2>4. QED
    BY <2>1, <2>2, <2>3, Zenon DEF IsCut
<1>15. QED
  BY <1>1, <1>12, <1>14

\* What is left of a directory when an entry is taken away fits into its blocks.
LEMMA RemovalFits ==
    ASSUME NEW h \in Header, NEW b \in [Clusters -> Block], OrderedIn(h, b),
           NEW d, NEW p, \E x \in ToSet(Listed(h, b)) : At(x, d) = p
    PROVE  LET W == Without(Listed(h, b), d, p)
           IN  /\ W \in Seq(Entry) /\ IsOrdered(W) /\ Sorted(W) = W
               /\ IsOrderedCut(Pack(W)) /\ Len(Pack(W)) \in Nat /\ Len(Pack(W)) <= h.used
<1> DEFINE L == Listed(h, b)
           W == Without(L, d, p)
           B == EntriesIn(h, b)
<1>1. /\ B \in Seq(Seq(Entry)) /\ Len(B) = h.used
      /\ \A v \in 1 .. h.used : B[v] = b[h.extent.start + v - 1].entries
      /\ L \in Seq(Entry)
      /\ \E f : IsListing(B, f) /\ L = f[h.used]
  BY ListedReads
<1> HIDE DEF B, L
<1>2. PICK f : IsListing(B, f) /\ L = f[Len(B)]
  BY <1>1
<1>3. \A v \in 1 .. Len(B) : Size(B[v]) <= BlockRoom
  <2>1. \A v \in 1 .. h.used : Size(b[h.extent.start + v - 1].entries) <= BlockRoom
    BY DEF OrderedIn
  <2>2. QED
    BY <1>1, <2>1
<1>4. \E c : IsCut(L, 1, B, c)
  BY <1>1, <1>2, <1>3, ListsAreCut
<1>5. PICK c : IsCut(L, 1, B, c)
  BY <1>4
<1>6. IsOrdered(L)
  BY DEF OrderedIn, L
<1>7. PICK i \in 1 .. Len(L) : At(L[i], d) = p
  <2>1. PICK x \in ToSet(L) : At(x, d) = p
    BY DEF L
  <2>2. QED
    BY <2>1 DEF ToSet
<1>8. PICK r \in 1 .. Len(L) : W = SubSeq(L, 1, r - 1) \o SubSeq(L, r + 1, Len(L))
  <2>1. \E k \in 1 .. Len(L) : At(L[k], d) = p
    BY <1>7
  <2>2. \E r \in 1 .. Len(L) : /\ At(L[r], d) = p
                              /\ Without(L, d, p) = SubSeq(L, 1, r - 1) \o SubSeq(L, r + 1, Len(L))
    <3>1. L \in Seq(Entry)
      BY <1>1
    <3>2. (\E k \in 1 .. Len(L) : At(L[k], d) = p) =>
            \E r \in 1 .. Len(L) : /\ At(L[r], d) = p
                                   /\ Without(L, d, p) = SubSeq(L, 1, r - 1) \o SubSeq(L, r + 1, Len(L))
      BY ONLY <3>1, RemovalLeaves, Zenon
    <3>3. QED
      BY <2>1, <3>2
  <2>3. QED
    BY <2>2, Zenon
<1> HIDE DEF W
<1>9. /\ W \in Seq(Entry) /\ Len(W) = Len(L) - 1 /\ IsOrdered(W)
      /\ \A k \in 1 .. Len(W) : W[k] = IF k < r THEN L[k] ELSE L[k + 1]
  BY <1>1, <1>6, <1>8, RemovalOrders, ZenonT(60)
<1>10. Sorted(W) = W
  BY <1>9, SortedOrders
<1>11. Pack(W) \in Seq(Seq(Entry)) /\ Len(Pack(W)) \in Nat /\ \E bound : IsCut(W, 1, Pack(W), bound)
  BY <1>9, <1>10, PackHolds
<1>12. PICK D, q : Len(D) = Len(B) /\ IsCut(W, 1, D, q)
  BY <1>1, <1>5, <1>9, CutsWithout
<1>13. Len(B) \in Nat /\ Len(L) \in Nat
  BY <1>1, LenProperties
<1>14. Len(Pack(W)) <= Len(B)
  <2>1. CASE W = <<>>
    <3>1. Pack(W) = << <<>> >>
      BY <2>1 DEF Pack
    <3>2. Len(<< <<>> >>) = 1
      OBVIOUS
    <3>3. Len(B) # 0
      <4>1. c[0] = 1 - 1 /\ c[Len(B)] = Len(L)
        BY <1>5 DEF IsCut
      <4>2. Len(L) # 0
        BY <1>7, <1>13
      <4>3. QED
        BY <4>1, <4>2
    <3>4. QED
      BY <1>13, <3>1, <3>2, <3>3
  <2>2. CASE W # <<>>
    <3>1. PICK s : IsPacking(W, s) /\ Pack(W) = s[1]
      BY <1>9, <1>10, <2>2, PackingExists
    <3>2. 1 \in 1 .. Len(W) + 1 /\ 0 \in 0 .. Len(D) /\ Len(D) \in Nat
      BY <1>9, <1>12, <1>13, LenProperties
    <3>3. q[0] <= 1 - 1
      BY <1>12 DEF IsCut
    <3>4. Len(s[1]) <= Len(D) - 0
      BY <1>9, <1>12, <3>1, <3>2, <3>3, PackingLeast
    <3>5. QED
      BY <1>12, <1>13, <3>1, <3>4
  <2>3. QED
    BY <2>1, <2>2
<1>15. IsOrderedCut(Pack(W))
  BY <1>9, <1>11 DEF IsOrderedCut
<1>16. QED
  BY <1>1, <1>9, <1>10, <1>11, <1>14, <1>15 DEF W, L

-----------------------------------------------------------------------------
(* Order is kept.                                                          *)

\* A directory some of whose blocks may be old and some new.
HalfWritten == call.phase = "record" \/ (call.phase = "write" /\ (call.written > 0 \/ call.moved))

WrittenInv ==
    /\ call.phase \in {"write", "record"} =>
          \A v \in 1 .. call.written : block[header[call.dir].extent.start + v - 1].entries = call.blocks[v]
    /\ call.phase = "record" /\ call.next = "insert" => header[call.dir].used = 0
    /\ \A d \in Directories :
          header[d].live /\ header[d].extent.count = 0 =>
              /\ call.kind = "createdir" /\ d = call.fid
              /\ call.phase = "giveback" \/ (call.phase = "relocate" /\ call.next = "insert")
    /\ Underway /\ call.next = "insert" => call.dir = call.fid

\* A new directory is entered under a name that its directory does not have.
EntersNew ==
    call.phase = "insert" \/ (Underway /\ call.next = "insert") =>
        VersionsIn(call.new.dir, call.new.name) = {} /\ call.new.dir # call.fid

OrderInv ==
    Whole =>
        /\ \A d \in Directories :
              ~header[d].left /\ ~(d = call.dir /\ HalfWritten) => OrderedIn(header[d], block)
        /\ Underway => IsOrderedCut(call.blocks)
        /\ call.phase = "write" => Len(call.blocks) <= header[call.dir].extent.count
        /\ EntersNew

\* That is more than ListsAreOrdered.
LEMMA OrderIsListed ==
    ASSUME TypeInv, LeftInv, OrderInv
    PROVE  ListsAreOrdered
<1> USE DEF NamesUntouched, Whole
<1>1. ASSUME call = NoCall, NamesUntouched, NEW d \in Directories,
             NEW i \in DOMAIN List(d), NEW j \in DOMAIN List(d), i < j
      PROVE  \/ List(d)[i].name < List(d)[j].name
             \/ List(d)[i].name = List(d)[j].name /\ List(d)[i].version > List(d)[j].version
  <2>1. ~HalfWritten
    BY <1>1 DEF HalfWritten, NoCall
  <2>2. OrderedIn(header[d], block)
    <3>1. ~header[d].left
      BY <1>1, ConstantParts DEF LeftInv
    <3>2. QED
      BY <1>1, <2>1, <3>1 DEF OrderInv
  <2>3. List(d) = Listed(header[d], block) /\ List(d) \in Seq(Entry)
    BY ListReads, ConstantParts
  <2>4. IsOrdered(List(d)) /\ DOMAIN List(d) = 1 .. Len(List(d))
    BY <2>2, <2>3, LenProperties DEF OrderedIn
  <2>5. Precedes(List(d)[i], List(d)[j])
    BY <1>1, <2>4 DEF IsOrdered
  <2>6. QED
    BY <2>5 DEF Precedes
<1>2. NamesUntouched /\ call.phase = "write" => Len(call.blocks) <= header[call.dir].extent.count
  BY DEF OrderInv
<1>3. QED
  BY <1>1, <1>2 DEF ListsAreOrdered

\* The list after a step.
LEMMA ListAfter ==
    ASSUME NEW d
    PROVE  List(d)' = Listed(header'[d], block') /\ List(d) = Listed(header[d], block)
BY DEF List, Blocks, Listed, InUse

\* A directory that a step leaves alone.
LEMMA OrderStays ==
    ASSUME TypeInv, TypeInv', NEW d \in Fids,
           \/ header'[d].used = 0
           \/ /\ header'[d].used = header[d].used /\ header'[d].extent = header[d].extent
              /\ \A c \in ClustersOf(header[d].extent) : block'[c] = block[c]
    PROVE  /\ OrderedIn(header[d], block) => OrderedIn(header'[d], block')
           /\ List(d)' = List(d) \/ List(d)' = <<>>
<1>1. header[d] \in Header /\ header'[d] \in Header /\ block \in [Clusters -> Block] /\ block' \in [Clusters -> Block]
  BY DEF TypeInv
<1>2. List(d)' = Listed(header'[d], block') /\ List(d) = Listed(header[d], block)
  BY ListAfter
<1>3. CASE header'[d].used = 0
  BY <1>1, <1>2, <1>3, UnusedIsOrdered
<1>4. CASE /\ header'[d].used = header[d].used /\ header'[d].extent = header[d].extent
           /\ \A c \in ClustersOf(header[d].extent) : block'[c] = block[c]
  BY <1>1, <1>2, <1>4, ListingStays
<1>5. QED
  BY <1>3, <1>4

\* A name that a directory does not have is not in a list that is shorter.
LEMMA NameStaysNew ==
    ASSUME NEW d, NEW n, VersionsIn(d, n) = {}, List(d)' = List(d) \/ List(d)' = <<>>
    PROVE  VersionsIn(d, n)' = {}
<1>1. ToSet(<<>>) = {}
  BY DEF ToSet
<1>2. QED
  BY <1>1 DEF VersionsIn

\* A step that begins to rewrite a directory.
LEMMA OrderAtRewriting ==
    ASSUME TypeInv, TypeInv', OrderInv, UNCHANGED block, failed \subseteq failed', ~HalfWritten,
           \A d \in Directories : KeepsBlocks(d),
           NEW c, NEW e, NEW L, NEW next, IsRewriting(call', c, e, L, next),
           call'.phase \in {"relocate", "write"},
           Whole => IsOrderedCut(Pack(L)),
           Whole /\ call'.phase = "write" => Len(Pack(L)) <= header'[e].extent.count,
           next # "insert" \/ (Whole => EntersNew')
    PROVE  OrderInv'
<1>1. call'.written = 0 /\ call'.moved = FALSE /\ call'.dir = e /\ call'.next = next /\ call'.blocks = Pack(L)
  BY DEF IsRewriting
<1>2. Whole' => Whole
  BY DEF Whole
<1>3. ASSUME Whole, NEW d \in Directories, ~header'[d].left
      PROVE  OrderedIn(header'[d], block')
  <2>1. ~header[d].left => OrderedIn(header[d], block)
    BY <1>3 DEF OrderInv
  <2>2. d \in Fids /\ header'[d] \in Header /\ block' \in [Clusters -> Block]
    BY ConstantParts DEF TypeInv
  <2>3. QED
    BY <1>3, <2>1, <2>2, OrderStays, UnusedIsOrdered DEF KeepsBlocks
<1>4. call'.phase # "insert"
  OBVIOUS
<1>5. next # "insert" => EntersNew'
  BY <1>1, <1>4 DEF EntersNew
<1>6. call'.phase = "write" /\ Whole => Len(call'.blocks) <= header'[call'.dir].extent.count
  BY <1>1
<1>7. Whole => IsOrderedCut(call'.blocks)
  BY <1>1
<1>8. QED
  BY <1>2, <1>3, <1>5, <1>6, <1>7 DEF OrderInv

\* A step that writes nothing, and leaves no directory half written.
LEMMA OrderAtEnding ==
    ASSUME TypeInv, TypeInv', OrderInv, UNCHANGED block, failed \subseteq failed',
           \A d \in Directories : KeepsBlocks(d),
           HalfWritten => ~Whole' \/ header'[call.dir].used = 0,
           call'.phase \notin {"relocate", "write", "record", "insert"}
    PROVE  OrderInv'
<1>1. Whole' => Whole
  BY DEF Whole
<1>2. ASSUME Whole', NEW d \in Directories, ~header'[d].left
      PROVE  OrderedIn(header'[d], block')
  <2>1. d \in Fids /\ header'[d] \in Header /\ block' \in [Clusters -> Block]
    BY ConstantParts DEF TypeInv
  <2>2. CASE HalfWritten /\ d = call.dir
    <3>1. header'[d].used = 0
      BY <1>2, <2>2
    <3>2. QED
      BY <2>1, <3>1, UnusedIsOrdered
  <2>3. CASE ~(HalfWritten /\ d = call.dir)
    <3>1. ~header[d].left => OrderedIn(header[d], block)
      BY <1>1, <1>2, <2>3 DEF OrderInv
    <3>2. QED
      BY <1>2, <2>1, <3>1, OrderStays, UnusedIsOrdered DEF KeepsBlocks
  <2>4. QED
    BY <2>2, <2>3
<1>3. ~Underway' /\ call'.phase # "write" /\ EntersNew'
  BY DEF Underway, EntersNew
<1>4. QED
  BY <1>2, <1>3 DEF OrderInv

\* A write that fails half-way is not one that leaves the names as they were.
LEMMA HalfWrittenFails ==
    ASSUME TypeInv, ReadInv, WrittenInv, WriteFails \/ RecordFails
    PROVE  HalfWritten => ~Whole' \/ header'[call.dir].used = 0
<1>1. failed' = failed \cup {WhichWrite} /\ UNCHANGED header /\ call.phase \in {"write", "record"}
  BY DEF WriteFails, RecordFails, Fails
<1>2. CASE NothingDone /\ call.next = "insert"
  <2>1. header[call.dir].used = 0
    BY <1>1, <1>2 DEF ReadInv, WrittenInv
  <2>2. QED
    BY <1>1, <2>1
<1>3. CASE ~NothingDone
  <2>1. WhichWrite \in {"used", "moved", "later"}
    BY <1>3 DEF WhichWrite
  <2>2. QED
    BY <1>1, <2>1 DEF Whole
<1>4. CASE NothingDone /\ call.next # "insert"
  <2>1. call.phase = "write" /\ call.written = 0 /\ ~call.moved
    BY <1>4 DEF NothingDone
  <2>2. call.written \in Nat
    BY CallParts DEF TypeInv
  <2>3. ~HalfWritten
    BY <2>1, <2>2 DEF HalfWritten
  <2>4. QED
    BY <2>3
<1>5. QED
  BY <1>2, <1>3, <1>4

\* An insertion's blocks are in order.
LEMMA InsertsInOrder ==
    ASSUME TypeInv, OrderInv, Whole, ~HalfWritten,
           NEW p \in Place, ~header[p.dir].left, NEW c \in Call, ~\E e \in VersionsIn(p.dir, p.name) : e.version = p.version
    PROVE  IsOrderedCut(Pack(Append(List(p.dir), EntryFor(c, p))))
<1>1. p.dir \in Directories /\ p.dir \in Fids
  BY ConstantParts
<1>2. List(p.dir) \in Seq(Entry) /\ List(p.dir) = Listed(header[p.dir], block)
  BY <1>1, ListReads
<1>3. IsOrdered(List(p.dir))
  BY <1>1, <1>2 DEF OrderInv, OrderedIn
<1>4. EntryFor(c, p) \in Entry
  BY <1>1, Inserts, PhaseNames
<1>5. EntryFor(c, p).name = p.name /\ EntryFor(c, p).version = p.version
  BY DEF EntryFor
<1>6. ~\E x \in ToSet(List(p.dir)) : x.name = EntryFor(c, p).name /\ x.version = EntryFor(c, p).version
  BY <1>5 DEF VersionsIn
<1>7. QED
  BY <1>2, <1>3, <1>4, <1>6, InsertionOrders

\* A removal's are, and fit.
LEMMA RemovesInOrder ==
    ASSUME TypeInv, OrderInv, Whole, ~HalfWritten,
           NEW d \in Directories, ~header[d].left, NEW e \in ToSet(List(d))
    PROVE  /\ IsOrderedCut(Pack(Without(List(d), d, At(e, d))))
           /\ Len(Pack(Without(List(d), d, At(e, d)))) <= header[d].extent.count
<1>1. d \in Fids /\ header[d] \in Header /\ block \in [Clusters -> Block]
  BY ConstantParts DEF TypeInv
<1>2. List(d) = Listed(header[d], block)
  BY ListAfter
<1>3. OrderedIn(header[d], block)
  BY DEF OrderInv
<1> DEFINE W == Without(List(d), d, At(e, d))
<1>4. IsOrderedCut(Pack(W)) /\ Len(Pack(W)) \in Nat /\ Len(Pack(W)) <= header[d].used
  <2>1. \E x \in ToSet(Listed(header[d], block)) : At(x, d) = At(e, d)
    BY <1>2
  <2>2. W = Without(Listed(header[d], block), d, At(e, d))
    BY <1>2
  <2> HIDE DEF W
  <2>3. QED
    BY <1>1, <1>3, <2>1, <2>2, RemovalFits
<1> HIDE DEF W
<1>5. PICK m \in Nat, u \in Nat, x \in Nat :
        m = Len(Pack(W)) /\ u = header[d].used /\ x = header[d].extent.count /\ u <= x /\ m <= u
  BY <1>1, <1>4, HeaderParts
<1>6. m <= x
  BY <1>5
<1>7. QED
  BY <1>4, <1>5, <1>6 DEF W

\* Headers that have no space, and are made or cleared, leave every extent alone.
LEMMA CreationKeepsExtents ==
    ASSUME TypeInv, NEW f \in Fids, header[f].extent = NoExtent, NEW p \in Place,
           header' = [header EXCEPT ![f] = NewHeader(p)]
    PROVE  /\ \A d \in Directories : KeepsBlocks(d)
           /\ \A d \in Fids : header'[d].extent = header[d].extent
           /\ \A d \in Fids \ {f} : header'[d] = header[d]
           /\ header'[f] = NewHeader(p)
<1>1. NewHeader(p) \in Header /\ NewHeader(p).used = 0 /\ NewHeader(p).extent = NoExtent
  BY NewHeaders
<1>2. \A d \in Directories : KeepsBlocks(d)
  BY <1>1, UnusedHeaders
<1>3. /\ header'[f] = NewHeader(p) /\ \A d \in Fids \ {f} : header'[d] = header[d]
  BY DEF TypeInv
<1>4. \A d \in Fids : header'[d].extent = header[d].extent
  BY <1>1, <1>3
<1>5. QED
  BY <1>2, <1>3, <1>4

\* A call that begins keeps the order.
LEMMA OrderAtBeginning ==
    ASSUME TypeInv, TypeInv', LeftInv, NamedAreLive, WrittenInv, OrderInv, NEW d \in Directories,
           \/ \E n \in Names, version \in Versions \cup {0}, f \in Files : CreateFile(d, n, version, f)
           \/ \E n \in Names, f \in Subdirectories : CreateDirectory(d, n, f)
           \/ \E e \in ToSet(List(d)) :
                 \/ DeleteFile(d, e)
                 \/ \E t \in Directories, n \in Names, version \in Versions \cup {0} : Rename(d, e, t, n, version)
    PROVE  OrderInv'
<1>1. UNCHANGED <<block, failed>> /\ call = NoCall
  BY ZenonT(60) DEF CreateFile, CreateDirectory, DeleteFile, Rename, Begin, Idle
<1>2. ~HalfWritten /\ ~Underway /\ call.kind = "none"
  BY <1>1 DEF NoCall, HalfWritten, Underway
<1>8. ASSUME Opens(d), Whole
      PROVE  header[d].live /\ ~header[d].left
  BY <1>2, <1>8, OpenedAreThere DEF DeletedAreUnnamed, Whole
<1>3. ASSUME NEW n \in Names, NEW version \in Versions \cup {0}, NEW f \in Files, CreateFile(d, n, version, f)
      PROVE  OrderInv'
  <2>1. PICK p \in Place, c \in Call :
              /\ p.dir = d /\ p.name = n /\ Opens(d) /\ MayInsert(p)
              /\ IsRewriting(call', c, d, Append(List(d), EntryFor(c, p)), "purge")
              /\ FitsOrMoves(call', header[d])
              /\ header' = [header EXCEPT ![f] = NewHeader(p)]
    BY <1>3, CreateFileDoes
  <2>2. f \in Fids /\ d \in Fids /\ header[f].extent = NoExtent
    BY <1>3, ConstantParts DEF Fids, CreateFile, Fresh
  <2>3. /\ \A x \in Directories : KeepsBlocks(x)
        /\ header'[d].extent = header[d].extent
    BY <2>1, <2>2, CreationKeepsExtents
  <2>4. call'.phase \in {"relocate", "write"}
    BY <2>1 DEF FitsOrMoves
  <2>5. Whole => IsOrderedCut(Pack(Append(List(d), EntryFor(c, p))))
    BY <1>2, <1>8, <2>1, InsertsInOrder DEF MayInsert
  <2>6. call'.phase = "write" => Len(Pack(Append(List(d), EntryFor(c, p)))) <= header'[d].extent.count
    BY <2>1, <2>3 DEF FitsOrMoves, IsRewriting
  <2>7. QED
    BY <1>1, <1>2, <2>1, <2>3, <2>4, <2>5, <2>6, OrderAtRewriting
<1>4. ASSUME NEW n \in Names, NEW f \in Subdirectories, CreateDirectory(d, n, f)
      PROVE  OrderInv'
  <2>1. PICK p \in Place, c \in Call :
              /\ p.dir = d /\ p.name = n /\ Opens(d) /\ VersionsIn(d, n) = {}
              /\ c.new = p /\ c.fid = f
              /\ IsRewriting(call', c, f, <<>>, "insert")
              /\ call'.phase = "relocate"
              /\ header' = [header EXCEPT ![f] = NewHeader(p)]
    BY <1>4, CreateDirectoryDoes
  <2>2. f \in Fids /\ d \in Fids /\ header[f].extent = NoExtent /\ ~\E e \in AllEntries : e.fid = f
    BY <1>4, ConstantParts DEF Fids, Directories, CreateDirectory, Fresh
  <2>3. \A x \in Directories : KeepsBlocks(x)
    BY <2>1, <2>2, CreationKeepsExtents
  <2>4. d # f
    <3>1. SUFFICES ASSUME d = f PROVE FALSE
      OBVIOUS
    <3>2. header[d].extent.count = 0 /\ header[d].live
      BY <2>1, <2>2, <3>1 DEF NoExtent, Opens
    <3>3. QED
      BY <1>2, <3>2 DEF WrittenInv
  <2>5. VersionsIn(d, n)' = {}
    <3>1. List(d)' = List(d) \/ List(d)' = <<>>
      <4>1. header'[d] = header[d]
        BY <2>1, <2>2, <2>4 DEF TypeInv
      <4>2. QED
        BY <1>1, <2>2, <4>1, OrderStays
    <3>2. QED
      BY <2>1, <3>1, NameStaysNew
  <2>6. EntersNew'
    <3>1. call'.new = p /\ call'.fid = f
      BY <2>1 DEF IsRewriting
    <3>2. (call.new.dir)' = d /\ (call.new.name)' = n /\ (call.fid)' = f
      BY <2>1, <3>1
    <3>3. VersionsIn(call.new.dir, call.new.name)' = {}
      <4>1. VersionsIn(d, n)' = {e \in ToSet(Listed(header'[d], block')) : e.name = n}
        BY Zenon DEF VersionsIn, List, Blocks, Listed, InUse
      <4>2. VersionsIn(call.new.dir, call.new.name)' =
              {e \in ToSet(Listed(header'[call'.new.dir], block')) : e.name = call'.new.name}
        BY Zenon DEF VersionsIn, List, Blocks, Listed, InUse
      <4>3. QED
        BY <2>5, <3>2, <4>1, <4>2
    <3>4. QED
      BY <2>4, <3>2, <3>3 DEF EntersNew
  <2>7. IsOrderedCut(Pack(<<>>))
    <3>1. ASSUME NEW L \in Seq(Entry), Len(L) = 0
          PROVE  IsOrderedCut(Pack(L))
      <4>1. IsDistinct(L)
        BY <3>1 DEF IsDistinct
      <4>2. IsOrdered(Sorted(L)) /\ Sorted(L) \in Seq(Entry)
        BY <4>1, SortedOrders, SortedPermutes
      <4>3. QED
        BY <4>2, PackHolds DEF IsOrderedCut
    <3>2. <<>> \in Seq(Entry) /\ Len(<<>>) = 0
      OBVIOUS
    <3>3. QED
      BY <3>1, <3>2, Zenon
  <2>8. QED
    BY <1>1, <1>2, <2>1, <2>3, <2>6, <2>7, OrderAtRewriting
<1>5. ASSUME NEW e \in ToSet(List(d)), DeleteFile(d, e)
      PROVE  OrderInv'
  <2>1. PICK c \in Call :
              /\ Opens(d)
              /\ IsRewriting(call', c, d, Without(List(d), d, At(e, d)), "free")
              /\ call'.phase = "write" /\ UNCHANGED header
    BY <1>5, DeleteFileDoes
  <2>2. \A x \in Directories : KeepsBlocks(x)
    BY <2>1 DEF KeepsBlocks
  <2>3. Whole => /\ IsOrderedCut(Pack(Without(List(d), d, At(e, d))))
                 /\ Len(Pack(Without(List(d), d, At(e, d)))) <= header[d].extent.count
    BY <1>2, <1>8, <2>1, RemovesInOrder
  <2>4. QED
    BY <1>1, <1>2, <2>1, <2>2, <2>3, OrderAtRewriting
<1>6. ASSUME NEW e \in ToSet(List(d)), NEW t \in Directories, NEW n \in Names, NEW version \in Versions \cup {0},
             Rename(d, e, t, n, version)
      PROVE  OrderInv'
  <2>1. PICK c \in Call :
              /\ Opens(d)
              /\ IsRewriting(call', c, d, Without(List(d), d, At(e, d)), "enter")
              /\ call'.phase = "write" /\ UNCHANGED header
    BY <1>6, RenameDoes
  <2>2. \A x \in Directories : KeepsBlocks(x)
    BY <2>1 DEF KeepsBlocks
  <2>3. Whole => /\ IsOrderedCut(Pack(Without(List(d), d, At(e, d))))
                 /\ Len(Pack(Without(List(d), d, At(e, d)))) <= header[d].extent.count
    BY <1>2, <1>8, <2>1, RemovesInOrder
  <2>4. QED
    BY <1>1, <1>2, <2>1, <2>2, <2>3, OrderAtRewriting
<1>7. QED
  BY <1>3, <1>4, <1>5, <1>6

\* So does one that goes on to another directory.
LEMMA OrderAtNextRewriting ==
    ASSUME TypeInv, TypeInv', LeftInv, OrderInv, EnterDirectory \/ Enter \/ Restore \/ Purge
    PROVE  OrderInv'
<1>1. /\ UNCHANGED <<block, failed, header>> /\ ~HalfWritten
      /\ \A x \in Directories : KeepsBlocks(x)
  BY DEF EnterDirectory, Enter, Restore, Purge, HalfWritten, KeepsBlocks
<1>7. Whole => ~header[call.new.dir].left /\ ~header[call.old.dir].left
  BY DEF LeftInv, AtHand
<1>2. CASE EnterDirectory
  <2>1. /\ call.new \in Place
        /\ IsRewriting(call', call, call.new.dir, Append(List(call.new.dir), EntryFor(call, call.new)), "none")
        /\ FitsOrMoves(call', header[call.new.dir])
    BY <1>2, EnterDirectoryDoes
  <2>2. call.phase = "insert" /\ call \in Call
    BY <1>2 DEF EnterDirectory, TypeInv
  <2>3. Whole => VersionsIn(call.new.dir, call.new.name) = {}
    BY <2>2 DEF OrderInv, EntersNew
  <2>4. Whole => IsOrderedCut(Pack(Append(List(call.new.dir), EntryFor(call, call.new))))
    BY <1>1, <1>7, <2>1, <2>2, <2>3, InsertsInOrder
  <2>5. call'.phase \in {"relocate", "write"}
    BY <2>1 DEF FitsOrMoves
  <2>6. call'.phase = "write" =>
          Len(Pack(Append(List(call.new.dir), EntryFor(call, call.new)))) <= header'[call.new.dir].extent.count
    BY <1>1, <2>1 DEF FitsOrMoves, IsRewriting
  <2>7. QED
    BY <1>1, <2>1, <2>4, <2>5, <2>6, OrderAtRewriting
<1>3. CASE Enter
  <2>1. PICK p \in Place, c \in Call :
              /\ MayInsert(p) /\ p.dir = call.new.dir
              /\ IsRewriting(call', c, p.dir, Append(List(p.dir), EntryFor(c, p)), "name")
              /\ FitsOrMoves(call', header[p.dir])
    BY <1>3, EnterDoes
  <2>2. Whole => IsOrderedCut(Pack(Append(List(p.dir), EntryFor(c, p))))
    BY <1>1, <1>7, <2>1, InsertsInOrder DEF MayInsert
  <2>3. call'.phase \in {"relocate", "write"}
    BY <2>1 DEF FitsOrMoves
  <2>4. call'.phase = "write" => Len(Pack(Append(List(p.dir), EntryFor(c, p)))) <= header'[p.dir].extent.count
    BY <1>1, <2>1 DEF FitsOrMoves, IsRewriting
  <2>5. QED
    BY <1>1, <2>1, <2>2, <2>3, <2>4, OrderAtRewriting
<1>4. CASE Restore
  <2>1. /\ call.old \in Place
        /\ IsRewriting(call', call, call.old.dir, Append(List(call.old.dir), EntryFor(call, call.old)), "none")
        /\ FitsOrMoves(call', header[call.old.dir])
    BY <1>4, RestoreDoes
  <2>2. MayInsert(call.old) /\ call \in Call
    BY <1>4 DEF Restore, TypeInv
  <2>3. Whole => IsOrderedCut(Pack(Append(List(call.old.dir), EntryFor(call, call.old))))
    BY <1>1, <1>7, <2>1, <2>2, InsertsInOrder DEF MayInsert
  <2>4. call'.phase \in {"relocate", "write"}
    BY <2>1 DEF FitsOrMoves
  <2>5. call'.phase = "write" =>
          Len(Pack(Append(List(call.old.dir), EntryFor(call, call.old)))) <= header'[call.old.dir].extent.count
    BY <1>1, <2>1 DEF FitsOrMoves, IsRewriting
  <2>6. QED
    BY <1>1, <2>1, <2>3, <2>4, <2>5, OrderAtRewriting
<1>5. CASE Purge
  <2>1. PICK e \in VersionsIn(call.new.dir, call.new.name), c \in Call :
              /\ call.new.dir \in Directories
              /\ IsRewriting(call', c, call.new.dir,
                             Without(List(call.new.dir), call.new.dir, At(e, call.new.dir)), "free")
              /\ call'.phase = "write"
    BY <1>5, PurgeDoes
  <2>2. e \in ToSet(List(call.new.dir))
    BY DEF VersionsIn
  <2>3. QED
    BY <1>1, <1>7, <2>1, <2>2, RemovesInOrder, OrderAtRewriting
<1>6. QED
  BY <1>2, <1>3, <1>4, <1>5

\* A call that is about to enter a new directory goes on to be.
LEMMA EntersNewStays ==
    ASSUME EntersNew, call.phase = "insert" \/ (Underway /\ call.next = "insert"),
           NEW d, d = call.new.dir, call'.new = call.new, call'.fid = call.fid,
           List(d)' = List(d) \/ List(d)' = <<>>
    PROVE  EntersNew'
<1>1. VersionsIn(call.new.dir, call.new.name) = {} /\ call.new.dir # call.fid
  BY DEF EntersNew
<1> DEFINE n == call.new.name
<1>2. PICK m : m = n
  OBVIOUS
<1>3. VersionsIn(d, m)' = {}
  BY <1>1, <1>2, NameStaysNew
<1>4. VersionsIn(d, m)' = {e \in ToSet(Listed(header'[d], block')) : e.name = m}
  BY DEF VersionsIn, List, Blocks, Listed, InUse
<1>5. VersionsIn(call.new.dir, call.new.name)' =
        {e \in ToSet(Listed(header'[call'.new.dir], block')) : e.name = call'.new.name}
  BY DEF VersionsIn, List, Blocks, Listed, InUse
<1>6. VersionsIn(call.new.dir, call.new.name)' = {}
  BY <1>2, <1>3, <1>4, <1>5
<1>7. (call.new.dir)' # (call.fid)'
  BY <1>1
<1>8. QED
  BY <1>6, <1>7 DEF EntersNew

\* Moving leaves the lists of other directories alone.
LEMMA OrderAtRelocate ==
    ASSUME TypeInv, TypeInv', LeftInv, SpaceInv, ReadInv', WrittenInv, OrderInv, Relocate
    PROVE  OrderInv'
<1>1. PICK run \in GoodExtent :
              /\ call.phase = "relocate" /\ call.dir \in Fids
              /\ ClustersOf(run) \subseteq free
              /\ \A f \in Fids \ {call.dir} : header'[f] = header[f]
              /\ block' = [c \in Clusters |-> IF c \in ClustersOf(run) THEN Zeroed ELSE block[c]]
              /\ call'.phase = "write" /\ call'.moved /\ call'.dir = call.dir
              /\ call'.new = call.new /\ call'.fid = call.fid
              /\ call'.blocks = call.blocks /\ call'.next = call.next
              /\ UNCHANGED failed
  BY RelocateDoes
<1>2. PICK dir \in Directories : dir = call.dir
  BY CallParts DEF TypeInv
<1>3. Whole' <=> Whole
  BY <1>1 DEF Whole
<1>4. ASSUME Whole, NEW d \in Directories, d # dir, ~header[d].left
      PROVE  /\ OrderedIn(header[d], block) => OrderedIn(header'[d], block')
             /\ List(d)' = List(d) \/ List(d)' = <<>>
  <2>1. d \in Fids /\ header'[d] = header[d]
    BY <1>1, <1>2, <1>4, ConstantParts
  <2>2. ClustersOf(header[d].extent) \subseteq Clusters
    BY <2>1, BlocksRead
  <2>5. ClustersOf(header[d].extent) \cap free = {}
    BY <1>4, <2>1 DEF SpaceInv, SpaceOf, DeletedAreUnnamed, Whole
  <2>3. \A c \in ClustersOf(header[d].extent) : block'[c] = block[c]
    BY <1>1, <2>1, <2>2, <2>5
  <2>4. QED
    BY <2>1, <2>3, OrderStays
<1>5. Underway
  BY <1>1 DEF Underway
<1>6. Whole => EntersNew'
  <2>1. SUFFICES ASSUME Whole, call'.phase = "insert" \/ (Underway' /\ call'.next = "insert")
                 PROVE  EntersNew'
    BY DEF EntersNew
  <2>2. call.next = "insert"
    BY <1>1, <2>1
  <2>3. EntersNew /\ call.dir = call.fid
    BY <1>5, <2>1, <2>2 DEF OrderInv, WrittenInv
  <2>4. PICK d \in Directories : d = call.new.dir
    BY CallParts, ConstantParts DEF TypeInv
  <2>5. d # dir /\ ~header[d].left
    BY <1>2, <1>5, <2>1, <2>2, <2>3, <2>4 DEF EntersNew, LeftInv, AtHand
  <2>6. QED
    BY <1>1, <1>4, <1>5, <2>1, <2>2, <2>3, <2>4, <2>5, EntersNewStays
<1>7. Len(call'.blocks) <= header'[call'.dir].extent.count
  <2>1. Len(call'.blocks) = header'[call'.dir].extent.count
    BY <1>1 DEF ReadInv
  <2>2. Len(call'.blocks) \in Nat
    BY <1>1, CallParts DEF TypeInv
  <2>3. QED
    BY <2>1, <2>2
<1>8. Whole => IsOrderedCut(call'.blocks)
  BY <1>1, <1>5 DEF OrderInv
<1>9. HalfWritten'
  BY <1>1 DEF HalfWritten
<1>10. ASSUME Whole, NEW d \in Directories, d # dir, ~header'[d].left
       PROVE  OrderedIn(header'[d], block')
  <2>1. header'[d] = header[d]
    BY <1>1, <1>2, <1>10, ConstantParts
  <2>2. QED
    BY <1>2, <1>4, <1>10, <2>1 DEF OrderInv
<1>11. QED
  BY <1>1, <1>2, <1>3, <1>6, <1>7, <1>8, <1>9, <1>10 DEF OrderInv

\* So does writing a block.
LEMMA OrderAtWriteBlock ==
    ASSUME TypeInv, TypeInv', LeftInv, SpaceInv, WrittenInv, OrderInv, WriteBlock
    PROVE  OrderInv'
<1>1. call.phase = "write" /\ call.dir \in Fids /\ UNCHANGED <<header, failed>>
  BY WriteBlockDoes
<1>2. PICK dir \in Directories : dir = call.dir
  BY CallParts DEF TypeInv
<1>3. Whole' <=> Whole
  BY <1>1 DEF Whole
<1>4. CASE call' = AfterError /\ UNCHANGED block /\ call.written + 1 > header[call.dir].extent.count
  <2>1. ~Whole
    <3>1. SUFFICES ASSUME Whole PROVE FALSE
      OBVIOUS
    <3>2. Len(call.blocks) <= header[call.dir].extent.count /\ call.written + 1 <= Len(call.blocks)
      BY <1>1, <3>1 DEF OrderInv, WriteBlock
    <3>3. PICK m \in Nat, w \in Nat, x \in Nat :
              m = Len(call.blocks) /\ w = call.written /\ x = header[call.dir].extent.count
      BY <1>1, CallParts, BlocksRead DEF TypeInv
    <3>4. m <= x /\ w + 1 <= m /\ w + 1 > x
      BY <1>4, <3>2, <3>3
    <3>5. QED
      BY <3>4
  <2>2. QED
    BY <1>3, <2>1 DEF OrderInv
<1>5. ASSUME NEW c \in ClustersOf(header[call.dir].extent), NEW v \in Nat, v = call.written + 1,
             block' = [block EXCEPT ![c] = DirectoryBlock(call.blocks[v])],
             call'.written = v, call'.phase = IF v = Len(call.blocks) THEN "record" ELSE "write",
             call'.new = call.new, call'.fid = call.fid,
             call'.dir = call.dir, call'.blocks = call.blocks, call'.next = call.next
      PROVE  OrderInv'
  <2>1. ASSUME Whole, NEW d \in Directories, d # dir, ~header[d].left
        PROVE  /\ OrderedIn(header[d], block) => OrderedIn(header'[d], block')
               /\ List(d)' = List(d) \/ List(d)' = <<>>
    <3>1. d \in Fids /\ header'[d] = header[d]
      BY <1>1, ConstantParts
    <3>2. ClustersOf(header[d].extent) \subseteq Clusters
      BY <3>1, BlocksRead
    <3>3. c \notin ClustersOf(header[d].extent)
      <4>1. ~header[call.dir].left
        BY <2>1 DEF LeftInv, AtHand
      <4>2. ClustersOf(header[d].extent) \cap ClustersOf(header[call.dir].extent) = {}
        BY <1>1, <1>2, <2>1, <3>1, <4>1 DEF SpaceInv, SpaceOf, DeletedAreUnnamed, Whole
      <4>3. QED
        BY <1>5, <4>2
    <3>4. \A y \in ClustersOf(header[d].extent) : block'[y] = block[y]
      BY <1>5, <3>2, <3>3 DEF TypeInv
    <3>5. QED
      BY <3>1, <3>4, OrderStays
  <2>2. Underway /\ (Underway')
    BY <1>1, <1>5 DEF Underway
  <2>3. Whole => EntersNew'
    <3>1. SUFFICES ASSUME Whole, call'.phase = "insert" \/ (Underway' /\ call'.next = "insert")
                   PROVE  EntersNew'
      BY DEF EntersNew
    <3>2. call.next = "insert"
      BY <1>5, <3>1
    <3>3. EntersNew /\ call.dir = call.fid
      BY <2>2, <3>1, <3>2 DEF OrderInv, WrittenInv
    <3>4. PICK d \in Directories : d = call.new.dir
      BY CallParts, ConstantParts DEF TypeInv
    <3>5. d # dir /\ ~header[d].left
      BY <1>2, <2>2, <3>1, <3>2, <3>3, <3>4 DEF EntersNew, LeftInv, AtHand
    <3>6. QED
      BY <1>5, <2>1, <2>2, <3>1, <3>2, <3>3, <3>4, <3>5, EntersNewStays
  <2>4. Whole => Len(call'.blocks) <= header'[call'.dir].extent.count
    BY <1>1, <1>5 DEF OrderInv
  <2>5. Whole => IsOrderedCut(call'.blocks)
    BY <1>5, <2>2 DEF OrderInv
  <2>6. HalfWritten'
    <3>1. v > 0
      <4>1. call.written \in Nat
        BY CallParts DEF TypeInv
      <4>2. QED
        BY <1>5, <4>1
    <3>2. call'.written > 0 /\ call'.phase \in {"record", "write"}
      BY <1>5, <3>1
    <3>3. QED
      BY <3>2 DEF HalfWritten
  <2>7. ASSUME Whole, NEW d \in Directories, d # dir, ~header'[d].left
        PROVE  OrderedIn(header'[d], block')
    BY <1>1, <1>2, <2>1, <2>7 DEF OrderInv
  <2>8. QED
    BY <1>2, <1>3, <1>5, <2>3, <2>4, <2>5, <2>6, <2>7 DEF OrderInv
<1>6. call.written + 1 \in Nat
  BY CallParts DEF TypeInv
<1>7. QED
  BY <1>4, <1>5, <1>6, WriteBlockDoes

\* A directory that has been written is in order again.
LEMMA OrderAtRecordUsed ==
    ASSUME TypeInv, TypeInv', WrittenInv, OrderInv, RecordUsed
    PROVE  OrderInv'
<1>1. /\ call.phase = "record" /\ UNCHANGED <<block, failed>>
      /\ header'[call.dir].used = Len(call.blocks)
      /\ header'[call.dir].extent = header[call.dir].extent
      /\ \A f \in Fids \ {call.dir} : header'[f] = header[f]
      /\ \/ call.next = "none" /\ call' = NoCall
         \/ call.next # "none" /\ call' \in Call /\ call'.phase = call.next /\ SameBut(call', call)
  BY RecordUsedDoes
<1>2. PICK dir \in Directories : dir = call.dir
  BY CallParts DEF TypeInv
<1>3. Whole' <=> Whole
  BY <1>1 DEF Whole
<1>4. call'.phase \notin {"relocate", "write", "record"} /\ (call'.phase = "insert" => SameBut(call', call) /\ call.next = "insert")
  <2>1. call.next \in {"none", "insert", "enter", "name", "purge", "free"}
    BY DEF TypeInv, SoundCall
  <2>2. NoCall.phase = "none"
    BY DEF NoCall
  <2>3. QED
    BY <1>1, <2>1, <2>2
<1>5. ASSUME NEW d \in Directories, d # dir
      PROVE  /\ OrderedIn(header[d], block) => OrderedIn(header'[d], block')
             /\ List(d)' = List(d) \/ List(d)' = <<>>
  <2>1. d \in Fids /\ header'[d] = header[d] /\ block' = block
    BY <1>1, <1>2, <1>5, ConstantParts
  <2>2. QED
    BY <2>1, OrderStays
<1>6. ASSUME Whole, NEW d \in Directories, ~header'[d].left
      PROVE  OrderedIn(header'[d], block')
  <2>1. CASE d = dir
    <3>1. header'[d] \in Header /\ block' \in [Clusters -> Block] /\ call.blocks \in Seq(Seq(Entry))
      BY ConstantParts, CallParts DEF TypeInv
    <3>2. IsOrderedCut(call.blocks)
      BY <1>1, <1>6 DEF OrderInv, Underway
    <3>3. call.written = Len(call.blocks)
      BY <1>1 DEF TypeInv, CallHasRoom
    <3>4. \A v \in 1 .. Len(call.blocks) : block[header[dir].extent.start + v - 1].entries = call.blocks[v]
      BY <1>1, <1>2, <3>3 DEF WrittenInv
    <3>5. \A v \in 1 .. Len(call.blocks) : block'[header'[d].extent.start + v - 1].entries = call.blocks[v]
      BY <1>1, <1>2, <2>1, <3>4
    <3>6. header'[d].used = Len(call.blocks)
      BY <1>1, <1>2, <2>1
    <3>7. QED
      BY <3>1, <3>2, <3>5, <3>6, WrittenIsOrdered
  <2>2. CASE d # dir
    <3>1. header'[d] = header[d]
      BY <1>1, <1>2, <2>2, ConstantParts
    <3>2. QED
      BY <1>1, <1>2, <1>5, <1>6, <2>2, <3>1 DEF OrderInv
  <2>3. QED
    BY <2>1, <2>2
<1>7. Whole => EntersNew'
  <2>1. SUFFICES ASSUME Whole, call'.phase = "insert" \/ (Underway' /\ call'.next = "insert")
                 PROVE  EntersNew'
    BY DEF EntersNew
  <2>2. call.next = "insert" /\ SameBut(call', call) /\ Underway
    BY <1>1, <1>4, <2>1 DEF Underway
  <2>3. EntersNew /\ call.dir = call.fid
    BY <2>1, <2>2 DEF OrderInv, WrittenInv
  <2>4. PICK d \in Directories : d = call.new.dir
    BY CallParts, ConstantParts DEF TypeInv
  <2>5. d # dir
    BY <1>2, <2>2, <2>3, <2>4 DEF EntersNew
  <2>6. QED
    BY <1>5, <2>2, <2>3, <2>4, <2>5, EntersNewStays DEF SameBut
<1>8. ~HalfWritten' /\ ~Underway' /\ call'.phase # "write"
  BY <1>4 DEF HalfWritten, Underway
<1>9. QED
  BY <1>3, <1>6, <1>7, <1>8 DEF OrderInv

\* What ends a call, or an error in it, does not break the order.
LEMMA OrderAtEndings ==
    ASSUME TypeInv, TypeInv', ReadInv, WrittenInv, OrderInv,
           \/ GiveBack \/ GiveBackFails \/ FreeStorage \/ FreeFails \/ PurgeEnds \/ EnterFails \/ RestoreFails
           \/ RenameHeader \/ RenameHeaderFails \/ NoRun \/ RelocateFails \/ WriteFails \/ RecordFails
    PROVE  OrderInv'
<1>1. /\ UNCHANGED block /\ failed \subseteq failed'
      /\ call'.phase \notin {"relocate", "write", "record", "insert"}
      /\ call.phase \in {"write", "record"} => WriteFails \/ RecordFails
  BY EndingDoes
<1>2. NoHeader.used = 0
  BY DEF NoHeader
<1>3. \A d \in Directories : KeepsBlocks(d)
  <2>1. \A d \in Fids : \/ header'[d] = NoHeader \/ header'[d].left
                       \/ /\ header'[d].used = header[d].used /\ header'[d].extent = header[d].extent
                          /\ header'[d].left = header[d].left
    BY EndingDoes
  <2>2. QED
    BY <1>2, <2>1, ConstantParts DEF KeepsBlocks
<1>4. HalfWritten => ~Whole' \/ header'[call.dir].used = 0
  <2>1. HalfWritten => WriteFails \/ RecordFails
    BY <1>1 DEF HalfWritten
  <2>2. QED
    BY <2>1, HalfWrittenFails
<1>5. QED
  BY <1>1, <1>3, <1>4, OrderAtEnding

\* A live directory has space, but for one that is being created.
HasSpace(d) ==
    header[d].live /\ header[d].extent.count = 0 =>
        /\ call.kind = "createdir" /\ d = call.fid
        /\ call.phase = "giveback" \/ (call.phase = "relocate" /\ call.next = "insert")

\* A step that begins to rewrite a directory keeps what is written.
LEMMA WrittenAtRewriting ==
    ASSUME TypeInv, WrittenInv, call.phase \notin {"giveback", "relocate"},
           NEW c, NEW e, NEW L, NEW next, IsRewriting(call', c, e, L, next),
           call'.phase \in {"relocate", "write"},
           next # "insert" \/ e = call'.fid,
           \A d \in Directories : (header'[d].live => header[d].live /\ header'[d].extent = header[d].extent) \/ HasSpace(d)'
    PROVE  WrittenInv'
<1>1. call'.written = 0 /\ call'.dir = e /\ call'.next = next
  BY DEF IsRewriting
<1>2. \A v \in 1 .. 0 : FALSE
  OBVIOUS
<1>3. ASSUME NEW d \in Directories
      PROVE  HasSpace(d)'
  <2>1. CASE header'[d].live => header[d].live /\ header'[d].extent = header[d].extent
    <3>1. header[d].live => header[d].extent.count # 0
      BY DEF WrittenInv
    <3>2. QED
      BY <2>1, <3>1 DEF HasSpace
  <2>2. QED
    BY <2>1
<1>4. QED
  BY <1>1, <1>2, <1>3 DEF WrittenInv, HasSpace

\* A new call keeps it.
LEMMA WrittenAtBeginning ==
    ASSUME TypeInv, WrittenInv, NEW d \in Directories,
           \/ \E n \in Names, version \in Versions \cup {0}, f \in Files : CreateFile(d, n, version, f)
           \/ \E n \in Names, f \in Subdirectories : CreateDirectory(d, n, f)
           \/ \E e \in ToSet(List(d)) :
                 \/ DeleteFile(d, e)
                 \/ \E t \in Directories, n \in Names, version \in Versions \cup {0} : Rename(d, e, t, n, version)
    PROVE  WrittenInv'
<1>1. call = NoCall
  BY DEF CreateFile, CreateDirectory, DeleteFile, Rename, Idle
<1>2. call.phase = "none"
  BY <1>1 DEF NoCall
<1>3. ASSUME NEW n \in Names, NEW version \in Versions \cup {0}, NEW f \in Files, CreateFile(d, n, version, f)
      PROVE  WrittenInv'
  <2>1. PICK p \in Place, c \in Call :
              /\ IsRewriting(call', c, d, Append(List(d), EntryFor(c, p)), "purge")
              /\ FitsOrMoves(call', header[d])
              /\ header' = [header EXCEPT ![f] = NewHeader(p)]
    BY <1>3, CreateFileDoes
  <2>2. \A x \in Directories : x # f /\ x \in Fids
    BY KindsOfFiles, ConstantParts DEF Directories
  <2>3. \A x \in Directories : header'[x] = header[x]
    BY <2>1, <2>2 DEF TypeInv
  <2>4. call'.phase \in {"relocate", "write"}
    BY <2>1 DEF FitsOrMoves
  <2>5. QED
    BY <1>2, <2>1, <2>3, <2>4, WrittenAtRewriting
<1>4. ASSUME NEW n \in Names, NEW f \in Subdirectories, CreateDirectory(d, n, f)
      PROVE  WrittenInv'
  <2>1. PICK p \in Place, c \in Call :
              /\ c.kind = "createdir" /\ c.fid = f
              /\ IsRewriting(call', c, f, <<>>, "insert")
              /\ call'.phase = "relocate"
              /\ header' = [header EXCEPT ![f] = NewHeader(p)]
    BY <1>4, CreateDirectoryDoes
  <2>2. call'.kind = "createdir" /\ call'.fid = f /\ call'.next = "insert"
    BY <2>1 DEF IsRewriting
  <2>3. \A x \in Directories : x # f => header'[x] = header[x]
    BY <2>1, ConstantParts DEF TypeInv
  <2>4. HasSpace(f)'
    BY <2>1, <2>2 DEF HasSpace
  <2>5. QED
    BY <1>2, <2>1, <2>2, <2>3, <2>4, WrittenAtRewriting
<1>5. ASSUME NEW e \in ToSet(List(d)), DeleteFile(d, e)
      PROVE  WrittenInv'
  <2>1. PICK c \in Call :
              /\ IsRewriting(call', c, d, Without(List(d), d, At(e, d)), "free")
              /\ call'.phase = "write" /\ UNCHANGED header
    BY <1>5, DeleteFileDoes
  <2>2. QED
    BY <1>2, <2>1, WrittenAtRewriting
<1>6. ASSUME NEW e \in ToSet(List(d)), NEW t \in Directories, NEW n \in Names, NEW version \in Versions \cup {0},
             Rename(d, e, t, n, version)
      PROVE  WrittenInv'
  <2>1. PICK c \in Call :
              /\ IsRewriting(call', c, d, Without(List(d), d, At(e, d)), "enter")
              /\ call'.phase = "write" /\ UNCHANGED header
    BY <1>6, RenameDoes
  <2>2. QED
    BY <1>2, <2>1, WrittenAtRewriting
<1>7. QED
  BY <1>3, <1>4, <1>5, <1>6

\* So does a call that goes on to another directory.
LEMMA WrittenAtNextRewriting ==
    ASSUME TypeInv, WrittenInv, EnterDirectory \/ Enter \/ Restore \/ Purge
    PROVE  WrittenInv'
<1>1. UNCHANGED header /\ call.phase \notin {"giveback", "relocate"}
  BY DEF EnterDirectory, Enter, Restore, Purge
<1>2. CASE EnterDirectory
  <2>1. /\ IsRewriting(call', call, call.new.dir, Append(List(call.new.dir), EntryFor(call, call.new)), "none")
        /\ FitsOrMoves(call', header[call.new.dir])
    BY <1>2, EnterDirectoryDoes
  <2>2. QED
    BY <1>1, <2>1, WrittenAtRewriting DEF FitsOrMoves
<1>3. CASE Enter
  <2>1. PICK p \in Place, c \in Call :
              /\ IsRewriting(call', c, p.dir, Append(List(p.dir), EntryFor(c, p)), "name")
              /\ FitsOrMoves(call', header[p.dir])
    BY <1>3, EnterDoes
  <2>2. QED
    BY <1>1, <2>1, WrittenAtRewriting DEF FitsOrMoves
<1>4. CASE Restore
  <2>1. /\ IsRewriting(call', call, call.old.dir, Append(List(call.old.dir), EntryFor(call, call.old)), "none")
        /\ FitsOrMoves(call', header[call.old.dir])
    BY <1>4, RestoreDoes
  <2>2. QED
    BY <1>1, <2>1, WrittenAtRewriting DEF FitsOrMoves
<1>5. CASE Purge
  <2>1. PICK e \in VersionsIn(call.new.dir, call.new.name), c \in Call :
              /\ IsRewriting(call', c, call.new.dir,
                             Without(List(call.new.dir), call.new.dir, At(e, call.new.dir)), "free")
              /\ call'.phase = "write"
    BY <1>5, PurgeDoes
  <2>2. QED
    BY <1>1, <2>1, WrittenAtRewriting
<1>6. QED
  BY <1>2, <1>3, <1>4, <1>5

\* And one that ends.
LEMMA WrittenAtEndings ==
    ASSUME TypeInv, WrittenInv,
           \/ GiveBack \/ GiveBackFails \/ FreeStorage \/ FreeFails \/ PurgeEnds \/ EnterFails \/ RestoreFails
           \/ RenameHeader \/ RenameHeaderFails \/ NoRun \/ RelocateFails \/ WriteFails \/ RecordFails
    PROVE  WrittenInv'
<1>1. /\ call'.phase \notin {"relocate", "write", "record", "insert"}
      /\ \A d \in Fids : ~header'[d].live \/ (header'[d].extent = header[d].extent /\ header'[d].live = header[d].live)
  BY EndingDoes
<1>3. ASSUME NEW d \in Directories
      PROVE  HasSpace(d)'
  <2>1. d \in Fids
    BY ConstantParts
  <2>2. HasSpace(d)
    BY DEF WrittenInv, HasSpace
  <2>3. CASE ~header'[d].live
    BY <2>3 DEF HasSpace
  <2>4. CASE header'[d].live /\ ~(call.kind = "createdir" /\ d = call.fid)
    BY <1>1, <2>1, <2>2, <2>4 DEF HasSpace
  <2>5. CASE header'[d].live /\ call.kind = "createdir" /\ d = call.fid /\ call.phase = "relocate"
    <3>1. call' = AfterError
      BY <2>5 DEF GiveBack, GiveBackFails, FreeStorage, FreeFails, PurgeEnds, EnterFails, RestoreFails, RenameHeader, RenameHeaderFails,
         NoRun, RelocateFails, WriteFails, RecordFails
    <3>2. AfterError = [call EXCEPT !.phase = "giveback"]
      BY <2>5 DEF AfterError
    <3>3. call'.phase = "giveback" /\ SameBut(call', call)
      BY <3>1, <3>2, PhaseChanges, PhaseNames DEF TypeInv
    <3>4. call'.kind = "createdir" /\ d = call'.fid
      BY <2>5, <3>3 DEF SameBut
    <3>5. QED
      BY <3>3, <3>4 DEF HasSpace
  <2>6. CASE header'[d].live /\ d = call.fid /\ call.phase = "giveback"
    <3>1. GiveBack \/ GiveBackFails
      BY <2>6 DEF GiveBack, GiveBackFails, FreeStorage, FreeFails, PurgeEnds, EnterFails, RestoreFails, RenameHeader, RenameHeaderFails,
         NoRun, RelocateFails, WriteFails, RecordFails
    <3>2. ~header'[d].live
      <4>1. PICK h \in Header : header' = [header EXCEPT ![call.fid] = h] /\ ~h.live
        BY <2>6, <3>1, ClearingDoes
      <4>2. QED
        BY <2>1, <2>6, <4>1 DEF TypeInv
    <3>3. QED
      BY <2>6, <3>2
  <2>7. CASE header'[d].live /\ call.phase \notin {"giveback", "relocate"}
    BY <1>1, <2>1, <2>2, <2>7 DEF HasSpace
  <2>8. QED
    BY <2>3, <2>4, <2>5, <2>6, <2>7
<1>4. QED
  BY <1>1, <1>3 DEF WrittenInv, HasSpace, Underway

\* And the steps of a rewriting.
LEMMA WrittenAtRelocate ==
    ASSUME TypeInv, ReadInv, WrittenInv, Relocate
    PROVE  WrittenInv'
<1>1. PICK run \in GoodExtent :
              /\ call.phase = "relocate" /\ call.dir \in Fids
              /\ run.count = Len(call.blocks)
              /\ header'[call.dir].extent = run
              /\ \A f \in Fids \ {call.dir} : header'[f] = header[f]
              /\ call'.phase = "write"
              /\ call'.fid = call.fid /\ call'.dir = call.dir
              /\ call'.written = call.written /\ call'.next = call.next
  BY RelocateDoes
<1>2. call'.written = 0
  BY <1>1 DEF ReadInv
<1>3. \A v \in 1 .. 0 : FALSE
  OBVIOUS
<1>4. Len(call.blocks) > 0 /\ Len(call.blocks) \in Nat
  BY <1>1, CallParts DEF TypeInv, SoundCall
<1>5. call.next = "insert" => call.dir = call.fid
  BY <1>1 DEF WrittenInv, Underway
<1>6. ASSUME NEW d \in Directories
      PROVE  ~(header'[d].live /\ header'[d].extent.count = 0)
  <2>1. CASE d = call.dir
    BY <1>1, <1>4, <2>1
  <2>2. CASE d # call.dir
    <3>1. header'[d] = header[d]
      BY <1>1, <2>2, ConstantParts
    <3>2. header[d].live /\ header[d].extent.count = 0 => call.next = "insert" /\ d = call.fid
      BY <1>1 DEF WrittenInv
    <3>3. QED
      BY <1>5, <2>2, <3>1, <3>2
  <2>3. QED
    BY <2>1, <2>2
<1>7. QED
  BY <1>1, <1>2, <1>3, <1>5, <1>6 DEF WrittenInv

\* What is written is what was packed.
LEMMA WrittenAtWriteBlock ==
    ASSUME TypeInv, ReadInv, WrittenInv, WriteBlock
    PROVE  WrittenInv'
<1>1. call.phase = "write" /\ call.dir \in Fids /\ UNCHANGED header
  BY WriteBlockDoes
<1>2. \A d \in Directories : ~(header'[d].live /\ header'[d].extent.count = 0)
  BY <1>1 DEF WrittenInv
<1>3. CASE call' = AfterError
  <2>1. call'.phase \notin {"relocate", "write", "record"}
    BY <1>3, ErrorsAreSound
  <2>2. QED
    BY <1>2, <2>1 DEF WrittenInv, Underway
<1>4. ASSUME NEW c \in Clusters, NEW v, v = call.written + 1, c = header[call.dir].extent.start + v - 1,
             v \in 1 .. Len(call.blocks), v <= header[call.dir].extent.count,
             block' = [block EXCEPT ![c] = DirectoryBlock(call.blocks[v])],
             call'.written = v, call'.phase = IF v = Len(call.blocks) THEN "record" ELSE "write",
             call'.fid = call.fid, call'.dir = call.dir, call'.blocks = call.blocks, call'.next = call.next
      PROVE  WrittenInv'
  <2>1. PICK s \in Nat, w \in Nat, x \in Nat :
            s = header[call.dir].extent.start /\ w = call.written /\ x = header[call.dir].extent.count
    BY <1>1, CallParts, BlocksRead DEF TypeInv
  <2>2. v = w + 1 /\ c = s + v - 1 /\ v \in Nat
    BY <1>4, <2>1
  <2>3. ASSUME NEW y \in 1 .. v
        PROVE  block'[s + y - 1].entries = call.blocks[y]
    <3>1. CASE y = v
      BY <1>4, <2>2, <3>1 DEF DirectoryBlock, TypeInv
    <3>2. CASE y # v
      <4>1. y \in 1 .. w /\ s + y - 1 # c /\ y \in 1 .. x
        <5>1. v <= x
          BY <1>4, <2>1
        <5>2. QED
          BY <2>2, <3>2, <5>1
      <4>2. s + y - 1 \in Clusters
        BY <1>1, <2>1, <4>1, BlocksRead
      <4>3. block'[s + y - 1] = block[s + y - 1]
        BY <1>4, <4>1, <4>2 DEF TypeInv
      <4>4. block[s + y - 1].entries = call.blocks[y]
        BY <1>1, <2>1, <4>1 DEF WrittenInv
      <4>5. QED
        BY <4>3, <4>4
    <3>3. QED
      BY <3>1, <3>2
  <2>4. \A y \in 1 .. call'.written : block'[header'[call'.dir].extent.start + y - 1].entries = call'.blocks[y]
    BY <1>1, <1>4, <2>1, <2>3
  <2>5. call.next = "insert" => header[call.dir].used = 0 /\ call.dir = call.fid
    BY <1>1 DEF ReadInv, WrittenInv, Underway
  <2>6. QED
    BY <1>1, <1>2, <1>4, <2>4, <2>5 DEF WrittenInv
<1>5. QED
  BY <1>3, <1>4, WriteBlockDoes

\* Recording it ends the rewriting.
LEMMA WrittenAtRecordUsed ==
    ASSUME TypeInv, WrittenInv, RecordUsed
    PROVE  WrittenInv'
<1>1. /\ call.phase = "record" /\ call.dir \in Fids
      /\ header'[call.dir].extent = header[call.dir].extent /\ header'[call.dir].live = header[call.dir].live
      /\ \A f \in Fids \ {call.dir} : header'[f] = header[f]
      /\ \/ call.next = "none" /\ call' = NoCall
         \/ call.next # "none" /\ call' \in Call /\ call'.phase = call.next /\ SameBut(call', call)
  BY RecordUsedDoes
<1>2. call'.phase \notin {"relocate", "write", "record"}
  <2>1. call.next \in {"none", "insert", "enter", "name", "purge", "free"}
    BY DEF TypeInv, SoundCall
  <2>2. NoCall.phase = "none"
    BY DEF NoCall
  <2>3. QED
    BY <1>1, <2>1, <2>2
<1>3. \A d \in Directories : ~(header'[d].live /\ header'[d].extent.count = 0)
  <2>1. \A d \in Directories : ~(header[d].live /\ header[d].extent.count = 0)
    BY <1>1 DEF WrittenInv
  <2>2. \A d \in Directories : header'[d].live = header[d].live /\ header'[d].extent = header[d].extent
    BY <1>1, ConstantParts
  <2>3. QED
    BY <2>1, <2>2
<1>4. QED
  BY <1>2, <1>3 DEF WrittenInv, Underway

\* Every step keeps what is written, and the order.
LEMMA OrderKept ==
    ASSUME TypeInv, TypeInv', LeftInv, NamedAreLive, SpaceInv, ReadInv, ReadInv', WrittenInv, OrderInv, [Next]_vars
    PROVE  WrittenInv' /\ OrderInv'
<1>1. CASE Next
  <2>1. WrittenInv'
    BY <1>1, Steps, WrittenAtBeginning, WrittenAtNextRewriting, WrittenAtEndings, WrittenAtRelocate,
       WrittenAtWriteBlock, WrittenAtRecordUsed
  <2>2. OrderInv'
    BY <1>1, Steps, OrderAtBeginning, OrderAtNextRewriting, OrderAtEndings, OrderAtRelocate,
       OrderAtWriteBlock, OrderAtRecordUsed
  <2>3. QED
    BY <2>1, <2>2
<1>2. CASE UNCHANGED vars
  <2>1. UNCHANGED <<header, block, call, failed>>
    BY <1>2 DEF vars
  <2>2. WrittenInv'
    BY <2>1 DEF WrittenInv, Underway
  <2>3. Whole' = Whole /\ HalfWritten' = HalfWritten /\ Underway' = Underway
    BY <2>1 DEF Whole, HalfWritten, Underway
  <2>4. \A d : List(d)' = List(d)
    BY <2>1, ListAfter
  <2>5. EntersNew' = EntersNew
    BY <2>1 DEF EntersNew, Underway, VersionsIn, List, Blocks
  <2>6. OrderInv'
    BY <2>1, <2>3, <2>5 DEF OrderInv
  <2>7. QED
    BY <2>2, <2>6
<1>3. QED
  BY <1>1, <1>2

\* A new volume has one directory, with no entries.
LEMMA NewVolumesAreEmpty ==
    ASSUME Init, TypeInv
    PROVE  \A d \in Directories : List(d) = <<>>
<1> SUFFICES ASSUME NEW d \in Directories
             PROVE  List(d) = <<>>
  OBVIOUS
<1>1. d \in Fids /\ header[d] \in Header /\ block \in [Clusters -> Block]
  BY ConstantParts DEF TypeInv
<1>2. CASE d = Root
  <2>1. header[d].extent.start = 0 /\ header[d].used = 1
    BY <1>1, <1>2 DEF Init
  <2>2. block[0].entries = <<>>
    BY SizeNumbers DEF Init, DirectoryBlock
  <2>3. PICK f : IsListing(EntriesIn(header[d], block), f) /\ Listed(header[d], block) = f[1]
    BY <1>1, <2>1, ListedReads
  <2>4. Len(EntriesIn(header[d], block)) = 1 /\ EntriesIn(header[d], block)[1] = <<>>
    <3>1. 0 + 1 - 1 = 0 /\ 1 \in 1 .. 1
      OBVIOUS
    <3>2. \A v \in 1 .. 1 : EntriesIn(header[d], block)[v] = block[0 + v - 1].entries
      BY <1>1, <2>1, ListedReads
    <3>3. Len(EntriesIn(header[d], block)) = 1
      BY <1>1, <2>1, ListedReads
    <3>4. QED
      BY <2>2, <3>1, <3>2, <3>3
  <2>5. f[1] = <<>> \o <<>>
    <3>1. 1 \in 1 .. 1 /\ 1 - 1 = 0
      OBVIOUS
    <3>2. f[1] = f[0] \o EntriesIn(header[d], block)[1] /\ f[0] = <<>>
      BY <2>3, <2>4, <3>1 DEF IsListing
    <3>3. QED
      BY <2>4, <3>2
  <2>6. <<>> \o <<>> = <<>>
    OBVIOUS
  <2>7. QED
    BY <1>1, <2>3, <2>5, <2>6, ListReads
<1>3. CASE d # Root
  <2>1. header[d].used = 0
    BY <1>1, <1>3 DEF Init, NoHeader
  <2>2. QED
    BY <1>1, <2>1, ListReads, UnusedIsOrdered
<1>4. QED
  BY <1>2, <1>3

\* Its directories are in order.
LEMMA InitOrdered ==
    ASSUME Init, TypeInv
    PROVE  WrittenInv /\ OrderInv
<1>1. call.phase = "none" /\ call = NoCall
  BY DEF Init, NoCall
<1>2. ASSUME NEW d \in Directories
      PROVE  ~(header[d].live /\ header[d].extent.count = 0)
  <2>1. d \in Fids
    BY ConstantParts
  <2>2. CASE d = Root
    BY <2>1, <2>2 DEF Init
  <2>3. CASE d # Root
    BY <2>1, <2>3 DEF Init, NoHeader
  <2>4. QED
    BY <2>2, <2>3
<1>3. WrittenInv
  BY <1>1, <1>2 DEF WrittenInv, Underway
<1>4. ASSUME NEW d \in Directories
      PROVE  OrderedIn(header[d], block)
  <2>1. d \in Fids /\ header[d] \in Header /\ block \in [Clusters -> Block]
    BY ConstantParts DEF TypeInv
  <2>2. CASE d = Root
    <3>1. header[d].extent.start = 0 /\ header[d].used = 1
      BY <2>1, <2>2 DEF Init
    <3>2. block[0].entries = <<>>
      BY SizeNumbers DEF Init, DirectoryBlock
    <3>6. Listed(header[d], block) = <<>>
      BY <2>1, NewVolumesAreEmpty, ListReads
    <3>7. IsOrdered(<<>>)
      <4>1. \A i \in 1 .. 0 : FALSE
        OBVIOUS
      <4>2. Len(<<>>) = 0
        OBVIOUS
      <4>3. QED
        BY <4>1, <4>2 DEF IsOrdered
    <3>8. \A v \in 1 .. 1 : 0 + v - 1 = 0
      OBVIOUS
    <3>9. Size(<<>>) <= BlockRoom
      BY OneFits
    <3>10. QED
      BY <3>1, <3>2, <3>6, <3>7, <3>8, <3>9 DEF OrderedIn
  <2>3. CASE d # Root
    <3>1. header[d].used = 0
      BY <2>1, <2>3 DEF Init, NoHeader
    <3>2. QED
      BY <2>1, <3>1, UnusedIsOrdered
  <2>4. QED
    BY <2>2, <2>3
<1>5. OrderInv
  BY <1>1, <1>4 DEF OrderInv, Underway, EntersNew
<1>6. QED
  BY <1>3, <1>5

-----------------------------------------------------------------------------
(* The names there are, and those a call is about to leave.                *)

\* An entry of a directory, and the place it is at.
EntryOf(d, e) == [dir |-> d, name |-> e.name, version |-> e.version, fid |-> e.fid]

PlaceOf(x) == [dir |-> x.dir, name |-> x.name, version |-> x.version]

Named(p, f) == [dir |-> p.dir, name |-> p.name, version |-> p.version, fid |-> f]

EntriesOfList(d, L) == {EntryOf(d, e) : e \in ToSet(L)}

EntriesAt(d, h, b) == IF h.live THEN EntriesOfList(d, Listed(h, b)) ELSE {}

AllOf(hd, b) == UNION {EntriesAt(d, hd[d], b) : d \in Directories}

\* Is a call rewriting a directory, and has it yet to begin writing?
Writing(c) == c.phase \in {"relocate", "write", "record"}

Pending(c) == c.phase = "relocate" \/ (c.phase = "write" /\ c.written = 0 /\ ~c.moved)

\* What is left to do when the directory is rewritten.
Stage(c) == IF Writing(c) THEN c.next ELSE c.phase

\* What a call writes.
InHand(c) == {EntryOf(c.dir, e) : e \in UNION {ToSet(c.blocks[v]) : v \in 1 .. Len(c.blocks)}}

\* The names there are once a directory is rewritten, and now, when a directory that
\* is half written counts as rewritten.
Goal(hd, b, c) ==
    IF Writing(c) THEN {x \in AllOf(hd, b) : x.dir # c.dir} \cup InHand(c) ELSE AllOf(hd, b)

Now(hd, b, c) == IF Pending(c) THEN AllOf(hd, b) ELSE Goal(hd, b, c)

\* These are the names.
LEMMA AllAre == AllEntries = AllOf(header, block) /\ AllEntries' = AllOf(header', block')
<1>1. AllEntries = AllOf(header, block)
  <2>1. ASSUME NEW d \in Directories, header[d].live
        PROVE  EntriesAt(d, header[d], block)
                  = {[dir |-> d, name |-> e.name, version |-> e.version, fid |-> e.fid] : e \in ToSet(List(d))}
    BY <2>1, ListAfter DEF EntriesAt, EntriesOfList, EntryOf
  <2>2. ASSUME NEW d \in Directories, ~header[d].live
        PROVE  EntriesAt(d, header[d], block) = {}
    BY <2>2 DEF EntriesAt
  <2>3. \A x : x \in AllEntries <=> \E d \in Directories : header[d].live /\ x \in EntriesAt(d, header[d], block)
    BY <2>1 DEF AllEntries
  <2>4. \A x : x \in AllOf(header, block) <=> \E d \in Directories : x \in EntriesAt(d, header[d], block)
    BY DEF AllOf
  <2>5. QED
    BY <2>2, <2>3, <2>4
<1>2. AllEntries' = AllOf(header', block')
  <2>1. ASSUME NEW d \in Directories, header'[d].live
        PROVE  EntriesAt(d, header'[d], block')
                  = {[dir |-> d, name |-> e.name, version |-> e.version, fid |-> e.fid] : e \in ToSet(List(d)')}
    BY <2>1, ListAfter DEF EntriesAt, EntriesOfList, EntryOf
  <2>2. ASSUME NEW d \in Directories, ~header'[d].live
        PROVE  EntriesAt(d, header'[d], block') = {}
    BY <2>2 DEF EntriesAt
  <2>3. \A x : x \in AllEntries' <=> \E d \in Directories : header'[d].live /\ x \in EntriesAt(d, header'[d], block')
    BY <2>1 DEF AllEntries
  <2>4. \A x : x \in AllOf(header', block') <=> \E d \in Directories : x \in EntriesAt(d, header'[d], block')
    BY DEF AllOf
  <2>5. QED
    BY <2>2, <2>3, <2>4
<1>3. QED
  BY <1>1, <1>2

\* The names of a directory, and those of the others.
LEMMA NamesApart ==
    ASSUME NEW hd, NEW b
    PROVE  /\ \A d, h : \A x \in EntriesAt(d, h, b) : x.dir = d
           /\ \A d \in Directories : \A x :
                 x \in AllOf(hd, b) /\ x.dir = d <=> x \in EntriesAt(d, hd[d], b)
           /\ \A x : x \in AllOf(hd, b) => x.dir \in Directories
<1>1. \A d, h : \A x \in EntriesAt(d, h, b) : x.dir = d
  BY DEF EntriesAt, EntriesOfList, EntryOf
<1>2. QED
  BY <1>1 DEF AllOf

\* What a list that is cut holds.
LEMMA CutHolds ==
    ASSUME NEW S \in Seq(Entry), NEW B \in Seq(Seq(Entry)), NEW bound, IsCut(S, 1, B, bound)
    PROVE  UNION {ToSet(B[v]) : v \in 1 .. Len(B)} = ToSet(S)
<1>1. PICK m \in Nat, n \in Nat : m = Len(B) /\ n = Len(S)
  BY LenProperties
<1>2. /\ bound \in [0 .. m -> 0 .. n] /\ bound[0] = 0 /\ bound[m] = n
      /\ \A v \in 1 .. m : bound[v - 1] <= bound[v] /\ B[v] = SubSeq(S, bound[v - 1] + 1, bound[v])
  BY <1>1 DEF IsCut
<1>3. \A x : x \in ToSet(S) <=> \E i \in 1 .. n : x = S[i]
  BY <1>1, LenProperties DEF ToSet
<1>4. ASSUME NEW v \in 1 .. m
      PROVE  \A x : x \in ToSet(B[v]) <=> \E i \in bound[v - 1] + 1 .. bound[v] : x = S[i]
  <2>1. v - 1 \in 0 .. m /\ v \in 0 .. m
    BY <1>1
  <2>2. bound[v - 1] \in 0 .. n /\ bound[v] \in 0 .. n /\ bound[v - 1] <= bound[v]
    BY <1>2, <2>1
  <2>3. PICK lo \in 0 .. n, hi \in 0 .. n : lo = bound[v - 1] /\ hi = bound[v] /\ lo <= hi
    BY <2>2
  <2>4. B[v] = SubSeq(S, lo + 1, hi)
    BY <1>2, <2>3
  <2>5. lo + 1 \in 1 .. Len(S) + 1 /\ hi \in lo .. Len(S) /\ lo = (lo + 1) - 1
    BY <1>1, <2>3
  <2>6. ToSet(SubSeq(S, lo + 1, hi)) = {S[j] : j \in lo + 1 .. hi}
    BY <2>5, Parts
  <2>7. QED
    BY <2>3, <2>4, <2>6
<1>5. ASSUME NEW i \in 1 .. n
      PROVE  \E v \in 1 .. m : i \in bound[v - 1] + 1 .. bound[v]
  <2> DEFINE T == {v \in Nat : v <= m /\ i <= bound[v]}
  <2>1. m \in T
    BY <1>1, <1>2
  <2>2. PICK v \in T : \A w \in T : v <= w
    BY <2>1, LeastNatural, T \subseteq Nat
  <2>3. v \in 1 .. m
    BY <1>1, <1>2, <2>2
  <2>4. v - 1 \notin T
    BY <2>2, <2>3
  <2>5. v - 1 \in 0 .. m /\ v \in 0 .. m
    BY <1>1, <2>3
  <2>6. bound[v - 1] \in 0 .. n /\ bound[v] \in 0 .. n
    BY <1>2, <2>5
  <2>7. bound[v - 1] < i /\ i <= bound[v]
    BY <1>1, <2>2, <2>4, <2>5, <2>6
  <2>8. QED
    BY <1>1, <2>3, <2>6, <2>7
<1>6. ASSUME NEW v \in 1 .. m, NEW i \in bound[v - 1] + 1 .. bound[v]
      PROVE  i \in 1 .. n
  <2>1. v - 1 \in 0 .. m /\ v \in 0 .. m
    BY <1>1
  <2>2. bound[v - 1] \in 0 .. n /\ bound[v] \in 0 .. n
    BY <1>2, <2>1
  <2>3. QED
    BY <1>1, <2>2
<1>7. \A x : (\E v \in 1 .. m : x \in ToSet(B[v])) <=> x \in ToSet(S)
  <2>1. TAKE x
  <2>2. ASSUME NEW v \in 1 .. m, x \in ToSet(B[v])
        PROVE  x \in ToSet(S)
    <3>1. PICK i \in bound[v - 1] + 1 .. bound[v] : x = S[i]
      BY <1>4, <2>2
    <3>2. i \in 1 .. n
      BY <1>6
    <3>3. QED
      BY <1>3, <3>1, <3>2
  <2>3. ASSUME x \in ToSet(S)
        PROVE  \E v \in 1 .. m : x \in ToSet(B[v])
    <3>1. PICK i \in 1 .. n : x = S[i]
      BY <1>3, <2>3
    <3>2. PICK v \in 1 .. m : i \in bound[v - 1] + 1 .. bound[v]
      BY <1>5
    <3>3. QED
      BY <1>4, <3>1, <3>2
  <2>4. QED
    BY <2>2, <2>3
<1>8. QED
  BY <1>1, <1>7

\* What a call writes is the list it was made from.
LEMMA InHandIs ==
    ASSUME NEW c, NEW L \in Seq(Entry), c.blocks = Pack(L)
    PROVE  InHand(c) = EntriesOfList(c.dir, L)
<1>1. /\ Sorted(L) \in Seq(Entry) /\ ToSet(Sorted(L)) = ToSet(L)
      /\ Pack(L) \in Seq(Seq(Entry))
  BY SortedPermutes, PackHolds
<1>2. PICK bound : IsCut(Sorted(L), 1, Pack(L), bound)
  BY PackHolds
<1>3. UNION {ToSet(Pack(L)[v]) : v \in 1 .. Len(Pack(L))} = ToSet(L)
  BY <1>1, <1>2, CutHolds
<1>4. QED
  BY <1>3 DEF InHand, EntriesOfList

-----------------------------------------------------------------------------
(* What a step does to the names there are.                                *)

\* A directory is left alone.
LEMMA EntriesStay ==
    ASSUME TypeInv, TypeInv', NEW d \in Directories,
           \/ /\ header'[d].live = header[d].live /\ header'[d].used = header[d].used
              /\ header'[d].extent = header[d].extent
              /\ \A c \in ClustersOf(header[d].extent) : block'[c] = block[c]
           \/ /\ EntriesAt(d, header[d], block) = {}
              /\ header'[d].used = 0
    PROVE  EntriesAt(d, header'[d], block') = EntriesAt(d, header[d], block)
<1>1. header[d] \in Header /\ header'[d] \in Header /\ block \in [Clusters -> Block] /\ block' \in [Clusters -> Block]
  BY ConstantParts DEF TypeInv
<1>2. CASE /\ header'[d].live = header[d].live /\ header'[d].used = header[d].used
           /\ header'[d].extent = header[d].extent
           /\ \A c \in ClustersOf(header[d].extent) : block'[c] = block[c]
  <2>1. Listed(header'[d], block') = Listed(header[d], block)
    BY <1>1, <1>2, ListingStays
  <2>2. QED
    BY <1>2, <2>1 DEF EntriesAt
<1>3. CASE EntriesAt(d, header[d], block) = {} /\ header'[d].used = 0
  <2>1. Listed(header'[d], block') = <<>>
    BY <1>1, <1>3, UnusedIsOrdered
  <2>2. EntriesOfList(d, <<>>) = {}
    BY DEF EntriesOfList, ToSet
  <2>3. QED
    BY <1>3, <2>1, <2>2 DEF EntriesAt
<1>4. QED
  BY <1>2, <1>3

\* So are all but one of them.
LEMMA OthersStay ==
    ASSUME NEW hd, NEW b, NEW gd, NEW c, NEW d,
           \A x \in Directories : x # d => EntriesAt(x, gd[x], c) = EntriesAt(x, hd[x], b)
    PROVE  \A x : x \in AllOf(gd, c) /\ x.dir # d <=> x \in AllOf(hd, b) /\ x.dir # d
<1>1. \A x : x \in AllOf(gd, c) /\ x.dir # d <=> x \in AllOf(hd, b) /\ x.dir # d
  <2>1. TAKE x
  <2>2. x.dir \in Directories /\ x.dir # d =>
           (x \in AllOf(gd, c) <=> x \in AllOf(hd, b))
    <3>1. SUFFICES ASSUME NEW y \in Directories, y = x.dir, y # d PROVE x \in AllOf(gd, c) <=> x \in AllOf(hd, b)
      OBVIOUS
    <3>2. x \in AllOf(gd, c) <=> x \in EntriesAt(y, gd[y], c)
      BY <3>1, NamesApart
    <3>3. x \in AllOf(hd, b) <=> x \in EntriesAt(y, hd[y], b)
      BY <3>1, NamesApart
    <3>4. QED
      BY <3>1, <3>2, <3>3
  <2>3. QED
    BY <2>2, NamesApart
<1>2. QED
  BY <1>1

\* The names apart from a directory that is read.
LEMMA AllButOne ==
    ASSUME NEW hd, NEW b, NEW d \in Directories, hd[d].live
    PROVE  \A x : x \in AllOf(hd, b) <=> (x \in AllOf(hd, b) /\ x.dir # d) \/ x \in EntriesOfList(d, Listed(hd[d], b))
<1>1. EntriesAt(d, hd[d], b) = EntriesOfList(d, Listed(hd[d], b))
  BY DEF EntriesAt
<1>2. \A x : x \in AllOf(hd, b) /\ x.dir = d <=> x \in EntriesAt(d, hd[d], b)
  BY NamesApart
<1>3. QED
  BY <1>1, <1>2

\* Moving a directory does not change where the call leads.
LEMMA RelocateKeepsGoal ==
    ASSUME TypeInv, TypeInv', SpaceInv, Whole, Relocate
    PROVE  Goal(header', block', call') = Goal(header, block, call)
<1>1. PICK run \in GoodExtent :
              /\ call.phase = "relocate" /\ call.dir \in Fids
              /\ ClustersOf(run) \subseteq free
              /\ \A f \in Fids \ {call.dir} : header'[f] = header[f]
              /\ block' = [c \in Clusters |-> IF c \in ClustersOf(run) THEN Zeroed ELSE block[c]]
              /\ call'.phase = "write" /\ call'.dir = call.dir
              /\ call'.blocks = call.blocks
  BY RelocateDoes
<1>0. PICK dir \in Directories : dir = call.dir
  BY CallParts DEF TypeInv
<1>2. ASSUME NEW d \in Directories, d # dir
      PROVE  EntriesAt(d, header'[d], block') = EntriesAt(d, header[d], block)
  <2>1. d \in Fids /\ header'[d] = header[d]
    BY <1>0, <1>1, <1>2, ConstantParts
  <2>2. ClustersOf(header[d].extent) \subseteq Clusters
    BY <2>1, BlocksRead
  <2>3. CASE header[d].live
    <3>1. ~header[d].left
      BY <2>1, <2>3, HeaderParts DEF TypeInv
    <3>2. ClustersOf(header[d].extent) \cap free = {}
      BY <2>1, <3>1 DEF SpaceInv, SpaceOf, DeletedAreUnnamed, Whole
    <3>3. \A c \in ClustersOf(header[d].extent) : block'[c] = block[c]
      BY <1>1, <2>2, <3>2
    <3>4. QED
      BY <2>1, <3>3, EntriesStay
  <2>4. CASE ~header[d].live
    BY <2>1, <2>4 DEF EntriesAt
  <2>5. QED
    BY <2>3, <2>4
<1>3. {x \in AllOf(header', block') : x.dir # dir} = {x \in AllOf(header, block) : x.dir # dir}
  <2>1. \A x : x \in AllOf(header', block') /\ x.dir # dir <=> x \in AllOf(header, block) /\ x.dir # dir
    BY <1>2, OthersStay, ZenonT(60)
  <2>2. QED
    BY <2>1
<1>4. InHand(call') = InHand(call)
  BY <1>1 DEF InHand
<1>5. Writing(call) /\ Writing(call')
  BY <1>1 DEF Writing
<1>6. QED
  BY <1>0, <1>1, <1>3, <1>4, <1>5 DEF Goal

\* Writing a block does not.
LEMMA WriteBlockKeepsGoal ==
    ASSUME TypeInv, TypeInv', LeftInv, SpaceInv, Whole, NEW c \in ClustersOf(header[call.dir].extent), NEW v,
           UNCHANGED header, block' = [block EXCEPT ![c] = v],
           call.phase = "write", call'.phase \in {"write", "record"}, call'.dir = call.dir, call'.blocks = call.blocks
    PROVE  Goal(header', block', call') = Goal(header, block, call)
<1>1. PICK dir \in Directories : dir = call.dir
  BY CallParts DEF TypeInv
<1>2. ASSUME NEW d \in Directories, d # dir
      PROVE  EntriesAt(d, header'[d], block') = EntriesAt(d, header[d], block)
  <2>1. d \in Fids /\ dir \in Fids /\ header'[d] = header[d]
    BY <1>2, ConstantParts
  <2>2. ClustersOf(header[d].extent) \subseteq Clusters
    BY <2>1, BlocksRead
  <2>3. CASE header[d].live
    <3>1. ~header[d].left /\ ~header[dir].left
      BY <1>1, <2>1, <2>3, HeaderParts DEF TypeInv, LeftInv, AtHand
    <3>2. ClustersOf(header[d].extent) \cap ClustersOf(header[dir].extent) = {}
      BY <1>2, <2>1, <3>1 DEF SpaceInv, SpaceOf, DeletedAreUnnamed, Whole
    <3>3. \A y \in ClustersOf(header[d].extent) : block'[y] = block[y]
      BY <1>1, <2>2, <3>2 DEF TypeInv
    <3>4. QED
      BY <2>1, <3>3, EntriesStay
  <2>4. CASE ~header[d].live
    BY <2>1, <2>4 DEF EntriesAt
  <2>5. QED
    BY <2>3, <2>4
<1>3. {x \in AllOf(header', block') : x.dir # dir} = {x \in AllOf(header, block) : x.dir # dir}
  <2>1. \A x : x \in AllOf(header', block') /\ x.dir # dir <=> x \in AllOf(header, block) /\ x.dir # dir
    BY ONLY <1>2, OthersStay
  <2>2. QED
    BY <2>1
<1>4. InHand(call') = InHand(call)
  BY DEF InHand
<1>5. Writing(call) /\ Writing(call')
  BY DEF Writing
<1>6. QED
  BY <1>1, <1>3, <1>4, <1>5 DEF Goal

\* Writing the header at last does not, and the names are those that were to be.
LEMMA RecordUsedReachesGoal ==
    ASSUME TypeInv, TypeInv', WrittenInv, OrderInv, Whole, RecordUsed, header[call.dir].live
    PROVE  /\ AllOf(header', block') = Goal(header, block, call)
           /\ Goal(header', block', call') = Goal(header, block, call) /\ ~Writing(call')
<1>1. /\ call.phase = "record" /\ UNCHANGED <<block, failed>>
      /\ header'[call.dir].used = Len(call.blocks)
      /\ header'[call.dir].extent = header[call.dir].extent /\ header'[call.dir].live = header[call.dir].live
      /\ \A f \in Fids \ {call.dir} : header'[f] = header[f]
      /\ \/ call.next = "none" /\ call' = NoCall
         \/ call.next # "none" /\ call' \in Call /\ call'.phase = call.next /\ SameBut(call', call)
  BY RecordUsedDoes
<1>2. PICK dir \in Directories : dir = call.dir
  BY CallParts DEF TypeInv
<1>3. ~Writing(call') /\ Writing(call)
  <2>1. call.next \in {"none", "insert", "enter", "name", "purge", "free"}
    BY DEF TypeInv, SoundCall
  <2>2. NoCall.phase = "none"
    BY DEF NoCall
  <2>3. QED
    BY <1>1, <2>1, <2>2 DEF Writing
<1>4. ASSUME NEW d \in Directories, d # dir
      PROVE  EntriesAt(d, header'[d], block') = EntriesAt(d, header[d], block)
  <2>1. d \in Fids /\ header'[d] = header[d] /\ block' = block
    BY <1>1, <1>2, <1>4, ConstantParts
  <2>2. QED
    BY <2>1, EntriesStay
<1>5. {x \in AllOf(header', block') : x.dir # dir} = {x \in AllOf(header, block) : x.dir # dir}
  <2>1. \A x : x \in AllOf(header', block') /\ x.dir # dir <=> x \in AllOf(header, block) /\ x.dir # dir
    BY <1>4, OthersStay, ZenonT(60)
  <2>2. QED
    BY <2>1
<1>6. EntriesOfList(dir, Listed(header'[dir], block')) = InHand(call)
  <2>1. header'[dir] \in Header /\ block' \in [Clusters -> Block] /\ call.blocks \in Seq(Seq(Entry))
    BY ConstantParts, CallParts DEF TypeInv
  <2>2. IsOrderedCut(call.blocks)
    BY <1>1 DEF OrderInv, Underway
  <2>3. call.written = Len(call.blocks)
    BY <1>1 DEF TypeInv, CallHasRoom
  <2>4. \A v \in 1 .. Len(call.blocks) : block[header[dir].extent.start + v - 1].entries = call.blocks[v]
    BY <1>1, <1>2, <2>3 DEF WrittenInv
  <2>5. \A v \in 1 .. Len(call.blocks) : block'[header'[dir].extent.start + v - 1].entries = call.blocks[v]
    BY <1>1, <1>2, <2>4
  <2>6. header'[dir].used = Len(call.blocks)
    BY <1>1, <1>2
  <2>7. PICK S \in Seq(Entry) : \E bound : IsCut(S, 1, call.blocks, bound)
    BY <2>2 DEF IsOrderedCut
  <2>8. Listed(header'[dir], block') = S
    BY <2>1, <2>2, <2>5, <2>6, <2>7, WrittenIsOrdered
  <2>9. UNION {ToSet(call.blocks[v]) : v \in 1 .. Len(call.blocks)} = ToSet(S)
    BY <2>1, <2>7, CutHolds
  <2>10. QED
    BY <1>2, <2>8, <2>9 DEF InHand, EntriesOfList
<1>7. \A x : x \in AllOf(header', block') <=> (x \in AllOf(header', block') /\ x.dir # dir) \/ x \in EntriesOfList(dir, Listed(header'[dir], block'))
  <2>1. header'[dir].live
    BY <1>1, <1>2
  <2>2. QED
    BY <2>1, AllButOne
<1>8. AllOf(header', block') = Goal(header, block, call)
  BY <1>2, <1>3, <1>5, <1>6, <1>7 DEF Goal
<1>9. QED
  BY <1>3, <1>8 DEF Goal

\* What a list holds with one entry more.
LEMMA AppendHolds ==
    ASSUME NEW L \in Seq(Entry), NEW e \in Entry
    PROVE  \A x : x \in ToSet(Append(L, e)) <=> x \in ToSet(L) \/ x = e
<1>1. PICK n \in Nat : n = Len(L)
  BY LenProperties
<1>2. Append(L, e) \in Seq(Entry) /\ Len(Append(L, e)) = n + 1
      /\ \A i \in 1 .. n : Append(L, e)[i] = L[i]
  BY <1>1, AppendProperties
<1>3. Append(L, e)[n + 1] = e
  BY <1>1, AppendProperties
<1>4. \A x : x \in ToSet(L) <=> \E i \in 1 .. n : x = L[i]
  BY <1>1, LenProperties DEF ToSet
<1>5. \A x : x \in ToSet(Append(L, e)) <=> \E i \in 1 .. n + 1 : x = Append(L, e)[i]
  BY <1>2, LenProperties DEF ToSet
<1>6. \A i \in 1 .. n + 1 : i \in 1 .. n \/ i = n + 1
  BY <1>1
<1>7. \A i \in 1 .. n : i \in 1 .. n + 1
  BY <1>1
<1>8. n + 1 \in 1 .. n + 1
  BY <1>1
<1> HIDE <1>1
<1>9. QED
  BY <1>2, <1>3, <1>4, <1>5, <1>6, <1>7, <1>8

\* An ordered list has one entry for each name and version.
LEMMA OrderedAreOnce ==
    ASSUME NEW L \in Seq(Entry), IsOrdered(L)
    PROVE  /\ \A i, j \in 1 .. Len(L) : L[i].name = L[j].name /\ L[i].version = L[j].version => i = j
           /\ \A x, y \in ToSet(L) : x.name = y.name /\ x.version = y.version => x = y
<1>1. PICK n \in Nat : n = Len(L)
  BY LenProperties
<1>2. \A i \in 1 .. n : L[i] \in Entry
  BY <1>1, ElementOfSeq
<1>3. ASSUME NEW i \in 1 .. n, NEW j \in 1 .. n, L[i].name = L[j].name, L[i].version = L[j].version, i < j
      PROVE  FALSE
  <2>1. Precedes(L[i], L[j])
    BY <1>1, <1>3 DEF IsOrdered
  <2>2. L[i].name \in Nat /\ L[i].version \in Nat
    <3>1. L[i].name \in Names /\ L[i].version \in Versions
      BY <1>2 DEF Entry, Versions
    <3>2. QED
      BY <3>1, ConstantParts, SizesFit
  <2>3. PICK a \in Nat, v \in Nat : a = L[i].name /\ v = L[i].version
    BY <2>2
  <2>4. a < a \/ v > v
    BY <1>3, <2>1, <2>3 DEF Precedes
  <2>5. QED
    BY <2>4
<1>4. ASSUME NEW i \in 1 .. n, NEW j \in 1 .. n, L[i].name = L[j].name, L[i].version = L[j].version
      PROVE  i = j
  <2>1. i < j \/ j < i \/ i = j
    BY <1>1
  <2>2. QED
    BY <1>3, <1>4, <2>1
<1>5. \A x : x \in ToSet(L) <=> \E i \in 1 .. n : x = L[i]
  BY <1>1, LenProperties DEF ToSet
<1>6. QED
  BY <1>1, <1>4, <1>5

\* What it holds with one entry less.
LEMMA RemovalHolds ==
    ASSUME NEW L \in Seq(Entry), IsOrdered(L), NEW d, NEW e \in ToSet(L)
    PROVE  \A x : x \in ToSet(Without(L, d, At(e, d))) <=> x \in ToSet(L) /\ x # e
<1>1. PICK n \in Nat : n = Len(L)
  BY LenProperties
<1>2. \A x : x \in ToSet(L) <=> \E i \in 1 .. n : x = L[i]
  BY <1>1, LenProperties DEF ToSet
<1>3. PICK k \in 1 .. n : e = L[k]
  BY <1>2
<1> DEFINE W == Without(L, d, At(e, d))
<1>4. PICK r \in 1 .. Len(L) : At(L[r], d) = At(e, d) /\ W = SubSeq(L, 1, r - 1) \o SubSeq(L, r + 1, Len(L))
  BY <1>1, <1>3, RemovalLeaves
<1>5. L[r].name = L[k].name /\ L[r].version = L[k].version
  BY <1>3, <1>4 DEF At
<1>6. r = k
  BY <1>1, <1>4, <1>5, OrderedAreOnce
<1> HIDE DEF W
<1>7. W \in Seq(Entry) /\ Len(W) = n - 1 /\ \A i \in 1 .. Len(W) : W[i] = IF i < k THEN L[i] ELSE L[i + 1]
  BY <1>1, <1>4, <1>6, RemovalOrders, ZenonT(60)
<1>8. \A x : x \in ToSet(W) <=> \E i \in 1 .. n - 1 : x = W[i]
  BY <1>7, LenProperties DEF ToSet
<1>9. ASSUME NEW x, x \in ToSet(W)
      PROVE  x \in ToSet(L) /\ x # e
  <2>1. PICK i \in 1 .. n - 1 : x = W[i]
    BY <1>8, <1>9
  <2>2. PICK j \in 1 .. n : j # k /\ W[i] = L[j]
    <3>1. CASE i < k
      BY <1>7, <3>1
    <3>2. CASE ~(i < k)
      <4>1. i + 1 \in 1 .. n /\ i + 1 # k
        BY <1>1, <1>3, <3>2
      <4>2. QED
        BY <1>7, <3>2, <4>1
    <3>3. QED
      BY <3>1, <3>2
  <2>3. L[j].name = L[k].name /\ L[j].version = L[k].version => j = k
    BY <1>1, OrderedAreOnce
  <2>4. QED
    BY <1>2, <1>3, <2>1, <2>2, <2>3
<1>10. ASSUME NEW x, x \in ToSet(L), x # e
       PROVE  x \in ToSet(W)
  <2>1. PICK j \in 1 .. n : x = L[j] /\ j # k
    BY <1>2, <1>3, <1>10
  <2>2. CASE j < k
    <3>1. j \in 1 .. n - 1
      BY <1>1, <1>3, <2>2
    <3>2. W[j] = L[j]
      BY <1>7, <2>2, <3>1
    <3>3. QED
      BY <1>8, <2>1, <3>1, <3>2
  <2>3. CASE j > k
    <3>1. j - 1 \in 1 .. n - 1 /\ ~(j - 1 < k) /\ (j - 1) + 1 = j
      BY <1>1, <1>3, <2>3
    <3>2. W[j - 1] = L[j]
      BY <1>7, <3>1
    <3>3. QED
      BY <1>8, <2>1, <3>1, <3>2
  <2>4. QED
    BY <1>1, <1>3, <2>1, <2>2, <2>3
<1>11. QED
  BY <1>9, <1>10 DEF W

\* Where a step leads that begins to enter a name.
LEMMA GoalAtInsertion ==
    ASSUME TypeInv, TypeInv', ~Writing(call), UNCHANGED block,
           \A d \in Directories : EntriesAt(d, header'[d], block) = EntriesAt(d, header[d], block),
           NEW c \in Call, NEW p \in Place, NEW next, header[p.dir].live,
           IsRewriting(call', c, p.dir, Append(List(p.dir), EntryFor(c, p)), next),
           call'.phase \in {"write", "relocate"}
    PROVE  /\ AllOf(header', block') = AllOf(header, block)
           /\ Goal(header', block', call') = AllOf(header, block) \cup {Named(p, c.fid)}
           /\ Pending(call') /\ Writing(call')
<1>1. PICK d \in Directories : d = p.dir
  BY DEF Place
<1> DEFINE L == Listed(header[d], block)
           e == EntryFor(c, p)
<1>2. List(d) = L /\ L \in Seq(Entry)
  BY ListReads, ConstantParts
<1>3. e \in Entry
  BY CallParts DEF EntryFor, Entry, Place
<1>4. Append(L, e) \in Seq(Entry)
  BY <1>2, <1>3
<1>5. call'.blocks = Pack(Append(L, e)) /\ call'.dir = d /\ call'.written = 0 /\ ~call'.moved
  BY <1>1, <1>2 DEF IsRewriting
<1> HIDE DEF L
<1>6. InHand(call') = EntriesOfList(d, Append(L, e))
  BY <1>4, <1>5, InHandIs
<1>7. \A x : x \in ToSet(Append(L, e)) <=> x \in ToSet(L) \/ x = e
  BY <1>2, <1>3, AppendHolds
<1>8. EntryOf(d, e) = Named(p, c.fid)
  BY <1>1 DEF EntryOf, Named, EntryFor
<1> HIDE DEF e
<1>9. \A x : x \in InHand(call') <=> x \in EntriesOfList(d, L) \/ x = Named(p, c.fid)
  BY <1>6, <1>7, <1>8 DEF EntriesOfList
<1>10. \A x : x \in AllOf(header, block) <=> (x \in AllOf(header, block) /\ x.dir # d) \/ x \in EntriesOfList(d, L)
  BY <1>1, AllButOne DEF L
<1>11. AllOf(header', block') = AllOf(header, block)
  BY DEF AllOf
<1>12. Writing(call') /\ Pending(call')
  BY <1>5 DEF Writing, Pending
<1>13. Goal(header', block', call') = {x \in AllOf(header, block) : x.dir # d} \cup InHand(call')
  BY <1>5, <1>11, <1>12 DEF Goal
<1>14. QED
  BY <1>9, <1>10, <1>11, <1>12, <1>13

\* And one that begins to take a name away.
LEMMA GoalAtRemoval ==
    ASSUME TypeInv, TypeInv', OrderInv, Whole, ~Writing(call), UNCHANGED <<header, block>>,
           NEW d \in Directories, header[d].live, NEW e \in ToSet(List(d)),
           NEW c, NEW next, IsRewriting(call', c, d, Without(List(d), d, At(e, d)), next),
           call'.phase = "write"
    PROVE  /\ AllOf(header', block') = AllOf(header, block)
           /\ EntryOf(d, e) \in AllOf(header, block)
           /\ Goal(header', block', call') = AllOf(header, block) \ {EntryOf(d, e)}
           /\ Pending(call') /\ Writing(call')
<1> DEFINE L == Listed(header[d], block)
           W == Without(L, d, At(e, d))
<1>1. List(d) = L /\ L \in Seq(Entry)
  BY ListReads, ConstantParts
<1>2. ~HalfWritten
  BY DEF Writing, HalfWritten
<1>3. IsOrdered(L)
  <2>1. ~header[d].left
    BY ConstantParts, HeaderParts DEF TypeInv
  <2>2. QED
    BY <1>2, <2>1 DEF OrderInv, OrderedIn
<1>4. W \in Seq(Entry)
  BY <1>1, RemovalLeaves
<1>5. \A x : x \in ToSet(W) <=> x \in ToSet(L) /\ x # e
  BY <1>1, <1>3, RemovalHolds
<1>6. call'.blocks = Pack(W) /\ call'.dir = d /\ call'.written = 0 /\ ~call'.moved
  BY <1>1 DEF IsRewriting
<1>7. \A x, y \in ToSet(L) : x.name = y.name /\ x.version = y.version => x = y
  BY <1>1, <1>3, OrderedAreOnce
<1>8. e \in ToSet(L)
  BY <1>1
<1> HIDE DEF L, W
<1>9. InHand(call') = EntriesOfList(d, W)
  BY <1>4, <1>6, InHandIs
<1>10. \A x \in ToSet(L) : EntryOf(d, x) = EntryOf(d, e) => x = e
  BY <1>7, <1>8 DEF EntryOf
<1>11. \A x : x \in EntriesOfList(d, W) <=> x \in EntriesOfList(d, L) /\ x # EntryOf(d, e)
  BY <1>5, <1>8, <1>10 DEF EntriesOfList
<1>12. \A x : x \in AllOf(header, block) <=> (x \in AllOf(header, block) /\ x.dir # d) \/ x \in EntriesOfList(d, L)
  BY AllButOne DEF L
<1>13. EntryOf(d, e).dir = d /\ EntryOf(d, e) \in EntriesOfList(d, L)
  BY <1>8 DEF EntryOf, EntriesOfList
<1>14. AllOf(header', block') = AllOf(header, block)
  OBVIOUS
<1>15. Writing(call') /\ Pending(call')
  BY <1>6 DEF Writing, Pending
<1>16. Goal(header', block', call') = {x \in AllOf(header, block) : x.dir # d} \cup InHand(call')
  BY <1>6, <1>14, <1>15 DEF Goal
<1>17. \A x : x \in Goal(header', block', call') <=> x \in AllOf(header, block) /\ x # EntryOf(d, e)
  BY <1>9, <1>11, <1>12, <1>13, <1>16
<1>18. QED
  BY <1>12, <1>13, <1>14, <1>15, <1>17

-----------------------------------------------------------------------------
(* Names and files.                                                        *)

Absent(T, f) == \A x \in T : x.fid # f

\* Each name has a file of its own, whose header is there and, unless a write of one
\* failed, says what the file's name is; Rename changes it last.
NamesIn(T, hd, c, kept) ==
    /\ T \subseteq Known
    /\ \A x, y \in T : x.fid = y.fid => x = y
    /\ \A x \in T : hd[x.fid].live /\ x.fid # Root
    /\ kept => \A x \in T : hd[x.fid].link = IF Stage(c) = "name" /\ x.fid = c.fid THEN c.old ELSE PlaceOf(x)

\* A directory that is made.
Making(hd, c, now, goal) ==
    /\ Stage(c) \in {"insert", "none", "giveback"}
    /\ hd[c.fid].live /\ c.fid # Root /\ hd[c.fid].link = c.new /\ hd[c.new.dir].live
    /\ \A x \in now \cup goal : x.dir # c.fid

\* A file that has left its old place.
Leaving(hd, c, kept) ==
    /\ hd[c.fid].live /\ c.fid # Root /\ hd[c.old.dir].live
    /\ kept => hd[c.fid].link = c.old

\* What a call that is under way knows of its files.
CallKnows(hd, c, now, goal, kept) ==
    /\ Writing(c) => hd[c.dir].live
    /\ c.phase = "none" => c = NoCall
    /\ Stage(c) \in {"insert", "giveback", "enter", "restore"} => Absent(goal, c.fid)
    /\ Pending(c) /\ Stage(c) \in {"name", "none"} => Absent(now, c.fid)
    /\ c.kind = "createdir" => Making(hd, c, now, goal)
    /\ Stage(c) \in {"enter", "restore", "name"} => Leaving(hd, c, kept)
    /\ Stage(c) = "name" => \A x \in goal : x.fid = c.fid => PlaceOf(x) = c.new
    /\ Stage(c) = "free" => \A x \in goal : x.fid # c.victim /\ x.dir # c.victim

Knows(hd, c, now, goal, kept) ==
    NamesIn(now, hd, c, kept) /\ NamesIn(goal, hd, c, kept) /\ CallKnows(hd, c, now, goal, kept)

NameInv ==
    Whole => Knows(header, call, Now(header, block, call), Goal(header, block, call), NamesUntouched)

\* When a call begins or has ended there is one set of names.
LEMMA QuietNames ==
    ASSUME ~Writing(call)
    PROVE  /\ Now(header, block, call) = AllOf(header, block)
           /\ Goal(header, block, call) = AllOf(header, block)
           /\ Stage(call) = call.phase /\ ~Pending(call)
<1>1. ~Pending(call)
  BY DEF Writing, Pending
<1>2. QED
  BY <1>1 DEF Now, Goal, Stage

\* So every name is one of a file that is there.
LEMMA NamesAreLive ==
    ASSUME NameInv
    PROVE  NamedAreLive
<1>1. SUFFICES ASSUME Whole, ~Underway, NEW e \in AllEntries
               PROVE  header[e.fid].live
  BY DEF NamedAreLive
<1>2. ~Writing(call)
  BY <1>1 DEF Writing, Underway
<1>3. NamesIn(AllOf(header, block), header, call, NamesUntouched)
  BY <1>1, <1>2, QuietNames DEF NameInv, Knows
<1>4. QED
  BY <1>3, AllAre DEF NamesIn

\* And a directory that opens is there.
LEMMA OpenedAreLive ==
    ASSUME TypeInv, LeftInv, NameInv, Whole, call = NoCall, NEW d \in Directories, Opens(d)
    PROVE  header[d].live
<1>1. ~Underway /\ DeletedAreUnnamed
  BY DEF Underway, NoCall, DeletedAreUnnamed, Whole
<1>2. QED
  BY <1>1, NamesAreLive, OpenedAreThere

\* A call that is none.
LEMMA NoCallKnows ==
    ASSUME NEW T, NEW hd, NEW c, NEW kept, NEW same, NamesIn(T, hd, c, kept), same => kept,
           Stage(c) = "name" => Absent(T, c.fid) \/ ~same
    PROVE  /\ Knows(hd, NoCall, T, T, same)
           /\ Stage(NoCall) = "none" /\ ~Writing(NoCall)
<1>1. /\ NoCall.phase = "none" /\ NoCall.kind = "none"
  BY DEF NoCall
<1>2. Stage(NoCall) = "none" /\ ~Writing(NoCall) /\ ~Pending(NoCall)
  BY <1>1 DEF Stage, Writing, Pending
<1>3. NamesIn(T, hd, NoCall, same)
  BY <1>2 DEF NamesIn, Absent
<1>4. CallKnows(hd, NoCall, T, T, same)
  BY <1>1, <1>2 DEF CallKnows
<1>5. QED
  BY <1>2, <1>3, <1>4 DEF Knows

\* Names that are as they were in another header of theirs.
LEMMA NamesStay ==
    ASSUME NEW T, NEW hd, NEW gd, NEW c, NEW b, NEW kept, NEW same, NamesIn(T, hd, c, kept), same => kept,
           \/ Stage(b) = Stage(c) /\ b.fid = c.fid /\ b.old = c.old
           \/ Stage(b) # "name" /\ (Stage(c) = "name" => Absent(T, c.fid)),
           \A f \in Fids : gd[f].live = hd[f].live /\ gd[f].link = hd[f].link
    PROVE  NamesIn(T, gd, b, same)
<1>1. \A x \in T : x.fid \in Fids
  BY DEF NamesIn, Known
<1>2. \A x \in T : gd[x.fid].live = hd[x.fid].live /\ gd[x.fid].link = hd[x.fid].link
  BY <1>1
<1>3. QED
  BY <1>2 DEF NamesIn, Absent

\* One name more, and some less.
LEMMA OneNameMore ==
    ASSUME NEW T, NEW hd, NEW c, NEW kept, NamesIn(T, hd, c, kept),
           NEW p \in Place, NEW f \in Fids, Absent(T, f), hd[f].live, f # Root,
           kept => hd[f].link = IF Stage(c) = "name" /\ f = c.fid THEN c.old ELSE p
    PROVE  NamesIn(T \cup {Named(p, f)}, hd, c, kept)
<1> DEFINE E == Named(p, f)
<1>1. E \in Known /\ E.fid = f /\ PlaceOf(E) = p
  BY DEF Named, Known, PlaceOf, Place
<1> HIDE DEF E
<1>2. T \cup {E} \subseteq Known
  BY <1>1 DEF NamesIn
<1>3. \A x, y \in T \cup {E} : x.fid = y.fid => x = y
  BY <1>1 DEF NamesIn, Absent
<1>4. \A x \in T \cup {E} : hd[x.fid].live /\ x.fid # Root
  BY <1>1 DEF NamesIn
<1>5. kept => \A x \in T \cup {E} : hd[x.fid].link = IF Stage(c) = "name" /\ x.fid = c.fid THEN c.old ELSE PlaceOf(x)
  BY <1>1 DEF NamesIn
<1>6. NamesIn(T \cup {E}, hd, c, kept)
  BY <1>2, <1>3, <1>4, <1>5 DEF NamesIn
<1>7. QED
  BY <1>6 DEF E

\* Some of the names.
LEMMA FewerNames ==
    ASSUME NEW T, NEW U, U \subseteq T, NEW hd, NEW c, NEW kept, NamesIn(T, hd, c, kept)
    PROVE  NamesIn(U, hd, c, kept)
BY DEF NamesIn

\* When a call begins.
LEMMA NamesWhenIdle ==
    ASSUME NameInv, Whole, call = NoCall
    PROVE  /\ ~Writing(call) /\ Stage(call) = "none"
           /\ NamesIn(AllOf(header, block), header, call, NamesUntouched)
<1>1. ~Writing(call) /\ call.phase = "none"
  BY DEF Writing, NoCall
<1>2. QED
  BY <1>1, QuietNames DEF NameInv, Knows

\* A header that changes for a file that has no name.
LEMMA NamesOfOthers ==
    ASSUME NEW T, NEW hd, NEW gd, NEW c, NEW b, NEW kept, NamesIn(T, hd, c, kept),
           Stage(c) # "name", Stage(b) # "name",
           NEW f, Absent(T, f), \A g \in Fids \ {f} : gd[g].live = hd[g].live /\ gd[g].link = hd[g].link
    PROVE  NamesIn(T, gd, b, kept)
<1>1. \A x \in T : x.fid \in Fids \ {f}
  BY DEF NamesIn, Known, Absent
<1>2. \A x \in T : gd[x.fid].live = hd[x.fid].live /\ gd[x.fid].link = hd[x.fid].link
  BY <1>1
<1>3. QED
  BY <1>2 DEF NamesIn

\* CreateFile names a file that has no name.
LEMMA NamesAtCreateFile ==
    ASSUME TypeInv, TypeInv', LeftInv, NameInv,
           NEW d \in Directories, NEW n \in Names, NEW version \in Versions \cup {0}, NEW f \in Files,
           CreateFile(d, n, version, f)
    PROVE  NameInv'
<1> DEFINE A == AllOf(header, block)
<1>1. PICK p \in Place, c \in Call :
              /\ p.dir = d /\ Opens(d)
              /\ c.kind = "create" /\ c.new = p /\ c.fid = f
              /\ IsRewriting(call', c, d, Append(List(d), EntryFor(c, p)), "purge")
              /\ FitsOrMoves(call', header[d])
              /\ header' = [header EXCEPT ![f] = NewHeader(p)]
  BY CreateFileDoes
<1>2. call = NoCall /\ UNCHANGED <<block, failed>> /\ Fresh(f)
  BY DEF CreateFile, Idle, Begin
<1>3. SUFFICES ASSUME Whole
               PROVE  Knows(header', call', Now(header', block', call'), Goal(header', block', call'), NamesUntouched')
  BY <1>2 DEF NameInv, Whole
<1>19. header[d].live
  BY <1>1, <1>2, <1>3, OpenedAreLive
<1>4. ~Writing(call) /\ Stage(call) = "none" /\ NamesIn(A, header, call, NamesUntouched)
  BY <1>2, <1>3, NamesWhenIdle
<1>5. f \in Fids /\ f # Root /\ f \notin Directories
  BY KindsOfFiles DEF Fids, Directories
<1>6. /\ header'[f].live /\ header'[f].link = p
      /\ \A g \in Fids \ {f} : header'[g] = header[g]
  BY <1>1, <1>5, NewHeaders DEF TypeInv
<1>7. \A x \in Directories : EntriesAt(x, header'[x], block) = EntriesAt(x, header[x], block)
  BY <1>5, <1>6, ConstantParts
<1>8. call'.phase \in {"write", "relocate"}
  BY <1>1 DEF FitsOrMoves
<1>9. /\ AllOf(header', block') = A
      /\ Goal(header', block', call') = A \cup {Named(p, f)}
      /\ Pending(call') /\ Writing(call')
  BY <1>1, <1>2, <1>4, <1>7, <1>8, <1>19, GoalAtInsertion
<1>10. Now(header', block', call') = A
  BY <1>9 DEF Now
<1>11. /\ Stage(call') = "purge" /\ call'.kind = "create" /\ call'.dir = d /\ call'.phase # "none"
  BY <1>1, <1>8, <1>9 DEF IsRewriting, Stage
<1>12. Absent(A, f)
  BY <1>2, AllAre DEF Fresh, Absent
<1> HIDE DEF A
<1>13. NamesIn(A, header', call', NamesUntouched)
  BY <1>4, <1>6, <1>11, <1>12, NamesOfOthers
<1>14. NamesIn(A \cup {Named(p, f)}, header', call', NamesUntouched)
  BY <1>5, <1>6, <1>11, <1>12, <1>13, OneNameMore
<1>15. header'[d].live
  BY <1>1, <1>5, <1>6, <1>19, ConstantParts
<1>16. CallKnows(header', call', A, A \cup {Named(p, f)}, NamesUntouched)
  BY <1>11, <1>15 DEF CallKnows
<1>17. NamesUntouched' = NamesUntouched
  BY <1>2 DEF NamesUntouched
<1>18. QED
  BY <1>9, <1>10, <1>13, <1>14, <1>16, <1>17 DEF Knows

\* A directory without entries.
LEMMA EmptyDirectories ==
    ASSUME TypeInv, NEW f \in Directories, header[f].used = 0 \/ List(f) = <<>>
    PROVE  /\ EntriesAt(f, header[f], block) = {}
           /\ \A x \in AllOf(header, block) : x.dir # f
<1>1. header[f] \in Header /\ block \in [Clusters -> Block]
  BY ConstantParts DEF TypeInv
<1>2. Listed(header[f], block) = <<>>
  BY <1>1, ListReads, ConstantParts, UnusedIsOrdered
<1>3. EntriesOfList(f, <<>>) = {}
  BY DEF EntriesOfList, ToSet
<1>4. EntriesAt(f, header[f], block) = {}
  BY <1>2, <1>3 DEF EntriesAt
<1>5. QED
  BY <1>4, NamesApart

\* CreateDirectory makes a header that nothing names yet.
LEMMA NamesAtCreateDirectory ==
    ASSUME TypeInv, TypeInv', LeftInv, NameInv,
           NEW d \in Directories, NEW n \in Names, NEW f \in Subdirectories, CreateDirectory(d, n, f)
    PROVE  NameInv'
<1> DEFINE A == AllOf(header, block)
<1>1. PICK p \in Place, c \in Call :
              /\ p.dir = d /\ Opens(d)
              /\ c.kind = "createdir" /\ c.new = p /\ c.fid = f
              /\ IsRewriting(call', c, f, <<>>, "insert")
              /\ call'.phase = "relocate"
              /\ header' = [header EXCEPT ![f] = NewHeader(p)]
  BY CreateDirectoryDoes
<1>2. call = NoCall /\ UNCHANGED <<block, failed>> /\ Fresh(f)
  BY DEF CreateDirectory, Idle, Begin
<1>3. SUFFICES ASSUME Whole
               PROVE  Knows(header', call', Now(header', block', call'), Goal(header', block', call'), NamesUntouched')
  BY <1>2 DEF NameInv, Whole
<1>21. header[d].live
  BY <1>1, <1>2, <1>3, OpenedAreLive
<1>4. ~Writing(call) /\ Stage(call) = "none" /\ NamesIn(A, header, call, NamesUntouched)
  BY <1>2, <1>3, NamesWhenIdle
<1>5. f \in Fids /\ f # Root /\ f \in Directories
  BY <1>2 DEF Fids, Directories, Fresh
<1>6. /\ header'[f].live /\ header'[f].link = p /\ header'[f].used = 0
      /\ \A g \in Fids \ {f} : header'[g] = header[g]
  BY <1>1, <1>5, NewHeaders DEF TypeInv
<1>7. header[f].used = 0
  <2>1. header[f].extent = NoExtent /\ header[f] \in Header
    BY <1>2, <1>5 DEF Fresh, TypeInv
  <2>2. header[f].extent.count = 0
    BY <2>1 DEF NoExtent
  <2>3. QED
    BY <2>1, <2>2, HeaderParts
<1>8. EntriesAt(f, header[f], block) = {} /\ \A x \in A : x.dir # f
  BY <1>5, <1>7, EmptyDirectories
<1>9. \A x \in Directories : EntriesAt(x, header'[x], block') = EntriesAt(x, header[x], block)
  <2>1. TAKE x \in Directories
  <2>2. CASE x = f
    BY <1>5, <1>6, <1>8, <2>2, EntriesStay
  <2>3. CASE x # f
    <3>1. header'[x] = header[x] /\ block' = block
      BY <1>2, <1>6, <2>3, ConstantParts
    <3>2. QED
      BY <3>1
  <2>4. QED
    BY <2>2, <2>3
<1>10. AllOf(header', block') = A
  BY <1>9 DEF AllOf
<1>11. InHand(call') = {}
  <2>1. <<>> \in Seq(Entry) /\ call'.blocks = Pack(<<>>)
    BY <1>1 DEF IsRewriting
  <2>2. InHand(call') = EntriesOfList(call'.dir, <<>>)
    BY <2>1, InHandIs
  <2>3. EntriesOfList(call'.dir, <<>>) = {}
    BY DEF EntriesOfList, ToSet
  <2>4. QED
    BY <2>2, <2>3
<1>12. /\ Stage(call') = "insert" /\ call'.kind = "createdir" /\ call'.dir = f /\ call'.fid = f /\ call'.new = p
       /\ Writing(call') /\ Pending(call') /\ call'.phase = "relocate"
  BY <1>1 DEF IsRewriting, Stage, Writing, Pending
<1> HIDE DEF A
<1>13. Goal(header', block', call') = A /\ Now(header', block', call') = A
  BY <1>8, <1>10, <1>11, <1>12 DEF Goal, Now
<1>14. Absent(A, f)
  BY <1>2, AllAre DEF Fresh, Absent, A
<1>15. NamesIn(A, header', call', NamesUntouched)
  BY <1>4, <1>6, <1>12, <1>14, NamesOfOthers
<1>16. header'[d].live
  BY <1>1, <1>6, <1>21, ConstantParts
<1>17. Making(header', call', A, A)
  BY <1>1, <1>5, <1>6, <1>8, <1>12, <1>16 DEF Making
<1>18. CallKnows(header', call', A, A, NamesUntouched)
  BY <1>6, <1>12, <1>14, <1>17 DEF CallKnows
<1>19. NamesUntouched' = NamesUntouched
  BY <1>2 DEF NamesUntouched
<1>20. QED
  BY <1>13, <1>15, <1>18, <1>19 DEF Knows

\* A file that can be deleted has no entries, if it is a directory.
LEMMA DeletedAreEmpty ==
    ASSUME TypeInv, NEW f \in Fids, Deletable(f)
    PROVE  f # Root /\ \A x \in AllOf(header, block) : x.dir # f
<1>1. CASE f \in Subdirectories
  <2>1. f \in Directories /\ List(f) = <<>>
    BY <1>1 DEF Deletable, Directories
  <2>2. QED
    BY <2>1, EmptyDirectories DEF Deletable
<1>2. CASE f \notin Subdirectories
  <2>1. f \notin Directories
    BY <1>2 DEF Deletable, Directories
  <2>2. QED
    BY <2>1, NamesApart DEF Deletable
<1>3. QED
  BY <1>1, <1>2

\* A name that goes, with the file it is of.
LEMMA OneNameLess ==
    ASSUME NEW T, NEW hd, NEW c, NEW b, NEW kept, NamesIn(T, hd, c, kept), NEW E \in T,
           Stage(c) # "name", Stage(b) # "name"
    PROVE  /\ NamesIn(T, hd, b, kept) /\ NamesIn(T \ {E}, hd, b, kept) /\ Absent(T \ {E}, E.fid)
           /\ E \in Known /\ hd[E.fid].live /\ E.fid # Root
           /\ kept => hd[E.fid].link = PlaceOf(E)
BY DEF NamesIn, Absent

\* DeleteFile takes away the only name of a file without entries.
LEMMA NamesAtDeleteFile ==
    ASSUME TypeInv, TypeInv', LeftInv, OrderInv, NameInv,
           NEW d \in Directories, NEW e \in ToSet(List(d)), DeleteFile(d, e)
    PROVE  NameInv'
<1> DEFINE A == AllOf(header, block)
           E == EntryOf(d, e)
<1>1. PICK c \in Call :
              /\ Opens(d) /\ Deletable(e.fid)
              /\ c.kind = "delete" /\ c.victim = e.fid
              /\ IsRewriting(call', c, d, Without(List(d), d, At(e, d)), "free")
              /\ call'.phase = "write" /\ UNCHANGED header
  BY DeleteFileDoes
<1>2. call = NoCall /\ UNCHANGED <<block, failed>>
  BY DEF DeleteFile, Idle, Begin
<1>3. SUFFICES ASSUME Whole
               PROVE  Knows(header', call', Now(header', block', call'), Goal(header', block', call'), NamesUntouched')
  BY <1>2 DEF NameInv, Whole
<1>4. ~Writing(call) /\ Stage(call) = "none" /\ NamesIn(A, header, call, NamesUntouched)
  BY <1>2, <1>3, NamesWhenIdle
<1>5. header[d].live
  BY <1>1, <1>2, <1>3, OpenedAreLive
<1>6. /\ AllOf(header', block') = A /\ E \in A
      /\ Goal(header', block', call') = A \ {E}
      /\ Pending(call') /\ Writing(call')
  BY <1>1, <1>2, <1>3, <1>4, <1>5, GoalAtRemoval
<1>7. Now(header', block', call') = A
  BY <1>6 DEF Now
<1>8. Stage(call') = "free" /\ call'.kind = "delete" /\ call'.dir = d /\ call'.victim = e.fid /\ call'.phase # "none"
  BY <1>1, <1>6 DEF IsRewriting, Stage
<1>9. e.fid \in Fids /\ E.fid = e.fid
  BY ListedAreEntries, ConstantParts DEF EntryOf
<1>10. \A x \in A : x.dir # e.fid
  BY <1>1, <1>9, DeletedAreEmpty
<1> HIDE DEF A, E
<1>11. NamesIn(A, header', call', NamesUntouched) /\ NamesIn(A \ {E}, header', call', NamesUntouched) /\ Absent(A \ {E}, E.fid)
  BY <1>1, <1>4, <1>6, <1>8, OneNameLess
<1>12. CallKnows(header', call', A, A \ {E}, NamesUntouched)
  BY <1>1, <1>5, <1>8, <1>9, <1>10, <1>11 DEF CallKnows, Absent
<1>13. NamesUntouched' = NamesUntouched
  BY <1>2 DEF NamesUntouched
<1>14. QED
  BY <1>6, <1>7, <1>11, <1>12, <1>13 DEF Knows

\* Rename takes away the only name of its file, whose header has it still.
LEMMA NamesAtRename ==
    ASSUME TypeInv, TypeInv', LeftInv, OrderInv, NameInv,
           NEW d \in Directories, NEW t \in Directories, NEW n \in Names, NEW version \in Versions \cup {0},
           NEW e \in ToSet(List(d)), Rename(d, e, t, n, version)
    PROVE  NameInv'
<1> DEFINE A == AllOf(header, block)
           E == EntryOf(d, e)
<1>1. PICK q \in Target, c \in Call :
              /\ Opens(d)
              /\ c.kind = "rename" /\ c.old = At(e, d) /\ c.fid = e.fid
              /\ IsRewriting(call', c, d, Without(List(d), d, At(e, d)), "enter")
              /\ call'.phase = "write" /\ UNCHANGED header
  BY RenameDoes
<1>2. call = NoCall /\ UNCHANGED <<block, failed>>
  BY DEF Rename, Idle, Begin
<1>3. SUFFICES ASSUME Whole
               PROVE  Knows(header', call', Now(header', block', call'), Goal(header', block', call'), NamesUntouched')
  BY <1>2 DEF NameInv, Whole
<1>4. ~Writing(call) /\ Stage(call) = "none" /\ NamesIn(A, header, call, NamesUntouched)
  BY <1>2, <1>3, NamesWhenIdle
<1>5. header[d].live
  BY <1>1, <1>2, <1>3, OpenedAreLive
<1>6. /\ AllOf(header', block') = A /\ E \in A
      /\ Goal(header', block', call') = A \ {E}
      /\ Pending(call') /\ Writing(call')
  BY <1>1, <1>2, <1>3, <1>4, <1>5, GoalAtRemoval
<1>7. Now(header', block', call') = A
  BY <1>6 DEF Now
<1>8. /\ Stage(call') = "enter" /\ call'.kind = "rename" /\ call'.dir = d /\ call'.phase # "none"
      /\ call'.fid = e.fid /\ call'.old = At(e, d)
  BY <1>1, <1>6 DEF IsRewriting, Stage
<1>9. E.fid = e.fid /\ PlaceOf(E) = At(e, d) /\ At(e, d).dir = d
  BY DEF EntryOf, PlaceOf, At
<1> HIDE DEF A, E
<1>10. /\ NamesIn(A, header', call', NamesUntouched) /\ NamesIn(A \ {E}, header', call', NamesUntouched) /\ Absent(A \ {E}, E.fid)
       /\ header'[E.fid].live /\ E.fid # Root
       /\ NamesUntouched => header'[E.fid].link = PlaceOf(E)
  <2>1. NamesIn(A, header', call, NamesUntouched)
    BY <1>1, <1>4
  <2>2. Stage(call) # "name" /\ Stage(call') # "name"
    BY <1>4, <1>8
  <2>3. NamesIn(A, header', call', NamesUntouched) /\ NamesIn(A \ {E}, header', call', NamesUntouched) /\ Absent(A \ {E}, E.fid)
    BY <1>6, <2>1, <2>2, OneNameLess
  <2>4. /\ header'[E.fid].live /\ E.fid # Root
        /\ NamesUntouched => header'[E.fid].link = PlaceOf(E)
    BY <1>6, <2>1, <2>2 DEF NamesIn
  <2>5. QED
    BY <2>3, <2>4
<1>11. Leaving(header', call', NamesUntouched)
  BY <1>1, <1>5, <1>8, <1>9, <1>10 DEF Leaving
<1>12. CallKnows(header', call', A, A \ {E}, NamesUntouched)
  BY <1>1, <1>5, <1>8, <1>9, <1>10, <1>11 DEF CallKnows
<1>13. NamesUntouched' = NamesUntouched
  BY <1>2 DEF NamesUntouched
<1>14. QED
  BY <1>6, <1>7, <1>10, <1>12, <1>13 DEF Knows

\* What is known between the rewritings of a call.
LEMMA NamesBetween ==
    ASSUME NameInv, Whole, ~Writing(call)
    PROVE  /\ NamesIn(AllOf(header, block), header, call, NamesUntouched)
           /\ CallKnows(header, call, AllOf(header, block), AllOf(header, block), NamesUntouched)
           /\ Stage(call) = call.phase
BY QuietNames DEF NameInv, Knows

\* A complete directory is entered where its header says.
LEMMA NamesAtEnterDirectory ==
    ASSUME TypeInv, TypeInv', OrderInv, NameInv, EnterDirectory
    PROVE  NameInv'
<1> DEFINE A == AllOf(header, block)
<1>1. /\ call.kind = "createdir" /\ call.new \in Place /\ UNCHANGED header
      /\ IsRewriting(call', call, call.new.dir, Append(List(call.new.dir), EntryFor(call, call.new)), "none")
      /\ FitsOrMoves(call', header[call.new.dir])
  BY EnterDirectoryDoes
<1>2. call.phase = "insert" /\ UNCHANGED <<block, failed>>
  BY DEF EnterDirectory
<1>3. SUFFICES ASSUME Whole
               PROVE  Knows(header', call', Now(header', block', call'), Goal(header', block', call'), NamesUntouched')
  BY <1>2 DEF NameInv, Whole
<1>4. PICK p \in Place, f \in Fids : p = call.new /\ f = call.fid
  BY <1>1, CallParts DEF TypeInv
<1>5. ~Writing(call)
  BY <1>2 DEF Writing
<1>6. /\ NamesIn(A, header, call, NamesUntouched) /\ CallKnows(header, call, A, A, NamesUntouched)
      /\ Stage(call) = "insert"
  BY <1>2, <1>3, <1>5, NamesBetween
<1>7. Making(header, call, A, A) /\ Absent(A, f)
  BY <1>1, <1>4, <1>6 DEF CallKnows
<1>8. header[f].live /\ f # Root /\ header[f].link = p /\ header[p.dir].live /\ \A x \in A : x.dir # f
  BY <1>4, <1>7 DEF Making
<1>9. p.dir # f
  BY <1>2, <1>3, <1>4 DEF OrderInv, EntersNew
<1>10. call'.phase \in {"write", "relocate"}
  BY <1>1 DEF FitsOrMoves
<1>11. IsRewriting(call', call, p.dir, Append(List(p.dir), EntryFor(call, p)), "none") /\ call \in Call
  BY <1>1, <1>4 DEF TypeInv
<1>12. \A d \in Directories : EntriesAt(d, header'[d], block) = EntriesAt(d, header[d], block)
  BY <1>1
<1>13. /\ AllOf(header', block') = A
       /\ Goal(header', block', call') = A \cup {Named(p, call.fid)}
       /\ Pending(call') /\ Writing(call')
  BY <1>2, <1>5, <1>8, <1>10, <1>11, <1>12, GoalAtInsertion
<1>14. Now(header', block', call') = A
  BY <1>13 DEF Now
<1>15. /\ Stage(call') = "none" /\ call'.kind = "createdir" /\ call'.dir = p.dir /\ call'.phase # "none"
       /\ call'.fid = f /\ call'.new = p
  BY <1>1, <1>4, <1>10, <1>11, <1>13 DEF IsRewriting, Stage
<1>16. Named(p, f).dir = p.dir
  BY DEF Named
<1> HIDE DEF A
<1>17. NamesIn(A, header', call', NamesUntouched)
  BY <1>1, <1>6, <1>15 DEF NamesIn
<1>18. NamesIn(A \cup {Named(p, f)}, header', call', NamesUntouched)
  BY <1>1, <1>7, <1>8, <1>15, <1>17, OneNameMore
<1>19. Making(header', call', A, A \cup {Named(p, f)})
  BY <1>1, <1>8, <1>9, <1>15, <1>16 DEF Making
<1>20. CallKnows(header', call', A, A \cup {Named(p, f)}, NamesUntouched)
  BY <1>1, <1>7, <1>8, <1>15, <1>19 DEF CallKnows
<1>21. NamesUntouched' = NamesUntouched
  BY <1>2 DEF NamesUntouched
<1>22. QED
  BY <1>4, <1>13, <1>14, <1>17, <1>18, <1>20, <1>21 DEF Knows

\* Rename enters the new name, and the header is still to be written.
LEMMA NamesAtEnter ==
    ASSUME TypeInv, TypeInv', LeftInv, NameInv, Enter
    PROVE  NameInv'
<1> DEFINE A == AllOf(header, block)
<1>1. PICK p \in Place, c \in Call :
              /\ p.dir = call.new.dir /\ MayInsert(p) /\ UNCHANGED header
              /\ c.kind = "rename" /\ c.old = call.old /\ c.new = p /\ c.fid = call.fid
              /\ IsRewriting(call', c, p.dir, Append(List(p.dir), EntryFor(c, p)), "name")
              /\ FitsOrMoves(call', header[p.dir])
  BY EnterDoes
<1>2. call.phase = "enter" /\ UNCHANGED <<block, failed>>
  BY DEF Enter
<1>3. SUFFICES ASSUME Whole
               PROVE  Knows(header', call', Now(header', block', call'), Goal(header', block', call'), NamesUntouched')
  BY <1>2 DEF NameInv, Whole
<1>4. PICK f \in Fids : f = call.fid
  BY CallParts DEF TypeInv
<1>5. ~Writing(call)
  BY <1>2 DEF Writing
<1>6. /\ NamesIn(A, header, call, NamesUntouched) /\ CallKnows(header, call, A, A, NamesUntouched)
      /\ Stage(call) = "enter"
  BY <1>2, <1>3, <1>5, NamesBetween
<1>7. Leaving(header, call, NamesUntouched) /\ Absent(A, f)
  BY <1>4, <1>6 DEF CallKnows
<1>8. /\ header[f].live /\ f # Root /\ header[call.old.dir].live /\ header[p.dir].live
      /\ NamesUntouched => header[f].link = call.old
  <2>1. ~header[p.dir].left
    BY <1>1, <1>3 DEF LeftInv, AtHand
  <2>2. QED
    BY <1>1, <1>4, <1>7, <2>1 DEF Leaving, MayInsert, Readable, IsThere
<1>9. call'.phase \in {"write", "relocate"}
  BY <1>1 DEF FitsOrMoves
<1>10. \A d \in Directories : EntriesAt(d, header'[d], block) = EntriesAt(d, header[d], block)
  BY <1>1
<1>11. /\ AllOf(header', block') = A
       /\ Goal(header', block', call') = A \cup {Named(p, c.fid)}
       /\ Pending(call') /\ Writing(call')
  BY <1>1, <1>2, <1>5, <1>8, <1>9, <1>10, GoalAtInsertion
<1>12. Now(header', block', call') = A
  BY <1>11 DEF Now
<1>13. /\ Stage(call') = "name" /\ call'.kind = "rename" /\ call'.dir = p.dir /\ call'.phase # "none"
       /\ call'.fid = f /\ call'.new = p /\ call'.old = call.old
  BY <1>1, <1>4, <1>9, <1>11 DEF IsRewriting, Stage
<1>14. PlaceOf(Named(p, f)) = p
  BY DEF Named, PlaceOf, Place
<1> HIDE DEF A
<1>15. NamesIn(A, header', call', NamesUntouched)
  BY <1>1, <1>6, <1>7, <1>13 DEF NamesIn, Absent
<1>16. NamesIn(A \cup {Named(p, f)}, header', call', NamesUntouched)
  BY <1>1, <1>7, <1>8, <1>13, <1>15, OneNameMore
<1>17. Leaving(header', call', NamesUntouched)
  BY <1>1, <1>8, <1>13 DEF Leaving
<1>18. \A x \in A \cup {Named(p, f)} : x.fid = f => PlaceOf(x) = p
  BY <1>7, <1>14 DEF Absent
<1>19. CallKnows(header', call', A, A \cup {Named(p, f)}, NamesUntouched)
  BY <1>1, <1>7, <1>8, <1>13, <1>17, <1>18 DEF CallKnows
<1>20. NamesUntouched' = NamesUntouched
  BY <1>2 DEF NamesUntouched
<1>21. c.fid = f
  BY <1>1, <1>4
<1>22. QED
  BY <1>11, <1>12, <1>15, <1>16, <1>19, <1>20, <1>21 DEF Knows

\* Or puts the old one back, which the header has.
LEMMA NamesAtRestore ==
    ASSUME TypeInv, TypeInv', NameInv, Restore
    PROVE  NameInv'
<1> DEFINE A == AllOf(header, block)
<1>1. /\ call.kind = "rename" /\ call.old \in Place /\ UNCHANGED header
      /\ IsRewriting(call', call, call.old.dir, Append(List(call.old.dir), EntryFor(call, call.old)), "none")
      /\ FitsOrMoves(call', header[call.old.dir])
  BY RestoreDoes
<1>2. call.phase = "restore" /\ UNCHANGED <<block, failed>>
  BY DEF Restore
<1>3. SUFFICES ASSUME Whole
               PROVE  Knows(header', call', Now(header', block', call'), Goal(header', block', call'), NamesUntouched')
  BY <1>2 DEF NameInv, Whole
<1>4. PICK p \in Place, f \in Fids : p = call.old /\ f = call.fid
  BY <1>1, CallParts DEF TypeInv
<1>5. ~Writing(call)
  BY <1>2 DEF Writing
<1>6. /\ NamesIn(A, header, call, NamesUntouched) /\ CallKnows(header, call, A, A, NamesUntouched)
      /\ Stage(call) = "restore"
  BY <1>2, <1>3, <1>5, NamesBetween
<1>7. Leaving(header, call, NamesUntouched) /\ Absent(A, f)
  BY <1>4, <1>6 DEF CallKnows
<1>8. /\ header[f].live /\ f # Root /\ header[p.dir].live
      /\ NamesUntouched => header[f].link = p
  BY <1>4, <1>7 DEF Leaving
<1>9. call'.phase \in {"write", "relocate"}
  BY <1>1 DEF FitsOrMoves
<1>10. IsRewriting(call', call, p.dir, Append(List(p.dir), EntryFor(call, p)), "none") /\ call \in Call
  BY <1>1, <1>4 DEF TypeInv
<1>11. \A d \in Directories : EntriesAt(d, header'[d], block) = EntriesAt(d, header[d], block)
  BY <1>1
<1>12. /\ AllOf(header', block') = A
       /\ Goal(header', block', call') = A \cup {Named(p, call.fid)}
       /\ Pending(call') /\ Writing(call')
  BY <1>2, <1>5, <1>8, <1>9, <1>10, <1>11, GoalAtInsertion
<1>13. Now(header', block', call') = A
  BY <1>12 DEF Now
<1>14. /\ Stage(call') = "none" /\ call'.kind = "rename" /\ call'.dir = p.dir /\ call'.phase # "none"
       /\ call'.fid = f
  BY <1>1, <1>4, <1>9, <1>10, <1>12 DEF IsRewriting, Stage
<1> HIDE DEF A
<1>15. NamesIn(A, header', call', NamesUntouched)
  BY <1>1, <1>6, <1>14 DEF NamesIn
<1>16. NamesIn(A \cup {Named(p, f)}, header', call', NamesUntouched)
  BY <1>1, <1>7, <1>8, <1>14, <1>15, OneNameMore
<1>17. CallKnows(header', call', A, A \cup {Named(p, f)}, NamesUntouched)
  BY <1>1, <1>7, <1>8, <1>14 DEF CallKnows
<1>18. NamesUntouched' = NamesUntouched
  BY <1>2 DEF NamesUntouched
<1>19. QED
  BY <1>4, <1>12, <1>13, <1>15, <1>16, <1>17, <1>18 DEF Knows

\* A version too many goes, with its only name.
LEMMA NamesAtPurge ==
    ASSUME TypeInv, TypeInv', LeftInv, OrderInv, NameInv, Purge
    PROVE  NameInv'
<1> DEFINE A == AllOf(header, block)
<1>1. PICK d \in Directories : d = call.new.dir
  BY CallParts, ConstantParts DEF TypeInv
<1>2. PICK e \in VersionsIn(d, call.new.name), c \in Call :
              /\ Readable(d) /\ Deletable(e.fid)
              /\ c.kind = call.kind /\ c.victim = e.fid
              /\ IsRewriting(call', c, d, Without(List(d), d, At(e, d)), "free")
              /\ call'.phase = "write" /\ UNCHANGED header
  BY <1>1, PurgeDoes
<1> DEFINE E == EntryOf(d, e)
<1>3. call.phase = "purge" /\ UNCHANGED <<block, failed>>
  BY DEF Purge
<1>4. SUFFICES ASSUME Whole
               PROVE  Knows(header', call', Now(header', block', call'), Goal(header', block', call'), NamesUntouched')
  BY <1>3 DEF NameInv, Whole
<1>5. ~Writing(call)
  BY <1>3 DEF Writing
<1>6. /\ NamesIn(A, header, call, NamesUntouched) /\ CallKnows(header, call, A, A, NamesUntouched)
      /\ Stage(call) = "purge"
  BY <1>3, <1>4, <1>5, NamesBetween
<1>7. header[d].live /\ e \in ToSet(List(d))
  <2>1. ~header[d].left
    BY <1>1, <1>4 DEF LeftInv, AtHand
  <2>2. QED
    BY <1>2, <2>1 DEF Readable, IsThere, VersionsIn
<1>8. /\ AllOf(header', block') = A /\ E \in A
      /\ Goal(header', block', call') = A \ {E}
      /\ Pending(call') /\ Writing(call')
  BY <1>2, <1>3, <1>4, <1>5, <1>7, GoalAtRemoval
<1>9. Now(header', block', call') = A
  BY <1>8 DEF Now
<1>10. call.kind # "createdir"
  BY <1>6 DEF CallKnows, Making
<1>11. Stage(call') = "free" /\ call'.kind # "createdir" /\ call'.dir = d /\ call'.victim = e.fid /\ call'.phase # "none"
  BY <1>2, <1>8, <1>10 DEF IsRewriting, Stage
<1>12. e.fid \in Fids /\ E.fid = e.fid
  BY <1>7, ListedAreEntries, ConstantParts DEF EntryOf
<1>13. \A x \in A : x.dir # e.fid
  BY <1>2, <1>12, DeletedAreEmpty
<1> HIDE DEF A, E
<1>14. NamesIn(A, header', call', NamesUntouched) /\ NamesIn(A \ {E}, header', call', NamesUntouched) /\ Absent(A \ {E}, E.fid)
  <2>1. NamesIn(A, header', call, NamesUntouched) /\ Stage(call) # "name" /\ Stage(call') # "name"
    BY <1>2, <1>6, <1>11
  <2>2. QED
    BY <1>8, <2>1, OneNameLess
<1>15. CallKnows(header', call', A, A \ {E}, NamesUntouched)
  BY <1>2, <1>7, <1>11, <1>12, <1>13, <1>14 DEF CallKnows, Absent
<1>16. NamesUntouched' = NamesUntouched
  BY <1>3 DEF NamesUntouched
<1>17. QED
  BY <1>8, <1>9, <1>14, <1>15, <1>16 DEF Knows

\* While a directory is rewritten.
LEMMA WritingOn ==
    ASSUME NameInv, UNCHANGED failed, Writing(call), Writing(call'), ~Pending(call'),
           call'.kind = call.kind, call'.old = call.old, call'.new = call.new, call'.fid = call.fid,
           call'.victim = call.victim, call'.dir = call.dir, call'.next = call.next,
           \A f \in Fids : header'[f].live = header[f].live /\ header'[f].link = header[f].link,
           TypeInv,
           Whole => Goal(header', block', call') = Goal(header, block, call)
    PROVE  NameInv'
<1> DEFINE G == Goal(header, block, call)
           N == Now(header, block, call)
<1>1. SUFFICES ASSUME Whole
               PROVE  Knows(header', call', Now(header', block', call'), Goal(header', block', call'), NamesUntouched')
  BY DEF NameInv, Whole
<1>2. NamesIn(G, header, call, NamesUntouched) /\ CallKnows(header, call, N, G, NamesUntouched)
  BY <1>1 DEF NameInv, Knows
<1>3. Now(header', block', call') = G /\ Goal(header', block', call') = G
  BY <1>1 DEF Now
<1>4. Stage(call') = Stage(call) /\ call'.phase # "none"
  BY DEF Stage, Writing
<1> HIDE DEF G, N
<1>5. NamesIn(G, header', call', NamesUntouched)
  BY <1>2, <1>4, NamesStay
<1>6. PICK f \in Fids, d \in Fids, p \in Fids, q \in Fids : f = call.fid /\ d = call.dir /\ p = call.old.dir /\ q = call.new.dir
  BY CallParts, ConstantParts DEF TypeInv
<1>7. /\ header'[f].live = header[f].live /\ header'[f].link = header[f].link
      /\ header'[d].live = header[d].live /\ header'[p].live = header[p].live /\ header'[q].live = header[q].live
  OBVIOUS
<1>8. Making(header, call, N, G) => Making(header', call', G, G)
  BY <1>4, <1>6, <1>7 DEF Making
<1>9. Leaving(header, call, NamesUntouched) => Leaving(header', call', NamesUntouched)
  BY <1>6, <1>7 DEF Leaving
<1>10. CallKnows(header', call', G, G, NamesUntouched)
  BY <1>2, <1>4, <1>6, <1>7, <1>8, <1>9 DEF CallKnows
<1>11. NamesUntouched' = NamesUntouched
  BY DEF NamesUntouched
<1>12. QED
  BY <1>3, <1>5, <1>10, <1>11 DEF Knows, G

\* A directory moves.
LEMMA NamesAtRelocate ==
    ASSUME TypeInv, TypeInv', SpaceInv, NameInv, Relocate
    PROVE  NameInv'
<1>1. PICK run \in GoodExtent :
              /\ call.phase = "relocate" /\ call.dir \in Fids
              /\ header'[call.dir].live = header[call.dir].live /\ header'[call.dir].link = header[call.dir].link
              /\ \A f \in Fids \ {call.dir} : header'[f] = header[f]
              /\ call' \in Call /\ call'.phase = "write" /\ call'.moved
              /\ call'.kind = call.kind /\ call'.old = call.old /\ call'.new = call.new /\ call'.fid = call.fid
              /\ call'.victim = call.victim /\ call'.dir = call.dir /\ call'.next = call.next
              /\ UNCHANGED failed
  BY RelocateDoes
<1>2. Whole => Goal(header', block', call') = Goal(header, block, call)
  BY RelocateKeepsGoal
<1>3. Writing(call) /\ Writing(call') /\ ~Pending(call')
  BY <1>1 DEF Writing, Pending
<1>4. \A f \in Fids : header'[f].live = header[f].live /\ header'[f].link = header[f].link
  BY <1>1
<1>5. QED
  BY <1>1, <1>2, <1>3, <1>4, WritingOn

\* One of its blocks is written.
LEMMA NamesAtWriteBlock ==
    ASSUME TypeInv, TypeInv', LeftInv, SpaceInv, OrderInv, NameInv, WriteBlock
    PROVE  NameInv'
<1>1. call.phase = "write" /\ UNCHANGED <<header, failed>>
  BY WriteBlockDoes
<1>2. CASE call' = AfterError /\ UNCHANGED block /\ call.written + 1 > header[call.dir].extent.count
  <2>1. ~Whole
    <3>1. SUFFICES ASSUME Whole PROVE FALSE
      OBVIOUS
    <3>2. Len(call.blocks) <= header[call.dir].extent.count /\ call.written + 1 <= Len(call.blocks)
      BY <1>1, <3>1 DEF OrderInv, WriteBlock
    <3>3. PICK m \in Nat, w \in Nat, x \in Nat :
              m = Len(call.blocks) /\ w = call.written /\ x = header[call.dir].extent.count
      BY CallParts, BlocksRead, ConstantParts DEF TypeInv
    <3>4. m <= x /\ w + 1 <= m /\ w + 1 > x
      BY <1>2, <3>2, <3>3
    <3>5. QED
      BY <3>4
  <2>2. QED
    BY <1>1, <2>1 DEF NameInv, Whole
<1>3. ASSUME NEW c \in ClustersOf(header[call.dir].extent), NEW v \in Nat, v = call.written + 1, v > 0,
             block' = [block EXCEPT ![c] = DirectoryBlock(call.blocks[v])],
             call'.written = v, call'.phase = IF v = Len(call.blocks) THEN "record" ELSE "write",
             call'.kind = call.kind, call'.old = call.old, call'.new = call.new, call'.fid = call.fid,
             call'.victim = call.victim, call'.dir = call.dir, call'.blocks = call.blocks, call'.next = call.next
      PROVE  NameInv'
  <2>1. call'.phase \in {"record", "write"}
    BY <1>3
  <2>2. Whole => Goal(header', block', call') = Goal(header, block, call)
    BY <1>1, <1>3, <2>1, WriteBlockKeepsGoal
  <2>3. Writing(call) /\ Writing(call') /\ ~Pending(call')
    BY <1>1, <1>3, <2>1 DEF Writing, Pending
  <2>4. \A f \in Fids : header'[f].live = header[f].live /\ header'[f].link = header[f].link
    BY <1>1
  <2>5. QED
    BY <1>1, <1>3, <2>2, <2>3, <2>4, WritingOn
<1>4. call.written + 1 \in Nat /\ call.written + 1 > 0
  BY CallParts DEF TypeInv
<1>5. QED
  BY <1>2, <1>3, <1>4, WriteBlockDoes

\* Its header is written.
LEMMA NamesAtRecordUsed ==
    ASSUME TypeInv, TypeInv', WrittenInv, OrderInv, NameInv, RecordUsed
    PROVE  NameInv'
<1> DEFINE G == Goal(header, block, call)
<1>1. /\ call.phase = "record" /\ call.dir \in Fids /\ UNCHANGED failed
      /\ header'[call.dir].live = header[call.dir].live /\ header'[call.dir].link = header[call.dir].link
      /\ \A f \in Fids \ {call.dir} : header'[f] = header[f]
      /\ \/ call.next = "none" /\ call' = NoCall
         \/ call.next # "none" /\ call' \in Call /\ call'.phase = call.next /\ SameBut(call', call)
  BY RecordUsedDoes
<1>2. SUFFICES ASSUME Whole
               PROVE  Knows(header', call', Now(header', block', call'), Goal(header', block', call'), NamesUntouched')
  BY <1>1 DEF NameInv, Whole
<1>3. Writing(call) /\ ~Pending(call) /\ Stage(call) = call.next
  BY <1>1 DEF Writing, Pending, Stage
<1>4. Now(header, block, call) = G
  BY <1>3 DEF Now
<1>5. NamesIn(G, header, call, NamesUntouched) /\ CallKnows(header, call, G, G, NamesUntouched)
  BY <1>2, <1>4 DEF NameInv, Knows
<1>6. header[call.dir].live
  BY <1>3, <1>5 DEF CallKnows
<1>7. AllOf(header', block') = G /\ Goal(header', block', call') = G /\ ~Writing(call')
  BY <1>2, <1>6, RecordUsedReachesGoal
<1>8. Now(header', block', call') = G
  BY <1>7 DEF Now
<1>9. \A f \in Fids : header'[f].live = header[f].live /\ header'[f].link = header[f].link
  BY <1>1
<1>10. NamesUntouched' = NamesUntouched
  BY <1>1 DEF NamesUntouched
<1> HIDE DEF G
<1>11. CASE call.next = "none" /\ call' = NoCall
  <2>1. NamesIn(G, header', call, NamesUntouched)
    BY <1>5, <1>9, NamesStay
  <2>2. Stage(call) # "name"
    BY <1>3, <1>11
  <2>3. Knows(header', NoCall, G, G, NamesUntouched)
    BY <2>1, <2>2, NoCallKnows
  <2>4. QED
    BY <1>7, <1>8, <1>10, <1>11, <2>3
<1>12. CASE call.next # "none" /\ call'.phase = call.next /\ SameBut(call', call)
  <2>1. /\ call'.kind = call.kind /\ call'.old = call.old /\ call'.new = call.new /\ call'.fid = call.fid
        /\ call'.victim = call.victim /\ Stage(call') = call.next /\ call'.phase # "none"
    BY <1>7, <1>12 DEF SameBut, Stage
  <2>2. NamesIn(G, header', call', NamesUntouched)
    BY <1>3, <1>5, <1>9, <2>1, NamesStay
  <2>3. PICK f \in Fids, p \in Fids, q \in Fids : f = call.fid /\ p = call.old.dir /\ q = call.new.dir
    BY CallParts, ConstantParts DEF TypeInv
  <2>4. /\ header'[f].live = header[f].live /\ header'[f].link = header[f].link
        /\ header'[p].live = header[p].live /\ header'[q].live = header[q].live
    BY <1>9
  <2>5. Making(header, call, G, G) => Making(header', call', G, G)
    BY <1>3, <2>1, <2>3, <2>4 DEF Making
  <2>6. Leaving(header, call, NamesUntouched) => Leaving(header', call', NamesUntouched)
    BY <2>1, <2>3, <2>4 DEF Leaving
  <2>7. ~Pending(call')
    BY <1>7 DEF Pending, Writing
  <2>8. CallKnows(header', call', G, G, NamesUntouched)
    BY <1>3, <1>5, <1>7, <2>1, <2>5, <2>6, <2>7 DEF CallKnows
  <2>9. QED
    BY <1>7, <1>8, <1>10, <2>2, <2>8 DEF Knows
<1>13. QED
  BY <1>1, <1>11, <1>12

\* A write that fails before any name has changed, and an error that leaves no
\* directory half written.
LEMMA FailuresAreEarly ==
    ASSUME TypeInv, ReadInv, WrittenInv, NoRun \/ RelocateFails \/ WriteFails \/ RecordFails, Whole'
    PROVE  /\ UNCHANGED <<header, block>> /\ call' = AfterError /\ failed \subseteq failed'
           /\ Whole /\ Writing(call)
           /\ Pending(call) \/ (call.next = "insert" /\ call.dir = call.fid /\ header[call.dir].used = 0)
<1>1. /\ UNCHANGED <<header, block>> /\ call' = AfterError /\ failed \subseteq failed'
      /\ call.phase \in {"relocate", "write", "record"}
  BY DEF NoRun, RelocateFails, WriteFails, RecordFails, Fails
<1>2. Whole
  BY <1>1 DEF Whole
<1>3. ASSUME WriteFails \/ RecordFails
      PROVE  NothingDone
  <2>1. failed' = failed \cup {WhichWrite}
    BY <1>3 DEF WriteFails, RecordFails, Fails
  <2>2. WhichWrite \notin {"used", "moved", "later"}
    BY <2>1 DEF Whole
  <2>3. QED
    BY <2>2 DEF WhichWrite
<1>4. ASSUME NothingDone
      PROVE  Pending(call) \/ (call.next = "insert" /\ call.dir = call.fid /\ header[call.dir].used = 0)
  <2>1. CASE call.next = "insert"
    BY <1>1, <2>1 DEF ReadInv, WrittenInv, Underway
  <2>2. CASE call.next # "insert"
    BY <1>4, <2>2 DEF NothingDone, Pending
  <2>3. QED
    BY <2>1, <2>2
<1>5. NoRun \/ RelocateFails => Pending(call)
  BY DEF NoRun, RelocateFails, Pending
<1>6. QED
  BY <1>1, <1>2, <1>3, <1>4, <1>5 DEF Writing

\* An error leaves the names of before.
LEMMA NamesAtFailures ==
    ASSUME TypeInv, TypeInv', ReadInv, WrittenInv, NameInv, NoRun \/ RelocateFails \/ WriteFails \/ RecordFails
    PROVE  NameInv'
<1> DEFINE A == AllOf(header, block)
           N == Now(header, block, call)
           G == Goal(header, block, call)
<1>1. SUFFICES ASSUME Whole'
               PROVE  Knows(header', call', Now(header', block', call'), Goal(header', block', call'), NamesUntouched')
  BY DEF NameInv
<1>2. /\ UNCHANGED <<header, block>> /\ call' = AfterError /\ failed \subseteq failed'
      /\ Whole /\ Writing(call)
      /\ Pending(call) \/ (call.next = "insert" /\ call.dir = call.fid /\ header[call.dir].used = 0)
  BY <1>1, FailuresAreEarly
<1>3. NamesIn(N, header, call, NamesUntouched) /\ NamesIn(G, header, call, NamesUntouched)
      /\ CallKnows(header, call, N, G, NamesUntouched)
  BY <1>2 DEF NameInv, Knows
<1>4. NamesUntouched' => NamesUntouched
  BY <1>2 DEF NamesUntouched
<1>5. Stage(call) = call.next
  BY <1>2 DEF Stage
<1>6. /\ AfterError.phase \in {"none", "restore", "giveback"}
      /\ AfterError.phase = "none" => AfterError = NoCall
      /\ AfterError.phase = "restore" =>
            SameBut(AfterError, call) /\ call.kind = "rename" /\ call.next = "name"
      /\ AfterError.phase = "giveback" => SameBut(AfterError, call) /\ call.kind = "createdir"
  BY ErrorsAreSound
<1>7. ~Writing(call')
  BY <1>2, <1>6 DEF Writing
<1>8. /\ AllOf(header', block') = A /\ Now(header', block', call') = A /\ Goal(header', block', call') = A
      /\ ~Pending(call') /\ Stage(call') = call'.phase
  BY <1>2, <1>7 DEF Now, Goal, Pending, Writing, Stage
<1>9. Pending(call) => N = A
  BY DEF Now
<1>10. call.next = "insert" /\ call.dir = call.fid /\ header[call.dir].used = 0 => A \subseteq G
  <2>1. SUFFICES ASSUME header[call.dir].used = 0 PROVE A \subseteq G
    OBVIOUS
  <2>2. PICK d \in Directories : d = call.dir
    BY CallParts DEF TypeInv
  <2>3. \A x \in A : x.dir # d
    BY <2>1, <2>2, EmptyDirectories
  <2>4. QED
    BY <2>2, <2>3 DEF Goal
<1>11. call.next = "insert" => call.kind = "createdir"
  BY DEF TypeInv, SoundCall
<1>12. call.next = "name" => call.kind = "rename"
  BY DEF TypeInv, SoundCall
<1>13. AfterError.phase = "none" => ~(call.kind = "rename" /\ call.next = "name") /\ call.kind # "createdir"
  <2>1. call \in Call
    BY DEF TypeInv
  <2>2. call.kind = "rename" /\ call.next = "name" => AfterError.phase = "restore"
    BY <2>1, PhaseChanges, PhaseNames DEF AfterError
  <2>3. call.kind = "createdir" => AfterError.phase = "giveback"
    BY <2>1, PhaseChanges, PhaseNames DEF AfterError
  <2>4. QED
    BY <2>2, <2>3
<1> HIDE DEF A, N, G
<1>14. CASE AfterError.phase = "none"
  <2>1. Pending(call) /\ N = A
    BY <1>2, <1>9, <1>11, <1>13, <1>14
  <2>2. Stage(call) # "name"
    BY <1>5, <1>12, <1>13, <1>14
  <2>3. NamesIn(A, header', call, NamesUntouched)
    BY <1>2, <1>3, <2>1
  <2>4. Knows(header', NoCall, A, A, NamesUntouched')
    BY <1>4, <2>2, <2>3, NoCallKnows
  <2>5. QED
    BY <1>2, <1>6, <1>8, <1>14, <2>4
<1>15. CASE AfterError.phase = "restore"
  <2>1. SameBut(call', call) /\ call.kind = "rename" /\ call.next = "name" /\ call'.phase = "restore"
    BY <1>2, <1>6, <1>15
  <2>2. Pending(call) /\ N = A
    BY <1>2, <1>9, <2>1
  <2>3. Absent(A, call.fid) /\ Leaving(header, call, NamesUntouched)
    BY <1>3, <1>5, <2>1, <2>2 DEF CallKnows
  <2>4. Stage(call') = "restore" /\ call'.fid = call.fid /\ call'.old = call.old /\ call'.kind = "rename"
    BY <1>8, <2>1 DEF SameBut
  <2>5. NamesIn(A, header', call', NamesUntouched')
    BY <1>2, <1>3, <1>4, <2>2, <2>3, <2>4, NamesStay
  <2>6. Leaving(header', call', NamesUntouched')
    BY <1>2, <1>4, <2>3, <2>4 DEF Leaving
  <2>7. CallKnows(header', call', A, A, NamesUntouched')
    BY <1>7, <1>8, <2>1, <2>3, <2>4, <2>6 DEF CallKnows
  <2>8. QED
    BY <1>8, <2>5, <2>7 DEF Knows
<1>16. CASE AfterError.phase = "giveback"
  <2>1. SameBut(call', call) /\ call.kind = "createdir" /\ call'.phase = "giveback"
    BY <1>2, <1>6, <1>16
  <2>2. Making(header, call, N, G)
    BY <1>3, <2>1 DEF CallKnows
  <2>3. Stage(call) \in {"insert", "none"}
    <3>1. call.next # "giveback"
      BY DEF TypeInv, SoundCall
    <3>2. QED
      BY <1>5, <2>2, <3>1 DEF Making
  <2>4. /\ NamesIn(A, header, call, NamesUntouched) /\ Absent(A, call.fid)
        /\ \A x \in A : x.dir # call.fid
    <3>1. CASE Stage(call) = "none"
      <4>1. Pending(call) /\ N = A
        BY <1>2, <1>5, <1>9, <3>1
      <4>2. QED
        BY <1>3, <2>2, <3>1, <4>1 DEF CallKnows, Making
    <3>2. CASE Stage(call) = "insert"
      <4>1. Absent(G, call.fid)
        BY <1>3, <3>2 DEF CallKnows
      <4>2. CASE N = A /\ A \subseteq G
        BY <1>3, <2>2, <4>1, <4>2 DEF Making, Absent
      <4>3. A \subseteq G
        <5>1. call.next = "insert"
          BY <1>5, <3>2
        <5>2. CASE call.dir = call.fid /\ header[call.dir].used = 0
          BY <1>10, <5>1, <5>2
        <5>3. CASE Pending(call)
          <6>1. call.phase \in {"relocate", "write"}
            BY <5>3 DEF Pending
          <6>2. header[call.dir].used = 0 /\ call.dir = call.fid
            BY <5>1, <6>1 DEF ReadInv, WrittenInv, Underway
          <6>3. QED
            BY <1>10, <5>1, <6>2
        <5>4. QED
          BY <1>2, <5>2, <5>3
      <4>4. NamesIn(A, header, call, NamesUntouched)
        BY <1>3, <4>3, FewerNames
      <4>5. QED
        BY <2>2, <4>1, <4>3, <4>4 DEF Making, Absent
    <3>3. QED
      BY <2>3, <3>1, <3>2
  <2>5. /\ Stage(call') = "giveback" /\ call'.fid = call.fid /\ call'.old = call.old /\ call'.new = call.new
        /\ call'.kind = "createdir"
    BY <1>8, <2>1 DEF SameBut
  <2>6. NamesIn(A, header', call', NamesUntouched')
    BY <1>2, <1>4, <2>3, <2>4, <2>5, NamesStay
  <2>7. Making(header', call', A, A)
    BY <1>2, <2>2, <2>4, <2>5 DEF Making
  <2>8. CallKnows(header', call', A, A, NamesUntouched')
    BY <1>7, <1>8, <2>1, <2>4, <2>5, <2>7 DEF CallKnows
  <2>9. QED
    BY <1>8, <2>6, <2>8 DEF Knows
<1>17. QED
  BY <1>6, <1>14, <1>15, <1>16

\* A file whose header goes, when nothing names it and it has no entries.
LEMMA ClearingKeepsNames ==
    ASSUME TypeInv, UNCHANGED block, NEW f \in Fids, NEW h, ~h.live, header' = [header EXCEPT ![f] = h],
           \A x \in AllOf(header, block) : x.dir # f
    PROVE  AllOf(header', block') = AllOf(header, block)
<1>1. header'[f] = h /\ \A g \in Fids \ {f} : header'[g] = header[g]
  BY DEF TypeInv
<1>2. ASSUME NEW d \in Directories
      PROVE  EntriesAt(d, header'[d], block') = EntriesAt(d, header[d], block)
  <2>1. CASE d = f
    <3>1. EntriesAt(d, header[d], block) = {}
      BY <2>1, NamesApart DEF AllOf
    <3>2. EntriesAt(d, header'[d], block') = {}
      BY <1>1, <2>1 DEF EntriesAt
    <3>3. QED
      BY <3>1, <3>2
  <2>2. CASE d # f
    BY <1>1, <2>2, ConstantParts
  <2>3. QED
    BY <2>1, <2>2
<1>3. QED
  BY <1>2 DEF AllOf

\* The header of a file goes whose name is gone, or of a directory that could not be
\* entered, or it is left: nothing names it.
LEMMA NamesAtClearing ==
    ASSUME TypeInv, TypeInv', NameInv, GiveBack \/ GiveBackFails \/ FreeStorage \/ FreeFails
    PROVE  NameInv'
<1> DEFINE A == AllOf(header, block)
<1>1. PICK f \in Fids, h \in Header :
              /\ \/ call.phase = "giveback" /\ f = call.fid
                 \/ call.phase = "free" /\ f = call.victim
              /\ header' = [header EXCEPT ![f] = h] /\ ~h.live /\ UNCHANGED block
              /\ \/ UNCHANGED failed
                 \/ failed' = failed \cup {"free"}
              /\ \/ call' = NoCall
                 \/ call.phase = "free" /\ call' = [call EXCEPT !.phase = "purge"]
  BY ClearingDoes
<1>2. SUFFICES ASSUME Whole'
               PROVE  Knows(header', call', Now(header', block', call'), Goal(header', block', call'), NamesUntouched')
  BY DEF NameInv
<1>3. Whole /\ ~Writing(call)
  BY <1>1, <1>2 DEF Whole, Writing
<1>4. /\ NamesIn(A, header, call, NamesUntouched) /\ CallKnows(header, call, A, A, NamesUntouched)
      /\ Stage(call) = call.phase
  BY <1>3, NamesBetween
<1>5. Absent(A, f) /\ \A x \in A : x.dir # f
  <2>1. CASE call.phase = "giveback" /\ f = call.fid
    <3>1. call.kind = "createdir"
      BY <2>1 DEF TypeInv, SoundCall
    <3>2. QED
      BY <1>4, <2>1, <3>1 DEF CallKnows, Making
  <2>2. CASE call.phase = "free" /\ f = call.victim
    BY <1>4, <2>2 DEF CallKnows, Absent
  <2>3. QED
    BY <1>1, <2>1, <2>2
<1>6. AllOf(header', block') = A
  BY <1>1, <1>5, ClearingKeepsNames
<1>7. \A g \in Fids \ {f} : header'[g] = header[g]
  BY <1>1 DEF TypeInv
<1>8. NamesUntouched' => NamesUntouched
  BY <1>1 DEF NamesUntouched
<1>9. /\ call' = NoCall \/ (call'.phase = "purge" /\ call'.kind = call.kind /\ call.phase = "free")
      /\ call'.phase \in {"none", "purge"}
  <2>1. call \in Call /\ NoCall.phase = "none"
    BY DEF TypeInv, NoCall
  <2>2. "purge" \in Phases
    BY PhaseNames
  <2>3. CASE call.phase = "free" /\ call' = [call EXCEPT !.phase = "purge"]
    <3>1. call'.phase = "purge" /\ SameBut(call', call)
      BY <2>1, <2>2, <2>3, PhaseChanges
    <3>2. QED
      BY <2>3, <3>1 DEF SameBut
  <2>4. QED
    BY <1>1, <2>1, <2>3
<1>10. ~Writing(call') /\ ~Pending(call') /\ Stage(call') = call'.phase
  BY <1>9 DEF Writing, Pending, Stage
<1>11. Now(header', block', call') = A /\ Goal(header', block', call') = A
  BY <1>6, <1>10 DEF Now, Goal
<1> HIDE DEF A
<1>12. NamesIn(A, header', call', NamesUntouched)
  <2>1. Stage(call) # "name" /\ Stage(call') # "name"
    BY <1>1, <1>4, <1>9, <1>10
  <2>2. QED
    BY <1>4, <1>5, <1>7, <2>1, NamesOfOthers
<1>13. CASE call' = NoCall
  <2>1. Knows(header', NoCall, A, A, NamesUntouched')
    BY <1>8, <1>9, <1>10, <1>12, NoCallKnows
  <2>2. QED
    BY <1>11, <1>13, <2>1
<1>14. CASE call'.phase = "purge" /\ call'.kind = call.kind /\ call.phase = "free"
  <2>1. call.kind # "createdir"
    BY <1>4, <1>14 DEF CallKnows, Making
  <2>2. CallKnows(header', call', A, A, NamesUntouched')
    BY <1>10, <1>14, <2>1 DEF CallKnows
  <2>3. NamesIn(A, header', call', NamesUntouched')
    BY <1>8, <1>12 DEF NamesIn
  <2>4. QED
    BY <1>11, <2>2, <2>3 DEF Knows
<1>15. QED
  BY <1>9, <1>13, <1>14

\* A call that ends, or goes on with nothing done.
LEMMA NamesAtEndings ==
    ASSUME TypeInv, TypeInv', NameInv, PurgeEnds \/ RestoreFails \/ RenameHeaderFails \/ EnterFails
    PROVE  NameInv'
<1> DEFINE A == AllOf(header, block)
<1>1. /\ UNCHANGED <<header, block>> /\ failed \subseteq failed'
      /\ call.phase \in {"purge", "restore", "name", "enter"}
      /\ \/ call' = NoCall /\ (call.phase = "name" => "name" \in failed')
         \/ call.phase = "enter" /\ call' = [call EXCEPT !.phase = "restore"]
  BY DEF PurgeEnds, RestoreFails, RenameHeaderFails, EnterFails, Ended, Fails
<1>2. SUFFICES ASSUME Whole'
               PROVE  Knows(header', call', Now(header', block', call'), Goal(header', block', call'), NamesUntouched')
  BY DEF NameInv
<1>3. Whole /\ ~Writing(call)
  BY <1>1, <1>2 DEF Whole, Writing
<1>4. /\ NamesIn(A, header, call, NamesUntouched) /\ CallKnows(header, call, A, A, NamesUntouched)
      /\ Stage(call) = call.phase
  BY <1>3, NamesBetween
<1>5. NamesUntouched' => NamesUntouched /\ ~("name" \in failed')
  BY <1>1 DEF NamesUntouched
<1>6. call.phase = "enter" /\ call' = [call EXCEPT !.phase = "restore"] =>
         call'.phase = "restore" /\ SameBut(call', call)
  BY PhaseChanges, PhaseNames DEF TypeInv
<1>7. call'.phase \in {"none", "restore"}
  BY <1>1, <1>6 DEF NoCall
<1>8. ~Writing(call') /\ ~Pending(call') /\ Stage(call') = call'.phase
  BY <1>7 DEF Writing, Pending, Stage
<1>9. Now(header', block', call') = A /\ Goal(header', block', call') = A
  BY <1>1, <1>8 DEF Now, Goal
<1> HIDE DEF A
<1>10. CASE call' = NoCall /\ (call.phase = "name" => "name" \in failed')
  <2>1. NamesIn(A, header', call, NamesUntouched)
    BY <1>1, <1>4
  <2>2. Stage(call) = "name" => ~NamesUntouched'
    BY <1>4, <1>5, <1>10
  <2>3. Knows(header', NoCall, A, A, NamesUntouched')
    BY <1>5, <2>1, <2>2, NoCallKnows
  <2>4. QED
    BY <1>9, <1>10, <2>3
<1>11. CASE call.phase = "enter" /\ call'.phase = "restore" /\ SameBut(call', call)
  <2>1. Absent(A, call.fid) /\ Leaving(header, call, NamesUntouched) /\ call.kind # "createdir"
    BY <1>4, <1>11 DEF CallKnows, Making
  <2>2. call'.fid = call.fid /\ call'.old = call.old /\ call'.kind = call.kind
    BY <1>11 DEF SameBut
  <2>3. NamesIn(A, header', call', NamesUntouched')
    BY <1>1, <1>4, <1>5, <1>8, <1>11, NamesStay
  <2>4. Leaving(header', call', NamesUntouched')
    BY <1>1, <1>5, <2>1, <2>2 DEF Leaving
  <2>5. CallKnows(header', call', A, A, NamesUntouched')
    BY <1>8, <1>11, <2>1, <2>2, <2>4 DEF CallKnows
  <2>6. QED
    BY <1>9, <2>3, <2>5 DEF Knows
<1>12. QED
  BY <1>1, <1>6, <1>10, <1>11

\* Rename writes the new name into the header.
LEMMA NamesAtRenameHeader ==
    ASSUME TypeInv, TypeInv', NameInv, RenameHeader
    PROVE  NameInv'
<1> DEFINE A == AllOf(header, block)
<1>1. /\ call.phase = "name" /\ UNCHANGED <<block, failed>>
      /\ header' = IF IsPrimary(call.fid, call.old) THEN [header EXCEPT ![call.fid].link = call.new] ELSE header
      /\ call' = [call EXCEPT !.phase = "purge"]
  BY DEF RenameHeader
<1>2. SUFFICES ASSUME Whole
               PROVE  Knows(header', call', Now(header', block', call'), Goal(header', block', call'), NamesUntouched')
  BY <1>1 DEF NameInv, Whole
<1>3. ~Writing(call)
  BY <1>1 DEF Writing
<1>4. /\ NamesIn(A, header, call, NamesUntouched) /\ CallKnows(header, call, A, A, NamesUntouched)
      /\ Stage(call) = "name"
  BY <1>1, <1>2, <1>3, NamesBetween
<1>5. PICK f \in Fids : f = call.fid
  BY CallParts DEF TypeInv
<1>6. Leaving(header, call, NamesUntouched) /\ \A x \in A : x.fid = f => PlaceOf(x) = call.new
  BY <1>4, <1>5 DEF CallKnows
<1>7. call'.phase = "purge" /\ call'.kind = call.kind /\ call.kind # "createdir"
  <2>1. call'.phase = "purge" /\ SameBut(call', call)
    BY <1>1, PhaseChanges, PhaseNames DEF TypeInv
  <2>2. call.kind # "createdir"
    BY <1>4 DEF CallKnows, Making
  <2>3. QED
    BY <2>1, <2>2 DEF SameBut
<1>8. ~Writing(call') /\ ~Pending(call') /\ Stage(call') = "purge"
  BY <1>7 DEF Writing, Pending, Stage
<1>9. ASSUME NEW g \in Fids
      PROVE  /\ header'[g].used = header[g].used /\ header'[g].extent = header[g].extent /\ header'[g].live = header[g].live
             /\ g # f => header'[g] = header[g]
             /\ g = f /\ IsPrimary(f, call.old) => header'[g].link = call.new
  <2>1. header[g] \in Header
    BY DEF TypeInv
  <2>2. header \in [Fids -> Header]
    BY DEF TypeInv
  <2>3. QED
    BY <1>1, <1>5, <2>1, <2>2 DEF Header
<1>10. \A d \in Directories : EntriesAt(d, header'[d], block') = EntriesAt(d, header[d], block)
  <2>1. TAKE d \in Directories
  <2>2. /\ header'[d].live = header[d].live /\ header'[d].used = header[d].used
        /\ header'[d].extent = header[d].extent
    BY <1>9, ConstantParts
  <2>3. QED
    BY <1>1, <2>2, EntriesStay
<1>11. AllOf(header', block') = A
  BY <1>10 DEF AllOf
<1>12. Now(header', block', call') = A /\ Goal(header', block', call') = A
  BY <1>8, <1>11 DEF Now, Goal
<1> HIDE DEF A
<1>13. NamesUntouched => IsPrimary(f, call.old)
  BY <1>5, <1>6 DEF Leaving, IsPrimary
<1>14. \A x \in A : x.fid \in Fids
  BY <1>4 DEF NamesIn, Known
<1>15. \A x \in A : header'[x.fid].live
  BY <1>4, <1>9, <1>14 DEF NamesIn
<1>16. NamesUntouched => \A x \in A : header'[x.fid].link = PlaceOf(x)
  <2>1. SUFFICES ASSUME NamesUntouched, NEW x \in A PROVE header'[x.fid].link = PlaceOf(x)
    OBVIOUS
  <2>2. CASE x.fid = f
    BY <1>6, <1>9, <1>13, <2>1, <2>2
  <2>3. CASE x.fid # f
    BY <1>4, <1>5, <1>9, <1>14, <2>1, <2>3 DEF NamesIn
  <2>4. QED
    BY <2>2, <2>3
<1>17. NamesIn(A, header', call', NamesUntouched)
  BY <1>4, <1>8, <1>15, <1>16 DEF NamesIn
<1>18. CallKnows(header', call', A, A, NamesUntouched)
  BY <1>7, <1>8 DEF CallKnows
<1>19. NamesUntouched' = NamesUntouched
  BY <1>1 DEF NamesUntouched
<1>20. QED
  BY <1>12, <1>17, <1>18, <1>19 DEF Knows

\* A new volume has no names.
LEMMA InitNames ==
    ASSUME Init, TypeInv
    PROVE  NameInv /\ AllOf(header, block) = {}
<1>1. \A d \in Directories : EntriesAt(d, header[d], block) = {}
  BY NewVolumesAreEmpty, EmptyDirectories
<1>2. AllOf(header, block) = {}
  BY <1>1 DEF AllOf
<1>3. call = NoCall
  BY DEF Init
<1>4. ~Writing(NoCall)
  BY DEF Writing, NoCall
<1>5. NamesIn({}, header, call, NamesUntouched) /\ Absent({}, call.fid)
  BY DEF NamesIn, Absent
<1>6. Knows(header, NoCall, {}, {}, NamesUntouched)
  BY <1>5, NoCallKnows
<1>7. QED
  BY <1>2, <1>3, <1>4, <1>6, QuietNames DEF NameInv

\* Every step keeps what is known of names and files.
LEMMA NamesKept ==
    ASSUME TypeInv, TypeInv', LeftInv, SpaceInv, ReadInv, WrittenInv, OrderInv, NameInv, [Next]_vars
    PROVE  NameInv'
<1>1. CASE Next
  BY <1>1, Steps, NamesAtCreateFile, NamesAtCreateDirectory, NamesAtDeleteFile, NamesAtRename,
     NamesAtEnterDirectory, NamesAtEnter, NamesAtRestore, NamesAtPurge, NamesAtClearing,
     NamesAtEndings, NamesAtRenameHeader, NamesAtFailures, NamesAtRelocate, NamesAtWriteBlock, NamesAtRecordUsed
<1>2. CASE UNCHANGED vars
  <2>1. UNCHANGED <<header, block, call, failed>>
    BY <1>2 DEF vars
  <2>2. Whole' = Whole /\ NamesUntouched' = NamesUntouched
    BY <2>1 DEF Whole, NamesUntouched
  <2>3. QED
    BY <2>1, <2>2 DEF NameInv
<1>3. QED
  BY <1>1, <1>2

\* That is more than FilesKnowTheirNames.
LEMMA KnownAreNamed ==
    ASSUME TypeInv, NameInv
    PROVE  FilesKnowTheirNames
<1>1. SUFFICES ASSUME call = NoCall, failed \cap {"used", "later", "moved"} = {}, NEW e \in AllEntries
               PROVE  /\ header[e.fid].live
                      /\ NamesUntouched => header[e.fid].link = At(e, e.dir)
  BY DEF FilesKnowTheirNames
<1>2. Whole
  BY <1>1 DEF Whole
<1>3. NamesIn(AllOf(header, block), header, call, NamesUntouched) /\ Stage(call) = "none"
  BY <1>1, <1>2, NamesWhenIdle
<1>4. e \in AllOf(header, block)
  BY AllAre
<1>5. At(e, e.dir) = PlaceOf(e)
  BY DEF At, PlaceOf
<1>6. QED
  BY <1>3, <1>4, <1>5 DEF NamesIn

-----------------------------------------------------------------------------
(* What always holds.                                                      *)

\* All of it together: a file whose deletion failed comes into no one's hands because
\* nothing names it, and the blocks of the others are theirs because of that; so
\* none of the parts is inductive alone.
DirectoryInv ==
    TypeInv /\ LeftInv /\ SpaceInv /\ ReadInv /\ WrittenInv /\ OrderInv /\ NameInv

LEMMA Kept == Spec => []DirectoryInv
<1>1. Init => DirectoryInv
  BY InitTyped, InitLeft, InitSpace, InitDecodes, InitOrdered, InitNames DEF DirectoryInv
<1>2. DirectoryInv /\ [Next]_vars => DirectoryInv'
  <2>1. SUFFICES ASSUME DirectoryInv, [Next]_vars PROVE DirectoryInv'
    OBVIOUS
  <2>2. TypeInv /\ LeftInv /\ SpaceInv /\ ReadInv /\ WrittenInv /\ OrderInv /\ NameInv
    BY <2>1 DEF DirectoryInv
  <2>3. TypeInv'
    BY <2>1, <2>2, NextTyped
  <2>4. LeftInv'
    BY <2>1, <2>2, NamesAreLive, LeftKept
  <2>5. SpaceInv' /\ ReadInv'
    BY <2>1, <2>2, SpaceKept, DecodingKept
  <2>6. WrittenInv' /\ OrderInv'
    BY <2>1, <2>2, <2>3, <2>5, NamesAreLive, OrderKept
  <2>7. NameInv'
    BY <2>1, <2>2, <2>3, NamesKept
  <2>8. QED
    BY <2>3, <2>4, <2>5, <2>6, <2>7 DEF DirectoryInv
<1>3. QED
  BY <1>1, <1>2, PTL DEF Spec

\* SpaceIsOwnedOnce always holds: no two directories own a cluster and none is free,
\* whatever writes fail, of a deletion's too; those apart whose deletion failed, which
\* own nothing, as long as no directory was left half-written as well.
THEOREM DirectorySpace == Spec => []SpaceIsOwnedOnce
<1>1. DirectoryInv => SpaceIsOwnedOnce
  BY SpaceSays DEF DirectoryInv
<1>2. QED
  BY <1>1, Kept, PTL

\* DirectoriesAreReadable always holds: the blocks of a live directory that are in use
\* decode, whatever writes fail but the first ones after it moved, or a deletion's
\* together with one that leaves a directory half-written.
THEOREM DirectoryReads == Spec => []DirectoriesAreReadable
<1>1. DirectoryInv => DirectoriesAreReadable
  BY DecodingIsReading DEF DirectoryInv
<1>2. QED
  BY <1>1, Kept, PTL

\* ListsAreOrdered always holds: the names of a directory are in order and none twice,
\* and a removal never needs more blocks than there are, until a write of a directory
\* fails half-way.
THEOREM DirectoryOrder == Spec => []ListsAreOrdered
<1>1. DirectoryInv => ListsAreOrdered
  BY OrderIsListed DEF DirectoryInv
<1>2. QED
  BY <1>1, Kept, PTL

\* FilesKnowTheirNames always holds: the file a name is of is there, also when
\* deletions fail, until a write of a directory fails half-way; and its header says
\* what its name is, until any write fails that changes names.
THEOREM DirectoryNames == Spec => []FilesKnowTheirNames
<1>1. DirectoryInv => FilesKnowTheirNames
  BY KnownAreNamed DEF DirectoryInv
<1>2. QED
  BY <1>1, Kept, PTL

=============

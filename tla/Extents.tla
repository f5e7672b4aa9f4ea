------------------------------ MODULE Extents ------------------------------
(***************************************************************************)
(* Space on a volume: which clusters an allocation takes (volume/bitmap.go *)
(* and allocateExtents of volume/writeheader.go), how a header's           *)
(* retrieval-pointer map grows by an extent, and how a block of a file is  *)
(* found in it.  A bitmap is the set of the clusters it shows free; a      *)
(* cluster is one block here, so an extent's count is in clusters.         *)
(***************************************************************************)
EXTENDS Integers, Sequences, FiniteSets, FiniteSetsExt

CONSTANT Clusters  \* the clusters of the volume

ASSUME ClustersAreNumbers == IsFiniteSet(Clusters) /\ Clusters \subseteq Nat

Extent == [start: Clusters, count: 1 .. Cardinality(Clusters)]

Span(start, count) == start .. start + count - 1

ClustersOf(e) == Span(e.start, e.count)

-----------------------------------------------------------------------------
(* Bitmap.                                                                 *)

\* Where a run of k free clusters begins.
RunStarts(free, k) == {c \in free : Span(c, k) \subseteq free}

LargestFreeRun(free) == Max({k \in 0 .. Cardinality(free) : k = 0 \/ RunStarts(free, k) # {}})

\* Mutant of FindFree: the last run that is long enough.
FindFreeLast(free, k) == [start |-> Max(RunStarts(free, k)), count |-> k]

\* The first run that is long enough; there must be one.
FindFree(free, k) == [start |-> Min(RunStarts(free, k)), count |-> k]

\* The largest part of a request for k clusters that one extent can serve.
OneRun(free, k) == Min({k, LargestFreeRun(free)})

TakenBefore(exts, i) == UNION {ClustersOf(exts[j]) : j \in 1 .. i - 1}

Taken(exts) == TakenBefore(exts, Len(exts) + 1)

\* The extents allocateExtents takes for k clusters, each the first of the
\* longest runs that are of use for what is still missing.
IsAllocation(free, k, exts) ==
    /\ exts \in Seq(Extent)
    /\ \A i \in DOMAIN exts :
          LET left == free \ TakenBefore(exts, i)
              missing == k - Cardinality(TakenBefore(exts, i))
          IN  missing > 0 /\ exts[i] = FindFree(left, OneRun(left, missing))
    /\ Cardinality(Taken(exts)) = k

\* allocateExtents: the extents for k clusters, taken one after the other.
AllocationOf(free, k) ==
    LET take[left \in SUBSET free, missing \in 0 .. k] ==
            IF missing = 0 \/ left = {} THEN <<>>
            ELSE LET e == FindFree(left, OneRun(left, missing))
                 IN  <<e>> \o take[left \ ClustersOf(e), missing - e.count]
    IN  take[free, k]

\* What allocateExtents may return for k clusters: nothing if there are too
\* few, and otherwise the one sequence IsAllocation describes.
Allocations(free, k) ==
    IF Cardinality(free) < k THEN {}
    ELSE {exts \in {AllocationOf(free, k)} : IsAllocation(free, k, exts)}

-----------------------------------------------------------------------------
(* Retrieval pointers.                                                     *)

\* addExtent: an extent that continues the last one grows it.
AddExtent(map, e) ==
    LET n == Len(map)
    IN  IF n > 0 /\ map[n].start + map[n].count = e.start
        THEN [map EXCEPT ![n].count = @ + e.count]
        ELSE Append(map, e)

Claimed(map) == UNION {ClustersOf(map[i]) : i \in DOMAIN map}

=============================================================================

------------------------ MODULE VolumeStorageProofs ------------------------
(***************************************************************************)
(* Proofs about VolumeStorage, for any volume and any bounds: the types of *)
(* its state and what a call in progress has to go on with, and who names  *)
(* which header.  Every header is named once, by a directory entry, by the *)
(* extension link of another header or by the call in progress; so a slot  *)
(* that is blanked was named by nobody else, and one that is taken by      *)
(* nobody at all.  What the names promise survives failed writes and       *)
(* crashes, but for the one write that leaves a link to an unwritten       *)
(* segment.  Then space: no cluster is in two extents or shown free while  *)
(* claimed.  Then both, exactly: nothing is lost while no call ends        *)
(* halfway.                                                                *)
(***************************************************************************)
EXTENDS VolumeStorage, ExtentFacts

-----------------------------------------------------------------------------
(* Types.                                                                  *)

GoodMap == UNION {[1 .. n -> GoodExtent] : n \in 0 .. MapRoom}

\* A file ID that is not NoFid has a slot.
GoodFid == {NoFid} \cup [num: FileNumbers, seq: 0 .. MaxSeq]

GoodHeader == [live: BOOLEAN, seq: 0 .. MaxSeq, map: GoodMap, ext: GoodFid]

\* The header of a File open for writing is one that was read or written.
GoodHandle == {NoHandle} \cup [num: FileNumbers, header: {h \in GoodHeader : h.live}]

GoodCall == [step: Steps, creates: GoodFid, version: Versions \cup {0},
             excess: SUBSET Versions, next: GoodFid, todo: Seq(GoodExtent),
             tail: FileNumbers \cup {0}]

Typed ==
    /\ slot \in [FileNumbers -> GoodHeader] /\ entry \in [Versions -> GoodFid]
    /\ diskFree \in SUBSET Clusters /\ free \in SUBSET Clusters
    /\ diskUsed \in SUBSET FileNumbers /\ used \in SUBSET FileNumbers
    /\ handle \in GoodHandle /\ call \in GoodCall
    /\ mounted \in BOOLEAN /\ suspect \in BOOLEAN
    /\ failed \in SUBSET Steps /\ crashed \in SUBSET Steps

\* A call at step c.step has what it needs to go on, and holds nothing else.
Underway(c) ==
    /\ c.step = "none" => c = NoCall
    /\ c.step \notin {"remove", "free"} => c.excess = {}
    /\ c.step \notin {"insert", "remove", "free"} => c.creates = NoFid
    /\ c.step = "insert" => c.version \in Versions /\ c.creates # NoFid
    /\ c.step = "remove" => c.excess # {}
    /\ c.step = "free" => c.next # NoFid
    /\ c.step = "segment" => c.next # NoFid
    /\ c.step \in {"append", "segment"} => c.todo # <<>> /\ c.tail \in FileNumbers /\ SeqLeft
    /\ c.step \in {"append", "segment", "highest"} => handle # NoHandle
    /\ c.step = "segment" /\ c.tail = handle.num => slot[c.tail].live
    /\ c.step = "dismount" => handle = NoHandle

\* Nothing goes on, and no File is open, while the volume is not mounted.
Sound ==
    /\ Typed
    /\ Underway(call)
    /\ ~mounted => call.step = "none" /\ handle = NoHandle

-----------------------------------------------------------------------------
(* Names of headers.                                                       *)

\* The extension links of headers on disk.
Linked == {n \in FileNumbers : slot[n].live /\ slot[n].ext # NoFid}

\* No entry and no link names slot n.
Unnamed(n) ==
    /\ \A v \in Entered : entry[v].num # n
    /\ \A m \in Linked : slot[m].ext.num # n

\* Every entry names a header; so does every link, but for one that was made
\* to a segment about to be written.
NamesResolve ==
    /\ \A v \in Entered : Resolves(entry[v])
    /\ \A n \in Linked : \/ Resolves(slot[n].ext)
                         \/ call.step = "segment" /\ n = call.tail

\* No slot is named twice.
NamedOnce ==
    /\ \A v, w \in Entered : v # w => entry[v].num # entry[w].num
    /\ \A m, n \in Linked : m # n => slot[m].ext.num # slot[n].ext.num
    /\ \A n \in Linked, v \in Entered : slot[n].ext.num # entry[v].num

\* A header just created is the call's alone until the entry is written; then it
\* is entered as a version that the call does not delete.
CreatesFile ==
    /\ call.creates # NoFid =>
          /\ handle = NoHandle
          /\ slot[call.creates.num] = HeaderOf(call.creates, <<>>)
    /\ call.step = "insert" =>
          /\ Unnamed(call.creates.num)
          /\ AnyVersion \/ \A w \in Entered : w < call.version
    /\ call.step \in {"remove", "free"} /\ call.creates # NoFid =>
          /\ call.version \in Versions \ call.excess
          /\ entry[call.version] = call.creates

\* The header to be blanked is named by nobody but the call.
FreesUnnamed == call.step = "free" => Resolves(call.next) /\ Unnamed(call.next.num)

\* The link is made from the last header of a chain, to a blank slot.
LinksBlank ==
    /\ call.step \in {"append", "segment"} => slot[call.tail].live
    /\ call.step = "append" => slot[call.tail].ext = NoFid
    /\ call.step = "segment" => /\ slot[call.tail].ext = call.next
                                /\ call.next = NextFid(call.next.num)
                                /\ ~slot[call.next.num].live

\* The File open for writing is one of the directory's, not one being deleted,
\* and knows its header as it is on disk, but for the link just made.
HandleInStep ==
    handle # NoHandle =>
        /\ \E v \in Versions \ call.excess :
              entry[v] = [num |-> handle.num, seq |-> handle.header.seq]
        /\ slot[handle.num] =
              IF call.step = "segment" /\ call.tail = handle.num
              THEN [handle.header EXCEPT !.ext = call.next] ELSE handle.header

\* No call ended between a link and the segment it names.
Untorn == "segment" \notin failed \cup crashed

\* Explicit versions and a version limit do not go together here: the version a
\* caller asks for can be one the limit deletes at once.
Careful == AnyVersion => VersionLimit = 0

Named == NamesResolve /\ NamedOnce /\ CreatesFile /\ FreesUnnamed /\ LinksBlank /\ HandleInStep

NInv == Sound /\ (Careful /\ Untorn => Named)

-----------------------------------------------------------------------------
(* Space.                                                                  *)

\* Maps are sequences of extents no longer than a header has room for.
LEMMA MapsAreSequences ==
  /\ \A map \in GoodMap : map \in Seq(GoodExtent) /\ Len(map) \in 0 .. MapRoom
  /\ \A map \in Seq(GoodExtent) : Len(map) <= MapRoom => map \in GoodMap
<1>1. MapRoom \in Nat
  BY LimitsAreNumbers
<1>2. ASSUME NEW map \in GoodMap
      PROVE  map \in Seq(GoodExtent) /\ Len(map) \in 0 .. MapRoom
  <2>1. PICK n \in 0 .. MapRoom : map \in [1 .. n -> GoodExtent]
    BY DEF GoodMap
  <2>2. n \in Nat
    BY <1>1, <2>1
  <2>3. map \in Seq(GoodExtent) /\ Len(map) = n
    BY <2>1, <2>2
  <2>4. QED
    BY <2>1, <2>3
<1>3. ASSUME NEW map \in Seq(GoodExtent), Len(map) <= MapRoom
      PROVE  map \in GoodMap
  <2>1. Len(map) \in 0 .. MapRoom /\ map \in [1 .. Len(map) -> GoodExtent]
    BY <1>1, <1>3
  <2>2. QED
    BY <2>1 DEF GoodMap
<1>4. QED
  BY <1>2, <1>3

\* addExtent adds the clusters of the extent to those of the last one, or as an
\* extent of their own.
LEMMA AddedExtent ==
  ASSUME NEW map \in GoodMap, NEW e \in GoodExtent,
         Len(AddExtent(map, e)) <= MapRoom
  PROVE  LET grown == AddExtent(map, e)
         IN  /\ grown \in GoodMap
             /\ \A i \in DOMAIN grown :
                   ClustersOf(grown[i]) \subseteq
                      (IF i \in DOMAIN map THEN ClustersOf(map[i]) ELSE {})
                      \cup (IF i = Len(grown) THEN ClustersOf(e) ELSE {})
<1> DEFINE grown == AddExtent(map, e)
<1>1. map \in Seq(GoodExtent)
  BY MapsAreSequences
<1>2. /\ grown \in Seq(GoodExtent)
      /\ \A i \in DOMAIN grown :
            ClustersOf(grown[i]) \subseteq
               (IF i \in DOMAIN map THEN ClustersOf(map[i]) ELSE {})
               \cup (IF i = Len(grown) THEN ClustersOf(e) ELSE {})
  BY <1>1, AddExtentGrows
<1>3. grown \in GoodMap
  BY <1>2, MapsAreSequences
<1>4. QED
  BY <1>2, <1>3

-----------------------------------------------------------------------------
(* Types of the parts of headers, Files and calls.                         *)

\* Zero is no slot and no version; bounds are numbers.
LEMMA Numbers ==
  /\ 0 \notin FileNumbers /\ FileNumbers \subseteq Nat
  /\ 0 \notin Versions /\ Versions \subseteq Nat
  /\ MaxSeq \in Nat /\ MapRoom \in Nat \ {0} /\ VersionLimit \in Nat /\ MaxRequest \in Nat
BY FileNumbersArePositive, VersionsArePositive, LimitsAreNumbers

\* A map of no extent, or of one.
LEMMA ShortMaps ==
  /\ <<>> \in GoodMap
  /\ \A e \in GoodExtent : <<e>> \in GoodMap
<1>1. <<>> \in Seq(GoodExtent) /\ Len(<<>>) = 0
  OBVIOUS
<1>2. \A e \in GoodExtent : <<e>> \in Seq(GoodExtent) /\ Len(<<e>>) = 1
  OBVIOUS
<1>3. 0 <= MapRoom /\ 1 <= MapRoom
  BY Numbers
<1>4. <<>> \in GoodMap
  BY <1>1, <1>3, MapsAreSequences
<1>5. \A e \in GoodExtent : <<e>> \in GoodMap
  BY <1>2, <1>3, MapsAreSequences
<1>6. QED
  BY <1>4, <1>5

\* A file ID is NoFid or has a slot.
LEMMA FidFacts ==
  /\ NoFid \in GoodFid /\ NoFid \in Fid /\ GoodFid \subseteq Fid
  /\ \A f \in GoodFid : /\ f.num \in FileNumbers \cup {0} /\ f.seq \in 0 .. MaxSeq
                        /\ f # NoFid <=> f.num \in FileNumbers
                        /\ f = [num |-> f.num, seq |-> f.seq]
  /\ \A n \in FileNumbers, s \in 0 .. MaxSeq : [num |-> n, seq |-> s] \in GoodFid
BY Numbers DEF GoodFid, NoFid, Fid

\* What the headers made by a step are made of.
LEMMA HeaderFacts ==
  /\ \A s \in 0 .. MaxSeq : /\ Blank(s) \in GoodHeader /\ ~Blank(s).live
                            /\ Blank(s).seq = s /\ Blank(s).map = <<>> /\ Blank(s).ext = NoFid
  /\ \A f \in GoodFid, map \in GoodMap :
        /\ HeaderOf(f, map) \in GoodHeader /\ HeaderOf(f, map).live
        /\ HeaderOf(f, map).seq = f.seq /\ HeaderOf(f, map).map = map
        /\ HeaderOf(f, map).ext = NoFid
  /\ \A h \in GoodHeader : /\ h.live \in BOOLEAN /\ h.seq \in 0 .. MaxSeq /\ h.map \in GoodMap
                           /\ h.ext \in GoodFid
<1>1. \A s \in 0 .. MaxSeq : Blank(s) \in GoodHeader
  BY ShortMaps, FidFacts DEF Blank, GoodHeader
<1>2. \A f \in GoodFid, map \in GoodMap : HeaderOf(f, map) \in GoodHeader
  BY FidFacts DEF HeaderOf, GoodHeader
<1>3. \A h \in GoodHeader : /\ h.live \in BOOLEAN /\ h.seq \in 0 .. MaxSeq /\ h.map \in GoodMap
                            /\ h.ext \in GoodFid
  BY DEF GoodHeader
<1>4. QED
  BY <1>1, <1>2, <1>3 DEF Blank, HeaderOf

\* A header that gets another map.
LEMMA RemappedHeader ==
  ASSUME NEW h \in GoodHeader, NEW map \in GoodMap
  PROVE  /\ [h EXCEPT !.map = map] \in GoodHeader
         /\ [h EXCEPT !.map = map].live = h.live /\ [h EXCEPT !.map = map].seq = h.seq
         /\ [h EXCEPT !.map = map].map = map /\ [h EXCEPT !.map = map].ext = h.ext
BY DEF GoodHeader

\* A header that gets another link.
LEMMA RelinkedHeader ==
  ASSUME NEW h \in GoodHeader, NEW f \in GoodFid
  PROVE  /\ [h EXCEPT !.ext = f] \in GoodHeader
         /\ [h EXCEPT !.ext = f].live = h.live /\ [h EXCEPT !.ext = f].seq = h.seq
         /\ [h EXCEPT !.ext = f].map = h.map /\ [h EXCEPT !.ext = f].ext = f
BY DEF GoodHeader

\* A File open for writing is of a live header in a slot.
LEMMA HandleFacts ==
  ASSUME NEW file \in GoodHandle
  PROVE  /\ file.num \in FileNumbers \cup {0} /\ file.header \in GoodHeader
         /\ file = [num |-> file.num, header |-> file.header]
         /\ file # NoHandle <=> file.num \in FileNumbers
         /\ file # NoHandle => file.header.live
         /\ file # NoHandle =>
              \A h \in GoodHeader : h.live => [file EXCEPT !.header = h] \in GoodHandle
<1>1. NoHandle.header \in GoodHeader /\ NoHandle.num = 0
  BY HeaderFacts, Numbers DEF NoHandle
<1>2. CASE file = NoHandle
  BY <1>1, <1>2, Numbers DEF NoHandle
<1>3. CASE file \in [num: FileNumbers, header: {h \in GoodHeader : h.live}]
  BY <1>1, <1>3, Numbers DEF GoodHandle
<1>4. QED
  BY <1>2, <1>3 DEF GoodHandle

-----------------------------------------------------------------------------
(* Chains.                                                                 *)

\* The link that follows link f.
LinkAfter(f) == IF Resolves(f) THEN slot[f.num].ext ELSE f

Length == Cardinality(FileNumbers)

\* Length is a number: the slots are finitely many.
LEMMA LengthIsNumber == Length \in Nat
BY FileNumbersArePositive, FS_CardinalityType DEF Length

\* Links is what its recursion says: there is a function that satisfies it.
LEMMA LinksFollow ==
  ASSUME NEW h
  PROVE  /\ DOMAIN Links(h) = 0 .. Length
         /\ Links(h)[0] = h.ext
         /\ \A k \in 1 .. Length : Links(h)[k] = LinkAfter(Links(h)[k - 1])
<1> DEFINE Path(f, n) == /\ f[0] = h.ext
                         /\ \A k \in 1 .. n : f[k] = LinkAfter(f[k - 1])
           T == {n \in 0 .. Length : \E f : Path(f, n)}
<1>1. 0 \in T
  <2>1. Path([k \in {0} |-> h.ext], 0)
    OBVIOUS
  <2> HIDE DEF Path
  <2>2. \E x : Path(x, 0)
    BY <2>1, Zenon
  <2>3. QED
    BY <2>2, LengthIsNumber
<1>2. ASSUME NEW n \in 1 .. Length, n - 1 \in T
      PROVE  n \in T
  <2>1. PICK f : Path(f, n - 1)
    BY <1>2
  <2> DEFINE g == [k \in 0 .. n |-> IF k = n THEN LinkAfter(f[n - 1]) ELSE f[k]]
  <2>2. n \in Nat /\ n # 0
    BY <1>2, LengthIsNumber
  <2>3. g[0] = f[0]
    BY <2>2
  <2>4. \A k \in 1 .. n : g[k] = LinkAfter(g[k - 1])
    <3>1. TAKE k \in 1 .. n
    <3>2. k \in 0 .. n /\ k - 1 \in 0 .. n /\ k - 1 # n
      BY <2>2
    <3>3. g[k - 1] = f[k - 1]
      BY <3>2
    <3>4. CASE k = n
      BY <3>2, <3>3, <3>4
    <3>5. CASE k # n
      <4>1. k \in 1 .. n - 1
        BY <2>2, <3>5
      <4>2. f[k] = LinkAfter(f[k - 1])
        BY <2>1, <4>1
      <4>3. QED
        BY <3>2, <3>3, <3>5, <4>2
    <3>6. QED
      BY <3>4, <3>5
  <2>5. Path(g, n)
    BY <2>1, <2>3, <2>4
  <2> HIDE DEF g, Path
  <2>6. \E x : Path(x, n)
    BY <2>5, Zenon
  <2>7. QED
    BY <2>6, n \in 0 .. Length
<1>3. PICK f : Path(f, Length)
  <2>1. T = 0 .. Length
    BY <1>1, <1>2, InductionUpTo, LengthIsNumber
  <2>2. Length \in T
    BY <2>1, LengthIsNumber
  <2>3. QED
    BY <2>2
<1> DEFINE Step(g, k) == IF k = 0 THEN h.ext
                         ELSE IF Resolves(g[k - 1]) THEN slot[g[k - 1].num].ext
                         ELSE g[k - 1]
           link == [k \in 0 .. Length |-> f[k]]
<1>4. link = [k \in 0 .. Length |-> Step(link, k)]
  <2>1. \A k \in 0 .. Length : f[k] = Step(link, k)
    <3>1. TAKE k \in 0 .. Length
    <3>2. CASE k = 0
      BY <1>3, <3>2
    <3>3. CASE k # 0
      <4>1. k \in 1 .. Length /\ k - 1 \in 0 .. Length
        BY <3>3, LengthIsNumber
      <4>2. link[k - 1] = f[k - 1] /\ f[k] = LinkAfter(f[k - 1])
        BY <1>3, <4>1
      <4>3. QED
        BY <3>3, <4>2 DEF LinkAfter
    <3>4. QED
      BY <3>2, <3>3
  <2>2. QED
    BY <2>1
<1> HIDE DEF link
<1>5. Links(h) = [k \in 0 .. Length |-> Step(Links(h), k)]
  BY <1>4 DEF Links, Length
<1>6. DOMAIN Links(h) = 0 .. Length
  BY <1>5, Zenon
<1>7. \A k \in 0 .. Length : Links(h)[k] = Step(Links(h), k)
  BY <1>5
<1>8. Links(h)[0] = h.ext
  BY <1>7, LengthIsNumber
<1>9. ASSUME NEW k \in 1 .. Length
      PROVE  Links(h)[k] = LinkAfter(Links(h)[k - 1])
  <2>1. k \in 0 .. Length /\ k # 0
    BY LengthIsNumber
  <2>2. QED
    BY <1>7, <2>1 DEF LinkAfter
<1>10. QED
  BY <1>6, <1>8, <1>9

\* Links are file IDs.
LEMMA LinksAreFids ==
  ASSUME slot \in [FileNumbers -> GoodHeader], NEW h \in GoodHeader
  PROVE  \A k \in 0 .. Length : Links(h)[k] \in GoodFid
<1> DEFINE T == {k \in 0 .. Length : Links(h)[k] \in GoodFid}
<1>1. 0 \in T
  BY LinksFollow, LengthIsNumber, HeaderFacts
<1>2. ASSUME NEW k \in 1 .. Length, k - 1 \in T
      PROVE  k \in T
  <2>1. Links(h)[k] = LinkAfter(Links(h)[k - 1]) /\ Links(h)[k - 1] \in GoodFid
    BY <1>2, LinksFollow
  <2>2. Resolves(Links(h)[k - 1]) => slot[Links(h)[k - 1].num] \in GoodHeader
    BY <2>1, FidFacts DEF Resolves
  <2>3. Links(h)[k] \in GoodFid
    BY <2>1, <2>2, HeaderFacts DEF LinkAfter
  <2>4. QED
    BY <2>3, LengthIsNumber
<1>3. T = 0 .. Length
  BY <1>1, <1>2, LengthIsNumber, InductionUpTo
<1>4. QED
  BY <1>3

\* A chain that ends ends in a header without a link: the one TailOf chooses.
LEMMA TailEndsChain ==
  ASSUME slot \in [FileNumbers -> GoodHeader], NEW h \in GoodHeader,
         Intact(h), h.ext # NoFid, NEW n
  PROVE  TailOf(n, h) \in Segments(h) /\ slot[TailOf(n, h)].ext = NoFid
<1> DEFINE T == {k \in 0 .. Length : Links(h)[k] = NoFid}
<1>1. Length \in T /\ 0 \notin T /\ T \subseteq Nat
  BY LengthIsNumber, LinksFollow DEF Intact, Length
<1>2. PICK least \in T : \A k \in T : least <= k
  BY <1>1, LeastNatural
<1>3. least \in 1 .. Length /\ least - 1 \in 0 .. Length /\ ~(least <= least - 1)
  BY <1>1, <1>2, LengthIsNumber
<1> DEFINE f == Links(h)[least - 1]
<1>4. f # NoFid /\ LinkAfter(f) = NoFid
  <2>1. least - 1 \notin T
    BY <1>2, <1>3
  <2>2. QED
    BY <1>2, <1>3, <2>1, LinksFollow
<1>5. f \in GoodFid
  BY <1>3, LinksAreFids
<1>6. f.num # 0 /\ slot[f.num].ext = NoFid
  BY <1>4, <1>5, FidFacts, Numbers DEF LinkAfter, Resolves
<1>7. f.num \in Segments(h)
  BY <1>3, <1>6, LinksFollow DEF Segments
<1> HIDE DEF f
<1>8. TailOf(n, h) = CHOOSE k \in Segments(h) : slot[k].ext = NoFid
  BY DEF TailOf
<1>9. QED
  BY <1>6, <1>7, <1>8

\* The segments of a header are slots.
LEMMA SegmentsAreSlots ==
  ASSUME slot \in [FileNumbers -> GoodHeader], NEW h \in GoodHeader
  PROVE  Segments(h) \subseteq FileNumbers
BY LinksAreFids, LinksFollow, FidFacts DEF Segments

\* Where every link names a header, so does every link of a chain.
LEMMA ChainResolves ==
  ASSUME slot \in [FileNumbers -> GoodHeader], NEW h \in GoodHeader,
         \A n \in Linked : Resolves(slot[n].ext),
         h.ext # NoFid => Resolves(h.ext)
  PROVE  \A k \in 0 .. Length : Links(h)[k] # NoFid => Resolves(Links(h)[k])
<1> DEFINE T == {k \in 0 .. Length : Links(h)[k] # NoFid => Resolves(Links(h)[k])}
<1>1. 0 \in T
  BY LinksFollow, LengthIsNumber
<1>2. ASSUME NEW k \in 1 .. Length, k - 1 \in T
      PROVE  k \in T
  <2> DEFINE f == Links(h)[k - 1]
  <2>1. Links(h)[k] = LinkAfter(f) /\ (f # NoFid => Resolves(f))
    BY <1>2, LinksFollow
  <2>2. f \in GoodFid
    BY <1>2, LinksAreFids
  <2>3. CASE f = NoFid
    <3>1. ~Resolves(f)
      BY <2>3 DEF Resolves, NoFid
    <3>2. QED
      BY <2>1, <2>3, <3>1, LengthIsNumber DEF LinkAfter
  <2>4. CASE Resolves(f)
    <3>1. f.num \in FileNumbers /\ slot[f.num].live
      BY <2>2, <2>4, FidFacts DEF Resolves
    <3>2. slot[f.num].ext # NoFid => Resolves(slot[f.num].ext)
      BY <3>1 DEF Linked
    <3>3. QED
      BY <2>1, <2>4, <3>2, LengthIsNumber DEF LinkAfter
  <2>5. QED
    BY <2>1, <2>3, <2>4
<1>3. T = 0 .. Length
  BY <1>1, <1>2, LengthIsNumber, InductionUpTo
<1>4. QED
  BY <1>3

\* The tail of a file's chain is a header without a link.
LEMMA TailIsLive ==
  ASSUME slot \in [FileNumbers -> GoodHeader], NEW n \in FileNumbers, slot[n].live,
         \A m \in Linked : Resolves(slot[m].ext), Intact(slot[n])
  PROVE  /\ TailOf(n, slot[n]) \in FileNumbers
         /\ slot[TailOf(n, slot[n])].live /\ slot[TailOf(n, slot[n])].ext = NoFid
<1> DEFINE h == slot[n]
<1>1. h \in GoodHeader
  OBVIOUS
<1>2. CASE h.ext = NoFid
  BY <1>2 DEF TailOf
<1>3. CASE h.ext # NoFid
  <2>1. TailOf(n, h) \in Segments(h) /\ slot[TailOf(n, h)].ext = NoFid
    BY <1>1, <1>3, TailEndsChain
  <2>2. PICK k \in 0 .. Length : TailOf(n, h) = Links(h)[k].num /\ TailOf(n, h) # 0
    BY <2>1, LinksFollow DEF Segments
  <2>3. Links(h)[k] \in GoodFid /\ Links(h)[k] # NoFid
    BY <1>1, <2>2, LinksAreFids DEF NoFid
  <2>4. n \in Linked
    BY <1>3 DEF Linked
  <2>5. Resolves(Links(h)[k])
    BY <1>1, <2>3, <2>4, ChainResolves
  <2>6. QED
    BY <2>1, <2>2, <2>3, <2>5, FidFacts DEF Resolves
<1>4. QED
  BY <1>2, <1>3

\* Where every header is named once, the chain of a file that is in the
\* directory ends: it would have to come back to a header it passed, and the
\* first one it came back to would be named twice.
LEMMA FilesAreIntact ==
  ASSUME slot \in [FileNumbers -> GoodHeader], entry \in [Versions -> GoodFid],
         \A n \in Linked : Resolves(slot[n].ext), NamedOnce,
         NEW v \in Entered, Resolves(entry[v])
  PROVE  Intact(slot[entry[v].num])
<1> DEFINE root == entry[v].num
           L == Links(slot[root])
           Before(k) == IF k = 0 THEN root ELSE L[k - 1].num
<1>1. SUFFICES ASSUME L[Length] # NoFid PROVE FALSE
  BY DEF Intact, Length
<1>2. root \in FileNumbers /\ slot[root].live /\ slot[root] \in GoodHeader
  BY FidFacts DEF Entered, Resolves
<1>3. \A k \in 0 .. Length : L[k] \in GoodFid
  BY <1>2, LinksAreFids
<1>4. /\ L[0] = slot[root].ext
      /\ \A k \in 1 .. Length : L[k] = LinkAfter(L[k - 1])
  BY <1>2, LinksFollow
<1>5. ~Resolves(NoFid)
  BY DEF Resolves, NoFid
<1> HIDE DEF L, root
<1>6. \A k \in 0 .. Length : L[k] # NoFid
  <2> DEFINE T == {j \in 0 .. Length : L[Length - j] # NoFid}
  <2>1. 0 \in T
    BY <1>1, LengthIsNumber
  <2>2. ASSUME NEW j \in 1 .. Length, j - 1 \in T
        PROVE  j \in T
    <3>1. /\ Length - j \in 0 .. Length /\ Length - (j - 1) \in 1 .. Length
          /\ (Length - (j - 1)) - 1 = Length - j
      BY LengthIsNumber
    <3>2. L[Length - (j - 1)] = LinkAfter(L[Length - j]) /\ L[Length - (j - 1)] # NoFid
      BY <1>4, <2>2, <3>1
    <3>3. L[Length - j] # NoFid
      BY <1>5, <3>2 DEF LinkAfter
    <3>4. QED
      BY <3>3, LengthIsNumber
  <2>3. T = 0 .. Length
    BY <2>1, <2>2, LengthIsNumber, InductionUpTo
  <2>4. TAKE k \in 0 .. Length
  <2>5. Length - k \in 0 .. Length /\ Length - (Length - k) = k
    BY LengthIsNumber
  <2>6. Length - k \in T
    BY <2>3, <2>5, Zenon
  <2>7. QED
    BY <2>5, <2>6
<1>7. \A k \in 0 .. Length : Resolves(L[k])
  <2>1. root \in Linked => Resolves(slot[root].ext)
    OBVIOUS
  <2>2. slot[root].ext # NoFid => Resolves(slot[root].ext)
    BY <1>2, <2>1 DEF Linked
  <2>3. \A k \in 0 .. Length : L[k] # NoFid => Resolves(L[k])
    BY <1>2, <2>2, ChainResolves DEF L
  <2>4. QED
    BY <1>6, <2>3
<1>8. ASSUME NEW k \in 0 .. Length
      PROVE  Before(k) \in Linked /\ slot[Before(k)].ext = L[k]
  <2>1. CASE k = 0
    BY <1>2, <1>4, <1>6, <2>1, LengthIsNumber DEF Linked
  <2>2. CASE k # 0
    <3>1. k \in 1 .. Length /\ k - 1 \in 0 .. Length
      BY <2>2, LengthIsNumber
    <3>2. Resolves(L[k - 1]) /\ L[k - 1] \in GoodFid /\ L[k - 1] # NoFid
      BY <1>3, <1>6, <1>7, <3>1
    <3>3. L[k] = slot[L[k - 1].num].ext /\ L[k] # NoFid
      BY <1>4, <1>6, <3>1, <3>2 DEF LinkAfter
    <3>4. L[k - 1].num \in FileNumbers /\ slot[L[k - 1].num].live
      BY <3>2, FidFacts DEF Resolves
    <3>5. QED
      BY <2>2, <3>3, <3>4 DEF Linked
  <2>3. QED
    BY <2>1, <2>2
<1> DEFINE Again == {i \in 0 .. Length : \E j \in 0 .. Length : i < j /\ L[i].num = L[j].num}
<1>9. Again # {}
  <2> DEFINE f == [k \in 0 .. Length |-> L[k].num]
  <2>1. f \in [0 .. Length -> FileNumbers]
    BY <1>3, <1>6, FidFacts
  <2>2. IsFiniteSet(0 .. Length) /\ Cardinality(0 .. Length) = Length + 1
    <3>1. 0 \in Int /\ Length \in Int /\ ~(0 > Length)
      BY LengthIsNumber
    <3>2. QED
      BY <3>1, FS_Interval
  <2>3. Cardinality(FileNumbers) < Cardinality(0 .. Length)
    BY <2>2, LengthIsNumber DEF Length
  <2> HIDE DEF f
  <2>4. \E x, y \in 0 .. Length : x # y /\ f[x] = f[y]
    <3>1. IsFiniteSet(FileNumbers)
      BY FileNumbersArePositive
    <3>2. QED
      BY <2>1, <2>2, <2>3, <3>1, FS_PigeonHole, Zenon
  <2>5. PICK x \in 0 .. Length : \E y \in 0 .. Length : x # y /\ L[x].num = L[y].num
    BY <2>4 DEF f
  <2>6. PICK y \in 0 .. Length : x # y /\ L[x].num = L[y].num
    BY <2>5
  <2>7. x < y \/ y < x
    BY <2>6, LengthIsNumber
  <2>8. QED
    BY <2>6, <2>7
<1>10. PICK i \in Again : \A k \in Again : i <= k
  BY <1>9, LeastNatural, Again \subseteq Nat
<1>11. PICK j \in 0 .. Length : i < j /\ L[i].num = L[j].num
  BY <1>10
<1>12. i \in 0 .. Length /\ j # 0 /\ j - 1 \in 0 .. Length
  BY <1>11, LengthIsNumber
<1>13. Before(i) = Before(j)
  BY <1>8, <1>11, <1>12 DEF NamedOnce
<1>14. CASE i = 0
  <2>1. root = L[j - 1].num
    BY <1>12, <1>13, <1>14
  <2>2. Before(j - 1) \in Linked /\ slot[Before(j - 1)].ext = L[j - 1]
    BY <1>8, <1>12
  <2>3. QED
    BY <2>1, <2>2 DEF NamedOnce, root
<1>15. CASE i # 0
  <2>1. L[i - 1].num = L[j - 1].num
    BY <1>12, <1>13, <1>15
  <2>2. i - 1 \in 0 .. Length /\ i - 1 < j - 1 /\ ~(i <= i - 1)
    BY <1>11, <1>12, <1>15, LengthIsNumber
  <2>3. i - 1 \in Again
    BY <1>12, <2>1, <2>2
  <2>4. QED
    BY <1>10, <2>2, <2>3
<1>16. QED
  BY <1>14, <1>15

-----------------------------------------------------------------------------
(* Sound is inductive.                                                     *)

\* What NoCall is made of.
LEMMA NoCallFacts ==
  /\ NoCall \in GoodCall /\ NoCall.step = "none" /\ NoCall.creates = NoFid
  /\ NoCall.version = 0 /\ NoCall.excess = {} /\ NoCall.next = NoFid
  /\ NoCall.todo = <<>> /\ NoCall.tail = 0
BY FidFacts DEF NoCall, GoodCall, Steps

\* What a call of some type is made of.
LEMMA CallFacts ==
  ASSUME NEW c \in GoodCall
  PROVE  /\ c.step \in Steps /\ c.creates \in GoodFid /\ c.version \in Versions \cup {0}
         /\ c.excess \in SUBSET Versions /\ c.next \in GoodFid /\ c.todo \in Seq(GoodExtent)
         /\ c.tail \in FileNumbers \cup {0}
BY DEF GoodCall

\* The file ID of a slot's next file.
LEMMA NextFidFacts ==
  ASSUME NEW n \in FileNumbers, slot[n] \in GoodHeader, slot[n].seq < MaxSeq
  PROVE  /\ NextFid(n) \in GoodFid /\ NextFid(n) # NoFid
         /\ NextFid(n).num = n /\ NextFid(n).seq = slot[n].seq + 1
<1>1. slot[n].seq \in 0 .. MaxSeq
  BY HeaderFacts
<1>2. slot[n].seq + 1 \in 0 .. MaxSeq
  BY <1>1, Numbers
<1>3. QED
  BY <1>2, FidFacts DEF NextFid

\* The clusters a map claims are clusters.
LEMMA ClaimedAreClusters ==
  ASSUME NEW map \in GoodMap
  PROVE  Claimed(map) \subseteq Clusters
<1>1. \A i \in DOMAIN map : map[i] \in GoodExtent
  BY MapsAreSequences
<1>2. QED
  BY <1>1 DEF Claimed, GoodExtent

\* An ended call needs nothing.
LEMMA CallEnds ==
  ASSUME call' = NoCall
  PROVE  call' \in GoodCall /\ Underway(call)'
BY NoCallFacts DEF Underway

\* A call that goes on deleting has something to delete.
LEMMA DeletingGoesOn ==
  ASSUME Sound, NEW c \in GoodCall, c.step \in {"insert", "free"}, DeleteMore(c)
  PROVE  call' \in GoodCall /\ handle' \in GoodHandle /\ Underway(call)'
<1>1. CASE c.excess = {}
  <2>1. call' = NoCall /\ handle' = Returned(c)
    BY <1>1 DEF DeleteMore
  <2>2. CASE c.creates = NoFid
    BY <2>1, <2>2, CallEnds DEF Returned, Sound, Typed
  <2>3. CASE c.creates # NoFid
    <3>1. c.creates.num \in FileNumbers /\ HeaderOf(c.creates, <<>>) \in GoodHeader
          /\ HeaderOf(c.creates, <<>>).live
      BY <2>3, CallFacts, FidFacts, HeaderFacts, ShortMaps
    <3>2. handle' \in GoodHandle
      BY <2>1, <2>3, <3>1 DEF Returned, GoodHandle
    <3>3. QED
      BY <2>1, <3>2, CallEnds
  <2>4. QED
    BY <2>2, <2>3
<1>2. CASE c.excess # {}
  <2>1. call' = [c EXCEPT !.step = "remove"] /\ handle' = handle
    BY <1>2 DEF DeleteMore
  <2>2. call' \in GoodCall /\ call'.step = "remove" /\ call'.excess = c.excess
    BY <2>1 DEF GoodCall, Steps
  <2>3. QED
    BY <1>2, <2>1, <2>2 DEF Underway, Sound, Typed
<1>3. QED
  BY <1>1, <1>2

\* A call that fails leaves the File, and memory and disk of their types.
LEMMA FailingIsSound ==
  ASSUME Sound, Fails, slot' = slot, entry' \in [Versions -> GoodFid],
         diskFree' = diskFree, diskUsed' = diskUsed,
         free' \in SUBSET Clusters, used' \in SUBSET FileNumbers
  PROVE  Sound'
<1>1. call' \in GoodCall /\ Underway(call)' /\ call'.step = "none"
  BY CallEnds, NoCallFacts DEF Fails
<1>2. failed' \in SUBSET Steps
  BY CallFacts DEF Fails, Sound, Typed
<1>3. QED
  BY <1>1, <1>2 DEF Fails, Sound, Typed

\* The volume as Init describes it.
LEMMA InitIsSound ==
  ASSUME Init PROVE Sound
<1>1. Blank(0) \in GoodHeader /\ NoFid \in GoodFid
  BY HeaderFacts, FidFacts, Numbers
<1>2. Typed
  BY <1>1, NoCallFacts DEF Init, Typed, GoodHandle
<1>3. Underway(call)
  BY NoCallFacts DEF Init, Underway
<1>4. QED
  BY <1>2, <1>3 DEF Init, Sound

\* Creating, entering and deleting files.
LEMMA DirectoryIsSound ==
  ASSUME Sound,
         \/ \E v \in Versions : CreateHeader(v)
         \/ InsertEntry \/ InsertFails \/ Delete \/ RemoveEntry \/ RemoveFails
  PROVE  Sound'
<1> USE DEF Sound, Typed
<1>1. ASSUME NEW v \in Versions, CreateHeader(v) PROVE Sound'
  <2>1. PICK n \in FileNumbers \ used :
               /\ slot[n].seq < MaxSeq
               /\ slot' = [slot EXCEPT ![n] = HeaderOf(NextFid(n), <<>>)]
               /\ used' = used \cup {n}
               /\ call' = [NoCall EXCEPT !.step = "insert", !.creates = NextFid(n), !.version = v]
    BY <1>1 DEF CreateHeader
  <2>3. NextFid(n) \in GoodFid /\ NextFid(n) # NoFid
    BY <2>1, NextFidFacts
  <2>4. slot' \in [FileNumbers -> GoodHeader]
    BY <2>1, <2>3, HeaderFacts, ShortMaps
  <2>5. /\ call' \in GoodCall /\ call'.step = "insert" /\ call'.creates = NextFid(n)
        /\ call'.version = v /\ call'.excess = {}
    BY <2>1, <2>3, NoCallFacts DEF GoodCall, Steps, NoCall
  <2>6. Underway(call)'
    BY <2>3, <2>5 DEF Underway
  <2>7. QED
    BY <1>1, <2>1, <2>4, <2>5, <2>6 DEF CreateHeader, status, Ready
<1>2. CASE InsertEntry
  <2> DEFINE c == [call EXCEPT !.excess = Excess(Entered \cup {call.version})]
  <2>1. call.step = "insert" /\ call.version \in Versions /\ call.creates \in GoodFid
    BY <1>2, CallFacts DEF InsertEntry, Underway
  <2>2. Excess(Entered \cup {call.version}) \subseteq Versions
    BY <2>1 DEF Excess, ExcessOf, Entered
  <2>3. c \in GoodCall /\ c.step = "insert"
    BY <2>1, <2>2 DEF GoodCall
  <2>4. call' \in GoodCall /\ handle' \in GoodHandle /\ Underway(call)'
    BY <1>2, <2>3, DeletingGoesOn DEF InsertEntry
  <2>5. entry' \in [Versions -> GoodFid]
    BY <1>2, <2>1 DEF InsertEntry
  <2>6. mounted
    BY <2>1
  <2>7. QED
    BY <1>2, <2>4, <2>5, <2>6 DEF InsertEntry, status
<1>3. CASE InsertFails
  BY <1>3, FailingIsSound DEF InsertFails, WriteFails, disk
<1>4. CASE Delete
  <2>1. PICK excess \in {{v} : v \in Entered} \cup {ExcessOf(Entered, 1)} :
           excess # {} /\ call' = [NoCall EXCEPT !.step = "remove", !.excess = excess]
    BY <1>4 DEF Delete
  <2>2. excess \subseteq Versions
    BY <2>1 DEF ExcessOf, Entered
  <2>3. call' \in GoodCall /\ call'.step = "remove" /\ call'.excess = excess
    BY <2>1, <2>2, NoCallFacts DEF GoodCall, Steps, NoCall
  <2>4. Underway(call)'
    BY <1>4, <2>1, <2>3, NoCallFacts DEF Underway
  <2>5. QED
    BY <1>4, <2>3, <2>4 DEF Delete, Ready, disk, status
<1>5. CASE RemoveEntry
  <2> DEFINE v == Min(call.excess)
  <2>1. /\ call.step = "remove" /\ Readable(entry[v])
        /\ entry' = [entry EXCEPT ![v] = NoFid]
        /\ call' = [call EXCEPT !.step = "free", !.excess = @ \ {v}, !.next = entry[v]]
    BY <1>5 DEF RemoveEntry
  <2>2. v \in call.excess /\ v \in Versions
    BY <2>1, CallFacts, MinInSet, Numbers DEF Underway
  <2>3. entry[v] \in GoodFid /\ entry[v] # NoFid
    BY <2>1, <2>2 DEF Readable, Resolves, NoFid
  <2>4. call' \in GoodCall /\ call'.step = "free" /\ call'.next = entry[v]
    BY <2>1, <2>3, CallFacts DEF GoodCall, Steps
  <2>5. Underway(call)'
    BY <2>3, <2>4 DEF Underway
  <2>6. entry' \in [Versions -> GoodFid]
    BY <2>1, FidFacts
  <2>7. QED
    BY <1>5, <2>1, <2>4, <2>5, <2>6 DEF RemoveEntry, status
<1>6. CASE RemoveFails
  <2>1. Fails /\ slot' = slot /\ diskFree' = diskFree /\ diskUsed' = diskUsed
        /\ free' = free /\ used' = used
    BY <1>6 DEF RemoveFails, WriteFails
  <2>2. entry' \in [Versions -> GoodFid]
    BY <1>6, FidFacts DEF RemoveFails, WriteFails
  <2>3. QED
    BY <2>1, <2>2, FailingIsSound
<1>7. QED
  BY <1>1, <1>2, <1>3, <1>4, <1>5, <1>6

\* Freeing the segments of a file.
LEMMA FreeingIsSound ==
  ASSUME Sound, FreeSegment \/ FreeFails
  PROVE  Sound'
<1> USE DEF Sound, Typed
<1> DEFINE n == call.next.num
<1>1. call.step = "free"
  BY DEF FreeSegment, FreeFails, WriteFails
<1>2. n \in FileNumbers
  BY <1>1, CallFacts, FidFacts DEF Underway
<1>3. free' \in SUBSET Clusters /\ used' \in SUBSET FileNumbers
  BY <1>2, ClaimedAreClusters, HeaderFacts DEF FreeSegment, FreeFails, UnmarkSegment
<1>4. CASE FreeFails
  BY <1>3, <1>4, FailingIsSound DEF FreeFails, WriteFails, disk
<1>5. CASE FreeSegment
  <2>1. slot' = [slot EXCEPT ![n] = Blank(slot[n].seq)]
    BY <1>5 DEF FreeSegment
  <2>2. slot' \in [FileNumbers -> GoodHeader]
    BY <1>2, <2>1, HeaderFacts
  <2>3. call' \in GoodCall /\ handle' \in GoodHandle /\ Underway(call)'
    <3>1. CASE slot[n].ext = NoFid
      <4>1. [call EXCEPT !.next = NoFid] \in GoodCall /\ [call EXCEPT !.next = NoFid].step = "free"
        BY <1>1, FidFacts DEF GoodCall
      <4>2. DeleteMore([call EXCEPT !.next = NoFid])
        BY <1>5, <3>1 DEF FreeSegment
      <4>3. QED
        BY <4>1, <4>2, DeletingGoesOn
    <3>2. CASE slot[n].ext # NoFid
      <4>1. call' = [call EXCEPT !.next = slot[n].ext] /\ handle' = handle
        BY <1>5, <3>2 DEF FreeSegment
      <4>2. slot[n].ext \in GoodFid
        BY <1>2, HeaderFacts
      <4>3. call' \in GoodCall /\ call'.step = "free" /\ call'.next = slot[n].ext
        BY <1>1, <4>1, <4>2 DEF GoodCall
      <4>4. QED
        BY <3>2, <4>1, <4>3 DEF Underway
    <3>3. QED
      BY <3>1, <3>2
  <2>4. QED
    BY <1>1, <1>3, <1>5, <2>2, <2>3 DEF FreeSegment, status
<1>6. QED
  BY <1>4, <1>5

\* A header as Extend knows it.
LEMMA KnownFacts ==
  ASSUME Sound, handle # NoHandle, NEW n \in FileNumbers
  PROVE  /\ Known(n) \in GoodHeader
         /\ n = handle.num => Known(n).live
         /\ n # handle.num => Known(n) = slot[n]
BY HandleFacts DEF Known, Sound, Typed

\* A header that is written and followed.
LEMMA FollowingIsSound ==
  ASSUME Sound, handle # NoHandle, NEW n, NEW h \in GoodHeader,
         n = handle.num => h.live, Follow(n, h)
  PROVE  /\ handle' \in GoodHandle /\ handle' # NoHandle /\ handle'.num = handle.num
         /\ handle'.header = IF n = handle.num THEN h ELSE handle.header
<1>1. handle.num \in FileNumbers /\ handle = [num |-> handle.num, header |-> handle.header]
  BY HandleFacts DEF Sound, Typed
<1>2. CASE n = handle.num
  <2>1. handle' = [handle EXCEPT !.header = h] /\ handle' \in GoodHandle
    BY <1>2, HandleFacts DEF Follow, Sound, Typed
  <2>2. handle'.num = handle.num /\ handle'.header = h
    BY <1>1, <2>1
  <2>3. QED
    BY <1>1, <1>2, <2>1, <2>2, HandleFacts
<1>3. CASE n # handle.num
  BY <1>3 DEF Follow, Sound, Typed
<1>4. QED
  BY <1>2, <1>3

\* Opening and closing.
LEMMA OpeningIsSound ==
  ASSUME Sound,
         \/ \E v \in Versions : OpenForWrite(v)
         \/ Close \/ Abandon \/ RecordHighest \/ HighestFails
  PROVE  Sound'
<1> USE DEF Sound, Typed
<1>1. ASSUME NEW v \in Versions, OpenForWrite(v) PROVE Sound'
  <2>1. handle' = [num |-> entry[v].num, header |-> slot[entry[v].num]]
        /\ Resolves(entry[v]) /\ call.step = "none" /\ mounted
    BY <1>1 DEF OpenForWrite, Readable, Ready
  <2>2. entry[v].num \in FileNumbers /\ slot[entry[v].num].live
    BY <2>1, FidFacts DEF Resolves
  <2>3. handle' \in GoodHandle
    BY <2>1, <2>2 DEF GoodHandle
  <2>4. Underway(call)'
    BY <1>1, <2>1, NoCallFacts DEF OpenForWrite, Underway
  <2>5. QED
    BY <1>1, <2>1, <2>3, <2>4 DEF OpenForWrite, disk, status
<1>2. ASSUME handle # NoHandle, WritePrimary PROVE slot' \in [FileNumbers -> GoodHeader]
  BY <1>2, HandleFacts DEF WritePrimary
<1>3. CASE Close
  <2>1. call' = NoCall /\ handle' = NoHandle /\ NoHandle \in GoodHandle
    BY <1>3 DEF Close, Ready, Underway, GoodHandle
  <2>2. QED
    BY <1>2, <1>3, <2>1, CallEnds DEF Close, status
<1>4. CASE Abandon
  <2>1. call' = NoCall /\ handle' = NoHandle /\ NoHandle \in GoodHandle
    BY <1>4 DEF Abandon, Ready, Underway, GoodHandle
  <2>2. QED
    BY <1>4, <2>1, CallEnds DEF Abandon, disk, status
<1>5. CASE RecordHighest
  <2>1. handle # NoHandle /\ call' = NoCall /\ mounted
    BY <1>5 DEF RecordHighest, Underway
  <2>2. QED
    BY <1>2, <1>5, <2>1, CallEnds DEF RecordHighest, status
<1>6. CASE HighestFails
  BY <1>6, FailingIsSound DEF HighestFails, WriteFails, disk
<1>7. QED
  BY <1>1, <1>3, <1>4, <1>5, <1>6

\* What an allocation for Extend is.
LEMMA ExtendTakes ==
  ASSUME Sound, NEW k \in 1 .. MaxRequest, NEW exts \in Allocations(free, k)
  PROVE  /\ exts \in Seq(GoodExtent) /\ exts # <<>>
         /\ \A i \in DOMAIN exts :
               /\ ClustersOf(exts[i]) \subseteq free
               /\ \A j \in DOMAIN exts : i # j => ClustersOf(exts[i]) \cap ClustersOf(exts[j]) = {}
<1>1. IsAllocation(free, k, exts)
  BY DEF Allocations
<1>2. k \in Nat \ {0}
  BY Numbers
<1>3. free \subseteq Clusters
  BY DEF Sound, Typed
<1>4. QED
  BY <1>1, <1>2, <1>3, AllocationIsFree

\* Extend's first step.
LEMMA ExtendIsSound ==
  ASSUME Sound, NEW k \in 1 .. MaxRequest, Extend(k)
  PROVE  Sound'
<1> USE DEF Sound, Typed
<1>1. PICK exts \in Allocations(free, k) :
         /\ free' = FreeAfter(exts)
         /\ IF Intact(handle.header)
             THEN /\ call' = [NoCall EXCEPT !.step = "append", !.todo = exts,
                                            !.tail = TailOf(handle.num, handle.header)]
                  /\ UNCHANGED <<handle, status>>
             ELSE Fails
  BY DEF Extend
<1>2. exts \in Seq(GoodExtent) /\ exts # <<>>
  BY ExtendTakes
<1>3. free' \in SUBSET Clusters
  BY <1>1 DEF FreeAfter
<1>4. CASE ~Intact(handle.header)
  BY <1>1, <1>3, <1>4, FailingIsSound DEF Extend, disk
<1>5. CASE Intact(handle.header)
  <2> DEFINE tail == TailOf(handle.num, handle.header)
  <2>1. handle.num \in FileNumbers /\ handle.header \in GoodHeader
    BY HandleFacts DEF Extend
  <2>2. tail \in FileNumbers
    <3>1. CASE handle.header.ext = NoFid
      BY <2>1, <3>1 DEF TailOf
    <3>2. CASE handle.header.ext # NoFid
      BY <1>5, <2>1, <3>2, TailEndsChain, SegmentsAreSlots
    <3>3. QED
      BY <3>1, <3>2
  <2>3. /\ call' \in GoodCall /\ call'.step = "append" /\ call'.todo = exts /\ call'.tail = tail
        /\ call'.excess = {} /\ call'.creates = NoFid
    <3> HIDE DEF tail
    <3>1. call' = [NoCall EXCEPT !.step = "append", !.todo = exts, !.tail = tail]
      BY <1>1, <1>5 DEF tail
    <3>2. QED
      BY <1>2, <2>2, <3>1, FidFacts DEF GoodCall, Steps, NoCall
  <2>4. SeqLeft'
    BY DEF Extend, SeqLeft, disk
  <2>5. handle' = handle /\ handle # NoHandle /\ mounted' = mounted /\ mounted
    BY <1>1, <1>5 DEF Extend, status, Ready
  <2>6. Underway(call)'
    BY <1>2, <2>2, <2>3, <2>4, <2>5 DEF Underway
  <2>7. QED
    BY <1>1, <1>3, <1>5, <2>3, <2>5, <2>6 DEF Extend, status, disk
<1>6. QED
  BY <1>4, <1>5

\* The first extent left, and those after it.
LEMMA TodoFacts ==
  ASSUME NEW todo \in Seq(GoodExtent), todo # <<>>
  PROVE  /\ Head(todo) \in GoodExtent /\ Head(todo) = todo[1] /\ 1 \in DOMAIN todo
         /\ Tail(todo) \in Seq(GoodExtent)
         /\ \A i \in DOMAIN Tail(todo) : Tail(todo)[i] = todo[i + 1] /\ i + 1 \in DOMAIN todo
OBVIOUS

\* The call that goes on when an extent was recorded.
LEMMA RecordedFacts ==
  ASSUME NEW c \in GoodCall, c.todo # <<>>
  PROVE  /\ Recorded(c) \in GoodCall /\ Recorded(c).todo = Tail(c.todo)
         /\ Recorded(c).step = IF Tail(c.todo) = <<>> THEN "highest" ELSE "append"
         /\ Recorded(c).creates = c.creates /\ Recorded(c).version = c.version
         /\ Recorded(c).excess = c.excess /\ Recorded(c).next = c.next
         /\ Recorded(c).tail = c.tail
<1>1. Tail(c.todo) \in Seq(GoodExtent)
  BY CallFacts, TodoFacts
<1>2. QED
  BY <1>1 DEF GoodCall, Recorded, Steps

\* What an extent appended to a header makes of it.
LEMMA GrownFacts ==
  ASSUME NEW h \in GoodHeader, NEW e \in GoodExtent, Fits(h, e)
  PROVE  LET grown == [h EXCEPT !.map = AddExtent(h.map, e)]
         IN  /\ grown \in GoodHeader /\ grown.live = h.live /\ grown.seq = h.seq
             /\ grown.ext = h.ext /\ grown.map = AddExtent(h.map, e)
             /\ \A i \in DOMAIN grown.map :
                   ClustersOf(grown.map[i]) \subseteq
                      (IF i \in DOMAIN h.map THEN ClustersOf(h.map[i]) ELSE {})
                      \cup (IF i = Len(grown.map) THEN ClustersOf(e) ELSE {})
<1>1. h.map \in GoodMap /\ h.ext \in GoodFid
  BY HeaderFacts
<1>2. /\ AddExtent(h.map, e) \in GoodMap
      /\ \A i \in DOMAIN AddExtent(h.map, e) :
                   ClustersOf(AddExtent(h.map, e)[i]) \subseteq
                      (IF i \in DOMAIN h.map THEN ClustersOf(h.map[i]) ELSE {})
                      \cup (IF i = Len(AddExtent(h.map, e)) THEN ClustersOf(e) ELSE {})
  BY <1>1, AddedExtent DEF Fits
<1>3. QED
  BY <1>1, <1>2, RemappedHeader

\* Writing a header over a slot's keeps room for a file ID in every blank slot.
LEMMA SeqStaysLeft ==
  ASSUME SeqLeft, NEW n \in FileNumbers, NEW h, slot \in [FileNumbers -> GoodHeader],
         slot' = [slot EXCEPT ![n] = h],
         h.live \/ (h.live = slot[n].live /\ h.seq = slot[n].seq)
  PROVE  SeqLeft'
BY DEF SeqLeft

\* Extend's other steps.
LEMMA AppendingIsSound ==
  ASSUME Sound, AppendExtent \/ LinkSegment \/ AppendFails \/ WriteSegment \/ SegmentFails
  PROVE  Sound'
<1> USE DEF Sound, Typed
<1>1. CASE AppendExtent
  <2> DEFINE h == Known(call.tail)
             e == Head(call.todo)
             grown == [h EXCEPT !.map = AddExtent(h.map, e)]
  <2>1. /\ call.step = "append" /\ Fits(h, e) /\ slot' = [slot EXCEPT ![call.tail] = grown]
        /\ Follow(call.tail, grown) /\ call' = Recorded(call)
    BY <1>1 DEF AppendExtent
  <2>2. call.todo # <<>> /\ call.tail \in FileNumbers /\ SeqLeft /\ handle # NoHandle
        /\ call.excess = {} /\ call.creates = NoFid /\ mounted
    BY <2>1 DEF Underway
  <2>3. h \in GoodHeader /\ (call.tail = handle.num => h.live)
        /\ (call.tail # handle.num => h = slot[call.tail])
    BY <2>2, KnownFacts
  <2>4. e \in GoodExtent
    BY <2>2, CallFacts, TodoFacts
  <2>5. grown \in GoodHeader /\ grown.live = h.live /\ grown.seq = h.seq
    BY <2>1, <2>3, <2>4, GrownFacts
  <2> HIDE DEF grown, h, e
  <2>6. slot' \in [FileNumbers -> GoodHeader]
    BY <2>1, <2>5
  <2>7. handle' \in GoodHandle /\ handle' # NoHandle /\ handle'.num = handle.num
    BY <2>1, <2>2, <2>3, <2>5, FollowingIsSound
  <2>8. SeqLeft'
    BY <2>1, <2>2, <2>3, <2>5, SeqStaysLeft
  <2>9. /\ call' \in GoodCall /\ call'.step \in {"append", "highest"}
        /\ call'.step = "append" => call'.todo # <<>>
        /\ call'.tail = call.tail /\ call'.excess = {} /\ call'.creates = NoFid
    BY <2>1, <2>2, RecordedFacts
  <2>10. Underway(call)'
    BY <2>2, <2>7, <2>8, <2>9 DEF Underway
  <2>11. QED
    BY <1>1, <2>2, <2>6, <2>7, <2>9, <2>10 DEF AppendExtent, status
<1>2. CASE LinkSegment
  <2> DEFINE h == Known(call.tail)
  <2>1. call.step = "append"
    BY <1>2 DEF LinkSegment
  <2>2. PICK n \in FileNumbers \ used :
              /\ FreeSlot(n)
              /\ slot' = [slot EXCEPT ![call.tail] = [h EXCEPT !.ext = NextFid(n)]]
              /\ used' = MarkSegment(n)
              /\ call' = [call EXCEPT !.step = "segment", !.next = NextFid(n)]
    BY <1>2 DEF LinkSegment
  <2>3. call.todo # <<>> /\ call.tail \in FileNumbers /\ SeqLeft /\ handle # NoHandle
        /\ call.excess = {} /\ call.creates = NoFid /\ mounted
    BY <2>1 DEF Underway
  <2>4. h \in GoodHeader /\ (call.tail = handle.num => h.live)
        /\ (call.tail # handle.num => h = slot[call.tail])
    BY <2>3, KnownFacts
  <2>5. NextFid(n) \in GoodFid /\ NextFid(n) # NoFid
    BY <2>2, <2>3, NextFidFacts DEF FreeSlot, SeqLeft
  <2> DEFINE linked == [h EXCEPT !.ext = NextFid(n)]
  <2>6. linked \in GoodHeader /\ linked.live = h.live /\ linked.seq = h.seq
    BY <2>4, <2>5, RelinkedHeader
  <2>7. slot' = [slot EXCEPT ![call.tail] = linked]
    BY <2>2
  <2> HIDE DEF linked, h
  <2>8. slot' \in [FileNumbers -> GoodHeader]
    BY <2>6, <2>7
  <2>9. SeqLeft'
    BY <2>3, <2>4, <2>6, <2>7, SeqStaysLeft
  <2>10. /\ call' \in GoodCall /\ call'.step = "segment" /\ call'.next = NextFid(n)
         /\ call'.todo = call.todo /\ call'.tail = call.tail
         /\ call'.excess = {} /\ call'.creates = NoFid
    BY <2>2, <2>3, <2>5 DEF GoodCall, Steps
  <2>11. handle' = handle
    BY <1>2 DEF LinkSegment
  <2>12. call.tail = handle.num => slot'[call.tail].live
    BY <2>3, <2>4, <2>6, <2>7
  <2>13. Underway(call)'
    BY <2>3, <2>5, <2>9, <2>10, <2>11, <2>12 DEF Underway
  <2>14. used' \in SUBSET FileNumbers
    BY <2>2 DEF MarkSegment
  <2>15. QED
    BY <1>2, <2>3, <2>8, <2>10, <2>13, <2>14 DEF LinkSegment, status
<1>3. CASE AppendFails
  BY <1>3, FailingIsSound DEF AppendFails, WriteFails, disk
<1>4. CASE WriteSegment
  <2> DEFINE n == call.next.num
  <2>1. /\ call.step = "segment"
        /\ slot' = [slot EXCEPT ![n] = HeaderOf(call.next, <<Head(call.todo)>>)]
        /\ Follow(call.tail, slot[call.tail])
        /\ call' = [Recorded(call) EXCEPT !.tail = n, !.next = NoFid]
    BY <1>4 DEF WriteSegment
  <2>2. call.todo # <<>> /\ call.tail \in FileNumbers /\ SeqLeft /\ handle # NoHandle
        /\ call.excess = {} /\ call.creates = NoFid /\ mounted /\ call.next # NoFid
        /\ (call.tail = handle.num => slot[call.tail].live)
    BY <2>1 DEF Underway
  <2>3. n \in FileNumbers /\ call.next \in GoodFid
    BY <2>2, CallFacts, FidFacts
  <2>4. Head(call.todo) \in GoodExtent
    BY <2>2, CallFacts, TodoFacts
  <2> DEFINE h == HeaderOf(call.next, <<Head(call.todo)>>)
  <2>5. h \in GoodHeader /\ h.live
    BY <2>3, <2>4, HeaderFacts, ShortMaps
  <2>6. slot' = [slot EXCEPT ![n] = h]
    BY <2>1
  <2> HIDE DEF h, n
  <2>7. slot' \in [FileNumbers -> GoodHeader]
    BY <2>5, <2>6
  <2>8. SeqLeft'
    BY <2>2, <2>3, <2>5, <2>6, SeqStaysLeft
  <2>9. handle' \in GoodHandle /\ handle' # NoHandle
    BY <2>1, <2>2, FollowingIsSound
  <2>10. /\ call' \in GoodCall /\ call'.step \in {"append", "highest"}
         /\ call'.step = "append" => call'.todo # <<>>
         /\ call'.tail = n /\ call'.excess = {} /\ call'.creates = NoFid
    <3>1. /\ Recorded(call) \in GoodCall /\ Recorded(call).step \in {"append", "highest"}
          /\ Recorded(call).step = "append" => Recorded(call).todo # <<>>
          /\ Recorded(call).excess = {} /\ Recorded(call).creates = NoFid
      BY <2>2, RecordedFacts
    <3>2. QED
      BY <2>1, <2>3, <3>1, FidFacts DEF GoodCall
  <2>11. Underway(call)'
    BY <2>3, <2>8, <2>9, <2>10 DEF Underway
  <2>12. QED
    BY <1>4, <2>2, <2>7, <2>9, <2>10, <2>11 DEF WriteSegment, status
<1>5. CASE SegmentFails
  BY <1>5, FailingIsSound DEF SegmentFails, WriteFails, disk
<1>6. QED
  BY <1>1, <1>2, <1>3, <1>4, <1>5

\* Flushing, dismounting, crashing, mounting and repairing.
LEMMA VolumeIsSound ==
  ASSUME Sound,
         \/ \E why \in {"flush", "dismount"} : FlushBitmap(why) \/ FlushBitmapFails(why)
         \/ FlushIndexBitmap \/ FlushIndexBitmapFails \/ DismountFails
         \/ Crash \/ Mount \/ RepairDisk \/ RepairFails
  PROVE  Sound'
<1> USE DEF Sound, Typed
<1>1. ASSUME NEW why \in {"flush", "dismount"}, FlushBitmap(why) \/ FlushBitmapFails(why)
      PROVE  Sound'
  <2>1. /\ Ready /\ (why = "dismount" => handle = NoHandle)
        /\ call' = [NoCall EXCEPT !.step = why] /\ mounted' = mounted /\ crashed' = crashed
        /\ slot' = slot /\ entry' = entry /\ diskUsed' = diskUsed /\ free' = free
        /\ used' = used /\ handle' = handle /\ diskFree' \in {free, diskFree}
    BY <1>1 DEF FlushBitmap, FlushBitmapFails, status, disk
  <2>2. failed' \in SUBSET Steps /\ suspect' \in BOOLEAN
    BY <1>1 DEF FlushBitmap, FlushBitmapFails, status, Steps
  <2>3. call' \in GoodCall /\ call'.step = why /\ call'.excess = {} /\ call'.creates = NoFid
    BY <2>1, NoCallFacts DEF GoodCall, NoCall, Steps
  <2>4. Underway(call)'
    BY <2>1, <2>3 DEF Underway
  <2>5. QED
    BY <2>1, <2>2, <2>3, <2>4 DEF Ready
<1>2. CASE FlushIndexBitmap
  <2>1. call' = NoCall /\ mounted' \in BOOLEAN /\ call'.step = "none"
    BY <1>2, NoCallFacts DEF FlushIndexBitmap
  <2>2. ~mounted' => handle' = NoHandle
    BY <1>2 DEF FlushIndexBitmap, Underway
  <2>3. QED
    BY <1>2, <2>1, <2>2, CallEnds DEF FlushIndexBitmap
<1>3. CASE FlushIndexBitmapFails
  BY <1>3, FailingIsSound DEF FlushIndexBitmapFails, WriteFails, disk
<1>4. CASE DismountFails
  <2>1. handle = NoHandle
    BY <1>4 DEF DismountFails, Underway
  <2>2. failed' \in SUBSET Steps
    BY <1>4 DEF DismountFails, Steps
  <2>3. QED
    BY <1>4, <2>1, <2>2, CallEnds, NoCallFacts DEF DismountFails, disk
<1>5. CASE Crash
  <2>1. crashed' \in SUBSET Steps /\ handle' \in GoodHandle
    BY <1>5, CallFacts DEF Crash, GoodHandle
  <2>2. QED
    BY <1>5, <2>1, CallEnds, NoCallFacts DEF Crash, disk
<1>6. CASE Mount
  <2>1. call' = NoCall
    BY <1>6 DEF Mount, Underway
  <2>2. QED
    BY <1>6, <2>1, CallEnds DEF Mount, disk
<1>7. CASE RepairDisk
  <2>1. call' = NoCall /\ free' \in SUBSET Clusters /\ diskFree' \in SUBSET Clusters
    BY <1>7 DEF RepairDisk, Repaired, Discrepancies, Underway
  <2>2. QED
    BY <1>7, <2>1, CallEnds DEF RepairDisk
<1>8. CASE RepairFails
  <2>1. call' = NoCall /\ free' \in SUBSET Clusters /\ failed' \in SUBSET Steps
    BY <1>8 DEF RepairFails, Repaired, Discrepancies, Underway, Steps
  <2>2. QED
    BY <1>8, <2>1, CallEnds DEF RepairFails, disk
<1>9. QED
  BY <1>1, <1>2, <1>3, <1>4, <1>5, <1>6, <1>7, <1>8

\* Every step.
LEMMA SoundInductive ==
  ASSUME Sound, [Next]_vars PROVE Sound'
<1>1. CASE vars' = vars
  BY <1>1 DEF vars, disk, memory, status, Sound, Typed, Underway, SeqLeft
<1>2. CASE Next
  BY <1>2, DirectoryIsSound, FreeingIsSound, OpeningIsSound, ExtendIsSound,
     AppendingIsSound, VolumeIsSound DEF Next
<1>3. QED
  BY <1>1, <1>2

\* What has the types of the proofs has those of the model.
LEMMA SoundIsTyped ==
  ASSUME Sound PROVE TypeOK
<1>1. GoodMap \subseteq Maps
  <2>1. \A n \in 0 .. MapRoom : [1 .. n -> GoodExtent] \subseteq [1 .. n -> Extent]
    BY DEF GoodExtent
  <2>2. QED
    BY <2>1 DEF GoodMap, Maps
<1>2. GoodHeader \subseteq Header
  BY <1>1, FidFacts DEF GoodHeader, Header
<1>3. slot \in [FileNumbers -> Header] /\ entry \in [Versions -> Fid]
  BY <1>2, FidFacts DEF Sound, Typed
<1>4. handle \in [num: FileNumbers \cup {0}, header: Header]
  BY <1>2, HandleFacts DEF Sound, Typed
<1>5. DOMAIN call = DOMAIN NoCall
  BY DEF Sound, Typed, GoodCall, NoCall
<1>6. \A i \in DOMAIN call.todo : call.todo[i] \in Extent
  <2>1. call.todo \in Seq(GoodExtent)
    BY CallFacts DEF Sound, Typed
  <2>2. \A todo \in Seq(GoodExtent) : \A i \in DOMAIN todo : todo[i] \in GoodExtent
    OBVIOUS
  <2>3. \A e \in GoodExtent : e \in Extent
    BY DEF GoodExtent
  <2>4. QED
    BY <2>1, <2>2, <2>3
<1>7. QED
  BY <1>3, <1>4, <1>5, <1>6, CallFacts, FidFacts DEF Sound, Typed, TypeOK

\* The volume, its memory and the call in progress are always of their types: no
\* map grows beyond its header, no file ID beyond its slots.
THEOREM VolumeTypes == Spec => []TypeOK
<1>1. Init => Sound
  BY InitIsSound
<1>2. Sound /\ [Next]_vars => Sound'
  BY SoundInductive
<1>3. Sound => TypeOK
  BY SoundIsTyped
<1>4. QED
  BY <1>1, <1>2, <1>3, PTL DEF Spec

-----------------------------------------------------------------------------
(* Named is inductive, but for torn links.                                 *)

\* Names have slots.
LEMMA NamesAreSlots ==
  ASSUME Sound
  PROVE  /\ \A v \in Entered : v \in Versions /\ entry[v] \in GoodFid /\ entry[v].num \in FileNumbers
         /\ \A n \in Linked : /\ n \in FileNumbers /\ slot[n].live
                              /\ slot[n].ext \in GoodFid /\ slot[n].ext.num \in FileNumbers
BY FidFacts, HeaderFacts DEF Sound, Typed, Entered, Linked

\* While no link is being made, a blank slot has no name.
LEMMA BlankIsUnnamed ==
  ASSUME Sound, NamesResolve, call.step # "segment", NEW n \in FileNumbers, ~slot[n].live
  PROVE  Unnamed(n) /\ n \notin Linked
BY DEF NamesResolve, Unnamed, Resolves, Linked

\* Steps that leave headers and entries alone, and end the call or start one that
\* changes none, keep the names, unless a link was being made.
LEMMA QuietKeepsNames ==
  ASSUME Sound, Named, slot' = slot, entry' = entry, call.step # "segment",
         call'.step \notin {"insert", "remove", "free", "append", "segment"},
         call'.creates = NoFid, call'.excess = {}, handle' \in {handle, NoHandle}
  PROVE  Named'
<1>1. NamesResolve'
  BY DEF Named, NamesResolve, Resolves, Entered, Linked
<1>2. NamedOnce'
  BY DEF Named, NamedOnce, Entered, Linked
<1>3. CreatesFile' /\ FreesUnnamed' /\ LinksBlank'
  BY DEF CreatesFile, FreesUnnamed, LinksBlank
<1>4. HandleInStep'
  <2>1. SUFFICES ASSUME handle' # NoHandle, handle' = handle PROVE HandleInStep'
    BY DEF HandleInStep
  <2>2. PICK v \in Versions : entry[v] = [num |-> handle.num, seq |-> handle.header.seq]
    BY <2>1 DEF Named, HandleInStep
  <2>3. slot[handle.num] = handle.header
    BY <2>1 DEF Named, HandleInStep
  <2>4. QED
    BY <2>1, <2>2, <2>3 DEF HandleInStep
<1>5. QED
  BY <1>1, <1>2, <1>3, <1>4 DEF Named

\* So does a call that fails.
LEMMA FailingKeepsNames ==
  ASSUME Sound, Named, slot' = slot, entry' = entry, Fails, Untorn'
  PROVE  Named'
<1>1. call' = NoCall /\ handle' = handle /\ call.step # "segment"
  BY DEF Fails, Untorn
<1>2. QED
  BY <1>1, NoCallFacts, QuietKeepsNames

\* A header is created in a blank slot, which nobody names.
LEMMA CreateHeaderKeepsNames ==
  ASSUME Sound, Named, NEW v \in Versions, CreateHeader(v)
  PROVE  Named'
<1>1. PICK n \in FileNumbers \ used :
             /\ FreeSlot(n) /\ slot[n].seq < MaxSeq
             /\ slot' = [slot EXCEPT ![n] = HeaderOf(NextFid(n), <<>>)]
             /\ call' = [NoCall EXCEPT !.step = "insert", !.creates = NextFid(n), !.version = v]
  BY DEF CreateHeader
<1>2. /\ call.step = "none" /\ entry' = entry /\ handle' = NoHandle
      /\ MayCreate(v)
  BY DEF CreateHeader, Ready
<1>3. ~slot[n].live
  BY <1>1 DEF FreeSlot
<1>4. Unnamed(n) /\ n \notin Linked
  BY <1>2, <1>3, BlankIsUnnamed DEF Named
<1>5. NextFid(n) \in GoodFid /\ NextFid(n).num = n
  BY <1>1, NextFidFacts DEF Sound, Typed
<1>6. /\ call'.step = "insert" /\ call'.creates = NextFid(n)
      /\ call'.version = v
  BY <1>1 DEF NoCall
<1>7. slot'[n] = HeaderOf(NextFid(n), <<>>) /\ slot'[n].ext = NoFid
      /\ \A m \in FileNumbers : m # n => slot'[m] = slot[m]
  BY <1>1, <1>5, HeaderFacts, ShortMaps DEF Sound, Typed
<1>8. Entered' = Entered /\ Linked' = Linked /\ \A m \in Linked : slot'[m] = slot[m]
  BY <1>2, <1>4, <1>7 DEF Entered, Linked
<1>9. NamesResolve'
  BY <1>2, <1>4, <1>7, <1>8, NamesAreSlots DEF Named, NamesResolve, Unnamed, Resolves
<1>10. NamedOnce'
  BY <1>2, <1>4, <1>7, <1>8 DEF Named, NamedOnce
<1>11. CreatesFile'
  <2>1. Unnamed(n)'
    BY <1>2, <1>4, <1>7, <1>8 DEF Unnamed
  <2>2. AnyVersion \/ \A w \in Entered : w < v
    BY <1>2 DEF MayCreate
  <2>3. QED
    BY <1>2, <1>5, <1>6, <1>7, <1>8, <2>1, <2>2 DEF CreatesFile
<1>12. FreesUnnamed' /\ LinksBlank' /\ HandleInStep'
  BY <1>2, <1>6 DEF FreesUnnamed, LinksBlank, HandleInStep
<1>13. QED
  BY <1>9, <1>10, <1>11, <1>12 DEF Named

\* The version limit does not delete the version just created.
LEMMA NewestIsKept ==
  ASSUME Sound, Careful, NEW v \in Versions, AnyVersion \/ \A w \in Entered : w < v
  PROVE  v \notin Excess(Entered \cup {v})
<1>1. CASE VersionLimit = 0
  BY <1>1 DEF Excess
<1>2. CASE VersionLimit # 0
  <2>1. \A w \in Entered \cup {v} : w \in Nat /\ ~(w > v)
    BY <1>2, Numbers, NamesAreSlots DEF Careful
  <2>2. {w \in Entered \cup {v} : w > v} = {}
    BY <2>1
  <2>3. Cardinality({w \in Entered \cup {v} : w > v}) = 0
    BY <2>2, FS_EmptySet
  <2>4. ~(0 >= VersionLimit)
    BY <1>2, Numbers
  <2>5. QED
    BY <1>2, <2>3, <2>4 DEF Excess, ExcessOf
<1>3. QED
  BY <1>1, <1>2

\* The new header gets its name, and the version it gets is not one to delete.
LEMMA InsertEntryKeepsNames ==
  ASSUME Sound, Careful, Named, InsertEntry
  PROVE  Named'
<1> PICK v, f : v = call.version /\ f = call.creates
  OBVIOUS
<1> PICK c : c = [call EXCEPT !.excess = Excess(Entered \cup {v})]
  OBVIOUS
<1>1. /\ call.step = "insert" /\ entry' = [entry EXCEPT ![v] = f] /\ DeleteMore(c)
      /\ slot' = slot
  BY DEF InsertEntry
<1>2. v \in Versions /\ f \in GoodFid /\ f # NoFid /\ f.num \in FileNumbers
  BY <1>1, CallFacts, FidFacts DEF Sound, Typed, Underway
<1>3. /\ handle = NoHandle /\ slot[f.num] = HeaderOf(f, <<>>) /\ Unnamed(f.num)
      /\ AnyVersion \/ \A w \in Entered : w < v
  BY <1>1, <1>2 DEF Named, CreatesFile
<1>4. v \notin c.excess
  <2>1. c.excess = Excess(Entered \cup {v})
    BY DEF Sound, Typed, GoodCall
  <2>2. QED
    BY <1>2, <1>3, <2>1, NewestIsKept
<1>5. c.creates = f /\ c.version = v
  BY DEF Sound, Typed, GoodCall
<1>6. f.num # 0 /\ slot'[f.num].live /\ slot'[f.num].seq = f.seq
  BY <1>1, <1>2, <1>3, HeaderFacts, ShortMaps, Numbers
<1>7. Linked' = Linked /\ Entered' = Entered \cup {v} /\ entry'[v] = f
      /\ \A w \in Entered : w # v => entry'[w] = entry[w]
  BY <1>1, <1>2 DEF Linked, Entered, Sound, Typed
<1>8. NamesResolve'
  BY <1>1, <1>6, <1>7 DEF Named, NamesResolve, Resolves
<1>9. NamedOnce'
  BY <1>1, <1>3, <1>7 DEF Named, NamedOnce, Unnamed
<1>10. CASE c.excess = {}
  <2>1. call' = NoCall /\ handle' = [num |-> f.num, header |-> HeaderOf(f, <<>>)]
    BY <1>1, <1>2, <1>5, <1>10 DEF DeleteMore, Returned
  <2>2. CreatesFile' /\ FreesUnnamed' /\ LinksBlank'
    BY <2>1, NoCallFacts DEF CreatesFile, FreesUnnamed, LinksBlank
  <2>3. handle'.num = f.num /\ handle'.header = HeaderOf(f, <<>>) /\ handle'.header.seq = f.seq
    BY <1>2, <2>1, HeaderFacts, ShortMaps
  <2>4. f = [num |-> f.num, seq |-> f.seq]
    BY <1>2, FidFacts
  <2>5. entry'[v] = [num |-> handle'.num, seq |-> handle'.header.seq]
    BY <1>7, <2>3, <2>4
  <2>6. HandleInStep'
    BY <1>1, <1>2, <1>3, <2>1, <2>3, <2>5, NoCallFacts DEF HandleInStep
  <2>7. QED
    BY <1>8, <1>9, <2>2, <2>6 DEF Named
<1>11. CASE c.excess # {}
  <2>1. call' = [c EXCEPT !.step = "remove"] /\ handle' = NoHandle
    BY <1>1, <1>3, <1>11 DEF DeleteMore
  <2>2. call'.step = "remove" /\ call'.creates = f /\ call'.version = v /\ call'.excess = c.excess
    BY <1>5, <2>1 DEF Sound, Typed, GoodCall
  <2>3. CreatesFile'
    BY <1>1, <1>2, <1>3, <1>4, <1>7, <2>1, <2>2 DEF CreatesFile
  <2>4. FreesUnnamed' /\ LinksBlank' /\ HandleInStep'
    BY <2>1, <2>2 DEF FreesUnnamed, LinksBlank, HandleInStep
  <2>5. QED
    BY <1>8, <1>9, <2>3, <2>4 DEF Named
<1>12. QED
  BY <1>10, <1>11

\* A deletion begins: no name is changed yet.
LEMMA DeleteKeepsNames ==
  ASSUME Sound, Named, Delete
  PROVE  Named'
<1>1. PICK excess \in {{v} : v \in Entered} \cup {ExcessOf(Entered, 1)} :
           /\ \A v \in excess : Unopened(entry[v])
           /\ call' = [NoCall EXCEPT !.step = "remove", !.excess = excess]
  BY DEF Delete
<1>2. /\ call.step = "none" /\ slot' = slot /\ entry' = entry /\ handle' = handle
      /\ call'.step = "remove" /\ call'.excess = excess /\ call'.creates = NoFid
  BY <1>1 DEF Delete, disk, Ready, NoCall
<1>3. NamesResolve' /\ NamedOnce'
  BY <1>2 DEF Named, NamesResolve, NamedOnce, Resolves, Entered, Linked
<1>4. CreatesFile' /\ FreesUnnamed' /\ LinksBlank'
  BY <1>2 DEF CreatesFile, FreesUnnamed, LinksBlank
<1>5. HandleInStep'
  <2>1. SUFFICES ASSUME handle # NoHandle PROVE HandleInStep'
    BY <1>2 DEF HandleInStep
  <2>2. PICK v \in Versions : entry[v] = [num |-> handle.num, seq |-> handle.header.seq]
    BY <2>1 DEF Named, HandleInStep
  <2>3. v \notin excess
    BY <1>1, <2>1, <2>2 DEF Unopened
  <2>4. slot[handle.num] = handle.header
    BY <1>2, <2>1 DEF Named, HandleInStep
  <2>5. QED
    BY <1>2, <2>2, <2>3, <2>4 DEF HandleInStep
<1>6. QED
  BY <1>3, <1>4, <1>5 DEF Named

\* The version to be deleted next.
LEMMA NextToDelete ==
  ASSUME Sound, call.step = "remove"
  PROVE  Min(call.excess) \in call.excess /\ Min(call.excess) \in Versions
BY CallFacts, MinInSet, Numbers DEF Sound, Typed, Underway

\* The entry goes, and its header is the call's alone.
LEMMA RemoveEntryKeepsNames ==
  ASSUME Sound, Named, RemoveEntry
  PROVE  Named'
<1> PICK v, f : v = Min(call.excess) /\ f = entry[v]
  OBVIOUS
<1>1. /\ call.step = "remove" /\ Resolves(f) /\ slot' = slot /\ handle' = handle
      /\ entry' = [entry EXCEPT ![v] = NoFid]
      /\ call' = [call EXCEPT !.step = "free", !.excess = @ \ {v}, !.next = f]
  BY DEF RemoveEntry, Readable
<1>2. v \in call.excess /\ v \in Versions
  BY <1>1, NextToDelete
<1>3. v \in Entered /\ f \in GoodFid /\ f.num \in FileNumbers
  BY <1>1, <1>2, FidFacts DEF Entered, Sound, Typed, Resolves, NoFid
<1>4. /\ call'.step = "free" /\ call'.next = f /\ call'.excess = call.excess \ {v}
      /\ call'.creates = call.creates /\ call'.version = call.version
  BY <1>1 DEF Sound, Typed, GoodCall
<1>5. Linked' = Linked /\ Entered' = Entered \ {v} /\ \A w \in Versions : w # v => entry'[w] = entry[w]
  BY <1>1, <1>2 DEF Linked, Entered, Sound, Typed
<1>6. NamesResolve' /\ NamedOnce'
  BY <1>1, <1>5, NamesAreSlots DEF Named, NamesResolve, NamedOnce, Resolves
<1>7. FreesUnnamed'
  <2>1. /\ \A w \in Entered : w # v => entry[w].num # f.num
        /\ \A m \in Linked : slot[m].ext.num # f.num
    BY <1>3 DEF Named, NamedOnce
  <2>2. Unnamed(f.num)'
    BY <1>1, <1>5, <2>1, NamesAreSlots DEF Unnamed
  <2>3. QED
    BY <1>1, <1>4, <2>2 DEF FreesUnnamed, Resolves
<1>8. CreatesFile'
  BY <1>1, <1>2, <1>4, <1>5 DEF Named, CreatesFile
<1>9. LinksBlank'
  BY <1>4 DEF LinksBlank
<1>10. HandleInStep'
  BY <1>1, <1>2, <1>4, <1>5 DEF Named, HandleInStep
<1>11. QED
  BY <1>6, <1>7, <1>8, <1>9, <1>10 DEF Named

\* A file whose entry resolves has a chain that ends: no deletion stops there.
LEMMA RemoveFailsKeepsNames ==
  ASSUME Sound, Named, RemoveFails, Untorn'
  PROVE  Named'
<1> PICK v : v = Min(call.excess)
  OBVIOUS
<1>1. call.step = "remove" /\ slot' = slot
  BY DEF RemoveFails
<1>2. v \in Versions
  BY <1>1, NextToDelete
<1>3. ASSUME Resolves(entry[v]) PROVE Intact(slot[entry[v].num])
  <2>1. v \in Entered
    BY <1>2, <1>3 DEF Entered, Resolves, NoFid
  <2>2. \A n \in Linked : Resolves(slot[n].ext)
    BY <1>1 DEF Named, NamesResolve
  <2>3. QED
    BY <1>3, <2>1, <2>2, FilesAreIntact DEF Sound, Typed, Named
<1>4. Fails /\ entry' = entry
  BY <1>3 DEF RemoveFails, WriteFails
<1>5. QED
  BY <1>1, <1>4, FailingKeepsNames

\* A header is blanked and the next of its chain is the call's alone.
LEMMA FreeSegmentKeepsNames ==
  ASSUME Sound, Named, FreeSegment
  PROVE  Named'
<1> PICK n, ext : n = call.next.num /\ ext = slot[n].ext
  OBVIOUS
<1>1. /\ call.step = "free" /\ slot' = [slot EXCEPT ![n] = Blank(slot[n].seq)] /\ entry' = entry
      /\ IF ext = NoFid THEN DeleteMore([call EXCEPT !.next = NoFid])
         ELSE call' = [call EXCEPT !.next = ext] /\ handle' = handle
  BY DEF FreeSegment
<1>2. n \in FileNumbers /\ slot[n].live /\ Unnamed(n)
  BY <1>1, CallFacts, FidFacts DEF Sound, Typed, Underway, Named, FreesUnnamed, Resolves
<1>3. /\ ~slot'[n].live
      /\ \A m \in FileNumbers : m # n => slot'[m] = slot[m]
  BY <1>1, <1>2, HeaderFacts DEF Sound, Typed
<1>4. Entered' = Entered /\ Linked' = Linked \ {n} /\ \A m \in Linked' : slot'[m] = slot[m]
  BY <1>1, <1>2, <1>3 DEF Entered, Linked
<1>5. NamesResolve'
  <2>1. \A v \in Entered : Resolves(entry[v]) /\ entry[v].num # n /\ entry[v].num \in FileNumbers
    BY <1>2, NamesAreSlots DEF Named, NamesResolve, Unnamed
  <2>2. \A v \in Entered' : Resolves(entry[v])'
    BY <1>1, <1>3, <1>4, <2>1 DEF Resolves
  <2>3. \A m \in Linked' : /\ Resolves(slot[m].ext) /\ slot[m].ext.num # n
                           /\ slot[m].ext.num \in FileNumbers
    BY <1>1, <1>2, <1>4, NamesAreSlots DEF Named, NamesResolve, Unnamed
  <2>4. \A m \in Linked' : Resolves(slot[m].ext)'
    BY <1>3, <1>4, <2>3 DEF Resolves
  <2>5. QED
    BY <2>2, <2>4 DEF NamesResolve
<1>6. NamedOnce'
  BY <1>1, <1>4 DEF Named, NamedOnce
<1>7. LinksBlank'
  BY <1>1, NoCallFacts DEF LinksBlank, DeleteMore, Sound, Typed, GoodCall
<1>8. handle # NoHandle =>
        \E w \in Versions \ call.excess :
            /\ entry[w] = [num |-> handle.num, seq |-> handle.header.seq]
            /\ handle.num \in FileNumbers /\ handle.num # n /\ slot[handle.num] = handle.header
  <2>1. SUFFICES ASSUME handle # NoHandle
                 PROVE  \E w \in Versions \ call.excess :
            /\ entry[w] = [num |-> handle.num, seq |-> handle.header.seq]
            /\ handle.num \in FileNumbers /\ handle.num # n /\ slot[handle.num] = handle.header
    OBVIOUS
  <2>2. PICK w \in Versions \ call.excess :
            entry[w] = [num |-> handle.num, seq |-> handle.header.seq]
    BY <2>1 DEF Named, HandleInStep
  <2>3. slot[handle.num] = handle.header /\ handle.num \in FileNumbers
    BY <1>1, <2>1, HandleFacts DEF Named, HandleInStep, Sound, Typed
  <2>4. w \in Entered
    BY <2>2, <2>3, FidFacts DEF Entered, Sound, Typed
  <2>5. QED
    BY <1>2, <2>2, <2>3, <2>4 DEF Unnamed
<1>9. CASE ext # NoFid
  <2>1. /\ call'.step = "free" /\ call'.next = ext /\ handle' = handle
        /\ call'.excess = call.excess /\ call'.creates = call.creates
        /\ call'.version = call.version
    BY <1>1, <1>9 DEF Sound, Typed, GoodCall
  <2>2. n \in Linked
    BY <1>2, <1>9 DEF Linked
  <2>3. Resolves(ext) /\ ext.num \in FileNumbers /\ ext.num # n
    BY <1>1, <1>2, <2>2, NamesAreSlots DEF Named, NamesResolve, Unnamed
  <2>4. Unnamed(ext.num)'
    BY <1>1, <1>4, <2>2 DEF Named, NamedOnce, Unnamed
  <2>5. FreesUnnamed'
    BY <1>3, <2>1, <2>3, <2>4 DEF FreesUnnamed, Resolves
  <2>6. CreatesFile'
    BY <1>1, <1>2, <1>3, <2>1, NamesAreSlots, FidFacts DEF Named, CreatesFile, Unnamed, Entered
  <2>7. HandleInStep'
    BY <1>1, <1>3, <1>8, <2>1 DEF HandleInStep
  <2>8. QED
    BY <1>5, <1>6, <1>7, <2>5, <2>6, <2>7 DEF Named
<1>10. CASE ext = NoFid
  <2>1. DeleteMore([call EXCEPT !.next = NoFid])
    BY <1>1, <1>10
  <2>2. PICK c : c = [call EXCEPT !.next = NoFid]
    OBVIOUS
  <2>3. /\ c.step = "free" /\ c.excess = call.excess /\ c.creates = call.creates
        /\ c.version = call.version /\ DeleteMore(c)
    BY <1>1, <2>1, <2>2 DEF Sound, Typed, GoodCall
  <2> PICK v, f : v = call.version /\ f = call.creates
    OBVIOUS
  <2>4. f # NoFid => /\ handle = NoHandle /\ slot[f.num] = HeaderOf(f, <<>>)
                     /\ v \in Versions \ call.excess /\ entry[v] = f /\ f.num # n
                     /\ f \in GoodFid /\ f.num \in FileNumbers
    <3>1. SUFFICES ASSUME f # NoFid
                   PROVE  /\ handle = NoHandle /\ slot[f.num] = HeaderOf(f, <<>>)
                          /\ v \in Versions \ call.excess /\ entry[v] = f /\ f.num # n
                          /\ f \in GoodFid /\ f.num \in FileNumbers
      OBVIOUS
    <3>2. /\ handle = NoHandle /\ slot[f.num] = HeaderOf(f, <<>>)
          /\ v \in Versions \ call.excess /\ entry[v] = f
      BY <1>1, <3>1 DEF Named, CreatesFile
    <3>3. v \in Entered
      BY <3>1, <3>2 DEF Entered
    <3>4. QED
      BY <1>2, <3>2, <3>3, NamesAreSlots DEF Unnamed
  <2>5. CASE c.excess # {}
    <3>1. call' = [c EXCEPT !.step = "remove"] /\ handle' = handle
      BY <2>3, <2>5 DEF DeleteMore
    <3>2. /\ call'.step = "remove" /\ call'.excess = call.excess /\ call'.creates = f
          /\ call'.version = v
      BY <2>2, <3>1 DEF Sound, Typed, GoodCall
    <3>3. CreatesFile'
      BY <1>1, <1>3, <2>4, <3>1, <3>2 DEF CreatesFile
    <3>4. FreesUnnamed'
      BY <3>2 DEF FreesUnnamed
    <3>5. HandleInStep'
      BY <1>1, <1>3, <1>8, <3>1, <3>2 DEF HandleInStep
    <3>6. QED
      BY <1>5, <1>6, <1>7, <3>3, <3>4, <3>5 DEF Named
  <2>6. CASE c.excess = {}
    <3>1. call' = NoCall /\ handle' = Returned(c)
      BY <2>3, <2>6 DEF DeleteMore
    <3>2. CreatesFile' /\ FreesUnnamed'
      BY <3>1, NoCallFacts DEF CreatesFile, FreesUnnamed
    <3>3. HandleInStep'
      <4>1. CASE f = NoFid
        <5>1. handle' = handle
          BY <2>3, <3>1, <4>1 DEF Returned
        <5>2. QED
          BY <1>1, <1>3, <1>8, <3>1, <5>1, NoCallFacts DEF HandleInStep
      <4>2. CASE f # NoFid
        <5>1. handle' = [num |-> f.num, header |-> HeaderOf(f, <<>>)]
          BY <2>3, <3>1, <4>2 DEF Returned
        <5>2. handle'.num = f.num /\ handle'.header = HeaderOf(f, <<>>) /\ handle'.header.seq = f.seq
          BY <2>4, <4>2, <5>1, HeaderFacts, ShortMaps
        <5>3. f = [num |-> f.num, seq |-> f.seq]
          BY <2>4, <4>2, FidFacts
        <5>4. entry'[v] = [num |-> handle'.num, seq |-> handle'.header.seq] /\ v \in Versions
          BY <1>1, <2>4, <4>2, <5>2, <5>3
        <5>5. slot'[handle'.num] = handle'.header
          BY <1>3, <2>4, <4>2, <5>2
        <5>6. QED
          BY <3>1, <5>4, <5>5, NoCallFacts DEF HandleInStep
      <4>3. QED
        BY <4>1, <4>2
    <3>4. QED
      BY <1>5, <1>6, <1>7, <3>2, <3>3 DEF Named
  <2>7. QED
    BY <2>5, <2>6
<1>11. QED
  BY <1>9, <1>10

\* The File opened knows the header it read.
LEMMA OpenForWriteKeepsNames ==
  ASSUME Sound, Named, NEW v \in Versions, OpenForWrite(v)
  PROVE  Named'
<1> PICK f : f = entry[v]
  OBVIOUS
<1>1. /\ call.step = "none" /\ Resolves(f) /\ slot' = slot /\ entry' = entry /\ call' = call
      /\ handle' = [num |-> f.num, header |-> slot[f.num]]
  BY DEF OpenForWrite, Ready, Readable, disk
<1>2. call = NoCall /\ f \in GoodFid
  BY <1>1 DEF Sound, Typed, Underway
<1>3. f = [num |-> f.num, seq |-> slot[f.num].seq]
  BY <1>1, <1>2, FidFacts DEF Resolves
<1>4. NamesResolve' /\ NamedOnce'
  BY <1>1 DEF Named, NamesResolve, NamedOnce, Resolves, Entered, Linked
<1>5. CreatesFile' /\ FreesUnnamed' /\ LinksBlank'
  BY <1>1, <1>2, NoCallFacts DEF CreatesFile, FreesUnnamed, LinksBlank
<1>6. HandleInStep'
  BY <1>1, <1>2, <1>3, NoCallFacts DEF HandleInStep
<1>7. QED
  BY <1>4, <1>5, <1>6 DEF Named

\* Until a link is made, Extend knows each header as it is on disk.
LEMMA KnownIsOnDisk ==
  ASSUME Named, handle # NoHandle, call.step # "segment", NEW n
  PROVE  Known(n) = slot[n]
BY DEF Named, HandleInStep, Known

\* Extend finds the last header of the File's chain.
LEMMA ExtendKeepsNames ==
  ASSUME Sound, Named, NEW k \in 1 .. MaxRequest, Extend(k), Untorn'
  PROVE  Named'
<1> PICK n : n = TailOf(handle.num, handle.header)
  OBVIOUS
<1>1. PICK exts \in Allocations(free, k) :
         IF Intact(handle.header)
         THEN /\ call' = [NoCall EXCEPT !.step = "append", !.todo = exts, !.tail = n]
              /\ handle' = handle
         ELSE Fails
  BY DEF Extend
<1>2. slot' = slot /\ entry' = entry /\ call.step = "none" /\ handle # NoHandle
  BY DEF Extend, disk, Ready
<1>3. CASE ~Intact(handle.header)
  BY <1>1, <1>2, <1>3, FailingKeepsNames
<1>4. CASE Intact(handle.header)
  <2>1. /\ handle' = handle /\ call'.step = "append" /\ call'.tail = n
        /\ call'.creates = NoFid /\ call'.excess = {}
    BY <1>1, <1>4 DEF NoCall
  <2>2. handle.num \in FileNumbers /\ handle.header.live /\ slot[handle.num] = handle.header
    BY <1>2, HandleFacts DEF Sound, Typed, Named, HandleInStep
  <2>3. \A m \in Linked : Resolves(slot[m].ext)
    BY <1>2 DEF Named, NamesResolve
  <2>4. slot[n].live /\ slot[n].ext = NoFid
    BY <1>4, <2>2, <2>3, TailIsLive DEF Sound, Typed
  <2>5. NamesResolve' /\ NamedOnce'
    BY <1>2 DEF Named, NamesResolve, NamedOnce, Resolves, Entered, Linked
  <2>6. LinksBlank' /\ CreatesFile' /\ FreesUnnamed'
    BY <1>2, <2>1, <2>4 DEF LinksBlank, CreatesFile, FreesUnnamed
  <2>7. HandleInStep'
    BY <1>2, <2>1 DEF Named, HandleInStep
  <2>8. QED
    BY <2>5, <2>6, <2>7 DEF Named
<1>5. QED
  BY <1>3, <1>4

\* A map grows: no name is changed.
LEMMA AppendExtentKeepsNames ==
  ASSUME Sound, Named, AppendExtent
  PROVE  Named'
<1> PICK n, h, e : n = call.tail /\ h = slot[n] /\ e = Head(call.todo)
  OBVIOUS
<1>1. /\ call.step = "append" /\ handle # NoHandle /\ n \in FileNumbers /\ call.todo # <<>>
      /\ call.creates = NoFid /\ call.excess = {}
  BY DEF AppendExtent, Sound, Underway
<1>2. Known(n) = h /\ h \in GoodHeader /\ e \in GoodExtent
  BY <1>1, KnownIsOnDisk, CallFacts, TodoFacts DEF Sound, Typed
<1> PICK grown : grown = [h EXCEPT !.map = AddExtent(h.map, e)]
  OBVIOUS
<1>3. /\ slot' = [slot EXCEPT ![n] = grown] /\ Follow(n, grown) /\ call' = Recorded(call)
      /\ entry' = entry /\ Fits(h, e)
  BY <1>2 DEF AppendExtent
<1>4. grown \in GoodHeader /\ grown.live = h.live /\ grown.seq = h.seq /\ grown.ext = h.ext
  BY <1>2, <1>3, GrownFacts
<1>5. /\ slot'[n] = grown
      /\ \A m \in FileNumbers : m # n => slot'[m] = slot[m]
      /\ \A m \in FileNumbers : /\ slot'[m].live = slot[m].live /\ slot'[m].seq = slot[m].seq
                                /\ slot'[m].ext = slot[m].ext
  BY <1>1, <1>3, <1>4 DEF Sound, Typed
<1>6. Entered' = Entered /\ Linked' = Linked
  BY <1>3, <1>5 DEF Entered, Linked
<1>7. NamesResolve'
  <2>1. \A f : f.num \in FileNumbers /\ Resolves(f) => (Resolves(f))'
    BY <1>5 DEF Resolves
  <2>2. /\ \A v \in Entered : entry'[v] = entry[v] /\ (Resolves(entry[v]))'
        /\ \A m \in Linked : slot'[m].ext = slot[m].ext /\ Resolves(slot[m].ext)
    BY <1>1, <1>3, <1>5, <2>1, NamesAreSlots DEF Named, NamesResolve
  <2>3. QED
    BY <1>6, <2>1, <2>2, NamesAreSlots DEF NamesResolve
<1>8. NamedOnce'
  BY <1>3, <1>5, <1>6, NamesAreSlots DEF Named, NamedOnce
<1>9. /\ call'.step \in {"append", "highest"} /\ call'.creates = NoFid /\ call'.excess = {}
      /\ call'.tail = n
  BY <1>1, <1>3, RecordedFacts DEF Sound, Typed
<1>10. LinksBlank' /\ CreatesFile' /\ FreesUnnamed'
  BY <1>1, <1>5, <1>9 DEF Named, LinksBlank, CreatesFile, FreesUnnamed
<1>11. HandleInStep'
  <2>1. /\ handle' # NoHandle /\ handle'.num = handle.num /\ handle.num \in FileNumbers
        /\ handle'.header = IF n = handle.num THEN grown ELSE handle.header
    <3>1. n = handle.num => grown.live
      BY <1>1, <1>2, <1>4, KnownFacts
    <3>2. QED
      BY <1>1, <1>3, <1>4, <3>1, FollowingIsSound, HandleFacts DEF Sound, Typed
  <2>2. slot[handle.num] = handle.header
        /\ \E v \in Versions : entry[v] = [num |-> handle.num, seq |-> handle.header.seq]
    BY <1>1 DEF Named, HandleInStep
  <2>3. handle'.header.seq = handle.header.seq
    BY <1>4, <2>1, <2>2
  <2>4. slot'[handle'.num] = handle'.header
    BY <1>5, <2>1, <2>2
  <2>5. QED
    BY <1>3, <1>9, <2>1, <2>2, <2>3, <2>4 DEF HandleInStep
<1>12. QED
  BY <1>7, <1>8, <1>10, <1>11 DEF Named

\* The link names a blank slot, which nobody else names.
LEMMA LinkSegmentKeepsNames ==
  ASSUME Sound, Named, LinkSegment
  PROVE  Named'
<1> PICK t, h : t = call.tail /\ h = slot[t]
  OBVIOUS
<1>1. /\ call.step = "append" /\ handle # NoHandle /\ t \in FileNumbers /\ SeqLeft
      /\ call.creates = NoFid /\ call.excess = {}
  BY DEF LinkSegment, Sound, Underway
<1>2. Known(t) = h /\ h \in GoodHeader /\ h.live /\ h.ext = NoFid
  BY <1>1, KnownIsOnDisk DEF Sound, Typed, Named, LinksBlank
<1>3. PICK n \in FileNumbers : /\ ~slot[n].live /\ slot[n].seq < MaxSeq
                               /\ slot' = [slot EXCEPT ![t] = [h EXCEPT !.ext = NextFid(n)]]
                               /\ call' = [call EXCEPT !.step = "segment", !.next = NextFid(n)]
  BY <1>1, <1>2 DEF LinkSegment, FreeSlot, SeqLeft
<1>4. entry' = entry /\ handle' = handle
  BY DEF LinkSegment
<1>5. NextFid(n) \in GoodFid /\ NextFid(n) # NoFid /\ NextFid(n).num = n
  BY <1>3, NextFidFacts DEF Sound, Typed
<1> PICK f, linked : f = NextFid(n) /\ linked = [h EXCEPT !.ext = f]
  OBVIOUS
<1>6. linked \in GoodHeader /\ linked.live /\ linked.seq = h.seq /\ linked.ext = f
  BY <1>2, <1>5, RelinkedHeader
<1>7. /\ slot'[t] = linked /\ t # n
      /\ \A m \in FileNumbers : m # t => slot'[m] = slot[m]
      /\ \A m \in FileNumbers : slot'[m].live = slot[m].live /\ slot'[m].seq = slot[m].seq
  BY <1>1, <1>2, <1>3, <1>6 DEF Sound, Typed
<1>8. Unnamed(n)
  BY <1>1, <1>3, BlankIsUnnamed DEF Named
<1>9. Entered' = Entered /\ Linked' = Linked \cup {t} /\ t \notin Linked
  <2>1. slot'[t].live /\ slot'[t].ext # NoFid /\ slot[t].ext = NoFid
    BY <1>2, <1>5, <1>6, <1>7
  <2>2. t \notin Linked /\ \A m \in FileNumbers : m \in Linked' <=> m \in Linked \cup {t}
    BY <1>7, <2>1 DEF Linked
  <2>3. Linked \subseteq FileNumbers /\ Linked' \subseteq FileNumbers
    BY DEF Linked
  <2>4. QED
    BY <1>1, <1>4, <2>2, <2>3 DEF Entered
<1>10. /\ call'.step = "segment" /\ call'.next = f /\ call'.tail = t
       /\ call'.creates = NoFid /\ call'.excess = {}
  BY <1>1, <1>3 DEF Sound, Typed, GoodCall
<1>11. NamesResolve'
  <2>1. \A g : g.num \in FileNumbers /\ Resolves(g) => (Resolves(g))'
    BY <1>7 DEF Resolves
  <2>2. /\ \A v \in Entered : entry'[v] = entry[v] /\ (Resolves(entry[v]))'
        /\ \A m \in Linked : slot'[m].ext = slot[m].ext /\ Resolves(slot[m].ext)
    BY <1>1, <1>4, <1>7, <1>9, <2>1, NamesAreSlots DEF Named, NamesResolve
  <2>3. QED
    BY <1>9, <1>10, <2>1, <2>2, NamesAreSlots DEF NamesResolve
<1>12. NamedOnce'
  <2>1. \A m \in Linked : slot'[m].ext = slot[m].ext
    BY <1>7, <1>9, NamesAreSlots
  <2>2. slot'[t].ext.num = n
    BY <1>5, <1>6, <1>7
  <2>3. QED
    BY <1>4, <1>8, <1>9, <2>1, <2>2 DEF Named, NamedOnce, Unnamed
<1>13. LinksBlank'
  <2>1. slot'[t].live /\ slot'[t].ext = f /\ ~slot'[n].live /\ f.num = n
    BY <1>3, <1>5, <1>6, <1>7
  <2>2. NextFid(n)' = f
    BY <1>7 DEF NextFid
  <2>3. QED
    BY <1>10, <2>1, <2>2 DEF LinksBlank
<1>14. CreatesFile' /\ FreesUnnamed'
  BY <1>10 DEF CreatesFile, FreesUnnamed
<1>15. HandleInStep'
  <2>1. slot[handle.num] = handle.header /\ handle.num \in FileNumbers
        /\ \E v \in Versions : entry[v] = [num |-> handle.num, seq |-> handle.header.seq]
    BY <1>1, HandleFacts DEF Named, HandleInStep, Sound, Typed
  <2>2. CASE t = handle.num
    BY <1>4, <1>7, <1>10, <2>1, <2>2 DEF HandleInStep
  <2>3. CASE t # handle.num
    BY <1>4, <1>7, <1>10, <2>1, <2>3 DEF HandleInStep
  <2>4. QED
    BY <2>2, <2>3
<1>16. QED
  BY <1>11, <1>12, <1>13, <1>14, <1>15 DEF Named

\* The segment the link names is written.
LEMMA WriteSegmentKeepsNames ==
  ASSUME Sound, Named, WriteSegment
  PROVE  Named'
<1> PICK t, f, n : t = call.tail /\ f = call.next /\ n = f.num
  OBVIOUS
<1> PICK e : e = Head(call.todo)
  OBVIOUS
<1>1. /\ call.step = "segment" /\ handle # NoHandle /\ t \in FileNumbers
      /\ call.creates = NoFid /\ call.excess = {} /\ call.todo # <<>> /\ f # NoFid
  BY DEF WriteSegment, Sound, Underway
<1>2. n \in FileNumbers /\ f \in GoodFid /\ e \in GoodExtent
  BY <1>1, CallFacts, FidFacts, TodoFacts DEF Sound, Typed
<1>3. slot[t].live /\ slot[t].ext = f /\ ~slot[n].live /\ t # n
  BY <1>1 DEF Named, LinksBlank
<1> PICK h : h = HeaderOf(f, <<e>>)
  OBVIOUS
<1>4. /\ slot' = [slot EXCEPT ![n] = h] /\ Follow(t, slot[t]) /\ entry' = entry
      /\ call' = [Recorded(call) EXCEPT !.tail = n, !.next = NoFid]
  BY DEF WriteSegment
<1>5. h.live /\ h.seq = f.seq /\ h.ext = NoFid
  BY <1>2, HeaderFacts, ShortMaps
<1>6. slot'[n] = h /\ \A m \in FileNumbers : m # n => slot'[m] = slot[m]
  BY <1>2, <1>4 DEF Sound, Typed
<1>7. n \notin Linked /\ Entered' = Entered /\ Linked' = Linked
  BY <1>2, <1>3, <1>4, <1>5, <1>6 DEF Entered, Linked
<1>8. \A v \in Entered : entry[v].num # n
  BY <1>3 DEF Named, NamesResolve, Resolves
<1>9. NamesResolve'
  <2>1. \A g : g.num \in FileNumbers /\ Resolves(g) => (Resolves(g))'
    BY <1>3, <1>6 DEF Resolves
  <2>2. (Resolves(f))'
    BY <1>2, <1>5, <1>6, Numbers DEF Resolves
  <2>3. \A v \in Entered : entry'[v] = entry[v] /\ (Resolves(entry[v]))'
    BY <1>4, <2>1, NamesAreSlots DEF Named, NamesResolve
  <2>4. \A m \in Linked : slot'[m].ext = slot[m].ext /\ (Resolves(slot[m].ext) \/ slot[m].ext = f)
    BY <1>3, <1>6, <1>7, NamesAreSlots DEF Named, NamesResolve
  <2>5. \A m \in Linked : (Resolves(slot[m].ext))'
    BY <2>1, <2>2, <2>4, NamesAreSlots
  <2>6. QED
    BY <1>7, <2>3, <2>5 DEF NamesResolve
<1>10. NamedOnce'
  <2>1. \A m \in Linked : slot'[m].ext = slot[m].ext
    BY <1>6, <1>7, NamesAreSlots
  <2>2. QED
    BY <1>4, <1>7, <2>1 DEF Named, NamedOnce
<1>11. /\ call'.step \in {"append", "highest"} /\ call'.creates = NoFid /\ call'.excess = {}
       /\ call'.tail = n
  <2>1. /\ Recorded(call) \in GoodCall /\ Recorded(call).step \in {"append", "highest"}
        /\ Recorded(call).excess = {} /\ Recorded(call).creates = NoFid
    BY <1>1, RecordedFacts DEF Sound, Typed
  <2>2. QED
    BY <1>4, <2>1 DEF GoodCall
<1>12. LinksBlank' /\ CreatesFile' /\ FreesUnnamed'
  BY <1>5, <1>6, <1>11 DEF LinksBlank, CreatesFile, FreesUnnamed
<1>13. HandleInStep'
  <2>1. /\ handle.num \in FileNumbers /\ handle.header \in GoodHeader
        /\ handle' # NoHandle /\ handle'.num = handle.num
        /\ handle'.header = IF t = handle.num THEN slot[t] ELSE handle.header
    BY <1>1, <1>3, <1>4, FollowingIsSound, HandleFacts DEF Sound, Typed
  <2>2. PICK v \in Versions : entry[v] = [num |-> handle.num, seq |-> handle.header.seq]
    BY <1>1 DEF Named, HandleInStep
  <2>3. slot[handle.num] = IF t = handle.num THEN [handle.header EXCEPT !.ext = f]
                           ELSE handle.header
    BY <1>1 DEF Named, HandleInStep
  <2>4. v \in Entered /\ entry[v].num = handle.num
    BY <2>1, <2>2, FidFacts DEF Entered, Sound, Typed
  <2>5. slot'[handle.num] = handle'.header
    BY <1>6, <1>8, <2>1, <2>3, <2>4
  <2>6. handle'.header.seq = handle.header.seq
    <3>1. [handle.header EXCEPT !.ext = f].seq = handle.header.seq
      BY <1>2, <2>1, RelinkedHeader
    <3>2. QED
      BY <2>1, <2>3, <3>1
  <2>7. QED
    BY <1>4, <1>11, <2>1, <2>2, <2>5, <2>6 DEF HandleInStep
<1>14. QED
  BY <1>9, <1>10, <1>12, <1>13 DEF Named

\* Writing the primary header from memory writes what is on disk already.
LEMMA PrimaryIsOnDisk ==
  ASSUME Sound, Named, handle # NoHandle, call.step # "segment", WritePrimary
  PROVE  slot' = slot
<1>1. slot[handle.num] = handle.header /\ handle.num \in FileNumbers
  BY HandleFacts DEF Named, HandleInStep, Sound, Typed
<1>2. QED
  BY <1>1 DEF WritePrimary, Sound, Typed

\* The steps that change no name.
LEMMA OthersKeepNames ==
  ASSUME Sound, Named, Untorn',
         \/ InsertFails \/ FreeFails \/ AppendFails \/ SegmentFails \/ HighestFails
         \/ RecordHighest \/ Close \/ Abandon
         \/ \E why \in {"flush", "dismount"} : FlushBitmap(why) \/ FlushBitmapFails(why)
         \/ FlushIndexBitmap \/ FlushIndexBitmapFails \/ DismountFails
         \/ Crash \/ Mount \/ RepairDisk \/ RepairFails
  PROVE  Named'
<1>1. CASE InsertFails \/ FreeFails \/ AppendFails \/ SegmentFails \/ HighestFails
           \/ FlushIndexBitmapFails
  <2>1. Fails /\ slot' = slot /\ entry' = entry
    BY <1>1 DEF InsertFails, FreeFails, AppendFails, SegmentFails, HighestFails,
                FlushIndexBitmapFails, WriteFails, disk
  <2>2. QED
    BY <2>1, FailingKeepsNames
<1>2. CASE RecordHighest \/ Close
  <2>1. /\ handle # NoHandle /\ call.step # "segment" /\ WritePrimary /\ entry' = entry
        /\ call' = NoCall /\ handle' \in {handle, NoHandle}
    BY <1>2 DEF RecordHighest, Close, Ready, Sound, Underway
  <2>2. slot' = slot
    BY <2>1, PrimaryIsOnDisk
  <2>3. QED
    BY <2>1, <2>2, NoCallFacts, QuietKeepsNames
<1>3. CASE \/ Abandon \/ Mount \/ RepairDisk \/ RepairFails
           \/ FlushIndexBitmap \/ DismountFails \/ Crash
  <2>1. /\ slot' = slot /\ entry' = entry /\ call.step # "segment"
        /\ call' = NoCall /\ handle' \in {handle, NoHandle}
    BY <1>3 DEF Abandon, Mount, RepairDisk, RepairFails, FlushIndexBitmap, DismountFails,
                Crash, Ready, Sound, Underway, disk, Untorn
  <2>2. QED
    BY <2>1, NoCallFacts, QuietKeepsNames
<1>4. ASSUME NEW why \in {"flush", "dismount"}, FlushBitmap(why) \/ FlushBitmapFails(why)
      PROVE  Named'
  <2>1. /\ slot' = slot /\ entry' = entry /\ call.step = "none"
        /\ call' = [NoCall EXCEPT !.step = why] /\ handle' = handle
    BY <1>4 DEF FlushBitmap, FlushBitmapFails, Ready, disk
  <2>2. call'.step = why /\ call'.creates = NoFid /\ call'.excess = {}
    BY <2>1 DEF NoCall
  <2>3. QED
    BY <2>1, <2>2, QuietKeepsNames
<1>5. QED
  BY <1>1, <1>2, <1>3, <1>4

\* No step, but for one that tears a link, undoes what names promise.
LEMMA NamedInductive ==
  ASSUME Sound, Careful, Named, [Next]_vars, Untorn'
  PROVE  Named'
<1>1. CASE vars' = vars
  <2>1. slot' = slot /\ entry' = entry /\ call' = call /\ handle' = handle
    BY <1>1 DEF vars, disk, memory
  <2>2. NamesResolve' /\ NamedOnce'
    BY <2>1 DEF Named, NamesResolve, NamedOnce, Resolves, Entered, Linked
  <2>3. CreatesFile' /\ FreesUnnamed' /\ LinksBlank' /\ HandleInStep'
    BY <2>1 DEF Named, CreatesFile, FreesUnnamed, LinksBlank, HandleInStep, Unnamed, Resolves,
                Entered, Linked, NextFid
  <2>4. QED
    BY <2>2, <2>3 DEF Named
<1>2. CASE Next
  BY <1>2, CreateHeaderKeepsNames, OpenForWriteKeepsNames, InsertEntryKeepsNames,
     DeleteKeepsNames, RemoveEntryKeepsNames, RemoveFailsKeepsNames, FreeSegmentKeepsNames,
     ExtendKeepsNames, AppendExtentKeepsNames, LinkSegmentKeepsNames, WriteSegmentKeepsNames,
     OthersKeepNames DEF Next
<1>3. QED
  BY <1>1, <1>2

\* A torn link stays in the history.
LEMMA TornStaysTorn ==
  ASSUME [Next]_vars, Untorn'
  PROVE  Untorn
<1>1. failed \subseteq failed' /\ crashed \subseteq crashed'
  <2>1. CASE vars' = vars
    BY <2>1 DEF vars, status
  <2>2. CASE Next
    BY <2>2 DEF Next, CreateHeader, OpenForWrite, InsertEntry, InsertFails, Delete, RemoveEntry,
       RemoveFails, FreeSegment, FreeFails, Extend, AppendExtent, LinkSegment, AppendFails,
       WriteSegment, SegmentFails, RecordHighest, HighestFails, Close, Abandon, FlushBitmap,
       FlushBitmapFails, FlushIndexBitmap, FlushIndexBitmapFails, DismountFails, Crash, Mount,
       RepairDisk, RepairFails, WriteFails, Fails, status
  <2>3. QED
    BY <2>1, <2>2
<1>2. QED
  BY <1>1 DEF Untorn

\* On an empty volume nothing is named.
LEMMA InitIsNamed ==
  ASSUME Init PROVE Named
<1>1. /\ \A n \in FileNumbers : slot[n] = Blank(0)
      /\ \A v \in Versions : entry[v] = NoFid
      /\ handle = NoHandle /\ call = NoCall
  BY DEF Init
<1>2. ~Blank(0).live
  BY DEF Blank
<1>3. Entered = {} /\ Linked = {}
  BY <1>1, <1>2 DEF Entered, Linked
<1>4. QED
  BY <1>1, <1>3, NoCallFacts DEF Named, NamesResolve, NamedOnce, CreatesFile, FreesUnnamed,
                               LinksBlank, HandleInStep

\* The invariant the theorems below rest on.
THEOREM NInvAlways == Spec => []NInv
<1>1. Init => NInv
  BY InitIsSound, InitIsNamed DEF NInv
<1>2. NInv /\ [Next]_vars => NInv'
  <2>1. SUFFICES ASSUME NInv, [Next]_vars PROVE NInv'
    OBVIOUS
  <2>2. Sound'
    BY <2>1, SoundInductive DEF NInv
  <2>3. ASSUME Careful, Untorn' PROVE Named'
    BY <2>1, <2>3, TornStaysTorn, NamedInductive DEF NInv
  <2>4. Careful' => Careful
    BY DEF Careful
  <2>5. QED
    BY <2>2, <2>3, <2>4 DEF NInv
<1>3. QED
  BY <1>1, <1>2, PTL DEF Spec

-----------------------------------------------------------------------------
(* What follows from it.                                                   *)

\* What is named can be opened, between calls with all its segments.
LEMMA NamedIsReadable ==
  ASSUME Sound, Named
  PROVE  EntriesNameHeaders /\ EntriesReadable
<1>1. EntriesNameHeaders
  BY DEF EntriesNameHeaders, Named, NamesResolve
<1>2. ASSUME call.step = "none", NEW v \in Entered PROVE Readable(entry[v])
  <2>1. Resolves(entry[v]) /\ \A n \in Linked : Resolves(slot[n].ext)
    BY <1>2 DEF Named, NamesResolve
  <2>2. QED
    BY <2>1, FilesAreIntact DEF Readable, Sound, Typed, Named
<1>3. QED
  BY <1>1, <1>2 DEF EntriesReadable

\* Failed writes and crashes leave every entry naming a file that can be opened,
\* but for those between a link to a segment and the segment.
THEOREM OnlyTornLinksBreakFiles ==
  ASSUME Careful
  PROVE  Spec => []OnlyTornExtendBreaksFiles
<1>1. NInv => OnlyTornExtendBreaksFiles
  BY NamedIsReadable DEF NInv, OnlyTornExtendBreaksFiles, Untorn
<1>2. QED
  BY <1>1, NInvAlways, PTL

\* What an installation must rule out for the next two: a write that fails, or a
\* crash, between a link and its segment.
NeverTorn == "segment" \notin MayFail /\ ~MayCrash

\* A step whose write cannot fail is not one at which calls fail.
LEMMA FailsWhereItMay ==
  ASSUME Sound, NEW step \in {"segment", "free"}, step \notin MayFail, [Next]_vars,
         step \in failed'
  PROVE  step \in failed
<1>1. CASE vars' = vars
  BY <1>1 DEF vars, status
<1>2. CASE Fails /\ call.step # step
  BY <1>2 DEF Fails
<1>3. CASE failed' \in {failed} \cup {failed \cup {s} : s \in {"flush", "dismount", "repair"}}
  BY <1>3
<1>4. CASE Next
  <2>1. ASSUME NEW s \in Steps, WriteFails(s) PROVE Fails /\ call.step # step
    BY <2>1 DEF WriteFails, WriteMayFail
  <2>2. \/ Fails /\ call.step # step
        \/ failed' \in {failed} \cup {failed \cup {s} : s \in {"flush", "dismount", "repair"}}
    <3>1. CASE \/ \E v \in Versions : CreateHeader(v) \/ OpenForWrite(v)
               \/ InsertEntry \/ Delete \/ RemoveEntry \/ FreeSegment \/ AppendExtent
               \/ LinkSegment \/ WriteSegment \/ RecordHighest \/ Close \/ Abandon
               \/ FlushIndexBitmap \/ Crash \/ Mount \/ RepairDisk
      BY <3>1 DEF CreateHeader, OpenForWrite, InsertEntry, Delete, RemoveEntry, FreeSegment,
         AppendExtent, LinkSegment, WriteSegment, RecordHighest, Close, Abandon,
         FlushIndexBitmap, Crash, Mount, RepairDisk, status
    <3>2. CASE InsertFails \/ RemoveFails \/ FreeFails \/ AppendFails \/ SegmentFails
               \/ HighestFails \/ FlushIndexBitmapFails
      BY <2>1, <3>2 DEF InsertFails, RemoveFails, FreeFails, AppendFails, SegmentFails,
         HighestFails, FlushIndexBitmapFails, Steps
    <3>3. CASE \E k \in 1 .. MaxRequest : Extend(k)
      BY <3>3 DEF Extend, Ready, status
    <3>4. CASE \/ \E why \in {"flush", "dismount"} : FlushBitmap(why) \/ FlushBitmapFails(why)
               \/ DismountFails \/ RepairFails
      BY <3>4 DEF FlushBitmap, FlushBitmapFails, DismountFails, RepairFails, status
    <3>5. QED
      BY <1>4, <3>1, <3>2, <3>3, <3>4 DEF Next
  <2>3. QED
    BY <1>2, <1>3, <2>2
<1>5. QED
  BY <1>1, <1>4

\* Only a crash is a crash.
LEMMA CrashesWhenItMay ==
  ASSUME ~MayCrash, [Next]_vars
  PROVE  crashed' = crashed
<1>1. CASE vars' = vars
  BY <1>1 DEF vars, status
<1>2. CASE Next
  BY <1>2 DEF Next, CreateHeader, OpenForWrite, InsertEntry, InsertFails, Delete, RemoveEntry,
     RemoveFails, FreeSegment, FreeFails, Extend, AppendExtent, LinkSegment, AppendFails,
     WriteSegment, SegmentFails, RecordHighest, HighestFails, Close, Abandon, FlushBitmap,
     FlushBitmapFails, FlushIndexBitmap, FlushIndexBitmapFails, DismountFails, Crash, Mount,
     RepairDisk, RepairFails, WriteFails, Fails, status
<1>3. QED
  BY <1>1, <1>2

\* So no link is ever torn.
LEMMA UntornInductive ==
  ASSUME NeverTorn, Sound, Untorn, [Next]_vars
  PROVE  Untorn'
BY FailsWhereItMay, CrashesWhenItMay DEF NeverTorn, Untorn

\* Neither does a header lose its name.
THEOREM UntornAlways ==
  ASSUME Careful, NeverTorn
  PROVE  Spec => [](Sound /\ Named)
<1>1. Init => Untorn
  BY DEF Init, Untorn
<1>2. NInv /\ Untorn /\ [Next]_vars => Untorn'
  BY UntornInductive DEF NInv
<1>3. NInv /\ Untorn => Sound /\ Named
  BY DEF NInv
<1>4. QED
  BY <1>1, <1>2, <1>3, NInvAlways, PTL DEF Spec

\* Whatever files are created, extended and deleted meanwhile, by the version
\* limit too, the File open for writing has its header on disk, and no other
\* file's is in its slot.
THEOREM OpenFileIsLive ==
  ASSUME Careful, NeverTorn
  PROVE  Spec => []HandleIsLive
<1>1. Sound /\ Named => HandleIsLive
  <2>1. SUFFICES ASSUME Sound, Named, handle # NoHandle
                 PROVE  Resolves([num |-> handle.num, seq |-> handle.header.seq])
    BY DEF HandleIsLive
  <2>2. PICK v \in Versions : entry[v] = [num |-> handle.num, seq |-> handle.header.seq]
    BY <2>1 DEF Named, HandleInStep
  <2>3. entry[v].num # 0
    BY <2>1, <2>2, HandleFacts, Numbers DEF Sound, Typed
  <2>4. v \in Entered
    BY <2>3 DEF Entered, NoFid
  <2>5. QED
    BY <2>1, <2>2, <2>4 DEF Named, NamesResolve
<1>2. QED
  BY <1>1, UntornAlways, PTL

\* What FidsAreNew says of a step.
SeqsGrow ==
    \A n \in FileNumbers : /\ slot'[n].seq >= slot[n].seq
                           /\ slot'[n].live /\ ~slot[n].live => slot'[n].seq > slot[n].seq

\* A step that writes one header: over a blank slot, or with the sequence number
\* that is there.
LEMMA OneHeaderGrows ==
  ASSUME Sound, NEW n \in FileNumbers, NEW h, slot' = [slot EXCEPT ![n] = h],
         \/ h.seq = slot[n].seq /\ (h.live => slot[n].live)
         \/ h.seq = slot[n].seq + 1
  PROVE  SeqsGrow
<1>1. \A m \in FileNumbers : slot[m].seq \in Nat
  BY HeaderFacts, Numbers DEF Sound, Typed
<1>2. \A m \in FileNumbers : slot'[m] = IF m = n THEN h ELSE slot[m]
  BY DEF Sound, Typed
<1>3. QED
  BY <1>1, <1>2 DEF SeqsGrow

\* A step leaves a slot's sequence number, or creates a header that has the next one.
LEMMA StepsGrowSeqs ==
  ASSUME Sound, Named, Next
  PROVE  SeqsGrow
<1>1. CASE slot' = slot
  <2>1. \A m \in FileNumbers : slot[m].seq \in Nat
    BY HeaderFacts, Numbers DEF Sound, Typed
  <2>2. QED
    BY <1>1, <2>1 DEF SeqsGrow
<1>2. ASSUME NEW v \in Versions, CreateHeader(v) PROVE SeqsGrow
  <2>1. PICK n \in FileNumbers : /\ slot[n].seq < MaxSeq
                                 /\ slot' = [slot EXCEPT ![n] = HeaderOf(NextFid(n), <<>>)]
    BY <1>2 DEF CreateHeader
  <2>2. HeaderOf(NextFid(n), <<>>).seq = slot[n].seq + 1
    BY <2>1, NextFidFacts, HeaderFacts, ShortMaps DEF Sound, Typed
  <2>3. QED
    BY <2>1, <2>2, OneHeaderGrows
<1>3. CASE FreeSegment
  <2> PICK n : n = call.next.num
    OBVIOUS
  <2>1. slot' = [slot EXCEPT ![n] = Blank(slot[n].seq)] /\ call.step = "free"
    BY <1>3 DEF FreeSegment
  <2>2. n \in FileNumbers
    BY <2>1, CallFacts, FidFacts DEF Sound, Typed, Underway
  <2>3. Blank(slot[n].seq).seq = slot[n].seq /\ ~Blank(slot[n].seq).live
    BY <2>2, HeaderFacts DEF Sound, Typed
  <2>4. QED
    BY <2>1, <2>2, <2>3, OneHeaderGrows
<1>4. CASE AppendExtent \/ LinkSegment
  <2> PICK n, h : n = call.tail /\ h = Known(n)
    OBVIOUS
  <2>1. call.step = "append" /\ handle # NoHandle /\ n \in FileNumbers /\ call.todo # <<>> /\ SeqLeft
    BY <1>4 DEF AppendExtent, LinkSegment, Sound, Underway
  <2>2. h = slot[n] /\ h \in GoodHeader
    BY <2>1, KnownIsOnDisk DEF Sound, Typed
  <2>3. PICK g : slot' = [slot EXCEPT ![n] = g] /\ g.seq = h.seq /\ g.live = h.live
    <3>1. CASE AppendExtent
      <4>1. Head(call.todo) \in GoodExtent
        BY <2>1, CallFacts, TodoFacts DEF Sound, Typed
      <4>2. PICK e, g : e = Head(call.todo) /\ g = [h EXCEPT !.map = AddExtent(h.map, e)]
        OBVIOUS
      <4>3. slot' = [slot EXCEPT ![n] = g] /\ Fits(h, e)
        BY <3>1, <4>2 DEF AppendExtent
      <4>4. g.seq = h.seq /\ g.live = h.live
        BY <2>2, <4>1, <4>2, <4>3, GrownFacts
      <4>5. QED
        BY <4>3, <4>4
    <3>2. CASE LinkSegment
      <4>1. PICK m \in FileNumbers : /\ ~slot[m].live
                                     /\ slot' = [slot EXCEPT ![n] = [h EXCEPT !.ext = NextFid(m)]]
        BY <3>2 DEF LinkSegment, FreeSlot
      <4>2. PICK f : f = NextFid(m)
        OBVIOUS
      <4>3. f \in GoodFid
        BY <2>1, <4>1, <4>2, NextFidFacts DEF SeqLeft, Sound, Typed
      <4>4. PICK g : g = [h EXCEPT !.ext = f]
        OBVIOUS
      <4>5. slot' = [slot EXCEPT ![n] = g]
        BY <4>1, <4>2, <4>4
      <4>6. g.seq = h.seq /\ g.live = h.live
        BY <2>2, <4>3, <4>4, RelinkedHeader
      <4>7. QED
        BY <4>5, <4>6
    <3>3. QED
      BY <1>4, <3>1, <3>2
  <2>4. QED
    BY <2>1, <2>2, <2>3, OneHeaderGrows
<1>5. CASE WriteSegment
  <2> PICK f, n, e : f = call.next /\ n = f.num /\ e = Head(call.todo)
    OBVIOUS
  <2>1. call.step = "segment" /\ call.todo # <<>> /\ f # NoFid
        /\ slot' = [slot EXCEPT ![n] = HeaderOf(f, <<e>>)]
    BY <1>5 DEF WriteSegment, Sound, Underway
  <2>2. n \in FileNumbers /\ f \in GoodFid /\ e \in GoodExtent
    BY <2>1, CallFacts, FidFacts, TodoFacts DEF Sound, Typed
  <2>3. f.seq = slot[n].seq + 1
    BY <2>1 DEF Named, LinksBlank, NextFid
  <2>4. HeaderOf(f, <<e>>).seq = f.seq
    BY <2>2, HeaderFacts, ShortMaps
  <2>5. QED
    BY <2>1, <2>2, <2>3, <2>4, OneHeaderGrows
<1>6. CASE RecordHighest \/ Close
  <2>1. handle # NoHandle /\ call.step # "segment" /\ WritePrimary
    BY <1>6 DEF RecordHighest, Close, Ready, Sound, Underway
  <2>2. QED
    BY <1>1, <2>1, PrimaryIsOnDisk
<1>7. CASE \/ \E v \in Versions : OpenForWrite(v)
           \/ InsertEntry \/ InsertFails \/ Delete \/ RemoveEntry \/ RemoveFails \/ FreeFails
           \/ \E k \in 1 .. MaxRequest : Extend(k)
           \/ AppendFails \/ SegmentFails \/ HighestFails \/ Abandon
           \/ \E why \in {"flush", "dismount"} : FlushBitmap(why) \/ FlushBitmapFails(why)
           \/ FlushIndexBitmap \/ FlushIndexBitmapFails \/ DismountFails
           \/ Crash \/ Mount \/ RepairDisk \/ RepairFails
  <2>1. slot' = slot
    BY <1>7 DEF OpenForWrite, InsertEntry, InsertFails, Delete, RemoveEntry, RemoveFails,
       FreeFails, Extend, AppendFails, SegmentFails, HighestFails, Abandon, FlushBitmap,
       FlushBitmapFails, FlushIndexBitmap, FlushIndexBitmapFails, DismountFails, Crash, Mount,
       RepairDisk, RepairFails, disk
  <2>2. QED
    BY <1>1, <2>1
<1>8. QED
  BY <1>2, <1>3, <1>4, <1>5, <1>6, <1>7 DEF Next

\* No file ID is given twice: the sequence number of a slot never falls, and a
\* header written to a blank slot has a higher one than any before it.
THEOREM SlotsAreNotReused ==
  ASSUME Careful, NeverTorn
  PROVE  Spec => FidsAreNew
<1>1. Sound /\ Named /\ [Next]_vars => [SeqsGrow]_vars
  BY StepsGrowSeqs
<1>2. [SeqsGrow]_vars <=>
      [\A n \in FileNumbers : /\ slot'[n].seq >= slot[n].seq
                              /\ slot'[n].live /\ ~slot[n].live => slot'[n].seq > slot[n].seq]_vars
  BY DEF SeqsGrow
<1>3. QED
  BY <1>1, <1>2, UntornAlways, PTL DEF Spec, FidsAreNew

-----------------------------------------------------------------------------
\* No call ended between freeing the clusters of a header and blanking it, or
\* between a link and its segment.
Kept == Untorn /\ "free" \notin failed

\* The clusters of extent i of the header in slot n.
Spot(n, i) == ClustersOf(slot[n].map[i])

\* No cluster is in two extents.
Disjoint ==
    \A m, n \in Live : \A i \in DOMAIN slot[m].map, j \in DOMAIN slot[n].map :
        m # n \/ i # j => Spot(m, i) \cap Spot(n, j) = {}

\* No header claims a cluster of bits.
Unclaimed(bits) == \A n \in Live : \A i \in DOMAIN slot[n].map : Spot(n, i) \cap bits = {}

\* What Extend has taken and not recorded is in no bitmap, no header and no other
\* extent of its own.
TodoIsTaken ==
    call.step \in {"append", "segment"} =>
        \A i \in DOMAIN call.todo :
            /\ ClustersOf(call.todo[i]) \cap free = {}
            /\ Unclaimed(ClustersOf(call.todo[i]))
            /\ \A j \in DOMAIN call.todo :
                  i # j => ClustersOf(call.todo[i]) \cap ClustersOf(call.todo[j]) = {}

\* While the volume is in service the cached bitmap shows nothing free that a
\* header claims; when it was dismounted the one on disk does not.
BitmapsAreSafe ==
    /\ mounted /\ ~suspect => Unclaimed(free)
    /\ call.step = "dismount" /\ ~suspect => diskFree = free
    /\ ~mounted /\ ~suspect => Unclaimed(diskFree)

SpaceKept == Disjoint /\ TodoIsTaken /\ BitmapsAreSafe

\* A volume to be repaired has its bitmap as it was read, or as a repair that
\* could not be written left it.
RepairDue ==
    mounted /\ suspect =>
        \/ call.step = "none" /\ free \in {diskFree, Clusters \ ClaimedOnDisk}
        \/ call.step = "dismount"

VInv == NInv /\ (RepairFirst => RepairDue /\ (Careful /\ Kept => SpaceKept))

-----------------------------------------------------------------------------
(* Repair.                                                                 *)

\* Correcting the bitmap read from disk, or one corrected before, gives what the
\* headers say.
LEMMA RepairedIsExact ==
  ASSUME Sound, free \in {diskFree, Clusters \ ClaimedOnDisk}
  PROVE  /\ Repaired(free) = Clusters \ ClaimedOnDisk
         /\ Discrepancies = {} => diskFree = Clusters \ ClaimedOnDisk
<1>1. free \subseteq Clusters /\ diskFree \subseteq Clusters
  BY DEF Sound, Typed
<1>2. \A c \in Clusters : c \in Discrepancies <=> (c \in diskFree <=> c \in ClaimedOnDisk)
  BY DEF Discrepancies
<1>3. Discrepancies \subseteq Clusters
  BY DEF Discrepancies
<1>4. CASE free = diskFree
  BY <1>1, <1>2, <1>3, <1>4 DEF Repaired
<1>5. CASE free = Clusters \ ClaimedOnDisk
  BY <1>1, <1>2, <1>3, <1>5 DEF Repaired
<1>6. QED
  BY <1>4, <1>5

\* Headers as they were claim what they claimed.
LEMMA SameClaims ==
  ASSUME slot' = slot
  PROVE  ClaimedOnDisk' = ClaimedOnDisk
BY DEF ClaimedOnDisk, Claimed

\* A repair that is due stays due until it is made.
LEMMA RepairDueInductive ==
  ASSUME RepairFirst, Sound, RepairDue, [Next]_vars
  PROVE  RepairDue'
<1>1. SUFFICES ASSUME mounted', suspect' PROVE RepairDue'
  BY DEF RepairDue
<1>2. CASE vars' = vars
  <2>1. /\ slot' = slot /\ free' = free /\ diskFree' = diskFree /\ call' = call
        /\ mounted' = mounted /\ suspect' = suspect
    BY <1>2 DEF vars, disk, memory, status
  <2>2. QED
    BY <2>1, SameClaims DEF RepairDue
<1>3. CASE Mount
  BY <1>3 DEF Mount, Sound, disk, RepairDue
<1>4. CASE FlushIndexBitmap
  <2>1. call.step = "flush" /\ mounted /\ suspect
    BY <1>1, <1>4 DEF FlushIndexBitmap, Sound
  <2>2. QED
    BY <2>1 DEF RepairDue
<1>5. CASE RepairFails
  <2>1. /\ free' = Repaired(free) /\ slot' = slot /\ call' = call /\ mounted /\ suspect
        /\ call.step = "none"
    BY <1>1, <1>5 DEF RepairFails, disk
  <2>2. free' = Clusters \ ClaimedOnDisk
    BY <2>1, RepairedIsExact DEF RepairDue
  <2>3. QED
    BY <2>1, <2>2, SameClaims DEF RepairDue
<1>6. ASSUME NEW why \in {"flush", "dismount"}, FlushBitmapFails(why) PROVE RepairDue'
  <2>1. Ready /\ call' = [NoCall EXCEPT !.step = why] /\ suspect' = (suspect \/ why = "dismount")
    BY <1>6 DEF FlushBitmapFails
  <2>2. why = "dismount"
    BY <1>1, <2>1 DEF Ready
  <2>3. call'.step = why
    BY <2>1 DEF NoCall
  <2>4. QED
    BY <2>2, <2>3 DEF RepairDue
<1>7. CASE FreeSegment \/ AppendExtent \/ LinkSegment \/ WriteSegment \/ InsertEntry \/ RemoveEntry
           \/ RecordHighest
  <2>1. mounted /\ suspect /\ call.step \notin {"none", "dismount"}
    BY <1>1, <1>7 DEF FreeSegment, AppendExtent, LinkSegment, WriteSegment, InsertEntry,
                      RemoveEntry, RecordHighest, Sound, status
  <2>2. QED
    BY <2>1 DEF RepairDue
<1>8. CASE \/ InsertFails \/ RemoveFails \/ FreeFails \/ AppendFails \/ SegmentFails
           \/ HighestFails \/ FlushIndexBitmapFails
  <2>1. mounted /\ suspect /\ call.step \notin {"none", "dismount"}
    BY <1>1, <1>8 DEF InsertFails, RemoveFails, FreeFails, AppendFails, SegmentFails,
                      HighestFails, FlushIndexBitmapFails, WriteFails, Fails, Sound
  <2>2. QED
    BY <2>1 DEF RepairDue
<1>9. CASE \/ \E v \in Versions : CreateHeader(v) \/ OpenForWrite(v)
           \/ Delete \/ Close \/ Abandon
           \/ \E k \in 1 .. MaxRequest : Extend(k)
           \/ \E why \in {"flush", "dismount"} : FlushBitmap(why)
  <2>1. Ready /\ suspect' = suspect
    BY <1>9 DEF CreateHeader, OpenForWrite, Delete, Close, Abandon, Extend, FlushBitmap, status,
                Fails
  <2>2. QED
    BY <1>1, <2>1 DEF Ready
<1>10. CASE DismountFails \/ Crash \/ RepairDisk
  BY <1>1, <1>10 DEF DismountFails, Crash, RepairDisk
<1>11. QED
  BY <1>2, <1>3, <1>4, <1>5, <1>6, <1>7, <1>8, <1>9, <1>10 DEF Next

\* What a volume that crashed, or failed to dismount, is repaired to is exactly
\* what its headers say, whether or not an earlier repair of it failed.
THEOREM RepairIsExact ==
  ASSUME RepairFirst
  PROVE  Spec => RepairHealsCrash
<1>1. Init => RepairDue
  BY DEF Init, RepairDue
<1>2. NInv /\ RepairDue /\ [Next]_vars => RepairDue'
  BY RepairDueInductive DEF NInv
<1>3. ASSUME NInv, RepairDue, RepairDisk, suspect
      PROVE  diskFree' = Clusters \ ClaimedOnDisk'
  <2>1. /\ slot' = slot /\ mounted /\ call.step = "none"
        /\ IF Discrepancies = {} THEN diskFree' = diskFree ELSE diskFree' = Repaired(free)
    BY <1>3 DEF RepairDisk
  <2>2. QED
    BY <1>3, <2>1, SameClaims, RepairedIsExact DEF RepairDue, NInv
<1>4. NInv /\ RepairDue /\ [Next]_vars =>
         [RepairDisk /\ suspect => diskFree' = Clusters \ ClaimedOnDisk']_vars
  BY <1>3
<1>5. QED
  BY <1>1, <1>2, <1>4, NInvAlways, PTL DEF Spec, RepairHealsCrash

-----------------------------------------------------------------------------
(* Space.                                                                  *)

\* Headers that claim no more than they did.
LEMMA FewerClaims ==
  ASSUME \A n \in Live' : \/ slot'[n].map = <<>>
                          \/ n \in Live /\ slot'[n].map = slot[n].map
  PROVE  /\ Disjoint => Disjoint'
         /\ \A bits : Unclaimed(bits) => (Unclaimed(bits))'
<1>1. \A n \in Live' : \A i \in DOMAIN slot'[n].map :
         n \in Live /\ slot'[n].map = slot[n].map /\ i \in DOMAIN slot[n].map
  OBVIOUS
<1>2. \A n \in Live' : \A i \in DOMAIN slot'[n].map : (Spot(n, i))' = Spot(n, i)
  BY <1>1 DEF Spot
<1>3. Disjoint => Disjoint'
  BY <1>1, <1>2 DEF Disjoint
<1>4. \A bits : Unclaimed(bits) => (Unclaimed(bits))'
  BY <1>1, <1>2 DEF Unclaimed
<1>5. QED
  BY <1>3, <1>4

\* One header that claims an extent nobody claimed, in one place of its map.
LEMMA OneMoreClaim ==
  ASSUME NEW n, NEW last, NEW e, Unclaimed(ClustersOf(e)),
         \A m \in Live' : m # n => m \in Live /\ slot'[m].map = slot[m].map,
         n \in Live' =>
            \A i \in DOMAIN slot'[n].map :
               ClustersOf(slot'[n].map[i]) \subseteq
                  (IF n \in Live /\ i \in DOMAIN slot[n].map THEN Spot(n, i) ELSE {})
                  \cup (IF i = last THEN ClustersOf(e) ELSE {})
  PROVE  /\ Disjoint => Disjoint'
         /\ \A bits : Unclaimed(bits) /\ ClustersOf(e) \cap bits = {} => (Unclaimed(bits))'
<1> DEFINE Old(m, i) == IF m \in Live /\ i \in DOMAIN slot[m].map THEN Spot(m, i) ELSE {}
           New(m, i) == IF m = n /\ i = last THEN ClustersOf(e) ELSE {}
<1>1. ASSUME NEW m \in Live', NEW i \in DOMAIN slot'[m].map
      PROVE  (Spot(m, i))' \subseteq Old(m, i) \cup New(m, i)
  <2>1. CASE m # n
    BY <1>1, <2>1 DEF Spot
  <2>2. CASE m = n
    <3>1. ClustersOf(slot'[n].map[i]) \subseteq
             (IF n \in Live /\ i \in DOMAIN slot[n].map THEN Spot(n, i) ELSE {})
             \cup (IF i = last THEN ClustersOf(e) ELSE {})
      BY <1>1, <2>2
    <3>2. (Spot(m, i))' = ClustersOf(slot'[n].map[i])
      BY <2>2 DEF Spot
    <3>3. QED
      BY <2>2, <3>1, <3>2
  <2>3. QED
    BY <2>1, <2>2
<1>2. \A m, i : Old(m, i) \cap ClustersOf(e) = {}
  BY DEF Unclaimed
<1>3. \A bits : Unclaimed(bits) => \A m, i : Old(m, i) \cap bits = {}
  BY DEF Unclaimed
<1>4. Disjoint => \A k, i, m, j : k # m \/ i # j => Old(k, i) \cap Old(m, j) = {}
  BY DEF Disjoint
<1>5. \A k, i, m, j : k # m \/ i # j => New(k, i) \cap New(m, j) = {}
  OBVIOUS
<1>6. \A k, i, m, j : Old(k, i) \cap New(m, j) = {}
  BY <1>2
<1> HIDE DEF Old, New
<1>7. ASSUME Disjoint PROVE Disjoint'
  <2>1. SUFFICES ASSUME NEW k \in Live', NEW m \in Live', NEW i \in DOMAIN slot'[k].map,
                        NEW j \in DOMAIN slot'[m].map, k # m \/ i # j
                 PROVE  (Spot(k, i))' \cap (Spot(m, j))' = {}
    BY DEF Disjoint
  <2>2. (Spot(k, i))' \subseteq Old(k, i) \cup New(k, i)
        /\ (Spot(m, j))' \subseteq Old(m, j) \cup New(m, j)
    BY <1>1
  <2>3. /\ Old(k, i) \cap Old(m, j) = {} /\ New(k, i) \cap New(m, j) = {}
        /\ Old(k, i) \cap New(m, j) = {} /\ Old(m, j) \cap New(k, i) = {}
    BY <1>4, <1>5, <1>6, <1>7, <2>1
  <2>4. QED
    BY <2>2, <2>3
<1>8. ASSUME NEW bits, Unclaimed(bits), ClustersOf(e) \cap bits = {} PROVE (Unclaimed(bits))'
  <2>1. \A m, i : Old(m, i) \cap bits = {} /\ New(m, i) \cap bits = {}
    BY <1>3, <1>8 DEF New
  <2>2. QED
    BY <1>1, <2>1 DEF Unclaimed
<1>9. QED
  BY <1>7, <1>8

\* The steps that leave headers alone, add nothing to the bitmap, and neither
\* start a dismount nor change whether the volume is in service.
LEMMA QuietKeepsSpace ==
  ASSUME SpaceKept, slot' = slot, free' \subseteq free, diskFree' = diskFree,
         mounted' = mounted, suspect' = suspect,
         call'.step \notin {"append", "segment", "dismount"}
  PROVE  SpaceKept'
<1>1. Disjoint' /\ \A bits : Unclaimed(bits) => (Unclaimed(bits))'
  BY FewerClaims DEF Live, SpaceKept
<1>2. Unclaimed(free) => (\A n \in Live : \A i \in DOMAIN slot[n].map : Spot(n, i) \cap free' = {})
  BY DEF Unclaimed
<1>3. Unclaimed(free) => Unclaimed(free)'
  BY <1>2 DEF Unclaimed, Live, Spot
<1>4. Unclaimed(diskFree) => Unclaimed(diskFree)'
  BY DEF Unclaimed, Live, Spot
<1>5. QED
  BY <1>1, <1>3, <1>4 DEF SpaceKept, TodoIsTaken, BitmapsAreSafe

\* Calls that write no header, or a header that is on disk already.
LEMMA CallsKeepSpace ==
  ASSUME Sound, Named, SpaceKept,
         \/ \E v \in Versions : OpenForWrite(v)
         \/ InsertEntry \/ InsertFails \/ Delete \/ RemoveEntry \/ RemoveFails
         \/ AppendFails \/ HighestFails \/ SegmentFails \/ FlushIndexBitmapFails
         \/ RecordHighest \/ Close \/ Abandon
  PROVE  SpaceKept'
<1>1. CASE \/ InsertFails \/ RemoveFails \/ AppendFails \/ HighestFails \/ SegmentFails
           \/ FlushIndexBitmapFails
  <2>1. /\ slot' = slot /\ free' = free /\ diskFree' = diskFree /\ mounted' = mounted
        /\ suspect' = suspect /\ call' = NoCall
    BY <1>1 DEF InsertFails, RemoveFails, AppendFails, HighestFails, SegmentFails,
                FlushIndexBitmapFails, WriteFails, Fails, disk
  <2>2. QED
    BY <2>1, NoCallFacts, QuietKeepsSpace
<1>2. CASE InsertEntry
  <2>1. /\ slot' = slot /\ free' = free /\ diskFree' = diskFree /\ mounted' = mounted
        /\ suspect' = suspect
    BY <1>2 DEF InsertEntry, status
  <2>2. call'.step \in {"none", "remove"}
    BY <1>2, NoCallFacts DEF InsertEntry, DeleteMore, Sound, Typed, GoodCall
  <2>3. QED
    BY <2>1, <2>2, QuietKeepsSpace
<1>3. CASE Delete \/ RemoveEntry
  <2>1. /\ slot' = slot /\ free' = free /\ diskFree' = diskFree /\ mounted' = mounted
        /\ suspect' = suspect
    BY <1>3 DEF Delete, RemoveEntry, status, disk
  <2>2. call'.step \in {"remove", "free"}
    BY <1>3 DEF Delete, RemoveEntry, NoCall, Sound, Typed, GoodCall
  <2>3. QED
    BY <2>1, <2>2, QuietKeepsSpace
<1>4. CASE (\E v \in Versions : OpenForWrite(v)) \/ Abandon
  <2>1. /\ slot' = slot /\ free' = free /\ diskFree' = diskFree /\ mounted' = mounted
        /\ suspect' = suspect /\ call'.step = "none"
    BY <1>4 DEF OpenForWrite, Abandon, Ready, disk, status
  <2>2. QED
    BY <2>1, QuietKeepsSpace
<1>5. CASE RecordHighest \/ Close
  <2>1. /\ handle # NoHandle /\ call.step # "segment" /\ WritePrimary
        /\ free' = free /\ diskFree' = diskFree /\ mounted' = mounted
        /\ suspect' = suspect /\ call' = NoCall
    BY <1>5 DEF RecordHighest, Close, Ready, Sound, Underway, status
  <2>2. slot' = slot
    BY <2>1, PrimaryIsOnDisk
  <2>3. QED
    BY <2>1, <2>2, NoCallFacts, QuietKeepsSpace
<1>6. QED
  BY <1>1, <1>2, <1>3, <1>4, <1>5

\* A new header claims nothing.
LEMMA CreateHeaderKeepsSpace ==
  ASSUME Sound, SpaceKept, NEW v \in Versions, CreateHeader(v)
  PROVE  SpaceKept'
<1>1. PICK n \in FileNumbers :
             /\ slot[n].seq < MaxSeq
             /\ slot' = [slot EXCEPT ![n] = HeaderOf(NextFid(n), <<>>)]
             /\ call' = [NoCall EXCEPT !.step = "insert", !.creates = NextFid(n), !.version = v]
  BY DEF CreateHeader
<1>2. /\ free' = free /\ diskFree' = diskFree /\ mounted' = mounted /\ suspect' = suspect
  BY DEF CreateHeader, status
<1>3. HeaderOf(NextFid(n), <<>>).map = <<>>
  BY DEF HeaderOf
<1>4. \A m \in Live' : slot'[m].map = <<>> \/ (m \in Live /\ slot'[m].map = slot[m].map)
  BY <1>1, <1>3 DEF Live, Sound, Typed
<1>5. Disjoint' /\ \A bits : Unclaimed(bits) => (Unclaimed(bits))'
  BY <1>4, FewerClaims DEF SpaceKept
<1>6. call'.step = "insert"
  BY <1>1 DEF NoCall
<1>7. (Unclaimed(free) => Unclaimed(free)') /\ (Unclaimed(diskFree) => Unclaimed(diskFree)')
  BY <1>2, <1>5 DEF Unclaimed
<1>8. QED
  BY <1>2, <1>5, <1>6, <1>7 DEF SpaceKept, TodoIsTaken, BitmapsAreSafe

\* The clusters of a header that is blanked are in no other.
LEMMA FreeSegmentKeepsSpace ==
  ASSUME Sound, Named, SpaceKept, FreeSegment
  PROVE  SpaceKept'
<1> PICK n : n = call.next.num
  OBVIOUS
<1>1. /\ call.step = "free" /\ slot' = [slot EXCEPT ![n] = Blank(slot[n].seq)]
      /\ free' = free \cup Claimed(slot[n].map) /\ diskFree' = diskFree
      /\ mounted' = mounted /\ suspect' = suspect /\ mounted
  BY DEF FreeSegment, UnmarkSegment, status, Sound
<1>2. n \in FileNumbers /\ n \in Live
  BY <1>1, CallFacts, FidFacts DEF Sound, Typed, Underway, Named, FreesUnnamed, Resolves, Live
<1>3. ~Blank(slot[n].seq).live
  BY DEF Blank
<1>4. Live' = Live \ {n} /\ \A m \in Live' : slot'[m] = slot[m]
  BY <1>1, <1>2, <1>3 DEF Live, Sound, Typed
<1>5. Disjoint'
  BY <1>4, FewerClaims DEF SpaceKept
<1>6. call'.step \in {"none", "remove", "free"}
  BY <1>1, NoCallFacts DEF FreeSegment, DeleteMore, Sound, Typed, GoodCall
<1>7. ASSUME Unclaimed(free) PROVE Unclaimed(free)'
  <2>1. SUFFICES ASSUME NEW m \in Live', NEW i \in DOMAIN slot[m].map
                 PROVE  Spot(m, i) \cap free' = {}
    BY <1>4 DEF Unclaimed, Spot
  <2>2. m \in Live /\ m # n
    BY <1>4
  <2>3. Spot(m, i) \cap free = {}
    BY <1>7, <2>2 DEF Unclaimed
  <2>4. \A j \in DOMAIN slot[n].map : Spot(m, i) \cap Spot(n, j) = {}
    BY <1>2, <2>2 DEF SpaceKept, Disjoint
  <2>5. Spot(m, i) \cap Claimed(slot[n].map) = {}
    BY <2>4 DEF Claimed, Spot
  <2>6. QED
    BY <1>1, <2>3, <2>5
<1>8. QED
  BY <1>1, <1>5, <1>6, <1>7 DEF SpaceKept, TodoIsTaken, BitmapsAreSafe

\* Extend takes what the bitmap shows free, and nobody claims.
LEMMA ExtendKeepsSpace ==
  ASSUME RepairFirst \/ ~suspect, Sound, SpaceKept, NEW k \in 1 .. MaxRequest, Extend(k)
  PROVE  SpaceKept'
<1>1. PICK exts \in Allocations(free, k) :
         /\ free' = FreeAfter(exts)
         /\ IF Intact(handle.header)
             THEN /\ call' = [NoCall EXCEPT !.step = "append", !.todo = exts,
                                            !.tail = TailOf(handle.num, handle.header)]
                  /\ UNCHANGED status
             ELSE Fails
  BY DEF Extend
<1>2. /\ slot' = slot /\ diskFree' = diskFree /\ mounted' = mounted /\ suspect' = suspect
      /\ mounted /\ ~suspect /\ free' \subseteq free
  BY <1>1 DEF Extend, Ready, disk, status, Fails, FreeAfter
<1>3. CASE ~Intact(handle.header)
  BY <1>1, <1>2, <1>3, NoCallFacts, QuietKeepsSpace DEF Fails
<1>4. CASE Intact(handle.header)
  <2>1. call'.step = "append" /\ call'.todo = exts
    BY <1>1, <1>4 DEF NoCall
  <2>2. /\ \A i \in DOMAIN exts :
              /\ ClustersOf(exts[i]) \subseteq free
              /\ \A j \in DOMAIN exts : i # j => ClustersOf(exts[i]) \cap ClustersOf(exts[j]) = {}
    BY ExtendTakes
  <2>3. Disjoint' /\ \A bits : Unclaimed(bits) => (Unclaimed(bits))'
    BY <1>2, FewerClaims DEF Live, SpaceKept
  <2>4. Unclaimed(free)
    BY <1>2 DEF SpaceKept, BitmapsAreSafe
  <2>5. Unclaimed(free)'
    <3>1. \A n \in Live : \A i \in DOMAIN slot[n].map : Spot(n, i) \cap free' = {}
      BY <1>2, <2>4 DEF Unclaimed
    <3>2. QED
      BY <1>2, <3>1 DEF Unclaimed, Live, Spot
  <2>6. ASSUME NEW i \in DOMAIN exts
        PROVE  ClustersOf(exts[i]) \cap free' = {} /\ (Unclaimed(ClustersOf(exts[i])))'
    <3>1. ClustersOf(exts[i]) \subseteq Taken(exts)
      <4>1. exts \in Seq(GoodExtent)
        BY ExtendTakes
      <4>2. i \in 1 .. (Len(exts) + 1) - 1
        BY <2>6, <4>1
      <4>3. QED
        BY <4>2 DEF Taken, TakenBefore
    <3>2. Unclaimed(ClustersOf(exts[i]))
      BY <2>2, <2>4 DEF Unclaimed
    <3>3. QED
      BY <1>1, <2>3, <3>1, <3>2 DEF FreeAfter
  <2>7. TodoIsTaken'
    BY <2>1, <2>2, <2>6 DEF TodoIsTaken, Unclaimed
  <2>8. QED
    BY <1>2, <2>1, <2>3, <2>5, <2>7 DEF SpaceKept, BitmapsAreSafe
<1>5. QED
  BY <1>3, <1>4

\* What was taken for the extents left to record is as safe when the first of
\* them was recorded, and its clusters claimed, as it was before.
LEMMA TodoGoesOn ==
  ASSUME Sound, call.step \in {"append", "segment"}, TodoIsTaken,
         call'.todo = Tail(call.todo), free' = free,
         \A bits : Unclaimed(bits) /\ ClustersOf(Head(call.todo)) \cap bits = {} =>
                      (Unclaimed(bits))'
  PROVE  TodoIsTaken'
<1> PICK todo, rest, e : todo = call.todo /\ rest = Tail(todo) /\ e = Head(todo)
  OBVIOUS
<1>1. todo \in Seq(GoodExtent) /\ todo # <<>>
  BY CallFacts DEF Sound, Typed, Underway
<1>2. /\ e = todo[1] /\ 1 \in DOMAIN todo
      /\ \A i \in DOMAIN rest : rest[i] = todo[i + 1] /\ i + 1 \in DOMAIN todo
  BY <1>1, TodoFacts
<1>3. \A i \in DOMAIN rest : i \in Nat \ {0}
  BY <1>1, TodoFacts
<1>4. \A i \in DOMAIN todo :
         /\ ClustersOf(todo[i]) \cap free = {}
         /\ Unclaimed(ClustersOf(todo[i]))
         /\ \A j \in DOMAIN todo : i # j => ClustersOf(todo[i]) \cap ClustersOf(todo[j]) = {}
  BY DEF TodoIsTaken
<1>5. ASSUME NEW i \in DOMAIN rest
      PROVE  /\ ClustersOf(rest[i]) \cap free = {}
             /\ (Unclaimed(ClustersOf(rest[i])))'
             /\ \A j \in DOMAIN rest : i # j => ClustersOf(rest[i]) \cap ClustersOf(rest[j]) = {}
  <2>1. i + 1 \in DOMAIN todo /\ rest[i] = todo[i + 1] /\ i + 1 # 1
    BY <1>2, <1>3
  <2>2. PICK span : span = ClustersOf(rest[i])
    OBVIOUS
  <2>3. Unclaimed(span) /\ ClustersOf(e) \cap span = {} /\ span \cap free = {}
    BY <1>2, <1>4, <2>1, <2>2
  <2>4. (Unclaimed(span))'
    BY <2>3
  <2>5. (Unclaimed(ClustersOf(rest[i])))'
    BY <2>2, <2>4 DEF Unclaimed
  <2>6. ASSUME NEW j \in DOMAIN rest, i # j
        PROVE  ClustersOf(rest[i]) \cap ClustersOf(rest[j]) = {}
    <3>1. j + 1 \in DOMAIN todo /\ rest[j] = todo[j + 1] /\ i + 1 # j + 1
      BY <1>2, <1>3, <2>6
    <3>2. QED
      BY <1>4, <2>1, <3>1
  <2>7. QED
    BY <2>2, <2>3, <2>5, <2>6
<1>6. call'.todo = rest
  OBVIOUS
<1>7. QED
  BY <1>5, <1>6 DEF TodoIsTaken, Unclaimed

\* The tail's map grows by the extent just recorded.
LEMMA AppendExtentKeepsSpace ==
  ASSUME Sound, Named, SpaceKept, AppendExtent
  PROVE  SpaceKept'
<1> PICK n, h, e : n = call.tail /\ h = slot[n] /\ e = Head(call.todo)
  OBVIOUS
<1>1. /\ call.step = "append" /\ handle # NoHandle /\ n \in FileNumbers /\ call.todo # <<>>
      /\ mounted
  BY DEF AppendExtent, Sound, Underway
<1>2. Known(n) = h /\ h \in GoodHeader /\ e \in GoodExtent
  BY <1>1, KnownIsOnDisk, CallFacts, TodoFacts DEF Sound, Typed
<1> PICK grown : grown = [h EXCEPT !.map = AddExtent(h.map, e)]
  OBVIOUS
<1> PICK map, last : map = AddExtent(h.map, e) /\ last = Len(map)
  OBVIOUS
<1>3. /\ slot' = [slot EXCEPT ![n] = grown] /\ call' = Recorded(call)
      /\ free' = free /\ diskFree' = diskFree /\ mounted' = mounted /\ suspect' = suspect
      /\ Fits(h, e)
  BY <1>2 DEF AppendExtent, status
<1>4. /\ grown.live = h.live /\ grown.map = map
      /\ \A i \in DOMAIN map :
            ClustersOf(map[i]) \subseteq
               (IF i \in DOMAIN h.map THEN ClustersOf(h.map[i]) ELSE {})
               \cup (IF i = last THEN ClustersOf(e) ELSE {})
  <2>1. grown.live = h.live /\ grown.map = map
    BY <1>2, <1>3, GrownFacts
  <2>2. h.map \in GoodMap /\ e \in GoodExtent /\ Len(AddExtent(h.map, e)) <= MapRoom
    BY <1>2, <1>3, HeaderFacts DEF Fits
  <2>3. QED
    BY <2>1, <2>2, AddedExtent
<1>5. slot'[n] = grown /\ \A m \in FileNumbers : m # n => slot'[m] = slot[m]
  BY <1>1, <1>3 DEF Sound, Typed
<1>6. n \in Live
  BY <1>1 DEF Named, LinksBlank, Live
<1>7. \A m \in Live' : m # n => m \in Live /\ slot'[m].map = slot[m].map
  BY <1>5 DEF Live
<1>8. n \in Live' =>
         \A i \in DOMAIN slot'[n].map :
            ClustersOf(slot'[n].map[i]) \subseteq
               (IF n \in Live /\ i \in DOMAIN slot[n].map THEN Spot(n, i) ELSE {})
               \cup (IF i = last THEN ClustersOf(e) ELSE {})
  BY <1>4, <1>5, <1>6 DEF Spot
<1>9. Unclaimed(ClustersOf(e)) /\ ClustersOf(e) \cap free = {}
  <2>1. 1 \in DOMAIN call.todo /\ e = call.todo[1]
    BY <1>1, CallFacts, TodoFacts DEF Sound, Typed
  <2>2. QED
    BY <1>1, <2>1 DEF SpaceKept, TodoIsTaken
<1>10. /\ Disjoint'
       /\ \A bits : Unclaimed(bits) /\ ClustersOf(e) \cap bits = {} => (Unclaimed(bits))'
  <2>1. Unclaimed(ClustersOf(e))
    BY <1>9
  <2>2. /\ Disjoint => Disjoint'
        /\ \A bits : Unclaimed(bits) /\ ClustersOf(e) \cap bits = {} => (Unclaimed(bits))'
    BY ONLY <1>7, <1>8, <2>1, OneMoreClaim, SMTT(30)
  <2>3. QED
    BY <2>2 DEF SpaceKept
<1>11. call'.todo = Tail(call.todo) /\ call'.step \in {"append", "highest"}
  BY <1>1, <1>3, RecordedFacts DEF Sound, Typed
<1>12. TodoIsTaken'
  BY <1>1, <1>3, <1>10, <1>11, TodoGoesOn DEF SpaceKept
<1>13. Unclaimed(free) => Unclaimed(free)'
  <2>1. Unclaimed(free) => (\A m \in Live' : \A i \in DOMAIN slot'[m].map :
                               ClustersOf(slot'[m].map[i]) \cap free = {})
    BY <1>9, <1>10 DEF Unclaimed, Spot
  <2>2. QED
    BY <1>3, <2>1 DEF Unclaimed, Spot
<1>14. QED
  BY <1>1, <1>3, <1>10, <1>11, <1>12, <1>13 DEF SpaceKept, BitmapsAreSafe

\* A link is made: no map changes.
LEMMA LinkSegmentKeepsSpace ==
  ASSUME Sound, Named, SpaceKept, LinkSegment
  PROVE  SpaceKept'
<1> PICK t, h : t = call.tail /\ h = slot[t]
  OBVIOUS
<1>1. /\ call.step = "append" /\ handle # NoHandle /\ t \in FileNumbers /\ mounted
  BY DEF LinkSegment, Sound, Underway
<1>2. Known(t) = h /\ h \in GoodHeader
  BY <1>1, KnownIsOnDisk DEF Sound, Typed
<1> PICK n : slot' = [slot EXCEPT ![t] = [h EXCEPT !.ext = NextFid(n)]]
             /\ call' = [call EXCEPT !.step = "segment", !.next = NextFid(n)]
  BY <1>2 DEF LinkSegment
<1>3. /\ free' = free /\ diskFree' = diskFree /\ mounted' = mounted /\ suspect' = suspect
      /\ call'.step = "segment" /\ call'.todo = call.todo
  BY DEF LinkSegment, status, Sound, Typed, GoodCall
<1>4. \A m \in FileNumbers : slot'[m].live = slot[m].live /\ slot'[m].map = slot[m].map
  BY <1>1, <1>2 DEF Sound, Typed, GoodHeader
<1>5. \A m \in Live' : slot'[m].map = <<>> \/ (m \in Live /\ slot'[m].map = slot[m].map)
  BY <1>4 DEF Live
<1>6. Disjoint' /\ \A bits : Unclaimed(bits) => (Unclaimed(bits))'
  BY <1>5, FewerClaims DEF SpaceKept
<1>7. Unclaimed(free) => Unclaimed(free)'
  BY <1>3, <1>6 DEF Unclaimed
<1>8. \A i \in DOMAIN call.todo : (Unclaimed(ClustersOf(call.todo[i])))'
  <2>1. \A i \in DOMAIN call.todo : Unclaimed(ClustersOf(call.todo[i]))
    BY <1>1 DEF SpaceKept, TodoIsTaken
  <2>2. QED
    BY <1>3, <1>6, <2>1 DEF Unclaimed
<1>9. TodoIsTaken'
  BY <1>1, <1>3, <1>8 DEF SpaceKept, TodoIsTaken, Unclaimed
<1>10. QED
  BY <1>1, <1>3, <1>6, <1>7, <1>9 DEF SpaceKept, BitmapsAreSafe

\* The new segment claims the extent it was made for.
LEMMA WriteSegmentKeepsSpace ==
  ASSUME Sound, Named, SpaceKept, WriteSegment
  PROVE  SpaceKept'
<1> PICK f, n, e, last : f = call.next /\ n = f.num /\ e = Head(call.todo) /\ last = 1
  OBVIOUS
<1>1. /\ call.step = "segment" /\ call.todo # <<>> /\ f # NoFid /\ mounted
  BY DEF WriteSegment, Sound, Underway
<1>2. n \in FileNumbers /\ ~slot[n].live
  BY <1>1, CallFacts, FidFacts DEF Sound, Typed, Named, LinksBlank
<1>3. /\ slot' = [slot EXCEPT ![n] = HeaderOf(f, <<e>>)]
      /\ call' = [Recorded(call) EXCEPT !.tail = n, !.next = NoFid]
      /\ free' = free /\ diskFree' = diskFree /\ mounted' = mounted /\ suspect' = suspect
  BY DEF WriteSegment, status
<1>4. slot'[n].map = <<e>> /\ \A m \in FileNumbers : m # n => slot'[m] = slot[m]
  BY <1>2, <1>3 DEF Sound, Typed, HeaderOf
<1>5. \A m \in Live' : m # n => m \in Live /\ slot'[m].map = slot[m].map
  BY <1>4 DEF Live
<1>6. n \in Live' =>
         \A i \in DOMAIN slot'[n].map :
            ClustersOf(slot'[n].map[i]) \subseteq
               (IF n \in Live /\ i \in DOMAIN slot[n].map THEN Spot(n, i) ELSE {})
               \cup (IF i = last THEN ClustersOf(e) ELSE {})
  <2>1. \A i \in DOMAIN <<e>> : i = 1 /\ <<e>>[i] = e
    OBVIOUS
  <2>2. QED
    BY <1>4, <2>1
<1>7. Unclaimed(ClustersOf(e)) /\ ClustersOf(e) \cap free = {}
  <2>1. 1 \in DOMAIN call.todo /\ e = call.todo[1]
    BY <1>1, CallFacts, TodoFacts DEF Sound, Typed
  <2>2. QED
    BY <1>1, <2>1 DEF SpaceKept, TodoIsTaken
<1>8. /\ Disjoint'
      /\ \A bits : Unclaimed(bits) /\ ClustersOf(e) \cap bits = {} => (Unclaimed(bits))'
  <2>1. Unclaimed(ClustersOf(e))
    BY <1>7
  <2>2. /\ Disjoint => Disjoint'
        /\ \A bits : Unclaimed(bits) /\ ClustersOf(e) \cap bits = {} => (Unclaimed(bits))'
    BY ONLY <1>5, <1>6, <2>1, OneMoreClaim, SMTT(30)
  <2>3. QED
    BY <2>2 DEF SpaceKept
<1>9. call'.todo = Tail(call.todo) /\ call'.step \in {"append", "highest"}
  <2>1. Recorded(call) \in GoodCall /\ Recorded(call).todo = Tail(call.todo)
        /\ Recorded(call).step \in {"append", "highest"}
    BY <1>1, RecordedFacts DEF Sound, Typed
  <2>2. QED
    BY <1>3, <2>1 DEF GoodCall
<1>10. TodoIsTaken'
  BY <1>1, <1>3, <1>8, <1>9, TodoGoesOn DEF SpaceKept
<1>11. Unclaimed(free) => Unclaimed(free)'
  <2>1. Unclaimed(free) => (\A m \in Live' : \A i \in DOMAIN slot'[m].map :
                               ClustersOf(slot'[m].map[i]) \cap free = {})
    BY <1>7, <1>8 DEF Unclaimed, Spot
  <2>2. QED
    BY <1>3, <2>1 DEF Unclaimed, Spot
<1>12. QED
  BY <1>1, <1>3, <1>8, <1>9, <1>10, <1>11 DEF SpaceKept, BitmapsAreSafe

\* A repaired bitmap shows nothing free that a header claims, if what it was made
\* of did not, or if it was due.
LEMMA RepairedIsSafe ==
  ASSUME Sound, NEW bits
  PROVE  /\ bits \subseteq Clusters \ ClaimedOnDisk => Unclaimed(bits)
         /\ Unclaimed(free) => Unclaimed(Repaired(free))
<1>1. \A n \in Live : \A i \in DOMAIN slot[n].map : Spot(n, i) \subseteq ClaimedOnDisk
  BY DEF Live, Spot, ClaimedOnDisk, Claimed
<1>2. Repaired(free) \subseteq free \cup (Clusters \ ClaimedOnDisk)
  BY DEF Repaired, Discrepancies
<1>3. QED
  BY <1>1, <1>2 DEF Unclaimed

\* Flushing, dismounting, crashing, mounting and repairing.
LEMMA VolumeKeepsSpace ==
  ASSUME RepairFirst \/ ~suspect, Sound, RepairDue, SpaceKept,
         \/ \E why \in {"flush", "dismount"} : FlushBitmap(why) \/ FlushBitmapFails(why)
         \/ FlushIndexBitmap \/ DismountFails \/ Crash \/ Mount \/ RepairDisk \/ RepairFails
  PROVE  SpaceKept'
<1>1. slot' = slot
  BY DEF FlushBitmap, FlushBitmapFails, FlushIndexBitmap, DismountFails, Crash, Mount, RepairDisk,
         RepairFails, disk
<1>2. Disjoint' /\ \A bits : Unclaimed(bits) <=> (Unclaimed(bits))'
  BY <1>1, FewerClaims DEF SpaceKept, Live, Unclaimed, Spot
<1>3. (\A bits : free' = bits /\ Unclaimed(bits) => Unclaimed(free)')
      /\ (\A bits : diskFree' = bits /\ Unclaimed(bits) => Unclaimed(diskFree)')
  BY <1>2 DEF Unclaimed
<1>4. SUFFICES TodoIsTaken' /\ BitmapsAreSafe'
  BY <1>2 DEF SpaceKept
<1>5. ASSUME NEW why \in {"flush", "dismount"}, FlushBitmap(why)
      PROVE  TodoIsTaken' /\ BitmapsAreSafe'
  <2>1. /\ mounted /\ ~suspect /\ mounted' = mounted /\ suspect' = suspect
        /\ free' = free /\ diskFree' = free /\ call' = [NoCall EXCEPT !.step = why]
    BY <1>5 DEF FlushBitmap, Ready, status
  <2>2. call'.step \in {"flush", "dismount"}
    BY <2>1 DEF NoCall
  <2>3. Unclaimed(free)
    BY <2>1 DEF SpaceKept, BitmapsAreSafe
  <2>4. QED
    BY <1>3, <2>1, <2>2, <2>3 DEF TodoIsTaken, BitmapsAreSafe
<1>6. ASSUME NEW why \in {"flush", "dismount"}, FlushBitmapFails(why)
      PROVE  TodoIsTaken' /\ BitmapsAreSafe'
  <2>1. /\ mounted /\ ~suspect /\ mounted' = mounted /\ suspect' = (suspect \/ why = "dismount")
        /\ free' = free /\ diskFree' = diskFree /\ call' = [NoCall EXCEPT !.step = why]
    BY <1>6 DEF FlushBitmapFails, Ready, disk
  <2>2. call'.step = why
    BY <2>1 DEF NoCall
  <2>3. Unclaimed(free)
    BY <2>1 DEF SpaceKept, BitmapsAreSafe
  <2>4. QED
    BY <1>3, <2>1, <2>2, <2>3 DEF TodoIsTaken, BitmapsAreSafe
<1>7. CASE FlushIndexBitmap
  <2>1. /\ mounted /\ mounted' = (call.step = "flush") /\ suspect' = suspect
        /\ free' = free /\ diskFree' = diskFree /\ call' = NoCall
        /\ call.step \in {"flush", "dismount"}
    BY <1>7 DEF FlushIndexBitmap, Sound
  <2>2. ~suspect => Unclaimed(free)
    BY <2>1 DEF SpaceKept, BitmapsAreSafe
  <2>3. ~suspect /\ ~mounted' => Unclaimed(diskFree)
    BY <2>1, <2>2 DEF SpaceKept, BitmapsAreSafe
  <2>4. call'.step = "none"
    BY <2>1, NoCallFacts
  <2>5. QED
    BY <1>3, <2>1, <2>2, <2>3, <2>4 DEF TodoIsTaken, BitmapsAreSafe
<1>8. CASE DismountFails \/ Crash
  <2>1. suspect' /\ call' = NoCall
    BY <1>8 DEF DismountFails, Crash
  <2>2. QED
    BY <2>1, NoCallFacts DEF TodoIsTaken, BitmapsAreSafe
<1>9. CASE Mount
  <2>1. /\ ~mounted /\ mounted' /\ suspect' = suspect /\ free' = diskFree /\ call' = call
        /\ call.step = "none"
    BY <1>9 DEF Mount, Sound
  <2>2. ~suspect => Unclaimed(diskFree)
    BY <2>1 DEF SpaceKept, BitmapsAreSafe
  <2>3. QED
    BY <1>3, <2>1, <2>2 DEF TodoIsTaken, BitmapsAreSafe
<1>10. CASE RepairDisk
  <2>1. /\ mounted /\ mounted' = mounted /\ call' = call /\ call.step = "none"
        /\ free' = IF Discrepancies = {} THEN free ELSE Repaired(free)
    BY <1>10 DEF RepairDisk
  <2>2. Unclaimed(free)'
    <3>1. CASE suspect
      <4>1. free' = Clusters \ ClaimedOnDisk
        BY <2>1, <3>1, RepairedIsExact DEF RepairDue
      <4>2. QED
        BY <1>3, <4>1, RepairedIsSafe
    <3>2. CASE ~suspect
      <4>1. Unclaimed(free)
        BY <2>1, <3>2 DEF SpaceKept, BitmapsAreSafe
      <4>2. QED
        BY <1>3, <2>1, <4>1, RepairedIsSafe
    <3>3. QED
      BY <3>1, <3>2
  <2>3. QED
    BY <2>1, <2>2 DEF TodoIsTaken, BitmapsAreSafe
<1>11. CASE RepairFails
  <2>1. /\ mounted /\ mounted' = mounted /\ call' = call /\ call.step = "none"
        /\ free' = Repaired(free) /\ suspect' = suspect
    BY <1>11 DEF RepairFails
  <2>2. ~suspect => Unclaimed(free)
    BY <2>1 DEF SpaceKept, BitmapsAreSafe
  <2>3. QED
    BY <1>3, <2>1, <2>2, RepairedIsSafe DEF TodoIsTaken, BitmapsAreSafe
<1>12. QED
  BY <1>5, <1>6, <1>7, <1>8, <1>9, <1>10, <1>11

\* A call that ended between freeing clusters and blanking their header is not
\* forgotten.
LEMMA KeptBefore ==
  ASSUME [Next]_vars, Kept'
  PROVE  Kept
<1>1. failed \subseteq failed'
  <2>1. CASE vars' = vars
    BY <2>1 DEF vars, status
  <2>2. CASE Next
    BY <2>2 DEF Next, CreateHeader, OpenForWrite, InsertEntry, InsertFails, Delete, RemoveEntry,
       RemoveFails, FreeSegment, FreeFails, Extend, AppendExtent, LinkSegment, AppendFails,
       WriteSegment, SegmentFails, RecordHighest, HighestFails, Close, Abandon, FlushBitmap,
       FlushBitmapFails, FlushIndexBitmap, FlushIndexBitmapFails, DismountFails, Crash, Mount,
       RepairDisk, RepairFails, WriteFails, Fails, status
  <2>3. QED
    BY <2>1, <2>2
<1>2. QED
  BY <1>1, TornStaysTorn DEF Kept

\* No step that leaves the space kept undoes it.
LEMMA SpaceInductive ==
  ASSUME RepairFirst \/ ~suspect, Sound, Named, RepairDue, SpaceKept, [Next]_vars, Kept'
  PROVE  SpaceKept'
<1>1. CASE vars' = vars
  <2>1. /\ slot' = slot /\ free' = free /\ diskFree' = diskFree /\ call' = call
        /\ mounted' = mounted /\ suspect' = suspect
    BY <1>1 DEF vars, disk, memory, status
  <2>2. QED
    BY <2>1, ZenonT(60) DEF SpaceKept, Disjoint, TodoIsTaken, BitmapsAreSafe, Unclaimed, Live, Spot
<1>2. CASE FreeFails
  <2>1. "free" \in failed'
    BY <1>2 DEF FreeFails, WriteFails, Fails
  <2>2. QED
    BY <2>1 DEF Kept
<1>3. QED
  BY <1>1, <1>2, CallsKeepSpace, CreateHeaderKeepsSpace, FreeSegmentKeepsSpace,
     ExtendKeepsSpace, AppendExtentKeepsSpace, LinkSegmentKeepsSpace, WriteSegmentKeepsSpace,
     VolumeKeepsSpace DEF Next

\* On an empty volume nothing is claimed.
LEMMA InitIsKept ==
  ASSUME Init
  PROVE  RepairDue /\ SpaceKept
<1>1. Live = {}
  BY DEF Init, Live, Blank
<1>2. call.step = "none" /\ mounted /\ ~suspect
  BY NoCallFacts DEF Init
<1>3. QED
  BY <1>1, <1>2 DEF RepairDue, SpaceKept, Disjoint, TodoIsTaken, BitmapsAreSafe, Unclaimed

\* If a volume that crashed is repaired before it is used, its space is kept: what
\* the headers claim, what Extend has taken and not recorded, and what the bitmap
\* shows free have no cluster in common, but for a slot that could not be blanked
\* and a link that was torn.
THEOREM VInvAlways == Spec => []VInv
<1>1. Init => NInv /\ (RepairFirst => RepairDue /\ (Careful /\ Kept => SpaceKept))
  BY InitIsSound, InitIsNamed, InitIsKept DEF NInv
<1>2. VInv /\ [Next]_vars /\ NInv' => VInv'
  <2>1. SUFFICES ASSUME VInv, [Next]_vars, NInv', RepairFirst
                 PROVE  RepairDue' /\ (Careful /\ Kept' => SpaceKept')
    BY DEF VInv, Careful
  <2>2. RepairDue'
    BY <2>1, RepairDueInductive DEF VInv, NInv
  <2>3. ASSUME Careful, Kept' PROVE SpaceKept'
    <3>1. Kept
      BY <2>1, <2>3, KeptBefore
    <3>2. Sound /\ Named /\ RepairDue /\ SpaceKept
      BY <2>1, <2>3, <3>1 DEF VInv, NInv, Kept
    <3>3. QED
      BY <2>1, <2>3, <3>2, SpaceInductive
  <2>4. QED
    BY <2>2, <2>3
<1>3. QED
  BY <1>1, <1>2, NInvAlways, PTL DEF Spec, VInv

\* Space kept is space owned once.
LEMMA KeptIsOwnedOnce ==
  ASSUME RepairFirst, Sound, SpaceKept
  PROVE  SpaceIsOwnedOnce
<1>1. SUFFICES ASSUME NEW c \in Clusters
               PROVE  /\ Cardinality(Owners(c)) <= 1
                      /\ InService /\ c \in free => Owners(c) = {}
  BY DEF SpaceIsOwnedOnce
<1>2. \A o \in Owners(c) : /\ o = <<o[1], o[2]>> /\ o[1] \in Live
                           /\ o[2] \in DOMAIN slot[o[1]].map /\ c \in Spot(o[1], o[2])
  BY DEF Owners, Spot
<1>3. \A o, p \in Owners(c) : o = p
  <2>1. TAKE o, p \in Owners(c)
  <2>2. o[1] = p[1] /\ o[2] = p[2]
    BY <1>2 DEF SpaceKept, Disjoint
  <2>3. QED
    BY <1>2, <2>2
<1>4. Cardinality(Owners(c)) <= 1
  <2>1. CASE Owners(c) = {}
    BY <2>1, FS_EmptySet
  <2>2. CASE Owners(c) # {}
    <3>1. PICK o \in Owners(c) : TRUE
      BY <2>2
    <3>2. Owners(c) = {o}
      BY <1>3, <3>1
    <3>3. Cardinality({o}) = 1
      BY FS_Singleton
    <3>4. QED
      BY <3>2, <3>3
  <2>3. QED
    BY <2>1, <2>2
<1>5. ASSUME InService, c \in free PROVE Owners(c) = {}
  <2>1. Unclaimed(free)
    BY <1>5 DEF InService, SpaceKept, BitmapsAreSafe
  <2>2. QED
    BY <1>2, <1>5, <2>1 DEF Unclaimed
<1>6. QED
  BY <1>4, <1>5

\* OnlyTornCallsShareSpace of every volume that is repaired after a crash before it
\* is used: two extents share a cluster, or one that a header claims is free to be
\* allocated, only after a slot that was freed could not be blanked or a segment
\* that was linked to was not written.
THEOREM OnlyTornCallsLoseSpace ==
  ASSUME Careful, RepairFirst
  PROVE  Spec => []OnlyTornCallsShareSpace
<1>1. VInv => OnlyTornCallsShareSpace
  BY KeptIsOwnedOnce DEF VInv, NInv, OnlyTornCallsShareSpace, Kept, Untorn
<1>2. QED
  BY <1>1, VInvAlways, PTL

\* Where those two writes do not fail and the system does not crash, whatever else
\* fails, space is owned once.
THEOREM SpaceOwnedAlways ==
  ASSUME Careful, RepairFirst, NeverTorn, "free" \notin MayFail
  PROVE  Spec => []SpaceIsOwnedOnce
<1>1. Init => Kept
  BY DEF Init, Kept, Untorn
<1>2. VInv /\ Kept /\ [Next]_vars => Kept'
  <2>1. SUFFICES ASSUME VInv, Kept, [Next]_vars PROVE Kept'
    OBVIOUS
  <2>2. Sound
    BY <2>1 DEF VInv, NInv
  <2>3. Untorn'
    BY <2>1, <2>2, UntornInductive DEF Kept
  <2>4. "free" \notin failed'
    BY <2>1, <2>2, FailsWhereItMay DEF Kept
  <2>5. QED
    BY <2>3, <2>4 DEF Kept
<1>3. VInv /\ Kept => SpaceIsOwnedOnce
  BY KeptIsOwnedOnce DEF VInv, NInv
<1>4. QED
  BY <1>1, <1>2, <1>3, VInvAlways, PTL DEF Spec

-----------------------------------------------------------------------------
(* Nothing is lost.                                                        *)

\* No call ended halfway.
Clean == failed = {} /\ crashed = {}

\* The slot LinkSegment has marked in use and WriteSegment has yet to write.
Promised == IF call.step = "segment" THEN {call.next.num} ELSE {}

\* The slots shown in use are those that hold a header, and the one promised.
SlotsKept ==
    /\ mounted => used = Live \cup Promised
    /\ ~mounted => diskUsed = Live

\* The clusters Extend has taken and not recorded.
ToRecord == IF call.step \in {"append", "segment"} THEN Claimed(call.todo) ELSE {}

\* Every cluster is free, claimed by a header, or to be recorded in one.
NoneLeftOut ==
    /\ mounted => Clusters \subseteq free \cup ClaimedOnDisk \cup ToRecord
    /\ ~mounted => Clusters \subseteq diskFree \cup ClaimedOnDisk

\* Where the chains of headers begin: at the entries, and at the header a call
\* has yet to enter or to free.
Roots == {entry[v].num : v \in Entered}
         \cup (IF call.step = "insert" THEN {call.creates.num} ELSE {})
         \cup (IF call.step = "free" THEN {call.next.num} ELSE {})

\* With a header in S, its next segment is.
Closed(S) == \A m \in Linked : m \in S => slot[m].ext.num \in S

\* Every header is reached from the roots.
AllReached == \A S \in SUBSET FileNumbers : Roots \subseteq S /\ Closed(S) => Live \subseteq S

\* What is not about to be deleted is no more than the limit.
WithinLimit == VersionLimit # 0 => Cardinality(Entered \ call.excess) <= VersionLimit

\* The version to be entered is not taken.
EntersNew == call.step = "insert" => call.version \notin Entered

Accounted == SlotsKept /\ NoneLeftOut /\ AllReached /\ EntersNew

CInv == /\ NInv
        /\ Clean => ~suspect
        /\ Careful /\ Clean => SpaceKept /\ Accounted /\ WithinLimit

\* The steps by which no call ends halfway.
CleanStep ==
    \/ \E v \in Versions : CreateHeader(v) \/ OpenForWrite(v)
    \/ InsertEntry \/ Delete \/ RemoveEntry \/ FreeSegment
    \/ \E k \in 1 .. MaxRequest : Extend(k)
    \/ AppendExtent \/ LinkSegment \/ WriteSegment \/ RecordHighest \/ Close \/ Abandon
    \/ \E why \in {"flush", "dismount"} : FlushBitmap(why)
    \/ FlushIndexBitmap \/ Mount \/ RepairDisk

\* A call that ended halfway is not forgotten.
LEMMA CleanSteps ==
  ASSUME [Next]_vars, Clean'
  PROVE  Clean /\ (vars' = vars \/ CleanStep)
<1>1. CASE vars' = vars
  BY <1>1 DEF vars, status, Clean
<1>2. CASE Next
  <2>1. failed \subseteq failed' /\ crashed \subseteq crashed'
    BY <1>2 DEF Next, CreateHeader, OpenForWrite, InsertEntry, InsertFails, Delete, RemoveEntry,
       RemoveFails, FreeSegment, FreeFails, Extend, AppendExtent, LinkSegment, AppendFails,
       WriteSegment, SegmentFails, RecordHighest, HighestFails, Close, Abandon, FlushBitmap,
       FlushBitmapFails, FlushIndexBitmap, FlushIndexBitmapFails, DismountFails, Crash, Mount,
       RepairDisk, RepairFails, WriteFails, Fails, status
  <2>2. ~(\/ InsertFails \/ RemoveFails \/ FreeFails \/ AppendFails \/ SegmentFails
          \/ HighestFails \/ FlushIndexBitmapFails \/ DismountFails \/ Crash \/ RepairFails
          \/ \E why \in {"flush", "dismount"} : FlushBitmapFails(why))
    BY DEF InsertFails, RemoveFails, FreeFails, AppendFails, SegmentFails, HighestFails,
       FlushIndexBitmapFails, DismountFails, Crash, RepairFails, FlushBitmapFails, WriteFails,
       Fails, Clean
  <2>3. CleanStep
    BY <1>2, <2>2 DEF Next, CleanStep
  <2>4. QED
    BY <2>1, <2>3 DEF Clean
<1>3. QED
  BY <1>1, <1>2

\* What live headers claimed they claim, if their maps are as they were.
LEMMA ClaimsStay ==
  ASSUME NEW n, \A m \in Live : m # n => m \in Live' /\ slot'[m].map = slot[m].map
  PROVE  ClaimedOnDisk \subseteq ClaimedOnDisk' \cup (IF n \in Live THEN Claimed(slot[n].map) ELSE {})
<1>1. \A m \in Live : m # n => Claimed(slot[m].map) \subseteq ClaimedOnDisk'
  BY DEF ClaimedOnDisk, Live, Claimed
<1>2. ASSUME NEW c \in ClaimedOnDisk
      PROVE  c \in ClaimedOnDisk' \cup (IF n \in Live THEN Claimed(slot[n].map) ELSE {})
  <2>1. PICK m \in Live : c \in Claimed(slot[m].map)
    BY DEF ClaimedOnDisk, Live
  <2>2. QED
    BY <1>1, <2>1
<1>3. QED
  BY <1>2

\* Steps that leave headers and roots alone, and account for what they free or
\* take.
LEMMA QuietLosesNothing ==
  ASSUME Accounted, slot' = slot, used' = used, mounted, mounted',
         call.step # "segment", call'.step \notin {"insert", "segment"}, Roots \subseteq Roots',
         free \cup ToRecord \subseteq free' \cup ToRecord'
  PROVE  Accounted'
<1>1. Live' = Live /\ Linked' = Linked /\ ClaimedOnDisk' = ClaimedOnDisk
  BY SameClaims DEF Live, Linked
<1>2. SlotsKept'
  BY <1>1 DEF Accounted, SlotsKept, Promised
<1>3. NoneLeftOut'
  BY <1>1 DEF Accounted, NoneLeftOut
<1>4. AllReached'
  <2>1. SUFFICES ASSUME NEW S \in SUBSET FileNumbers, Roots' \subseteq S, (Closed(S))'
                 PROVE  Live' \subseteq S
    BY DEF AllReached
  <2>2. Closed(S)
    BY <1>1, <2>1 DEF Closed
  <2>3. QED
    BY <1>1, <2>1, <2>2 DEF Accounted, AllReached
<1>5. QED
  BY <1>2, <1>3, <1>4 DEF Accounted, EntersNew

\* The new header is one more root.
LEMMA CreateHeaderLosesNothing ==
  ASSUME Sound, Accounted, NEW v \in Versions, CreateHeader(v)
  PROVE  Accounted'
<1>1. PICK n \in FileNumbers :
             /\ FreeSlot(n) /\ slot[n].seq < MaxSeq
             /\ slot' = [slot EXCEPT ![n] = HeaderOf(NextFid(n), <<>>)]
             /\ used' = used \cup {n}
             /\ call' = [NoCall EXCEPT !.step = "insert", !.creates = NextFid(n), !.version = v]
  BY DEF CreateHeader
<1>2. /\ mounted /\ mounted' /\ call.step = "none" /\ entry' = entry /\ free' = free
      /\ ~slot[n].live /\ v \notin Entered
  BY <1>1 DEF CreateHeader, Ready, status, FreeSlot, MayCreate, Entered
<1>3. call'.step = "insert" /\ call'.creates.num = n /\ call'.version = v
  BY <1>1 DEF NoCall, NextFid
<1>4. slot'[n].live /\ slot'[n].ext = NoFid /\ \A m \in FileNumbers : m # n => slot'[m] = slot[m]
  BY <1>1 DEF Sound, Typed, HeaderOf
<1>5. Live' = Live \cup {n} /\ Linked' = Linked /\ n \notin Live /\ n \notin Linked
  BY <1>2, <1>4 DEF Live, Linked
<1>6. SlotsKept'
  BY <1>1, <1>2, <1>3, <1>5 DEF Accounted, SlotsKept, Promised
<1>7. NoneLeftOut'
  <2>1. \A m \in Live : m # n => m \in Live' /\ slot'[m].map = slot[m].map
    BY <1>4, <1>5 DEF Live
  <2>2. ClaimedOnDisk \subseteq ClaimedOnDisk'
    BY <1>5, <2>1, ClaimsStay
  <2>3. QED
    BY <1>2, <1>3, <2>2 DEF Accounted, NoneLeftOut, ToRecord
<1>8. Roots \subseteq Roots' /\ n \in Roots'
  BY <1>2, <1>3 DEF Roots, Entered
<1>9. AllReached'
  <2>1. SUFFICES ASSUME NEW S \in SUBSET FileNumbers, Roots' \subseteq S, (Closed(S))'
                 PROVE  Live' \subseteq S
    BY DEF AllReached
  <2>2. \A m \in Linked : slot'[m] = slot[m]
    BY <1>4, <1>5 DEF Linked
  <2>3. Closed(S)
    BY <1>5, <2>1, <2>2 DEF Closed
  <2>4. QED
    BY <1>5, <1>8, <2>1, <2>3 DEF Accounted, AllReached
<1>10. EntersNew'
  BY <1>2, <1>3 DEF EntersNew, Entered
<1>11. QED
  BY <1>6, <1>7, <1>9, <1>10 DEF Accounted

\* The segment after the one that is blanked is the root that takes its place.
LEMMA FreeSegmentLosesNothing ==
  ASSUME Sound, Named, Accounted, FreeSegment
  PROVE  Accounted'
<1> PICK n, ext : n = call.next.num /\ ext = slot[n].ext
  OBVIOUS
<1>1. /\ call.step = "free" /\ slot' = [slot EXCEPT ![n] = Blank(slot[n].seq)]
      /\ free' = free \cup Claimed(slot[n].map) /\ used' = used \ {n}
      /\ mounted' = mounted /\ mounted /\ entry' = entry
      /\ IF ext = NoFid THEN DeleteMore([call EXCEPT !.next = NoFid])
         ELSE call' = [call EXCEPT !.next = ext]
  BY DEF FreeSegment, UnmarkSegment, status, Sound
<1>2. n \in FileNumbers /\ n \in Live
  BY <1>1, CallFacts, FidFacts DEF Sound, Typed, Underway, Named, FreesUnnamed, Resolves, Live
<1>3. ~slot'[n].live /\ \A m \in FileNumbers : m # n => slot'[m] = slot[m]
  BY <1>1, <1>2 DEF Sound, Typed, Blank
<1>4. Live' = Live \ {n} /\ Linked' = Linked \ {n}
  BY <1>3 DEF Live, Linked
<1>5. call'.step \in {"none", "remove", "free"}
  BY <1>1, NoCallFacts DEF DeleteMore, Sound, Typed, GoodCall
<1>6. ext # NoFid => call'.step = "free" /\ call'.next = ext
  BY <1>1 DEF Sound, Typed, GoodCall
<1>7. SlotsKept'
  BY <1>1, <1>4, <1>5 DEF Accounted, SlotsKept, Promised
<1>8. NoneLeftOut'
  <2>1. \A m \in Live : m # n => m \in Live' /\ slot'[m].map = slot[m].map
    BY <1>3, <1>4 DEF Live
  <2>2. ClaimedOnDisk \subseteq ClaimedOnDisk' \cup Claimed(slot[n].map)
    BY <1>2, <2>1, ClaimsStay
  <2>3. QED
    BY <1>1, <1>5, <2>2 DEF Accounted, NoneLeftOut, ToRecord
<1>9. AllReached'
  <2>1. SUFFICES ASSUME NEW S \in SUBSET FileNumbers, Roots' \subseteq S, (Closed(S))'
                 PROVE  Live' \subseteq S
    BY DEF AllReached
  <2>2. S \cup {n} \in SUBSET FileNumbers
    BY <1>2
  <2>3. Roots \subseteq S \cup {n}
    BY <1>1, <2>1 DEF Roots, Entered
  <2>4. ext # NoFid => ext.num \in S
    BY <1>6, <2>1 DEF Roots
  <2>5. \A m \in Linked : m # n => m \in Linked' /\ slot'[m] = slot[m]
    BY <1>3, <1>4 DEF Linked
  <2>6. n \in Linked => ext # NoFid
    BY DEF Linked
  <2>7. Closed(S \cup {n})
    BY <2>1, <2>4, <2>5, <2>6 DEF Closed
  <2>8. QED
    BY <1>4, <2>2, <2>3, <2>7 DEF Accounted, AllReached
<1>10. QED
  BY <1>5, <1>7, <1>8, <1>9 DEF Accounted, EntersNew

\* What Extend takes from the bitmap is to be recorded.
LEMMA ExtendLosesNothing ==
  ASSUME Accounted, NEW k \in 1 .. MaxRequest, Extend(k), Clean'
  PROVE  Accounted'
<1>1. PICK exts \in Allocations(free, k) :
         /\ free' = FreeAfter(exts)
         /\ IF Intact(handle.header)
             THEN /\ call' = [NoCall EXCEPT !.step = "append", !.todo = exts,
                                            !.tail = TailOf(handle.num, handle.header)]
                  /\ UNCHANGED status
             ELSE Fails
  BY DEF Extend
<1>2. Intact(handle.header)
  BY <1>1 DEF Fails, Clean
<1>3. /\ mounted /\ mounted' /\ slot' = slot /\ entry' = entry /\ used' = used
      /\ call.step = "none" /\ call'.step = "append" /\ call'.todo = exts
  BY <1>1, <1>2 DEF Extend, Ready, status, disk, NoCall
<1>4. exts \in Seq(Extent)
  BY DEF Allocations, IsAllocation
<1>5. Taken(exts) \subseteq Claimed(exts)
  <2>1. (1 .. (Len(exts) + 1) - 1) = DOMAIN exts
    BY <1>4
  <2>2. QED
    BY <2>1 DEF Taken, TakenBefore, Claimed
<1>6. free \subseteq free' \cup ToRecord'
  BY <1>1, <1>3, <1>5 DEF FreeAfter, ToRecord
<1>7. Roots' = Roots /\ ToRecord = {}
  BY <1>3 DEF Roots, Entered, ToRecord
<1>8. QED
  BY <1>3, <1>6, <1>7, QuietLosesNothing

\* addExtent loses no cluster of the map or of the extent.
LEMMA AddedIsClaimed ==
  ASSUME NEW map \in GoodMap, NEW e \in GoodExtent
  PROVE  Claimed(map) \cup ClustersOf(e) \subseteq Claimed(AddExtent(map, e))
<1> DEFINE grown == AddExtent(map, e)
           n == Len(map)
           last == [map[n] EXCEPT !.count = @ + e.count]
<1>1. map \in Seq(GoodExtent) /\ n \in Nat
  BY MapsAreSequences
<1>2. \A x \in GoodExtent : /\ x \in Extent /\ x.start \in Nat /\ x.count \in Nat \ {0}
  BY ExtentsAreRuns DEF GoodExtent
<1>3. CASE n > 0 /\ map[n].start + map[n].count = e.start
  <2>1. grown = [map EXCEPT ![n] = last]
    BY <1>3 DEF AddExtent
  <2>2. map[n] \in GoodExtent /\ n \in DOMAIN map
    BY <1>1, <1>3
  <2>3. last.start = map[n].start /\ last.count = map[n].count + e.count
    BY <1>2, <2>2 DEF Extent
  <2>4. ClustersOf(last) = ClustersOf(map[n]) \cup ClustersOf(e)
    <3>1. /\ map[n].start \in Nat /\ map[n].count \in Nat \ {0}
          /\ e.start \in Nat /\ e.count \in Nat \ {0} /\ map[n].start + map[n].count = e.start
      BY <1>2, <1>3, <2>2
    <3>2. \A s, c, d \in Nat : Span(s, c) \cup Span(s + c, d) = Span(s, c + d)
      BY DEF Span
    <3>3. QED
      BY <2>3, <3>1, <3>2 DEF ClustersOf
  <2>5. /\ DOMAIN grown = DOMAIN map
        /\ \A i \in DOMAIN map : grown[i] = IF i = n THEN last ELSE map[i]
    BY <1>1, <2>1, <2>2
  <2> HIDE DEF grown, last
  <2>6. \A i \in DOMAIN map : ClustersOf(map[i]) \subseteq ClustersOf(grown[i])
    BY <2>4, <2>5
  <2>7. ClustersOf(e) \subseteq ClustersOf(grown[n]) /\ n \in DOMAIN grown
    BY <2>2, <2>4, <2>5
  <2>8. Claimed(map) \cup ClustersOf(e) \subseteq Claimed(grown)
    BY <2>5, <2>6, <2>7 DEF Claimed
  <2>9. QED
    BY <2>8 DEF grown
<1>4. CASE ~(n > 0 /\ map[n].start + map[n].count = e.start)
  <2>1. grown = Append(map, e)
    BY <1>4 DEF AddExtent
  <2>2. /\ \A i \in DOMAIN map : i \in DOMAIN grown /\ grown[i] = map[i]
        /\ n + 1 \in DOMAIN grown /\ grown[n + 1] = e
    BY <1>1, <2>1
  <2> HIDE DEF grown
  <2>3. Claimed(map) \cup ClustersOf(e) \subseteq Claimed(grown)
    BY <2>2 DEF Claimed
  <2>4. QED
    BY <2>3 DEF grown
<1>5. QED
  BY <1>3, <1>4

\* What is left to record is what was, without the first extent.
LEMMA HeadIsRecorded ==
  ASSUME NEW todo \in Seq(GoodExtent), todo # <<>>
  PROVE  /\ Claimed(todo) \subseteq ClustersOf(Head(todo)) \cup Claimed(Tail(todo))
         /\ Tail(todo) = <<>> => Claimed(Tail(todo)) = {}
<1>1. Head(todo) = todo[1] /\ Len(Tail(todo)) = Len(todo) - 1 /\ Len(todo) \in Nat
      /\ DOMAIN todo = 1 .. Len(todo) /\ DOMAIN Tail(todo) = 1 .. Len(todo) - 1
      /\ \A i \in 1 .. Len(todo) - 1 : Tail(todo)[i] = todo[i + 1]
  OBVIOUS
<1>2. \A i \in DOMAIN todo : i # 1 => i - 1 \in DOMAIN Tail(todo) /\ Tail(todo)[i - 1] = todo[i]
  <2>1. TAKE i \in DOMAIN todo
  <2>2. i # 1 => i - 1 \in 1 .. Len(todo) - 1 /\ (i - 1) + 1 = i
    BY <1>1
  <2>3. QED
    BY <1>1, <2>2
<1>3. \A i \in DOMAIN todo :
         ClustersOf(todo[i]) \subseteq ClustersOf(Head(todo)) \cup Claimed(Tail(todo))
  BY <1>1, <1>2 DEF Claimed
<1>4. Claimed(todo) \subseteq ClustersOf(Head(todo)) \cup Claimed(Tail(todo))
  BY <1>3 DEF Claimed
<1>5. Tail(todo) = <<>> => Claimed(Tail(todo)) = {}
  BY DEF Claimed
<1>6. QED
  BY <1>4, <1>5

\* The extent recorded is claimed by the tail.
LEMMA AppendExtentLosesNothing ==
  ASSUME Sound, Named, Accounted, AppendExtent
  PROVE  Accounted'
<1> PICK n, h, e : n = call.tail /\ h = slot[n] /\ e = Head(call.todo)
  OBVIOUS
<1>1. /\ call.step = "append" /\ handle # NoHandle /\ n \in FileNumbers /\ call.todo # <<>>
      /\ mounted /\ call.todo \in Seq(GoodExtent)
  BY CallFacts DEF AppendExtent, Sound, Underway, Typed
<1>2. Known(n) = h /\ h \in GoodHeader /\ e \in GoodExtent /\ h.map \in GoodMap
  BY <1>1, KnownIsOnDisk, HeaderFacts, TodoFacts DEF Sound, Typed
<1> PICK grown : grown = [h EXCEPT !.map = AddExtent(h.map, e)]
  OBVIOUS
<1>3. /\ slot' = [slot EXCEPT ![n] = grown] /\ call' = Recorded(call) /\ Fits(h, e)
      /\ free' = free /\ used' = used /\ entry' = entry /\ mounted' = mounted
  BY <1>2 DEF AppendExtent, status
<1>4. grown.live = h.live /\ grown.map = AddExtent(h.map, e) /\ grown.ext = h.ext
  BY <1>2, <1>3, GrownFacts
<1>5. slot'[n] = grown /\ \A m \in FileNumbers : m # n => slot'[m] = slot[m]
  BY <1>1, <1>3 DEF Sound, Typed
<1>6. n \in Live
  BY <1>1 DEF Named, LinksBlank, Live
<1>7. /\ Live' = Live /\ Linked' = Linked
      /\ \A m \in FileNumbers : slot'[m].ext = slot[m].ext
  <2>1. \A m \in FileNumbers : slot'[m].ext = slot[m].ext /\ slot'[m].live = slot[m].live
    BY <1>4, <1>5
  <2>2. QED
    BY <2>1 DEF Live, Linked
<1>8. /\ call'.todo = Tail(call.todo)
      /\ call'.step = IF Tail(call.todo) = <<>> THEN "highest" ELSE "append"
  BY <1>1, <1>3, RecordedFacts DEF Sound, Typed
<1>9. SlotsKept'
  BY <1>1, <1>3, <1>7, <1>8 DEF Accounted, SlotsKept, Promised
<1>10. NoneLeftOut'
  <2>1. \A m \in Live : m # n => m \in Live' /\ slot'[m].map = slot[m].map
    BY <1>5, <1>7 DEF Live
  <2>2. ClaimedOnDisk \subseteq ClaimedOnDisk' \cup Claimed(h.map)
    BY <1>6, <2>1, ClaimsStay
  <2>3. Claimed(slot'[n].map) \subseteq ClaimedOnDisk'
    <3>1. n \in Live'
      BY <1>6, <1>7
    <3>2. QED
      BY <3>1 DEF ClaimedOnDisk, Live, Claimed
  <2>4. Claimed(h.map) \cup ClustersOf(e) \subseteq Claimed(slot'[n].map)
    BY <1>2, <1>4, <1>5, AddedIsClaimed
  <2>5. ToRecord \subseteq ClustersOf(e) \cup ToRecord'
    <3>1. ToRecord = Claimed(call.todo)
      BY <1>1 DEF ToRecord
    <3>2. Claimed(Tail(call.todo)) \subseteq ToRecord'
      BY <1>1, <1>8, HeadIsRecorded DEF ToRecord
    <3>3. QED
      BY <1>1, <3>1, <3>2, HeadIsRecorded
  <2>6. QED
    BY <1>1, <1>3, <2>2, <2>3, <2>4, <2>5 DEF Accounted, NoneLeftOut
<1>11. AllReached'
  <2>1. SUFFICES ASSUME NEW S \in SUBSET FileNumbers, Roots' \subseteq S, (Closed(S))'
                 PROVE  Live' \subseteq S
    BY DEF AllReached
  <2>2. Closed(S)
    BY <1>7, <2>1 DEF Closed, Linked
  <2>3. Roots \subseteq S
    BY <1>1, <1>3, <2>1 DEF Roots, Entered
  <2>4. QED
    BY <1>7, <2>2, <2>3 DEF Accounted, AllReached
<1>12. QED
  BY <1>8, <1>9, <1>10, <1>11 DEF Accounted, EntersNew

\* The slot linked to is promised.
LEMMA LinkSegmentLosesNothing ==
  ASSUME Sound, Named, Accounted, LinkSegment
  PROVE  Accounted'
<1> PICK t, h : t = call.tail /\ h = slot[t]
  OBVIOUS
<1>1. /\ call.step = "append" /\ handle # NoHandle /\ t \in FileNumbers /\ mounted
  BY DEF LinkSegment, Sound, Underway
<1>2. Known(t) = h /\ h \in GoodHeader /\ h.ext = NoFid
  BY <1>1, KnownIsOnDisk DEF Sound, Typed, Named, LinksBlank
<1> PICK n \in FileNumbers :
             /\ slot' = [slot EXCEPT ![t] = [h EXCEPT !.ext = NextFid(n)]]
             /\ used' = MarkSegment(n)
             /\ call' = [call EXCEPT !.step = "segment", !.next = NextFid(n)]
  BY <1>2 DEF LinkSegment
<1>3. /\ free' = free /\ mounted' = mounted /\ entry' = entry
      /\ call'.step = "segment" /\ call'.todo = call.todo /\ call'.next.num = n
  BY DEF LinkSegment, status, Sound, Typed, GoodCall, NextFid
<1>4. \A m \in FileNumbers : slot'[m].live = slot[m].live /\ slot'[m].map = slot[m].map
  BY <1>1, <1>2 DEF Sound, Typed, GoodHeader
<1>5. Live' = Live
  BY <1>4 DEF Live
<1>6. SlotsKept'
  BY <1>1, <1>3, <1>5 DEF Accounted, SlotsKept, Promised, MarkSegment
<1>7. NoneLeftOut'
  <2>1. ClaimedOnDisk' = ClaimedOnDisk
    BY <1>4 DEF ClaimedOnDisk, Claimed
  <2>2. QED
    BY <1>1, <1>3, <2>1 DEF Accounted, NoneLeftOut, ToRecord
<1>8. AllReached'
  <2>1. SUFFICES ASSUME NEW S \in SUBSET FileNumbers, Roots' \subseteq S, (Closed(S))'
                 PROVE  Live' \subseteq S
    BY DEF AllReached
  <2>2. \A m \in Linked : m \in Linked' /\ slot'[m].ext = slot[m].ext
    BY <1>2 DEF Linked, Sound, Typed
  <2>3. Closed(S)
    BY <2>1, <2>2 DEF Closed
  <2>4. Roots \subseteq S
    BY <1>1, <1>3, <2>1 DEF Roots, Entered
  <2>5. QED
    BY <1>5, <2>3, <2>4 DEF Accounted, AllReached
<1>9. QED
  BY <1>3, <1>6, <1>7, <1>8 DEF Accounted, EntersNew

\* The segment promised is reached by its link, and claims its extent.
LEMMA WriteSegmentLosesNothing ==
  ASSUME Sound, Named, Accounted, WriteSegment
  PROVE  Accounted'
<1> PICK f, n, e, t : f = call.next /\ n = f.num /\ e = Head(call.todo) /\ t = call.tail
  OBVIOUS
<1>1. /\ call.step = "segment" /\ call.todo # <<>> /\ f # NoFid /\ mounted
      /\ t \in FileNumbers /\ call.todo \in Seq(GoodExtent)
  BY CallFacts DEF WriteSegment, Sound, Underway, Typed
<1>2. n \in FileNumbers /\ ~slot[n].live /\ slot[t].live /\ slot[t].ext = f
  BY <1>1, CallFacts, FidFacts DEF Sound, Typed, Named, LinksBlank
<1>3. /\ slot' = [slot EXCEPT ![n] = HeaderOf(f, <<e>>)]
      /\ call' = [Recorded(call) EXCEPT !.tail = n, !.next = NoFid]
      /\ free' = free /\ used' = used /\ entry' = entry /\ mounted' = mounted
  BY DEF WriteSegment, status
<1>4. /\ slot'[n].map = <<e>> /\ slot'[n].live /\ slot'[n].ext = NoFid
      /\ \A m \in FileNumbers : m # n => slot'[m] = slot[m]
  BY <1>2, <1>3 DEF Sound, Typed, HeaderOf
<1>5. Live' = Live \cup {n} /\ Linked' = Linked /\ t \in Live /\ t \in Linked /\ n \notin Live
  BY <1>1, <1>2, <1>4 DEF Live, Linked
<1>6. /\ call'.todo = Tail(call.todo)
      /\ call'.step = IF Tail(call.todo) = <<>> THEN "highest" ELSE "append"
  <2>1. Recorded(call) \in GoodCall /\ Recorded(call).todo = Tail(call.todo)
        /\ Recorded(call).step = IF Tail(call.todo) = <<>> THEN "highest" ELSE "append"
    BY <1>1, RecordedFacts DEF Sound, Typed
  <2>2. QED
    BY <1>3, <2>1 DEF GoodCall
<1>7. SlotsKept'
  BY <1>1, <1>3, <1>5, <1>6 DEF Accounted, SlotsKept, Promised
<1>8. NoneLeftOut'
  <2>1. \A m \in Live : m # n => m \in Live' /\ slot'[m].map = slot[m].map
    BY <1>4, <1>5 DEF Live
  <2>2. ClaimedOnDisk \subseteq ClaimedOnDisk'
    BY <1>5, <2>1, ClaimsStay
  <2>3. ClustersOf(e) \subseteq ClaimedOnDisk'
    <3>1. ClustersOf(e) \subseteq Claimed(<<e>>)
      BY DEF Claimed
    <3>2. n \in Live'
      BY <1>5
    <3>3. Claimed(slot'[n].map) \subseteq ClaimedOnDisk'
      BY <3>2 DEF ClaimedOnDisk, Live, Claimed
    <3>4. QED
      BY <1>4, <3>1, <3>3
  <2>4. ToRecord \subseteq ClustersOf(e) \cup ToRecord'
    <3>1. ToRecord = Claimed(call.todo)
      BY <1>1 DEF ToRecord
    <3>2. Claimed(Tail(call.todo)) \subseteq ToRecord'
      BY <1>1, <1>6, HeadIsRecorded DEF ToRecord
    <3>3. QED
      BY <1>1, <3>1, <3>2, HeadIsRecorded
  <2>5. QED
    BY <1>1, <1>3, <2>2, <2>3, <2>4 DEF Accounted, NoneLeftOut
<1>9. AllReached'
  <2>1. SUFFICES ASSUME NEW S \in SUBSET FileNumbers, Roots' \subseteq S, (Closed(S))'
                 PROVE  Live' \subseteq S
    BY DEF AllReached
  <2>2. \A m \in Linked : slot'[m] = slot[m]
    BY <1>2, <1>4 DEF Linked
  <2>3. Closed(S)
    BY <1>5, <2>1, <2>2 DEF Closed
  <2>4. Roots \subseteq S
    BY <1>1, <1>3, <2>1 DEF Roots, Entered
  <2>5. Live \subseteq S
    BY <2>3, <2>4 DEF Accounted, AllReached
  <2>6. n \in S
    BY <1>2, <1>5, <2>3, <2>5 DEF Closed
  <2>7. QED
    BY <1>5, <2>5, <2>6
<1>10. QED
  BY <1>6, <1>7, <1>8, <1>9 DEF Accounted, EntersNew

\* What the other steps leave alone, the bitmaps apart.
LEMMA OthersLoseNothing ==
  ASSUME Sound, Named, SpaceKept, ~suspect, Accounted,
         \/ \E v \in Versions : OpenForWrite(v)
         \/ InsertEntry \/ Delete \/ RemoveEntry \/ RecordHighest \/ Close \/ Abandon
         \/ \E why \in {"flush", "dismount"} : FlushBitmap(why)
         \/ FlushIndexBitmap \/ Mount \/ RepairDisk
  PROVE  Accounted'
<1>1. CASE \/ \E v \in Versions : OpenForWrite(v)
           \/ Delete \/ Abandon \/ \E why \in {"flush", "dismount"} : FlushBitmap(why)
  <2>1. /\ slot' = slot /\ used' = used /\ entry' = entry /\ free' = free /\ mounted /\ mounted'
        /\ call.step = "none"
    <3>1. Ready
      BY <1>1 DEF OpenForWrite, Delete, Abandon, FlushBitmap
    <3>2. slot' = slot /\ used' = used /\ entry' = entry /\ free' = free /\ mounted' = mounted
      BY <1>1 DEF OpenForWrite, Delete, Abandon, FlushBitmap, disk, status
    <3>3. QED
      BY <3>1, <3>2 DEF Ready
  <2>2. call'.step \in {"none", "remove", "flush", "dismount"}
    BY <1>1, <2>1 DEF OpenForWrite, Delete, Abandon, FlushBitmap, NoCall
  <2>3. Roots' = Roots /\ ToRecord' = ToRecord
    BY <2>1, <2>2 DEF Roots, Entered, ToRecord
  <2>4. QED
    BY <2>1, <2>2, <2>3, QuietLosesNothing
<1>2. CASE RecordHighest \/ Close
  <2>1. /\ handle # NoHandle /\ call.step \in {"highest", "none"} /\ WritePrimary /\ mounted
    BY <1>2 DEF RecordHighest, Close, Ready, Sound, Underway
  <2>2. /\ used' = used /\ entry' = entry /\ free' = free /\ mounted' = mounted
    BY <1>2 DEF RecordHighest, Close, status
  <2>3. slot' = slot
    BY <2>1, PrimaryIsOnDisk
  <2>4. call'.step = "none"
    BY <1>2, NoCallFacts DEF RecordHighest, Close, Ready
  <2>5. Roots' = Roots /\ ToRecord' = ToRecord
    BY <2>1, <2>2, <2>4 DEF Roots, Entered, ToRecord
  <2>6. QED
    BY <2>1, <2>2, <2>3, <2>4, <2>5, QuietLosesNothing
<1>3. CASE InsertEntry
  <2> PICK v, f : v = call.version /\ f = call.creates
    OBVIOUS
  <2>1. /\ slot' = slot /\ used' = used /\ free' = free /\ mounted /\ mounted'
        /\ call.step = "insert" /\ entry' = [entry EXCEPT ![v] = f]
        /\ v \in Versions /\ f # NoFid
    BY <1>3 DEF InsertEntry, status, Sound, Underway
  <2>2. call'.step \in {"none", "remove"}
    BY <1>3, NoCallFacts DEF InsertEntry, DeleteMore, Sound, Typed, GoodCall
  <2>3. Roots \subseteq Roots' /\ ToRecord' = ToRecord
    <3>1. entry'[v] = f /\ \A w \in Versions : w # v => entry'[w] = entry[w]
      BY <2>1 DEF Sound, Typed
    <3>2. v \notin Entered
      BY <2>1 DEF Accounted, EntersNew
    <3>3. QED
      BY <2>1, <2>2, <3>1, <3>2 DEF Roots, Entered, ToRecord
  <2>4. QED
    BY <2>1, <2>2, <2>3, QuietLosesNothing
<1>4. CASE RemoveEntry
  <2> PICK v : v = Min(call.excess)
    OBVIOUS
  <2>1. /\ slot' = slot /\ used' = used /\ free' = free /\ mounted /\ mounted'
        /\ call.step = "remove" /\ entry' = [entry EXCEPT ![v] = NoFid]
        /\ call' = [call EXCEPT !.step = "free", !.excess = @ \ {v}, !.next = entry[v]]
    BY <1>4 DEF RemoveEntry, status, Sound
  <2>2. call'.step = "free" /\ call'.next = entry[v] /\ v \in Versions
    BY <2>1, NextToDelete DEF Sound, Typed, GoodCall
  <2>3. \A w \in Versions : w # v => entry'[w] = entry[w]
    BY <2>1 DEF Sound, Typed
  <2>4. Roots \subseteq Roots' /\ ToRecord' = ToRecord
    BY <2>1, <2>2, <2>3 DEF Roots, Entered, ToRecord
  <2>5. QED
    BY <2>1, <2>2, <2>4, QuietLosesNothing
<1>5. CASE RepairDisk
  <2>1. /\ slot' = slot /\ used' = used /\ entry' = entry /\ mounted /\ mounted'
        /\ call' = call /\ call.step = "none"
        /\ free' = IF Discrepancies = {} THEN free ELSE Repaired(free)
    BY <1>5 DEF RepairDisk
  <2>2. Clusters \subseteq free \cup ClaimedOnDisk
    BY <2>1 DEF Accounted, NoneLeftOut, ToRecord
  <2>3. free \subseteq free'
    <3>1. Unclaimed(free)
      BY <2>1 DEF SpaceKept, BitmapsAreSafe
    <3>2. free \cap ClaimedOnDisk = {}
      BY <3>1 DEF Unclaimed, Spot, ClaimedOnDisk, Claimed, Live
    <3>3. QED
      BY <2>1, <3>2 DEF Repaired
  <2>4. Roots' = Roots /\ ToRecord' = ToRecord
    BY <2>1 DEF Roots, Entered, ToRecord
  <2>5. QED
    BY <2>1, <2>3, <2>4, QuietLosesNothing
<1>6. CASE FlushIndexBitmap \/ Mount
  <2>1. /\ slot' = slot /\ entry' = entry /\ call.step \in {"flush", "dismount", "none"}
        /\ call'.step = "none"
    BY <1>6, NoCallFacts DEF FlushIndexBitmap, Mount, disk, Sound
  <2>2. Live' = Live /\ Linked' = Linked /\ ClaimedOnDisk' = ClaimedOnDisk /\ Roots' = Roots
    BY <2>1, SameClaims DEF Live, Linked, Roots, Entered
  <2>3. Promised = {} /\ Promised' = {} /\ ToRecord = {} /\ ToRecord' = {}
    BY <2>1 DEF Promised, ToRecord
  <2>4. AllReached'
    <3>1. SUFFICES ASSUME NEW S \in SUBSET FileNumbers, Roots' \subseteq S, (Closed(S))'
                   PROVE  Live' \subseteq S
      BY DEF AllReached
    <3>2. Closed(S)
      BY <2>1, <2>2, <3>1 DEF Closed
    <3>3. QED
      BY <2>2, <3>1, <3>2 DEF Accounted, AllReached
  <2>5. CASE FlushIndexBitmap
    <3>1. /\ mounted /\ free' = free /\ diskFree' = diskFree /\ used' = used /\ diskUsed' = used
          /\ mounted' = (call.step = "flush")
      BY <2>5 DEF FlushIndexBitmap, Sound
    <3>2. ~mounted' => diskFree = free
      BY <2>1, <2>5, <3>1 DEF SpaceKept, BitmapsAreSafe, FlushIndexBitmap
    <3>3. SlotsKept'
      BY <2>2, <2>3, <3>1 DEF Accounted, SlotsKept
    <3>4. NoneLeftOut'
      BY <2>2, <2>3, <3>1, <3>2 DEF Accounted, NoneLeftOut
    <3>5. QED
      BY <2>1, <2>4, <3>3, <3>4 DEF Accounted, EntersNew
  <2>6. CASE Mount
    <3>1. ~mounted /\ mounted' /\ free' = diskFree /\ used' = diskUsed
      BY <2>6 DEF Mount
    <3>2. SlotsKept' /\ NoneLeftOut'
      BY <2>2, <2>3, <3>1 DEF Accounted, SlotsKept, NoneLeftOut
    <3>3. QED
      BY <2>1, <2>4, <3>2 DEF Accounted, EntersNew
  <2>7. QED
    BY <1>6, <2>5, <2>6
<1>7. QED
  BY <1>1, <1>2, <1>3, <1>4, <1>5, <1>6

\* All but the versions in excess of a number to keep are no more than it.
LEMMA FewAreKept ==
  ASSUME NEW versions \in SUBSET Versions, NEW keep \in Nat \ {0}
  PROVE  Cardinality(versions \ ExcessOf(versions, keep)) <= keep
<1> DEFINE Above(v) == {w \in versions : w > v}
           kept == versions \ ExcessOf(versions, keep)
<1>1. versions \subseteq Nat /\ IsFiniteSet(versions)
  BY VersionsArePositive, FS_Subset
<1>2. \A v \in versions : IsFiniteSet(Above(v)) /\ Cardinality(Above(v)) \in Nat
  BY <1>1, FS_Subset, FS_CardinalityType
<1>3. kept \subseteq versions /\ IsFiniteSet(kept)
  BY <1>1, FS_Subset
<1>4. \A v \in kept : Cardinality(Above(v)) < keep
  BY <1>2 DEF ExcessOf
<1>5. CASE kept = {}
  <2>1. Cardinality(kept) = 0
    BY <1>5, FS_EmptySet
  <2>2. QED
    BY <2>1
<1>6. CASE kept # {}
  <2>1. PICK v \in kept : \A w \in kept : v <= w
    <3>1. kept \subseteq Nat
      BY <1>1, <1>3
    <3> HIDE DEF kept
    <3>2. QED
      BY <1>6, <3>1, LeastNatural
  <2>2. kept \ {v} \subseteq Above(v)
    <3>1. SUFFICES ASSUME NEW w \in kept, w # v PROVE w \in Above(v)
      OBVIOUS
    <3>2. w \in versions /\ w \in Nat /\ v \in Nat /\ v <= w
      BY <1>1, <1>3, <2>1
    <3>3. QED
      BY <3>1, <3>2
  <2>3. IsFiniteSet(Above(v)) /\ Cardinality(Above(v)) < keep /\ Cardinality(Above(v)) \in Nat
    BY <1>2, <1>3, <1>4, <2>1
  <2>4. Cardinality(kept \ {v}) <= Cardinality(Above(v))
    BY <2>2, <2>3, FS_Subset
  <2>5. Cardinality(kept \ {v}) = Cardinality(kept) - 1 /\ Cardinality(kept) \in Nat
    BY <1>3, <2>1, FS_RemoveElement, FS_CardinalityType
  <2>6. QED
    BY <2>3, <2>4, <2>5
<1>7. QED
  BY <1>5, <1>6

\* The limit holds for no more versions.
LEMMA NoMoreVersions ==
  ASSUME WithinLimit, Entered' \ call'.excess \subseteq Entered \ call.excess
  PROVE  WithinLimit'
<1>1. IsFiniteSet(Entered \ call.excess)
  BY VersionsArePositive, FS_Subset DEF Entered
<1>2. IsFiniteSet(Entered' \ call'.excess)
  BY <1>1, FS_Subset
<1>3. Cardinality(Entered' \ call'.excess) <= Cardinality(Entered \ call.excess)
  BY <1>1, FS_Subset
<1>4. Cardinality(Entered' \ call'.excess) \in Nat /\ Cardinality(Entered \ call.excess) \in Nat
  BY <1>1, <1>2, FS_CardinalityType
<1>5. QED
  BY <1>3, <1>4, Numbers DEF WithinLimit

\* A version is entered with what is in excess then to be deleted.
LEMMA InsertKeepsLimit ==
  ASSUME Sound, InsertEntry
  PROVE  WithinLimit'
<1> PICK v, f : v = call.version /\ f = call.creates
  OBVIOUS
<1>1. call.step = "insert" /\ v \in Versions /\ f # NoFid /\ entry' = [entry EXCEPT ![v] = f]
  BY DEF InsertEntry, Sound, Underway
<1>2. Entered' = Entered \cup {v}
  BY <1>1 DEF Entered, Sound, Typed
<1>3. call'.excess = Excess(Entered \cup {v})
  BY NoCallFacts DEF InsertEntry, DeleteMore, Sound, Typed, GoodCall
<1>4. Entered \cup {v} \in SUBSET Versions
  BY <1>1 DEF Entered
<1>5. VersionLimit # 0 =>
         Cardinality((Entered \cup {v}) \ ExcessOf(Entered \cup {v}, VersionLimit)) <= VersionLimit
  BY <1>4, FewAreKept, Numbers
<1>6. QED
  BY <1>2, <1>3, <1>5 DEF Excess, WithinLimit

\* Other calls enter nothing.
LEMMA LimitIsKept ==
  ASSUME Sound, WithinLimit, CleanStep, Clean'
  PROVE  WithinLimit'
<1>1. CASE InsertEntry
  BY <1>1, InsertKeepsLimit
<1>2. CASE RemoveEntry
  <2> PICK v : v = Min(call.excess)
    OBVIOUS
  <2>1. /\ call.step = "remove" /\ entry' = [entry EXCEPT ![v] = NoFid] /\ v \in call.excess
        /\ call' = [call EXCEPT !.step = "free", !.excess = @ \ {v}, !.next = entry[v]]
    BY <1>2, NextToDelete DEF RemoveEntry
  <2>2. Entered' = Entered \ {v} /\ call'.excess = call.excess \ {v}
    BY <2>1 DEF Entered, Sound, Typed, GoodCall
  <2>3. QED
    BY <2>1, <2>2, NoMoreVersions
<1>3. CASE FreeSegment
  <2>1. entry' = entry /\ call'.excess = call.excess
    BY <1>3, NoCallFacts DEF FreeSegment, DeleteMore, Sound, Typed, GoodCall
  <2>2. QED
    BY <2>1, NoMoreVersions DEF Entered
<1>4. ASSUME ~InsertEntry, ~RemoveEntry, ~FreeSegment
      PROVE  WithinLimit'
  <2>1. entry' = entry
    BY <1>4 DEF CleanStep, CreateHeader, OpenForWrite, Delete, Extend, AppendExtent, LinkSegment,
       WriteSegment, RecordHighest, Close, Abandon, FlushBitmap, FlushIndexBitmap, Mount,
       RepairDisk, disk
  <2>2. call.excess = {}
    <3>1. call.step \notin {"remove", "free"}
      BY <1>4 DEF CleanStep, CreateHeader, OpenForWrite, Delete, Extend, AppendExtent, LinkSegment,
         WriteSegment, RecordHighest, Close, Abandon, FlushBitmap, FlushIndexBitmap, Mount,
         RepairDisk, Ready, Sound
    <3>2. QED
      BY <3>1 DEF Sound, Underway
  <2>3. QED
    BY <2>1, <2>2, NoMoreVersions DEF Entered
<1>5. QED
  BY <1>1, <1>2, <1>3, <1>4

\* No volume is to be repaired before a call ended halfway.
LEMMA StaysInService ==
  ASSUME ~suspect, vars' = vars \/ CleanStep
  PROVE  ~suspect'
<1>1. CASE RepairDisk
  BY <1>1 DEF RepairDisk
<1>2. CASE ~RepairDisk
  <2>1. suspect' = suspect
    BY <1>2 DEF CleanStep, CreateHeader, OpenForWrite, InsertEntry, Delete, RemoveEntry,
       FreeSegment, Extend, AppendExtent, LinkSegment, WriteSegment, RecordHighest, Close, Abandon,
       FlushBitmap, FlushIndexBitmap, Mount, Fails, status, vars
  <2>2. QED
    BY <2>1
<1>3. QED
  BY <1>1, <1>2

\* No step by which no call ends halfway undoes what was kept, accounted for and
\* within the limit.
LEMMA CleanInductive ==
  ASSUME Sound, Careful, Named, ~suspect, SpaceKept, Accounted, WithinLimit,
         [Next]_vars, Clean'
  PROVE  ~suspect' /\ SpaceKept' /\ Accounted' /\ WithinLimit'
<1>1. Clean /\ (vars' = vars \/ CleanStep)
  BY CleanSteps
<1>2. Kept'
  BY DEF Clean, Kept, Untorn
<1>3. RepairDue
  BY DEF RepairDue
<1>4. SpaceKept'
  BY <1>2, <1>3, SpaceInductive
<1>5. CASE vars' = vars
  <2>1. /\ slot' = slot /\ entry' = entry /\ free' = free /\ diskFree' = diskFree
        /\ diskUsed' = diskUsed /\ used' = used /\ call' = call /\ mounted' = mounted
        /\ suspect' = suspect
    BY <1>5 DEF vars, disk, memory, status
  <2>2. Live' = Live /\ Linked' = Linked /\ ClaimedOnDisk' = ClaimedOnDisk /\ Roots' = Roots
        /\ Entered' = Entered
    BY <2>1, SameClaims DEF Live, Linked, Roots, Entered
  <2>3. SlotsKept' /\ NoneLeftOut' /\ EntersNew'
    BY <2>1, <2>2 DEF Accounted, SlotsKept, NoneLeftOut, EntersNew, Promised, ToRecord
  <2>4. AllReached'
    <3>1. SUFFICES ASSUME NEW S \in SUBSET FileNumbers, Roots' \subseteq S, (Closed(S))'
                   PROVE  Live' \subseteq S
      BY DEF AllReached
    <3>2. Closed(S)
      BY <2>1, <2>2, <3>1 DEF Closed
    <3>3. QED
      BY <2>2, <3>1, <3>2 DEF Accounted, AllReached
  <2>5. WithinLimit'
    BY <2>1, <2>2 DEF WithinLimit
  <2>6. QED
    BY <1>4, <2>1, <2>3, <2>4, <2>5 DEF Accounted
<1>6. CASE CleanStep
  <2>1. ~suspect'
    BY <1>6, StaysInService
  <2>2. Accounted'
    BY <1>6, CreateHeaderLosesNothing, FreeSegmentLosesNothing, ExtendLosesNothing,
       AppendExtentLosesNothing, LinkSegmentLosesNothing, WriteSegmentLosesNothing,
       OthersLoseNothing DEF CleanStep
  <2>3. WithinLimit'
    BY <1>6, LimitIsKept
  <2>4. QED
    BY <1>4, <2>1, <2>2, <2>3
<1>7. QED
  BY <1>1, <1>5, <1>6

\* On an empty volume nothing is lost.
LEMMA InitIsAccounted ==
  ASSUME Init
  PROVE  ~suspect /\ Accounted /\ WithinLimit
<1>1. Live = {}
  BY DEF Init, Live, Blank
<1>2. Entered = {}
  BY DEF Init, Entered
<1>3. call.step = "none" /\ mounted /\ ~suspect /\ free = Clusters /\ used = {}
  BY NoCallFacts DEF Init
<1>4. SlotsKept /\ NoneLeftOut /\ EntersNew /\ AllReached
  BY <1>1, <1>3 DEF SlotsKept, NoneLeftOut, EntersNew, AllReached, Promised
<1>5. WithinLimit
  <2>1. Cardinality(Entered \ call.excess) = 0
    BY <1>2, FS_EmptySet
  <2>2. QED
    BY <2>1, Numbers DEF WithinLimit
<1>6. QED
  BY <1>3, <1>4, <1>5 DEF Accounted

\* As long as no call ends halfway, every slot, every cluster and every header is
\* accounted for, in the middle of calls too: in use or promised, free or claimed
\* or to be recorded, reached from an entry or from the call.
THEOREM CInvAlways == Spec => []CInv
<1>1. Init => CInv
  BY InitIsSound, InitIsNamed, InitIsKept, InitIsAccounted DEF NInv, CInv
<1>2. CInv /\ [Next]_vars /\ NInv' => CInv'
  <2>1. SUFFICES ASSUME CInv, [Next]_vars, NInv', Clean'
                 PROVE  /\ ~suspect'
                        /\ Careful => SpaceKept' /\ Accounted' /\ WithinLimit'
    BY DEF CInv, Careful
  <2>2. Clean /\ (vars' = vars \/ CleanStep)
    BY <2>1, CleanSteps
  <2>3. ~suspect'
    BY <2>1, <2>2, StaysInService DEF CInv
  <2>4. ASSUME Careful PROVE SpaceKept' /\ Accounted' /\ WithinLimit'
    <3>1. Sound /\ Named
      BY <2>1, <2>2, <2>4 DEF CInv, NInv, Clean, Untorn
    <3>2. QED
      BY <2>1, <2>2, <2>4, <3>1, CleanInductive DEF CInv
  <2>5. QED
    BY <2>3, <2>4
<1>3. QED
  BY <1>1, <1>2, NInvAlways, PTL DEF Spec

\* What is closed under links, and has a header's link, has its whole chain.
LEMMA ChainStays ==
  ASSUME slot \in [FileNumbers -> GoodHeader], NEW h \in GoodHeader, NEW S, Closed(S),
         h.ext # NoFid => h.ext.num \in S
  PROVE  Segments(h) \subseteq S
<1> DEFINE T == {k \in 0 .. Length : Links(h)[k].num \in S \cup {0}}
<1>1. 0 \in T
  BY LinksFollow, LengthIsNumber DEF NoFid
<1>2. ASSUME NEW k \in 1 .. Length, k - 1 \in T
      PROVE  k \in T
  <2> PICK f : f = Links(h)[k - 1]
    OBVIOUS
  <2>1. Links(h)[k] = LinkAfter(f) /\ f.num \in S \cup {0} /\ k \in 0 .. Length
    BY <1>2, LinksFollow, LengthIsNumber
  <2>2. f \in GoodFid
    BY <1>2, LinksAreFids
  <2>3. LinkAfter(f).num \in S \cup {0}
    <3>1. CASE ~Resolves(f)
      BY <2>1, <3>1 DEF LinkAfter
    <3>2. CASE Resolves(f) /\ slot[f.num].ext = NoFid
      BY <3>2 DEF LinkAfter, NoFid
    <3>3. CASE Resolves(f) /\ slot[f.num].ext # NoFid
      <4>1. f.num \in Linked /\ f.num \in S
        BY <2>1, <2>2, <3>3, FidFacts DEF Resolves, Linked
      <4>2. QED
        BY <3>3, <4>1 DEF LinkAfter, Closed
    <3>4. QED
      BY <3>1, <3>2, <3>3
  <2>4. QED
    BY <2>1, <2>3
<1>3. T = 0 .. Length
  <2>1. T \subseteq 0 .. Length
    OBVIOUS
  <2> HIDE DEF T
  <2>2. QED
    BY <1>1, <1>2, <2>1, LengthIsNumber, InductionUpTo
<1>4. QED
  BY <1>3, LinksFollow DEF Segments

\* The slots of the file that version v names.
FilesSlots(v) == {entry[v].num} \cup Segments(slot[entry[v].num])

\* A segment of a chain is linked to by the header the chain begins at or by
\* another segment of it; and what a segment links to is a segment.
LEMMA ChainIsLinked ==
  ASSUME Sound, \A n \in Linked : Resolves(slot[n].ext), NEW root \in Live
  PROVE  /\ \A s \in Segments(slot[root]) :
               \E p \in Linked \cap ({root} \cup Segments(slot[root])) : slot[p].ext.num = s
         /\ Intact(slot[root]) => Closed({root} \cup Segments(slot[root]))
<1> PICK h : h = slot[root]
  OBVIOUS
<1> PICK L : L = Links(h)
  OBVIOUS
<1>1. /\ root \in FileNumbers /\ slot[root].live /\ h \in GoodHeader
      /\ slot \in [FileNumbers -> GoodHeader]
  BY DEF Live, Sound, Typed
<1>2. /\ L[0] = h.ext
      /\ \A k \in 1 .. Length : L[k] = LinkAfter(L[k - 1])
      /\ \A k \in 0 .. Length : L[k] \in GoodFid
      /\ Segments(h) = {L[k].num : k \in 0 .. Length} \ {0}
  BY <1>1, LinksFollow, LinksAreFids DEF Segments
<1>3. h.ext # NoFid => root \in Linked /\ Resolves(h.ext)
  BY <1>1 DEF Linked
<1>4. \A k \in 0 .. Length : L[k] # NoFid => Resolves(L[k])
  BY <1>1, <1>3, ChainResolves
<1>5. ASSUME NEW k \in 0 .. Length, L[k].num # 0
      PROVE  /\ L[k].num \in Segments(h) /\ Resolves(L[k])
             /\ L[k].num \in FileNumbers /\ slot[L[k].num].live
  <2>1. L[k] # NoFid /\ L[k] \in GoodFid
    BY <1>2, <1>5 DEF NoFid
  <2>2. QED
    BY <1>2, <1>4, <1>5, <2>1, FidFacts DEF Resolves
<1>6. ASSUME NEW s \in Segments(h)
      PROVE  \E p \in Linked \cap ({root} \cup Segments(h)) : slot[p].ext.num = s
  <2>1. PICK k \in 0 .. Length : s = L[k].num /\ s # 0
    BY <1>2
  <2>2. CASE k = 0
    <3>1. h.ext # NoFid
      BY <1>2, <2>1, <2>2 DEF NoFid
    <3>2. root \in Linked /\ slot[root].ext.num = s
      BY <1>2, <1>3, <2>1, <2>2, <3>1
    <3>3. QED
      BY <3>2
  <2>3. CASE k # 0
    <3>1. k \in 1 .. Length /\ k - 1 \in 0 .. Length
      BY <2>3, LengthIsNumber
    <3>2. L[k] = LinkAfter(L[k - 1])
      BY <1>2, <3>1
    <3>3. L[k - 1].num # 0
      <4>1. SUFFICES ASSUME L[k - 1].num = 0 PROVE FALSE
        OBVIOUS
      <4>2. ~Resolves(L[k - 1])
        BY <4>1 DEF Resolves
      <4>3. QED
        BY <2>1, <3>2, <4>1, <4>2 DEF LinkAfter
    <3> PICK p : p = L[k - 1].num
      OBVIOUS
    <3>4. p \in Segments(h) /\ p \in FileNumbers /\ slot[p].live /\ L[k] = slot[p].ext
      BY <1>5, <3>1, <3>2, <3>3 DEF LinkAfter
    <3>5. slot[p].ext # NoFid
      BY <2>1, <3>4 DEF NoFid
    <3>6. p \in Linked /\ slot[p].ext.num = s
      BY <2>1, <3>4, <3>5 DEF Linked
    <3>7. QED
      BY <3>4, <3>6
  <2>4. QED
    BY <2>2, <2>3
<1>7. ASSUME Intact(h) PROVE Closed({root} \cup Segments(h))
  <2>1. SUFFICES ASSUME NEW m \in Linked, m \in {root} \cup Segments(h)
                 PROVE  slot[m].ext.num \in Segments(h)
    BY DEF Closed
  <2>2. slot[m].ext # NoFid /\ slot[m].ext \in GoodFid /\ slot[m].ext.num # 0
    BY <1>1, HeaderFacts, FidFacts, Numbers DEF Linked
  <2>3. CASE m = root
    BY <1>2, <2>2, <2>3, LengthIsNumber
  <2>4. CASE m \in Segments(h)
    <3>1. PICK k \in 0 .. Length : m = L[k].num /\ m # 0
      BY <1>2, <2>4
    <3>2. L[Length] = NoFid
      BY <1>7 DEF Intact, Length
    <3>3. k # Length
      BY <3>1, <3>2 DEF NoFid
    <3>4. k + 1 \in 1 .. Length /\ k + 1 \in 0 .. Length /\ (k + 1) - 1 = k
      BY <3>3, LengthIsNumber
    <3>5. L[k + 1] = LinkAfter(L[k])
      BY <1>2, <3>4
    <3>6. L[k + 1] = slot[m].ext
      BY <1>5, <3>1, <3>5 DEF LinkAfter
    <3>7. QED
      BY <1>2, <2>2, <3>4, <3>6
  <2>5. QED
    BY <2>1, <2>3, <2>4
<1>8. QED
  BY <1>6, <1>7

\* Where every name resolves and no slot is named twice, two files of the
\* directory have no header in common.
LEMMA FilesAreApart ==
  ASSUME Sound, NamedOnce, \A n \in Linked : Resolves(slot[n].ext),
         \A v \in Entered : Resolves(entry[v]),
         NEW v \in Entered, NEW w \in Entered, v # w
  PROVE  FilesSlots(v) \cap FilesSlots(w) = {}
<1> PICK r, s : r = entry[v].num /\ s = entry[w].num
  OBVIOUS
<1>1. r \in Live /\ s \in Live /\ r # s
  BY NamesAreSlots DEF Resolves, Live, NamedOnce
<1> DEFINE Other == FileNumbers \ FilesSlots(w)
<1>2. \A n \in Linked : slot[n].ext.num \in FileNumbers
  BY NamesAreSlots
<1>3. \A x \in Segments(slot[s]) :
         \E p \in Linked \cap ({s} \cup Segments(slot[s])) : slot[p].ext.num = x
  BY <1>1, ChainIsLinked
<1>4. Closed(Other)
  <2>1. SUFFICES ASSUME NEW m \in Linked, m \notin FilesSlots(w), slot[m].ext.num \in FilesSlots(w)
                 PROVE  FALSE
    BY <1>2 DEF Closed
  <2>2. slot[m].ext.num # s
    BY DEF NamedOnce
  <2>3. slot[m].ext.num \in Segments(slot[s])
    BY <2>1, <2>2 DEF FilesSlots
  <2>4. PICK p \in Linked \cap ({s} \cup Segments(slot[s])) : slot[p].ext.num = slot[m].ext.num
    BY <1>3, <2>3
  <2>5. p = m
    BY <2>4 DEF NamedOnce
  <2>6. QED
    BY <2>1, <2>4, <2>5 DEF FilesSlots
<1>5. r \notin FilesSlots(w)
  <2>1. SUFFICES ASSUME r \in Segments(slot[s]) PROVE FALSE
    BY <1>1 DEF FilesSlots
  <2>2. PICK p \in Linked : slot[p].ext.num = r
    BY <1>3, <2>1
  <2>3. QED
    BY <2>2 DEF NamedOnce
<1>6. r \in Other
  BY <1>1, <1>5 DEF Live
<1>7. slot[r].ext # NoFid => slot[r].ext.num \in Other
  <2>1. slot[r].ext # NoFid => r \in Linked
    BY <1>1 DEF Live, Linked
  <2>2. QED
    BY <1>4, <1>6, <2>1 DEF Closed
<1>8. slot \in [FileNumbers -> GoodHeader] /\ slot[r] \in GoodHeader
  BY <1>1 DEF Live, Sound, Typed
<1>9. Segments(slot[r]) \subseteq Other
  <2> HIDE DEF Other
  <2>1. QED
    BY <1>4, <1>7, <1>8, ChainStays
<1>10. QED
  BY <1>6, <1>9 DEF FilesSlots

\* With everything accounted for and no call in progress, nothing is lost.
LEMMA AccountedIsFound ==
  ASSUME Sound, Named, SpaceKept, ~suspect, Accounted, WithinLimit, mounted, call.step = "none"
  PROVE  /\ used = Live
         /\ Live = UNION {FilesSlots(v) : v \in Entered}
         /\ \A v, w \in Entered : v # w => FilesSlots(v) \cap FilesSlots(w) = {}
         /\ free = Clusters \ ClaimedOnDisk
         /\ VersionLimit # 0 => Cardinality(Entered) <= VersionLimit
<1>1. /\ \A n \in Linked : Resolves(slot[n].ext)
      /\ \A v \in Entered : Resolves(entry[v])
      /\ NamedOnce
  BY DEF Named, NamesResolve
<1>2. used = Live
  BY DEF Accounted, SlotsKept, Promised
<1>3. \A v \in Entered : /\ entry[v].num \in Live /\ slot[entry[v].num] \in GoodHeader
                         /\ FilesSlots(v) \subseteq FileNumbers
                         /\ Closed(FilesSlots(v))
  <2>1. TAKE v \in Entered
  <2>2. entry[v].num \in Live
    BY <1>1, NamesAreSlots DEF Resolves, Live
  <2>3. /\ slot \in [FileNumbers -> GoodHeader] /\ entry \in [Versions -> GoodFid]
        /\ slot[entry[v].num] \in GoodHeader /\ entry[v].num \in FileNumbers
    BY <2>2 DEF Live, Sound, Typed
  <2>4. Intact(slot[entry[v].num])
    BY <1>1, <2>3, FilesAreIntact
  <2>5. Segments(slot[entry[v].num]) \subseteq FileNumbers
    BY <2>3, SegmentsAreSlots
  <2>6. Closed(FilesSlots(v))
    BY <1>1, <2>2, <2>4, ChainIsLinked DEF FilesSlots
  <2>7. QED
    BY <2>2, <2>3, <2>5, <2>6 DEF FilesSlots
<1> DEFINE All == UNION {FilesSlots(v) : v \in Entered}
<1>4. Live \subseteq All
  <2>1. All \in SUBSET FileNumbers
    BY <1>3
  <2>2. Closed(All)
    BY <1>3 DEF Closed
  <2>3. Roots \subseteq All
    BY DEF Roots, FilesSlots
  <2>4. QED
    BY <2>1, <2>2, <2>3 DEF Accounted, AllReached
<1>5. All \subseteq Live
  <2>1. Closed(Live)
    BY <1>1, NamesAreSlots DEF Closed, Live, Resolves
  <2>2. \A v \in Entered : slot[entry[v].num].ext # NoFid => slot[entry[v].num].ext.num \in Live
    <3>1. \A v \in Entered : slot[entry[v].num].ext # NoFid => entry[v].num \in Linked
      BY <1>3 DEF Live, Linked
    <3>2. QED
      BY <1>3, <2>1, <3>1 DEF Closed
  <2>3. slot \in [FileNumbers -> GoodHeader]
    BY DEF Sound, Typed
  <2>4. \A v \in Entered : Segments(slot[entry[v].num]) \subseteq Live
    BY <1>3, <2>1, <2>2, <2>3, ChainStays
  <2>5. QED
    BY <1>3, <2>4 DEF FilesSlots
<1>6. \A v, w \in Entered : v # w => FilesSlots(v) \cap FilesSlots(w) = {}
  BY <1>1, FilesAreApart
<1>7. free = Clusters \ ClaimedOnDisk
  <2>1. Clusters \subseteq free \cup ClaimedOnDisk /\ free \subseteq Clusters
    BY DEF Accounted, NoneLeftOut, ToRecord, Sound, Typed
  <2>2. Unclaimed(free)
    BY DEF SpaceKept, BitmapsAreSafe
  <2>3. free \cap ClaimedOnDisk = {}
    BY <2>2 DEF Unclaimed, Spot, ClaimedOnDisk, Claimed, Live
  <2>4. QED
    BY <2>1, <2>3
<1>8. VersionLimit # 0 => Cardinality(Entered) <= VersionLimit
  <2>1. call.excess = {}
    BY DEF Sound, Underway
  <2>2. Entered \ call.excess = Entered
    BY <2>1
  <2>3. QED
    BY <2>2 DEF WithinLimit
<1>9. QED
  BY <1>2, <1>4, <1>5, <1>6, <1>7, <1>8

\* Between calls none of which ended halfway, nothing is lost on any volume, of any
\* size and with any version limit: no slot, no cluster and no header.
THEOREM NothingIsLost ==
  ASSUME Careful
  PROVE  Spec => []NothingLost
<1>1. CInv => NothingLost
  <2>1. SUFFICES ASSUME CInv, mounted, call.step = "none", failed = {}, crashed = {}
                 PROVE  /\ used = Live
                        /\ Live = UNION {FilesSlots(v) : v \in Entered}
                        /\ \A v, w \in Entered : v # w => FilesSlots(v) \cap FilesSlots(w) = {}
                        /\ free = Clusters \ ClaimedOnDisk
                        /\ VersionLimit # 0 => Cardinality(Entered) <= VersionLimit
    BY DEF NothingLost, FilesSlots
  <2>2. Clean
    BY <2>1 DEF Clean
  <2>3. Sound /\ Named
    BY <2>1, <2>2 DEF CInv, NInv, Clean, Untorn
  <2>4. ~suspect /\ SpaceKept /\ Accounted /\ WithinLimit
    BY <2>1, <2>2 DEF CInv
  <2>5. QED
    BY <2>1, <2>3, <2>4, AccountedIsFound
<1>2. QED
  BY <1>1, CInvAlways, PTL

=============================================================================

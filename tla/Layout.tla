------------------------------- MODULE Layout --------------------------------
(***************************************************************************)
(* INITIALIZE: where a new volume's fixed structures go (volume.Initialize,*)
(* resolveInitParams, allocateStructures), what is written there, with the *)
(* index file's map as retrieval pointers, and how a mount finds it again  *)
(* (findHomeBlock, bootstrapIndexFile, fileHeaderVBN).                     *)
(*                                                                         *)
(* Each structure is placed in a step of its own, and each kind of         *)
(* structure written in one.  Widths and sizes are constants, so that the  *)
(* cases they separate happen on a disk of a few dozen blocks.             *)
(***************************************************************************)
EXTENDS Integers, Sequences, FiniteSets, Functions

CONSTANTS
  Options,        \* what INITIALIZE is asked for
  Bits,           \* bits of a bitmap block (4096)
  Byte,           \* counts a retrieval pointer of two words can hold (256)
  Sixes,          \* values of the high LBN bits of one (64)
  Reserved,       \* reserved files (10)
  MostFiles,      \* largest number of files a volume can have (16711679)
  MinHeaders,     \* least number of headers (16)
  DirEntries,     \* directory entries of a block (16)
  SecurityBlocks, \* blocks of SECURITY.SYS (6)
  MinClusters,    \* least number of clusters (50)
  SmallDisk,      \* largest disk with the index file at its start (4096)
  SearchLength,   \* a delta is at most this part of the volume (10)
  ScanLimit       \* blocks searched for a home block (100)

\* Values of a word, of which a retrieval pointer's format takes two bits.
Word == 4 * Sixes * Byte

ASSUME WidthsAssumption == {Byte, Sixes} \subseteq Nat \ {0, 1}
ASSUME SizesAssumption ==
  {Bits, Reserved, MinHeaders, DirEntries, SecurityBlocks, MinClusters, SearchLength, ScanLimit} \subseteq Nat \ {0}
\* Five of the reserved files have a map, the last of them SECURITY.SYS.
ASSUME ReservedAssumption == 4 < Reserved /\ Reserved <= Bits /\ Reserved <= MinHeaders
\* The blocks of any index file bitmap are counted in a word.
ASSUME MostFilesAssumption == MostFiles \in Nat /\ MostFiles <= (Word - 1) * Bits
\* A volume has blocks and a cluster size, which INITIALIZE's defaults make sure
\* of, and numbers are not negative.
ASSUME OptionsAssumption ==
  \A o \in Options :
    /\ {o.blocks, o.cluster} \subseteq Nat \ {0}
    /\ {o.maxFiles, o.headers, o.directories, o.at, o.delta} \subseteq Nat

VARIABLES
  asked,    \* the options
  layout,   \* where structures are placed
  disk,     \* LBN -> what was written there
  steps,    \* how many steps are done
  status    \* "running", "done", "refused" or "failed"

vars == <<asked, layout, disk, steps, status>>

Larger(m, n) == IF m < n THEN n ELSE m
Smaller(m, n) == IF m < n THEN m ELSE n
Least(S) == CHOOSE m \in S : \A n \in S : m <= n
RoundedUp(n, unit) == ((n + unit - 1) \div unit) * unit

(***************************************************************************)
(* resolveInitParams                                                       *)
(***************************************************************************)

\* homeBlockDelta, of the delta the placement gives.
Delta(o) == IF o.delta = 0 \/ o.delta > o.blocks \div SearchLength THEN 1 ELSE o.delta

VolumeSize(o) == RoundedUp(o.blocks, o.cluster)

MaxFiles(o) ==
  Smaller(Smaller(IF o.maxFiles = 0 THEN o.blocks \div ((o.cluster + 1) * 2) ELSE o.maxFiles,
                  VolumeSize(o) \div (o.cluster + 1)),
          MostFiles)

IsAcceptable(o) ==
  /\ VolumeSize(o) \div o.cluster >= MinClusters
  /\ MaxFiles(o) >= Reserved
  /\ o.index = "at" => o.at < o.blocks

Headers(o) == Smaller(Larger(o.headers, MinHeaders), MaxFiles(o))

IndexStart(o) ==
  CASE o.index = "beginning" -> 0
    [] o.index = "end" -> o.blocks - 1
    [] o.index = "at" -> o.at
    [] OTHER -> IF o.blocks > SmallDisk THEN o.blocks \div 2 ELSE 0
IsAtEnd(o) == o.index = "end"

IndexBitmapBlocks(o) == RoundedUp(MaxFiles(o), Bits) \div Bits
StorageMapBlocks(o) == RoundedUp(VolumeSize(o) \div o.cluster, Bits) \div Bits

(***************************************************************************)
(* allocateStructures                                                      *)
(***************************************************************************)

\* The allocation table, in its order.
Entries == <<"boot", "home1", "home2", "altIndex", "index", "bitmap", "mfd", "security", "badBlock", "volEnd">>
Structures == {"boot", "home1", "home2", "altIndex", "index", "bitmap", "mfd", "security"}
Placed == {e \in Range(Entries) : layout.count[e] > 0}

Overlap(l1, n1, l2, n2) == l1 < l2 + n2 /\ l2 < l1 + n1

\* conflict: the first entry of the table that n blocks at l run into.
Conflicting(l, n) == {i \in DOMAIN Entries : /\ Entries[i] \in Placed
                                             /\ Overlap(l, n, layout.lbn[Entries[i]], layout.count[Entries[i]])}
IsFree(l, n) == Conflicting(l, n) = {}
Conflict(l, n) == Entries[Least(Conflicting(l, n))]

NoRoom == -1

\* allocate: the first free place for n blocks from `start`, past one
\* conflicting entry after another, forwards or backwards.
PlaceFrom(start, n, reverse) ==
  LET from[l \in 0 .. VolumeSize(asked) + Bits * asked.cluster] ==
        IF l >= VolumeSize(asked) THEN NoRoom
        ELSE IF IsFree(l, n) THEN l
        ELSE LET c == Conflict(l, n) IN
             IF ~reverse THEN from[layout.lbn[c] + layout.count[c]]
             ELSE IF layout.lbn[c] < n THEN NoRoom
             ELSE from[layout.lbn[c] - n]
  IN  IF start < 0 \/ start >= VolumeSize(asked) THEN NoRoom
      ELSE from[(start \div asked.cluster) * asked.cluster]

\* allocateHome: the first free cluster on the search sequence 1, 1+delta, ...
OnSequence == {1 + k * Delta(asked) : k \in 0 .. VolumeSize(asked)} \intersect 0 .. VolumeSize(asked) - 1
ClusterOf(l) == (l \div asked.cluster) * asked.cluster
RealHome ==
  LET free == {l \in OnSequence : IsFree(ClusterOf(l), asked.cluster)} IN
  IF free = {} THEN NoRoom ELSE Least(free)

\* The last cluster, if it runs past the device's end, is bad; the bitmap's
\* clusters past the end of the volume are in use.
LastWhole(o) == (o.blocks \div o.cluster) * o.cluster
AtFirst(o) ==
  [lbn |-> [e \in Range(Entries) |-> IF e \in {"badBlock", "volEnd"} THEN LastWhole(o) ELSE 0],
   count |-> [e \in Range(Entries) |->
                IF e = "volEnd" THEN (Bits - ((o.blocks \div o.cluster) % Bits)) * o.cluster
                ELSE IF e = "badBlock" /\ o.blocks % o.cluster # 0 THEN o.cluster ELSE 0],
   realHome |-> 0]

\* The order structures are placed in, and how many blocks they need.
PlaceOrder(o) ==
  <<"boot", "home1", "home2">>
    \o (IF IsAtEnd(o) THEN <<"index", "bitmap", "mfd">> ELSE <<"mfd", "bitmap", "index">>)
    \o <<"altIndex", "security">>
Needed(e, o) ==
  CASE e = "mfd" -> o.directories \div DirEntries + 1
    [] e = "bitmap" -> StorageMapBlocks(o) + 1
    [] e = "index" -> Headers(o) + IndexBitmapBlocks(o)
    [] e = "security" -> SecurityBlocks
    [] OTHER -> 1

\* Where its search starts.
StartOf(e, o) ==
  CASE e \in {"boot", "home1"} -> 0
    [] e = "altIndex" -> layout.lbn["index"] + (IF IsAtEnd(o) THEN 0 - Delta(o) ELSE Delta(o))
    [] OTHER -> IndexStart(o)

\* With clusters of several blocks home block 1 is in the boot block's, and its
\* own cluster any after it.
IsHome(e) == e = "home2" \/ (e = "home1" /\ asked.cluster = 1)
PlaceOf(e, n) ==
  IF IsHome(e) THEN (IF RealHome = NoRoom THEN NoRoom ELSE ClusterOf(RealHome))
  ELSE PlaceFrom(StartOf(e, asked), n, IsAtEnd(asked) /\ e \notin {"boot", "home1"})

(***************************************************************************)
(* Retrieval pointers                                                      *)
(***************************************************************************)

\* Mutant of EncodedExtent: the LBN's high bits are looked at only where they fill a word.
EncodedExtentNarrow(x) ==
  LET n == x.count - 1 IN
  IF x.count <= Byte THEN <<(Word \div 4) + ((x.lbn \div Word) % Sixes) * Byte + n, x.lbn % Word>>
  ELSE IF x.count <= Word \div 4 THEN <<2 * (Word \div 4) + n, x.lbn % Word, 0>>
  ELSE <<3 * (Word \div 4) + (n \div Word), n % Word, x.lbn % Word, x.lbn \div Word>>
\* encodeExtent: the shortest of the three formats that can hold it.
EncodedExtent(x) ==
  LET n == x.count - 1
      low == x.lbn % Word
      high == x.lbn \div Word
  IN  IF x.count <= Byte /\ x.lbn < Sixes * Word
      THEN <<(Word \div 4) + (high * Byte) + n, low>>
      ELSE IF x.count <= Word \div 4 THEN <<2 * (Word \div 4) + n, low, high>>
      ELSE <<3 * (Word \div 4) + (n \div Word), n % Word, low, high>>

\* The longest extent that has a pointer (EncodeRetrievalPointers refuses others).
MostBlocks == Word * (Word \div 4)

\* FileHeader.RetrievalPointers: one extent from the front of a map, none if it
\* is a filler.
FirstExtent(words) ==
  LET field == words[1] % (Word \div 4) IN
  CASE words[1] \div (Word \div 4) = 0 -> [count |-> 0, lbn |-> 0, size |-> 1]
    [] words[1] \div (Word \div 4) = 1 ->
         [count |-> (field % Byte) + 1, lbn |-> (field \div Byte) * Word + words[2], size |-> 2]
    [] words[1] \div (Word \div 4) = 2 ->
         [count |-> field + 1, lbn |-> words[3] * Word + words[2], size |-> 3]
    [] OTHER ->
         [count |-> field * Word + words[2] + 1, lbn |-> words[4] * Word + words[3], size |-> 4]

\* The blocks a map stands for, in the order of their VBNs.  The last pointer may
\* run past the map's end, by three words.
BlocksOfMap(words) ==
  LET from[i \in 1 .. Len(words) + 4] ==
        IF i > Len(words) THEN <<>>
        ELSE LET x == FirstExtent(SubSeq(words, i, Len(words))) IN
             [k \in 1 .. x.count |-> x.lbn + k - 1] \o from[i + x.size]
  IN from[1]

\* indexFileExtents, adjacent ones merged, as INDEXF.SYS's map.
MapParts == <<"boot", "home1", "home2", "altIndex", "index">>
Extent(e) == [lbn |-> layout.lbn[e], count |-> layout.count[e]]
IndexFileExtents ==
  LET upTo[k \in DOMAIN MapParts] ==
        IF k = 1 THEN <<Extent("boot")>>
        ELSE LET before == upTo[k - 1]
                 last == before[Len(before)]
             IN  IF last.lbn + last.count = layout.lbn[MapParts[k]]
                 THEN [before EXCEPT ![Len(before)].count = @ + layout.count[MapParts[k]]]
                 ELSE Append(before, Extent(MapParts[k]))
  IN upTo[Len(MapParts)]
Encoded(extents) ==
  LET upTo[k \in 0 .. Len(extents)] ==
        IF k = 0 THEN <<>> ELSE upTo[k - 1] \o EncodedExtent(extents[k])
  IN upTo[Len(extents)]

(***************************************************************************)
(* What is written                                                         *)
(***************************************************************************)

Old == [kind |-> "old"]
Zero == [kind |-> "zero"]
Of(kind) == [kind |-> kind]

\* homeBlock, with the LBN and VBN of a copy; VBNs are words.
HomeBlock(l, vbn) ==
  LET c == asked.cluster IN
  [kind |-> "home", homeLBN |-> l, homeVBN |-> vbn % Word,
   alternateHomeLBN |-> layout.realHome,
   alternateHomeVBN |-> (layout.realHome - layout.lbn["home2"] + c * 2 + 1) % Word,
   alternateIndexLBN |-> layout.lbn["altIndex"],
   alternateIndexVBN |-> (c * 3 + 1) % Word,
   indexBitmapLBN |-> layout.lbn["index"],
   indexBitmapVBN |-> (c * 4 + 1) % Word,
   indexBitmapSize |-> IndexBitmapBlocks(asked) % Word]

\* writeHomeBlocks: the rest of the boot cluster, then both home clusters.
HomeBlocks ==
  LET c == asked.cluster
      Copies(e, from, firstVbn) == {<<layout.lbn[e] + i, firstVbn + i>> : i \in from .. c - 1}
  IN Copies("boot", 1, 1) \union Copies("home1", 0, c + 1) \union Copies("home2", 0, 2 * c + 1)

\* The reserved files' maps, by file number; the others of them have no blocks.
MapOf(n) ==
  CASE n = 1 -> Encoded(IndexFileExtents)
    [] n = 2 -> Encoded(<<Extent("bitmap")>>)
    [] n = 3 -> IF layout.count["badBlock"] > 0 THEN Encoded(<<Extent("badBlock")>>) ELSE <<>>
    [] n = 4 -> Encoded(<<Extent("mfd")>>)
    [] n = Reserved -> Encoded(<<Extent("security")>>)
    [] OTHER -> <<>>
Header(n) == [kind |-> "header", number |-> n, map |-> MapOf(n)]
HeaderLBN(n) == layout.lbn["index"] + IndexBitmapBlocks(asked) + n - 1

BlocksOf(e) == layout.lbn[e] .. layout.lbn[e] + layout.count[e] - 1

\* writeStorageBitmap: the clusters in use, of those its blocks have bits for.
InUse ==
  {cl \in 0 .. StorageMapBlocks(asked) * Bits - 1 :
     \E e \in Placed : cl \in layout.lbn[e] \div asked.cluster ..
                                (layout.lbn[e] + layout.count[e]) \div asked.cluster - 1}
MapBlock(i) == [kind |-> "map", inUse |-> {cl \in InUse : cl \div Bits = i}]

Written(contents) ==
  /\ disk' = [l \in DOMAIN disk |-> IF l \in DOMAIN contents THEN contents[l] ELSE disk[l]]
  /\ UNCHANGED <<asked, layout, status>>

Doing(k) == status = "running" /\ steps = Len(PlaceOrder(asked)) + k /\ steps' = steps + 1

(***************************************************************************)
(* Actions                                                                 *)
(***************************************************************************)

\* Mutant of BlocksNeeded: the table's count is not rounded up to whole clusters.
BlocksNeededExactly(e) == Needed(e, asked)
BlocksNeeded(e) == RoundedUp(Needed(e, asked), asked.cluster)

Place ==
  /\ status = "running" /\ steps < Len(PlaceOrder(asked))
  /\ LET e == PlaceOrder(asked)[steps + 1]
         n == BlocksNeeded(e)
     IN  /\ PlaceOf(e, n) # NoRoom
         /\ layout' = [layout EXCEPT !.lbn[e] = PlaceOf(e, n), !.count[e] = n,
                                     !.realHome = IF IsHome(e) THEN RealHome ELSE @]
  /\ steps' = steps + 1
  /\ UNCHANGED <<asked, disk, status>>

PlaceRefused ==
  /\ status = "running" /\ steps < Len(PlaceOrder(asked))
  /\ LET e == PlaceOrder(asked)[steps + 1] IN PlaceOf(e, BlocksNeeded(e)) = NoRoom
  /\ status' = "refused"
  /\ UNCHANGED <<asked, layout, disk, steps>>

ZeroFixedStructures ==
  /\ Doing(0)
  /\ Written([l \in UNION {BlocksOf(e) : e \in Structures} |-> Zero])

WriteHomeBlocks ==
  /\ Doing(1)
  /\ Written([l \in {h[1] : h \in HomeBlocks} |-> HomeBlock(l, (CHOOSE h \in HomeBlocks : h[1] = l)[2])])

WriteIndexBitmap ==
  /\ Doing(2)
  /\ Written([l \in {layout.lbn["index"]} |-> [kind |-> "slots", inUse |-> 1 .. Reserved]])

\* The reserved files' headers, and copies of INDEXF.SYS's, if all their extents
\* have pointers.
WriteHeaders ==
  /\ Doing(3)
  /\ \A x \in Range(IndexFileExtents) \union {Extent(e) : e \in {"bitmap", "badBlock", "mfd", "security"}} :
        x.count <= MostBlocks
  /\ Written([l \in HeaderLBN(1) .. HeaderLBN(Reserved) \union BlocksOf("altIndex") |->
                IF l \in BlocksOf("altIndex") THEN Header(1) ELSE Header(l - HeaderLBN(1) + 1)])

WriteStorageBitmap ==
  /\ Doing(4)
  /\ Written([l \in layout.lbn["bitmap"] .. layout.lbn["bitmap"] + StorageMapBlocks(asked) |->
                IF l = layout.lbn["bitmap"] THEN Of("scb") ELSE MapBlock(l - layout.lbn["bitmap"] - 1)])

WriteMFD == Doing(5) /\ Written([l \in {layout.lbn["mfd"]} |-> Of("mfd")])

WriteSecurity ==
  /\ Doing(6)
  /\ disk' = [disk EXCEPT ![layout.lbn["security"]] = Of("security")]
  /\ status' = "done"
  /\ UNCHANGED <<asked, layout>>

\* A write fails: what was written stays.
WriteFails ==
  /\ status = "running" /\ steps >= Len(PlaceOrder(asked))
  /\ status' = "failed"
  /\ UNCHANGED <<asked, layout, disk, steps>>

Init ==
  /\ asked \in Options
  /\ layout = AtFirst(asked)
  /\ disk = [l \in 0 .. asked.blocks - 1 |-> Old]
  /\ steps = 0
  /\ status = IF IsAcceptable(asked) THEN "running" ELSE "refused"

Next ==
  \/ Place
  \/ PlaceRefused
  \/ ZeroFixedStructures
  \/ WriteHomeBlocks
  \/ WriteIndexBitmap
  \/ WriteHeaders
  \/ WriteStorageBitmap
  \/ WriteMFD
  \/ WriteSecurity
  \/ WriteFails

Spec == Init /\ [][Next]_vars

(***************************************************************************)
(* Mounting                                                                *)
(***************************************************************************)

\* findHomeBlock: the first home block that says it is where it is.
FoundHomes ==
  {l \in 1 .. Smaller(ScanLimit, asked.blocks - 1) : disk[l].kind = "home" /\ disk[l].homeLBN = l}
Home == disk[Least(FoundHomes)]

\* bootstrapIndexFile: INDEXF.SYS's header is after its bitmap.
IndexHeader == disk[Home.indexBitmapLBN + Home.indexBitmapSize]
IndexBlocks == BlocksOfMap(IndexHeader.map)

\* What virtual block v of INDEXF.SYS holds; fileHeaderVBN of a file number.
AtVBN(v) == IF v \in DOMAIN IndexBlocks THEN disk[IndexBlocks[v]] ELSE Old
FileHeaderVBN(n) == n - 1 + Home.indexBitmapVBN + Home.indexBitmapSize

(***************************************************************************)
(* What holds                                                              *)
(***************************************************************************)

\* No two structures share a block, none runs past the last whole cluster, and
\* once it is written the storage bitmap has exactly their clusters in use, and
\* those no cluster of the device is behind (allocate, conflict,
\* writeStorageBitmap).
StructuresApart ==
  /\ \A e, f \in Placed \intersect Structures : e # f => BlocksOf(e) \intersect BlocksOf(f) = {}
  /\ \A e \in Placed \intersect Structures : BlocksOf(e) \subseteq 0 .. LastWhole(asked) - 1
  /\ status = "done" =>
       LET Bitmap == UNION {disk[l].inUse : l \in {m \in DOMAIN disk : disk[m].kind = "map"}}
           Taken == {l \in 0 .. LastWhole(asked) - 1 : \E e \in Structures : l \in BlocksOf(e)}
       IN  \A cl \in 0 .. StorageMapBlocks(asked) * Bits - 1 :
              cl \in Bitmap <=> \/ (cl + 1) * asked.cluster > asked.blocks
                                \/ cl * asked.cluster \in Taken

\* A mount of the new volume finds its index file and each reserved file's
\* header through the index file's map, at the VBN the home block gives, and the
\* backups too; each mapped file's map leads to its blocks, and a slot or
\* directory block not in use reads as zeros, whatever the disk held before.
FoundByMount ==
  /\ FoundHomes # {}
  /\ IndexHeader = Header(1)
  /\ \A n \in 1 .. Reserved : AtVBN(FileHeaderVBN(n)) = Header(n)
  /\ AtVBN(Home.indexBitmapVBN).kind = "slots"
  /\ disk[Home.alternateHomeLBN].kind = "home" /\ disk[Home.alternateHomeLBN].homeLBN = Home.alternateHomeLBN
  /\ AtVBN(Home.alternateHomeVBN) = disk[Home.alternateHomeLBN]
  /\ disk[Home.alternateIndexLBN] = Header(1)
  /\ AtVBN(Home.alternateIndexVBN) = Header(1)
  /\ disk[BlocksOfMap(Header(4).map)[1]] = Of("mfd")
  /\ disk[BlocksOfMap(Header(2).map)[1]] = Of("scb")
  /\ disk[BlocksOfMap(Header(Reserved).map)[1]] = Of("security")
  /\ \A e \in Structures, l \in DOMAIN disk : l \in BlocksOf(e) => disk[l] # Old

\* The same, of volumes whose VBNs fit the home block's words.
MountFindsVolume == status = "done" /\ asked.cluster * 4 + 1 < Word => FoundByMount

=============================================================================

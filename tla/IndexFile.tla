------------------------------ MODULE IndexFile ------------------------------
(***************************************************************************)
(* INDEXF.SYS, which holds every file header of the volume and grows when  *)
(* they need more room (volume/writeheader.go, volume/indexbitmap.go).     *)
(* Its own header is one of the blocks it maps, and when that header's map *)
(* is full, so are the extension headers that go on: a mount finds the     *)
(* index file by reading its primary header, whose place is fixed, then    *)
(* each next header through the extents read so far.                       *)
(*                                                                         *)
(* A call is a sequence of disk writes; one action is one write with the   *)
(* changes of memory around it, so that every state is one a crash could   *)
(* leave on disk.  Zeroing the new blocks, a write for each, is one        *)
(* action.  A cluster is one block.  A header is reduced to whose it is,   *)
(* its retrieval pointers, its extension link and its high-water mark; its *)
(* HighestBlock and end of file are left out, since nothing here reads     *)
(* them, and so is the alternate copy of the primary header, which is      *)
(* written with it and which no mount reads.  The files are reduced to     *)
(* their header slots and the clusters they occupy.                        *)
(***************************************************************************)
EXTENDS Extents

CONSTANTS
    MaxFiles,       \* HomeBlock.MaxFiles
    ReservedFiles,  \* HomeBlock.ReservedFiles; INDEXF.SYS is the first
    Lead,           \* blocks of the index file before its header slots
    FirstSlots,     \* header slots INITIALIZE allocates
    ExtendBlocks,   \* indexFileExtendBlocks
    MapWords,       \* words of a header its map can use
    PointerWords,   \* words of a retrieval pointer on this volume
    WidestPointer   \* words of the widest retrieval pointer

FirstBlocks == Lead + FirstSlots

ASSUME SizesArePositive ==
    {MaxFiles, ReservedFiles, FirstSlots, ExtendBlocks, PointerWords} \subseteq Nat \ {0}
ASSUME LeadIsNatural == Lead \in Nat
ASSUME IndexFileFits ==
    ReservedFiles <= FirstSlots /\ FirstSlots <= MaxFiles /\ 0 .. FirstBlocks - 1 \subseteq Clusters
ASSUME MapHasRoom ==
    PointerWords <= WidestPointer /\ {MapWords, WidestPointer} \subseteq Nat /\ 2 * PointerWords <= MapWords

VARIABLES
    block,    \* on disk: what each block holds, as a block of the index file
    free,     \* the storage bitmap
    files,    \* the clusters other files occupy
    used,     \* the index-file bitmap
    extents,  \* in memory: the index file's extents
    primary,  \* in memory: its primary header
    call,     \* what the call in progress has yet to do
    growth    \* how growths went so far: see Growths

vars == <<block, free, files, used, extents, primary, call, growth>>

IndexFileNumber == 1

FileNumbers == 1 .. MaxFiles

\* What a block holds: zeros, whatever was there before the index file had it,
\* the header of a file, or a header of the index file.
Owners == {"none", "leftover", "file", "index"}

\* The maps a header has room for.
Maps == {map \in Seq(Extent) : Len(map) * PointerWords <= MapWords}

IndexHeader(map, ext, highWater) ==
    [owner |-> "index", map |-> map, ext |-> ext, highWater |-> highWater]

Other(owner) == [owner |-> owner, map |-> <<>>, ext |-> 0, highWater |-> 0]

\* Every growth so far went as ensureHeaderSlot reckons, one extent and, if it
\* was to have one, a second growth after it; some did not; of these, some went
\* over the end of a header's map.
Growths == {"planned", "unplanned", "overflowed"}

Steps == {"none", "extend", "place", "segment", "zero", "record", "header"}

\* The rest of a call: where it stands, the file it makes a header for, the
\* blocks of this growth and of the next, whether it starts a new segment,
\* the blocks mapped before, the extents left to place, the slot of the last
\* header, and the slot of its next segment.
NoCall == [step |-> "none", file |-> 0, blocks |-> 0, more |-> 0, newSegment |-> FALSE,
           have |-> 0, todo |-> <<>>, tail |-> 0, segment |-> 0]

TypeOK ==
    /\ DOMAIN block = Clusters
    /\ \A c \in Clusters :
          /\ block[c].owner \in Owners /\ block[c].map \in Maps
          /\ block[c].ext \in FileNumbers \cup {0} /\ block[c].highWater \in Nat
    /\ free \subseteq Clusters /\ files \subseteq Clusters /\ used \subseteq FileNumbers
    /\ extents \in Seq(Extent)
    /\ primary.owner = "index" /\ primary.map \in Maps /\ primary.ext \in FileNumbers \cup {0}
    /\ DOMAIN call = DOMAIN NoCall
    /\ call.step \in Steps /\ call.file \in FileNumbers \cup {0}
    /\ {call.tail, call.segment} \subseteq FileNumbers \cup {0}
    /\ {call.blocks, call.more, call.have} \subseteq Nat /\ call.newSegment \in BOOLEAN
    /\ call.todo \in Seq(Extent)
    /\ growth \in Growths

-----------------------------------------------------------------------------
(* Finding blocks and headers.                                             *)

\* mappedBlocks.
MappedBlocks(map) == Cardinality(Claimed(map))

\* fileHeaderVBN.
HeaderVbn(n) == Lead + n

\* resolveExtentLBN, of a VBN the map covers.
Lbn(map, vbn) ==
    LET before(i) == MappedBlocks(SubSeq(map, 1, i - 1))
        i == CHOOSE i \in DOMAIN map : before(i) < vbn /\ vbn <= before(i) + map[i].count
    IN  map[i].start + vbn - before(i) - 1

SlotMapped(map, n) == HeaderVbn(n) <= MappedBlocks(map)

HeaderIn(map, n) == block[Lbn(map, HeaderVbn(n))]

PrimaryLbn == Lead

\* bootstrapIndexFile and buildFile: what a mount finds after following k
\* extension links from the primary header.
Found ==
    LET found[k \in 0 .. MaxFiles] ==
            IF k = 0
            THEN [map |-> block[PrimaryLbn].map, ext |-> block[PrimaryLbn].ext,
                  ok |-> block[PrimaryLbn].owner = "index"]
            ELSE LET f == found[k - 1]
                     next == HeaderIn(f.map, f.ext)
                 IN  IF f.ext = 0 \/ ~f.ok THEN f
                     ELSE IF ~SlotMapped(f.map, f.ext) \/ next.owner # "index"
                     THEN [f EXCEPT !.ok = FALSE]
                     ELSE [map |-> f.map \o next.map, ext |-> next.ext, ok |-> TRUE]
    IN  found[MaxFiles]

MountFinds(map) == Found.ok /\ Found.map = map

\* The header in slot n as the session sees it.
SessionHeader(n) == IF n = IndexFileNumber THEN primary ELSE HeaderIn(extents, n)

\* tailHeader: the slot of the index file's last header, following the chain
\* through the extents in memory; 0 if the chain cannot be followed.
TailSlot ==
    LET after(n) == SessionHeader(n).ext
        follow(n) == IF SlotMapped(extents, n) /\ SessionHeader(n).owner = "index" THEN n ELSE 0
        slot[k \in 0 .. MaxFiles] ==
            IF k = 0 THEN IndexFileNumber
            ELSE LET n == slot[k - 1]
                 IN  IF n = 0 \/ after(n) = 0 THEN n ELSE follow(after(n))
    IN  slot[MaxFiles]

\* File.ReadBlock: a block from the high-water mark on reads as zero.
LooksUnused(n) ==
    HeaderVbn(n) < primary.highWater => HeaderIn(extents, n).owner = "none"

\* FindFreeSlot: the lowest slot not in use; if it does not look unused, the
\* caller gets an error.
FreeSlot(n) ==
    /\ n \in FileNumbers \ used /\ n > ReservedFiles
    /\ \A k \in FileNumbers \ used : k > ReservedFiles => n <= k
    /\ LooksUnused(n)

\* FindFreeSlotWithin: the same, if its block is at or below lastVbn.
FreeSlotWithin(n, lastVbn) == FreeSlot(n) /\ HeaderVbn(n) <= lastVbn

\* pointerRoom: has header h room for n more pointers, of whatever width?
PointerRoom(h, n) == Len(h.map) * PointerWords + n * WidestPointer <= MapWords

\* Mutant of MapFits: a pointer is taken to be a word shorter.
MapFitsAlmost(map) == Len(map) * (PointerWords - 1) <= MapWords

\* EncodeFileHeader: can it hold this map?
MapFits(map) == Len(map) * PointerWords <= MapWords

-----------------------------------------------------------------------------
(* Writing headers.                                                        *)

\* writeHeaderBytes, to slot n.
WriteHeader(n, h) == block' = [block EXCEPT ![Lbn(extents, HeaderVbn(n))] = h]

\* Mutant of Rewrite: the copy of the primary header in memory is not kept up.
RewriteOnDisk(n, h) == WriteHeader(n, h) /\ UNCHANGED primary

\* Write header h of the index file to slot n.  The File of the index file
\* has a copy of the primary one.
Rewrite(n, h) ==
    /\ WriteHeader(n, h)
    /\ primary' = IF n = IndexFileNumber THEN h ELSE primary

\* The call returns an error.
GiveUp ==
    /\ used' = used \ {call.file}
    /\ call' = NoCall

-----------------------------------------------------------------------------
(* Making a header: CreateHeader, and the segments of other files that     *)
(* linkNewExtensionSegment makes the same way.                             *)

\* The slot is in a block the index file has.
MakeHeader(n) ==
    /\ call = NoCall
    /\ FreeSlot(n) /\ SlotMapped(extents, n)
    /\ call' = [NoCall EXCEPT !.step = "header", !.file = n]
    /\ UNCHANGED <<block, free, files, used, extents, primary, growth>>

\* Mutants of GrowthFor: the last pointer of a header is used up; the first of
\* two growths leaves no slot for the extension header.
GrowthForOneLeft(n, have, tail) ==
    LET blocks == Max({HeaderVbn(n) - have, ExtendBlocks})
        first == HeaderVbn(n) - have + 1
    IN  IF PointerRoom(tail, 1) THEN [now |-> blocks, later |-> 0]
        ELSE [now |-> first, later |-> Max({blocks - first, 1})]

\* ensureHeaderSlot: by how much to grow for slot n, at once, and then in a new
\* segment if the last header has no room for two more pointers.
GrowthFor(n, have, tail) ==
    LET blocks == Max({HeaderVbn(n) - have, ExtendBlocks})
        first == HeaderVbn(n) - have + 1
    IN  IF PointerRoom(tail, 2) THEN [now |-> blocks, later |-> 0]
        ELSE [now |-> first, later |-> Max({blocks - first, 1})]

\* It is not: grow the index file first.  The slot counts as used meanwhile.
Grow(n) ==
    LET have == MappedBlocks(extents)
        grow == GrowthFor(n, have, SessionHeader(TailSlot))
    IN  /\ call = NoCall
        /\ FreeSlot(n) /\ ~SlotMapped(extents, n)
        /\ TailSlot # 0
        /\ used' = used \cup {n}
        /\ call' = [NoCall EXCEPT !.step = "extend", !.file = n, !.have = have,
                                  !.blocks = grow.now, !.more = grow.later]
        /\ UNCHANGED <<block, free, files, extents, primary, growth>>

Unplanned == growth' = IF growth = "planned" THEN "unplanned" ELSE growth

\* extend: take the space; there may not be enough.  If the last header cannot
\* be found, what was taken stays taken.
Allocate ==
    /\ call.step = "extend"
    /\ \E exts \in Allocations(free, call.blocks) :
          /\ free' = free \ Taken(exts)
          /\ IF TailSlot = 0 THEN GiveUp
             ELSE /\ call' = [call EXCEPT !.step = "place", !.todo = exts, !.tail = TailSlot]
                  /\ UNCHANGED used
          /\ IF TailSlot = 0 \/ Len(exts) > 1 THEN Unplanned ELSE UNCHANGED growth
    /\ UNCHANGED <<block, files, extents, primary>>

NoSpace ==
    /\ call.step = "extend"
    /\ Cardinality(free) < call.blocks
    /\ GiveUp
    /\ IF call.newSegment THEN Unplanned ELSE UNCHANGED growth
    /\ UNCHANGED <<block, free, files, extents, primary>>

Grown(h, e) == AddExtent(h.map, e)

TailHasRoom == ~call.newSegment /\ MapFits(Grown(SessionHeader(call.tail), Head(call.todo)))

\* appendExtent, and the extents in memory.
PlacePointer ==
    LET h == SessionHeader(call.tail)
        e == Head(call.todo)
    IN  /\ call.step = "place" /\ call.todo # <<>> /\ TailHasRoom
        /\ Rewrite(call.tail, [h EXCEPT !.map = Grown(h, e)])
        /\ extents' = AddExtent(extents, e)
        /\ call' = [call EXCEPT !.todo = Tail(@)]
        /\ UNCHANGED <<free, files, used, growth>>

\* linkNewExtensionSegment: link the last header to a new segment.
LinkSegment ==
    LET h == SessionHeader(call.tail)
    IN  /\ call.step = "place" /\ call.todo # <<>> /\ ~TailHasRoom
        /\ \E n \in FileNumbers :
              /\ FreeSlotWithin(n, MappedBlocks(extents))
              /\ Rewrite(call.tail, [h EXCEPT !.ext = n])
              /\ used' = used \cup {n}
              /\ call' = [call EXCEPT !.step = "segment", !.segment = n]
        /\ growth' = IF call.newSegment THEN growth ELSE "overflowed"
        /\ UNCHANGED <<free, files, extents>>

\* There is no slot for it: there is none after the last file's.
NoSlot ==
    /\ call.step = "place" /\ call.todo # <<>> /\ ~TailHasRoom
    /\ ~\E n \in FileNumbers : FreeSlotWithin(n, MappedBlocks(extents))
    /\ GiveUp
    /\ IF call.file = MaxFiles THEN Unplanned ELSE UNCHANGED growth
    /\ UNCHANGED <<block, free, files, extents, primary>>

\* Write the new segment, which maps the extent.
WriteSegment ==
    LET e == Head(call.todo)
    IN  /\ call.step = "segment"
        /\ WriteHeader(call.segment, IndexHeader(<<e>>, 0, 0))
        /\ extents' = Append(extents, e)
        /\ call' = [call EXCEPT !.step = "place", !.todo = Tail(@), !.newSegment = FALSE,
                                !.tail = call.segment, !.segment = 0]
        /\ UNCHANGED <<free, files, used, primary, growth>>

\* Rewrite the primary header, for its HighestBlock.
RecordHighest ==
    /\ call.step = "place" /\ call.todo = <<>>
    /\ Rewrite(IndexFileNumber, primary)
    /\ call' = [call EXCEPT !.step = "zero"]
    /\ UNCHANGED <<free, files, used, extents, growth>>

\* Mutant of NewBlocks: off by one.
NewBlocksAndLast == {Lbn(extents, v) : v \in call.have .. MappedBlocks(extents)}

NewBlocks == {Lbn(extents, v) : v \in call.have + 1 .. MappedBlocks(extents)}

\* Mutant of ZeroNewBlocks: the new blocks are left as they are.
SkipZero ==
    /\ call.step = "zero"
    /\ call' = [call EXCEPT !.step = "record"]
    /\ UNCHANGED <<block, free, files, used, extents, primary, growth>>

\* growIndexFile: zero the new blocks.
ZeroNewBlocks ==
    /\ call.step = "zero"
    /\ block' = [c \in Clusters |-> IF c \in NewBlocks THEN Other("none") ELSE block[c]]
    /\ call' = [call EXCEPT !.step = "record"]
    /\ UNCHANGED <<free, files, used, extents, primary, growth>>

\* growIndexFile: move the high-water mark.  Then comes the second growth, if
\* there is one, in a segment of its own, or the new header.
RecordSize ==
    LET have == MappedBlocks(extents)
    IN  /\ call.step = "record"
        /\ Rewrite(IndexFileNumber, [primary EXCEPT !.highWater = have + 1])
        /\ call' = IF call.more = 0
                   THEN [NoCall EXCEPT !.step = "header", !.file = call.file]
                   ELSE [NoCall EXCEPT !.step = "extend", !.file = call.file, !.have = have,
                                       !.blocks = call.more, !.newSegment = TRUE]
        /\ UNCHANGED <<free, files, used, extents, growth>>

\* Write the header.
WriteNewHeader ==
    /\ call.step = "header"
    /\ WriteHeader(call.file, Other("file"))
    /\ used' = used \cup {call.file}
    /\ call' = NoCall
    /\ UNCHANGED <<free, files, extents, primary, growth>>

-----------------------------------------------------------------------------
(* The other files.                                                        *)

\* freeFileStorage frees the slot of a file.
FreeHeader(n) ==
    /\ call = NoCall
    /\ n \in used /\ n > ReservedFiles
    /\ SlotMapped(extents, n) /\ HeaderIn(extents, n).owner = "file"
    /\ WriteHeader(n, Other("none"))
    /\ used' = used \ {n}
    /\ UNCHANGED <<free, files, extents, primary, call, growth>>

\* A file takes a cluster.
TakeCluster(c) ==
    /\ call = NoCall
    /\ c \in free
    /\ free' = free \ {c} /\ files' = files \cup {c}
    /\ UNCHANGED <<block, used, extents, primary, call, growth>>

\* A file frees a cluster.
FreeCluster(c) ==
    /\ call = NoCall
    /\ c \in files
    /\ free' = free \cup {c} /\ files' = files \ {c}
    /\ UNCHANGED <<block, used, extents, primary, call, growth>>

-----------------------------------------------------------------------------
(* The volume as INITIALIZE left it, and the specification.                *)

FirstExtents == <<[start |-> 0, count |-> FirstBlocks]>>

FirstPrimary == IndexHeader(FirstExtents, 0, FirstBlocks + 1)

FirstBlock(c) ==
    IF c = PrimaryLbn THEN FirstPrimary
    ELSE IF c \in Span(Lead + 1, ReservedFiles - 1) THEN Other("file")
    ELSE IF c \in Claimed(FirstExtents) THEN Other("none")
    ELSE Other("leftover")

Init ==
    /\ block = [c \in Clusters |-> FirstBlock(c)]
    /\ files = {}
    /\ free = Clusters \ Claimed(FirstExtents)
    /\ used = 1 .. ReservedFiles
    /\ extents = FirstExtents /\ primary = FirstPrimary
    /\ call = NoCall /\ growth = "planned"

Next ==
    \/ \E n \in FileNumbers : MakeHeader(n) \/ Grow(n) \/ FreeHeader(n)
    \/ Allocate \/ NoSpace
    \/ PlacePointer \/ LinkSegment \/ NoSlot \/ WriteSegment
    \/ RecordHighest \/ ZeroNewBlocks \/ RecordSize \/ WriteNewHeader
    \/ \E c \in Clusters : TakeCluster(c) \/ FreeCluster(c)

Spec == Init /\ [][Next]_vars

-----------------------------------------------------------------------------
(* Properties.                                                             *)

\* Whatever write a crash interrupts, a mount finds, by following the chain from
\* the primary header, the very extents the session has: growIndexFile never
\* leaves a header of the index file where only the header itself says where
\* it is, or zeroes it.  The write that links a segment not yet written is the
\* one exception.
MountFindsIndexFile == call.step # "segment" => MountFinds(extents)

\* That is so unless a growth in several extents went over the end of a
\* header's map: ensureHeaderSlot reckons with one extent a growth.
OnlyOverflowBreaksChain == growth # "overflowed" => MountFindsIndexFile

\* A slot in use holds a header: growing neither zeroes nor overwrites the
\* header of a file, nor gives a slot away twice.
HeadersSurvive ==
    growth # "overflowed" =>
        \A n \in used \ {call.file, call.segment} :
            SlotMapped(extents, n) /\ HeaderIn(extents, n).owner \in {"file", "index"}

\* A slot not in use looks unused, so that FindFreeSlot never reports that the
\* bitmap and the headers disagree, though the space had other uses before.
FreeSlotsLookUnused ==
    call = NoCall => \A n \in FileNumbers \ used : SlotMapped(extents, n) => LooksUnused(n)

\* The index file can still grow, wherever there is space: its last header has
\* room for a pointer, or ensureHeaderSlot kept a slot for the next header.
CanStillGrow ==
    call = NoCall /\ used # FileNumbers =>
        \/ (Len(SessionHeader(TailSlot).map) + 1) * PointerWords <= MapWords
        \/ \E n \in FileNumbers : FreeSlotWithin(n, MappedBlocks(extents))

\* It is, and no growth loses space or takes it from a file, as long as growths
\* go as reckoned: in the two steps of growIndexFile when the header is almost
\* full, the last file number included.
OnlyUnplannedGrowthIsLast ==
    /\ growth = "planned" => CanStillGrow
    /\ free \cap (files \cup Claimed(extents)) = {} /\ files \cap Claimed(extents) = {}
    /\ call = NoCall /\ growth = "planned" => free \cup files \cup Claimed(extents) = Clusters

=============================================================================

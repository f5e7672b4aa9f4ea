--------------------------- MODULE VolumeStorage ---------------------------
(***************************************************************************)
(* Who owns what on a volume: file headers and their extension segments in *)
(* the index file, the storage bitmap and the index-file bitmap, on disk   *)
(* and as the session caches them, and the entries of a directory, as      *)
(* creating, extending, closing, deleting and purging files, flushing,     *)
(* dismounting and ANALYZE/DISK/REPAIR change them.                        *)
(*                                                                         *)
(* A call is a sequence of disk writes with changes of memory between      *)
(* them, so an action is one write with the memory changes around it: a    *)
(* crash, or a write that fails, may come between any two.  What a call    *)
(* only reads or changes in memory before its first write goes with that   *)
(* write.  A call refused before it changed anything is not an action.     *)
(*                                                                         *)
(* One directory is modelled, whose content is one block, holding the      *)
(* versions of one name.  A header is reduced to its sequence number, its  *)
(* retrieval pointers and its extension link.  The bitmaps' dirty flags    *)
(* are left out: a flush that writes an unchanged bitmap changes nothing.  *)
(***************************************************************************)
EXTENDS Extents

CONSTANTS
    FileNumbers,    \* the header slots not reserved to the volume
    Versions,       \* version numbers a file can be given
    MapRoom,        \* the retrieval pointers a header has room for
    VersionLimit,   \* the directory's default version limit, 0 for none
    AnyVersion,     \* may the caller ask for an explicit version?
    RepairFirst,    \* is a volume that crashed repaired before it is used?
    MayFail,        \* the steps whose disk write may fail
    MayCrash,       \* may the system crash?
    MaxRequest,     \* bound: clusters asked for by one Extend
    MaxSeq,         \* bound: sequence number of a slot
    MaxMishaps      \* bound: steps at which a write fails or the system crashes

ASSUME FileNumbersArePositive == IsFiniteSet(FileNumbers) /\ FileNumbers \subseteq Nat \ {0}
ASSUME VersionsArePositive == IsFiniteSet(Versions) /\ Versions \subseteq Nat \ {0}
ASSUME LimitsAreNumbers ==
    {VersionLimit, MaxRequest, MaxSeq, MaxMishaps} \subseteq Nat /\ MapRoom \in Nat \ {0}
ASSUME ChoicesAreBoolean == {AnyVersion, RepairFirst, MayCrash} \subseteq BOOLEAN

VARIABLES
    slot,      \* on disk: the header in each slot
    entry,     \* on disk: the file each version's directory entry names
    diskFree,  \* on disk: the clusters BITMAP.SYS shows free
    diskUsed,  \* on disk: the slots the index-file bitmap shows in use
    free,      \* in memory: the storage bitmap
    used,      \* in memory: the index-file bitmap
    handle,    \* in memory: the File open for writing, if any
    call,      \* in memory: what the call in progress has yet to do
    mounted,   \* is the volume mounted?
    suspect,   \* has it crashed, or failed to dismount, since its last repair?
    failed,    \* the steps at which calls ended halfway
    crashed    \* the steps at which it crashed

disk == <<slot, entry, diskFree, diskUsed>>
memory == <<free, used, handle, call>>
status == <<mounted, suspect, failed, crashed>>
vars == <<disk, memory, status>>

Fid == [num: FileNumbers \cup {0}, seq: 0 .. MaxSeq]

NoFid == [num |-> 0, seq |-> 0]

Maps == UNION {[1 .. n -> Extent] : n \in 0 .. MapRoom}

Header == [live: BOOLEAN, seq: 0 .. MaxSeq, map: Maps, ext: Fid]

\* Mutant of Blank: the sequence number goes with the rest of the header.
BlankAll(s) == [live |-> FALSE, seq |-> 0, map |-> <<>>, ext |-> NoFid]

\* A freed slot: all zero but the sequence number of its last header.
Blank(s) == [live |-> FALSE, seq |-> s, map |-> <<>>, ext |-> NoFid]

NoHandle == [num |-> 0, header |-> Blank(0)]

Steps == {"none", "insert", "remove", "free", "append", "segment", "highest",
          "flush", "dismount", "repair"}

\* The rest of a call: where it stands, the file it creates or frees, the
\* versions left to delete, the extents left to record and where.
NoCall == [step |-> "none", creates |-> NoFid, version |-> 0, excess |-> {},
           next |-> NoFid, todo |-> <<>>, tail |-> 0]

TypeOK ==
    /\ slot \in [FileNumbers -> Header]
    /\ entry \in [Versions -> Fid]
    /\ diskFree \subseteq Clusters /\ free \subseteq Clusters
    /\ diskUsed \subseteq FileNumbers /\ used \subseteq FileNumbers
    /\ handle \in [num: FileNumbers \cup {0}, header: Header]
    /\ DOMAIN call = DOMAIN NoCall
    /\ call.step \in Steps /\ call.creates \in Fid /\ call.version \in Versions \cup {0}
    /\ call.excess \subseteq Versions /\ call.next \in Fid
    /\ \A i \in DOMAIN call.todo : call.todo[i] \in Extent
    /\ call.tail \in FileNumbers \cup {0}
    /\ mounted \in BOOLEAN /\ suspect \in BOOLEAN
    /\ failed \subseteq Steps /\ crashed \subseteq Steps

Init ==
    /\ slot = [n \in FileNumbers |-> Blank(0)]
    /\ entry = [v \in Versions |-> NoFid]
    /\ diskFree = Clusters /\ free = Clusters
    /\ diskUsed = {} /\ used = {}
    /\ handle = NoHandle /\ call = NoCall
    /\ mounted = TRUE /\ suspect = FALSE
    /\ failed = {} /\ crashed = {}

-----------------------------------------------------------------------------
(* Headers and their chains.                                               *)

\* readFileHeaderViaIndex: does file ID f name the header in its slot?
Resolves(f) == f.num # 0 /\ slot[f.num].live /\ slot[f.num].seq = f.seq

\* The extension links fileHeaderChain follows from header h, one after the
\* other; the last is NoFid unless the chain is broken.
Links(h) ==
    LET link[k \in 0 .. Cardinality(FileNumbers)] ==
            IF k = 0 THEN h.ext
            ELSE IF Resolves(link[k - 1]) THEN slot[link[k - 1].num].ext
            ELSE link[k - 1]
    IN  link

Intact(h) == Links(h)[Cardinality(FileNumbers)] = NoFid

\* The slots of the segments chained to header h.
Segments(h) == {Links(h)[k].num : k \in DOMAIN Links(h)} \ {0}

\* tailHeader: the slot of the last segment of the file whose primary header h
\* is in slot n.
TailOf(n, h) == IF h.ext = NoFid THEN n ELSE CHOOSE k \in Segments(h) : slot[k].ext = NoFid

Readable(f) == Resolves(f) /\ Intact(slot[f.num])

\* FindFreeSlot: the lowest slot shown free.  If it holds a header all the
\* same, no slot is found.
FreeSlot(n) == n = Min(FileNumbers \ used) /\ ~slot[n].live

SomeFreeSlot == \E n \in FileNumbers \ used : FreeSlot(n)

NextFid(n) == [num |-> n, seq |-> slot[n].seq + 1]

\* The header of segment f, mapping extents map.
HeaderOf(f, map) == [live |-> TRUE, seq |-> f.seq, map |-> map, ext |-> NoFid]

Entered == {v \in Versions : entry[v] # NoFid}

\* Mutant of ExcessOf: the oldest versions are kept.
ExcessOfNewest(versions, keep) ==
    {v \in versions : Cardinality({w \in versions : w < v}) >= keep}

\* excessVersions: all but the `keep` highest.
ExcessOf(versions, keep) ==
    {v \in versions : Cardinality({w \in versions : w > v}) >= keep}

Excess(versions) == IF VersionLimit = 0 THEN {} ELSE ExcessOf(versions, VersionLimit)

-----------------------------------------------------------------------------
(* Starting and ending calls.                                              *)

\* A new call can be made: the one before returned, and a volume that
\* crashed was repaired first if that is the operator's rule.
Ready == mounted /\ call.step = "none" /\ ~(suspect /\ RepairFirst)

\* CreateFileVersion, when nothing is left to delete, returns a File of the
\* header CreateHeader wrote, open for writing.
Returned(c) ==
    IF c.creates = NoFid THEN handle
    ELSE [num |-> c.creates.num, header |-> HeaderOf(c.creates, <<>>)]

\* Go on with call c, which ends if it has no file left to delete.
DeleteMore(c) ==
    IF c.excess = {} THEN call' = NoCall /\ handle' = Returned(c)
    ELSE call' = [c EXCEPT !.step = "remove"] /\ UNCHANGED handle

\* The call returns an error.  A File it was to return is not returned.
Fails ==
    /\ failed' = failed \cup {call.step}
    /\ call' = NoCall
    /\ UNCHANGED <<handle, mounted, suspect, crashed>>

\* Bound: at MaxMishaps steps a write fails or the system crashes.
MishapLeft == Cardinality(failed) + Cardinality(crashed) < MaxMishaps

\* Can the disk write of step s fail?
WriteMayFail(s) == s \in MayFail /\ MishapLeft

WriteFails(s) == call.step = s /\ WriteMayFail(s) /\ Fails

-----------------------------------------------------------------------------
(* CreateFileVersion.                                                      *)

\* Is v the version CreateFile would choose, or may the caller choose?
MayCreate(v) == entry[v] = NoFid /\ (AnyVersion \/ \A w \in Entered : w < v)

\* resolveVersionLimit reads the header of the highest version.
LimitResolves == \A v \in Entered : (\A w \in Entered : w <= v) => Resolves(entry[v])

\* CreateHeader.
CreateHeader(v) ==
    /\ Ready /\ handle = NoHandle
    /\ MayCreate(v) /\ LimitResolves
    /\ \E n \in FileNumbers \ used :
          /\ FreeSlot(n) /\ slot[n].seq < MaxSeq
          /\ slot' = [slot EXCEPT ![n] = HeaderOf(NextFid(n), <<>>)]
          /\ used' = used \cup {n}
          /\ call' = [NoCall EXCEPT !.step = "insert", !.creates = NextFid(n), !.version = v]
    /\ UNCHANGED <<entry, diskFree, diskUsed, free, handle, status>>

\* Directory.Insert, and enforceVersionLimit's choice of what to delete.
InsertEntry ==
    /\ call.step = "insert"
    /\ entry' = [entry EXCEPT ![call.version] = call.creates]
    /\ DeleteMore([call EXCEPT !.excess = Excess(Entered \cup {call.version})])
    /\ UNCHANGED <<slot, diskFree, diskUsed, free, used, status>>

InsertFails ==
    /\ WriteFails("insert")
    /\ UNCHANGED <<disk, free, used>>

-----------------------------------------------------------------------------
(* DeleteFile, PurgeVersions.                                              *)

\* The caller does not delete the file it is writing.
Unopened(f) == handle = NoHandle \/ f # [num |-> handle.num, seq |-> handle.header.seq]

\* DeleteFile of one version, PurgeVersions of all but the highest.
Delete ==
    /\ Ready
    /\ \E excess \in {{v} : v \in Entered} \cup {ExcessOf(Entered, 1)} :
          /\ excess # {}
          /\ \A v \in excess : Unopened(entry[v])
          /\ call' = [NoCall EXCEPT !.step = "remove", !.excess = excess]
    /\ UNCHANGED <<disk, free, used, handle, status>>

\* Mutant of RemoveEntry: the storage is freed under the entry.
RemoveEntryLate ==
    /\ call.step = "remove"
    /\ LET v == Min(call.excess)
       IN  /\ Readable(entry[v])
           /\ UNCHANGED entry
           /\ call' = [call EXCEPT !.step = "free", !.excess = @ \ {v}, !.next = entry[v]]
    /\ UNCHANGED <<slot, diskFree, diskUsed, free, used, handle, status>>

\* DeleteFile removes the entry first, then frees the storage.
RemoveEntry ==
    /\ call.step = "remove"
    /\ LET v == Min(call.excess)
       IN  /\ Readable(entry[v])
           /\ entry' = [entry EXCEPT ![v] = NoFid]
           /\ call' = [call EXCEPT !.step = "free", !.excess = @ \ {v}, !.next = entry[v]]
    /\ UNCHANGED <<slot, diskFree, diskUsed, free, used, handle, status>>

\* The entry names no header: nothing is removed.  Or the header chain is
\* broken, which comes out when the entry is gone.
RemoveFails ==
    /\ call.step = "remove"
    /\ LET v == Min(call.excess)
       IN  \/ ~Resolves(entry[v]) /\ Fails /\ UNCHANGED entry
           \/ /\ Resolves(entry[v]) /\ ~Intact(slot[entry[v].num])
              /\ Fails /\ entry' = [entry EXCEPT ![v] = NoFid]
           \/ WriteFails("remove") /\ UNCHANGED entry
    /\ UNCHANGED <<slot, diskFree, diskUsed, free, used>>

\* What freeFileStorage does in memory before it blanks slot n.
UnmarkSegment(n) ==
    /\ free' = free \cup Claimed(slot[n].map)
    /\ used' = used \ {n}

\* freeFileStorage, one segment: its clusters, its slot, its header.
FreeSegment ==
    LET n == call.next.num
    IN  /\ call.step = "free"
        /\ UnmarkSegment(n)
        /\ slot' = [slot EXCEPT ![n] = Blank(slot[n].seq)]
        /\ IF slot[n].ext = NoFid THEN DeleteMore([call EXCEPT !.next = NoFid])
           ELSE call' = [call EXCEPT !.next = slot[n].ext] /\ UNCHANGED handle
        /\ UNCHANGED <<entry, diskFree, diskUsed, status>>

FreeFails ==
    /\ WriteFails("free")
    /\ UnmarkSegment(call.next.num)
    /\ UNCHANGED disk

-----------------------------------------------------------------------------
(* OpenForWrite, Extend, Close.                                            *)

OpenForWrite(v) ==
    /\ Ready /\ handle = NoHandle
    /\ Readable(entry[v])
    /\ handle' = [num |-> entry[v].num, header |-> slot[entry[v].num]]
    /\ UNCHANGED <<disk, free, used, call, status>>

\* The header in slot n as Extend knows it: for the primary header, the File's.
Known(n) == IF n = handle.num THEN handle.header ELSE slot[n]

\* Mutant of Follow: the File's own header is not kept in step.
FollowNot(n, h) == UNCHANGED handle

\* The File's own header follows what is written to its slot.
Follow(n, h) == handle' = IF n = handle.num THEN [handle EXCEPT !.header = h] ELSE handle

\* Mutants of FreeAfter: only the first extent is marked allocated; or, of each,
\* only the first cluster.
FreeAfterFirst(exts) == free \ ClustersOf(exts[1])

FreeAfterStarts(exts) == free \ {exts[i].start : i \in DOMAIN exts}

FreeAfter(exts) == free \ Taken(exts)

\* Bound: a segment can be put in any blank slot.
SeqLeft == \A n \in FileNumbers : slot[n].live \/ slot[n].seq < MaxSeq

\* Extend: the clusters are taken first, then the chain is walked to its end.
Extend(k) ==
    /\ Ready /\ handle # NoHandle /\ SeqLeft
    /\ \E exts \in Allocations(free, k) :
          /\ free' = FreeAfter(exts)
          /\ IF Intact(handle.header)
             THEN /\ call' = [NoCall EXCEPT !.step = "append", !.todo = exts,
                                            !.tail = TailOf(handle.num, handle.header)]
                  /\ UNCHANGED <<handle, status>>
             ELSE Fails
    /\ UNCHANGED <<disk, used>>

\* What follows when the first extent left has been recorded.
Recorded(c) ==
    LET rest == Tail(c.todo)
    IN  [c EXCEPT !.todo = rest, !.step = IF rest = <<>> THEN "highest" ELSE "append"]

\* Mutant of Fits: the map is measured before it grows.
FitsBefore(h, e) == Len(h.map) <= MapRoom

Fits(h, e) == Len(AddExtent(h.map, e)) <= MapRoom

AppendExtent ==
    LET h == Known(call.tail)
        grown == [h EXCEPT !.map = AddExtent(h.map, Head(call.todo))]
    IN  /\ call.step = "append"
        /\ Fits(h, Head(call.todo))
        /\ slot' = [slot EXCEPT ![call.tail] = grown]
        /\ Follow(call.tail, grown)
        /\ call' = Recorded(call)
        /\ UNCHANGED <<entry, diskFree, diskUsed, free, used, status>>

\* The slot of a new segment is marked in use before the segment is written.
MarkSegment(n) == used \cup {n}

\* linkNewExtensionSegment: the tail is linked to the new segment first.
LinkSegment ==
    LET h == Known(call.tail)
    IN  /\ call.step = "append"
        /\ ~Fits(h, Head(call.todo))
        /\ \E n \in FileNumbers \ used :
              /\ FreeSlot(n)
              /\ slot' = [slot EXCEPT ![call.tail] = [h EXCEPT !.ext = NextFid(n)]]
              /\ used' = MarkSegment(n)
              /\ call' = [call EXCEPT !.step = "segment", !.next = NextFid(n)]
        /\ UNCHANGED <<entry, diskFree, diskUsed, free, handle, status>>

\* No slot for a new segment, or a write that fails: what was allocated and
\* not yet recorded stays allocated.
AppendFails ==
    /\ \/ WriteFails("append")
       \/ /\ call.step = "append"
          /\ ~Fits(Known(call.tail), Head(call.todo)) /\ ~SomeFreeSlot
          /\ Fails
    /\ UNCHANGED <<disk, free, used>>

\* The new segment, and the tail as it was linked for the File's own copy.
WriteSegment ==
    /\ call.step = "segment"
    /\ slot' = [slot EXCEPT ![call.next.num] = HeaderOf(call.next, <<Head(call.todo)>>)]
    /\ Follow(call.tail, slot[call.tail])
    /\ call' = [Recorded(call) EXCEPT !.tail = call.next.num, !.next = NoFid]
    /\ UNCHANGED <<entry, diskFree, diskUsed, free, used, status>>

SegmentFails ==
    /\ WriteFails("segment")
    /\ UNCHANGED <<disk, free, used>>

\* The primary header goes out from memory: Extend's last step, and Close's.
WritePrimary == slot' = [slot EXCEPT ![handle.num] = handle.header]

RecordHighest ==
    /\ call.step = "highest"
    /\ WritePrimary
    /\ call' = NoCall
    /\ UNCHANGED <<entry, diskFree, diskUsed, free, used, handle, status>>

HighestFails ==
    /\ WriteFails("highest")
    /\ UNCHANGED <<disk, free, used>>

Close ==
    /\ Ready /\ handle # NoHandle
    /\ WritePrimary
    /\ handle' = NoHandle
    /\ UNCHANGED <<entry, diskFree, diskUsed, free, used, call, status>>

\* A command that fails halfway returns without closing its File.
Abandon ==
    /\ Ready /\ handle # NoHandle
    /\ handle' = NoHandle
    /\ UNCHANGED <<disk, free, used, call, status>>

-----------------------------------------------------------------------------
(* Flushing, dismounting, crashing, mounting, repairing.                   *)

\* Bitmap.Flush, for a command's end or for Dismount.
FlushBitmap(why) ==
    /\ Ready
    /\ why = "dismount" => handle = NoHandle
    /\ diskFree' = free
    /\ call' = [NoCall EXCEPT !.step = why]
    /\ UNCHANGED <<slot, entry, diskUsed, free, used, handle, status>>

\* IndexBitmap.Flush, after which Dismount closes the device.
FlushIndexBitmap ==
    /\ call.step \in {"flush", "dismount"}
    /\ diskUsed' = used
    /\ call' = NoCall
    /\ mounted' = (call.step = "flush")
    /\ UNCHANGED <<slot, entry, diskFree, free, used, handle, suspect, failed, crashed>>

\* The storage bitmap could not be written: the command, or Dismount, goes on to
\* the index-file bitmap all the same.
FlushBitmapFails(why) ==
    /\ Ready /\ WriteMayFail(why)
    /\ why = "dismount" => handle = NoHandle
    /\ call' = [NoCall EXCEPT !.step = why]
    /\ failed' = failed \cup {why}
    /\ suspect' = (suspect \/ why = "dismount")
    /\ UNCHANGED <<disk, free, used, handle, mounted, crashed>>

\* The index-file bitmap could not be written: the command ends, Dismount
\* closes the device.
FlushIndexBitmapFails ==
    /\ WriteFails("flush")
    /\ UNCHANGED <<disk, free, used>>

DismountFails ==
    /\ call.step = "dismount" /\ WriteMayFail("dismount")
    /\ call' = NoCall
    /\ failed' = failed \cup {"dismount"}
    /\ mounted' = FALSE /\ suspect' = TRUE
    /\ UNCHANGED <<disk, free, used, handle, crashed>>

Crash ==
    /\ mounted /\ MayCrash /\ MishapLeft
    /\ crashed' = crashed \cup {call.step}
    /\ mounted' = FALSE /\ suspect' = TRUE
    /\ call' = NoCall /\ handle' = NoHandle
    /\ UNCHANGED <<disk, free, used, failed>>

\* The bitmaps are read when they are first needed after a mount; nothing
\* writes them in between.
Mount ==
    /\ ~mounted
    /\ mounted' = TRUE
    /\ free' = diskFree /\ used' = diskUsed
    /\ UNCHANGED <<disk, handle, call, suspect, failed, crashed>>

\* The clusters the headers on disk say are in use.
ClaimedOnDisk == UNION {Claimed(slot[n].map) : n \in {k \in FileNumbers : slot[k].live}}

\* AnalyzeDisk: the clusters the bitmap on disk is wrong about.
Discrepancies == {c \in Clusters : c \in diskFree <=> c \in ClaimedOnDisk}

\* Mutant of Repaired: a cluster wrongly shown free stays free.
RepairedByFreeing(bits) == bits \cup (Discrepancies \ ClaimedOnDisk)

\* The cached bitmap, corrected where the one on disk is wrong.
Repaired(bits) ==
    (bits \ (Discrepancies \cap ClaimedOnDisk)) \cup (Discrepancies \ ClaimedOnDisk)

\* RepairDisk, which leaves everything alone if the bitmap on disk is right.
RepairDisk ==
    /\ mounted /\ call.step = "none" /\ handle = NoHandle
    /\ IF Discrepancies = {} THEN UNCHANGED <<free, diskFree>>
       ELSE free' = Repaired(free) /\ diskFree' = free'
    /\ suspect' = FALSE
    /\ UNCHANGED <<slot, entry, diskUsed, used, handle, call, mounted, failed, crashed>>

\* The corrections are made in memory and cannot be written.
RepairFails ==
    /\ mounted /\ call.step = "none" /\ handle = NoHandle
    /\ Discrepancies # {} /\ WriteMayFail("repair")
    /\ free' = Repaired(free)
    /\ failed' = failed \cup {"repair"}
    /\ UNCHANGED <<disk, used, handle, call, mounted, suspect, crashed>>

Next ==
    \/ \E v \in Versions : CreateHeader(v) \/ OpenForWrite(v)
    \/ InsertEntry \/ InsertFails
    \/ Delete \/ RemoveEntry \/ RemoveFails \/ FreeSegment \/ FreeFails
    \/ \E k \in 1 .. MaxRequest : Extend(k)
    \/ AppendExtent \/ LinkSegment \/ AppendFails \/ WriteSegment \/ SegmentFails
    \/ RecordHighest \/ HighestFails \/ Close \/ Abandon
    \/ \E why \in {"flush", "dismount"} : FlushBitmap(why) \/ FlushBitmapFails(why)
    \/ FlushIndexBitmap \/ FlushIndexBitmapFails \/ DismountFails
    \/ Crash \/ Mount \/ RepairDisk \/ RepairFails

Spec == Init /\ [][Next]_vars

-----------------------------------------------------------------------------
(* Properties.                                                             *)

Live == {n \in FileNumbers : slot[n].live}

\* The extents that cluster c is in, each as a slot and a place in its map.
Owners(c) == {o \in Live \X (1 .. MapRoom) :
                 LET map == slot[o[1]].map
                 IN  o[2] \in DOMAIN map /\ c \in ClustersOf(map[o[2]])}

\* Can files be created now, after the repair that is due if any?
InService == mounted /\ ~(suspect /\ RepairFirst)

\* No cluster is in two files, or twice in one, and none that a header claims is
\* free to be allocated again, whatever order files are created, extended and
\* deleted in, and across a crash that is followed by a repair.
SpaceIsOwnedOnce ==
    \A c \in Clusters : /\ Cardinality(Owners(c)) <= 1
                        /\ InService /\ c \in free => Owners(c) = {}

\* Whenever no call is in progress - it returned, or failed, or the volume
\* crashed in its middle - every directory entry names a file that can be
\* opened, all its segments included.
EntriesReadable == call.step = "none" => \A v \in Entered : Readable(entry[v])

\* At no time, in the middle of a call included, does a directory entry name a
\* header that was freed or that another file was given: DeleteFile removes the
\* entry first, CreateFile writes the header first, and a slot's next file has
\* a sequence number of its own.
EntriesNameHeaders == \A v \in Entered : Resolves(entry[v])

\* The two of them hold in spite of failed writes and crashes, but for one: a
\* segment that was linked to and not written.
OnlyTornExtendBreaksFiles ==
    "segment" \notin failed \cup crashed => EntriesNameHeaders /\ EntriesReadable

\* Space stays owned once in spite of failed writes and crashes, but for those
\* and one more: a slot that was freed and, since the write failed, not blanked.
OnlyTornCallsShareSpace ==
    "segment" \notin failed \cup crashed /\ "free" \notin failed => SpaceIsOwnedOnce

\* The File a caller has open for writing has a header on disk, and the same
\* one: Close writes no freed slot, and over no other file.
HandleIsLive ==
    handle # NoHandle => Resolves([num |-> handle.num, seq |-> handle.header.seq])

\* Between calls none of which ended halfway nothing is lost: the slots shown in
\* use hold the files in the directory, each header reached along one path, the
\* clusters shown in use are those of the headers, and the versions are no more
\* than the limit allows.  (A slot shown free that is not blank would end the
\* creation of files: FindFreeSlot takes the lowest slot shown free or none.)
NothingLost ==
    LET FilesSlots(v) == {entry[v].num} \cup Segments(slot[entry[v].num])
    IN  mounted /\ call.step = "none" /\ failed = {} /\ crashed = {} =>
            /\ used = Live
            /\ Live = UNION {FilesSlots(v) : v \in Entered}
            /\ \A v, w \in Entered : v # w => FilesSlots(v) \cap FilesSlots(w) = {}
            /\ free = Clusters \ ClaimedOnDisk
            /\ VersionLimit # 0 => Cardinality(Entered) <= VersionLimit

\* A file ID is never given to a second file: each header written to a blank
\* slot has a higher sequence number than any the slot had.
FidsAreNew ==
    [][\A n \in FileNumbers : /\ slot'[n].seq >= slot[n].seq
                              /\ slot'[n].live /\ ~slot[n].live => slot'[n].seq > slot[n].seq]_vars

\* After the repair of a volume that crashed, or failed to dismount, before it is
\* used again, an analysis of the disk finds nothing left to repair.
RepairHealsCrash ==
    [][RepairDisk /\ suspect => diskFree' = Clusters \ ClaimedOnDisk']_vars
=============================================================================

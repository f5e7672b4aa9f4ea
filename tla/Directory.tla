----------------------------- MODULE Directory -----------------------------
(***************************************************************************)
(* Directories of several blocks (volume/directory.go), and what creates,  *)
(* deletes and renames files in them (writefile.go, createdir.go,          *)
(* delete.go, rename.go).                                                  *)
(*                                                                         *)
(* A directory is one contiguous run of blocks.  Every change packs all of *)
(* its entries anew, writes the blocks one by one, then the header; when   *)
(* they need more blocks than it has, the directory first moves to a run   *)
(* that is long enough.  One action is one such write, and any of them may *)
(* fail; the new run, which is zeroed and then named by the header, counts *)
(* as one, as does all a freed file's storage, whose writes VolumeStorage  *)
(* has.  A cluster is one block, a file has no data, and a directory is    *)
(* opened once: Rename uses one object when both names are in the same.    *)
(* Names differ in more than case.                                         *)
(***************************************************************************)
EXTENDS Extents, SequencesExt

CONSTANTS
    Root,            \* MasterFileDirectoryFid
    Subdirectories,  \* file IDs of directories
    Files,           \* file IDs of files
    Names,           \* names, in the order of sort.Strings
    MaxVersion,      \* maxVersion
    VersionLimit,    \* version limit of every directory and file
    BlockRoom,       \* bytes of a block for records
    NameSize,        \* bytes of a record for its header and name
    EntrySize,       \* bytes of a record for each version
    MaxFailures,     \* bound: writes that fail
    MaxCalls         \* bound: calls

ASSUME SizesFit ==
    /\ {MaxVersion, NameSize, EntrySize, BlockRoom} \subseteq Nat \ {0}
    /\ NameSize + EntrySize <= BlockRoom
    /\ {VersionLimit, MaxFailures, MaxCalls} \subseteq Nat /\ Names \subseteq Nat /\ 0 \in Clusters

\* A file is a directory or not.
ASSUME KindsOfFiles ==
    Root \notin Subdirectories \cup Files /\ Subdirectories \cap Files = {}

VARIABLES
    header,  \* on disk and in memory: the header of each file
    block,   \* on disk: what each cluster holds
    free,    \* the storage bitmap
    call,    \* the call in progress
    failed,  \* history: which writes failed
    calls    \* how many calls there were

vars == <<header, block, free, call, failed, calls>>

Directories == {Root} \cup Subdirectories

Fids == Directories \cup Files

Versions == 1 .. MaxVersion

Place == [dir : Directories, name : Names, version : Versions]

NoPlace == [dir |-> Root, name |-> 0, version |-> 0]

Entry == [name : Names, version : Versions, fid : Fids]

\* A block as DecodeDirectoryBlock finds it.  Zeros do not decode.
DirectoryBlock(entries) == [decodes |-> TRUE, entries |-> entries]

Zeroed == [decodes |-> FALSE, entries |-> <<>>]

NoExtent == [start |-> 0, count |-> 0]

\* A header: its extent and the blocks in use, of a directory, and its back link
\* together with the name in its identification area.  It is live, or it is left
\* on disk by a deletion that failed: its slot and its extent are free.
NoHeader == [live |-> FALSE, left |-> FALSE, extent |-> NoExtent, used |-> 0, link |-> NoPlace]

NewHeader(link) == [NoHeader EXCEPT !.live = TRUE, !.link = link]

Kinds == {"none", "create", "createdir", "delete", "rename"}

Phases == {"none", "insert", "enter", "restore", "name", "purge",
           "free", "giveback", "relocate", "write", "record"}

\* What is left of a call: the entry it takes away and the one it makes, for
\* which file; the file to free; and of the directory being rewritten its new
\* blocks, how many are written, whether it moved, and what comes next.  History:
\* all entries when it began.
NoCall == [kind |-> "none", phase |-> "none", old |-> NoPlace, new |-> NoPlace, fid |-> Root,
           victim |-> Root, dir |-> Root, blocks |-> <<>>, written |-> 0, moved |-> FALSE,
           next |-> "none", before |-> {}]

TypeOK ==
    /\ DOMAIN header = Fids
    /\ \A f \in Fids :
          /\ DOMAIN header[f] = DOMAIN NoHeader /\ {header[f].live, header[f].left} \subseteq BOOLEAN
          /\ ~(header[f].live /\ header[f].left)
          /\ header[f].extent \in Extent \cup {NoExtent}
          /\ header[f].used \in 0 .. header[f].extent.count
          /\ header[f].link \in Place \cup {NoPlace}
    /\ \A c \in Clusters : block[c].decodes \in BOOLEAN /\ block[c].entries \in Seq(Entry)
    /\ free \subseteq Clusters
    /\ DOMAIN call = DOMAIN NoCall
    /\ call.kind \in Kinds /\ {call.phase, call.next} \subseteq Phases
    /\ {call.old, call.new} \subseteq [dir : Directories, name : Names \cup {0}, version : Nat]
    /\ {call.fid, call.victim} \subseteq Fids /\ call.dir \in Directories
    /\ calls \in 0 .. MaxCalls
    /\ call.written \in 0 .. Len(call.blocks) /\ call.moved \in BOOLEAN

-----------------------------------------------------------------------------
(* Reading a directory.                                                    *)

Blocks(d) ==
    LET e == header[d].extent
    IN  [v \in 1 .. Min({header[d].used, e.count}) |-> block[e.start + v - 1]]

\* Reading the header of file f succeeds.
IsThere(f) == header[f].live \/ header[f].left

Readable(d) == IsThere(d) /\ \A v \in DOMAIN Blocks(d) : Blocks(d)[v].decodes

\* List, of a directory that is readable.
List(d) ==
    LET blocks == Blocks(d)
        upTo[v \in 0 .. Len(blocks)] ==
            IF v = 0 THEN <<>> ELSE upTo[v - 1] \o blocks[v].entries
    IN  upTo[Len(blocks)]

VersionsIn(d, n) == {e \in ToSet(List(d)) : e.name = n}

Highest(d, n) == CHOOSE e \in VersionsIn(d, n) : \A x \in VersionsIn(d, n) : x.version <= e.version

NextVersion(d, n) == IF VersionsIn(d, n) = {} THEN 1 ELSE Highest(d, n).version + 1

\* resolveVersionLimit: the header of the highest version must be there.
LimitResolves(d, n) == VersionsIn(d, n) # {} => IsThere(Highest(d, n).fid)

At(e, d) == [dir |-> d, name |-> e.name, version |-> e.version]

AllEntries ==
    UNION {{[dir |-> d, name |-> e.name, version |-> e.version, fid |-> e.fid] : e \in ToSet(List(d))} :
           d \in {x \in Directories : header[x].live}}

\* OpenDirectory.  Callers come by a name to a directory whose deletion failed: they
\* keep the file ID of none.
Opens(d) == header[d].live \/ (header[d].left /\ \E e \in AllEntries : e.fid = d)

-----------------------------------------------------------------------------
(* Packing a directory's entries into blocks.                              *)

\* Mutant of Precedes: the lowest version first.
PrecedesLowestFirst(a, b) == a.name < b.name \/ (a.name = b.name /\ a.version < b.version)

Precedes(a, b) == a.name < b.name \/ (a.name = b.name /\ a.version > b.version)

\* EncodeDirectoryBlock: a record for each name, with all its versions.
Size(entries) ==
    NameSize * Cardinality({e.name : e \in ToSet(entries)}) + EntrySize * Len(entries)

Fitting(entries, i) == {k \in i .. Len(entries) : Size(SubSeq(entries, i, k)) <= BlockRoom}

\* The names in order, with sort.SliceStable's order of versions: entries that are
\* alike stay in the order they have.
PlaceIn(entries, i) ==
    LET before == {j \in DOMAIN entries : \/ Precedes(entries[j], entries[i])
                                          \/ j < i /\ ~Precedes(entries[i], entries[j])}
    IN  Cardinality(before) + 1

Sorted(entries) ==
    [k \in DOMAIN entries |-> entries[CHOOSE i \in DOMAIN entries : PlaceIn(entries, i) = k]]

\* packDirectoryBlocks: each block takes the next entries as long as they fit;
\* no entries take one block.
Pack(entries) ==
    LET sorted == Sorted(entries)
        packed[i \in 1 .. Len(sorted) + 1] ==
            IF i > Len(sorted) THEN <<>>
            ELSE LET last == Max(Fitting(sorted, i))
                 IN  <<SubSeq(sorted, i, last)>> \o packed[last + 1]
    IN  IF entries = <<>> THEN << <<>> >> ELSE packed[1]

-----------------------------------------------------------------------------
(* Rewriting a directory: what Insert and Remove have in common.           *)

\* In call c: write these entries to directory d, then go on with the phase next.
Rewriting(c, d, entries, next) ==
    [c EXCEPT !.phase = "write", !.dir = d, !.blocks = Pack(entries), !.written = 0,
                 !.moved = FALSE, !.next = next]

HasRoom(d, blocks) == Len(blocks) <= header[d].extent.count

\* Insert, of an entry that is not there: the directory moves first if it has to.
Inserting(c, p, next) ==
    LET entry == [name |-> p.name, version |-> p.version, fid |-> c.fid]
        writing == Rewriting(c, p.dir, Append(List(p.dir), entry), next)
    IN  IF HasRoom(p.dir, writing.blocks) THEN writing
        ELSE [writing EXCEPT !.phase = "relocate"]

MayInsert(p) == Readable(p.dir) /\ ~\E e \in VersionsIn(p.dir, p.name) : e.version = p.version

\* Remove, of an entry that is there: the first, should there be two.
Removing(c, p, next) ==
    Rewriting(c, p.dir, RemoveFirstMatch(List(p.dir), LAMBDA e : At(e, p.dir) = p), next)

\* The call ends, or an error ends it: Rename puts the old entry back,
\* CreateDirectory frees the header, and others leave things as they are.
Ended == NoCall

AfterError ==
    IF call.kind = "rename" /\ call.next = "name" THEN [call EXCEPT !.phase = "restore"]
    ELSE IF call.kind = "createdir" THEN [call EXCEPT !.phase = "giveback"]
    ELSE Ended

\* A write fails.
Fails(which) ==
    /\ Cardinality(failed) < MaxFailures /\ which \notin failed
    /\ failed' = failed \cup {which}

\* No name has changed yet, or the error undoes what has: the first block of an
\* insertion or a removal, and everything of a directory that is not entered yet.
NothingDone ==
    \/ call.kind = "createdir" /\ call.next = "insert"
    \/ /\ call.phase = "write" /\ call.written = 0 /\ ~call.moved
       /\ ~(call.kind \in {"create", "rename"} /\ call.next = "free")
       /\ ~(call.kind = "rename" /\ call.next = "none")

WhichWrite ==
    IF NothingDone THEN "early"
    ELSE IF call.phase = "record" THEN "used"
    ELSE IF call.moved THEN "moved"
    ELSE "later"

\* Mutant of NewRun: one block too few.
NewRunShort(k) == FindFree(free, k - 1)

\* Mutant of NewRun: the directory's own run may be part of it.
NewRunOverOld(k) == FindFree(free \cup ClustersOf(header[call.dir].extent), k)

NewRun(k) == FindFree(free, k)

\* relocate: take a run, zero it, point the header at it, free the old one.
Relocate ==
    LET d == call.dir
        run == NewRun(Len(call.blocks))
    IN  /\ call.phase = "relocate"
        /\ RunStarts(free, Len(call.blocks)) # {}
        /\ block' = [c \in Clusters |-> IF c \in ClustersOf(run) THEN Zeroed ELSE block[c]]
        /\ header' = [header EXCEPT ![d].extent = run]
        /\ free' = (free \ ClustersOf(run)) \cup ClustersOf(header[d].extent)
        /\ call' = [call EXCEPT !.phase = "write", !.moved = TRUE]
        /\ UNCHANGED <<failed, calls>>

NoRun ==
    /\ call.phase = "relocate"
    /\ RunStarts(free, Len(call.blocks)) = {}
    /\ call' = AfterError
    /\ UNCHANGED <<header, block, free, failed, calls>>

\* The run stays taken.
RelocateFails ==
    /\ call.phase = "relocate"
    /\ RunStarts(free, Len(call.blocks)) # {}
    /\ Fails("relocate")
    /\ free' = free \ ClustersOf(NewRun(Len(call.blocks)))
    /\ call' = AfterError
    /\ UNCHANGED <<header, block, calls>>

\* The next block; it is an error if the directory has none (resolveExtentLBN).
WriteBlock ==
    LET v == call.written + 1
        e == header[call.dir].extent
    IN  /\ call.phase = "write" /\ v <= Len(call.blocks)
        /\ IF v > e.count
           THEN call' = AfterError /\ UNCHANGED block
           ELSE /\ block' = [block EXCEPT ![e.start + v - 1] = DirectoryBlock(call.blocks[v])]
                /\ call' = [call EXCEPT !.written = v,
                                        !.phase = IF v = Len(call.blocks) THEN "record" ELSE "write"]
        /\ UNCHANGED <<header, free, failed, calls>>

WriteFails ==
    /\ call.phase = "write"
    /\ Fails(WhichWrite)
    /\ call' = AfterError
    /\ UNCHANGED <<header, block, free, calls>>

\* recordUsedBlocks.
RecordUsed ==
    /\ call.phase = "record"
    /\ header' = [header EXCEPT ![call.dir].used = Len(call.blocks)]
    /\ call' = IF call.next = "none" THEN Ended ELSE [call EXCEPT !.phase = call.next]
    /\ UNCHANGED <<block, free, failed, calls>>

RecordFails ==
    /\ call.phase = "record"
    /\ Fails(WhichWrite)
    /\ call' = AfterError
    /\ UNCHANGED <<header, block, free, calls>>

-----------------------------------------------------------------------------
(* Creating.                                                               *)

\* File IDs are not used again, and no call comes upon a file that nothing names,
\* so one that has no space stands for a new one.
Fresh(f) ==
    /\ header[f].extent = NoExtent
    /\ f # Root /\ \A x \in Subdirectories : header[x].link.dir # f
    /\ ~\E e \in AllEntries : e.fid = f

CallFor(kind, old, new, f) ==
    [NoCall EXCEPT !.kind = kind, !.old = old, !.new = new, !.fid = f]

Idle == call = NoCall /\ calls < MaxCalls

Begin(c) ==
    /\ call' = [c EXCEPT !.before = AllEntries]
    /\ calls' = calls + 1
    /\ UNCHANGED failed

\* CreateFileVersion, with CreateHeader; version 0 is the next one.
CreateFile(d, n, version, f) ==
    LET v == IF version = 0 THEN NextVersion(d, n) ELSE version
        p == [dir |-> d, name |-> n, version |-> v]
    IN  /\ Idle /\ Fresh(f)
        /\ Opens(d) /\ MayInsert(p) /\ v <= MaxVersion
        /\ LimitResolves(d, n)
        /\ header' = [header EXCEPT ![f] = NewHeader(p)]
        /\ Begin(Inserting(CallFor("create", NoPlace, p, f), p, "purge"))
        /\ UNCHANGED <<block, free>>

\* initialize: a new directory gets a run of one block, with no entries.
CreateDirectory(d, n, f) ==
    LET p == [dir |-> d, name |-> n, version |-> 1]
        c == Rewriting(CallFor("createdir", NoPlace, p, f), f, <<>>, "insert")
    IN  /\ Idle /\ Fresh(f)
        /\ Opens(d) /\ Readable(d) /\ VersionsIn(d, n) = {}
        /\ header' = [header EXCEPT ![f] = NewHeader(p)]
        /\ Begin([c EXCEPT !.phase = "relocate"])
        /\ UNCHANGED <<block, free>>

\* The directory is complete: enter it.
EnterDirectory ==
    /\ call.phase = "insert"
    /\ call' = Inserting(call, call.new, "none")
    /\ UNCHANGED <<header, block, free, failed, calls>>

\* freeFileStorage: the bits of the extent and of the slot are cleared, then the slot
\* is.  If that write fails the header is left.
Freeing(f) ==
    /\ header' = [header EXCEPT ![f] = NoHeader]
    /\ free' = free \cup ClustersOf(header[f].extent)
    /\ UNCHANGED <<block, failed, calls>>

FreeingFails(f) ==
    /\ Fails("free")
    /\ header' = [header EXCEPT ![f].live = FALSE, ![f].left = TRUE]
    /\ free' = free \cup ClustersOf(header[f].extent)
    /\ UNCHANGED <<block, calls>>

\* DeleteHeader, of a directory that could not be entered; its error is ignored.
GiveBack == call.phase = "giveback" /\ Freeing(call.fid) /\ call' = Ended

GiveBackFails == call.phase = "giveback" /\ FreeingFails(call.fid) /\ call' = Ended

-----------------------------------------------------------------------------
(* Deleting.                                                               *)

\* DeleteFile: is the file's header there, and the file not the root nor a
\* directory with entries?
Deletable(f) ==
    /\ f # Root /\ IsThere(f)
    /\ f \in Subdirectories => Readable(f) /\ List(f) = <<>>

DeleteFile(d, e) ==
    LET p == At(e, d)
    IN  /\ Idle
        /\ Opens(d) /\ Readable(d) /\ e \in ToSet(List(d))
        /\ Deletable(e.fid)
        /\ Begin(Removing([CallFor("delete", p, NoPlace, e.fid) EXCEPT !.victim = e.fid], p, "free"))
        /\ UNCHANGED <<header, block, free>>

\* The deletion ends, or the next is looked for.
FreeStorage ==
    /\ call.phase = "free"
    /\ Freeing(call.victim)
    /\ call' = IF call.kind = "delete" THEN Ended ELSE [call EXCEPT !.phase = "purge"]

FreeFails == call.phase = "free" /\ FreeingFails(call.victim) /\ call' = Ended

\* Mutant of Countable: the renamed file may be deleted too.
CountableAll(p) == VersionsIn(p.dir, p.name)

\* The versions that may go: all, or all but the renamed one.
Countable(p) ==
    IF call.kind = "create" THEN VersionsIn(p.dir, p.name)
    ELSE {e \in VersionsIn(p.dir, p.name) : e.version # p.version}

\* enforceVersionLimit and purgeForRename: the version to delete next.
Excess(p) ==
    LET room == IF call.kind = "create" THEN VersionLimit ELSE VersionLimit - 1
    IN  IF VersionLimit = 0 THEN {}
        ELSE {e \in Countable(p) : /\ Cardinality(Countable(p)) > room
                                   /\ \A x \in Countable(p) : e.version <= x.version}

Purge ==
    /\ call.phase = "purge"
    /\ Readable(call.new.dir)
    /\ \E e \in Excess(call.new) :
          LET p == At(e, call.new.dir)
          IN  /\ Deletable(e.fid)
              /\ call' = Removing([call EXCEPT !.victim = e.fid], p, "free")
    /\ UNCHANGED <<header, block, free, failed, calls>>

\* Nothing to delete, or something that cannot be deleted.
PurgeEnds ==
    /\ call.phase = "purge"
    /\ Readable(call.new.dir) => \A e \in Excess(call.new) : ~Deletable(e.fid)
    /\ call' = Ended
    /\ UNCHANGED <<header, block, free, failed, calls>>

-----------------------------------------------------------------------------
(* Renaming.                                                               *)

\* checkNotAncestor: the directories on the way up, by their back links.
OnTheWayUp(d) ==
    LET up[k \in 0 .. Cardinality(Directories)] ==
            IF k = 0 THEN {d}
            ELSE LET below == up[k - 1]
                 IN  below \cup {header[x].link.dir : x \in below \ {Root}}
    IN  up[Cardinality(Directories)]

\* Mutant of MayMove: only the directory itself is looked at.
MayMoveNotInto(f, d) == f # d

\* A directory does not go below itself, and the way up can be followed.
MayMove(f, d) ==
    f \in Subdirectories => f \notin OnTheWayUp(d) /\ \A x \in OnTheWayUp(d) : IsThere(x)

\* Rename entry e of directory d to name n in directory t; version 0 is the next.
Rename(d, e, t, n, version) ==
    LET p == At(e, d)
        q == [dir |-> t, name |-> n, version |-> version]
    IN  /\ Idle
        /\ Opens(d) /\ Readable(d) /\ Opens(t)
        /\ e \in ToSet(List(d))
        /\ IsThere(e.fid)
        /\ MayMove(e.fid, t)
        /\ version # 0 /\ q # p => MayInsert(q)
        /\ Begin(Removing(CallFor("rename", p, q, e.fid), p, "enter"))
        /\ UNCHANGED <<header, block, free>>

\* enterRenamed: the version is the next one now that the old entry is gone.
Resolved(p) ==
    [p EXCEPT !.version = IF p.version = 0 THEN NextVersion(p.dir, p.name) ELSE p.version]

MayEnter(p) ==
    /\ Readable(p.dir)
    /\ Resolved(p).version <= MaxVersion
    /\ LimitResolves(p.dir, p.name)
    /\ MayInsert(Resolved(p))

Enter ==
    LET p == Resolved(call.new)
    IN  /\ call.phase = "enter"
        /\ MayEnter(call.new)
        /\ call' = Inserting([call EXCEPT !.new = p], p, "name")
        /\ UNCHANGED <<header, block, free, failed, calls>>

EnterFails ==
    /\ call.phase = "enter"
    /\ ~MayEnter(call.new)
    /\ call' = [call EXCEPT !.phase = "restore"]
    /\ UNCHANGED <<header, block, free, failed, calls>>

\* Put the old entry back.
Restore ==
    /\ call.phase = "restore"
    /\ MayInsert(call.old)
    /\ call' = Inserting(call, call.old, "none")
    /\ UNCHANGED <<header, block, free, failed, calls>>

\* ErrRenameLost.
RestoreFails ==
    /\ call.phase = "restore"
    /\ ~MayInsert(call.old)
    /\ call' = Ended
    /\ UNCHANGED <<header, block, free, failed, calls>>

\* isPrimaryEntry.
IsPrimary(f, p) == header[f].link \in {p, NoPlace}

\* Mutant of RenameHeader: the header keeps the old name.
KeepHeader ==
    /\ call.phase = "name"
    /\ call' = [call EXCEPT !.phase = "purge"]
    /\ UNCHANGED <<header, block, free, failed, calls>>

\* renameHeader, if the old entry was the file's primary one.
RenameHeader ==
    /\ call.phase = "name"
    /\ header' = IF IsPrimary(call.fid, call.old) THEN [header EXCEPT ![call.fid].link = call.new]
                 ELSE header
    /\ call' = [call EXCEPT !.phase = "purge"]
    /\ UNCHANGED <<block, free, failed, calls>>

RenameHeaderFails ==
    /\ call.phase = "name"
    /\ IsPrimary(call.fid, call.old)
    /\ Fails("name")
    /\ call' = Ended
    /\ UNCHANGED <<header, block, free, calls>>

-----------------------------------------------------------------------------
(* A new volume, and the specification.                                    *)

Init ==
    /\ header = [f \in Fids |->
                    IF f = Root
                    THEN [live |-> TRUE, left |-> FALSE, extent |-> [start |-> 0, count |-> 1],
                          used |-> 1, link |-> NoPlace]
                    ELSE NoHeader]
    /\ block = [c \in Clusters |-> IF c = 0 THEN DirectoryBlock(<<>>) ELSE Zeroed]
    /\ free = Clusters \ {0}
    /\ call = NoCall /\ failed = {} /\ calls = 0

Next ==
    \/ \E d \in Directories, n \in Names :
          \/ \E v \in Versions \cup {0}, f \in Files : CreateFile(d, n, v, f)
          \/ \E f \in Subdirectories : CreateDirectory(d, n, f)
    \/ \E d \in Directories : \E e \in ToSet(List(d)) : DeleteFile(d, e)
    \/ \E d, t \in Directories, n \in Names, v \in Versions \cup {0} :
          \E e \in ToSet(List(d)) : Rename(d, e, t, n, v)
    \/ EnterDirectory \/ GiveBack \/ GiveBackFails \/ FreeStorage \/ FreeFails \/ Purge \/ PurgeEnds
    \/ Enter \/ EnterFails \/ Restore \/ RestoreFails \/ RenameHeader \/ RenameHeaderFails
    \/ Relocate \/ NoRun \/ RelocateFails
    \/ WriteBlock \/ WriteFails \/ RecordUsed \/ RecordFails

Spec == Init /\ [][Next]_vars

-----------------------------------------------------------------------------
(* Properties.                                                             *)

\* Only writes failed that left the names as they were.
NamesUntouched == failed \subseteq {"early", "relocate"}

\* Every call changes the names of the volume at once or not at all, until a write
\* fails half-way: in between, the blocks of a directory hold some of the old
\* entries and some of the new, and Rename undoes a removal it cannot follow up.
Promise == INSTANCE Naming WITH
    named <- IF call = NoCall THEN AllEntries ELSE call.before,
    kept <- NamesUntouched

KeepsPromise == Promise!Spec

\* No directory whose deletion failed has a name left: no write of another directory
\* failed half-way as well.
DeletedAreUnnamed == "free" \in failed => failed \cap {"used", "later", "moved"} = {}

\* No two directories share a block, none is free, and a move loses none.  A directory
\* whose deletion failed has no blocks any more, though its header still says so:
\* others may have taken them, which harms nobody as long as nothing names it.
SpaceIsOwnedOnce ==
    LET space(f) == IF header[f].left THEN {} ELSE ClustersOf(header[f].extent)
    IN  DeletedAreUnnamed =>
            /\ \A f \in Fids : space(f) \cap free = {} /\ \A g \in Fids \ {f} : space(f) \cap space(g) = {}
            /\ "relocate" \notin failed => free \cup UNION {space(f) : f \in Fids} = Clusters

\* A directory lists its names in order and the versions of each together, the
\* highest first and none twice, over all its blocks, unless a write failed
\* half-way; so the entries that are left when one goes fit into the blocks it has.
ListsAreOrdered ==
    /\ call = NoCall /\ NamesUntouched =>
          \A d \in Directories : \A i, j \in DOMAIN List(d) :
              LET a == List(d)[i]
                  b == List(d)[j]
              IN  i < j => a.name < b.name \/ (a.name = b.name /\ a.version > b.version)
    /\ call.phase = "write" /\ NamesUntouched => Len(call.blocks) <= header[call.dir].extent.count

\* The file an entry names is there, its space its own, and none whose deletion
\* failed, unless a write of a directory failed half-way (CreateDirectory then frees
\* the header of a directory whose entry may be written); and its header says where
\* its entry is, unless Rename's write of that header failed too.
FilesKnowTheirNames ==
    call = NoCall /\ failed \cap {"used", "later", "moved"} = {} =>
        \A e \in AllEntries : /\ header[e.fid].live
                              /\ NamesUntouched => header[e.fid].link = At(e, e.dir)

\* A live directory can be read, but for one that has moved and is being written,
\* unless the first writes after it moved failed.
DirectoriesAreReadable ==
    DeletedAreUnnamed /\ "moved" \notin failed =>
        \A d \in Directories : header[d].live /\ ~(call.phase = "write" /\ call.moved /\ d = call.dir) => Readable(d)

\* No directory is below itself: the volume's directories are one tree.
NoDirectoryBelowItself ==
    call = NoCall =>
        \A e \in AllEntries : e.fid \notin Promise!Above(AllEntries, e.dir)

\* That is so unless a write failed that left a directory's entry and its back
\* link apart.
OnlyHalfRenamesMakeLoops ==
    failed \cap {"name", "used", "later", "moved"} = {} => NoDirectoryBelowItself

=============================================================================

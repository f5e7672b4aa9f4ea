----------------------------- MODULE FileAccess -----------------------------
(***************************************************************************)
(* How several users share one open file: volume/access.go, with the parts *)
(* of writefile.go, writeheader.go and delete.go that read or change the   *)
(* shared File and the header slot it was read from.                       *)
(*                                                                         *)
(* The code runs one call at a time, so each exported call is one action;  *)
(* the interleaving is that of the calls of different accessors.  A call   *)
(* that refuses (an error return that changed nothing) is an action that   *)
(* is not enabled.                                                         *)
(*                                                                         *)
(* A header is reduced to what these calls read or change: whether the     *)
(* slot holds one, its sequence number, its end of file (a byte position,  *)
(* BlockBytes to a block: the EndOfFileBlock/FirstFreeByte pair), its      *)
(* high-water mark and its allocated blocks.                               *)
(***************************************************************************)
EXTENDS Integers, FiniteSets

CONSTANTS
    Accessors,    \* Access objects callers may hold
    Files,        \* the header slots (file numbers) in play, 1..n
    Modes,        \* the access modes asked for
    MaxBlocks,    \* bound: allocated blocks of a file
    BlockBytes,   \* bytes of a block
    MaxSeq        \* bound: sequence number of a slot

Flags == {"Write", "NoRead", "NoWrite"}

ASSUME AccessorsFinite == IsFiniteSet(Accessors)
ASSUME FilesAreNumbers == IsFiniteSet(Files) /\ Files \subseteq Nat
ASSUME ModesAreFlagSets == Modes \subseteq SUBSET Flags
ASSUME BoundsArePositive ==
    /\ MaxBlocks \in Nat \ {0}
    /\ BlockBytes \in Nat \ {0}
    /\ MaxSeq \in Nat \ {0}

VARIABLES
    header,    \* per file number: the header slot on disk
    accessed,  \* the file numbers in the device's table of accessed files
    file,      \* per file number: the shared File, meaningful while accessed
    access     \* per accessor: the Access it was given last

vars == <<header, accessed, file, access>>

Positions == 0 .. BlockBytes * MaxBlocks

Attr == [eof: Positions, hwm: 0 .. MaxBlocks + 1, blocks: 0 .. MaxBlocks]

\* One counter per flag and one for everybody, as `sharing` keeps them.
Counters == Flags \cup {"accessors"}

File == [seq: 0 .. MaxSeq, attr: Attr, armed: BOOLEAN, maxWritten: 0 .. MaxBlocks,
         count: [Counters -> Int], deletePending: BOOLEAN,
         attributesChanged: BOOLEAN]

NewAttr == [eof |-> 0, hwm |-> 0, blocks |-> 0]

Unshared == [c \in Counters |-> 0]

\* A File just read from a header, as OpenFID returns it.
Opened(h) ==
    [seq |-> h.seq, attr |-> h.attr, armed |-> FALSE, maxWritten |-> 0,
     count |-> Unshared, deletePending |-> FALSE, attributesChanged |-> FALSE]

NoFile == Opened([seq |-> 0, attr |-> NewAttr])

\* An Access that is over (its done field set); what it points to is moot.
Done == [done |-> TRUE, number |-> 0, seq |-> 0, mode |-> {}]

BlocksFor(pos) == (pos + BlockBytes - 1) \div BlockBytes

UsedBlocks(attr) == BlocksFor(attr.eof)

AtLeast(x, y) == IF x < y THEN y ELSE x

TypeOK ==
    /\ header \in [Files -> [live: BOOLEAN, seq: 0 .. MaxSeq, attr: Attr]]
    /\ accessed \in SUBSET Files
    /\ file \in [Files -> File]
    /\ access \in [Accessors -> [done: BOOLEAN, number: Files \cup {0},
                                 seq: 0 .. MaxSeq, mode: SUBSET Flags]]

Init ==
    /\ header = [n \in Files |-> [live |-> FALSE, seq |-> 0, attr |-> NewAttr]]
    /\ accessed = {}
    /\ file = [n \in Files |-> NoFile]
    /\ access = [a \in Accessors |-> Done]

-----------------------------------------------------------------------------
(* The sharing counts.                                                     *)

\* Mutant of Conflicts: a newcomer that denies writing is let in with writers.
ConflictsIgnoringWriters(count, m) ==
    \/ count["NoRead"] > 0
    \/ "Write" \in m /\ count["NoWrite"] > 0
    \/ "NoRead" \in m /\ count["accessors"] > 0

Conflicts(count, m) ==
    \/ count["NoRead"] > 0
    \/ "Write" \in m /\ count["NoWrite"] > 0
    \/ "NoRead" \in m /\ count["accessors"] > 0
    \/ "NoWrite" \in m /\ count["Write"] > 0

\* Mutant of Add: leaving does not uncount a denial of writing.
AddKeepingNoWrite(count, m, delta) ==
    [c \in Counters |-> IF c \in m \cup {"accessors"} /\ (delta = 1 \/ c # "NoWrite")
                        THEN count[c] + delta ELSE count[c]]

\* Count (delta 1) or uncount (delta -1) an accessor using mode m.
Add(count, m, delta) ==
    [c \in Counters |-> IF c \in m \cup {"accessors"} THEN count[c] + delta ELSE count[c]]

\* File f with an accessor using mode m counted in or out.
Recounted(f, m, delta) == [f EXCEPT !.count = Add(@, m, delta)]

-----------------------------------------------------------------------------
(* Which File a file ID names.                                             *)

AccessedFile(n, s) == n \in accessed /\ file[n].seq = s

HeaderIs(n, s) == header[n].live /\ header[n].seq = s

CanOpenFID(n, s) == AccessedFile(n, s) \/ HeaderIs(n, s)

OpenFID(n, s) == IF AccessedFile(n, s) THEN file[n] ELSE Opened(header[n])

\* OpenForWrite: what was written so far is what the end of file covers.
OpenForWrite(f) == [f EXCEPT !.armed = TRUE, !.maxWritten = UsedBlocks(f.attr)]

\* File f as its next accessor, using mode m, finds it.
Joined(f, m) ==
    Recounted(IF "Write" \in m /\ ~f.armed THEN OpenForWrite(f) ELSE f, m, 1)

\* Device.access: enter f, the File of file number n, in the table.
EnterAccess(a, n, f, m) ==
    /\ access[a].done
    /\ ~f.deletePending
    /\ ~Conflicts(f.count, m)
    /\ accessed' = accessed \cup {n}
    /\ file' = [file EXCEPT ![n] = Joined(f, m)]
    /\ access' = [access EXCEPT ![a] = [done |-> FALSE, number |-> n, seq |-> f.seq, mode |-> m]]

\* Volume.Access, by a file ID that may be stale.
Access(a, n, s, m) ==
    /\ CanOpenFID(n, s)
    /\ EnterAccess(a, n, OpenFID(n, s), m)
    /\ UNCHANGED header

-----------------------------------------------------------------------------
(* Headers.                                                                *)

\* writeHeader: the header in memory replaces the one on disk.
WriteHeader(n, f) ==
    header' = [header EXCEPT ![n] = [live |-> TRUE, seq |-> f.seq, attr |-> f.attr]]

\* The slot FindFreeSlot takes: the lowest that holds no header.
FreeSlot(n) == ~header[n].live /\ \A k \in Files : k < n => header[k].live

\* The header CreateHeader writes: one sequence number after the last one
\* the slot held (nextFileFid).
Created(n) == [live |-> TRUE, seq |-> header[n].seq + 1, attr |-> NewAttr]

\* CreateHeader on its own: a file nobody accesses yet.
CreateHeader(n) ==
    /\ FreeSlot(n) /\ header[n].seq < MaxSeq
    /\ header' = [header EXCEPT ![n] = Created(n)]
    /\ UNCHANGED <<accessed, file, access>>

\* CreateFile and AccessFile of the File it returned: its creator, with the
\* File armed, is its first accessor.
CreateAccessed(a, n, m) ==
    /\ FreeSlot(n) /\ header[n].seq < MaxSeq
    /\ header' = [header EXCEPT ![n] = Created(n)]
    /\ EnterAccess(a, n, OpenForWrite(Opened(Created(n))), m)

\* freeFileStorage: the slot is blanked but for its sequence number.
FreeStorage(n) == header' = [header EXCEPT ![n].live = FALSE, ![n].attr = NewAttr]

-----------------------------------------------------------------------------
(* Deaccess, Delete, Dismount.                                             *)

\* Mutant of NeedsWriting: an end of file set by an accessor that never
\* armed the File is forgotten.
NeedsWritingIfArmed(f) == f.armed

\* Has f's header changed in memory, so that whoever lets go of f writes it?
NeedsWriting(f) == f.armed \/ f.attributesChanged

\* A second Deaccess does nothing.
DeaccessAgain(a) ==
    /\ access[a].done
    /\ UNCHANGED vars

\* Others still have the file.
StillShared(n, left) ==
    /\ left.count["accessors"] > 0
    /\ file' = [file EXCEPT ![n] = left]
    /\ UNCHANGED <<header, accessed>>

\* The last one goes: the file leaves the table, and is freed if it was marked
\* for delete, or its header written if it changed.
LastGone(n, left) ==
    /\ left.count["accessors"] <= 0
    /\ accessed' = accessed \ {n}
    /\ file' = [file EXCEPT ![n] = NoFile]
    /\ IF left.deletePending THEN FreeStorage(n)
       ELSE IF NeedsWriting(left) THEN WriteHeader(n, left)
       ELSE UNCHANGED header

Deaccess(a) ==
    LET n == access[a].number
        left == Recounted(file[n], access[a].mode, -1)
    IN  /\ ~access[a].done
        /\ access' = [access EXCEPT ![a].done = TRUE]
        /\ StillShared(n, left) \/ LastGone(n, left)

\* Mutant of DeleteHeader: the storage goes at once, accessed or not.
DeleteHeaderAtOnce(n, s) ==
    /\ HeaderIs(n, s)
    /\ FreeStorage(n)
    /\ UNCHANGED <<accessed, file, access>>

\* DeleteHeader, and what DeleteFile does once the entry is removed: an
\* accessed file is only marked.
DeleteHeader(n, s) ==
    /\ HeaderIs(n, s)
    /\ IF AccessedFile(n, s)
       THEN file' = [file EXCEPT ![n].deletePending = TRUE] /\ UNCHANGED header
       ELSE FreeStorage(n) /\ UNCHANGED file
    /\ UNCHANGED <<accessed, access>>

\* The headers of accessed files that changed in memory are written, and
\* the volume, mounted again, knows no accessed file.
Dismount ==
    /\ header' = [n \in Files |->
           IF n \in accessed /\ NeedsWriting(file[n])
           THEN [live |-> TRUE, seq |-> file[n].seq, attr |-> file[n].attr]
           ELSE header[n]]
    /\ accessed' = {}
    /\ file' = [n \in Files |-> NoFile]
    /\ access' = [a \in Accessors |-> Done]

-----------------------------------------------------------------------------
(* What an accessor does to the File it shares.                            *)

\* Mutant of MarkPast: the last block written is left above the mark.
MarkAt(last) == last

\* The high-water mark is the first block never written.
MarkPast(last) == last + 1

Holds(a, n) == ~access[a].done /\ access[a].number = n

\* Mutant of EndedAt: the header in memory is not noted as changed.
EndedAtSilently(f, pos) ==
    [f EXCEPT !.attr.eof = pos, !.attr.hwm = AtLeast(@, MarkPast(BlocksFor(pos)))]

\* File f with its end of file moved: the mark moves past the last block
\* holding data, never back.
EndedAt(f, pos) ==
    [f EXCEPT !.attr.eof = pos, !.attr.hwm = AtLeast(@, MarkPast(BlocksFor(pos))),
              !.attributesChanged = TRUE]

SetEndOfFile(a, n, pos) ==
    /\ Holds(a, n) /\ BlocksFor(pos) <= file[n].attr.blocks
    /\ file' = [file EXCEPT ![n] = EndedAt(@, pos)]
    /\ UNCHANGED <<header, accessed, access>>

\* File f with the change of its attributes on disk.
Saved(f) == [f EXCEPT !.attributesChanged = FALSE]

WriteAttributes(a, n) ==
    /\ Holds(a, n)
    /\ WriteHeader(n, file[n])
    /\ file' = [file EXCEPT ![n] = Saved(@)]
    /\ UNCHANGED <<accessed, access>>

\* File f with blocks allocated up to vbn, and with block vbn written.
Extended(f, vbn) == [f EXCEPT !.attr.blocks = AtLeast(@, vbn)]

Written(f, vbn) ==
    [f EXCEPT !.maxWritten = AtLeast(@, vbn), !.attr.hwm = AtLeast(@, MarkPast(vbn))]

\* A block past the allocation extends the file first, and Extend writes
\* the header as it then is in memory.
WriteBlock(a, n, vbn) ==
    LET extended == Extended(file[n], vbn)
    IN  /\ Holds(a, n) /\ "Write" \in access[a].mode /\ file[n].armed
        /\ IF vbn > file[n].attr.blocks THEN WriteHeader(n, extended) ELSE UNCHANGED header
        /\ file' = [file EXCEPT ![n] = Written(extended, vbn)]
        /\ UNCHANGED <<accessed, access>>

\* Mutant of ClosedEnd: the final byte is counted from the end of the block.
ClosedEndBeyond(last, finalByte) == IF last = 0 THEN 0 ELSE last * BlockBytes + finalByte

\* Where the data ends if finalByte bytes of block `last` are real, or all of
\* it when finalByte is 0.
ClosedEnd(last, finalByte) ==
    IF last = 0 THEN 0
    ELSE IF finalByte # 0 THEN (last - 1) * BlockBytes + finalByte
    ELSE last * BlockBytes

\* File f closed: its end of file is the last block written, and it is
\* disarmed unless someone is writing it.
Closed(f, finalByte) ==
    LET last == f.maxWritten
    IN  [f EXCEPT !.attr.eof = ClosedEnd(last, finalByte),
                  !.attr.hwm = IF last = 0 THEN @ ELSE AtLeast(@, MarkPast(last)),
                  !.armed = f.count["Write"] # 0]

\* CloseWithFinalByte on the shared File, through any path (an OpenFID of an
\* accessed file returns it too).
CloseWithFinalByte(n, finalByte) ==
    /\ n \in accessed /\ file[n].armed
    /\ WriteHeader(n, Closed(file[n], finalByte))
    /\ file' = [file EXCEPT ![n] = Closed(@, finalByte)]
    /\ UNCHANGED <<accessed, access>>

Next ==
    \/ \E n \in Files : CreateHeader(n)
    \/ \E n \in Files, s \in 1 .. MaxSeq : DeleteHeader(n, s)
    \/ \E a \in Accessors, n \in Files, m \in Modes :
          \/ CreateAccessed(a, n, m)
          \/ \E s \in 1 .. MaxSeq : Access(a, n, s, m)
    \/ \E a \in Accessors : Deaccess(a) \/ DeaccessAgain(a)
    \/ \E a \in Accessors, n \in Files :
          \/ WriteAttributes(a, n)
          \/ \E pos \in Positions : SetEndOfFile(a, n, pos)
          \/ \E vbn \in 1 .. MaxBlocks : WriteBlock(a, n, vbn)
    \/ \E n \in Files, finalByte \in 0 .. BlockBytes - 1 : CloseWithFinalByte(n, finalByte)
    \/ Dismount

Spec == Init /\ [][Next]_vars

-----------------------------------------------------------------------------
(* Properties.                                                             *)

Holders(n) == {a \in Accessors : Holds(a, n)}

\* The accessors of a file that count toward counter c.
Counted(n, c) == {a \in Holders(n) : c \in access[a].mode \cup {"accessors"}}

\* The counters `conflicts` decides by say exactly who has the file open, and
\* the table holds exactly the files somebody has open, whatever order accesses,
\* second deaccesses, deletions and closes came in.
CountsAreExact ==
    /\ \A n \in accessed, c \in Counters : file[n].count[c] = Cardinality(Counted(n, c))
    /\ \A n \in Files : n \in accessed <=> Holders(n) # {}

\* No accessor is ever in a file with another that it shuts out: nobody else
\* has a file someone denies reading, nobody else writes one someone denies
\* writing (access.go, AccessMode).
SharingHonoured ==
    \A a, b \in Accessors :
        /\ a # b /\ ~access[a].done /\ ~access[b].done
        /\ access[a].number = access[b].number
        => /\ "NoRead" \notin access[a].mode
           /\ "NoWrite" \in access[a].mode => "Write" \notin access[b].mode

\* Nobody reads or writes storage that has been given back: while an access is
\* open, the slot it was granted on holds the header of that same file, never a
\* blank or a newer file's, though the file may have been deleted meanwhile.
StorageHeldWhileAccessed ==
    \A a \in Accessors :
        ~access[a].done => /\ HeaderIs(access[a].number, access[a].seq)
                           /\ file[access[a].number].seq = access[a].seq

\* A header that differs in memory from the one on disk belongs to a File that
\* the last Deaccess, or Dismount, knows it has to write.
ChangesWillBeWritten ==
    \A n \in accessed :
        file[n].attr # header[n].attr => file[n].armed \/ file[n].attributesChanged

\* The mark is past every block in use, and within one block of the allocation.
WithinHighWater(attr) ==
    /\ UsedBlocks(attr) > 0 => UsedBlocks(attr) < attr.hwm
    /\ attr.hwm <= attr.blocks + 1

\* Data before the end of file is never taken for unwritten space: the
\* high-water mark, in memory and on disk, is past every block in use, and
\* within one block of the allocation.
EndWithinHighWater ==
    \A n \in Files : /\ header[n].live => WithinHighWater(header[n].attr)
                     /\ n \in accessed => WithinHighWater(file[n].attr)

-----------------------------------------------------------------------------
(* Refinement: the attributes everyone sees are the shared File's while    *)
(* there is one, and the header's otherwise.                               *)

statusBar == [n \in Files |->
    IF ~header[n].live THEN "free"
    ELSE IF n \in accessed /\ file[n].deletePending THEN "doomed" ELSE "kept"]

attrBar == [n \in Files |-> IF n \in accessed THEN file[n].attr ELSE header[n].attr]

seqBar == [n \in Files |-> header[n].seq]

heldBar == {[who |-> a, number |-> access[a].number, mode |-> access[a].mode] :
               a \in {b \in Accessors : ~access[b].done}}

Promise == INSTANCE SharedFile WITH
    Numbers <- Files, Attributes <- Attr, NewFile <- NewAttr,
    status <- statusBar, seq <- seqBar,
    attr <- attrBar, held <- heldBar

\* The shared File and the header slots keep the promise of SharedFile: no
\* attribute change is lost when accessors leave in any order, and a deleted
\* file is freed exactly by the last one.
KeepsPromise == Promise!Spec
=============================================================================

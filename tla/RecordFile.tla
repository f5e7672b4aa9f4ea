----------------------------- MODULE RecordFile -----------------------------
(***************************************************************************)
(* Records in a shared sequential file: rms/writer.go, rms/reader.go and   *)
(* rms/blockstream.go over the blocks, the end of file and the high-water  *)
(* mark of one volume.File, for variable-length records.                   *)
(*                                                                         *)
(* A Writer puts the records of one caller; several shared Writers append  *)
(* to the file together, or one Writer has it to itself.  Readers read it  *)
(* meanwhile.  Each call is an action; a Put or Flush may end at any of    *)
(* the block writes it makes, when that write fails.                       *)
(*                                                                         *)
(* Space is counted in words of two bytes: a record is a length word and   *)
(* its data, padded to whole words.  A word is known by the record it      *)
(* belongs to and its place there.                                         *)
(***************************************************************************)
EXTENDS Integers, Sequences

CONSTANTS
    Writers,      \* Writer objects
    Readers,      \* Reader objects
    BlockWords,   \* words of a block
    RecordSizes,  \* lengths of the records put, in words
    Sharing,      \* may a caller open shared Writers?
    Replacing,    \* may a caller open a Writer on the file's first byte?
    TriesAgain,   \* does a caller go on using a shared Writer whose Put failed?
    MaxBlocks,    \* bound: blocks of the file
    MaxRecords,   \* bound: records put
    MaxFailures   \* bound: writes that fail

ASSUME RecordSizesAreNumbers == RecordSizes \subseteq Nat
ASSUME BoundsAreNumbers == {BlockWords, MaxBlocks} \subseteq Nat \ {0}
                           /\ {MaxRecords, MaxFailures} \subseteq Nat
ASSUME ChoicesAreBoolean == {Sharing, Replacing, TriesAgain} \subseteq BOOLEAN

VARIABLES
    noSpan,      \* the file's attribute: do records not cross blocks?
    data,        \* on disk: the words of each block
    eof,         \* the shared File: words before its end of file
    hwm,         \* the shared File: the first block never written
    maxWritten,  \* the shared File: the highest block written
    writer,      \* the Writers
    reader,      \* the Readers
    log,         \* observer: the records put, those that can be read by now
    pending,     \* observer: the records put that cannot
    due,         \* observer: for each Reader, which record of log is next
    failures     \* how many writes failed

fileVars == <<data, eof, hwm, maxWritten>>
vars == <<noSpan, fileVars, writer, reader, log, pending, due, failures>>

Max(x, y) == IF x < y THEN y ELSE x
Min(x, y) == IF x < y THEN x ELSE y

Blocks == 1 .. MaxBlocks

Capacity == MaxBlocks * BlockWords

\* Word number `part` of record `rec`: part 0 is the length word.
Word == [rec: 0 .. MaxRecords, part: Nat, size: Nat]

Zero == [rec |-> 0, part |-> 0, size |-> 0]

\* endOfRecords, the length word after a block's last record; and what a block
\* never written holds of a file that had it before.
EndOfRecords == [rec |-> 0, part |-> 1, size |-> 0]
Leftover == [rec |-> 0, part |-> 2, size |-> 0]

\* The record e.rec of e.size words, framed: putVariable.
Frame(e) == [i \in 1 .. e.size + 1 |-> [rec |-> e.rec, part |-> i - 1, size |-> e.size]]

Closed == [state |-> "closed", shared |-> FALSE, failed |-> FALSE, vbn |-> 1, buf |-> <<>>]

BlockOf(p) == p \div BlockWords + 1

Start(vbn) == (vbn - 1) * BlockWords

UsedBlocks == (eof + BlockWords - 1) \div BlockWords

\* Reader.Offset, Writer.offset: both as word numbers, from 0.
ReadOffset(r) == r.fetched - Len(r.buf)
Offset(w) == Start(w.vbn) + Len(w.buf)

\* The word at place p as File.ReadBlock returns it.
WordAt(p) == IF BlockOf(p) >= hwm THEN Zero ELSE data[BlockOf(p)][(p % BlockWords) + 1]

Records == [rec: 1 .. MaxRecords, size: RecordSizes]

Placed == [rec: 1 .. MaxRecords, size: RecordSizes, at: 0 .. Capacity]

TypeOK ==
    /\ noSpan \in BOOLEAN
    /\ data \in [Blocks -> [1 .. BlockWords -> Word]]
    /\ eof \in 0 .. Capacity /\ hwm \in 0 .. MaxBlocks + 1 /\ maxWritten \in 0 .. MaxBlocks
    /\ \A w \in Writers :
          /\ DOMAIN writer[w] = DOMAIN Closed
          /\ writer[w].state \in {"closed", "open"}
          /\ {writer[w].shared, writer[w].failed} \subseteq BOOLEAN
          /\ writer[w].vbn \in 1 .. MaxBlocks + 1
          /\ \A i \in DOMAIN writer[w].buf : writer[w].buf[i] \in Word
          /\ ~writer[w].failed => Len(writer[w].buf) < BlockWords
    /\ \A r \in Readers :
          /\ reader[r].fetched \in 0 .. Capacity
          /\ Len(reader[r].buf) <= Min(reader[r].fetched, BlockWords)
    /\ \A i \in DOMAIN log : log[i] \in Placed
    /\ \A i \in DOMAIN pending : pending[i] \in Placed
    /\ \A r \in Readers : due[r] \in 1 .. Len(log) + 1
    /\ failures \in 0 .. MaxFailures

Init ==
    /\ noSpan \in BOOLEAN
    /\ data = [b \in Blocks |-> [i \in 1 .. BlockWords |-> Leftover]]
    /\ eof = 0 /\ hwm = 0 /\ maxWritten = 0
    /\ writer = [w \in Writers |-> Closed]
    /\ reader = [r \in Readers |-> [fetched |-> 0, buf |-> <<>>]]
    /\ log = <<>> /\ pending = <<>>
    /\ due = [r \in Readers |-> 1]
    /\ failures = 0

-----------------------------------------------------------------------------
(* Blocks.                                                                 *)

\* finalBlock: the last, partly filled block.
FinalBlock(buf) ==
    [i \in 1 .. BlockWords |->
        IF i <= Len(buf) THEN buf[i] ELSE IF i = Len(buf) + 1 THEN EndOfRecords ELSE Zero]

\* File.WriteBlock of blocks `writes`, a function of their numbers; when that of
\* block `stop` fails, only those below it are written.
WriteBlocks(writes, stop) ==
    LET done == {b \in DOMAIN writes : b < stop}
        top == IF done = {} THEN 0 ELSE CHOOSE b \in done : \A c \in done : c <= b
    IN  /\ data' = [b \in Blocks |-> IF b \in done THEN writes[b] ELSE data[b]]
        /\ maxWritten' = Max(maxWritten, top)
        /\ hwm' = IF done = {} THEN hwm ELSE Max(hwm, top + 1)

Never == MaxBlocks + 1

MayFail == failures < MaxFailures

-----------------------------------------------------------------------------
(* Opening.                                                                *)

Open == {w \in Writers : writer[w].state = "open"}

Alone == \E w \in Open : ~writer[w].shared

\* The words before offset p in its block: seek reads them back.
ReadBack(p) == [i \in 1 .. p % BlockWords |-> WordAt(Start(BlockOf(p)) + i - 1)]

At(w, p) == [w EXCEPT !.vbn = BlockOf(p), !.buf = ReadBack(p)]

Opened == [Closed EXCEPT !.state = "open"]

\* SetShared of a NewAppender, on a file accessed for writing.
OpenShared(w) ==
    /\ Sharing /\ writer[w].state = "closed" /\ ~Alone
    /\ writer' = [writer EXCEPT ![w] = At([Opened EXCEPT !.shared = TRUE], eof)]
    /\ UNCHANGED <<fileVars, reader, log, pending, due, failures>>

\* File.OpenForWrite, and NewAppender.
OpenAppender(w) ==
    /\ Open = {}
    /\ writer' = [writer EXCEPT ![w] = At(Opened, eof)]
    /\ maxWritten' = UsedBlocks
    /\ UNCHANGED <<data, eof, hwm, reader, log, pending, due, failures>>

\* File.OpenForWrite, and NewWriter: from the first byte, of a new file or of
\* one whose content is replaced.
OpenWriter(w) ==
    /\ Open = {} /\ (eof = 0 \/ Replacing)
    /\ writer' = [writer EXCEPT ![w] = Opened]
    /\ maxWritten' = UsedBlocks
    /\ log' = <<>> /\ due' = [r \in Readers |-> 1]
    /\ UNCHANGED <<data, eof, hwm, reader, pending, failures>>

-----------------------------------------------------------------------------
(* Put.                                                                    *)

\* Mutant of Positioned: a shared Writer goes on where it was.
PositionedAsBefore(w) == w

\* Where Put starts: for a shared Writer, the file's end as it is now.
Positioned(w) == IF w.shared THEN At(w, eof) ELSE w

\* startRecord: does a record of `size` words start a new block?
StartsBlock(w, size) == noSpan /\ w.buf # <<>> /\ Len(w.buf) + size + 1 > BlockWords

\* What a Put of record e by a Writer positioned as w does: the first block
\* of the record and the words from there on, the blocks they fill, the rest.
Plan(w, e) ==
    LET jumps == StartsBlock(w, e.size)
        kept == IF jumps THEN <<>> ELSE w.buf
        text == kept \o Frame(e)
        full == Len(text) \div BlockWords
    IN  [base |-> IF jumps THEN w.vbn + 1 ELSE w.vbn,
         kept |-> kept, text |-> text, full |-> full,
         rest |-> SubSeq(text, full * BlockWords + 1, Len(text))]

\* The blocks a Put writes: what is left of the block before, those filled, and
\* a shared Writer's last one.
PutWrites(w, e) ==
    LET p == Plan(w, e)
        last == p.base + p.full - (IF w.shared /\ p.rest # <<>> THEN 0 ELSE 1)
    IN  [b \in w.vbn .. last |->
           IF b < p.base THEN FinalBlock(w.buf)
           ELSE IF b < p.base + p.full
                THEN SubSeq(p.text, (b - p.base) * BlockWords + 1, (b - p.base + 1) * BlockWords)
                ELSE FinalBlock(p.rest)]

\* The Writer after a Put.
AfterPut(w, e) ==
    LET p == Plan(w, e) IN [w EXCEPT !.vbn = p.base + p.full, !.buf = p.rest]

\* The Writer after a Put whose write of block b failed: what was appended and
\* not written stays buffered.  The length word is appended first.
AfterFailedPut(w, e, b) ==
    LET p == Plan(w, e)
        lengthWord == Len(p.kept) + 1
        appended == IF (b - p.base + 1) * BlockWords <= lengthWord
                    THEN SubSeq(p.text, 1, lengthWord) ELSE p.text
    IN  [w EXCEPT !.failed = TRUE,
                  !.vbn = IF b < p.base THEN @ ELSE b,
                  !.buf = IF b < p.base THEN @
                          ELSE SubSeq(appended, (b - p.base) * BlockWords + 1, Len(appended))]

Recorded == Len(log) + Len(pending)

\* Can a record of `size` words be put in this file at all?
Fits(size) == noSpan => size < BlockWords

\* A Writer whose Put failed is let go of, unless it is shared and the caller
\* tries again.
InUse(w) ==
    /\ writer[w].state = "open"
    /\ writer[w].failed => writer[w].shared /\ TriesAgain

\* May the caller put a record of `size` words now?
CanPut(w, size) ==
    /\ InUse(w)
    /\ Recorded + failures < MaxRecords
    /\ Fits(size)

NewRecord(size) == [rec |-> Recorded + failures + 1, size |-> size]

PlacedAt(w, e) ==
    [rec |-> e.rec, size |-> e.size,
     at |-> IF StartsBlock(w, e.size) THEN Start(w.vbn + 1) ELSE Offset(w)]

\* The file's end after a Put, which a shared Writer moves at once. SetEndOfFile
\* moves the high-water mark past it too, which the block writes have done.
EndAfter(w, after) == IF w.shared THEN Offset(after) ELSE eof

Put(w, size) ==
    LET start == Positioned(writer[w])
        e == NewRecord(size)
        after == AfterPut(start, e)
    IN  /\ CanPut(w, size)
        /\ Offset(after) <= Capacity
        /\ WriteBlocks(PutWrites(start, e), Never)
        /\ writer' = [writer EXCEPT ![w] = [after EXCEPT !.failed = FALSE]]
        /\ eof' = EndAfter(start, after)
        /\ IF start.shared
           THEN log' = Append(log, PlacedAt(start, e)) /\ UNCHANGED pending
           ELSE pending' = Append(pending, PlacedAt(start, e)) /\ UNCHANGED log
        /\ UNCHANGED <<reader, due, failures>>

PutFails(w, size) ==
    LET start == Positioned(writer[w])
        e == NewRecord(size)
    IN  /\ CanPut(w, size) /\ MayFail
        /\ Offset(AfterPut(start, e)) <= Capacity
        /\ \E b \in DOMAIN PutWrites(start, e) :
              /\ WriteBlocks(PutWrites(start, e), b)
              /\ writer' = [writer EXCEPT ![w] = AfterFailedPut(start, e, b)]
        /\ failures' = failures + 1
        /\ UNCHANGED <<eof, reader, log, pending, due>>

\* A record longer than a block that must not cross blocks is refused, when a
\* shared Writer has already gone to the file's end.
PutRefused(w, size) ==
    /\ InUse(w) /\ ~Fits(size)
    /\ writer' = [writer EXCEPT ![w] = Positioned(@)]
    /\ UNCHANGED <<fileVars, reader, log, pending, due, failures>>

-----------------------------------------------------------------------------
(* Flush and Close.                                                        *)

\* What a Flush writes: nothing, or the block begun.
LastBlock(w) == [b \in {v \in {w.vbn} : w.buf # <<>>} |-> FinalBlock(w.buf)]

\* Mutant of UpToDate: a shared Writer's buffered block is written regardless.
UpToDateAlways(w) == TRUE

\* Flush does nothing for a shared Writer that is not at the file's end.
UpToDate(w) == w.shared => eof = Offset(w)

\* The Writer's records are in the file now.
Published ==
    /\ log' = log \o pending
    /\ pending' = <<>>

FlushWriter(w) ==
    IF UpToDate(w) THEN WriteBlocks(LastBlock(w), Never) /\ eof' = Offset(w) /\ Published
    ELSE UNCHANGED <<fileVars, log, pending>>

Flush(w) ==
    /\ InUse(w)
    /\ FlushWriter(writer[w])
    /\ UNCHANGED <<writer, reader, due, failures>>

Done(w) == writer' = [writer EXCEPT ![w] = Closed]

\* CloseWithFinalByte: the end of the highest block written, or `final` words
\* into it.
ClosedEnd(last, final) ==
    IF last = 0 THEN 0 ELSE IF final = 0 THEN last * BlockWords ELSE Start(last) + final

\* A shared Writer's Close is its Flush.  Another's ends the file where the
\* highest block written ends.
Close(w) ==
    LET own == writer[w]
    IN  /\ InUse(w) /\ Done(w)
        /\ IF own.shared THEN FlushWriter(own)
           ELSE /\ WriteBlocks(LastBlock(own), Never)
                /\ eof' = ClosedEnd(maxWritten', Len(own.buf))
                /\ Published
        /\ UNCHANGED <<reader, due, failures>>

\* The last block cannot be written.
CloseFails(w) ==
    /\ InUse(w) /\ MayFail /\ writer[w].buf # <<>> /\ UpToDate(writer[w])
    /\ Done(w)
    /\ pending' = <<>>
    /\ failures' = failures + 1
    /\ UNCHANGED <<fileVars, reader, log, due>>

\* The caller lets go of a Writer whose Put failed.
Drop(w) ==
    /\ writer[w].failed
    /\ Done(w)
    /\ pending' = IF writer[w].shared THEN pending ELSE <<>>
    /\ UNCHANGED <<fileVars, reader, log, due, failures>>

-----------------------------------------------------------------------------
(* Reading.                                                                *)

\* The word at place p as Reader r would return it, buffered or not.
Seen(r, p) ==
    IF p < r.fetched THEN r.buf[p - ReadOffset(r) + 1] ELSE WordAt(p)

\* skipEndOfRecords: where the next record starts.  No block begins with
\* endOfRecords, so one skip is all there is.
NextStart(r) ==
    LET o == ReadOffset(r)
    IN  IF o < eof /\ Seen(r, o) = EndOfRecords THEN Start(BlockOf(o) + 1) ELSE o

\* seek, if the next record starts past a skipped rest of a block.
Sought(r) ==
    IF NextStart(r) = ReadOffset(r) THEN r ELSE [fetched |-> NextStart(r), buf |-> <<>>]

\* Mutant of FetchedTo: whole blocks are fetched, past the end of file.
FetchedToBlockEnd(r, need) ==
    IF need <= r.fetched THEN r.fetched ELSE Start(BlockOf(need - 1) + 1)

\* fill: how far blocks are fetched for the words before place `need`.
FetchedTo(r, need) ==
    IF need <= r.fetched THEN r.fetched ELSE Min(eof, Start(BlockOf(need - 1) + 1))

Advanced(r, size) ==
    LET s == Sought(r)
        end == NextStart(r) + size + 1
        fetched == FetchedTo(s, end)
    IN  [fetched |-> fetched, buf |-> [i \in 1 .. fetched - end |-> Seen(s, end + i - 1)]]

\* Does a whole record of `size` words start at place p for reader r?
RecordAt(r, p, e) ==
    /\ p + e.size < eof
    /\ \A i \in 0 .. e.size : Seen(r, p + i) = Frame(e)[i + 1]

\* Reader.Next, when a record is there.
ReadNext(r) ==
    LET s == Sought(reader[r])
    IN  /\ \E e \in Records :
              /\ RecordAt(s, ReadOffset(s), e)
              /\ reader' = [reader EXCEPT ![r] = Advanced(@, e.size)]
        /\ due' = [due EXCEPT ![r] = Min(@ + 1, Len(log) + 1)]
        /\ UNCHANGED <<fileVars, writer, log, pending, failures>>

\* Reader.SeekTo the place of a record put before.
SeekTo(r, k) ==
    /\ reader' = [reader EXCEPT ![r] = [fetched |-> log[k].at, buf |-> <<>>]]
    /\ due' = [due EXCEPT ![r] = k]
    /\ UNCHANGED <<fileVars, writer, log, pending, failures>>

Step ==
    \/ \E w \in Writers :
          \/ OpenShared(w) \/ OpenAppender(w) \/ OpenWriter(w)
          \/ \E size \in RecordSizes : Put(w, size) \/ PutFails(w, size) \/ PutRefused(w, size)
          \/ Flush(w) \/ Close(w) \/ CloseFails(w) \/ Drop(w)
    \/ \E r \in Readers : ReadNext(r) \/ \E k \in DOMAIN log : SeekTo(r, k)

Next == Step /\ UNCHANGED noSpan

Spec == Init /\ [][Next]_vars

-----------------------------------------------------------------------------
(* Properties.                                                             *)

\* The words on disk a fresh Reader sees.
Fresh(p) == [fetched |-> p, buf |-> <<>>]

\* While no Writer has the file to itself, its content up to the end of file is
\* the records put, in order, each where its Writer said it put it, and nothing
\* else: no record is lost, torn, written over, or left half put by a call that
\* failed, and where records do not cross blocks none does.
ContentIsLog ==
    ~Alone =>
        LET After(k) == IF k = 0 THEN 0 ELSE log[k].at + log[k].size + 1
        IN  /\ \A k \in DOMAIN log :
                  /\ NextStart(Fresh(After(k - 1))) = log[k].at
                  /\ RecordAt(Fresh(log[k].at), log[k].at, log[k])
            /\ eof = After(Len(log))
            /\ noSpan => \A k \in DOMAIN log : BlockOf(log[k].at) = BlockOf(log[k].at + log[k].size)

\* What each Reader returns next is the record after its last one, or the end of
\* file if none is there yet, whatever was appended meanwhile and wherever in a
\* block the Reader had stopped.
ReadersMissNothing ==
    \A r \in Readers :
        LET s == Sought(reader[r])
        IN  IF due[r] > Len(log) THEN ReadOffset(s) >= eof
            ELSE ReadOffset(s) = log[due[r]].at /\ RecordAt(s, ReadOffset(s), log[due[r]])

\* Nothing before the end of file ever changes, and the end of file never moves
\* back, whichever Writer flushes or closes after whichever other's appends.
AppendsOnly ==
    [][eof' >= eof /\ \A p \in 0 .. eof - 1 : WordAt(p)' = WordAt(p)]_vars
=============================================================================

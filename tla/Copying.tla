------------------------------- MODULE Copying -------------------------------
(***************************************************************************)
(* Record formats and what COPY and TYPE make of them: rms.Reader and      *)
(* rms.Writer for every sequential format, writeRecords, and COPY's ways   *)
(* from a volume to the host, to a volume, and from the host.              *)
(*                                                                         *)
(* A file is its format and its bytes up to its end of file; where blocks, *)
(* buffers and shared access matter is RecordFile.  A program puts records *)
(* in a file, or one comes from elsewhere; then it is copied, a record, a  *)
(* line or a block in each step.                                           *)
(***************************************************************************)
EXTENDS Integers, Sequences, SequencesExt

CONSTANTS
  BlockSize,   \* bytes of a block (512)
  LengthBase,  \* values of each byte of a length word (256)
  Junk,        \* what a block holds after the end of file
  Formats,     \* the formats of files that programs make
  Recs,        \* the records they put
  MaxPuts,     \* bound: records put in a file
  MaxCopied,   \* bound: bytes of a copy that is copied again
  Others       \* files from elsewhere: of other systems, damaged, or of the host

ASSUME BlockSizeAssumption == BlockSize \in Nat \ {0} /\ BlockSize % 2 = 0
ASSUME LengthBaseAssumption == LengthBase \in Nat \ {0, 1}

NUL == 0
LF == 10
VT == 11
FF == 12
CR == 13

VARIABLES
  source,    \* the file to be copied
  put,       \* observer: the records put in it, by the program that made it
  isMade,    \* did one?
  job,       \* the copy in progress or ended last
  out,       \* the bytes written to a host file
  dst        \* the new file on a volume: bytes written, and its length once closed

vars == <<source, put, isMade, job, out, dst>>

(***************************************************************************)
(* Reader.Next: a record, the end of the file, or a corrupt record.        *)
(***************************************************************************)

Smaller(m, n) == IF m < n THEN m ELSE n
Least(S) == CHOOSE m \in S : \A n \in S : m <= n

Left(f, o) == Len(f.image) - o
Part(f, o, n) == SubSeq(f.image, o + 1, o + n)
ByteAt(f, o) == f.image[o + 1]

Got(record, next) == [status |-> "record", record |-> record, next |-> next]
AtEnd == [status |-> "end"]
IsCorrupt == [status |-> "corrupt"]

\* FixedRecordSpace: rounded up to a word.
Space(size) == size + (size % 2)
NextBlock(o) == (o \div BlockSize + 1) * BlockSize

\* endOfRecords as the bytes of a length word.
EndOfRecords == <<LengthBase - 1, LengthBase - 1>>
LongestLength == LengthBase * LengthBase - 1

\* skipUnusedSpace
PastUnusedSpace(f, o) ==
  LET used == o % BlockSize IN
  IF Space(f.size) <= BlockSize /\ used # 0 /\ used + Space(f.size) > BlockSize
  THEN NextBlock(o) ELSE o

\* skipEndOfRecords
PastEndOfRecords(f, o) ==
  LET past[p \in 0 .. Len(f.image) + BlockSize] ==
        IF Left(f, p) >= 2 /\ Part(f, p, 2) = EndOfRecords THEN past[NextBlock(p)] ELSE p
  IN past[o]

\* nextFixed: what there is of a last record is the record; a pad byte that is
\* not there is not missed.
NextFixed(f, o) ==
  IF f.size = 0 \/ Left(f, o) <= 0 THEN AtEnd
  ELSE IF Left(f, o) < f.size THEN Got(Part(f, o, Left(f, o)), Len(f.image))
  ELSE LET pad == IF f.format = "fixed" THEN f.size % 2 ELSE 0 IN
       Got(Part(f, o, f.size), Smaller(o + f.size + pad, Len(f.image)))

\* nextVariable
NextVariable(f, o) ==
  IF Left(f, o) <= 0 THEN AtEnd
  ELSE IF Left(f, o) = 1 THEN IsCorrupt
  ELSE LET length == ByteAt(f, o) + LengthBase * ByteAt(f, o + 1) IN
       IF Left(f, o + 2) < Space(length) THEN IsCorrupt
       ELSE Got(Part(f, o + 2, length), o + 2 + Space(length))

\* nextStream.  In a STREAM file null bytes before a record are skipped, LF, VT
\* and FF end it and belong to it, CR LF ends it and does not.
IsCRLF(f, o) == ByteAt(f, o) = CR /\ Left(f, o) > 1 /\ ByteAt(f, o + 1) = LF
EndsRecord(f, o) ==
  CASE f.format = "streamLF" -> ByteAt(f, o) = LF
    [] f.format = "streamCR" -> ByteAt(f, o) = CR
    [] OTHER -> ByteAt(f, o) \in {LF, VT, FF} \/ IsCRLF(f, o)

RecordStart(f, o) ==
  IF f.format # "stream" THEN o
  ELSE Least({p \in o .. Len(f.image) : p = Len(f.image) \/ ByteAt(f, p) # NUL})

NextStream(f, o) ==
  LET start == RecordStart(f, o)
      ends == {p \in start .. Len(f.image) - 1 : EndsRecord(f, p)}
      end == Least(ends)
  IN  IF ends # {}
      THEN IF f.format # "stream" THEN Got(Part(f, start, end - start), end + 1)
           ELSE IF IsCRLF(f, end) THEN Got(Part(f, start, end - start), end + 2)
           ELSE Got(Part(f, start, end - start + 1), end + 1)
      ELSE IF start >= Len(f.image) THEN AtEnd
      ELSE Got(Part(f, start, Left(f, start)), Len(f.image))

HasLengths(f) == f.format \in {"variable", "vfc"}

NextRecord(f, o) ==
  IF HasLengths(f) THEN NextVariable(f, PastEndOfRecords(f, o))
  ELSE IF f.format \in {"fixed", "undefined"}
       THEN NextFixed(f, IF f.noSpan /\ f.format = "fixed" THEN PastUnusedSpace(f, o) ELSE o)
  ELSE NextStream(f, o)

(***************************************************************************)
(* Writer.Put                                                              *)
(***************************************************************************)

Zeros(n) == [i \in 1 .. n |-> 0]
Padding(record) == Zeros(Len(record) % 2)
Ending == [streamLF |-> <<LF>>, streamCR |-> <<CR>>, stream |-> <<CR, LF>>]

\* putFixed, putVariable, putStream
Framed(f, record) ==
  CASE f.format = "fixed" -> record \o Padding(record)
    [] f.format = "undefined" -> record
    [] HasLengths(f) ->
         <<Len(record) % LengthBase, Len(record) \div LengthBase>> \o record \o Padding(record)
    [] OTHER -> record \o Ending[f.format]

Need(f, record) == Space(Len(record)) + (IF HasLengths(f) THEN 2 ELSE 0)

\* Which records Put takes: fixed ones have the file's size, others fit their
\* length word, and a block if they may not cross one.
IsPutable(f, record) ==
  CASE f.format \in {"fixed", "undefined"} -> Len(record) = f.size /\ f.size # 0
    [] HasLengths(f) -> Len(record) <= LongestLength /\ (f.noSpan => Need(f, record) <= BlockSize)
    [] OTHER -> TRUE

\* startRecord: the rest of a block a record that may not cross it does not
\* fit in, as finalBlock leaves it.
RestOfBlock(f, record) ==
  LET used == Len(f.image) % BlockSize
      room == BlockSize - used
  IN  IF /\ f.noSpan /\ f.format \in {"fixed", "variable", "vfc"}
         /\ used # 0 /\ Need(f, record) > room /\ Need(f, record) <= BlockSize
      THEN IF HasLengths(f) /\ room >= 2 THEN EndOfRecords \o Zeros(room - 2) ELSE Zeros(room)
      ELSE <<>>

\* Mutant of WithRecord: the rest of a block is left out of the file.
WithRecordPacked(f, record) == [f EXCEPT !.image = @ \o Framed(f, record)]
WithRecord(f, record) == [f EXCEPT !.image = @ \o RestOfBlock(f, record) \o Framed(f, record)]

(***************************************************************************)
(* writeRecords and FormatVFCRecord                                        *)
(***************************************************************************)

\* vfcLeading
Leading(control) ==
  CASE control \in {0, 43} -> <<>>        \* none, "+"
    [] control = 48 -> <<LF, LF>>         \* "0"
    [] control = 49 -> <<FF>>             \* "1"
    [] OTHER -> <<LF>>

\* vfcTrailing
Trailing(control) ==
  CASE control = 0 -> <<>>
    [] control \in 1 .. 127 -> [i \in 1 .. control |-> LF] \o <<CR>>
    [] control \in 128 .. 159 -> <<control - 128>>
    [] OTHER -> <<CR>>

TextOfRecord(f, record, ending) ==
  IF f.format = "vfc" /\ Len(record) >= 2
  THEN Leading(record[1]) \o SubSeq(record, 3, Len(record)) \o Trailing(record[2])
  ELSE record \o ending

(***************************************************************************)
(* Lines                                                                   *)
(***************************************************************************)

\* lineSplitWriter.Write: the lines that bytes complete, and what is left.
LineEnds(bytes) == SelectSeq([i \in DOMAIN bytes |-> i], LAMBDA i : bytes[i] = LF)
LinesOf(bytes) ==
  LET ends == LineEnds(bytes) IN
  [k \in DOMAIN ends |-> SubSeq(bytes, IF k = 1 THEN 1 ELSE ends[k - 1] + 1, ends[k] - 1)]
RestOfLine(bytes) ==
  LET ends == LineEnds(bytes) IN
  IF ends = <<>> THEN bytes ELSE SubSeq(bytes, ends[Len(ends)] + 1, Len(bytes))

WithRecords(f, records) == FoldLeft(WithRecord, f, records)

WithoutLast(bytes, byte) ==
  IF bytes # <<>> /\ bytes[Len(bytes)] = byte THEN SubSeq(bytes, 1, Len(bytes) - 1) ELSE bytes

(***************************************************************************)
(* Making files                                                            *)
(***************************************************************************)

NoJob == [kind |-> "none", phase |-> "none", at |-> 0, line |-> <<>>]
IsRunning == job.phase = "running"

\* COPY to a volume creates a Stream_LF file, COPY/BINARY one of blocks.
NewFile(binary) ==
  [format |-> IF binary THEN "undefined" ELSE "streamLF", size |-> IF binary THEN BlockSize ELSE 0,
   noSpan |-> FALSE, image |-> <<>>]
NoDst == [file |-> NewFile(FALSE), length |-> 0]

\* The file as it is found afterwards: its bytes up to its end of file.
DstFile == [dst.file EXCEPT !.image = SubSeq(@, 1, dst.length)]

PutRecord(record) ==
  /\ isMade /\ job = NoJob /\ Len(put) < MaxPuts
  /\ IsPutable(source, record)
  /\ source' = WithRecord(source, record)
  /\ put' = Append(put, record)
  /\ UNCHANGED <<isMade, job, out, dst>>

(***************************************************************************)
(* COPY and TYPE                                                           *)
(***************************************************************************)

\* TYPE, and COPY of a volume's file as text to the host or to a volume; COPY
\* of a file as it is, to either; COPY/HOST as text or as it is.
TextKinds == {"text", "ignore", "toVolume"}
BlockKinds == {"binary", "toVolumeBinary", "fromHostBinary"}
VolumeKinds == {"toVolume", "toVolumeBinary", "fromHost", "fromHostBinary"}
Kinds == TextKinds \union BlockKinds \union {"fromHost"}
IsOfHost(kind) == kind \in {"fromHost", "fromHostBinary"}

Start(kind) ==
  /\ job = NoJob
  /\ (source.format = "host") = IsOfHost(kind)
  /\ job' = [NoJob EXCEPT !.kind = kind, !.phase = "running"]
  /\ out' = <<>>
  /\ dst' = [file |-> NewFile(kind \in BlockKinds), length |-> 0]
  /\ UNCHANGED <<source, put, isMade>>

Unmoved == UNCHANGED <<source, put, isMade>>

\* Writer.Close and CloseWithFinalByte: the end of file is where the bytes end.
Closed(file, final) ==
  LET blocks == (Len(file.image) + BlockSize - 1) \div BlockSize IN
  [file |-> file,
   length |-> IF blocks = 0 THEN 0
              ELSE IF final = 0 THEN blocks * BlockSize ELSE (blocks - 1) * BlockSize + final]
AsWriterCloses(file) == Closed(file, Len(file.image) % BlockSize)

\* writeRecords takes the next record, for the host or for the lines of a new file.
CopyRecord ==
  /\ IsRunning /\ job.kind \in TextKinds /\ Unmoved
  /\ LET got == NextRecord(source, job.at) IN
     /\ got.status = "record"
     /\ LET text == TextOfRecord(source, got.record, <<LF>>) IN
        IF job.kind = "toVolume"
        THEN /\ job' = [job EXCEPT !.at = got.next, !.line = RestOfLine(job.line \o text)]
             /\ dst' = [dst EXCEPT !.file = WithRecords(@, LinesOf(job.line \o text))]
             /\ UNCHANGED out
        ELSE /\ job' = [job EXCEPT !.at = got.next]
             /\ out' = out \o text
             /\ UNCHANGED dst

\* The end: a last line that nothing ended becomes a record too.
CopiedRecords ==
  /\ IsRunning /\ job.kind \in TextKinds /\ Unmoved
  /\ NextRecord(source, job.at).status = "end"
  /\ job' = [job EXCEPT !.phase = "done"]
  /\ dst' = IF job.kind # "toVolume" THEN dst
            ELSE AsWriterCloses(IF job.line = <<>> THEN dst.file ELSE WithRecord(dst.file, job.line))
  /\ UNCHANGED out

\* A corrupt record, or one that cannot be read, which Next reports alike: with
\* /IGNORE the copy begins again, as it is.
MeetCorruptRecord ==
  /\ IsRunning /\ job.kind \in TextKinds /\ Unmoved
  /\ Left(source, job.at) > 0
  /\ IF job.kind = "ignore"
     THEN job' = [NoJob EXCEPT !.kind = "binary", !.phase = "running"] /\ out' = <<>>
     ELSE job' = [job EXCEPT !.phase = "failed"] /\ UNCHANGED out
  /\ UNCHANGED dst

\* copyBinary, copyRawToVolume, copyHostRawToVolume: a block at a time, cut at
\* the end of file for the host, whole for a volume.
BlockAt(o) ==
  [i \in 1 .. BlockSize |->
     IF o + i <= Len(source.image) THEN ByteAt(source, o + i - 1)
     ELSE IF IsOfHost(job.kind) THEN 0 ELSE Junk]

CopyBlock ==
  /\ IsRunning /\ job.kind \in BlockKinds /\ Unmoved
  /\ Left(source, job.at) > 0
  /\ job' = [job EXCEPT !.at = @ + BlockSize]
  /\ IF job.kind = "binary"
     THEN /\ out' = out \o SubSeq(BlockAt(job.at), 1, Smaller(BlockSize, Left(source, job.at)))
          /\ UNCHANGED dst
     ELSE dst' = [dst EXCEPT !.file.image = @ \o BlockAt(job.at)] /\ UNCHANGED out

\* Mutant of FinalByte: the end of file of a copy is its last block's end.
WholeBlocks(file) == 0
FinalByte(file) == Len(file.image) % BlockSize
CopiedBlocks ==
  /\ IsRunning /\ job.kind \in BlockKinds /\ Unmoved
  /\ Left(source, job.at) <= 0
  /\ job' = [job EXCEPT !.phase = "done"]
  /\ dst' = IF job.kind = "binary" THEN dst ELSE Closed(dst.file, FinalByte(source))
  /\ UNCHANGED out

\* copyHostRecordsToVolume: a line of the host's text, without its LF or CR LF.
HostLine(o) ==
  LET ends == {p \in o .. Len(source.image) - 1 : ByteAt(source, p) = LF} IN
  IF ends = {} THEN Part(source, o, Left(source, o)) ELSE Part(source, o, Least(ends) - o + 1)

CopyLine ==
  /\ IsRunning /\ job.kind = "fromHost" /\ Unmoved
  /\ Left(source, job.at) > 0
  /\ LET line == HostLine(job.at) IN
     /\ job' = [job EXCEPT !.at = @ + Len(line)]
     /\ dst' = [dst EXCEPT !.file = WithRecord(@, WithoutLast(WithoutLast(line, LF), CR))]
  /\ UNCHANGED out

CopiedLines ==
  /\ IsRunning /\ job.kind = "fromHost" /\ Unmoved
  /\ Left(source, job.at) <= 0
  /\ job' = [job EXCEPT !.phase = "done"]
  /\ dst' = AsWriterCloses(dst.file)
  /\ UNCHANGED out

\* A read or a write fails: a new file is never closed.
CopyFails ==
  /\ IsRunning /\ Unmoved
  /\ job' = [job EXCEPT !.phase = "failed"]
  /\ UNCHANGED <<out, dst>>

\* The next copy is of the copy.
TakeCopy ==
  /\ job.phase \in {"done", "failed"} /\ job.kind \in VolumeKinds
  /\ dst.length <= MaxCopied
  /\ source' = DstFile /\ put' = <<>> /\ isMade' = FALSE
  /\ job' = NoJob /\ out' = <<>> /\ dst' = NoDst

Init ==
  /\ \/ isMade = TRUE /\ source \in {[f EXCEPT !.image = <<>>] : f \in Formats}
     \/ isMade = FALSE /\ source \in Others
  /\ put = <<>>
  /\ job = NoJob
  /\ out = <<>>
  /\ dst = NoDst

Next ==
  \/ \E record \in Recs : PutRecord(record)
  \/ \E kind \in Kinds : Start(kind)
  \/ CopyRecord
  \/ CopiedRecords
  \/ MeetCorruptRecord
  \/ CopyBlock
  \/ CopiedBlocks
  \/ CopyLine
  \/ CopiedLines
  \/ CopyFails
  \/ TakeCopy

Spec == Init /\ [][Next]_vars

(***************************************************************************)
(* What holds                                                              *)
(***************************************************************************)

\* All the records of a file, and its text.
RecordsOf(f) ==
  LET from[o \in 0 .. Len(f.image) + BlockSize] ==
        LET got == NextRecord(f, o) IN
        IF got.status = "record" THEN <<got.record>> \o from[got.next] ELSE <<>>
  IN from[0]
TextOf(f) == FlattenSeq([k \in DOMAIN RecordsOf(f) |-> TextOfRecord(f, RecordsOf(f)[k], <<LF>>)])

\* Does a record hold nothing its format would take for framing?  A record of
\* the longest length has the length word that ends a block.
IsPlain(f, record) ==
  CASE HasLengths(f) -> Len(record) < LongestLength
    [] f.format = "streamLF" -> LF \notin Range(record)
    [] f.format = "streamCR" -> CR \notin Range(record)
    [] f.format = "stream" ->
         Range(record) \intersect {LF, VT, FF} = {} /\ (record # <<>> => record[1] # NUL)
    [] OTHER -> TRUE

\* A text whose last line is ended.
Ended(text) == IF text = <<>> \/ text[Len(text)] = LF THEN text ELSE Append(text, LF)

\* A host's text with each CR LF made a line end of this one, and its last line
\* ended.  Every other CR is left alone but one: a CR at the end of a last line that
\* no LF ends is taken for half of its end (docs/COMMANDS.md:394-396 has it left).
Unix(text) ==
  LET isKept(i) == text[i] = CR => i = Len(text) \/ text[i + 1] # LF
      kept == SelectSeq([i \in DOMAIN text |-> i], isKept)
  IN  [k \in DOMAIN kept |-> text[kept[k]]]
EndsInCR(text) == text # <<>> /\ text[Len(text)] = CR
TextOfHost(text) ==
  IF EndsInCR(text) THEN Append(WithoutLast(Unix(text), CR), LF) ELSE Ended(Unix(text))

\* What Put wrote Next returns, record for record, in every format, with and
\* without records that cross blocks, if no record holds what its format would
\* take for framing (startRecord and skipUnusedSpace, finalBlock and
\* skipEndOfRecords, put* and next*).
ReadsBackWhatWasPut ==
  isMade /\ (\A k \in DOMAIN put : IsPlain(source, put[k])) => RecordsOf(source) = put


=============================================================================

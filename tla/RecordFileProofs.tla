--------------------------- MODULE RecordFileProofs ---------------------------
(***************************************************************************)
(* Proofs about RecordFile: whatever Writers put, flush and close, and     *)
(* whichever block writes fail, what is before the end of file never       *)
(* changes and is the records put, in order; and Readers return them one   *)
(* after another.  Any number of Writers and Readers, any sizes of blocks  *)
(* and records.                                                            *)
(***************************************************************************)
EXTENDS RecordFile, SequenceTheorems, TLAPS

\* Multiples of a unit keep the order of what they are multiples by.
LEMMA ProductsAreOrdered ==
    ASSUME NEW a \in Int, NEW b \in Int, NEW unit \in Nat \ {0}
    PROVE  /\ a * unit < b * unit <=> a < b
           /\ a * unit <= b * unit <=> a <= b
           /\ a < b => a * unit + unit <= b * unit
OBVIOUS

\* The quotient and the remainder of a natural number.
LEMMA Quotients ==
    ASSUME NEW n \in Nat, NEW unit \in Nat \ {0}
    PROVE  /\ n \div unit \in Nat
           /\ (n \div unit) * unit \in Nat
           /\ (n \div unit) * unit <= n
           /\ n < (n \div unit) * unit + unit
           /\ n % unit \in 0 .. unit - 1
           /\ n % unit = n - (n \div unit) * unit
OBVIOUS

(***************************************************************************)
(* What the words of a file are, as Writers leave them.                    *)
(***************************************************************************)

\* A word of a record, or one of those that belong to none.
AnyWord == [rec: Nat, part: Nat, size: Nat]

\* A record and the place it was put at.
AnyPlaced == [rec: Nat \ {0}, size: Nat, at: Nat]

AnyWriter == [state: {"closed", "open"}, shared: BOOLEAN, failed: BOOLEAN,
              vbn: Nat \ {0}, buf: Seq(AnyWord)]

\* The words of the file.
Disk == [p \in Nat |-> WordAt(p)]

\* The words of the file as they were if w's buffer were written.
Under(w) ==
    [p \in Nat |-> IF Start(w.vbn) <= p /\ p < Offset(w) THEN w.buf[p - Start(w.vbn) + 1] ELSE WordAt(p)]

\* Where the k-th record of L ends.
AfterOf(L, k) == IF k = 0 THEN 0 ELSE L[k].at + L[k].size + 1

\* Where the next record of the words V starts, when the one before ends at o.
NextOf(V, end, o) == IF o < end /\ V[o] = EndOfRecords THEN Start(BlockOf(o) + 1) ELSE o

\* The words V hold at place p the record e.
HasRecord(V, end, p, e) == p + e.size < end /\ \A i \in 0 .. e.size : V[p + i] = Frame(e)[i + 1]

\* The words V are, up to `end`, the records of L and nothing else; if `whole`,
\* none crosses blocks.
Holds(whole, V, end, L) ==
    /\ \A k \in 1 .. Len(L) :
          /\ NextOf(V, end, AfterOf(L, k - 1)) = L[k].at
          /\ HasRecord(V, end, L[k].at, L[k])
          /\ whole => BlockOf(L[k].at) = BlockOf(L[k].at + L[k].size)
    /\ end = AfterOf(L, Len(L))

-----------------------------------------------------------------------------
(* The inductive invariant.                                                *)

Ready(w) == writer[w].state = "open" /\ ~writer[w].failed

RecordTypes ==
    /\ noSpan \in BOOLEAN
    /\ data \in [Blocks -> [1 .. BlockWords -> AnyWord]]
    /\ eof \in 0 .. Capacity /\ hwm \in 0 .. MaxBlocks + 1 /\ maxWritten \in Nat
    /\ writer \in [Writers -> AnyWriter]
    /\ reader \in [Readers -> [fetched: Nat, buf: Seq(AnyWord)]]
    /\ log \in Seq(AnyPlaced) /\ pending \in Seq(AnyPlaced)
    /\ due \in [Readers -> Nat \ {0}]
    /\ failures \in Nat

\* A Writer that has the file to itself is the only one open.
Apart ==
    /\ \A w \in Open : ~writer[w].shared => Open = {w}
    /\ \A w \in Writers : writer[w].failed => writer[w].state = "open"
    /\ ~Alone => pending = <<>>

\* The file's words up to its end have been written, and are the log.
FileInv ==
    /\ \A p \in 0 .. eof - 1 : BlockOf(p) < hwm
    /\ Holds(noSpan, Disk, eof, log)

\* A Writer that can put a record.
CanTake(w) == w \in AnyWriter /\ Len(w.buf) < BlockWords

\* Word q of a Writer's buffer, a place in the file.
Buffered(w, q) == w.buf[q - Start(w.vbn) + 1]

\* A shared Writer's buffer is what the file holds there, up to the end or to
\* where the end was.
SharedInv(w) ==
    /\ Offset(w) <= eof
    /\ \A p \in Start(w.vbn) .. Offset(w) - 1 : Buffered(w, p) = WordAt(p)

\* What w has written and buffered is the log and what was put since, and
\* changes nothing of the file.
Writable(w) ==
    /\ CanTake(w)
    /\ eof <= Offset(w) /\ Offset(w) <= Capacity
    /\ \A p \in Start(w.vbn) .. eof - 1 : Buffered(w, p) = WordAt(p)
    /\ \A p \in 0 .. Start(w.vbn) - 1 : BlockOf(p) < hwm
    /\ Holds(noSpan, Under(w), Offset(w), log \o pending)

\* The block at which a Writer with the file to itself will end it is the last
\* one written.
EndsWhereWritten(w) == maxWritten = w.vbn - 1 \/ (maxWritten = w.vbn /\ w.buf # <<>>)

WriterInv(w) ==
    Ready(w) => /\ CanTake(writer[w])
                /\ IF writer[w].shared THEN SharedInv(writer[w])
                   ELSE Writable(writer[w]) /\ EndsWhereWritten(writer[w])

\* A Reader's buffer is what the file holds there, and it stands where a record
\* starts or the one before ends.
ReaderInv(r) ==
    /\ due[r] <= Len(log) + 1
    /\ Len(reader[r].buf) <= reader[r].fetched /\ reader[r].fetched <= eof
    /\ \A i \in 1 .. Len(reader[r].buf) : reader[r].buf[i] = WordAt(ReadOffset(reader[r]) + i - 1)
    /\ \/ ReadOffset(reader[r]) = AfterOf(log, due[r] - 1)
       \/ due[r] <= Len(log) /\ ReadOffset(reader[r]) = log[due[r]].at

RecordInv ==
    /\ RecordTypes
    /\ Apart
    /\ FileInv
    /\ \A w \in Writers : WriterInv(w)
    /\ \A r \in Readers : ReaderInv(r)
-----------------------------------------------------------------------------
(* Blocks and places.                                                      *)

\* A file has blocks, and blocks words.
LEMMA BoundTypes ==
    /\ BlockWords \in Nat \ {0} /\ MaxBlocks \in Nat \ {0}
    /\ MaxRecords \in Nat /\ MaxFailures \in Nat
    /\ RecordSizes \subseteq Nat
BY BoundsAreNumbers, RecordSizesAreNumbers

\* Blocks follow one another.
LEMMA Starts ==
    ASSUME NEW v \in Nat \ {0}
    PROVE  /\ Start(v) \in Nat /\ Start(1) = 0
           /\ Start(v + 1) = Start(v) + BlockWords
           /\ \A n \in Nat : Start(v + n) = Start(v) + n * BlockWords /\ n * BlockWords \in Nat
           /\ \A u \in Nat \ {0} : u < v => Start(u) + BlockWords <= Start(v)
           /\ \A u \in Nat \ {0} : u <= v <=> Start(u) <= Start(v)
<1>1. BlockWords \in Nat \ {0}
  BY BoundTypes
<1>2. Start(v) \in Nat /\ Start(1) = 0 /\ Start(v + 1) = Start(v) + BlockWords
  BY <1>1 DEF Start
<1>3. \A n \in Nat : Start(v + n) = Start(v) + n * BlockWords /\ n * BlockWords \in Nat
  BY <1>1 DEF Start
<1>4. ASSUME NEW u \in Nat \ {0}
      PROVE  (u < v => Start(u) + BlockWords <= Start(v)) /\ (u <= v <=> Start(u) <= Start(v))
  <2>1. u - 1 \in Int /\ v - 1 \in Int
    OBVIOUS
  <2>2. QED
    BY <1>1, <2>1, ProductsAreOrdered DEF Start
<1>5. QED
  BY <1>2, <1>3, <1>4

\* Each place is in one block.
LEMMA Places ==
    ASSUME NEW p \in Nat
    PROVE  /\ BlockOf(p) \in Nat \ {0}
           /\ Start(BlockOf(p)) \in Nat
           /\ Start(BlockOf(p)) <= p /\ p < Start(BlockOf(p)) + BlockWords
           /\ Start(BlockOf(p) + 1) = Start(BlockOf(p)) + BlockWords
           /\ p % BlockWords = p - Start(BlockOf(p))
           /\ p % BlockWords \in 0 .. BlockWords - 1
<1>1. BlockWords \in Nat \ {0}
  BY BoundTypes
<1>2. /\ p \div BlockWords \in Nat /\ (p \div BlockWords) * BlockWords <= p
      /\ p < (p \div BlockWords) * BlockWords + BlockWords
      /\ p % BlockWords \in 0 .. BlockWords - 1
      /\ p % BlockWords = p - (p \div BlockWords) * BlockWords
  BY <1>1, Quotients
<1>3. BlockOf(p) \in Nat \ {0} /\ Start(BlockOf(p)) = (p \div BlockWords) * BlockWords
  BY <1>2 DEF BlockOf, Start
<1>4. QED
  BY <1>2, <1>3, Starts

\* A place within a block is in that block.
LEMMA InBlock ==
    ASSUME NEW p \in Nat, NEW v \in Nat \ {0}, Start(v) <= p, p < Start(v) + BlockWords
    PROVE  BlockOf(p) = v
<1>1. PICK u \in Nat \ {0} : u = BlockOf(p)
  BY Places
<1>2. Start(u) <= p /\ p < Start(u) + BlockWords /\ Start(u) \in Nat /\ Start(v) \in Nat
  BY <1>1, Places, Starts
<1>3. BlockWords \in Nat
  BY BoundTypes
<1>4. ~(u < v)
  BY <1>2, <1>3, Starts
<1>5. ~(v < u)
  BY <1>2, <1>3, Starts
<1>6. QED
  BY <1>1, <1>4, <1>5

\* Where a place is says in which block it is.
LEMMA PlaceOrder ==
    ASSUME NEW p \in Nat, NEW v \in Nat \ {0}
    PROVE  /\ p < Start(v) <=> BlockOf(p) < v
           /\ Start(v) <= p <=> v <= BlockOf(p)
<1>1. PICK u \in Nat \ {0} : u = BlockOf(p)
  BY Places
<1>2. Start(u) <= p /\ p < Start(u) + BlockWords /\ Start(u) \in Nat /\ Start(v) \in Nat /\ BlockWords \in Nat
  BY <1>1, Places, Starts, BoundTypes
<1>3. u < v => Start(u) + BlockWords <= Start(v)
  BY Starts
<1>4. v <= u => Start(v) <= Start(u)
  BY Starts
<1>5. QED
  BY <1>1, <1>2, <1>3, <1>4

\* The places a file can have are those of its blocks.
LEMMA CapacityInBlocks ==
    /\ Capacity \in Nat
    /\ \A p \in Nat : p < Capacity => BlockOf(p) \in Blocks
    /\ \A v \in Nat \ {0} : Start(v) < Capacity => v \in Blocks
<1>1. BlockWords \in Nat \ {0} /\ MaxBlocks \in Nat \ {0}
  BY BoundTypes
<1>2. Capacity \in Nat /\ Capacity = Start(MaxBlocks + 1) /\ MaxBlocks + 1 \in Nat \ {0}
  BY <1>1 DEF Capacity, Start
<1>3. ASSUME NEW p \in Nat, p < Capacity
      PROVE  BlockOf(p) \in Blocks
  <2>1. BlockOf(p) \in Nat \ {0}
    BY Places
  <2>2. BlockOf(p) < MaxBlocks + 1
    BY <1>2, <1>3, PlaceOrder
  <2>3. QED
    BY <1>1, <2>1, <2>2 DEF Blocks
<1>4. \A v \in Nat \ {0} : Start(v) < Capacity => v \in Blocks
  BY <1>1, <1>2, Starts DEF Blocks
<1>5. QED
  BY <1>2, <1>3, <1>4

\* Where a Writer is.
LEMMA BufferPlaces ==
    ASSUME NEW w, CanTake(w)
    PROVE  /\ w \in AnyWriter /\ w.vbn \in Nat \ {0} /\ w.buf \in Seq(AnyWord)
           /\ Len(w.buf) \in Nat /\ Len(w.buf) < BlockWords /\ (Len(w.buf) = 0 <=> w.buf = <<>>)
           /\ Start(w.vbn) \in Nat /\ Start(w.vbn + 1) = Start(w.vbn) + BlockWords
           /\ Offset(w) \in Nat /\ Offset(w) = Start(w.vbn) + Len(w.buf)
           /\ Start(w.vbn) <= Offset(w)
<1>1. w \in AnyWriter /\ w.vbn \in Nat \ {0} /\ w.buf \in Seq(AnyWord) /\ Len(w.buf) < BlockWords
  BY DEF CanTake, AnyWriter
<1>2. Len(w.buf) \in Nat /\ (Len(w.buf) = 0 <=> w.buf = <<>>)
  BY <1>1, LenProperties, EmptySeq
<1>3. Start(w.vbn) \in Nat /\ Start(w.vbn + 1) = Start(w.vbn) + BlockWords
  BY <1>1, Starts
<1>4. Offset(w) = Start(w.vbn) + Len(w.buf)
  BY DEF Offset
<1>5. Offset(w) \in Nat /\ Start(w.vbn) <= Offset(w)
  BY ONLY <1>2, <1>3, <1>4
<1>6. QED
  BY <1>1, <1>2, <1>3, <1>4, <1>5

-----------------------------------------------------------------------------
(* Writing blocks.                                                         *)

\* The blocks from m to k are those of `writes` now, and no others were written.
Written(writes, m, k) ==
    /\ data' = [b \in Blocks |-> IF b \in m .. k THEN writes[b] ELSE data[b]]
    /\ maxWritten' = IF m <= k THEN Max(maxWritten, k) ELSE maxWritten
    /\ hwm' = IF m <= k THEN Max(hwm, k + 1) ELSE hwm

\* WriteBlocks up to where one fails.
LEMMA WriteBlocksWrites ==
    ASSUME NEW writes, NEW m \in Nat \ {0}, NEW n \in Nat, DOMAIN writes = m .. n,
           NEW stop \in Nat, NEW k \in Nat, m <= k + 1,
           k = IF n < stop THEN n ELSE stop - 1,
           maxWritten \in Nat,
           WriteBlocks(writes, stop)
    PROVE  Written(writes, m, k)
<1> DEFINE done == {b \in DOMAIN writes : b < stop}
<1>1. done = m .. k
  OBVIOUS
<1> DEFINE top == IF done = {} THEN 0 ELSE CHOOSE b \in done : \A c \in done : c <= b
<1>2. top = IF done = {} THEN 0 ELSE CHOOSE b \in done : \A c \in done : c <= b
  OBVIOUS
<1>3. /\ data' = [b \in Blocks |-> IF b \in done THEN writes[b] ELSE data[b]]
      /\ maxWritten' = Max(maxWritten, top)
      /\ hwm' = IF done = {} THEN hwm ELSE Max(hwm, top + 1)
  BY DEF WriteBlocks
<1> HIDE DEF done, top
<1>4. CASE m <= k
  <2>1. k \in done /\ \A c \in done : c <= k
    BY <1>1, <1>4
  <2>2. \A b \in done : (\A c \in done : c <= b) => b = k
    BY <1>1, <2>1
  <2>3. done # {}
    BY <2>1
  <2>4. top = k
    BY <1>2, <2>1, <2>2, <2>3, Zenon
  <2>5. QED
    BY <1>1, <1>3, <1>4, <2>3, <2>4 DEF Written
<1>5. CASE ~(m <= k)
  <2>1. done = {}
    BY <1>1, <1>5
  <2>2. top = 0
    BY <1>2, <2>1
  <2>3. maxWritten' = maxWritten
    BY <1>3, <2>2 DEF Max
  <2>4. QED
    BY <1>1, <1>3, <1>5, <2>1, <2>3 DEF Written
<1>6. QED
  BY <1>4, <1>5

\* The word at a place that has been written, and what becomes of it.
LEMMA WordsWritten ==
    ASSUME NEW p \in Nat, BlockOf(p) \in Blocks,
           NEW writes, NEW m \in Nat \ {0}, NEW k \in Nat, Written(writes, m, k),
           hwm \in Nat
    PROVE  /\ BlockOf(p) \in m .. k => WordAt(p)' = writes[BlockOf(p)][p - Start(BlockOf(p)) + 1]
           /\ BlockOf(p) \notin m .. k /\ BlockOf(p) < hwm => WordAt(p)' = WordAt(p)
           /\ BlockOf(p) < hwm \/ BlockOf(p) \in m .. k => BlockOf(p) < hwm'
<1>1. PICK b \in Nat \ {0} : b = BlockOf(p)
  BY Places
<1>2. PICK i \in Nat : i = p - Start(BlockOf(p)) /\ i = p % BlockWords
  BY Places
<1>3. WordAt(p) = (IF b >= hwm THEN Zero ELSE data[b][i + 1])
  BY <1>1, <1>2 DEF WordAt
<1>4. WordAt(p)' = (IF b >= hwm' THEN Zero ELSE data'[b][i + 1])
  BY <1>1, <1>2 DEF WordAt
<1>5. b < hwm \/ b \in m .. k => b < hwm'
  BY <1>1 DEF Written, Max
<1>6. hwm' \in Nat
  BY DEF Written, Max
<1>7. data'[b] = IF b \in m .. k THEN writes[b] ELSE data[b]
  BY <1>1 DEF Written
<1>8. QED
  BY <1>1, <1>2, <1>3, <1>4, <1>5, <1>6, <1>7

\* The numbers of blocks written stay within the file.
LEMMA WrittenBounds ==
    ASSUME NEW writes, NEW m \in Nat \ {0}, NEW k \in Nat, Written(writes, m, k), k <= MaxBlocks,
           hwm \in 0 .. MaxBlocks + 1, maxWritten \in Nat
    PROVE  /\ hwm' \in 0 .. MaxBlocks + 1 /\ hwm <= hwm' /\ maxWritten' \in Nat
           /\ m <= k => maxWritten' = Max(maxWritten, k)
           /\ ~(m <= k) => maxWritten' = maxWritten
BY BoundTypes DEF Written, Max

\* What is written is words.
LEMMA WrittenTypes ==
    ASSUME NEW writes, NEW m \in Nat \ {0}, NEW k \in Nat, Written(writes, m, k),
           data \in [Blocks -> [1 .. BlockWords -> AnyWord]],
           \A b \in m .. k : writes[b] \in [1 .. BlockWords -> AnyWord]
    PROVE  data' \in [Blocks -> [1 .. BlockWords -> AnyWord]]
BY DEF Written

\* What is written over the words before `end` leaves them as they are, when
\* it is what they were.
LEMMA WritesKeep ==
    ASSUME NEW p \in Nat, NEW end \in Nat, p < end, end <= Capacity,
           NEW writes, NEW m \in Nat \ {0}, NEW k \in Nat, Written(writes, m, k),
           hwm \in Nat, BlockOf(p) < hwm,
           Start(m) <= p /\ BlockOf(p) \in m .. k => writes[BlockOf(p)][p - Start(BlockOf(p)) + 1] = WordAt(p)
    PROVE  WordAt(p)' = WordAt(p) /\ BlockOf(p) < hwm'
<1>1. BlockOf(p) \in Blocks
  BY CapacityInBlocks
<1>2. BlockOf(p) \in Nat /\ (BlockOf(p) \in m .. k => Start(m) <= p)
  BY Places, PlaceOrder
<1>3. QED
  BY <1>1, <1>2, WordsWritten

-----------------------------------------------------------------------------
(* What a Put writes.                                                      *)

AnyRecord == [rec: Nat \ {0}, size: Nat]

\* A record's words.
LEMMA FrameIsText ==
    ASSUME NEW e \in AnyRecord
    PROVE  /\ Frame(e) \in Seq(AnyWord) /\ Len(Frame(e)) = e.size + 1
           /\ \A i \in 1 .. e.size + 1 :
                 Frame(e)[i] = [rec |-> e.rec, part |-> i - 1, size |-> e.size]
           /\ Frame(e)[1] # EndOfRecords
<1>1. e.rec \in Nat /\ e.size \in Nat /\ e.size + 1 \in Nat
  BY DEF AnyRecord
<1>2. \A i \in 1 .. e.size + 1 : Frame(e)[i] = [rec |-> e.rec, part |-> i - 1, size |-> e.size]
  BY <1>1 DEF Frame
<1>3. Frame(e) \in [1 .. e.size + 1 -> AnyWord]
  BY <1>1 DEF Frame, AnyWord
<1>4. Frame(e) \in Seq(AnyWord)
  BY <1>1, <1>3, SeqDef
<1>5. Len(Frame(e)) = e.size + 1
  <2>1. Len(Frame(e)) \in Nat /\ DOMAIN Frame(e) = 1 .. Len(Frame(e))
    BY <1>4, LenProperties
  <2>2. DOMAIN Frame(e) = 1 .. e.size + 1
    BY <1>3
  <2>3. QED
    BY <1>1, <2>1, <2>2
<1>6. Frame(e)[1] # EndOfRecords
  <2>1. Frame(e)[1] = [rec |-> e.rec, part |-> 1 - 1, size |-> e.size]
    BY <1>1, <1>2
  <2>2. Frame(e)[1].part = 0 /\ EndOfRecords.part = 1
    BY <2>1 DEF EndOfRecords
  <2>3. QED
    BY <2>2
<1>7. QED
  BY <1>2, <1>4, <1>5, <1>6

\* A last block is words: the buffer, then the mark of its end if there is room.
LEMMA FinalBlockIsBlock ==
    ASSUME NEW buf \in Seq(AnyWord), Len(buf) <= BlockWords
    PROVE  /\ FinalBlock(buf) \in [1 .. BlockWords -> AnyWord]
           /\ \A i \in 1 .. Len(buf) : FinalBlock(buf)[i] = buf[i]
           /\ Len(buf) < BlockWords => FinalBlock(buf)[Len(buf) + 1] = EndOfRecords
<1>1. Len(buf) \in Nat /\ \A i \in 1 .. Len(buf) : buf[i] \in AnyWord
  BY LenProperties, ElementOfSeq
<1>2. BlockWords \in Nat \ {0}
  BY BoundTypes
<1>3. EndOfRecords \in AnyWord /\ Zero \in AnyWord
  BY DEF EndOfRecords, Zero, AnyWord
<1>4. QED
  BY <1>1, <1>2, <1>3 DEF FinalBlock

\* The parts of what a Put does.
LEMMA PlanParts ==
    ASSUME NEW w, CanTake(w), NEW e \in AnyRecord
    PROVE  LET p == Plan(w, e)
           IN  /\ p.kept \in Seq(AnyWord) /\ p.text \in Seq(AnyWord) /\ p.rest \in Seq(AnyWord)
               /\ Len(p.text) = Len(p.kept) + e.size + 1
               /\ \A i \in 1 .. Len(p.kept) : p.text[i] = p.kept[i]
               /\ \A i \in 1 .. e.size + 1 : p.text[Len(p.kept) + i] = Frame(e)[i]
               /\ p.full \in Nat /\ p.full * BlockWords \in Nat
               /\ p.full * BlockWords <= Len(p.text) /\ Len(p.text) < p.full * BlockWords + BlockWords
               /\ Len(p.rest) = Len(p.text) - p.full * BlockWords
               /\ \A i \in 1 .. Len(p.rest) : p.rest[i] = p.text[p.full * BlockWords + i]
               /\ \/ StartsBlock(w, e.size) /\ p.base = w.vbn + 1 /\ p.kept = <<>> /\ w.buf # <<>>
                  \/ ~StartsBlock(w, e.size) /\ p.base = w.vbn /\ p.kept = w.buf
<1> DEFINE kept == IF StartsBlock(w, e.size) THEN <<>> ELSE w.buf
           text == kept \o Frame(e)
           full == Len(text) \div BlockWords
           rest == SubSeq(text, full * BlockWords + 1, Len(text))
<1>1. /\ Plan(w, e).kept = kept /\ Plan(w, e).text = text /\ Plan(w, e).full = full
      /\ Plan(w, e).rest = rest
      /\ Plan(w, e).base = IF StartsBlock(w, e.size) THEN w.vbn + 1 ELSE w.vbn
  BY DEF Plan
<1>2. w.buf \in Seq(AnyWord) /\ e.size \in Nat /\ BlockWords \in Nat \ {0}
  BY BoundTypes DEF CanTake, AnyWriter, AnyRecord
<1>3. kept \in Seq(AnyWord)
  BY <1>2, EmptySeq
<1>4. Frame(e) \in Seq(AnyWord) /\ Len(Frame(e)) = e.size + 1
  BY FrameIsText
<1> HIDE DEF kept
<1>5. /\ text \in Seq(AnyWord) /\ Len(text) = Len(kept) + Len(Frame(e))
      /\ \A i \in 1 .. Len(kept) + Len(Frame(e)) :
            text[i] = IF i <= Len(kept) THEN kept[i] ELSE Frame(e)[i - Len(kept)]
  BY <1>3, <1>4, ConcatProperties
<1>6. Len(kept) \in Nat
  BY <1>3, LenProperties
<1>7. \A i \in 1 .. Len(kept) : text[i] = kept[i]
  BY <1>2, <1>4, <1>5, <1>6
<1>8. ASSUME NEW i \in 1 .. e.size + 1
      PROVE  text[Len(kept) + i] = Frame(e)[i]
  <2>1. PICK j \in Nat : j = Len(kept) + i
    BY <1>2, <1>6
  <2>2. j \in 1 .. Len(kept) + Len(Frame(e)) /\ ~(j <= Len(kept)) /\ j - Len(kept) = i
    BY <1>2, <1>4, <1>6, <2>1
  <2>3. QED
    BY <1>5, <2>1, <2>2
<1> HIDE DEF text
<1>9. Len(text) \in Nat
  BY <1>5, LenProperties
<1>10. PICK q \in Nat : q = full /\ q * BlockWords \in Nat /\ q * BlockWords <= Len(text)
                        /\ Len(text) < q * BlockWords + BlockWords
  BY <1>2, <1>9, Quotients
<1> HIDE DEF full
<1>11. PICK m \in Nat : m = q * BlockWords
  BY <1>10
<1>12. /\ rest \in Seq(AnyWord)
       /\ Len(rest) = Len(text) - m
       /\ \A i \in 1 .. Len(rest) : rest[i] = text[m + i]
  <2>1. PICK n \in Nat : n = Len(text)
    BY <1>9
  <2>2. \A i \in m + 1 .. n : text[i] \in AnyWord
    BY <1>5, <2>1, ElementOfSeq
  <2>3. /\ SubSeq(text, m + 1, n) \in Seq(AnyWord)
        /\ Len(SubSeq(text, m + 1, n)) = IF m + 1 <= n THEN n - (m + 1) + 1 ELSE 0
        /\ \A i \in 1 .. n - (m + 1) + 1 : SubSeq(text, m + 1, n)[i] = text[m + 1 + i - 1]
    BY <2>2, m + 1 \in Int, n \in Int, SubSeqProperties
  <2>4. rest = SubSeq(text, m + 1, n)
    BY <1>10, <1>11, <2>1
  <2>5. Len(rest) = n - m
    BY <1>10, <1>11, <2>1, <2>3, <2>4
  <2>6. ASSUME NEW i \in 1 .. n - m
        PROVE  rest[i] = text[m + i]
    <3>1. i \in 1 .. n - (m + 1) + 1 /\ m + 1 + i - 1 = m + i
      BY <2>1
    <3>2. SubSeq(text, m + 1, n)[i] = text[m + 1 + i - 1]
      BY <2>3, <3>1
    <3>3. QED
      BY <2>4, <3>1, <3>2
  <2>7. QED
    BY <2>1, <2>3, <2>4, <2>5, <2>6
<1> HIDE DEF rest
<1>13. \/ StartsBlock(w, e.size) /\ kept = <<>> /\ w.buf # <<>>
       \/ ~StartsBlock(w, e.size) /\ kept = w.buf
  BY DEF kept, StartsBlock
<1>14. Len(text) = Len(kept) + e.size + 1
  BY <1>2, <1>4, <1>5, <1>6
<1>15. QED
  BY <1>1, <1>3, <1>5, <1>7, <1>8, <1>10, <1>11, <1>12, <1>13, <1>14

\* The Writer after a Put, and where the record is.
LEMMA PutPlaces ==
    ASSUME NEW w, CanTake(w), NEW e \in AnyRecord
    PROVE  LET after == AfterPut(w, e)
               place == PlacedAt(w, e).at
               p == Plan(w, e)
           IN  /\ after \in AnyWriter /\ after = [w EXCEPT !.vbn = p.base + p.full, !.buf = p.rest]
               /\ after.vbn = p.base + p.full /\ after.buf = p.rest
               /\ Len(after.buf) \in 0 .. BlockWords - 1
               /\ Start(after.vbn) = Start(p.base) + p.full * BlockWords
               /\ w.vbn <= p.base /\ p.base <= after.vbn
               /\ place = Start(p.base) + Len(p.kept)
               /\ place \in Nat /\ Offset(w) \in Nat /\ Offset(w) <= place
               /\ place = Offset(w) \/ (place = Start(w.vbn + 1) /\ BlockOf(Offset(w)) = w.vbn /\ p.base = w.vbn + 1)
               /\ Offset(after) = place + e.size + 1
               /\ after.vbn = w.vbn => after.buf # <<>>
               /\ noSpan /\ e.size < BlockWords => BlockOf(place) = BlockOf(place + e.size)
               /\ PlacedAt(w, e) = [rec |-> e.rec, size |-> e.size, at |-> place]
<1> DEFINE after == AfterPut(w, e)
           place == PlacedAt(w, e).at
<1>1. /\ w \in AnyWriter /\ w.vbn \in Nat \ {0} /\ w.buf \in Seq(AnyWord) /\ Len(w.buf) \in Nat
      /\ Len(w.buf) < BlockWords /\ BlockWords \in Nat \ {0} /\ e.size \in Nat
  BY BoundTypes, LenProperties DEF CanTake, AnyWriter, AnyRecord
<1>2. PICK p : p = Plan(w, e)
  OBVIOUS
<1>3. /\ p.kept \in Seq(AnyWord) /\ p.text \in Seq(AnyWord) /\ p.rest \in Seq(AnyWord)
      /\ Len(p.text) = Len(p.kept) + e.size + 1
      /\ p.full \in Nat /\ p.full * BlockWords \in Nat
      /\ p.full * BlockWords <= Len(p.text) /\ Len(p.text) < p.full * BlockWords + BlockWords
      /\ Len(p.rest) = Len(p.text) - p.full * BlockWords
      /\ \/ StartsBlock(w, e.size) /\ p.base = w.vbn + 1 /\ p.kept = <<>> /\ w.buf # <<>>
         \/ ~StartsBlock(w, e.size) /\ p.base = w.vbn /\ p.kept = w.buf
  BY <1>2, PlanParts, Zenon
<1>4. p.base \in Nat \ {0} /\ p.base + p.full \in Nat \ {0} /\ w.vbn <= p.base /\ p.base <= p.base + p.full
  <2>1. p.base = w.vbn + 1 \/ p.base = w.vbn
    BY <1>3
  <2>2. p.full \in Nat /\ w.vbn \in Nat \ {0}
    BY <1>1, <1>3
  <2>3. QED
    BY ONLY <2>1, <2>2
<1>5. after = [w EXCEPT !.vbn = p.base + p.full, !.buf = p.rest]
  BY <1>2 DEF AfterPut
<1>6. after \in AnyWriter /\ after.vbn = p.base + p.full /\ after.buf = p.rest
  BY <1>1, <1>3, <1>4, <1>5 DEF AnyWriter
<1>7. Len(p.kept) \in Nat /\ Len(p.text) \in Nat /\ Len(p.rest) \in Nat
  BY <1>3, LenProperties
<1>8. Start(p.base) \in Nat /\ Start(p.base + p.full) = Start(p.base) + p.full * BlockWords
  BY <1>3, <1>4, Starts
<1>9. Start(w.vbn) \in Nat /\ Start(w.vbn + 1) = Start(w.vbn) + BlockWords
  BY <1>1, Starts
<1>10. Offset(w) = Start(w.vbn) + Len(w.buf) /\ Offset(after) = Start(p.base) + Len(p.text)
  BY <1>3, <1>6, <1>7, <1>8 DEF Offset
<1>11. /\ place = Start(p.base) + Len(p.kept)
       /\ PlacedAt(w, e) = [rec |-> e.rec, size |-> e.size, at |-> place]
       /\ place = Offset(w) \/ (place = Start(w.vbn + 1) /\ p.base = w.vbn + 1)
  <2>1. CASE StartsBlock(w, e.size)
    <3>1. p.kept = <<>> /\ Len(p.kept) = 0 /\ p.base = w.vbn + 1
      BY <1>3, <2>1, EmptySeq
    <3>2. place = Start(w.vbn + 1) /\ PlacedAt(w, e) = [rec |-> e.rec, size |-> e.size, at |-> place]
      BY <2>1 DEF PlacedAt
    <3>3. QED
      BY <1>8, <3>1, <3>2
  <2>2. CASE ~StartsBlock(w, e.size)
    <3>1. p.kept = w.buf /\ p.base = w.vbn
      BY <1>3, <2>2
    <3>2. place = Offset(w) /\ PlacedAt(w, e) = [rec |-> e.rec, size |-> e.size, at |-> place]
      BY <2>2 DEF PlacedAt
    <3>3. QED
      BY <1>10, <3>1, <3>2
  <2>3. QED
    BY <2>1, <2>2
<1>12. Offset(w) \in Nat /\ place \in Nat /\ Offset(w) <= place /\ BlockOf(Offset(w)) = w.vbn
  <2>1. Offset(w) \in Nat /\ Start(w.vbn) <= Offset(w) /\ Offset(w) < Start(w.vbn) + BlockWords
    BY <1>1, <1>9, <1>10
  <2>2. BlockOf(Offset(w)) = w.vbn
    BY <1>1, <2>1, InBlock
  <2>3. place \in Nat /\ Offset(w) <= place
    BY <1>1, <1>7, <1>8, <1>9, <1>11, <2>1
  <2>4. QED
    BY <2>1, <2>2, <2>3
<1>13. Offset(after) = place + e.size + 1
  BY <1>1, <1>3, <1>7, <1>8, <1>10, <1>11, SMTT(30)
<1>14. after.vbn = w.vbn => after.buf # <<>>
  <2>1. SUFFICES ASSUME after.vbn = w.vbn PROVE after.buf # <<>>
    OBVIOUS
  <2>2. p.full = 0 /\ p.full * BlockWords = 0
    BY <1>1, <1>3, <1>4, <1>6, <2>1
  <2>3. Len(p.rest) > 0
    <3>1. /\ Len(p.kept) \in Nat /\ e.size \in Nat /\ Len(p.rest) = Len(p.text) - p.full * BlockWords
          /\ Len(p.text) = Len(p.kept) + e.size + 1
      BY <1>1, <1>3, <1>7
    <3>2. QED
      BY ONLY <2>2, <3>1
  <2>4. QED
    BY <1>6, <2>3, EmptySeq
<1>15. ASSUME noSpan, e.size < BlockWords
       PROVE  BlockOf(place) = BlockOf(place + e.size)
  <2>1. Len(p.kept) + e.size < BlockWords
    <3>1. CASE StartsBlock(w, e.size)
      BY <1>1, <1>3, <1>15, <3>1, EmptySeq
    <3>2. CASE w.buf = <<>> /\ ~StartsBlock(w, e.size)
      BY <1>1, <1>3, <1>15, <3>2, EmptySeq
    <3>3. CASE w.buf # <<>> /\ ~StartsBlock(w, e.size)
      BY <1>1, <1>3, <1>15, <3>3 DEF StartsBlock
    <3>4. QED
      BY <3>1, <3>2, <3>3
  <2>2. BlockOf(place) = p.base
    BY <1>1, <1>4, <1>7, <1>8, <1>11, <1>12, <2>1, InBlock, SMTT(30)
  <2>3. place + e.size \in Nat /\ Start(p.base) <= place + e.size /\ place + e.size < Start(p.base) + BlockWords
    BY <1>1, <1>7, <1>8, <1>11, <1>12, <2>1, SMTT(30)
  <2>4. BlockOf(place + e.size) = p.base
    BY <1>4, <2>3, InBlock
  <2>5. QED
    BY <2>2, <2>4
<1>16. Len(after.buf) \in 0 .. BlockWords - 1
  BY <1>1, <1>3, <1>6, <1>7
<1>17. QED
  BY <1>2, <1>4, <1>5, <1>6, <1>8, <1>11, <1>12, <1>13, <1>14, <1>15, <1>16

\* The last block a Put writes.
LastPut(w, after) == IF w.shared /\ after.buf # <<>> THEN after.vbn ELSE after.vbn - 1

\* Word q of the blocks `writes`.
WordOf(writes, q) == writes[BlockOf(q)][q - Start(BlockOf(q)) + 1]

\* Which blocks a Put writes, and the words of those of the record.
LEMMA PutBlocks ==
    ASSUME NEW w, CanTake(w), NEW e \in AnyRecord
    PROVE  LET after == AfterPut(w, e)
               p == Plan(w, e)
               writes == PutWrites(w, e)
           IN  /\ DOMAIN writes = w.vbn .. LastPut(w, after)
               /\ LastPut(w, after) \in Nat /\ w.vbn <= LastPut(w, after) + 1
               /\ \A b \in DOMAIN writes : writes[b] \in [1 .. BlockWords -> AnyWord]
               /\ w.vbn \in DOMAIN writes /\ w.vbn < p.base => writes[w.vbn] = FinalBlock(w.buf)
               /\ \A q \in Nat : Start(p.base) <= q /\ q < Offset(after) /\ BlockOf(q) \in DOMAIN writes
                                 => WordOf(writes, q) = p.text[q - Start(p.base) + 1]
               /\ \A q \in Nat : Start(after.vbn) <= q /\ q < Offset(after)
                                 => after.buf[q - Start(after.vbn) + 1] = p.text[q - Start(p.base) + 1]
<1> DEFINE after == AfterPut(w, e)
           writes == PutWrites(w, e)
           last == LastPut(w, after)
<1>1. /\ w.vbn \in Nat \ {0} /\ w.buf \in Seq(AnyWord) /\ Len(w.buf) < BlockWords
      /\ BlockWords \in Nat \ {0} /\ e.size \in Nat /\ Len(w.buf) \in Nat
  BY BoundTypes, LenProperties DEF CanTake, AnyWriter, AnyRecord
<1>2. PICK p : p = Plan(w, e)
  OBVIOUS
<1>3. /\ p.kept \in Seq(AnyWord) /\ p.text \in Seq(AnyWord) /\ p.rest \in Seq(AnyWord)
      /\ p.full \in Nat /\ p.full * BlockWords \in Nat
      /\ p.full * BlockWords <= Len(p.text) /\ Len(p.text) < p.full * BlockWords + BlockWords
      /\ Len(p.rest) = Len(p.text) - p.full * BlockWords
      /\ \A i \in 1 .. Len(p.rest) : p.rest[i] = p.text[p.full * BlockWords + i]
  BY <1>2, PlanParts, ZenonT(60)
<1>4. /\ after.vbn = p.base + p.full /\ after.buf = p.rest /\ after \in AnyWriter
      /\ Start(after.vbn) = Start(p.base) + p.full * BlockWords
      /\ w.vbn <= p.base /\ p.base <= after.vbn
      /\ after.vbn = w.vbn => after.buf # <<>>
  BY <1>2, PutPlaces, Zenon
<1>5. p.base = w.vbn \/ p.base = w.vbn + 1
  BY <1>2, PlanParts, Zenon
<1>6. p.base \in Nat \ {0} /\ after.vbn \in Nat \ {0} /\ Len(p.text) \in Nat /\ Len(p.rest) \in Nat
  <2>1. p.base \in Nat \ {0} /\ p.full \in Nat
    BY ONLY <1>1, <1>3, <1>5
  <2>2. Len(p.text) \in Nat /\ Len(p.rest) \in Nat
    BY <1>3, LenProperties
  <2>3. QED
    BY <1>4, <2>1, <2>2
<1> HIDE DEF after
<1>7. last = p.base + p.full - (IF w.shared /\ p.rest # <<>> THEN 0 ELSE 1)
  BY <1>3, <1>4, <1>6 DEF LastPut
<1>8. writes = [b \in w.vbn .. last |->
           IF b < p.base THEN FinalBlock(w.buf)
           ELSE IF b < p.base + p.full
                THEN SubSeq(p.text, (b - p.base) * BlockWords + 1, (b - p.base + 1) * BlockWords)
                ELSE FinalBlock(p.rest)]
  BY <1>2, <1>7 DEF PutWrites
<1> HIDE DEF writes
<1>9. last \in Nat /\ w.vbn <= last + 1 /\ (last = after.vbn \/ last = after.vbn - 1) /\ (last = after.vbn => p.rest # <<>>)
  BY <1>1, <1>4, <1>6 DEF LastPut
<1> HIDE DEF last
<1>10. ASSUME NEW b \in w.vbn .. last, b < p.base
       PROVE  b = w.vbn /\ writes[b] = FinalBlock(w.buf)
  BY <1>1, <1>5, <1>8, <1>9, <1>10
<1>11. ASSUME NEW b \in w.vbn .. last, ~(b < p.base), b < p.base + p.full
       PROVE  /\ writes[b] \in [1 .. BlockWords -> AnyWord]
              /\ \A i \in 1 .. BlockWords : writes[b][i] = p.text[Start(b) - Start(p.base) + i]
  <2>1. PICK n \in Nat : n = b - p.base /\ b = p.base + n /\ n + 1 <= p.full
    <3>1. p.base \in Nat /\ p.full \in Nat /\ b \in Int /\ ~(b < p.base) /\ b < p.base + p.full
      BY <1>1, <1>3, <1>6, <1>9, <1>11
    <3>2. b - p.base \in Nat /\ b = p.base + (b - p.base) /\ b - p.base + 1 <= p.full
      BY ONLY <3>1
    <3>3. QED
      BY <3>2
  <2>2. /\ n * BlockWords \in Nat /\ (n + 1) * BlockWords = n * BlockWords + BlockWords
        /\ (n + 1) * BlockWords <= p.full * BlockWords
    <3>1. BlockWords \in Nat \ {0} /\ p.full \in Nat /\ n + 1 \in Nat /\ n + 1 <= p.full
      BY <1>1, <1>3, <2>1, SMTT(30)
    <3>2. n * BlockWords \in Nat /\ (n + 1) * BlockWords = n * BlockWords + BlockWords
      BY ONLY n \in Nat, <3>1
    <3>3. (n + 1) * BlockWords <= p.full * BlockWords
      BY <3>1, ProductsAreOrdered
    <3>4. QED
      BY <3>2, <3>3
  <2>3. PICK m \in Nat : m = n * BlockWords /\ m + BlockWords <= Len(p.text) /\ m + BlockWords = (n + 1) * BlockWords
    <3>1. n * BlockWords \in Nat /\ n * BlockWords + BlockWords <= Len(p.text)
      BY <1>1, <1>3, <1>6, <2>2
    <3>2. QED
      BY <2>2, <3>1
  <2>4. Start(b) - Start(p.base) = m
    <3>1. Start(p.base + n) = Start(p.base) + n * BlockWords /\ Start(p.base) \in Nat
      BY <1>6, Starts
    <3>2. Start(b) = Start(p.base) + m
      BY <2>1, <2>3, <3>1
    <3>3. QED
      BY <3>1, <3>2
  <2>5. PICK lo \in Int : lo = m + 1
    OBVIOUS
  <2>6. PICK hi \in Int : hi = m + BlockWords
    BY <1>1
  <2>7. writes[b] = SubSeq(p.text, lo, hi)
    BY <1>8, <1>11, <2>1, <2>3, <2>5, <2>6
  <2>8. \A i \in lo .. hi : p.text[i] \in AnyWord
    <3>1. \A i \in 1 .. Len(p.text) : p.text[i] \in AnyWord
      BY <1>3, ElementOfSeq
    <3>2. \A i \in lo .. hi : i \in 1 .. Len(p.text)
      BY <1>1, <1>6, <2>3, <2>5, <2>6
    <3>3. QED
      BY <3>1, <3>2
  <2>9. /\ writes[b] \in Seq(AnyWord)
        /\ Len(writes[b]) = IF lo <= hi THEN hi - lo + 1 ELSE 0
        /\ \A i \in 1 .. hi - lo + 1 : writes[b][i] = p.text[lo + i - 1]
    BY <2>7, <2>8, SubSeqProperties
  <2>10. Len(writes[b]) = BlockWords /\ hi - lo + 1 = BlockWords
    BY <1>1, <2>5, <2>6, <2>9
  <2>11. writes[b] \in [1 .. BlockWords -> AnyWord]
    BY <2>9, <2>10, LenProperties
  <2>12. ASSUME NEW i \in 1 .. BlockWords
         PROVE  writes[b][i] = p.text[Start(b) - Start(p.base) + i]
    <3>1. lo + i - 1 = Start(b) - Start(p.base) + i
      BY <1>1, <2>4, <2>5
    <3>2. writes[b][i] = p.text[lo + i - 1]
      BY <2>9, <2>10
    <3>3. QED
      BY <3>1, <3>2
  <2>13. QED
    BY <2>11, <2>12
<1>12. ASSUME NEW b \in w.vbn .. last, ~(b < p.base), ~(b < p.base + p.full)
       PROVE  writes[b] = FinalBlock(p.rest) /\ b = after.vbn
  BY <1>3, <1>4, <1>6, <1>8, <1>9, <1>12
<1>13. Len(p.rest) < BlockWords
  BY <1>1, <1>3, <1>6
<1>14. ASSUME NEW b \in w.vbn .. last
       PROVE  writes[b] \in [1 .. BlockWords -> AnyWord]
  <2>1. CASE b < p.base
    BY <1>1, <1>10, <2>1, FinalBlockIsBlock
  <2>2. CASE ~(b < p.base) /\ b < p.base + p.full
    BY <1>11, <2>2
  <2>3. CASE ~(b < p.base) /\ ~(b < p.base + p.full)
    <3>1. Len(p.rest) <= BlockWords
      BY <1>1, <1>6, <1>13
    <3>2. QED
      BY <1>3, <1>12, <2>3, <3>1, FinalBlockIsBlock
  <2>4. QED
    BY <2>1, <2>2, <2>3
<1>15. Offset(after) = Start(after.vbn) + Len(p.rest) /\ Start(after.vbn) \in Nat /\ Start(p.base) \in Nat
  BY <1>4, <1>6, Starts DEF Offset
<1>16. ASSUME NEW q \in Nat, Start(after.vbn) <= q, q < Offset(after)
       PROVE  /\ q - Start(after.vbn) + 1 \in 1 .. Len(p.rest)
              /\ after.buf[q - Start(after.vbn) + 1] = p.text[q - Start(p.base) + 1]
  <2>1. PICK i \in 1 .. Len(p.rest) : i = q - Start(after.vbn) + 1
    BY <1>6, <1>15, <1>16
  <2>2. PICK m \in Nat : m = p.full * BlockWords
    BY <1>3
  <2>3. m + i = q - Start(p.base) + 1
    BY <1>4, <1>15, <2>1, <2>2, SMTT(30)
  <2>4. QED
    BY <1>3, <1>4, <2>1, <2>2, <2>3
<1>17. ASSUME NEW q \in Nat, Start(p.base) <= q, q < Offset(after), BlockOf(q) \in w.vbn .. last
       PROVE  WordOf(writes, q) = p.text[q - Start(p.base) + 1]
  <2>1. PICK b \in w.vbn .. last : b = BlockOf(q)
    BY <1>17
  <2>2. /\ b \in Nat \ {0} /\ Start(b) \in Nat /\ Start(b) <= q /\ q < Start(b) + BlockWords
        /\ ~(b < p.base)
    <3>1. b \in Nat \ {0} /\ Start(b) \in Nat /\ Start(b) <= q /\ q < Start(b) + BlockWords
      BY <2>1, Places
    <3>2. p.base <= b
      BY <1>6, <1>17, <2>1, PlaceOrder
    <3>3. QED
      BY <1>6, <3>1, <3>2
  <2>3. PICK i \in 1 .. BlockWords : i = q - Start(b) + 1
    BY <1>1, <2>2
  <2>4. WordOf(writes, q) = writes[b][i]
    BY <2>1, <2>3 DEF WordOf
  <2>5. CASE b < p.base + p.full
    <3>1. writes[b][i] = p.text[Start(b) - Start(p.base) + i]
      BY <1>11, <2>2, <2>5
    <3>2. Start(b) - Start(p.base) + i = q - Start(p.base) + 1
      BY <1>15, <2>2, <2>3
    <3>3. QED
      BY <2>4, <3>1, <3>2
  <2>6. CASE ~(b < p.base + p.full)
    <3>1. writes[b] = FinalBlock(p.rest) /\ b = after.vbn
      BY <1>12, <2>2, <2>6
    <3>2. i \in 1 .. Len(p.rest) /\ p.rest[i] = p.text[q - Start(p.base) + 1]
      BY <1>4, <1>16, <1>17, <2>2, <2>3, <3>1
    <3>3. FinalBlock(p.rest)[i] = p.rest[i]
      <4>1. Len(p.rest) <= BlockWords
        BY <1>1, <1>6, <1>13
      <4>2. QED
        BY <1>3, <3>2, <4>1, FinalBlockIsBlock
    <3>4. QED
      BY <2>4, <3>1, <3>2, <3>3
  <2>7. QED
    BY <2>5, <2>6
<1>18. DOMAIN writes = w.vbn .. last
  BY <1>8
<1>19. QED
  <2>1. w.vbn \in DOMAIN writes /\ w.vbn < p.base => writes[w.vbn] = FinalBlock(w.buf)
    BY <1>10, <1>18
  <2>2. QED
    BY <1>2, <1>9, <1>14, <1>16, <1>17, <1>18, <2>1, Zenon DEF last, writes, after

\* The blocks a Put writes and the buffer it leaves hold the words that were
\* buffered, the mark of the end of the block if one is left, and the record.
LEMMA PutWords ==
    ASSUME NEW w, CanTake(w), NEW e \in AnyRecord
    PROVE  LET after == AfterPut(w, e)
               place == PlacedAt(w, e).at
               writes == PutWrites(w, e)
           IN  /\ \A q \in Nat : BlockOf(q) \in DOMAIN writes =>
                     /\ Start(w.vbn) <= q /\ q < Offset(w) => WordOf(writes, q) = Buffered(w, q)
                     /\ q = Offset(w) /\ q < place => WordOf(writes, q) = EndOfRecords
                     /\ place <= q /\ q < Offset(after) => WordOf(writes, q) = Frame(e)[q - place + 1]
               /\ \A q \in Nat : Start(after.vbn) <= q /\ q < Offset(after) =>
                     /\ q < Offset(w) => Start(w.vbn) <= q /\ Buffered(after, q) = Buffered(w, q)
                     /\ place <= q => Buffered(after, q) = Frame(e)[q - place + 1]
                     /\ q < Offset(w) \/ place <= q
<1> DEFINE after == AfterPut(w, e)
           place == PlacedAt(w, e).at
           writes == PutWrites(w, e)
<1>1. /\ w.vbn \in Nat \ {0} /\ w.buf \in Seq(AnyWord) /\ Len(w.buf) < BlockWords
      /\ BlockWords \in Nat \ {0} /\ e.size \in Nat /\ Len(w.buf) \in Nat
  BY BoundTypes, LenProperties DEF CanTake, AnyWriter, AnyRecord
<1>2. PICK p : p = Plan(w, e)
  OBVIOUS
<1>3. /\ p.kept \in Seq(AnyWord)
      /\ \A i \in 1 .. Len(p.kept) : p.text[i] = p.kept[i]
      /\ \A i \in 1 .. e.size + 1 : p.text[Len(p.kept) + i] = Frame(e)[i]
      /\ \/ StartsBlock(w, e.size) /\ p.base = w.vbn + 1 /\ p.kept = <<>> /\ w.buf # <<>>
         \/ ~StartsBlock(w, e.size) /\ p.base = w.vbn /\ p.kept = w.buf
  BY <1>2, PlanParts, Zenon
<1>4. /\ w.vbn <= p.base /\ p.base <= after.vbn /\ after \in AnyWriter
      /\ place = Start(p.base) + Len(p.kept)
      /\ place \in Nat /\ Offset(w) \in Nat /\ Offset(w) <= place
      /\ place = Offset(w) \/ (place = Start(w.vbn + 1) /\ BlockOf(Offset(w)) = w.vbn /\ p.base = w.vbn + 1)
      /\ Offset(after) = place + e.size + 1
  BY <1>2, PutPlaces, Zenon
<1>5. /\ DOMAIN writes = w.vbn .. LastPut(w, after)
      /\ w.vbn \in DOMAIN writes /\ w.vbn < p.base => writes[w.vbn] = FinalBlock(w.buf)
      /\ \A q \in Nat : Start(p.base) <= q /\ q < Offset(after) /\ BlockOf(q) \in DOMAIN writes
                        => WordOf(writes, q) = p.text[q - Start(p.base) + 1]
      /\ \A q \in Nat : Start(after.vbn) <= q /\ q < Offset(after)
                        => after.buf[q - Start(after.vbn) + 1] = p.text[q - Start(p.base) + 1]
  BY <1>2, PutBlocks, Zenon
<1>6. Len(p.kept) \in Nat /\ p.base \in Nat \ {0} /\ after.vbn \in Nat \ {0}
  <2>1. Len(p.kept) \in Nat
    BY <1>3, LenProperties
  <2>2. p.base = w.vbn + 1 \/ p.base = w.vbn
    BY <1>3
  <2>3. p.base \in Nat \ {0}
    BY ONLY <1>1, <2>2
  <2>4. QED
    BY <1>4, <2>1, <2>3 DEF AnyWriter
<1> HIDE DEF after, place, writes
<1>7. /\ Start(w.vbn) \in Nat /\ Start(p.base) \in Nat /\ Start(after.vbn) \in Nat
      /\ Start(w.vbn + 1) = Start(w.vbn) + BlockWords
      /\ Start(w.vbn) <= Start(p.base) /\ Start(p.base) <= Start(after.vbn)
      /\ Offset(w) = Start(w.vbn) + Len(w.buf)
  BY <1>1, <1>4, <1>6, Starts DEF Offset
<1>8. ASSUME NEW q \in Nat, place <= q, q < Offset(after)
      PROVE  p.text[q - Start(p.base) + 1] = Frame(e)[q - place + 1]
  <2>1. PICK i \in 1 .. e.size + 1 : i = q - place + 1
    BY <1>1, <1>4, <1>8
  <2>2. q - Start(p.base) + 1 = Len(p.kept) + i
    <3>1. Start(p.base) \in Nat /\ Len(p.kept) \in Nat /\ place = Start(p.base) + Len(p.kept) /\ i = q - place + 1
      BY <1>4, <1>6, <1>7, <2>1
    <3>2. QED
      BY ONLY <3>1, q \in Nat
  <2>3. QED
    BY <1>3, <2>1, <2>2
<1>9. CASE place = Offset(w) /\ p.base = w.vbn /\ p.kept = w.buf
  <2>1. ASSUME NEW q \in Nat, Start(w.vbn) <= q, q < Offset(w)
        PROVE  p.text[q - Start(p.base) + 1] = Buffered(w, q)
    <3>1. PICK i \in 1 .. Len(w.buf) : i = q - Start(w.vbn) + 1
      BY <1>1, <1>7, <2>1
    <3>2. p.text[i] = w.buf[i]
      BY <1>3, <1>9
    <3>3. QED
      BY <1>9, <3>1, <3>2 DEF Buffered
  <2>2. ASSUME NEW q \in Nat, BlockOf(q) \in DOMAIN writes
        PROVE  /\ Start(w.vbn) <= q /\ q < Offset(w) => WordOf(writes, q) = Buffered(w, q)
               /\ ~(q = Offset(w) /\ q < place)
               /\ place <= q /\ q < Offset(after) => WordOf(writes, q) = Frame(e)[q - place + 1]
    <3>1. q < Offset(w) => q < Offset(after)
      BY <1>1, <1>4, <1>9
    <3>2. place <= q => Start(p.base) <= q
      BY <1>1, <1>7, <1>9
    <3>3. ~(q = Offset(w) /\ q < place)
      BY <1>4, <1>9
    <3>4. Start(w.vbn) <= q /\ q < Offset(w) => WordOf(writes, q) = Buffered(w, q)
      BY <1>5, <1>9, <2>1, <2>2, <3>1
    <3>5. place <= q /\ q < Offset(after) => WordOf(writes, q) = Frame(e)[q - place + 1]
      BY <1>5, <1>8, <2>2, <3>2
    <3>6. QED
      BY <3>3, <3>4, <3>5
  <2>3. ASSUME NEW q \in Nat, Start(after.vbn) <= q, q < Offset(after)
        PROVE  /\ q < Offset(w) => Start(w.vbn) <= q /\ Buffered(after, q) = Buffered(w, q)
               /\ place <= q => Buffered(after, q) = Frame(e)[q - place + 1]
               /\ q < Offset(w) \/ place <= q
    <3>1. Buffered(after, q) = p.text[q - Start(p.base) + 1] /\ Start(w.vbn) <= q
      BY <1>5, <1>7, <2>3 DEF Buffered
    <3>2. q < Offset(w) \/ place <= q
      BY <1>4, <1>9
    <3>3. QED
      BY <1>8, <2>1, <2>3, <3>1, <3>2
  <2>4. QED
    BY <2>2, <2>3, Zenon DEF after, place, writes
<1>10. CASE place = Start(w.vbn + 1) /\ p.base = w.vbn + 1 /\ p.kept = <<>> /\ BlockOf(Offset(w)) = w.vbn
  <2>1. place = Start(p.base) /\ w.vbn < p.base /\ Offset(w) < place
    BY <1>1, <1>7, <1>10
  <2>2. ASSUME NEW q \in Nat, BlockOf(q) \in DOMAIN writes, Start(w.vbn) <= q, q <= Offset(w)
        PROVE  /\ q < Offset(w) => WordOf(writes, q) = Buffered(w, q)
               /\ q = Offset(w) => WordOf(writes, q) = EndOfRecords
    <3>1. BlockOf(q) = w.vbn
      <4>1. q < Start(w.vbn) + BlockWords
        BY <1>1, <1>7, <2>2
      <4>2. QED
        BY <1>1, <2>2, <4>1, InBlock
    <3>2. WordOf(writes, q) = FinalBlock(w.buf)[q - Start(w.vbn) + 1]
      BY <1>5, <2>1, <2>2, <3>1 DEF WordOf
    <3>3. /\ \A i \in 1 .. Len(w.buf) : FinalBlock(w.buf)[i] = w.buf[i]
          /\ FinalBlock(w.buf)[Len(w.buf) + 1] = EndOfRecords
      BY <1>1, FinalBlockIsBlock
    <3>4. PICK i \in Nat : i = q - Start(w.vbn) + 1
      BY <1>7, <2>2
    <3>5. q < Offset(w) => i \in 1 .. Len(w.buf)
      BY <1>1, <1>7, <2>2, <3>4
    <3>6. q = Offset(w) => i = Len(w.buf) + 1
      BY <1>1, <1>7, <3>4, SMTT(30)
    <3>7. QED
      BY <3>2, <3>3, <3>4, <3>5, <3>6 DEF Buffered
  <2>3. ASSUME NEW q \in Nat, BlockOf(q) \in DOMAIN writes
        PROVE  /\ Start(w.vbn) <= q /\ q < Offset(w) => WordOf(writes, q) = Buffered(w, q)
               /\ q = Offset(w) /\ q < place => WordOf(writes, q) = EndOfRecords
               /\ place <= q /\ q < Offset(after) => WordOf(writes, q) = Frame(e)[q - place + 1]
    <3>1. place <= q /\ q < Offset(after) => WordOf(writes, q) = Frame(e)[q - place + 1]
      BY <1>5, <1>8, <2>1, <2>3
    <3>2. Start(w.vbn) <= Offset(w) /\ (q < Offset(w) => q <= Offset(w)) /\ (q = Offset(w) => q <= Offset(w))
      <4>1. Offset(w) \in Nat /\ Start(w.vbn) \in Nat /\ Len(w.buf) \in Nat /\ Offset(w) = Start(w.vbn) + Len(w.buf)
        BY <1>1, <1>4, <1>7
      <4>2. QED
        BY ONLY <4>1, q \in Nat
    <3>3. QED
      BY <2>2, <2>3, <3>1, <3>2
  <2>4. ASSUME NEW q \in Nat, Start(after.vbn) <= q, q < Offset(after)
        PROVE  /\ q < Offset(w) => Start(w.vbn) <= q /\ Buffered(after, q) = Buffered(w, q)
               /\ place <= q => Buffered(after, q) = Frame(e)[q - place + 1]
               /\ q < Offset(w) \/ place <= q
    <3>1. Buffered(after, q) = p.text[q - Start(p.base) + 1]
      BY <1>5, <2>4 DEF Buffered
    <3>2. place <= q /\ ~(q < Offset(w))
      BY <1>4, <1>7, <2>1, <2>4
    <3>3. QED
      BY <1>8, <2>4, <3>1, <3>2
  <2>5. QED
    BY <2>3, <2>4, Zenon DEF after, place, writes
<1>11. QED
  <2>1. p.kept = <<>> => Len(p.kept) = 0
    BY EmptySeq
  <2>2. p.base = w.vbn + 1 => p.kept = <<>> /\ p.base # w.vbn
    BY <1>1, <1>3
  <2>3. p.base = w.vbn => p.kept = w.buf
    BY <1>1, <1>3
  <2>4. p.base = w.vbn => place = Offset(w)
    BY <1>7, <1>4, <2>3
  <2>5. p.base = w.vbn + 1 => place = Start(w.vbn + 1)
    BY <1>4, <1>6, <1>7, <2>1, <2>2
  <2>6. p.base = w.vbn + 1 => BlockOf(Offset(w)) = w.vbn
    BY <1>1, <1>4, <1>7, <2>5, InBlock
  <2>7. QED
    BY <1>3, <1>9, <1>10, <2>2, <2>3, <2>4, <2>5, <2>6

-----------------------------------------------------------------------------
(* Words that are records.                                                 *)

\* The places of records are numbers.
LEMMA PlacedParts ==
    ASSUME NEW L \in Seq(AnyPlaced)
    PROVE  /\ Len(L) \in Nat
           /\ \A k \in 1 .. Len(L) : /\ L[k] \in AnyPlaced /\ L[k].at \in Nat /\ L[k].size \in Nat
                                     /\ L[k].rec \in Nat \ {0}
                                     /\ AfterOf(L, k) = L[k].at + L[k].size + 1
           /\ \A k \in 0 .. Len(L) : AfterOf(L, k) \in Nat
<1>1. Len(L) \in Nat
  BY LenProperties
<1>2. ASSUME NEW k \in 1 .. Len(L)
      PROVE  /\ L[k] \in AnyPlaced /\ L[k].at \in Nat /\ L[k].size \in Nat /\ L[k].rec \in Nat \ {0}
             /\ AfterOf(L, k) = L[k].at + L[k].size + 1 /\ AfterOf(L, k) \in Nat
  <2>1. L[k] \in AnyPlaced
    BY ElementOfSeq
  <2>2. k # 0
    BY <1>1
  <2>3. QED
    BY <2>1, <2>2 DEF AnyPlaced, AfterOf
<1>3. AfterOf(L, 0) = 0
  BY DEF AfterOf
<1>4. \A k \in 0 .. Len(L) : k = 0 \/ k \in 1 .. Len(L)
  BY <1>1
<1>5. QED
  BY <1>1, <1>2, <1>3, <1>4

\* What Holds says of a record.
LEMMA HeldRecord ==
    ASSUME NEW whole, NEW V, NEW end \in Nat, NEW L \in Seq(AnyPlaced), Holds(whole, V, end, L),
           NEW k \in 1 .. Len(L)
    PROVE  /\ AfterOf(L, k - 1) \in Nat /\ AfterOf(L, k - 1) < end
           /\ L[k].at \in Nat /\ L[k].size \in Nat /\ L[k].at + L[k].size < end
           /\ NextOf(V, end, AfterOf(L, k - 1)) = L[k].at
           /\ HasRecord(V, end, L[k].at, L[k])
           /\ whole => BlockOf(L[k].at) = BlockOf(L[k].at + L[k].size)
<1>1. /\ NextOf(V, end, AfterOf(L, k - 1)) = L[k].at
      /\ HasRecord(V, end, L[k].at, L[k])
      /\ whole => BlockOf(L[k].at) = BlockOf(L[k].at + L[k].size)
  BY DEF Holds
<1>2. Len(L) \in Nat /\ k - 1 \in 0 .. Len(L)
  BY PlacedParts
<1>3. L[k].at \in Nat /\ L[k].size \in Nat /\ AfterOf(L, k - 1) \in Nat
  BY <1>2, PlacedParts
<1>4. L[k].at + L[k].size < end
  BY <1>1 DEF HasRecord
<1>5. AfterOf(L, k - 1) < end
  BY <1>1, <1>3, <1>4 DEF NextOf
<1>6. QED
  BY <1>1, <1>3, <1>4, <1>5

\* Only the words before the end matter.
LEMMA HoldsSame ==
    ASSUME NEW whole, NEW V, NEW V2, NEW end \in Nat, NEW L \in Seq(AnyPlaced), Holds(whole, V, end, L),
           \A q \in 0 .. end - 1 : V2[q] = V[q]
    PROVE  Holds(whole, V2, end, L)
<1>1. end = AfterOf(L, Len(L))
  BY DEF Holds
<1>2. ASSUME NEW k \in 1 .. Len(L)
      PROVE  /\ NextOf(V2, end, AfterOf(L, k - 1)) = L[k].at
             /\ HasRecord(V2, end, L[k].at, L[k])
             /\ whole => BlockOf(L[k].at) = BlockOf(L[k].at + L[k].size)
  <2>1. /\ AfterOf(L, k - 1) \in Nat /\ AfterOf(L, k - 1) < end
        /\ L[k].at \in Nat /\ L[k].size \in Nat /\ L[k].at + L[k].size < end
        /\ NextOf(V, end, AfterOf(L, k - 1)) = L[k].at
        /\ HasRecord(V, end, L[k].at, L[k])
        /\ whole => BlockOf(L[k].at) = BlockOf(L[k].at + L[k].size)
    BY HeldRecord
  <2>2. V2[AfterOf(L, k - 1)] = V[AfterOf(L, k - 1)]
    BY <2>1
  <2>3. NextOf(V2, end, AfterOf(L, k - 1)) = L[k].at
    BY <2>1, <2>2 DEF NextOf
  <2>4. ASSUME NEW i \in 0 .. L[k].size
        PROVE  V2[L[k].at + i] = V[L[k].at + i]
    <3>1. L[k].at + i \in 0 .. end - 1
      BY <2>1
    <3>2. QED
      BY <3>1
  <2>5. HasRecord(V2, end, L[k].at, L[k])
    BY <2>1, <2>4 DEF HasRecord
  <2>6. QED
    BY <2>1, <2>3, <2>5
<1>3. QED
  BY <1>1, <1>2 DEF Holds

\* The words V2 are those of V up to o, and then record e at `place`.
Extends(whole, V, V2, o, place, e) ==
    /\ o <= place
    /\ \A q \in 0 .. o - 1 : V2[q] = V[q]
    /\ place = o \/ (place = Start(BlockOf(o) + 1) /\ V2[o] = EndOfRecords)
    /\ \A i \in 0 .. e.size : V2[place + i] = Frame(e)[i + 1]
    /\ whole => BlockOf(place) = BlockOf(place + e.size)

\* A record put after those there are makes one more.
LEMMA HoldsAppend ==
    ASSUME NEW whole, NEW V, NEW V2, NEW o \in Nat, NEW L \in Seq(AnyPlaced), Holds(whole, V, o, L),
           NEW place \in Nat, NEW e \in AnyRecord, Extends(whole, V, V2, o, place, e)
    PROVE  Holds(whole, V2, place + e.size + 1, Append(L, [rec |-> e.rec, size |-> e.size, at |-> place]))
<1> DEFINE new == [rec |-> e.rec, size |-> e.size, at |-> place]
           end == place + e.size + 1
<1>1. new \in AnyPlaced /\ new.at = place /\ new.size = e.size /\ e.size \in Nat /\ end \in Nat /\ o < end
  BY DEF AnyPlaced, AnyRecord, Extends
<1>2. Frame(new) = Frame(e)
  BY DEF Frame
<1> HIDE DEF new, end
<1>3. PICK M : M = Append(L, new)
  OBVIOUS
<1>4. /\ M \in Seq(AnyPlaced) /\ Len(M) = Len(L) + 1
      /\ \A i \in 1 .. Len(L) : M[i] = L[i]
      /\ M[Len(L) + 1] = new
  BY <1>1, <1>3, AppendProperties
<1>5. Len(L) \in Nat /\ o = AfterOf(L, Len(L))
  BY PlacedParts DEF Holds
<1>6. \A k \in 0 .. Len(L) : AfterOf(M, k) = AfterOf(L, k)
  BY <1>4, <1>5 DEF AfterOf
<1>7. ASSUME NEW k \in 1 .. Len(L)
      PROVE  /\ NextOf(V2, end, AfterOf(M, k - 1)) = M[k].at
             /\ HasRecord(V2, end, M[k].at, M[k])
             /\ whole => BlockOf(M[k].at) = BlockOf(M[k].at + M[k].size)
  <2>1. /\ AfterOf(L, k - 1) \in Nat /\ AfterOf(L, k - 1) < o
        /\ L[k].at \in Nat /\ L[k].size \in Nat /\ L[k].at + L[k].size < o
        /\ NextOf(V, o, AfterOf(L, k - 1)) = L[k].at
        /\ HasRecord(V, o, L[k].at, L[k])
        /\ whole => BlockOf(L[k].at) = BlockOf(L[k].at + L[k].size)
    BY HeldRecord
  <2>2. M[k] = L[k] /\ AfterOf(M, k - 1) = AfterOf(L, k - 1)
    BY <1>4, <1>5, <1>6
  <2>3. \A q \in 0 .. o - 1 : V2[q] = V[q]
    BY DEF Extends
  <2>4. NextOf(V2, end, AfterOf(L, k - 1)) = L[k].at
    BY <1>1, <2>1, <2>3 DEF NextOf
  <2>5. HasRecord(V2, end, L[k].at, L[k])
    <3>1. \A i \in 0 .. L[k].size : L[k].at + i \in 0 .. o - 1
      BY <2>1
    <3>2. L[k].at + L[k].size < end
      BY <1>1, <2>1
    <3>3. QED
      BY <2>1, <2>3, <3>1, <3>2 DEF HasRecord
  <2>6. QED
    BY <2>1, <2>2, <2>4, <2>5
<1>8. NextOf(V2, end, o) = place
  <2>1. V2[place] = Frame(e)[1]
    <3>1. 0 \in 0 .. e.size /\ place + 0 = place /\ 0 + 1 = 1
      BY <1>1
    <3>2. V2[place + 0] = Frame(e)[0 + 1]
      BY <3>1 DEF Extends
    <3>3. QED
      BY <3>1, <3>2
  <2>2. Frame(e)[1] # EndOfRecords
    BY FrameIsText
  <2>3. QED
    BY <1>1, <2>1, <2>2 DEF NextOf, Extends
<1>9. HasRecord(V2, end, new.at, new)
  BY <1>1, <1>2 DEF HasRecord, Extends, end
<1>10. AfterOf(M, Len(M)) = end
  BY <1>1, <1>4, <1>5 DEF AfterOf, end
<1>11. whole => BlockOf(new.at) = BlockOf(new.at + new.size)
  BY <1>1 DEF Extends
<1>12. ASSUME NEW k \in 1 .. Len(M)
       PROVE  /\ NextOf(V2, end, AfterOf(M, k - 1)) = M[k].at
              /\ HasRecord(V2, end, M[k].at, M[k])
              /\ whole => BlockOf(M[k].at) = BlockOf(M[k].at + M[k].size)
  <2>1. CASE k \in 1 .. Len(L)
    BY <1>7, <2>1
  <2>2. CASE k = Len(L) + 1
    <3>1. M[k] = new /\ AfterOf(M, k - 1) = o
      BY <1>4, <1>5, <1>6, <2>2
    <3>2. QED
      BY <1>1, <1>8, <1>9, <1>11, <3>1
  <2>3. QED
    BY <1>4, <1>5, <2>1, <2>2
<1>13. QED
  BY <1>3, <1>10, <1>12 DEF Holds, new, end

-----------------------------------------------------------------------------
(* What a Put makes of the file.                                           *)

\* A word of the file as it were with w's buffer written.
LEMMA UnderWords ==
    ASSUME NEW w, NEW q \in Nat
    PROVE  /\ Under(w)[q] = IF Start(w.vbn) <= q /\ q < Offset(w) THEN Buffered(w, q) ELSE WordAt(q)
           /\ Under(w)'[q] = IF Start(w.vbn) <= q /\ q < Offset(w) THEN Buffered(w, q) ELSE WordAt(q)'
           /\ Disk[q] = WordAt(q)
           /\ Disk'[q] = WordAt(q)'
BY DEF Under, Buffered, Disk, Offset, Start

\* A Put's blocks are within the file if what it puts is.
LEMMA LastPutBound ==
    ASSUME NEW after \in AnyWriter, Offset(after) <= Capacity, Len(after.buf) < BlockWords, NEW w
    PROVE  /\ LastPut(w, after) <= MaxBlocks
           /\ w.shared => \A q \in Nat : q < Offset(after) => BlockOf(q) <= LastPut(w, after) /\ BlockOf(q) \in Blocks
           /\ \A q \in Nat : q < Start(after.vbn) => BlockOf(q) <= LastPut(w, after) /\ BlockOf(q) \in Blocks
<1>1. /\ after.vbn \in Nat \ {0} /\ Start(after.vbn) \in Nat /\ Len(after.buf) \in Nat
      /\ (after.buf # <<>> => Len(after.buf) > 0)
      /\ Offset(after) = Start(after.vbn) + Len(after.buf) /\ Start(after.vbn + 1) = Start(after.vbn) + BlockWords
  <2>1. after.vbn \in Nat \ {0} /\ after.buf \in Seq(AnyWord)
    BY DEF AnyWriter
  <2>2. Len(after.buf) \in Nat /\ (after.buf # <<>> => Len(after.buf) \in Nat \ {0})
    BY <2>1, LenProperties, EmptySeq
  <2>3. Start(after.vbn) \in Nat /\ Start(after.vbn + 1) = Start(after.vbn) + BlockWords
    BY <2>1, Starts
  <2>4. QED
    BY <2>1, <2>2, <2>3 DEF Offset
<1>2. MaxBlocks \in Nat \ {0} /\ Capacity \in Nat /\ Capacity = Start(MaxBlocks + 1)
  BY BoundTypes, CapacityInBlocks DEF Capacity, Start
<1>3. after.vbn <= MaxBlocks + 1
  <2>1. Start(after.vbn) <= Start(MaxBlocks + 1)
    BY <1>1, <1>2
  <2>2. PICK v \in Nat \ {0} : v = MaxBlocks + 1
    BY <1>2
  <2>3. after.vbn <= v <=> Start(after.vbn) <= Start(v)
    BY <1>1, Starts
  <2>4. QED
    BY <2>1, <2>2, <2>3
<1>4. after.buf # <<>> => after.vbn <= MaxBlocks
  <2>1. after.buf # <<>> => Start(after.vbn) < Capacity
    BY <1>1, <1>2
  <2>2. QED
    BY <1>1, <2>1, CapacityInBlocks DEF Blocks
<1>5. LastPut(w, after) <= MaxBlocks
  BY <1>1, <1>2, <1>3, <1>4 DEF LastPut
<1>6. ASSUME NEW q \in Nat, q < Start(after.vbn)
      PROVE  BlockOf(q) <= LastPut(w, after) /\ BlockOf(q) \in Blocks
  <2>1. BlockOf(q) < after.vbn /\ BlockOf(q) \in Nat \ {0}
    BY <1>1, <1>6, Places, PlaceOrder
  <2>2. q < Capacity
    BY <1>1, <1>2, <1>6
  <2>3. QED
    BY <1>1, <2>1, <2>2, CapacityInBlocks DEF LastPut
<1>7. ASSUME w.shared, NEW q \in Nat, q < Offset(after)
      PROVE  BlockOf(q) <= LastPut(w, after) /\ BlockOf(q) \in Blocks
  <2>1. CASE q < Start(after.vbn)
    BY <1>6, <2>1
  <2>2. CASE ~(q < Start(after.vbn))
    <3>1. after.buf # <<>>
      BY <1>1, <1>7, <2>2, EmptySeq
    <3>2. BlockOf(q) = after.vbn
      BY <1>1, <1>7, <2>2, BoundTypes, InBlock
    <3>3. QED
      BY <1>1, <1>4, <1>7, <3>1, <3>2 DEF LastPut, Blocks
  <2>3. QED
    BY <2>1, <2>2
<1>8. QED
  BY <1>5, <1>6, <1>7

\* What the blocks of a Put make of the file's words: what was there, buffered
\* or not, and the record.
LEMMA PutExtends ==
    ASSUME NEW w, CanTake(w), NEW e \in AnyRecord, NEW after, after = AfterPut(w, e),
           NEW place, place = PlacedAt(w, e).at, NEW writes, writes = PutWrites(w, e),
           Offset(after) <= Capacity, hwm \in Nat,
           Written(writes, w.vbn, LastPut(w, after)),
           \A q \in 0 .. Start(w.vbn) - 1 : BlockOf(q) < hwm,
           noSpan => e.size < BlockWords
    PROVE  /\ Extends(noSpan, Under(w), Under(after)', Offset(w), place, e)
           /\ \A q \in 0 .. Start(after.vbn) - 1 : BlockOf(q) < hwm'
           /\ w.shared => \A q \in 0 .. Offset(after) - 1 : Under(after)'[q] = WordAt(q)' /\ BlockOf(q) < hwm'
<1>1. /\ after \in AnyWriter /\ Len(after.buf) < BlockWords /\ Len(after.buf) \in Nat
      /\ place \in Nat /\ Offset(w) \in Nat /\ Offset(w) <= place
      /\ place = Offset(w) \/ (place = Start(w.vbn + 1) /\ BlockOf(Offset(w)) = w.vbn)
      /\ Offset(after) = place + e.size + 1
      /\ w.vbn <= after.vbn
      /\ BlockOf(place) = BlockOf(place + e.size) \/ ~noSpan
  <2>1. PICK p : p = Plan(w, e)
    OBVIOUS
  <2>2. /\ after \in AnyWriter
        /\ Len(after.buf) \in 0 .. BlockWords - 1
        /\ place \in Nat /\ Offset(w) \in Nat /\ Offset(w) <= place
        /\ place = Offset(w) \/ (place = Start(w.vbn + 1) /\ BlockOf(Offset(w)) = w.vbn)
        /\ Offset(after) = place + e.size + 1
        /\ w.vbn <= p.base /\ p.base <= after.vbn /\ after.vbn = p.base + p.full
        /\ noSpan /\ e.size < BlockWords => BlockOf(place) = BlockOf(place + e.size)
    BY <2>1, PutPlaces, Zenon
  <2>3. p.base = w.vbn \/ p.base = w.vbn + 1
    BY <2>1, PlanParts, Zenon
  <2>4. BlockWords \in Nat /\ w.vbn \in Nat /\ after.vbn \in Nat
    BY <2>2, BoundTypes DEF CanTake, AnyWriter
  <2>5. w.vbn <= after.vbn
    BY ONLY <2>2, <2>3, <2>4
  <2>6. Len(after.buf) \in Nat /\ Len(after.buf) < BlockWords
    BY <2>2, <2>4
  <2>7. QED
    BY <2>2, <2>5, <2>6
<1>2. w.vbn \in Nat \ {0} /\ after.vbn \in Nat \ {0} /\ e.size \in Nat /\ BlockWords \in Nat \ {0}
  BY <1>1, BoundTypes DEF CanTake, AnyWriter, AnyRecord
<1>3. /\ Start(w.vbn) \in Nat /\ Start(after.vbn) \in Nat /\ Start(w.vbn) <= Start(after.vbn)
      /\ Start(w.vbn + 1) = Start(w.vbn) + BlockWords /\ Start(w.vbn) <= Offset(w)
      /\ Offset(after) = Start(after.vbn) + Len(after.buf)
  <2>1. Start(w.vbn) <= Start(after.vbn) /\ Start(w.vbn) \in Nat /\ Start(after.vbn) \in Nat
        /\ Start(w.vbn + 1) = Start(w.vbn) + BlockWords
    BY <1>1, <1>2, Starts
  <2>2. Len(w.buf) \in Nat
    BY LenProperties DEF CanTake, AnyWriter
  <2>3. QED
    BY <1>1, <2>1, <2>2 DEF Offset
<1>4. DOMAIN writes = w.vbn .. LastPut(w, after) /\ LastPut(w, after) \in Nat
  BY PutBlocks, Zenon
<1>5. /\ LastPut(w, after) <= MaxBlocks
      /\ w.shared => \A q \in Nat : q < Offset(after) => BlockOf(q) <= LastPut(w, after) /\ BlockOf(q) \in Blocks
      /\ \A q \in Nat : q < Start(after.vbn) => BlockOf(q) <= LastPut(w, after) /\ BlockOf(q) \in Blocks
  BY <1>1, LastPutBound
<1>6. /\ \A q \in Nat : BlockOf(q) \in DOMAIN writes =>
            /\ Start(w.vbn) <= q /\ q < Offset(w) => WordOf(writes, q) = Buffered(w, q)
            /\ q = Offset(w) /\ q < place => WordOf(writes, q) = EndOfRecords
            /\ place <= q /\ q < Offset(after) => WordOf(writes, q) = Frame(e)[q - place + 1]
      /\ \A q \in Nat : Start(after.vbn) <= q /\ q < Offset(after) =>
            /\ q < Offset(w) => Start(w.vbn) <= q /\ Buffered(after, q) = Buffered(w, q)
            /\ place <= q => Buffered(after, q) = Frame(e)[q - place + 1]
            /\ q < Offset(w) \/ place <= q
  BY PutWords, Zenon
<1>7. \* A place the Put's blocks cover.
      ASSUME NEW q \in Nat, Start(w.vbn) <= q, BlockOf(q) <= LastPut(w, after), BlockOf(q) \in Blocks
      PROVE  WordAt(q)' = WordOf(writes, q) /\ BlockOf(q) < hwm' /\ BlockOf(q) \in DOMAIN writes
  <2>1. BlockOf(q) \in w.vbn .. LastPut(w, after)
    <3>1. w.vbn <= BlockOf(q) /\ BlockOf(q) \in Nat
      BY <1>2, <1>7, Places, PlaceOrder
    <3>2. QED
      BY <1>2, <1>4, <1>7, <3>1
  <2>2. QED
    BY <1>2, <1>4, <1>7, <2>1, WordsWritten DEF WordOf
<1>8. \* A place before them.
      ASSUME NEW q \in Nat, q < Start(w.vbn)
      PROVE  WordAt(q)' = WordAt(q) /\ BlockOf(q) < hwm'
  <2>1. BlockOf(q) < w.vbn /\ BlockOf(q) \in Nat /\ BlockOf(q) < hwm
    <3>1. q \in 0 .. Start(w.vbn) - 1
      BY <1>3, <1>8
    <3>2. QED
      BY <1>2, <1>8, <3>1, Places, PlaceOrder
  <2>2. BlockOf(q) \notin w.vbn .. LastPut(w, after)
    BY <1>2, <1>4, <2>1
  <2>3. BlockOf(q) \in Blocks
    <3>1. q < Start(after.vbn)
      BY <1>3, <1>8
    <3>2. QED
      BY <1>5, <3>1
  <2>4. QED
    BY <1>2, <1>4, <2>1, <2>2, <2>3, WordsWritten
<1>9. \A q \in 0 .. Start(after.vbn) - 1 : BlockOf(q) < hwm'
  BY <1>3, <1>5, <1>7, <1>8
<1>10. ASSUME w.shared, NEW q \in 0 .. Offset(after) - 1
       PROVE  Under(after)'[q] = WordAt(q)' /\ BlockOf(q) < hwm'
  <2>1. q \in Nat /\ q < Offset(after)
    BY <1>1, <1>2
  <2>2. CASE q < Start(w.vbn)
    <3>1. ~(Start(after.vbn) <= q)
      BY <1>3, <2>1, <2>2
    <3>2. QED
      BY <1>8, <2>1, <2>2, <3>1, UnderWords
  <2>3. CASE Start(w.vbn) <= q
    <3>1. WordAt(q)' = WordOf(writes, q) /\ BlockOf(q) < hwm' /\ BlockOf(q) \in DOMAIN writes
      BY <1>5, <1>7, <1>10, <2>1, <2>3
    <3>2. CASE Start(after.vbn) <= q
      <4>1. Under(after)'[q] = Buffered(after, q)
        BY <2>1, <3>2, UnderWords
      <4>2. Buffered(after, q) = WordOf(writes, q)
        BY <1>6, <2>1, <3>1, <3>2
      <4>3. QED
        BY <3>1, <4>1, <4>2
    <3>3. CASE ~(Start(after.vbn) <= q)
      BY <2>1, <3>1, <3>3, UnderWords
    <3>4. QED
      BY <3>2, <3>3
  <2>4. QED
    BY <1>3, <2>1, <2>2, <2>3
<1>11. ASSUME NEW q \in Nat, Start(w.vbn) <= q, q < Offset(after)
       PROVE  /\ q < Offset(w) => Under(after)'[q] = Buffered(w, q)
              /\ q = Offset(w) /\ q < place => Under(after)'[q] = EndOfRecords
              /\ place <= q => Under(after)'[q] = Frame(e)[q - place + 1]
  <2>1. CASE Start(after.vbn) <= q
    <3>1. Under(after)'[q] = Buffered(after, q)
      BY <1>11, <2>1, UnderWords
    <3>2. ~(q = Offset(w) /\ q < place)
      <4>1. q < Offset(w) \/ place <= q
        BY <1>6, <1>11, <2>1
      <4>2. QED
        BY <1>1, <4>1
    <3>3. QED
      BY <1>6, <1>11, <2>1, <3>1, <3>2
  <2>2. CASE ~(Start(after.vbn) <= q)
    <3>1. q < Start(after.vbn)
      BY <1>3, <2>2
    <3>2. WordAt(q)' = WordOf(writes, q) /\ BlockOf(q) \in DOMAIN writes
      BY <1>5, <1>7, <1>11, <3>1
    <3>3. Under(after)'[q] = WordAt(q)'
      BY <2>2, UnderWords
    <3>4. QED
      BY <1>6, <1>11, <3>2, <3>3
  <2>3. QED
    BY <2>1, <2>2
<1>12. ASSUME NEW q \in 0 .. Offset(w) - 1
       PROVE  Under(after)'[q] = Under(w)[q]
  <2>1. q \in Nat /\ q < Offset(w) /\ q < Offset(after)
    BY <1>1, <1>2
  <2>2. CASE Start(w.vbn) <= q
    BY <1>11, <2>1, <2>2, UnderWords
  <2>3. CASE ~(Start(w.vbn) <= q)
    <3>1. q < Start(w.vbn) /\ ~(Start(after.vbn) <= q)
      BY <1>3, <2>1, <2>3
    <3>2. QED
      BY <1>8, <2>1, <2>3, <3>1, UnderWords
  <2>4. QED
    BY <2>2, <2>3
<1>13. place = Offset(w) \/ (place = Start(BlockOf(Offset(w)) + 1) /\ Under(after)'[Offset(w)] = EndOfRecords)
  <2>1. SUFFICES ASSUME place # Offset(w)
                 PROVE  place = Start(BlockOf(Offset(w)) + 1) /\ Under(after)'[Offset(w)] = EndOfRecords
    OBVIOUS
  <2>2. Offset(w) < place /\ Offset(w) < Offset(after) /\ Start(w.vbn) <= Offset(w) /\ Offset(w) \in Nat
    BY <1>1, <1>2, <1>3, <2>1, SMTT(30)
  <2>3. QED
    <3>1. Under(after)'[Offset(w)] = EndOfRecords
      BY <1>11, <2>2
    <3>2. QED
      BY <1>1, <2>1, <3>1
<1>14. ASSUME NEW i \in 0 .. e.size
       PROVE  Under(after)'[place + i] = Frame(e)[i + 1]
  <2>1. PICK q \in Nat : q = place + i
    BY <1>1, <1>2
  <2>2. Start(w.vbn) <= q /\ q < Offset(after) /\ place <= q /\ q - place + 1 = i + 1
    <3>1. /\ place \in Nat /\ Offset(w) \in Nat /\ Start(w.vbn) \in Nat /\ e.size \in Nat
          /\ Start(w.vbn) <= Offset(w) /\ Offset(w) <= place /\ Offset(after) = place + e.size + 1
      BY <1>1, <1>2, <1>3
    <3>2. QED
      BY ONLY <2>1, <3>1, i \in 0 .. e.size
  <2>3. Under(after)'[q] = Frame(e)[q - place + 1]
    BY <1>11, <2>2
  <2>4. QED
    BY <2>1, <2>2, <2>3
<1>15. Extends(noSpan, Under(w), Under(after)', Offset(w), place, e)
  BY <1>1, <1>12, <1>13, <1>14 DEF Extends
<1>16. QED
  BY <1>9, <1>10, <1>15

\* The file's words before its end stay when a Put's blocks are written, all or
\* those up to k.
LEMMA PutKeeps ==
    ASSUME NEW w, CanTake(w), NEW e \in AnyRecord, NEW after, after = AfterPut(w, e),
           NEW writes, writes = PutWrites(w, e), Offset(after) <= Capacity,
           NEW k \in Nat, k <= LastPut(w, after), Written(writes, w.vbn, k),
           hwm \in Nat, eof \in 0 .. Capacity, eof <= Offset(w),
           \A p \in 0 .. eof - 1 : BlockOf(p) < hwm,
           \A p \in Start(w.vbn) .. eof - 1 : Buffered(w, p) = WordAt(p)
    PROVE  \A p \in 0 .. eof - 1 : WordAt(p)' = WordAt(p) /\ BlockOf(p) < hwm'
<1> SUFFICES ASSUME NEW p \in 0 .. eof - 1
             PROVE  WordAt(p)' = WordAt(p) /\ BlockOf(p) < hwm'
  OBVIOUS
<1>1. w.vbn \in Nat \ {0} /\ Start(w.vbn) \in Nat /\ Capacity \in Nat
  BY Starts, CapacityInBlocks DEF CanTake, AnyWriter
<1>2. Offset(w) \in Nat
  BY PutPlaces, Zenon
<1>3. p \in Nat /\ p < eof /\ p < Offset(w) /\ eof \in Nat /\ eof <= Capacity
  BY <1>1, <1>2
<1>4. DOMAIN writes = w.vbn .. LastPut(w, after) /\ LastPut(w, after) \in Nat
  BY PutBlocks, Zenon
<1>5. \A q \in Nat : BlockOf(q) \in DOMAIN writes =>
         (Start(w.vbn) <= q /\ q < Offset(w) => WordOf(writes, q) = Buffered(w, q))
  BY PutWords, Zenon
<1>6. ASSUME Start(w.vbn) <= p, BlockOf(p) \in w.vbn .. k
      PROVE  writes[BlockOf(p)][p - Start(BlockOf(p)) + 1] = WordAt(p)
  <2>1. BlockOf(p) \in DOMAIN writes
    BY <1>1, <1>4, <1>6
  <2>2. WordOf(writes, p) = Buffered(w, p)
    BY <1>3, <1>5, <1>6, <2>1
  <2>3. p \in Start(w.vbn) .. eof - 1
    BY <1>1, <1>3, <1>6
  <2>4. QED
    BY <2>2, <2>3 DEF WordOf
<1>7. BlockOf(p) < hwm
  OBVIOUS
<1>8. QED
  BY <1>1, <1>3, <1>6, <1>7, WritesKeep

-----------------------------------------------------------------------------
(* Writers at the end of the file.                                         *)

\* The words of the file are words.
LEMMA WordTypes ==
    ASSUME RecordTypes, NEW p \in Nat, p < Capacity
    PROVE  WordAt(p) \in AnyWord
<1>1. BlockOf(p) \in Blocks /\ p % BlockWords \in 0 .. BlockWords - 1
  BY CapacityInBlocks, Places
<1>2. (p % BlockWords) + 1 \in 1 .. BlockWords
  BY <1>1, BoundTypes
<1>3. Zero \in AnyWord
  BY DEF Zero, AnyWord
<1>4. data[BlockOf(p)] \in [1 .. BlockWords -> AnyWord]
  BY <1>1 DEF RecordTypes
<1>5. QED
  BY <1>2, <1>3, <1>4 DEF WordAt

\* Going to the end of the file reads back what is before it in its block.
LEMMA AtEnd ==
    ASSUME RecordTypes, NEW w \in AnyWriter, NEW a, a = At(w, eof)
    PROVE  /\ CanTake(a) /\ a = [w EXCEPT !.vbn = BlockOf(eof), !.buf = ReadBack(eof)]
           /\ a.state = w.state /\ a.shared = w.shared /\ a.failed = w.failed
           /\ a.vbn = BlockOf(eof) /\ Len(a.buf) = eof % BlockWords
           /\ Offset(a) = eof /\ Start(a.vbn) \in 0 .. eof
           /\ \A p \in Start(a.vbn) .. eof - 1 : Buffered(a, p) = WordAt(p)
<1>1. eof \in Nat /\ eof <= Capacity /\ Capacity \in Nat
  BY CapacityInBlocks DEF RecordTypes
<1>2. /\ BlockOf(eof) \in Nat \ {0} /\ Start(BlockOf(eof)) \in Nat /\ Start(BlockOf(eof)) <= eof
      /\ eof % BlockWords = eof - Start(BlockOf(eof)) /\ eof % BlockWords \in 0 .. BlockWords - 1
  BY <1>1, Places
<1>3. PICK n \in Nat : n = eof % BlockWords /\ n = eof - Start(BlockOf(eof)) /\ n < BlockWords
  BY <1>2, BoundTypes
<1>4. ReadBack(eof) = [i \in 1 .. n |-> WordAt(Start(BlockOf(eof)) + i - 1)]
  BY <1>3 DEF ReadBack
<1>5. ASSUME NEW i \in 1 .. n
      PROVE  WordAt(Start(BlockOf(eof)) + i - 1) \in AnyWord
  <2>1. Start(BlockOf(eof)) + i - 1 \in Nat /\ Start(BlockOf(eof)) + i - 1 < Capacity
    BY <1>1, <1>2, <1>3
  <2>2. QED
    BY <2>1, WordTypes
<1>6. ReadBack(eof) \in [1 .. n -> AnyWord]
  BY <1>4, <1>5
<1>7. ReadBack(eof) \in Seq(AnyWord)
  BY <1>6, SeqDef
<1>8. Len(ReadBack(eof)) = n
  <2>1. PICK m \in Nat : m = Len(ReadBack(eof)) /\ DOMAIN ReadBack(eof) = 1 .. m
    BY <1>7, LenProperties
  <2>2. 1 .. m = 1 .. n
    BY <1>6, <2>1
  <2>3. m = n
    BY ONLY <2>2, m \in Nat, n \in Nat
  <2>4. QED
    BY <2>1, <2>3
<1>9. a = [w EXCEPT !.vbn = BlockOf(eof), !.buf = ReadBack(eof)]
  BY DEF At
<1>10. /\ a \in AnyWriter /\ a.vbn = BlockOf(eof) /\ a.buf = ReadBack(eof)
       /\ a.state = w.state /\ a.shared = w.shared /\ a.failed = w.failed
  BY <1>2, <1>7, <1>9 DEF AnyWriter
<1>11. Offset(a) = eof
  BY <1>1, <1>2, <1>3, <1>8, <1>10 DEF Offset
<1>12. ASSUME NEW p \in Start(a.vbn) .. eof - 1
       PROVE  Buffered(a, p) = WordAt(p)
  <2>1. PICK i \in 1 .. n : i = p - Start(a.vbn) + 1 /\ Start(BlockOf(eof)) + i - 1 = p
    BY <1>1, <1>2, <1>3, <1>10
  <2>2. QED
    BY <1>4, <1>10, <2>1 DEF Buffered
<1>13. Len(a.buf) < BlockWords /\ Start(a.vbn) \in 0 .. eof
  BY <1>1, <1>2, <1>3, <1>8, <1>10
<1>14. QED
  BY <1>3, <1>8, <1>9, <1>10, <1>11, <1>12, <1>13 DEF CanTake

\* A Writer at the end of the file, its buffer what the file holds, can go on.
LEMMA EndWritable ==
    ASSUME RecordTypes, FileInv, NEW w, CanTake(w), Offset(w) = eof, pending = <<>>,
           \A p \in Start(w.vbn) .. eof - 1 : Buffered(w, p) = WordAt(p)
    PROVE  Writable(w)
<1>1. eof \in Nat /\ eof <= Capacity /\ log \in Seq(AnyPlaced)
  BY CapacityInBlocks DEF RecordTypes
<1>2. Start(w.vbn) \in Nat /\ Start(w.vbn) <= eof
  <2>1. w.vbn \in Nat \ {0} /\ Len(w.buf) \in Nat
    BY LenProperties DEF CanTake, AnyWriter
  <2>2. Start(w.vbn) \in Nat /\ Offset(w) = Start(w.vbn) + Len(w.buf)
    BY <2>1, Starts DEF Offset
  <2>3. QED
    BY ONLY <2>1, <2>2, <1>1, Offset(w) = eof
<1>3. \A p \in 0 .. Start(w.vbn) - 1 : BlockOf(p) < hwm
  BY <1>1, <1>2 DEF FileInv
<1>4. ASSUME NEW q \in 0 .. eof - 1
      PROVE  Under(w)[q] = Disk[q]
  <2>1. q \in Nat /\ q < eof
    BY <1>1
  <2>2. CASE Start(w.vbn) <= q
    BY <1>2, <2>1, <2>2, UnderWords
  <2>3. CASE ~(Start(w.vbn) <= q)
    BY <2>1, <2>3, UnderWords
  <2>4. QED
    BY <2>2, <2>3
<1>5. Holds(noSpan, Under(w), eof, log)
  BY <1>1, <1>4, HoldsSame DEF FileInv
<1>6. log \o pending = log
  BY <1>1, ConcatEmptySeq
<1>7. QED
  BY <1>1, <1>3, <1>5, <1>6 DEF Writable

\* An open Writer that is not shared has the file to itself.
LEMMA OnlyOne ==
    ASSUME Apart, NEW w \in Writers, Ready(w)
    PROVE  /\ w \in Open
           /\ ~writer[w].shared => Alone /\ \A x \in Writers : x # w => ~Ready(x) /\ x \notin Open
           /\ writer[w].shared => ~Alone /\ pending = <<>> /\ \A x \in Open : writer[x].shared
<1>1. w \in Open
  BY DEF Open, Ready
<1>2. ~writer[w].shared => Alone /\ \A x \in Writers : x # w => ~Ready(x) /\ x \notin Open
  <2>1. SUFFICES ASSUME ~writer[w].shared
                 PROVE  Alone /\ \A x \in Writers : x # w => ~Ready(x) /\ x \notin Open
    OBVIOUS
  <2>2. Open = {w}
    BY <1>1, <2>1 DEF Apart
  <2>3. Alone
    BY <1>1, <2>1 DEF Alone
  <2>4. QED
    BY <2>2, <2>3 DEF Ready, Open
<1>3. ASSUME writer[w].shared, NEW x \in Open, ~writer[x].shared
      PROVE  FALSE
  BY <1>1, <1>3 DEF Apart
<1>4. QED
  BY <1>1, <1>2, <1>3 DEF Alone, Apart

\* Where a Put starts, the Writer can write.
LEMMA PositionedWritable ==
    ASSUME RecordInv, NEW w \in Writers, Ready(w), NEW start, start = Positioned(writer[w])
    PROVE  /\ Writable(start) /\ start.state = "open" /\ start.shared = writer[w].shared /\ ~start.failed
           /\ start.shared => Offset(start) = eof /\ Start(start.vbn) \in 0 .. eof
           /\ ~start.shared => start = writer[w]
<1>1. RecordTypes /\ Apart /\ FileInv /\ WriterInv(w) /\ writer[w] \in AnyWriter
  BY DEF RecordInv, RecordTypes
<1>2. CASE ~writer[w].shared
  BY <1>1, <1>2 DEF WriterInv, Positioned, Ready
<1>3. CASE writer[w].shared
  <2>1. start = At(writer[w], eof) /\ pending = <<>>
    BY <1>1, <1>3, OnlyOne DEF Positioned
  <2>2. /\ CanTake(start) /\ start.state = writer[w].state /\ start.shared = writer[w].shared
        /\ start.failed = writer[w].failed /\ Offset(start) = eof /\ Start(start.vbn) \in 0 .. eof
        /\ \A p \in Start(start.vbn) .. eof - 1 : Buffered(start, p) = WordAt(p)
    BY <1>1, <2>1, AtEnd
  <2>3. Writable(start)
    BY <1>1, <2>1, <2>2, EndWritable
  <2>4. QED
    BY <1>3, <2>2, <2>3 DEF Ready
<1>4. QED
  BY <1>2, <1>3

-----------------------------------------------------------------------------
(* What stays when the file only grows.                                    *)

Grows == eof <= eof' /\ \A p \in 0 .. eof - 1 : WordAt(p)' = WordAt(p)

LogGrows ==
    /\ log' \in Seq(AnyPlaced) /\ Len(log) <= Len(log')
    /\ \A k \in 1 .. Len(log) : log'[k] = log[k]

\* A Reader that does nothing stands where it stood.
LEMMA ReadersStay ==
    ASSUME RecordTypes, eof' \in Nat, Grows, LogGrows, reader' = reader, due' = due,
           NEW r \in Readers, ReaderInv(r)
    PROVE  ReaderInv(r)'
<1>1. PICK b : b = reader[r]
  OBVIOUS
<1>2. PICK d \in Nat \ {0} : d = due[r]
  BY DEF RecordTypes
<1>3. b \in [fetched: Nat, buf: Seq(AnyWord)]
  BY <1>1 DEF RecordTypes
<1>4. b.fetched \in Nat /\ Len(b.buf) \in Nat /\ Len(log) \in Nat /\ Len(log') \in Nat /\ eof \in Nat
  BY <1>3, LenProperties, CapacityInBlocks DEF RecordTypes, LogGrows
<1>5. /\ d <= Len(log) + 1 /\ Len(b.buf) <= b.fetched /\ b.fetched <= eof
      /\ \A i \in 1 .. Len(b.buf) : b.buf[i] = WordAt(ReadOffset(b) + i - 1)
      /\ ReadOffset(b) = AfterOf(log, d - 1) \/ (d <= Len(log) /\ ReadOffset(b) = log[d].at)
  BY <1>1, <1>2 DEF ReaderInv
<1>6. d <= Len(log') + 1 /\ b.fetched <= eof'
  BY <1>4, <1>5 DEF Grows, LogGrows
<1>7. ASSUME NEW i \in 1 .. Len(b.buf)
      PROVE  b.buf[i] = WordAt(ReadOffset(b) + i - 1)'
  <2>1. PICK q : q = ReadOffset(b) + i - 1
    OBVIOUS
  <2>2. q \in 0 .. eof - 1
    BY <1>4, <1>5, <2>1, SMTT(30) DEF ReadOffset
  <2>3. WordAt(q)' = WordAt(q)
    BY <2>2 DEF Grows
  <2>4. WordAt(ReadOffset(b) + i - 1)' = WordAt(q)'
    BY <2>1
  <2>5. QED
    BY <1>5, <2>1, <2>3, <2>4
<1>8. AfterOf(log', d - 1) = AfterOf(log, d - 1)
  <2>1. d - 1 = 0 \/ d - 1 \in 1 .. Len(log)
    BY <1>4, <1>5
  <2>2. QED
    BY <2>1 DEF AfterOf, LogGrows
<1>9. ReadOffset(b) = AfterOf(log', d - 1) \/ (d <= Len(log') /\ ReadOffset(b) = log'[d].at)
  <2>1. d <= Len(log) => d <= Len(log') /\ log'[d] = log[d]
    BY <1>4 DEF LogGrows
  <2>2. QED
    BY <1>5, <1>8, <2>1
<1>10. QED
  BY <1>1, <1>2, <1>5, <1>6, <1>7, <1>9 DEF ReaderInv

\* What a shared Writer buffered is in the file still.
LEMMA SharedStays ==
    ASSUME NEW w, CanTake(w), eof \in Nat, eof' \in Nat, Grows, SharedInv(w)
    PROVE  SharedInv(w)'
<1>1. Start(w.vbn) \in Nat /\ Len(w.buf) \in Nat /\ Offset(w) \in Nat
  BY BufferPlaces
<1>2. Offset(w) <= eof'
  BY <1>1 DEF SharedInv, Grows
<1>3. ASSUME NEW p \in Start(w.vbn) .. Offset(w) - 1
      PROVE  Buffered(w, p) = WordAt(p)'
  <2>1. p \in 0 .. eof - 1
    BY <1>1 DEF SharedInv
  <2>2. QED
    BY <2>1 DEF SharedInv, Grows
<1>4. QED
  BY <1>2, <1>3 DEF SharedInv, Buffered, Offset, Start

\* A Writer that does nothing, and shares the file if it is in use.
LEMMA SharersStay ==
    ASSUME RecordInv, eof' \in Nat, Grows, NEW x \in Writers, writer'[x] = writer[x],
           Ready(x) => writer[x].shared
    PROVE  WriterInv(x)'
<1>1. WriterInv(x) /\ eof \in Nat
  BY CapacityInBlocks DEF RecordInv, RecordTypes
<1>2. PICK a : a = writer[x]
  OBVIOUS
<1>3. SUFFICES ASSUME Ready(x)'
               PROVE  CanTake(a) /\ a.shared /\ SharedInv(a)'
  BY <1>2 DEF WriterInv, CanTake
<1>4. Ready(x) /\ a.shared
  BY <1>2, <1>3 DEF Ready
<1>5. CanTake(a) /\ SharedInv(a)
  BY <1>1, <1>2, <1>4 DEF WriterInv
<1>6. QED
  BY <1>1, <1>4, <1>5, SharedStays

\* The Writers other than the one that acts.
LEMMA OthersStay ==
    ASSUME RecordInv, eof' \in Nat, Grows, NEW w \in Open,
           NEW x \in Writers, x # w, writer'[x] = writer[x]
    PROVE  WriterInv(x)'
<1>1. Apart /\ w \in Writers
  BY DEF RecordInv, Open
<1>2. Ready(x) => writer[x].shared
  BY <1>1, OnlyOne
<1>3. QED
  BY <1>2, SharersStay

\* Who has the file does not change when nobody opens or closes.
LEMMA ApartStays ==
    ASSUME Apart, \A x \in Writers : /\ writer'[x].state = writer[x].state
                                     /\ writer'[x].shared = writer[x].shared
                                     /\ writer'[x].failed => writer[x].state = "open",
           ~Alone => pending' = <<>>
    PROVE  Apart'
<1>1. Open' = Open
  BY DEF Open
<1>2. Alone' <=> Alone
  BY <1>1 DEF Alone, Open
<1>3. \A x \in Open' : ~writer'[x].shared => Open' = {x}
  BY <1>1 DEF Apart, Open
<1>4. QED
  BY <1>1, <1>2, <1>3 DEF Apart

\* Who has the file when one lets go of it.
LEMMA ApartDone ==
    ASSUME RecordTypes, Apart, NEW w \in Open, writer' = [writer EXCEPT ![w] = Closed],
           IF writer[w].shared THEN pending' = pending ELSE pending' = <<>>
    PROVE  Apart'
<1>1. w \in Writers /\ \A x \in Writers : writer'[x] = IF x = w THEN Closed ELSE writer[x]
  BY DEF RecordTypes, Open
<1>2. Open' = Open \ {w}
  BY <1>1 DEF Open, Closed
<1>3. ASSUME NEW x \in Open', ~writer'[x].shared
      PROVE  FALSE
  <2>1. x \in Open /\ x # w /\ writer'[x] = writer[x]
    BY <1>1, <1>2, <1>3 DEF Open
  <2>2. Open = {x}
    BY <1>3, <2>1 DEF Apart
  <2>3. QED
    BY <2>1, <2>2
<1>4. \A x \in Writers : writer'[x].failed => writer'[x].state = "open"
  BY <1>1 DEF Apart, Closed
<1>5. pending' = <<>>
  <2>1. CASE writer[w].shared
    <3>1. ~Alone
      <4>1. ASSUME NEW x \in Open, ~writer[x].shared
            PROVE  FALSE
        BY <2>1, <4>1 DEF Apart
      <4>2. QED
        BY <4>1 DEF Alone
    <3>2. QED
      BY <2>1, <3>1 DEF Apart
  <2>2. CASE ~writer[w].shared
    BY <2>2
  <2>3. QED
    BY <2>1, <2>2
<1>6. QED
  BY <1>3, <1>4, <1>5 DEF Apart

-----------------------------------------------------------------------------
(* Flush.                                                                  *)

\* The block a Flush writes, if any.
LastBegun(w) == IF w.buf = <<>> THEN w.vbn - 1 ELSE w.vbn

\* The last block of a Writer that has room for it is written.
LEMMA LastBlockWrites ==
    ASSUME RecordTypes, NEW w, CanTake(w), Offset(w) <= Capacity, WriteBlocks(LastBlock(w), Never)
    PROVE  /\ Written(LastBlock(w), w.vbn, LastBegun(w))
           /\ LastBegun(w) \in Nat /\ LastBegun(w) <= MaxBlocks
           /\ data' \in [Blocks -> [1 .. BlockWords -> AnyWord]]
           /\ hwm' \in 0 .. MaxBlocks + 1 /\ hwm <= hwm'
           /\ maxWritten' = IF w.buf = <<>> THEN maxWritten ELSE Max(maxWritten, w.vbn)
           /\ maxWritten' \in Nat
<1>1. /\ w.vbn \in Nat \ {0} /\ w.buf \in Seq(AnyWord) /\ Len(w.buf) \in Nat /\ Len(w.buf) < BlockWords
      /\ (Len(w.buf) = 0 <=> w.buf = <<>>) /\ Start(w.vbn) \in Nat
      /\ Offset(w) = Start(w.vbn) + Len(w.buf)
  BY BufferPlaces
<1>2. MaxBlocks \in Nat \ {0} /\ Capacity \in Nat /\ Capacity = Start(MaxBlocks + 1) /\ BlockWords \in Nat
  BY BoundTypes, CapacityInBlocks DEF Capacity, Start
<1>3. w.vbn <= MaxBlocks + 1
  <2>1. Start(w.vbn) <= Start(MaxBlocks + 1)
    BY <1>1, <1>2
  <2>2. PICK v \in Nat \ {0} : v = MaxBlocks + 1
    BY <1>2
  <2>3. w.vbn <= v <=> Start(w.vbn) <= Start(v)
    BY <1>1, Starts
  <2>4. QED
    BY <2>1, <2>2, <2>3
<1>4. w.buf # <<>> => w.vbn <= MaxBlocks
  <2>1. w.buf # <<>> => Start(w.vbn) < Capacity
    BY <1>1, <1>2
  <2>2. QED
    BY <1>1, <2>1, CapacityInBlocks DEF Blocks
<1>5. PICK last \in Nat : last = LastBegun(w) /\ w.vbn <= last + 1 /\ last <= MaxBlocks
  BY <1>1, <1>2, <1>3, <1>4 DEF LastBegun
<1>6. PICK writes : writes = LastBlock(w)
  OBVIOUS
<1>7. DOMAIN writes = w.vbn .. last
  <2>1. DOMAIN writes = {v \in {w.vbn} : w.buf # <<>>}
    BY <1>6 DEF LastBlock
  <2>2. CASE w.buf = <<>>
    BY <1>1, <1>5, <2>1, <2>2 DEF LastBegun
  <2>3. CASE w.buf # <<>>
    BY <1>1, <1>5, <2>1, <2>3 DEF LastBegun
  <2>4. QED
    BY <2>2, <2>3
<1>8. \A b \in w.vbn .. last : writes[b] = FinalBlock(w.buf)
  BY <1>6, <1>7 DEF LastBlock
<1>9. Written(writes, w.vbn, last)
  <2>1. Never \in Nat /\ last < Never
    BY <1>2, <1>5 DEF Never
  <2>2. maxWritten \in Nat
    BY DEF RecordTypes
  <2>3. last = IF last < Never THEN last ELSE Never - 1
    BY <2>1
  <2>4. WriteBlocks(writes, Never)
    BY <1>6
  <2>5. QED
    BY <1>1, <1>5, <1>7, <2>1, <2>2, <2>3, <2>4, WriteBlocksWrites
<1>10. \A b \in w.vbn .. last : writes[b] \in [1 .. BlockWords -> AnyWord]
  <2>1. Len(w.buf) <= BlockWords
    BY <1>1, <1>2
  <2>2. FinalBlock(w.buf) \in [1 .. BlockWords -> AnyWord]
    BY <1>1, <2>1, FinalBlockIsBlock
  <2>3. QED
    BY <1>8, <2>2
<1>11. data' \in [Blocks -> [1 .. BlockWords -> AnyWord]]
  BY <1>1, <1>5, <1>9, <1>10, WrittenTypes DEF RecordTypes
<1>12. /\ hwm' \in 0 .. MaxBlocks + 1 /\ hwm <= hwm' /\ maxWritten' \in Nat
       /\ w.vbn <= last => maxWritten' = Max(maxWritten, last)
       /\ ~(w.vbn <= last) => maxWritten' = maxWritten
  BY <1>1, <1>5, <1>9, WrittenBounds DEF RecordTypes
<1>13. IF w.buf = <<>> THEN ~(w.vbn <= last) ELSE last = w.vbn /\ w.vbn <= last
  BY <1>1, <1>5 DEF LastBegun
<1>14. QED
  BY <1>5, <1>6, <1>9, <1>11, <1>12, <1>13

\* What a Flush leaves on disk is what the Writer had written and buffered.
LEMMA FlushedWords ==
    ASSUME RecordTypes, NEW w, Writable(w), WriteBlocks(LastBlock(w), Never)
    PROVE  \A q \in 0 .. Offset(w) - 1 : WordAt(q)' = Under(w)[q] /\ BlockOf(q) < hwm'
<1> SUFFICES ASSUME NEW q \in 0 .. Offset(w) - 1
             PROVE  WordAt(q)' = Under(w)[q] /\ BlockOf(q) < hwm'
  OBVIOUS
<1>1. /\ CanTake(w) /\ Offset(w) <= Capacity /\ Capacity \in Nat /\ hwm \in Nat
      /\ \A p \in 0 .. Start(w.vbn) - 1 : BlockOf(p) < hwm
  BY CapacityInBlocks, BoundTypes DEF Writable, RecordTypes
<1>2. /\ w.vbn \in Nat \ {0} /\ w.buf \in Seq(AnyWord) /\ Len(w.buf) \in Nat /\ Len(w.buf) < BlockWords
      /\ (Len(w.buf) = 0 <=> w.buf = <<>>) /\ Start(w.vbn) \in Nat
      /\ Offset(w) \in Nat /\ Offset(w) = Start(w.vbn) + Len(w.buf)
  BY <1>1, BufferPlaces
<1>3. Written(LastBlock(w), w.vbn, LastBegun(w)) /\ LastBegun(w) \in Nat
  BY <1>1, LastBlockWrites
<1>4. PICK writes : writes = LastBlock(w)
  OBVIOUS
<1>5. q \in Nat /\ q < Offset(w) /\ q < Capacity /\ BlockWords \in Nat
  BY <1>1, <1>2, BoundTypes
<1>6. BlockOf(q) \in Blocks
  BY <1>5, CapacityInBlocks
<1>7. CASE Start(w.vbn) <= q
  <2>1. BlockOf(q) = w.vbn
    BY <1>2, <1>5, <1>7, InBlock
  <2>2. w.buf # <<>>
    BY <1>2, <1>5, <1>7
  <2>3. LastBegun(w) = w.vbn /\ w.vbn \in w.vbn .. LastBegun(w)
    BY <1>2, <2>2 DEF LastBegun
  <2>4. writes[w.vbn] = FinalBlock(w.buf)
    BY <1>4, <2>2 DEF LastBlock
  <2>5. PICK i \in 1 .. Len(w.buf) : i = q - Start(w.vbn) + 1
    BY <1>2, <1>5, <1>7
  <2>6. WordAt(q)' = writes[w.vbn][i] /\ BlockOf(q) < hwm'
    BY <1>1, <1>2, <1>3, <1>4, <1>5, <1>6, <2>1, <2>3, <2>5, WordsWritten, ZenonT(60)
  <2>7. FinalBlock(w.buf)[i] = w.buf[i]
    <3>1. Len(w.buf) <= BlockWords
      BY <1>2, <1>5
    <3>2. QED
      BY <1>2, <2>5, <3>1, FinalBlockIsBlock
  <2>8. Under(w)[q] = w.buf[i]
    BY <1>5, <1>7, <2>5, UnderWords DEF Buffered
  <2>9. QED
    BY <2>4, <2>6, <2>7, <2>8
<1>8. CASE ~(Start(w.vbn) <= q)
  <2>1. BlockOf(q) < w.vbn /\ BlockOf(q) \in Nat /\ BlockOf(q) < hwm
    <3>1. q < Start(w.vbn) /\ q \in 0 .. Start(w.vbn) - 1
      BY <1>2, <1>5, <1>8
    <3>2. QED
      BY <1>1, <1>2, <1>5, <3>1, Places, PlaceOrder
  <2>2. BlockOf(q) \notin w.vbn .. LastBegun(w)
    BY <1>2, <1>3, <2>1
  <2>3. WordAt(q)' = WordAt(q) /\ BlockOf(q) < hwm'
    BY <1>1, <1>2, <1>3, <1>4, <1>5, <1>6, <2>1, <2>2, WordsWritten
  <2>4. QED
    BY <1>5, <1>8, <2>3, UnderWords
<1>9. QED
  BY <1>7, <1>8

\* After a Flush the file is what the Writer made of it.
LEMMA WritableFlushed ==
    ASSUME RecordTypes, FileInv, NEW w, Writable(w), WriteBlocks(LastBlock(w), Never),
           eof' = Offset(w), Published, noSpan' = noSpan
    PROVE  /\ Grows /\ LogGrows /\ FileInv' /\ Writable(w)'
           /\ eof' \in 0 .. Capacity /\ pending' = <<>>
           /\ \A p \in Start(w.vbn) .. Offset(w) - 1 : Buffered(w, p) = WordAt(p)'
<1>1. /\ CanTake(w) /\ Offset(w) <= Capacity /\ eof <= Offset(w)
      /\ \A p \in Start(w.vbn) .. eof - 1 : Buffered(w, p) = WordAt(p)
      /\ Holds(noSpan, Under(w), Offset(w), log \o pending)
  BY DEF Writable
<1>2. /\ Capacity \in Nat /\ eof \in Nat /\ log \in Seq(AnyPlaced) /\ pending \in Seq(AnyPlaced)
      /\ Len(log) \in Nat /\ Len(pending) \in Nat
  BY CapacityInBlocks, LenProperties DEF RecordTypes
<1>3. Start(w.vbn) \in Nat /\ Offset(w) \in Nat /\ Start(w.vbn) <= Offset(w)
  BY <1>1, BufferPlaces
<1>4. PICK end \in Nat : end = Offset(w)
  BY <1>3
<1>5. \A q \in 0 .. end - 1 : WordAt(q)' = Under(w)[q] /\ BlockOf(q) < hwm'
  BY <1>4, FlushedWords
<1>6. PICK all : all = log \o pending
  OBVIOUS
<1>7. /\ all \in Seq(AnyPlaced) /\ Len(all) = Len(log) + Len(pending)
      /\ \A k \in 1 .. Len(log) : all[k] = log[k]
  <2>1. /\ all \in Seq(AnyPlaced) /\ Len(all) = Len(log) + Len(pending)
        /\ \A k \in 1 .. Len(log) + Len(pending) : all[k] = IF k <= Len(log) THEN log[k] ELSE pending[k - Len(log)]
    BY <1>2, <1>6, ConcatProperties
  <2>2. QED
    BY <1>2, <2>1
<1>8. log' = all /\ pending' = <<>>
  BY <1>6 DEF Published
<1>9. LogGrows
  BY <1>2, <1>7, <1>8 DEF LogGrows
<1>10. Grows
  <2>1. ASSUME NEW q \in 0 .. eof - 1
        PROVE  WordAt(q)' = WordAt(q)
    <3>1. q \in Nat /\ q \in 0 .. end - 1 /\ q < Offset(w) /\ WordAt(q)' = Under(w)[q]
      BY <1>1, <1>2, <1>4, <1>5
    <3>2. CASE Start(w.vbn) <= q
      <4>1. q \in Start(w.vbn) .. eof - 1
        BY <1>2, <1>3, <3>1, <3>2
      <4>2. Under(w)[q] = Buffered(w, q)
        BY <3>1, <3>2, UnderWords
      <4>3. QED
        BY <1>1, <3>1, <4>1, <4>2
    <3>3. CASE ~(Start(w.vbn) <= q)
      BY <3>1, <3>3, UnderWords
    <3>4. QED
      BY <3>2, <3>3
  <2>2. QED
    BY <1>1, <2>1 DEF Grows
<1>11. Holds(noSpan, Under(w), end, all)
  BY <1>1, <1>4, <1>6
<1>12. Holds(noSpan', Disk', eof', log')
  <2>1. PICK V : V = Disk'
    OBVIOUS
  <2>2. PICK U : U = Under(w)
    OBVIOUS
  <2>3. \A q \in 0 .. end - 1 : V[q] = U[q]
    BY <1>5, <2>1, <2>2, UnderWords
  <2>4. Holds(noSpan, V, end, all)
    BY <1>7, <1>11, <2>2, <2>3, HoldsSame
  <2>5. QED
    BY <1>4, <1>8, <2>1, <2>4
<1>13. FileInv'
  <2>1. \A p \in 0 .. eof' - 1 : BlockOf(p) < hwm'
    BY <1>4, <1>5
  <2>2. QED
    BY <1>12, <2>1 DEF FileInv, BlockOf
<1>14. \A p \in Start(w.vbn) .. end - 1 : Buffered(w, p) = WordAt(p)'
  <2>1. ASSUME NEW p \in Start(w.vbn) .. end - 1
        PROVE  Buffered(w, p) = WordAt(p)'
    <3>1. p \in Nat /\ p \in 0 .. end - 1 /\ Start(w.vbn) <= p /\ p < Offset(w)
      BY <1>3, <1>4
    <3>2. Under(w)[p] = Buffered(w, p)
      BY <3>1, UnderWords
    <3>3. QED
      BY <1>5, <3>1, <3>2
  <2>2. QED
    BY <2>1
<1>15. Holds(noSpan', Under(w)', Offset(w), log' \o pending')
  <2>1. log' \o pending' = all
    BY <1>7, <1>8, ConcatEmptySeq
  <2>2. PICK V : V = Under(w)'
    OBVIOUS
  <2>3. PICK U : U = Under(w)
    OBVIOUS
  <2>4. \A q \in 0 .. end - 1 : V[q] = U[q]
    <3>1. ASSUME NEW q \in 0 .. end - 1
          PROVE  V[q] = U[q]
      <4>1. q \in Nat /\ WordAt(q)' = Under(w)[q]
        BY <1>4, <1>5
      <4>2. QED
        BY <2>2, <2>3, <4>1, UnderWords
    <3>2. QED
      BY <3>1
  <2>5. Holds(noSpan, V, end, all)
    BY <1>7, <1>11, <2>3, <2>4, HoldsSame
  <2>6. QED
    BY <1>4, <2>1, <2>2, <2>5
<1>16. Writable(w)'
  <2>1. \A p \in 0 .. Start(w.vbn) - 1 : BlockOf(p) < hwm'
    BY <1>3, <1>4, <1>5
  <2>2. \A p \in Start(w.vbn) .. eof' - 1 : Buffered(w, p) = WordAt(p)'
    BY <1>4, <1>14
  <2>3. eof' <= Offset(w)
    BY <1>3
  <2>4. QED
    BY <1>1, <1>15, <2>1, <2>2, <2>3 DEF Writable, CanTake, Offset, Start, Buffered, BlockOf
<1>17. QED
  BY <1>1, <1>2, <1>3, <1>4, <1>8, <1>9, <1>10, <1>13, <1>14, <1>16

-----------------------------------------------------------------------------
(* The actions of Writers.                                                 *)

\* What the runs with shared Writers assume of callers: a file that has content
\* is appended to, and a Writer whose Put failed is let go of.
Civil == ~Replacing /\ ~TriesAgain

\* What a Put of e does to the file.
LEMMA PutFile ==
    ASSUME RecordTypes, FileInv, NEW w, Writable(w), NEW e \in AnyRecord,
           NEW after, after = AfterPut(w, e), NEW place, place = PlacedAt(w, e).at,
           Offset(after) <= Capacity, noSpan => e.size < BlockWords, noSpan' = noSpan,
           WriteBlocks(PutWrites(w, e), Never)
    PROVE  /\ CanTake(after) /\ Offset(after) \in Nat /\ place \in Nat
           /\ [rec |-> e.rec, size |-> e.size, at |-> place] \in AnyPlaced
           /\ PlacedAt(w, e) = [rec |-> e.rec, size |-> e.size, at |-> place]
           /\ Offset(w) <= Offset(after)
           /\ data' \in [Blocks -> [1 .. BlockWords -> AnyWord]]
           /\ hwm' \in 0 .. MaxBlocks + 1 /\ maxWritten' \in Nat
           /\ \A p \in 0 .. eof - 1 : WordAt(p)' = WordAt(p) /\ BlockOf(p) < hwm'
           /\ Holds(noSpan', Under(after)', Offset(after), Append(log \o pending, PlacedAt(w, e)))
           /\ \A q \in 0 .. Start(after.vbn) - 1 : BlockOf(q) < hwm'
           /\ w.shared => \A q \in 0 .. Offset(after) - 1 : Under(after)'[q] = WordAt(q)' /\ BlockOf(q) < hwm'
           /\ ~w.shared /\ EndsWhereWritten(w) => EndsWhereWritten(after)'
           /\ \A p \in Start(after.vbn) .. eof - 1 : Buffered(after, p) = WordAt(p)
<1>1. /\ CanTake(w) /\ eof <= Offset(w)
      /\ \A p \in Start(w.vbn) .. eof - 1 : Buffered(w, p) = WordAt(p)
      /\ \A p \in 0 .. Start(w.vbn) - 1 : BlockOf(p) < hwm
      /\ Holds(noSpan, Under(w), Offset(w), log \o pending)
  BY DEF Writable
<1>2. /\ eof \in 0 .. Capacity /\ hwm \in 0 .. MaxBlocks + 1 /\ maxWritten \in Nat /\ Capacity \in Nat
      /\ MaxBlocks \in Nat /\ hwm \in Nat
      /\ log \in Seq(AnyPlaced) /\ pending \in Seq(AnyPlaced)
  BY CapacityInBlocks, BoundTypes DEF RecordTypes
<1>3. PICK writes : writes = PutWrites(w, e)
  OBVIOUS
<1>4. /\ DOMAIN writes = w.vbn .. LastPut(w, after)
      /\ LastPut(w, after) \in Nat /\ w.vbn <= LastPut(w, after) + 1
      /\ \A b \in DOMAIN writes : writes[b] \in [1 .. BlockWords -> AnyWord]
  BY <1>1, <1>3, PutBlocks, Zenon
<1>5. PICK p : p = Plan(w, e)
  OBVIOUS
<1>6. /\ after \in AnyWriter /\ Len(after.buf) \in 0 .. BlockWords - 1
      /\ w.vbn <= p.base /\ p.base <= after.vbn
      /\ place \in Nat /\ Offset(w) \in Nat /\ Offset(w) <= place
      /\ Offset(after) = place + e.size + 1
      /\ after.vbn = w.vbn => after.buf # <<>>
      /\ PlacedAt(w, e) = [rec |-> e.rec, size |-> e.size, at |-> place]
  BY <1>1, <1>5, PutPlaces, Zenon
<1>7. /\ w.vbn \in Nat \ {0} /\ Start(w.vbn) \in Nat
  BY <1>1, BufferPlaces
<1>8. CanTake(after)
  BY <1>6, BoundTypes DEF CanTake
<1>9. /\ after.vbn \in Nat \ {0} /\ Start(after.vbn) \in Nat /\ Offset(after) \in Nat
      /\ Start(after.vbn) <= Offset(after)
  BY <1>8, BufferPlaces
<1>10. LastPut(w, after) <= MaxBlocks
  BY <1>6, <1>8, LastPutBound DEF CanTake
<1>11. Written(writes, w.vbn, LastPut(w, after))
  <2>1. PICK n \in Nat : n = LastPut(w, after)
    BY <1>4
  <2>2. Never \in Nat /\ n < Never /\ n = IF n < Never THEN n ELSE Never - 1
    BY <1>2, <1>10, <2>1 DEF Never
  <2>3. WriteBlocks(writes, Never)
    BY <1>3
  <2>4. QED
    BY <1>2, <1>4, <1>7, <2>1, <2>2, <2>3, WriteBlocksWrites
<1>12. data' \in [Blocks -> [1 .. BlockWords -> AnyWord]]
  BY <1>4, <1>7, <1>11, WrittenTypes DEF RecordTypes
<1>13. /\ hwm' \in 0 .. MaxBlocks + 1 /\ maxWritten' \in Nat
       /\ w.vbn <= LastPut(w, after) => maxWritten' = Max(maxWritten, LastPut(w, after))
       /\ ~(w.vbn <= LastPut(w, after)) => maxWritten' = maxWritten
  BY <1>2, <1>4, <1>7, <1>10, <1>11, WrittenBounds
<1>14. \A q \in 0 .. eof - 1 : WordAt(q)' = WordAt(q) /\ BlockOf(q) < hwm'
  <2>1. \A q \in 0 .. eof - 1 : BlockOf(q) < hwm
    BY DEF FileInv
  <2>2. QED
    BY <1>1, <1>2, <1>3, <1>4, <1>11, <2>1, PutKeeps
<1>15. /\ Extends(noSpan, Under(w), Under(after)', Offset(w), place, e)
       /\ \A q \in 0 .. Start(after.vbn) - 1 : BlockOf(q) < hwm'
       /\ w.shared => \A q \in 0 .. Offset(after) - 1 : Under(after)'[q] = WordAt(q)' /\ BlockOf(q) < hwm'
  BY <1>1, <1>2, <1>3, <1>11, PutExtends
<1>16. Holds(noSpan', Under(after)', Offset(after), Append(log \o pending, PlacedAt(w, e)))
  <2>1. PICK V : V = Under(after)'
    OBVIOUS
  <2>2. PICK U : U = Under(w)
    OBVIOUS
  <2>3. PICK all : all = log \o pending
    OBVIOUS
  <2>4. all \in Seq(AnyPlaced)
    BY <1>2, <2>3, ConcatProperties
  <2>5. PICK o \in Nat : o = Offset(w)
    BY <1>6
  <2>6. Holds(noSpan, U, o, all) /\ Extends(noSpan, U, V, o, place, e)
    BY <1>1, <1>15, <2>1, <2>2, <2>3, <2>5
  <2>7. Holds(noSpan, V, place + e.size + 1, Append(all, [rec |-> e.rec, size |-> e.size, at |-> place]))
    BY <1>6, <2>4, <2>6, HoldsAppend
  <2>8. QED
    BY <1>6, <2>1, <2>3, <2>7
<1>17. ~w.shared /\ EndsWhereWritten(w) => EndsWhereWritten(after)'
  <2>1. SUFFICES ASSUME ~w.shared, EndsWhereWritten(w)
                 PROVE  maxWritten' = after.vbn - 1 \/ (maxWritten' = after.vbn /\ after.buf # <<>>)
    BY DEF EndsWhereWritten
  <2>2. LastPut(w, after) = after.vbn - 1
    BY <2>1 DEF LastPut
  <2>3. w.vbn <= after.vbn
    BY <1>4, <1>7, <1>9, <2>2
  <2>4. maxWritten = w.vbn - 1 \/ maxWritten = w.vbn
    BY <2>1 DEF EndsWhereWritten
  <2>5. CASE w.vbn = after.vbn
    <3>1. ~(w.vbn <= LastPut(w, after)) /\ after.buf # <<>>
      BY <1>6, <1>9, <2>2, <2>5
    <3>2. QED
      BY <1>13, <2>4, <2>5, <3>1
  <2>6. CASE w.vbn < after.vbn
    <3>1. w.vbn <= after.vbn - 1 /\ maxWritten <= after.vbn - 1
      BY <1>2, <1>7, <1>9, <2>4, <2>6
    <3>2. maxWritten' = Max(maxWritten, after.vbn - 1)
      BY <1>13, <2>2, <3>1
    <3>3. QED
      BY <1>2, <1>9, <3>1, <3>2 DEF Max
  <2>7. QED
    BY <1>7, <1>9, <2>3, <2>5, <2>6
<1>18. ASSUME NEW q \in Start(after.vbn) .. eof - 1
       PROVE  Buffered(after, q) = WordAt(q)
  <2>1. q \in Nat /\ Start(after.vbn) <= q /\ q < Offset(w) /\ q < Offset(after) /\ q < eof
    <3>1. Offset(w) \in Nat /\ place \in Nat /\ e.size \in Nat /\ eof \in Nat /\ Start(after.vbn) \in Nat
          /\ Offset(w) <= place /\ Offset(after) = place + e.size + 1 /\ eof <= Offset(w)
      BY <1>1, <1>2, <1>6, <1>9 DEF AnyRecord
    <3>2. QED
      BY ONLY <3>1, q \in Start(after.vbn) .. eof - 1
  <2>2. \A x \in Nat : Start(after.vbn) <= x /\ x < Offset(after) =>
            (x < Offset(w) => Start(w.vbn) <= x /\ Buffered(after, x) = Buffered(w, x))
    BY <1>1, PutWords, Zenon
  <2>3. Start(w.vbn) <= q /\ Buffered(after, q) = Buffered(w, q)
    BY <2>1, <2>2
  <2>4. q \in Start(w.vbn) .. eof - 1
    BY <1>2, <1>7, <2>1, <2>3
  <2>5. QED
    BY <1>1, <2>3, <2>4
<1>19. Offset(w) <= Offset(after) /\ [rec |-> e.rec, size |-> e.size, at |-> place] \in AnyPlaced
  BY <1>6 DEF AnyRecord, AnyPlaced
<1>20. QED
  BY <1>6, <1>8, <1>9, <1>12, <1>13, <1>14, <1>15, <1>16, <1>17, <1>18, <1>19

\* The record a Put puts.
LEMMA NewRecordFits ==
    ASSUME RecordTypes, NEW w, NEW size \in RecordSizes, CanPut(w, size)
    PROVE  /\ NewRecord(size) \in AnyRecord /\ NewRecord(size).size = size
           /\ noSpan => NewRecord(size).size < BlockWords
<1>1. Len(log) \in Nat /\ Len(pending) \in Nat /\ failures \in Nat /\ size \in Nat
  BY LenProperties, BoundTypes DEF RecordTypes
<1>2. NewRecord(size) \in AnyRecord /\ NewRecord(size).size = size
  BY <1>1 DEF NewRecord, AnyRecord, Recorded
<1>3. QED
  BY <1>2 DEF CanPut, Fits

\* A Put keeps the file's words, and the invariant.
LEMMA PutInv ==
    ASSUME RecordInv, Civil, noSpan' = noSpan, NEW w \in Writers, NEW size \in RecordSizes, Put(w, size)
    PROVE  Grows /\ RecordInv'
<1>1. /\ RecordTypes /\ Apart /\ FileInv /\ writer[w] \in AnyWriter
      /\ \A x \in Writers : WriterInv(x)
      /\ \A r \in Readers : ReaderInv(r)
  BY DEF RecordInv, RecordTypes
<1>2. PICK start : start = Positioned(writer[w])
  OBVIOUS
<1>3. PICK e : e = NewRecord(size)
  OBVIOUS
<1>4. PICK after : after = AfterPut(start, e)
  OBVIOUS
<1>5. PICK place : place = PlacedAt(start, e).at
  OBVIOUS
<1>6. /\ CanPut(w, size) /\ Offset(after) <= Capacity
      /\ WriteBlocks(PutWrites(start, e), Never)
      /\ writer' = [writer EXCEPT ![w] = [after EXCEPT !.failed = FALSE]]
      /\ eof' = EndAfter(start, after)
      /\ IF start.shared THEN log' = Append(log, PlacedAt(start, e)) /\ pending' = pending
         ELSE pending' = Append(pending, PlacedAt(start, e)) /\ log' = log
      /\ reader' = reader /\ due' = due /\ failures' = failures
  BY <1>2, <1>3, <1>4 DEF Put
<1>7. Ready(w)
  BY <1>6 DEF Civil, CanPut, InUse, Ready
<1>8. /\ Writable(start) /\ start.state = "open" /\ start.shared = writer[w].shared /\ ~start.failed
      /\ start.shared => Offset(start) = eof
      /\ ~start.shared => start = writer[w]
  BY <1>2, <1>7, PositionedWritable
<1>9. e \in AnyRecord /\ (noSpan => e.size < BlockWords)
  BY <1>1, <1>3, <1>6, NewRecordFits
<1>10. /\ CanTake(after) /\ Offset(after) \in Nat /\ place \in Nat
       /\ PlacedAt(start, e) \in AnyPlaced
       /\ Offset(start) <= Offset(after)
       /\ data' \in [Blocks -> [1 .. BlockWords -> AnyWord]]
       /\ hwm' \in 0 .. MaxBlocks + 1 /\ maxWritten' \in Nat
       /\ \A p \in 0 .. eof - 1 : WordAt(p)' = WordAt(p) /\ BlockOf(p) < hwm'
       /\ Holds(noSpan', Under(after)', Offset(after), Append(log \o pending, PlacedAt(start, e)))
       /\ \A q \in 0 .. Start(after.vbn) - 1 : BlockOf(q) < hwm'
       /\ start.shared => \A q \in 0 .. Offset(after) - 1 : Under(after)'[q] = WordAt(q)' /\ BlockOf(q) < hwm'
       /\ ~start.shared /\ EndsWhereWritten(start) => EndsWhereWritten(after)'
       /\ \A p \in Start(after.vbn) .. eof - 1 : Buffered(after, p) = WordAt(p)
  <2>1. /\ RecordTypes /\ FileInv /\ Writable(start) /\ e \in AnyRecord
        /\ after = AfterPut(start, e) /\ place = PlacedAt(start, e).at
        /\ Offset(after) <= Capacity /\ (noSpan => e.size < BlockWords) /\ noSpan' = noSpan
        /\ WriteBlocks(PutWrites(start, e), Never)
    BY <1>1, <1>4, <1>5, <1>6, <1>8, <1>9
  <2>2. /\ CanTake(after) /\ Offset(after) \in Nat /\ place \in Nat
        /\ [rec |-> e.rec, size |-> e.size, at |-> place] \in AnyPlaced
        /\ PlacedAt(start, e) = [rec |-> e.rec, size |-> e.size, at |-> place]
        /\ Offset(start) <= Offset(after)
        /\ data' \in [Blocks -> [1 .. BlockWords -> AnyWord]]
        /\ hwm' \in 0 .. MaxBlocks + 1 /\ maxWritten' \in Nat
        /\ \A p \in 0 .. eof - 1 : WordAt(p)' = WordAt(p) /\ BlockOf(p) < hwm'
        /\ Holds(noSpan', Under(after)', Offset(after), Append(log \o pending, PlacedAt(start, e)))
        /\ \A q \in 0 .. Start(after.vbn) - 1 : BlockOf(q) < hwm'
        /\ start.shared => \A q \in 0 .. Offset(after) - 1 : Under(after)'[q] = WordAt(q)' /\ BlockOf(q) < hwm'
        /\ ~start.shared /\ EndsWhereWritten(start) => EndsWhereWritten(after)'
        /\ \A p \in Start(after.vbn) .. eof - 1 : Buffered(after, p) = WordAt(p)
    BY ONLY <2>1, PutFile, ZenonT(60)
  <2>3. QED
    BY <2>2, Zenon
<1>11. /\ after \in AnyWriter /\ after.state = "open" /\ after.shared = writer[w].shared /\ ~after.failed
       /\ [after EXCEPT !.failed = FALSE] = after
  <2>1. CanTake(start) /\ start \in AnyWriter
    BY <1>8 DEF Writable, CanTake
  <2>2. after = [start EXCEPT !.vbn = Plan(start, e).base + Plan(start, e).full, !.buf = Plan(start, e).rest]
    BY <1>4 DEF AfterPut
  <2>3. after.state = start.state /\ after.shared = start.shared /\ after.failed = start.failed
    BY <2>1, <2>2 DEF AnyWriter
  <2>4. after \in AnyWriter
    BY <1>10 DEF CanTake
  <2>5. after.failed = FALSE
    BY <1>8, <2>1, <2>3 DEF AnyWriter
  <2>6. [after EXCEPT !.failed = FALSE] = after
    BY <2>4, <2>5 DEF AnyWriter
  <2>7. QED
    BY <1>8, <2>3, <2>4, <2>6
<1>12. \A x \in Writers : writer'[x] = IF x = w THEN after ELSE writer[x]
  BY <1>1, <1>6, <1>11 DEF RecordTypes
<1>13. /\ eof \in Nat /\ eof <= Capacity /\ Capacity \in Nat /\ log \in Seq(AnyPlaced) /\ pending \in Seq(AnyPlaced)
       /\ Len(log) \in Nat
  BY <1>1, CapacityInBlocks, LenProperties DEF RecordTypes
<1>14. eof' \in 0 .. Capacity /\ eof <= eof' /\ eof' \in Nat
  <2>1. eof <= Offset(start)
    BY <1>8 DEF Writable
  <2>2. Offset(start) \in Nat
    BY <1>8, BufferPlaces DEF Writable
  <2>3. eof <= Offset(after)
    BY <1>10, <1>13, <2>1, <2>2
  <2>4. eof' = eof \/ eof' = Offset(after)
    BY <1>6 DEF EndAfter
  <2>5. QED
    BY <1>6, <1>10, <1>13, <2>3, <2>4
<1>15. Grows
  BY <1>10, <1>14 DEF Grows
<1>16. LogGrows /\ pending' \in Seq(AnyPlaced)
  <2>1. /\ Append(log, PlacedAt(start, e)) \in Seq(AnyPlaced)
        /\ Len(Append(log, PlacedAt(start, e))) = Len(log) + 1
        /\ \A i \in 1 .. Len(log) : Append(log, PlacedAt(start, e))[i] = log[i]
    BY <1>10, <1>13, AppendProperties
  <2>2. Append(pending, PlacedAt(start, e)) \in Seq(AnyPlaced)
    BY <1>10, <1>13, AppendProperties
  <2>3. CASE start.shared
    BY <1>6, <1>13, <2>1, <2>3 DEF LogGrows
  <2>4. CASE ~start.shared
    BY <1>6, <1>13, <2>2, <2>4, SMTT(30) DEF LogGrows
  <2>5. QED
    BY <2>3, <2>4
<1>17. RecordTypes'
  <2>1. writer' \in [Writers -> AnyWriter]
    BY <1>1, <1>6, <1>11 DEF RecordTypes
  <2>2. QED
    BY <1>1, <1>6, <1>10, <1>14, <1>16, <2>1
       DEF RecordTypes, LogGrows, Capacity, Blocks, AnyWord, AnyPlaced, AnyWriter
<1>18. Apart'
  <2>1. writer[w].state = "open"
    BY <1>7 DEF Ready
  <2>2. ~Alone => pending' = <<>>
    <3>1. CASE start.shared
      BY <1>1, <1>6, <3>1 DEF Apart
    <3>2. CASE ~start.shared
      BY <1>1, <1>7, <1>8, <3>2, OnlyOne
    <3>3. QED
      BY <3>1, <3>2
  <2>3. \A x \in Writers : writer[x].failed => writer[x].state = "open"
    BY <1>1 DEF Apart
  <2>4. QED
    BY <1>1, <1>11, <1>12, <2>1, <2>2, <2>3, ApartStays
<1>19. ASSUME NEW x \in Writers, x # w
       PROVE  WriterInv(x)'
  BY <1>7, <1>12, <1>14, <1>15, <1>19, OthersStay DEF Ready, Open
<1>20. \A r \in Readers : ReaderInv(r)'
  BY <1>1, <1>6, <1>14, <1>15, <1>16, ReadersStay
<1>21. FileInv' /\ WriterInv(w)'
  <2>1. PICK end \in Nat : end = Offset(after)
    BY <1>10
  <2>2. PICK V : V = Under(after)'
    OBVIOUS
  <2>3. PICK D : D = Disk'
    OBVIOUS
  <2>4. Start(after.vbn) \in Nat /\ Start(after.vbn) <= end
    BY <1>10, <2>1, BufferPlaces
  <2>5. CASE start.shared
    <3>1. eof' = end /\ pending = <<>> /\ log' = Append(log, PlacedAt(start, e))
      BY <1>1, <1>6, <1>7, <1>8, <2>1, <2>5, OnlyOne DEF EndAfter
    <3>2. log \o pending = log
      BY <1>13, <3>1, ConcatEmptySeq
    <3>3. Holds(noSpan', V, end, log')
      BY <1>10, <2>1, <2>2, <3>1, <3>2
    <3>4. ASSUME NEW q \in 0 .. end - 1
          PROVE  D[q] = V[q] /\ V[q] = WordAt(q)' /\ BlockOf(q) < hwm'
      <4>1. q \in Nat /\ Under(after)'[q] = WordAt(q)' /\ BlockOf(q) < hwm'
        BY <1>10, <2>1, <2>5
      <4>2. Disk'[q] = WordAt(q)'
        BY <4>1, UnderWords
      <4>3. QED
        BY <2>2, <2>3, <4>1, <4>2
    <3>5. Holds(noSpan', D, end, log')
      BY <1>16, <3>3, <3>4, HoldsSame DEF LogGrows
    <3>6. FileInv'
      BY <2>3, <3>1, <3>4, <3>5 DEF FileInv, BlockOf
    <3>7. ASSUME NEW p \in Start(after.vbn) .. end - 1
          PROVE  Buffered(after, p) = WordAt(p)'
      <4>1. p \in Nat /\ p \in 0 .. end - 1 /\ Start(after.vbn) <= p /\ p < Offset(after)
        BY <2>1, <2>4
      <4>2. Under(after)'[p] = Buffered(after, p)
        BY <4>1, UnderWords
      <4>3. QED
        BY <2>2, <3>4, <4>1, <4>2
    <3>8. SharedInv(after)'
      BY <2>1, <3>1, <3>7 DEF SharedInv, Buffered, Offset, Start
    <3>9. WriterInv(w)'
      BY <1>8, <1>10, <1>11, <1>12, <2>5, <3>8 DEF WriterInv, CanTake
    <3>10. QED
      BY <3>6, <3>9
  <2>6. CASE ~start.shared
    <3>1. eof' = eof /\ log' = log /\ pending' = Append(pending, PlacedAt(start, e)) /\ EndsWhereWritten(start)
      BY <1>1, <1>6, <1>7, <1>8, <2>6 DEF EndAfter, WriterInv
    <3>2. FileInv'
      <4>1. PICK B : B = Disk
        OBVIOUS
      <4>2. Holds(noSpan, B, eof, log)
        BY <1>1, <4>1 DEF FileInv
      <4>3. \A q \in 0 .. eof - 1 : D[q] = B[q] /\ BlockOf(q) < hwm'
        <5>1. ASSUME NEW q \in 0 .. eof - 1
              PROVE  D[q] = B[q] /\ BlockOf(q) < hwm'
          <6>1. q \in Nat /\ WordAt(q)' = WordAt(q) /\ BlockOf(q) < hwm'
            BY <1>10, <1>13
          <6>2. QED
            BY <2>3, <4>1, <6>1, UnderWords
        <5>2. QED
          BY <5>1
      <4>4. Holds(noSpan, D, eof, log)
        BY <1>13, <4>2, <4>3, HoldsSame
      <4>5. QED
        BY <2>3, <3>1, <4>3, <4>4 DEF FileInv, BlockOf
    <3>3. Append(log \o pending, PlacedAt(start, e)) = log' \o pending'
      <4>1. PICK x \in AnyPlaced : x = PlacedAt(start, e)
        BY <1>10
      <4>2. log \o pending \in Seq(AnyPlaced) /\ <<x>> \in Seq(AnyPlaced)
        BY <1>13, ConcatProperties
      <4>3. Append(log \o pending, x) = (log \o pending) \o <<x>> /\ Append(pending, x) = pending \o <<x>>
        BY <1>13, <4>2, AppendIsConcat
      <4>4. (log \o pending) \o <<x>> = log \o (pending \o <<x>>)
        BY <1>13, <4>2, ConcatAssociative
      <4>5. QED
        BY <3>1, <4>1, <4>3, <4>4
    <3>4. Writable(after)'
      <4>1. Holds(noSpan', Under(after)', Offset(after), log' \o pending')
        BY <1>10, <3>3
      <4>2. \A p \in Start(after.vbn) .. eof - 1 : Buffered(after, p) = WordAt(p)'
        <5>1. \A p \in Start(after.vbn) .. eof - 1 : p \in 0 .. eof - 1
          BY <1>13, <2>4
        <5>2. QED
          BY <1>10, <5>1
      <4>3. eof <= Offset(after)
        <5>1. eof <= Offset(start) /\ Offset(start) \in Nat
          BY <1>8, BufferPlaces DEF Writable
        <5>2. QED
          BY <1>10, <1>13, <5>1
      <4>4. QED
        BY <1>6, <1>10, <3>1, <4>1, <4>2, <4>3 DEF Writable, CanTake, Offset, Start, Buffered, BlockOf, Capacity
    <3>5. EndsWhereWritten(after)'
      BY <1>10, <2>6, <3>1
    <3>6. WriterInv(w)'
      BY <1>8, <1>10, <1>11, <1>12, <2>6, <3>4, <3>5 DEF WriterInv, CanTake
    <3>7. QED
      BY <3>2, <3>6
  <2>7. QED
    BY <2>5, <2>6
<1>22. QED
  BY <1>15, <1>17, <1>18, <1>19, <1>20, <1>21 DEF RecordInv

\* What leaves the file's words, its end and the log as they are.
LEMMA FileKept ==
    ASSUME RecordTypes, FileInv, noSpan' = noSpan, eof' = eof, log' = log,
           \A p \in 0 .. eof - 1 : WordAt(p)' = WordAt(p) /\ BlockOf(p) < hwm'
    PROVE  Grows /\ LogGrows /\ FileInv' /\ eof' \in 0 .. Capacity /\ eof' \in Nat
<1>1. eof \in Nat /\ eof \in 0 .. Capacity /\ Capacity \in Nat /\ log \in Seq(AnyPlaced) /\ Len(log) \in Nat
  BY CapacityInBlocks, LenProperties DEF RecordTypes
<1>2. PICK B : B = Disk
  OBVIOUS
<1>3. PICK D : D = Disk'
  OBVIOUS
<1>4. Holds(noSpan, B, eof, log)
  BY <1>2 DEF FileInv
<1>5. \A q \in 0 .. eof - 1 : D[q] = B[q] /\ BlockOf(q) < hwm'
  <2>1. ASSUME NEW q \in 0 .. eof - 1
        PROVE  D[q] = B[q] /\ BlockOf(q) < hwm'
    <3>1. q \in Nat /\ WordAt(q)' = WordAt(q) /\ BlockOf(q) < hwm'
      BY <1>1
    <3>2. QED
      BY <1>2, <1>3, <3>1, UnderWords
  <2>2. QED
    BY <2>1
<1>6. Holds(noSpan, D, eof, log)
  BY <1>1, <1>4, <1>5, HoldsSame
<1>7. FileInv'
  BY <1>3, <1>5, <1>6 DEF FileInv, BlockOf
<1>8. QED
  BY <1>1, <1>7 DEF Grows, LogGrows, Capacity

\* What does not touch the file.
LEMMA FileUntouched ==
    ASSUME RecordTypes, FileInv, noSpan' = noSpan,
           UNCHANGED <<data, eof, hwm, log>>
    PROVE  Grows /\ LogGrows /\ FileInv' /\ eof' \in 0 .. Capacity /\ eof' \in Nat
<1>1. eof' = eof /\ log' = log /\ data' = data /\ hwm' = hwm
  OBVIOUS
<1>2. \A p \in 0 .. eof - 1 : WordAt(p)' = WordAt(p) /\ BlockOf(p) < hwm'
  BY <1>1 DEF WordAt, FileInv, BlockOf
<1>3. QED
  BY <1>1, <1>2, FileKept

\* A Writer whose Put failed has words buffered, and is out of use.
LEMMA FailedPutTypes ==
    ASSUME NEW w, CanTake(w), NEW e \in AnyRecord, NEW b \in Nat \ {0}
    PROVE  /\ AfterFailedPut(w, e, b) \in AnyWriter /\ AfterFailedPut(w, e, b).failed
           /\ AfterFailedPut(w, e, b).state = w.state /\ AfterFailedPut(w, e, b).shared = w.shared
<1> DEFINE p == Plan(w, e)
           lengthWord == Len(p.kept) + 1
           appended == IF (b - p.base + 1) * BlockWords <= lengthWord
                       THEN SubSeq(p.text, 1, lengthWord) ELSE p.text
           tail == SubSeq(appended, (b - p.base) * BlockWords + 1, Len(appended))
           vbn == IF b < p.base THEN w.vbn ELSE b
           buf == IF b < p.base THEN w.buf ELSE tail
<1>1. /\ p.kept \in Seq(AnyWord) /\ p.text \in Seq(AnyWord)
      /\ Len(p.text) = Len(p.kept) + e.size + 1
      /\ p.base = w.vbn + 1 \/ p.base = w.vbn
  BY PlanParts, Zenon
<1>2. AfterFailedPut(w, e, b) = [w EXCEPT !.failed = TRUE, !.vbn = vbn, !.buf = buf]
  BY BufferPlaces DEF AfterFailedPut, AnyWriter
<1>3. w \in AnyWriter /\ w.vbn \in Nat \ {0} /\ w.buf \in Seq(AnyWord) /\ e.size \in Nat /\ BlockWords \in Nat \ {0}
  BY BufferPlaces, BoundTypes DEF AnyRecord
<1>4. vbn \in Nat \ {0}
  BY <1>3
<1>5. Len(p.kept) \in Nat /\ Len(p.text) \in Nat
  BY <1>1, LenProperties
<1> HIDE DEF p
<1>6. SubSeq(p.text, 1, lengthWord) \in Seq(AnyWord)
  <2>1. \A i \in 1 .. lengthWord : p.text[i] \in AnyWord
    BY <1>1, <1>3, <1>5, ElementOfSeq
  <2>2. PICK hi \in Int : hi = lengthWord
    BY <1>5
  <2>3. PICK text \in Seq(AnyWord) : text = p.text
    BY <1>1
  <2>4. \A i \in 1 .. hi : i \in 1 .. Len(text)
    BY <1>1, <1>3, <1>5, <2>2, <2>3
  <2>5. SubSeq(text, 1, hi) \in Seq(AnyWord)
    BY <2>4, SubSeqProperties
  <2>6. QED
    BY <2>2, <2>3, <2>5
<1>7. appended \in Seq(AnyWord)
  BY <1>1, <1>6
<1>8. b >= p.base => tail \in Seq(AnyWord)
  <2>1. SUFFICES ASSUME b >= p.base PROVE tail \in Seq(AnyWord)
    OBVIOUS
  <2>2. PICK text \in Seq(AnyWord) : text = appended
    BY <1>7
  <2>3. PICK hi \in Int : hi = Len(text) /\ hi \in Nat
    BY LenProperties
  <2>4. PICK n \in Nat : n = b - p.base
    BY <1>1, <1>3, <2>1
  <2>5. PICK lo \in Int : lo = (b - p.base) * BlockWords + 1 /\ lo >= 1
    <3>1. n * BlockWords \in Nat
      BY <1>3, ProductsAreOrdered
    <3>2. QED
      BY <2>4, <3>1
  <2>6. \A i \in lo .. hi : i \in 1 .. Len(text)
    BY <2>3, <2>5
  <2>7. SubSeq(text, lo, hi) \in Seq(AnyWord)
    BY <2>6, SubSeqProperties
  <2>8. QED
    BY <2>2, <2>3, <2>5, <2>7
<1> HIDE DEF tail
<1>9. buf \in Seq(AnyWord)
  <2>1. b < p.base \/ b >= p.base
    BY <1>1, <1>3
  <2>2. QED
    BY <1>3, <1>8, <2>1
<1> HIDE DEF vbn, buf
<1>10. QED
  BY <1>2, <1>3, <1>4, <1>9 DEF AnyWriter

\* The blocks a Put writes before it fails change nothing before the end of the
\* file; the Writer is out of use.
LEMMA PutFailsInv ==
    ASSUME RecordInv, Civil, noSpan' = noSpan, NEW w \in Writers, NEW size \in RecordSizes, PutFails(w, size)
    PROVE  Grows /\ RecordInv'
<1>1. /\ RecordTypes /\ Apart /\ FileInv /\ writer[w] \in AnyWriter
      /\ \A x \in Writers : WriterInv(x)
      /\ \A r \in Readers : ReaderInv(r)
  BY DEF RecordInv, RecordTypes
<1>2. PICK start : start = Positioned(writer[w])
  OBVIOUS
<1>3. PICK e : e = NewRecord(size)
  OBVIOUS
<1>4. PICK after : after = AfterPut(start, e)
  OBVIOUS
<1>5. PICK writes : writes = PutWrites(start, e)
  OBVIOUS
<1>6. /\ CanPut(w, size) /\ Offset(after) <= Capacity
      /\ failures' = failures + 1 /\ eof' = eof /\ reader' = reader /\ log' = log /\ pending' = pending /\ due' = due
  BY <1>2, <1>3, <1>4 DEF PutFails
<1>7. PICK b \in DOMAIN writes : /\ WriteBlocks(writes, b)
                                 /\ writer' = [writer EXCEPT ![w] = AfterFailedPut(start, e, b)]
  BY <1>2, <1>3, <1>5 DEF PutFails
<1>8. Ready(w)
  BY <1>6 DEF Civil, CanPut, InUse, Ready
<1>9. /\ Writable(start) /\ start.state = "open" /\ start.shared = writer[w].shared
      /\ CanTake(start)
  BY <1>2, <1>8, PositionedWritable DEF Writable
<1>10. e \in AnyRecord
  BY <1>1, <1>3, <1>6, NewRecordFits
<1>11. /\ DOMAIN writes = start.vbn .. LastPut(start, after)
       /\ LastPut(start, after) \in Nat /\ start.vbn <= LastPut(start, after) + 1
       /\ \A c \in DOMAIN writes : writes[c] \in [1 .. BlockWords -> AnyWord]
  BY <1>4, <1>5, <1>9, <1>10, PutBlocks, Zenon
<1>12. start.vbn \in Nat \ {0} /\ after \in AnyWriter /\ Len(after.buf) < BlockWords
  <2>1. after \in AnyWriter /\ Len(after.buf) \in 0 .. BlockWords - 1
    BY <1>4, <1>9, <1>10, PutPlaces, Zenon
  <2>2. QED
    BY <1>9, <2>1, BufferPlaces, BoundTypes
<1>13. LastPut(start, after) <= MaxBlocks
  BY <1>6, <1>12, LastPutBound
<1>14. PICK k \in Nat : k = b - 1 /\ k <= LastPut(start, after) /\ b \in Nat \ {0}
  BY <1>11, <1>12
<1>15. /\ hwm \in 0 .. MaxBlocks + 1 /\ hwm \in Nat /\ maxWritten \in Nat /\ eof \in 0 .. Capacity
       /\ data \in [Blocks -> [1 .. BlockWords -> AnyWord]] /\ MaxBlocks \in Nat
  BY <1>1, BoundTypes DEF RecordTypes
<1>16. Written(writes, start.vbn, k)
  <2>1. PICK n \in Nat : n = LastPut(start, after) /\ DOMAIN writes = start.vbn .. n
    BY <1>11
  <2>2. start.vbn <= k + 1 /\ k = (IF n < b THEN n ELSE b - 1)
    BY <1>12, <1>14, <2>1
  <2>3. b \in Nat
    BY <1>14
  <2>4. QED
    BY <1>7, <1>12, <1>15, <2>1, <2>2, <2>3, WriteBlocksWrites
<1>17. /\ hwm' \in 0 .. MaxBlocks + 1 /\ maxWritten' \in Nat
       /\ data' \in [Blocks -> [1 .. BlockWords -> AnyWord]]
  <2>1. k <= MaxBlocks
    BY <1>11, <1>13, <1>14, <1>15
  <2>2. \A c \in start.vbn .. k : writes[c] \in [1 .. BlockWords -> AnyWord]
    BY <1>11, <1>12, <1>14
  <2>3. hwm' \in 0 .. MaxBlocks + 1 /\ maxWritten' \in Nat
    BY <1>12, <1>15, <1>16, <2>1, WrittenBounds
  <2>4. QED
    BY <1>12, <1>15, <1>16, <2>2, <2>3, WrittenTypes
<1>18. \A p \in 0 .. eof - 1 : WordAt(p)' = WordAt(p) /\ BlockOf(p) < hwm'
  <2>1. eof <= Offset(start) /\ \A p \in Start(start.vbn) .. eof - 1 : Buffered(start, p) = WordAt(p)
    BY <1>9 DEF Writable
  <2>2. \A p \in 0 .. eof - 1 : BlockOf(p) < hwm
    BY <1>1 DEF FileInv
  <2>3. QED
    BY <1>4, <1>5, <1>6, <1>9, <1>10, <1>14, <1>15, <1>16, <2>1, <2>2, PutKeeps
<1>19. Grows /\ LogGrows /\ FileInv' /\ eof' \in 0 .. Capacity /\ eof' \in Nat
  BY <1>1, <1>6, <1>18, FileKept
<1>20. PICK failed \in AnyWriter : /\ failed = AfterFailedPut(start, e, b) /\ failed.failed
                                   /\ failed.state = "open" /\ failed.shared = writer[w].shared
  BY <1>9, <1>10, <1>14, FailedPutTypes
<1>21. writer' = [writer EXCEPT ![w] = failed] /\ writer' \in [Writers -> AnyWriter]
  BY <1>1, <1>7, <1>20 DEF RecordTypes
<1>22. \A x \in Writers : writer'[x] = IF x = w THEN failed ELSE writer[x]
  BY <1>1, <1>21 DEF RecordTypes
<1>23. RecordTypes'
  BY <1>1, <1>6, <1>17, <1>19, <1>21 DEF RecordTypes, Capacity, Blocks, AnyWord, AnyPlaced, AnyWriter
<1>24. Apart'
  <2>1. writer[w].state = "open"
    BY <1>8 DEF Ready
  <2>2. ~Alone => pending' = <<>>
    BY <1>1, <1>6 DEF Apart
  <2>3. \A x \in Writers : writer[x].failed => writer[x].state = "open"
    BY <1>1 DEF Apart
  <2>4. QED
    BY <1>1, <1>20, <1>22, <2>1, <2>2, <2>3, ApartStays
<1>25. \A x \in Writers : WriterInv(x)'
  <2>1. ASSUME NEW x \in Writers, x # w
        PROVE  WriterInv(x)'
    BY <1>8, <1>19, <1>22, <2>1, OthersStay DEF Ready, Open
  <2>2. WriterInv(w)'
    BY <1>20, <1>22 DEF WriterInv, Ready
  <2>3. QED
    BY <2>1, <2>2
<1>26. \A r \in Readers : ReaderInv(r)'
  BY <1>1, <1>6, <1>19, ReadersStay
<1>27. QED
  BY <1>19, <1>23, <1>24, <1>25, <1>26 DEF RecordInv

\* A Put refused moves a shared Writer to the end of the file, no more.
LEMMA PutRefusedInv ==
    ASSUME RecordInv, Civil, noSpan' = noSpan, NEW w \in Writers, NEW size \in RecordSizes, PutRefused(w, size)
    PROVE  Grows /\ RecordInv'
<1>1. /\ RecordTypes /\ Apart /\ FileInv /\ writer[w] \in AnyWriter
      /\ \A x \in Writers : WriterInv(x)
      /\ \A r \in Readers : ReaderInv(r)
  BY DEF RecordInv, RecordTypes
<1>2. PICK start : start = Positioned(writer[w])
  OBVIOUS
<1>3. /\ InUse(w) /\ UNCHANGED <<fileVars, log>>
      /\ writer' = [writer EXCEPT ![w] = start]
      /\ data' = data /\ eof' = eof /\ hwm' = hwm /\ maxWritten' = maxWritten
      /\ reader' = reader /\ log' = log /\ pending' = pending /\ due' = due /\ failures' = failures
  BY <1>2 DEF PutRefused, fileVars
<1>4. Ready(w)
  BY <1>3 DEF Civil, InUse, Ready
<1>5. /\ Writable(start) /\ start.state = "open" /\ start.shared = writer[w].shared /\ ~start.failed
      /\ start.shared => Offset(start) = eof
      /\ ~start.shared => start = writer[w]
      /\ CanTake(start) /\ start \in AnyWriter
  BY <1>2, <1>4, PositionedWritable DEF Writable, CanTake
<1>6. Grows /\ LogGrows /\ FileInv' /\ eof' \in 0 .. Capacity /\ eof' \in Nat
  BY <1>1, <1>3, FileUntouched DEF fileVars
<1>7. writer' \in [Writers -> AnyWriter] /\ \A x \in Writers : writer'[x] = IF x = w THEN start ELSE writer[x]
  BY <1>1, <1>3, <1>5 DEF RecordTypes
<1>8. RecordTypes'
  BY <1>1, <1>3, <1>6, <1>7 DEF RecordTypes, Capacity, Blocks, AnyWord, AnyPlaced, AnyWriter
<1>9. Apart'
  <2>1. writer[w].state = "open"
    BY <1>4 DEF Ready
  <2>2. ~Alone => pending' = <<>>
    BY <1>1, <1>3 DEF Apart
  <2>3. \A x \in Writers : writer[x].failed => writer[x].state = "open"
    BY <1>1 DEF Apart
  <2>4. QED
    BY <1>1, <1>5, <1>7, <2>1, <2>2, <2>3, ApartStays
<1>10. WriterInv(w)'
  <2>1. CASE start.shared
    <3>1. \A p \in Start(start.vbn) .. Offset(start) - 1 : Buffered(start, p) = WordAt(p)
      BY <1>5, <2>1 DEF Writable
    <3>2. eof \in Nat /\ Offset(start) <= eof
      BY <1>1, <1>5, <2>1, CapacityInBlocks DEF RecordTypes
    <3>3. SharedInv(start)
      BY <3>1, <3>2 DEF SharedInv
    <3>4. SharedInv(start)'
      BY <1>5, <1>6, <3>2, <3>3, SharedStays
    <3>5. QED
      BY <1>5, <1>7, <2>1, <3>4 DEF WriterInv, CanTake
  <2>2. CASE ~start.shared
    <3>1. writer'[w] = writer[w] /\ ~writer[w].shared
      BY <1>5, <1>7, <2>2
    <3>2. Writable(writer[w]) /\ EndsWhereWritten(writer[w])
      BY <1>1, <1>4, <3>1 DEF WriterInv
    <3>3. Writable(writer[w])' /\ EndsWhereWritten(writer[w])'
      BY <1>3, <3>1, <3>2, noSpan' = noSpan
         DEF Writable, CanTake, EndsWhereWritten, Offset, Start, Buffered, BlockOf, WordAt, Capacity, Under
    <3>4. QED
      BY <1>5, <3>1, <3>3 DEF WriterInv, Ready, Writable, CanTake
  <2>3. QED
    BY <2>1, <2>2
<1>11. ASSUME NEW x \in Writers, x # w
       PROVE  WriterInv(x)'
  BY <1>4, <1>6, <1>7, <1>11, OthersStay DEF Ready, Open
<1>12. \A r \in Readers : ReaderInv(r)'
  BY <1>1, <1>3, <1>6, ReadersStay
<1>13. QED
  BY <1>6, <1>8, <1>9, <1>10, <1>11, <1>12 DEF RecordInv

\* Closed is a Writer that does nothing.
LEMMA ClosedIsWriter == Closed \in AnyWriter /\ Closed.state = "closed" /\ Closed.shared = FALSE /\ Closed.failed = FALSE
                        /\ Closed.vbn = 1 /\ Closed.buf = <<>>
<1>1. <<>> \in Seq(AnyWord)
  OBVIOUS
<1>2. QED
  BY <1>1 DEF Closed, AnyWriter

\* A Flush keeps the file's words, and leaves the Writer as it may be.
LEMMA FlushWriterInv ==
    ASSUME RecordInv, noSpan' = noSpan, NEW w \in Writers, Ready(w), NEW own, own = writer[w], FlushWriter(own)
    PROVE  /\ Grows /\ LogGrows /\ FileInv' /\ eof' \in 0 .. Capacity /\ eof' \in Nat
           /\ data' \in [Blocks -> [1 .. BlockWords -> AnyWord]]
           /\ hwm' \in 0 .. MaxBlocks + 1 /\ maxWritten' \in Nat
           /\ pending' \in Seq(AnyPlaced)
           /\ IF own.shared THEN pending' = pending ELSE pending' = <<>>
           /\ IF own.shared THEN SharedInv(own)' ELSE Writable(own)' /\ EndsWhereWritten(own)'
<1>1. /\ RecordTypes /\ Apart /\ FileInv /\ WriterInv(w)
  BY DEF RecordInv
<1>2. /\ CanTake(own)
      /\ IF own.shared THEN SharedInv(own) ELSE Writable(own) /\ EndsWhereWritten(own)
  BY <1>1 DEF WriterInv
<1>3. own.shared => pending = <<>>
  BY <1>1, OnlyOne
<1>4. /\ own.vbn \in Nat \ {0} /\ own.buf \in Seq(AnyWord) /\ Offset(own) \in Nat /\ eof \in Nat
      /\ pending \in Seq(AnyPlaced)
  BY <1>1, <1>2, BufferPlaces, CapacityInBlocks DEF RecordTypes
<1>5. CASE UpToDate(own)
  <2>1. WriteBlocks(LastBlock(own), Never) /\ eof' = Offset(own) /\ Published
    BY <1>5 DEF FlushWriter
  <2>2. Writable(own)
    <3>1. CASE own.shared
      <4>1. Offset(own) = eof
        BY <1>5, <3>1 DEF UpToDate
      <4>2. \A p \in Start(own.vbn) .. eof - 1 : Buffered(own, p) = WordAt(p)
        BY <1>2, <3>1, <4>1 DEF SharedInv
      <4>3. QED
        BY <1>1, <1>2, <1>3, <3>1, <4>1, <4>2, EndWritable
    <3>2. QED
      BY <1>2, <3>1
  <2>3. /\ Grows /\ LogGrows /\ FileInv' /\ Writable(own)'
        /\ eof' \in 0 .. Capacity /\ pending' = <<>>
        /\ \A p \in Start(own.vbn) .. Offset(own) - 1 : Buffered(own, p) = WordAt(p)'
    BY <1>1, <2>1, <2>2, WritableFlushed
  <2>4. /\ data' \in [Blocks -> [1 .. BlockWords -> AnyWord]]
        /\ hwm' \in 0 .. MaxBlocks + 1 /\ maxWritten' \in Nat
        /\ maxWritten' = IF own.buf = <<>> THEN maxWritten ELSE Max(maxWritten, own.vbn)
    BY <1>1, <1>2, <2>1, <2>2, LastBlockWrites DEF Writable
  <2>5. own.shared => SharedInv(own)'
    BY <1>4, <2>1, <2>3 DEF SharedInv, Buffered, Offset, Start
  <2>6. ~own.shared => EndsWhereWritten(own)'
    BY <1>2, <1>4, <2>4 DEF EndsWhereWritten, Max
  <2>7. eof' \in Nat
    BY <1>4, <2>1
  <2>8. pending' \in Seq(AnyPlaced) /\ (own.shared => pending' = pending)
    BY <1>3, <1>4, <2>3
  <2>9. QED
    BY <2>3, <2>4, <2>5, <2>6, <2>7, <2>8
<1>6. CASE ~UpToDate(own)
  <2>1. own.shared /\ UNCHANGED <<fileVars, log, pending>>
    BY <1>6 DEF FlushWriter, UpToDate
  <2>2. UNCHANGED <<fileVars, log>> /\ pending' = pending
    BY <2>1
  <2>3. Grows /\ LogGrows /\ FileInv' /\ eof' \in 0 .. Capacity /\ eof' \in Nat
    BY <1>1, <2>2, FileUntouched DEF fileVars
  <2>4. SharedInv(own)'
    BY <1>2, <1>4, <2>1, <2>3, SharedStays
  <2>5. /\ data' \in [Blocks -> [1 .. BlockWords -> AnyWord]]
        /\ hwm' \in 0 .. MaxBlocks + 1 /\ maxWritten' \in Nat
    BY <1>1, <2>2 DEF RecordTypes, fileVars
  <2>6. QED
    BY <1>4, <2>1, <2>2, <2>3, <2>4, <2>5
<1>7. QED
  BY <1>5, <1>6

\* A Flush keeps the file's words, and the invariant.
LEMMA FlushInv ==
    ASSUME RecordInv, Civil, noSpan' = noSpan, NEW w \in Writers, Flush(w)
    PROVE  Grows /\ RecordInv'
<1>1. /\ RecordTypes /\ Apart /\ FileInv /\ writer[w] \in AnyWriter
      /\ \A x \in Writers : WriterInv(x)
      /\ \A r \in Readers : ReaderInv(r)
  BY DEF RecordInv, RecordTypes
<1>2. PICK own : own = writer[w]
  OBVIOUS
<1>3. /\ InUse(w) /\ FlushWriter(own)
      /\ writer' = writer /\ reader' = reader /\ due' = due /\ failures' = failures
  BY <1>2 DEF Flush
<1>4. Ready(w)
  BY <1>3 DEF Civil, InUse, Ready
<1>5. /\ Grows /\ LogGrows /\ FileInv' /\ eof' \in 0 .. Capacity /\ eof' \in Nat
      /\ data' \in [Blocks -> [1 .. BlockWords -> AnyWord]]
      /\ hwm' \in 0 .. MaxBlocks + 1 /\ maxWritten' \in Nat
      /\ pending' \in Seq(AnyPlaced)
      /\ IF own.shared THEN pending' = pending ELSE pending' = <<>>
      /\ IF own.shared THEN SharedInv(own)' ELSE Writable(own)' /\ EndsWhereWritten(own)'
  BY <1>2, <1>3, <1>4, FlushWriterInv
<1>6. RecordTypes'
  BY <1>1, <1>3, <1>5 DEF RecordTypes, LogGrows, Capacity, Blocks, AnyWord, AnyPlaced, AnyWriter
<1>7. Apart'
  <2>1. ~Alone => pending' = <<>>
    BY <1>1, <1>5 DEF Apart
  <2>2. \A x \in Writers : writer[x].failed => writer[x].state = "open"
    BY <1>1 DEF Apart
  <2>3. QED
    BY <1>1, <1>3, <2>1, <2>2, ApartStays
<1>8. WriterInv(w)'
  <2>1. CanTake(own)
    BY <1>1, <1>2, <1>4 DEF WriterInv
  <2>2. QED
    BY <1>2, <1>3, <1>5, <2>1 DEF WriterInv, CanTake
<1>9. ASSUME NEW x \in Writers, x # w
      PROVE  WriterInv(x)'
  BY <1>3, <1>4, <1>5, <1>9, OthersStay DEF Ready, Open
<1>10. \A r \in Readers : ReaderInv(r)'
  BY <1>1, <1>3, <1>5, ReadersStay
<1>11. QED
  BY <1>5, <1>6, <1>7, <1>8, <1>9, <1>10 DEF RecordInv

\* A Close that succeeds does what a Flush does: a Writer that has the file to
\* itself ends it behind its last word.
LEMMA CloseFlushes ==
    ASSUME RecordInv, NEW w \in Writers, Ready(w), Close(w)
    PROVE  FlushWriter(writer[w])
<1>1. RecordTypes /\ WriterInv(w)
  BY DEF RecordInv
<1>2. PICK own : own = writer[w]
  OBVIOUS
<1>3. CASE own.shared
  BY <1>2, <1>3 DEF Close
<1>4. CASE ~own.shared
  <2>1. /\ WriteBlocks(LastBlock(own), Never) /\ Published
        /\ eof' = ClosedEnd(maxWritten', Len(own.buf))
    BY <1>2, <1>4 DEF Close
  <2>2. CanTake(own) /\ Writable(own) /\ EndsWhereWritten(own)
    BY <1>1, <1>2, <1>4 DEF WriterInv
  <2>3. /\ maxWritten' = IF own.buf = <<>> THEN maxWritten ELSE Max(maxWritten, own.vbn)
        /\ maxWritten' \in Nat
    BY <1>1, <2>1, <2>2, LastBlockWrites DEF Writable
  <2>4. /\ own.vbn \in Nat \ {0} /\ Len(own.buf) \in Nat /\ (Len(own.buf) = 0 <=> own.buf = <<>>)
        /\ Offset(own) = Start(own.vbn) + Len(own.buf) /\ Start(own.vbn) \in Nat
        /\ maxWritten \in Nat /\ BlockWords \in Nat /\ Start(1) = 0
    BY <1>1, <2>2, BufferPlaces, BoundTypes, Starts DEF RecordTypes
  <2>5. eof' = Offset(own)
    <3>1. CASE own.buf = <<>>
      <4>1. maxWritten' = own.vbn - 1 /\ Len(own.buf) = 0
        BY <2>2, <2>3, <2>4, <3>1 DEF EndsWhereWritten
      <4>2. ClosedEnd(maxWritten', 0) = Start(own.vbn)
        BY <2>4, <4>1 DEF ClosedEnd, Start
      <4>3. QED
        BY <2>1, <2>4, <4>1, <4>2
    <3>2. CASE own.buf # <<>>
      <4>1. maxWritten' = own.vbn
        BY <2>2, <2>3, <2>4, <3>2 DEF EndsWhereWritten, Max
      <4>2. QED
        BY <2>1, <2>4, <3>2, <4>1 DEF ClosedEnd
    <3>3. QED
      BY <3>1, <3>2
  <2>6. QED
    BY <1>2, <1>4, <2>1, <2>5 DEF FlushWriter, UpToDate
<1>5. QED
  BY <1>3, <1>4

\* What a Writer let go of leaves: the others, and the file as it is now.
LEMMA DoneInv ==
    ASSUME RecordInv, noSpan' = noSpan, NEW w \in Open, Done(w),
           Grows, LogGrows, FileInv', eof' \in 0 .. Capacity, eof' \in Nat,
           data' \in [Blocks -> [1 .. BlockWords -> AnyWord]],
           hwm' \in 0 .. MaxBlocks + 1, maxWritten' \in Nat, failures' \in Nat,
           pending' \in Seq(AnyPlaced),
           IF writer[w].shared THEN pending' = pending ELSE pending' = <<>>,
           reader' = reader, due' = due
    PROVE  RecordInv'
<1>1. /\ RecordTypes /\ Apart /\ \A r \in Readers : ReaderInv(r)
  BY DEF RecordInv
<1>2. w \in Writers /\ writer' = [writer EXCEPT ![w] = Closed]
  BY DEF Open, Done
<1>3. writer' \in [Writers -> AnyWriter] /\ \A x \in Writers : writer'[x] = IF x = w THEN Closed ELSE writer[x]
  BY <1>1, <1>2, ClosedIsWriter DEF RecordTypes
<1>4. RecordTypes'
  BY <1>1, <1>3 DEF RecordTypes, LogGrows, Capacity, Blocks, AnyWord, AnyPlaced, AnyWriter
<1>5. Apart'
  BY <1>1, <1>2, ApartDone
<1>6. WriterInv(w)'
  BY <1>2, <1>3, ClosedIsWriter DEF WriterInv, Ready
<1>7. ASSUME NEW x \in Writers, x # w
      PROVE  WriterInv(x)'
  BY <1>3, <1>7, OthersStay
<1>8. \A r \in Readers : ReaderInv(r)'
  BY <1>1, ReadersStay
<1>9. QED
  BY <1>4, <1>5, <1>6, <1>7, <1>8 DEF RecordInv

\* A Close keeps the file's words, and the invariant.
LEMMA CloseInv ==
    ASSUME RecordInv, Civil, noSpan' = noSpan, NEW w \in Writers, Close(w)
    PROVE  Grows /\ RecordInv'
<1>1. /\ InUse(w) /\ Done(w) /\ reader' = reader /\ due' = due /\ failures' = failures
  BY DEF Close
<1>2. Ready(w) /\ w \in Open /\ failures \in Nat
  BY <1>1 DEF Civil, InUse, Ready, Open, RecordInv, RecordTypes
<1>3. PICK own : own = writer[w] /\ FlushWriter(own)
  BY <1>2, CloseFlushes
<1>4. /\ Grows /\ LogGrows /\ FileInv' /\ eof' \in 0 .. Capacity /\ eof' \in Nat
      /\ data' \in [Blocks -> [1 .. BlockWords -> AnyWord]]
      /\ hwm' \in 0 .. MaxBlocks + 1 /\ maxWritten' \in Nat
      /\ pending' \in Seq(AnyPlaced)
      /\ IF own.shared THEN pending' = pending ELSE pending' = <<>>
  BY <1>2, <1>3, FlushWriterInv
<1>5. RecordInv'
  BY <1>1, <1>2, <1>3, <1>4, DoneInv
<1>6. QED
  BY <1>4, <1>5

\* What lets go of a Writer without writing.
LEMMA LetGoInv ==
    ASSUME RecordInv, noSpan' = noSpan, NEW w \in Open, Done(w), UNCHANGED <<fileVars, log>>,
           failures' \in Nat, reader' = reader, due' = due,
           IF writer[w].shared THEN pending' = pending ELSE pending' = <<>>
    PROVE  Grows /\ RecordInv'
<1>1. RecordTypes /\ FileInv /\ data' = data /\ hwm' = hwm /\ maxWritten' = maxWritten
  BY DEF RecordInv, fileVars
<1>2. Grows /\ LogGrows /\ FileInv' /\ eof' \in 0 .. Capacity /\ eof' \in Nat
  BY <1>1, FileUntouched DEF fileVars
<1>3. /\ data' \in [Blocks -> [1 .. BlockWords -> AnyWord]]
      /\ hwm' \in 0 .. MaxBlocks + 1 /\ maxWritten' \in Nat
      /\ pending' \in Seq(AnyPlaced)
  <2>1. <<>> \in Seq(AnyPlaced)
    OBVIOUS
  <2>2. pending' = pending \/ pending' = <<>>
    OBVIOUS
  <2>3. QED
    BY <1>1, <2>1, <2>2 DEF RecordTypes
<1>4. RecordInv'
  BY <1>2, <1>3, DoneInv
<1>5. QED
  BY <1>2, <1>4

\* A Close that fails leaves the file as it is.
LEMMA CloseFailsInv ==
    ASSUME RecordInv, Civil, noSpan' = noSpan, NEW w \in Writers, CloseFails(w)
    PROVE  Grows /\ RecordInv'
<1>1. /\ InUse(w) /\ Done(w) /\ UNCHANGED <<fileVars, log>> /\ reader' = reader /\ due' = due
      /\ failures' = failures + 1 /\ pending' = <<>>
  BY DEF CloseFails
<1>2. Ready(w) /\ w \in Open /\ failures' \in Nat /\ Apart
  BY <1>1 DEF Civil, InUse, Ready, Open, RecordInv, RecordTypes
<1>3. writer[w].shared => pending' = pending
  BY <1>1, <1>2, OnlyOne
<1>4. QED
  BY <1>1, <1>2, <1>3, LetGoInv

\* A Writer let go of after a Put that failed leaves the file as it is.
LEMMA DropInv ==
    ASSUME RecordInv, noSpan' = noSpan, NEW w \in Writers, Drop(w)
    PROVE  Grows /\ RecordInv'
<1>1. /\ writer[w].failed /\ Done(w) /\ UNCHANGED <<fileVars, log>> /\ reader' = reader /\ due' = due
      /\ failures' = failures
      /\ pending' = IF writer[w].shared THEN pending ELSE <<>>
  BY DEF Drop
<1>2. w \in Open /\ failures' \in Nat
  BY <1>1 DEF RecordInv, Apart, Open, RecordTypes
<1>3. QED
  BY <1>1, <1>2, LetGoInv

-----------------------------------------------------------------------------
(* Opening.                                                                *)

\* A Writer opened at the end of the file, to share it or to have it alone.
LEMMA OpenedInv ==
    ASSUME RecordInv, noSpan' = noSpan, NEW w \in Writers, w \notin Open,
           NEW a, CanTake(a), a.state = "open", ~a.failed, Offset(a) = eof,
           \A p \in Start(a.vbn) .. eof - 1 : Buffered(a, p) = WordAt(p),
           IF a.shared THEN ~Alone ELSE Open = {} /\ EndsWhereWritten(a)',
           writer' = [writer EXCEPT ![w] = a],
           UNCHANGED <<data, eof, hwm, log, pending, failures>>,
           reader' = reader, maxWritten' \in Nat, due' \in [Readers -> Nat \ {0}],
           \A r \in Readers : ReaderInv(r)'
    PROVE  Grows /\ RecordInv'
<1>1. /\ RecordTypes /\ Apart /\ FileInv /\ a \in AnyWriter /\ eof \in Nat
  BY CapacityInBlocks DEF RecordInv, RecordTypes, CanTake
<1>2. ~Alone /\ pending = <<>> /\ \A x \in Open : writer[x].shared
  BY <1>1 DEF Apart, Alone
<1>3. data' = data /\ eof' = eof /\ hwm' = hwm /\ log' = log /\ pending' = pending /\ failures' = failures
  OBVIOUS
<1>4. Grows /\ LogGrows /\ FileInv' /\ eof' \in 0 .. Capacity /\ eof' \in Nat
  BY <1>1, <1>3, FileUntouched
<1>5. writer' \in [Writers -> AnyWriter] /\ \A x \in Writers : writer'[x] = IF x = w THEN a ELSE writer[x]
  BY <1>1 DEF RecordTypes
<1>6. RecordTypes'
  BY <1>1, <1>3, <1>4, <1>5 DEF RecordTypes, Capacity, Blocks, AnyWord, AnyPlaced, AnyWriter
<1>7. Open' = Open \cup {w}
  BY <1>5 DEF Open
<1>8. Apart'
  <2>1. ASSUME NEW x \in Open', ~writer'[x].shared
        PROVE  Open' = {x}
    <3>1. x \in Writers /\ writer'[x] = IF x = w THEN a ELSE writer[x]
      BY <1>5, <1>7 DEF Open
    <3>2. x = w /\ ~a.shared
      BY <1>2, <1>7, <2>1, <3>1
    <3>3. Open = {}
      BY <3>2
    <3>4. QED
      BY <1>7, <3>2, <3>3
  <2>2. \A x \in Writers : writer'[x].failed => writer'[x].state = "open"
    BY <1>1, <1>5 DEF Apart
  <2>3. QED
    BY <1>2, <1>3, <2>1, <2>2 DEF Apart
<1>9. WriterInv(w)'
  <2>1. CASE a.shared
    <3>1. SharedInv(a)
      BY <1>1 DEF SharedInv
    <3>2. SharedInv(a)'
      BY <1>1, <1>4, <3>1, SharedStays
    <3>3. QED
      BY <1>5, <2>1, <3>2 DEF WriterInv, CanTake
  <2>2. CASE ~a.shared
    <3>1. Writable(a)
      BY <1>1, <1>2, EndWritable
    <3>2. Writable(a)'
      BY <1>3, <3>1, noSpan' = noSpan DEF Writable, CanTake, Offset, Start, Buffered, BlockOf, WordAt, Capacity, Under
    <3>3. QED
      BY <1>5, <2>2, <3>2 DEF WriterInv, CanTake
  <2>3. QED
    BY <2>1, <2>2
<1>10. ASSUME NEW x \in Writers, x # w
       PROVE  WriterInv(x)'
  <2>1. Ready(x) => writer[x].shared
    BY <1>2 DEF Ready, Open
  <2>2. writer'[x] = writer[x]
    BY <1>5, <1>10
  <2>3. QED
    BY <1>4, <2>1, <2>2, SharersStay
<1>11. QED
  BY <1>4, <1>6, <1>8, <1>9, <1>10 DEF RecordInv

\* A Writer just opened.
LEMMA OpenedIsWriter ==
    /\ Opened \in AnyWriter /\ Opened.state = "open" /\ Opened.shared = FALSE /\ Opened.failed = FALSE
    /\ Opened.vbn = 1 /\ Opened.buf = <<>>
BY ClosedIsWriter DEF Opened, AnyWriter, Closed

\* A shared Writer opens at the end of the file.
LEMMA OpenSharedInv ==
    ASSUME RecordInv, noSpan' = noSpan, NEW w \in Writers, OpenShared(w)
    PROVE  Grows /\ RecordInv'
<1>1. PICK o : o = [Opened EXCEPT !.shared = TRUE]
  OBVIOUS
<1>2. PICK a : a = At(o, eof)
  OBVIOUS
<1>3. /\ writer[w].state = "closed" /\ ~Alone /\ writer' = [writer EXCEPT ![w] = a]
      /\ UNCHANGED <<data, eof, hwm, log, pending, failures>> /\ maxWritten' = maxWritten
      /\ reader' = reader /\ due' = due
  BY <1>1, <1>2 DEF OpenShared, fileVars
<1>4. RecordTypes /\ \A r \in Readers : ReaderInv(r)
  BY DEF RecordInv
<1>5. o \in AnyWriter /\ o.state = "open" /\ o.shared = TRUE /\ o.failed = FALSE
  BY <1>1, OpenedIsWriter DEF AnyWriter
<1>6. /\ CanTake(a) /\ a.state = o.state /\ a.shared = o.shared /\ a.failed = o.failed
      /\ Offset(a) = eof
      /\ \A p \in Start(a.vbn) .. eof - 1 : Buffered(a, p) = WordAt(p)
  <2>1. RecordTypes /\ o \in AnyWriter
    BY <1>4, <1>5
  <2>2. /\ CanTake(a) /\ a = [o EXCEPT !.vbn = BlockOf(eof), !.buf = ReadBack(eof)]
        /\ a.state = o.state /\ a.shared = o.shared /\ a.failed = o.failed
        /\ a.vbn = BlockOf(eof) /\ Len(a.buf) = eof % BlockWords
        /\ Offset(a) = eof /\ Start(a.vbn) \in 0 .. eof
        /\ \A p \in Start(a.vbn) .. eof - 1 : Buffered(a, p) = WordAt(p)
    BY <1>2, <2>1, AtEnd, Zenon
  <2>3. QED
    BY <2>2, Zenon
<1>7. w \notin Open
  BY <1>3 DEF Open
<1>8. maxWritten' \in Nat /\ due' \in [Readers -> Nat \ {0}]
  BY <1>3, <1>4 DEF RecordTypes
<1>9. \A r \in Readers : ReaderInv(r)'
  <2>1. FileInv
    BY DEF RecordInv
  <2>2. Grows /\ LogGrows /\ eof' \in Nat
    BY <1>3, <1>4, <2>1, FileUntouched
  <2>3. QED
    BY <1>3, <1>4, <2>2, ReadersStay
<1>10. QED
  BY <1>3, <1>5, <1>6, <1>7, <1>8, <1>9, OpenedInv

\* How many blocks a file uses, and where its last one ends.
LEMMA UsedIsLast ==
    ASSUME eof \in Nat
    PROVE  /\ UsedBlocks \in Nat
           /\ eof % BlockWords = 0 => UsedBlocks = BlockOf(eof) - 1
           /\ eof % BlockWords # 0 => UsedBlocks = BlockOf(eof)
<1>1. PICK B \in Nat \ {0} : B = BlockWords
  BY BoundTypes
<1>2. PICK n \in Nat : n = BlockOf(eof) - 1 /\ BlockOf(eof) = n + 1
  BY Places
<1>3. PICK k \in Nat : k = eof % BlockWords /\ k < B
  BY <1>1, Places
<1>4. n * B \in Nat /\ Start(BlockOf(eof)) = n * B /\ eof = n * B + k
  <2>1. n * B \in Nat
    BY <1>1, <1>2, ProductsAreOrdered
  <2>2. Start(BlockOf(eof)) = n * B
    BY <1>1, <1>2 DEF Start
  <2>3. eof % BlockWords = eof - Start(BlockOf(eof))
    BY Places
  <2>4. QED
    BY <1>3, <2>1, <2>2, <2>3
<1>5. PICK x \in Nat : x = eof + B - 1
  BY <1>1
<1>6. UsedBlocks = BlockOf(x) - 1
  <2>1. UsedBlocks = x \div BlockWords
    BY <1>1, <1>5 DEF UsedBlocks
  <2>2. BlockOf(x) \in Nat \ {0}
    BY Places
  <2>3. QED
    BY <2>1, <2>2 DEF BlockOf
<1>7. CASE k = 0
  <2>1. PICK v \in Nat \ {0} : v = n + 1
    BY <1>2
  <2>2. Start(v) = n * B
    BY <1>1, <1>2, <2>1 DEF Start
  <2>3. x = n * B + B - 1
    BY <1>1, <1>4, <1>5, <1>7
  <2>4. Start(v) <= x /\ x < Start(v) + BlockWords
    BY <1>1, <1>4, <2>2, <2>3
  <2>5. BlockOf(x) = v
    BY <2>4, InBlock
  <2>6. QED
    BY <1>2, <1>3, <1>6, <1>7, <2>1, <2>5
<1>8. CASE k # 0
  <2>1. PICK v \in Nat \ {0} : v = n + 1
    BY <1>2
  <2>2. Start(v) = n * B /\ Start(v + 1) = n * B + B
    BY <1>1, <1>2, <2>1, Starts DEF Start
  <2>3. x = n * B + k + B - 1
    BY <1>1, <1>4, <1>5
  <2>4. Start(v + 1) <= x /\ x < Start(v + 1) + BlockWords
    BY <1>1, <1>3, <1>4, <1>8, <2>2, <2>3
  <2>5. v + 1 \in Nat \ {0}
    BY <2>1
  <2>6. BlockOf(x) = v + 1
    BY <2>4, <2>5, InBlock
  <2>7. QED
    BY <1>2, <1>3, <1>6, <1>8, <2>1, <2>6
<1>9. QED
  BY <1>7, <1>8

\* A Writer that appends and has the file to itself opens at its end.
LEMMA OpenAppenderInv ==
    ASSUME RecordInv, noSpan' = noSpan, NEW w \in Writers, OpenAppender(w)
    PROVE  Grows /\ RecordInv'
<1>1. PICK a : a = At(Opened, eof)
  OBVIOUS
<1>2. /\ Open = {} /\ writer' = [writer EXCEPT ![w] = a]
      /\ UNCHANGED <<data, eof, hwm, log, pending, failures>> /\ maxWritten' = UsedBlocks
      /\ reader' = reader /\ due' = due
  BY <1>1 DEF OpenAppender
<1>3. RecordTypes /\ FileInv /\ eof \in Nat /\ \A r \in Readers : ReaderInv(r)
  BY CapacityInBlocks DEF RecordInv, RecordTypes
<1>4. Opened \in AnyWriter /\ Opened.state = "open" /\ Opened.shared = FALSE /\ Opened.failed = FALSE
  BY OpenedIsWriter
<1>5. /\ CanTake(a) /\ a.state = "open" /\ a.shared = FALSE /\ a.failed = FALSE
      /\ Offset(a) = eof /\ a.vbn = BlockOf(eof) /\ Len(a.buf) = eof % BlockWords
      /\ \A p \in Start(a.vbn) .. eof - 1 : Buffered(a, p) = WordAt(p)
  BY <1>1, <1>3, <1>4, AtEnd
<1>6. w \notin Open
  BY <1>2
<1>7. maxWritten' \in Nat /\ due' \in [Readers -> Nat \ {0}]
  BY <1>2, <1>3, UsedIsLast DEF RecordTypes
<1>8. EndsWhereWritten(a)'
  <2>1. Len(a.buf) = 0 <=> a.buf = <<>>
    BY <1>5, BufferPlaces
  <2>2. QED
    BY <1>2, <1>3, <1>5, <2>1, UsedIsLast DEF EndsWhereWritten
<1>9. \A r \in Readers : ReaderInv(r)'
  <2>1. Grows /\ LogGrows /\ eof' \in Nat
    BY <1>2, <1>3, FileUntouched
  <2>2. QED
    BY <1>2, <1>3, <2>1, ReadersStay
<1>10. QED
  BY <1>2, <1>5, <1>6, <1>7, <1>8, <1>9, OpenedInv

\* A Writer from the first byte opens a file that holds nothing.
LEMMA OpenWriterInv ==
    ASSUME RecordInv, Civil, noSpan' = noSpan, NEW w \in Writers, OpenWriter(w)
    PROVE  Grows /\ RecordInv'
<1>1. PICK a : a = Opened
  OBVIOUS
<1>2. /\ Open = {} /\ eof = 0 /\ writer' = [writer EXCEPT ![w] = a]
      /\ UNCHANGED <<data, eof, hwm, pending, failures>> /\ maxWritten' = UsedBlocks
      /\ log' = <<>> /\ due' = [r \in Readers |-> 1]
      /\ reader' = reader
  BY <1>1 DEF OpenWriter, Civil
<1>3. RecordTypes /\ FileInv /\ \A r \in Readers : ReaderInv(r)
  BY DEF RecordInv
<1>4. log \in Seq(AnyPlaced) /\ Len(log) \in Nat
  BY <1>3, LenProperties DEF RecordTypes
<1>5. log = <<>>
  <2>1. SUFFICES ASSUME log # <<>> PROVE FALSE
    OBVIOUS
  <2>2. Len(log) # 0
    BY <1>4, <2>1, EmptySeq
  <2>3. PICK k \in 1 .. Len(log) : k = 1
    BY <1>4, <2>2
  <2>4. PICK end \in Nat : end = eof
    BY <1>2
  <2>5. Holds(noSpan, Disk, end, log)
    BY <1>3, <2>4 DEF FileInv
  <2>6. log[k].at \in Nat /\ log[k].size \in Nat /\ log[k].at + log[k].size < end
    BY <1>4, <2>5, HeldRecord
  <2>7. QED
    BY <1>2, <2>4, <2>6
<1>6. /\ a \in AnyWriter /\ a.state = "open" /\ a.shared = FALSE /\ a.failed = FALSE
      /\ a.vbn = 1 /\ a.buf = <<>> /\ Len(a.buf) = 0
  BY <1>1, OpenedIsWriter
<1>7. CanTake(a)
  BY <1>6, BoundTypes DEF CanTake
<1>8. Offset(a) = eof /\ Start(a.vbn) = 0
  BY <1>2, <1>6, BoundTypes DEF Offset, Start
<1>9. \A p \in Start(a.vbn) .. eof - 1 : Buffered(a, p) = WordAt(p)
  BY <1>2, <1>8
<1>10. w \notin Open
  BY <1>2
<1>11. maxWritten' = 0 /\ due' \in [Readers -> Nat \ {0}]
  <2>1. eof % BlockWords = 0 /\ BlockOf(eof) = 1
    <3>1. PICK v \in Nat \ {0} : v = 1
      OBVIOUS
    <3>2. Start(v) = 0 /\ eof \in Nat /\ BlockWords \in Nat \ {0}
      BY <1>2, <1>6, <1>8, <3>1, BoundTypes
    <3>3. BlockOf(eof) = v
      BY <1>2, <3>2, InBlock
    <3>4. eof % BlockWords = eof - Start(BlockOf(eof))
      BY <3>2, Places
    <3>5. QED
      BY <1>2, <3>1, <3>2, <3>3, <3>4
  <2>2. QED
    BY <1>2, <2>1, UsedIsLast
<1>12. EndsWhereWritten(a)'
  BY <1>6, <1>11 DEF EndsWhereWritten
<1>13. ASSUME NEW r \in Readers
       PROVE  ReaderInv(r)'
  <2>1. /\ ReaderInv(r) /\ reader[r].fetched \in Nat /\ reader[r].buf \in Seq(AnyWord)
    BY <1>3 DEF RecordTypes
  <2>2. Len(reader[r].buf) \in Nat /\ reader[r].fetched <= 0 /\ Len(reader[r].buf) <= reader[r].fetched
    BY <1>2, <2>1, LenProperties DEF ReaderInv
  <2>3. reader[r].fetched = 0 /\ Len(reader[r].buf) = 0 /\ ReadOffset(reader[r]) = 0
    BY <2>1, <2>2 DEF ReadOffset
  <2>4. due'[r] = 1 /\ Len(log') = 0 /\ AfterOf(log', due'[r] - 1) = 0 /\ eof' = 0 /\ reader'[r] = reader[r]
    BY <1>2 DEF AfterOf
  <2>5. \A i \in 1 .. Len(reader'[r].buf) : FALSE
    BY <2>3, <2>4
  <2>6. QED
    BY <2>3, <2>4, <2>5 DEF ReaderInv, ReadOffset
<1>14. UNCHANGED <<data, eof, hwm, log, pending, failures>>
  BY <1>2, <1>5
<1>15. /\ writer' = [writer EXCEPT ![w] = a] /\ reader' = reader
       /\ ~a.failed /\ a.state = "open" /\ maxWritten' \in Nat /\ due' \in [Readers -> Nat \ {0}]
       /\ IF a.shared THEN ~Alone ELSE Open = {} /\ EndsWhereWritten(a)'
  BY <1>2, <1>6, <1>11, <1>12
<1>16. \A r \in Readers : ReaderInv(r)'
  BY <1>13
<1>17. QED
  BY <1>7, <1>8, <1>9, <1>10, <1>14, <1>15, <1>16, OpenedInv

-----------------------------------------------------------------------------
(* Reading.                                                                *)

AnyReader == [fetched: Nat, buf: Seq(AnyWord)]

\* What a Reader holds is what the file does.
Faithful(rd) ==
    /\ rd \in AnyReader
    /\ Len(rd.buf) <= rd.fetched
    /\ \A i \in 1 .. Len(rd.buf) : rd.buf[i] = WordAt(ReadOffset(rd) + i - 1)

\* From where it stands, a Reader sees the file's words.
LEMMA SeenWords ==
    ASSUME NEW rd, Faithful(rd)
    PROVE  /\ ReadOffset(rd) \in Nat /\ rd.fetched \in Nat /\ Len(rd.buf) \in Nat
           /\ ReadOffset(rd) = rd.fetched - Len(rd.buf)
           /\ \A p \in Nat : ReadOffset(rd) <= p => Seen(rd, p) = WordAt(p)
<1>1. /\ rd.fetched \in Nat /\ Len(rd.buf) \in Nat /\ Len(rd.buf) <= rd.fetched
      /\ ReadOffset(rd) = rd.fetched - Len(rd.buf)
  BY LenProperties DEF Faithful, AnyReader, ReadOffset
<1>2. ASSUME NEW p \in Nat, ReadOffset(rd) <= p
      PROVE  Seen(rd, p) = WordAt(p)
  <2>1. CASE p < rd.fetched
    <3>1. PICK i : i = p - ReadOffset(rd) + 1
      OBVIOUS
    <3>2. i \in 1 .. Len(rd.buf) /\ ReadOffset(rd) + i - 1 = p
      BY <1>1, <1>2, <2>1, <3>1
    <3>3. rd.buf[i] = WordAt(ReadOffset(rd) + i - 1)
      BY <3>2 DEF Faithful
    <3>4. QED
      BY <2>1, <3>1, <3>2, <3>3 DEF Seen
  <2>2. CASE ~(p < rd.fetched)
    BY <2>2 DEF Seen
  <2>3. QED
    BY <2>1, <2>2
<1>3. QED
  BY <1>1, <1>2

\* A Reader that starts anew at a place.
LEMMA FreshIsFaithful ==
    ASSUME NEW p \in Nat
    PROVE  Faithful([fetched |-> p, buf |-> <<>>]) /\ ReadOffset([fetched |-> p, buf |-> <<>>]) = p
<1>1. <<>> \in Seq(AnyWord) /\ Len(<<>>) = 0
  OBVIOUS
<1>2. PICK s : s = [fetched |-> p, buf |-> <<>>]
  OBVIOUS
<1>3. s \in AnyReader /\ s.fetched = p /\ s.buf = <<>>
  BY <1>1, <1>2 DEF AnyReader
<1>4. \A i \in 1 .. Len(s.buf) : FALSE
  BY <1>1, <1>3
<1>5. Faithful(s) /\ ReadOffset(s) = p
  BY <1>1, <1>3, <1>4 DEF Faithful, ReadOffset
<1>6. QED
  BY <1>2, <1>5

\* A record of the log is where the log says it is.
LEMMA LogIsThere ==
    ASSUME RecordTypes, FileInv, NEW d \in 1 .. Len(log)
    PROVE  /\ log[d].at \in Nat /\ log[d].size \in Nat /\ log[d].at + log[d].size < eof
           /\ AfterOf(log, d - 1) \in Nat /\ AfterOf(log, d - 1) < eof
           /\ AfterOf(log, d) = log[d].at + log[d].size + 1
           /\ log[d].at = IF WordAt(AfterOf(log, d - 1)) = EndOfRecords
                          THEN Start(BlockOf(AfterOf(log, d - 1)) + 1) ELSE AfterOf(log, d - 1)
           /\ \A i \in 0 .. log[d].size :
                 /\ WordAt(log[d].at + i) = Frame(log[d])[i + 1]
                 /\ Frame(log[d])[i + 1] = [rec |-> log[d].rec, part |-> i, size |-> log[d].size]
<1>1. log \in Seq(AnyPlaced) /\ eof \in Nat
  BY CapacityInBlocks DEF RecordTypes
<1>2. PICK V : V = Disk
  OBVIOUS
<1>3. PICK o : o = AfterOf(log, d - 1)
  OBVIOUS
<1>4. Holds(noSpan, V, eof, log)
  BY <1>2 DEF FileInv
<1>5. /\ o \in Nat /\ o < eof
      /\ log[d].at \in Nat /\ log[d].size \in Nat /\ log[d].at + log[d].size < eof
      /\ NextOf(V, eof, o) = log[d].at
      /\ HasRecord(V, eof, log[d].at, log[d])
  <2>1. /\ AfterOf(log, d - 1) \in Nat /\ AfterOf(log, d - 1) < eof
        /\ log[d].at \in Nat /\ log[d].size \in Nat /\ log[d].at + log[d].size < eof
        /\ NextOf(V, eof, AfterOf(log, d - 1)) = log[d].at
        /\ HasRecord(V, eof, log[d].at, log[d])
        /\ noSpan => BlockOf(log[d].at) = BlockOf(log[d].at + log[d].size)
    BY <1>1, <1>4, HeldRecord, Zenon
  <2>2. QED
    BY <1>3, <2>1
<1>6. AfterOf(log, d) = log[d].at + log[d].size + 1
  BY <1>1, PlacedParts
<1>7. V[o] = WordAt(o)
  BY <1>2, <1>5, UnderWords
<1>8. log[d].at = IF WordAt(o) = EndOfRecords THEN Start(BlockOf(o) + 1) ELSE o
  BY <1>5, <1>7 DEF NextOf
<1>9. ASSUME NEW i \in 0 .. log[d].size
      PROVE  /\ WordAt(log[d].at + i) = Frame(log[d])[i + 1]
             /\ Frame(log[d])[i + 1] = [rec |-> log[d].rec, part |-> i, size |-> log[d].size]
  <2>1. V[log[d].at + i] = Frame(log[d])[i + 1]
    BY <1>5 DEF HasRecord
  <2>2. log[d].at + i \in Nat
    BY <1>5
  <2>3. V[log[d].at + i] = WordAt(log[d].at + i)
    BY <1>2, <2>2, UnderWords
  <2>4. i + 1 \in 1 .. log[d].size + 1 /\ i + 1 - 1 = i
    BY <1>5
  <2>5. Frame(log[d])[i + 1] = [rec |-> log[d].rec, part |-> i, size |-> log[d].size]
    BY <2>4 DEF Frame
  <2>6. QED
    BY <2>1, <2>3, <2>5
<1>10. QED
  BY <1>3, <1>5, <1>6, <1>8, <1>9

\* No record begins with the mark of the end of a block.
LEMMA RecordIsNoMark ==
    ASSUME RecordTypes, FileInv, NEW d \in 1 .. Len(log)
    PROVE  WordAt(log[d].at) # EndOfRecords
<1>1. log[d].at \in Nat /\ log[d].size \in Nat /\ 0 \in 0 .. log[d].size
  BY LogIsThere
<1>2. WordAt(log[d].at + 0) = [rec |-> log[d].rec, part |-> 0, size |-> log[d].size]
  BY <1>1, LogIsThere
<1>3. log[d].at + 0 = log[d].at
  BY <1>1
<1>4. QED
  BY <1>2, <1>3 DEF EndOfRecords

\* Where a Reader goes on: at the next record, or at the end of the file.
LEMMA NextPlace ==
    ASSUME RecordTypes, FileInv, NEW r \in Readers, ReaderInv(r), NEW s, s = Sought(reader[r])
    PROVE  /\ due[r] \in Nat \ {0} /\ due[r] <= Len(log) + 1
           /\ due[r] <= Len(log) => ReadOffset(s) = log[due[r]].at
           /\ due[r] > Len(log) => ReadOffset(s) = eof
           /\ Faithful(s) /\ s.fetched <= eof
           /\ NextStart(reader[r]) = ReadOffset(s)
<1>1. PICK rd : rd = reader[r]
  OBVIOUS
<1>2. PICK d \in Nat \ {0} : d = due[r]
  BY DEF RecordTypes
<1>3. PICK o : o = ReadOffset(rd)
  OBVIOUS
<1>4. /\ log \in Seq(AnyPlaced) /\ Len(log) \in Nat /\ eof \in Nat
  BY LenProperties, CapacityInBlocks DEF RecordTypes
<1>5. /\ d <= Len(log) + 1 /\ rd.fetched <= eof
      /\ o = AfterOf(log, d - 1) \/ (d <= Len(log) /\ o = log[d].at)
  BY <1>1, <1>2, <1>3 DEF ReaderInv
<1>6. Faithful(rd)
  BY <1>1 DEF ReaderInv, RecordTypes, Faithful, AnyReader
<1>7. o \in Nat /\ Seen(rd, o) = WordAt(o) /\ rd.fetched \in Nat /\ o <= rd.fetched
  BY <1>3, <1>6, SeenWords
<1>8. NextStart(rd) = IF o < eof /\ WordAt(o) = EndOfRecords THEN Start(BlockOf(o) + 1) ELSE o
  BY <1>3, <1>7 DEF NextStart
<1>9. PICK n : n = NextStart(rd)
  OBVIOUS
<1>10. d <= Len(log) => n = log[d].at
  <2>1. SUFFICES ASSUME d <= Len(log) PROVE n = log[d].at
    OBVIOUS
  <2>2. d \in 1 .. Len(log)
    BY <1>4, <2>1
  <2>3. CASE o = AfterOf(log, d - 1)
    BY <1>8, <1>9, <2>2, <2>3, LogIsThere
  <2>4. CASE o = log[d].at
    BY <1>8, <1>9, <2>2, <2>4, RecordIsNoMark
  <2>5. QED
    BY <1>5, <2>3, <2>4
<1>11. d > Len(log) => n = eof
  <2>1. SUFFICES ASSUME d > Len(log) PROVE n = eof
    OBVIOUS
  <2>2. d - 1 = Len(log)
    BY <1>4, <1>5, <2>1
  <2>3. ~(d <= Len(log))
    BY <1>4, <2>1
  <2>4. eof = AfterOf(log, Len(log))
    BY DEF FileInv, Holds
  <2>5. o = eof
    BY <1>5, <2>2, <2>3, <2>4
  <2>6. QED
    BY <1>4, <1>8, <1>9, <2>5
<1>12. n \in Nat /\ n <= eof
  <2>1. CASE d <= Len(log)
    <3>1. d \in 1 .. Len(log)
      BY <1>4, <2>1
    <3>2. log[d].at \in Nat /\ log[d].at < eof
      BY <1>4, <3>1, LogIsThere
    <3>3. QED
      BY <1>4, <1>10, <2>1, <3>2
  <2>2. CASE d > Len(log)
    BY <1>4, <1>11, <2>2
  <2>3. QED
    BY <1>4, <2>1, <2>2
<1>13. CASE n = o
  <2>1. s = rd
    BY <1>1, <1>3, <1>9, <1>13 DEF Sought
  <2>2. QED
    BY <1>1, <1>2, <1>3, <1>4, <1>5, <1>6, <1>9, <1>10, <1>11, <1>13, <2>1
<1>14. CASE n # o
  <2>1. s = [fetched |-> n, buf |-> <<>>]
    BY <1>1, <1>3, <1>9, <1>14 DEF Sought
  <2>2. Faithful(s) /\ ReadOffset(s) = n
    BY <1>12, <2>1, FreshIsFaithful
  <2>3. s.fetched <= eof
    BY <1>12, <2>1
  <2>4. QED
    BY <1>1, <1>2, <1>4, <1>5, <1>9, <1>10, <1>11, <2>2, <2>3
<1>15. QED
  BY <1>13, <1>14

\* Nothing but where Readers are changes.
LEMMA ReaderActs ==
    ASSUME RecordInv, noSpan' = noSpan, UNCHANGED <<fileVars, writer, log, pending, failures>>,
           reader' \in [Readers -> AnyReader], due' \in [Readers -> Nat \ {0}],
           \A r \in Readers : ReaderInv(r)'
    PROVE  Grows /\ RecordInv'
<1>1. /\ RecordTypes /\ Apart /\ FileInv /\ \A w \in Writers : WriterInv(w)
  BY DEF RecordInv
<1>2. /\ data' = data /\ eof' = eof /\ hwm' = hwm /\ maxWritten' = maxWritten
      /\ writer' = writer /\ log' = log /\ pending' = pending /\ failures' = failures /\ noSpan' = noSpan
  BY DEF fileVars
<1>3. Grows /\ LogGrows /\ FileInv' /\ eof' \in 0 .. Capacity
  BY <1>1, <1>2, FileUntouched
<1>4. RecordTypes'
  BY <1>1, <1>2, <1>3 DEF RecordTypes, Capacity, Blocks, AnyWord, AnyPlaced, AnyWriter, AnyReader
<1>5. Apart'
  BY <1>1, <1>2 DEF Apart, Alone, Open
<1>6. ASSUME NEW w \in Writers
      PROVE  WriterInv(w)'
  <2>1. PICK a : a = writer[w]
    OBVIOUS
  <2>2. SUFFICES ASSUME Ready(w)
                 PROVE  CanTake(a) /\ IF a.shared THEN SharedInv(a)' ELSE Writable(a)' /\ EndsWhereWritten(a)'
    BY <1>2, <2>1 DEF WriterInv, Ready, CanTake
  <2>3. CanTake(a) /\ IF a.shared THEN SharedInv(a) ELSE Writable(a) /\ EndsWhereWritten(a)
    BY <1>1, <2>1, <2>2 DEF WriterInv
  <2>4. SharedInv(a) => SharedInv(a)'
    BY <1>2 DEF SharedInv, Offset, Start, Buffered, BlockOf, WordAt
  <2>5. Writable(a) => Writable(a)'
    BY <1>2 DEF Writable, CanTake, Offset, Start, Buffered, BlockOf, WordAt, Capacity, Under
  <2>6. EndsWhereWritten(a) => EndsWhereWritten(a)'
    BY <1>2 DEF EndsWhereWritten
  <2>7. QED
    BY <2>3, <2>4, <2>5, <2>6
<1>7. QED
  BY <1>3, <1>4, <1>5, <1>6 DEF RecordInv

\* One Reader's place changes, to one the invariant allows.
LEMMA ReaderMoves ==
    ASSUME RecordInv, noSpan' = noSpan, UNCHANGED <<fileVars, writer, log, pending, failures>>,
           NEW r \in Readers, NEW rd, Faithful(rd), NEW d \in Nat \ {0}, d <= Len(log) + 1, rd.fetched <= eof,
           ReadOffset(rd) = AfterOf(log, d - 1) \/ (d <= Len(log) /\ ReadOffset(rd) = log[d].at),
           reader' = [reader EXCEPT ![r] = rd], due' = [due EXCEPT ![r] = d]
    PROVE  Grows /\ RecordInv'
<1>1. RecordTypes /\ rd \in AnyReader /\ \A x \in Readers : ReaderInv(x)
  BY DEF RecordInv, Faithful
<1>2. /\ data' = data /\ eof' = eof /\ hwm' = hwm /\ log' = log
  BY DEF fileVars
<1>3. /\ reader' \in [Readers -> AnyReader] /\ due' \in [Readers -> Nat \ {0}]
      /\ \A x \in Readers : /\ reader'[x] = IF x = r THEN rd ELSE reader[x]
                            /\ due'[x] = IF x = r THEN d ELSE due[x]
  BY <1>1 DEF RecordTypes, AnyReader
<1>4. ASSUME NEW x \in Readers
      PROVE  ReaderInv(x)'
  <2>1. PICK b : b = reader'[x]
    OBVIOUS
  <2>2. PICK n : n = due'[x]
    OBVIOUS
  <2>3. /\ n <= Len(log) + 1
        /\ Len(b.buf) <= b.fetched /\ b.fetched <= eof
        /\ \A i \in 1 .. Len(b.buf) : b.buf[i] = WordAt(ReadOffset(b) + i - 1)
        /\ ReadOffset(b) = AfterOf(log, n - 1) \/ (n <= Len(log) /\ ReadOffset(b) = log[n].at)
    <3>1. CASE x = r
      BY <1>3, <2>1, <2>2, <3>1 DEF Faithful
    <3>2. CASE x # r
      BY <1>1, <1>3, <2>1, <2>2, <3>2 DEF ReaderInv
    <3>3. QED
      BY <3>1, <3>2
  <2>4. \A i \in 1 .. Len(b.buf) : b.buf[i] = WordAt(ReadOffset(b) + i - 1)'
    BY <1>2, <2>3 DEF WordAt, BlockOf
  <2>5. QED
    BY <1>2, <2>1, <2>2, <2>3, <2>4 DEF ReaderInv, ReadOffset
<1>5. QED
  BY <1>3, <1>4, ReaderActs

\* A Reader that returns a record goes on behind it.
LEMMA ReadNextInv ==
    ASSUME RecordInv, noSpan' = noSpan, NEW r \in Readers, ReadNext(r)
    PROVE  Grows /\ RecordInv'
<1>1. RecordTypes /\ FileInv /\ ReaderInv(r)
  BY DEF RecordInv
<1>2. PICK rd : rd = reader[r]
  OBVIOUS
<1>3. PICK s : s = Sought(rd)
  OBVIOUS
<1>4. PICK n : n = ReadOffset(s)
  OBVIOUS
<1>5. PICK d \in Nat \ {0} : d = due[r]
  BY <1>1 DEF RecordTypes
<1>6. PICK e \in Records : RecordAt(s, n, e) /\ reader' = [reader EXCEPT ![r] = Advanced(rd, e.size)]
  BY <1>2, <1>3, <1>4, <1>1 DEF ReadNext, RecordTypes
<1>7. /\ due' = [due EXCEPT ![r] = Min(d + 1, Len(log) + 1)]
      /\ UNCHANGED <<fileVars, writer, log, pending, failures>>
  BY <1>1, <1>5 DEF ReadNext, RecordTypes
<1>8. Len(log) \in Nat /\ eof \in Nat /\ eof <= Capacity /\ Capacity \in Nat
  BY <1>1, LenProperties, CapacityInBlocks DEF RecordTypes
<1>9. /\ d <= Len(log) + 1
      /\ d <= Len(log) => n = log[d].at
      /\ d > Len(log) => n = eof
      /\ Faithful(s) /\ s.fetched <= eof
      /\ NextStart(rd) = n
  BY <1>1, <1>2, <1>3, <1>4, <1>5, NextPlace
<1>10. PICK size \in Nat : size = e.size
  BY <1>6, BoundTypes DEF Records
<1>11. n \in Nat /\ s.fetched \in Nat /\ \A p \in Nat : n <= p => Seen(s, p) = WordAt(p)
  BY <1>4, <1>9, SeenWords
<1>12. n + size < eof
  BY <1>6, <1>10 DEF RecordAt
<1>13. d \in 1 .. Len(log) /\ n = log[d].at
  BY <1>8, <1>9, <1>11, <1>12
<1>14. log[d].size = size /\ AfterOf(log, d) = n + size + 1
  <2>1. 0 \in 0 .. e.size /\ n + 0 = n /\ 0 + 1 = 1 /\ 1 \in 1 .. e.size + 1 /\ 1 - 1 = 0
    BY <1>10, <1>11
  <2>2. Seen(s, n) = Frame(e)[1]
    <3>1. Seen(s, n + 0) = Frame(e)[0 + 1]
      BY <1>6, <2>1 DEF RecordAt
    <3>2. QED
      BY <2>1, <3>1
  <2>3. Frame(e)[1] = [rec |-> e.rec, part |-> 0, size |-> size]
    BY <1>10, <2>1 DEF Frame
  <2>4. WordAt(n) = [rec |-> e.rec, part |-> 0, size |-> size]
    BY <1>11, <2>2, <2>3
  <2>5. /\ log[d].size \in Nat /\ AfterOf(log, d) = log[d].at + log[d].size + 1
        /\ WordAt(log[d].at + 0) = [rec |-> log[d].rec, part |-> 0, size |-> log[d].size]
    <3>1. log[d].size \in Nat /\ AfterOf(log, d) = log[d].at + log[d].size + 1
      BY <1>1, <1>13, LogIsThere
    <3>2. 0 \in 0 .. log[d].size
      BY <3>1
    <3>3. QED
      BY <1>1, <1>13, <3>1, <3>2, LogIsThere
  <2>6. [rec |-> e.rec, part |-> 0, size |-> size].size = [rec |-> log[d].rec, part |-> 0, size |-> log[d].size].size
    BY <1>13, <2>1, <2>4, <2>5
  <2>7. QED
    BY <1>13, <2>5, <2>6
<1>15. PICK end \in Nat : end = n + size + 1 /\ end <= eof /\ end > n
  BY <1>8, <1>11, <1>12
<1>16. PICK fetched : fetched = FetchedTo(s, end)
  OBVIOUS
<1>17. fetched \in Nat /\ end <= fetched /\ fetched <= eof
  <2>1. CASE end <= s.fetched
    BY <1>9, <1>11, <1>16, <2>1 DEF FetchedTo
  <2>2. CASE ~(end <= s.fetched)
    <3>1. PICK q \in Nat : q = end - 1
      BY <1>11, <1>15
    <3>2. PICK top \in Nat : top = Start(BlockOf(q) + 1) /\ q < top
      <4>1. /\ Start(BlockOf(q)) \in Nat /\ q < Start(BlockOf(q)) + BlockWords
            /\ Start(BlockOf(q) + 1) = Start(BlockOf(q)) + BlockWords
        BY <3>1, Places
      <4>2. QED
        BY <4>1, BoundTypes
    <3>3. fetched = Min(eof, top)
      BY <1>16, <2>2, <3>1, <3>2 DEF FetchedTo
    <3>4. QED
      BY <1>8, <1>15, <3>1, <3>2, <3>3 DEF Min
  <2>3. QED
    BY <2>1, <2>2
<1>18. PICK m \in Nat : m = fetched - end
  BY <1>17
<1>19. PICK buf : buf = [i \in 1 .. m |-> Seen(s, end + i - 1)]
  OBVIOUS
<1>20. Advanced(rd, e.size) = [fetched |-> fetched, buf |-> buf]
  BY <1>3, <1>9, <1>10, <1>15, <1>16, <1>18, <1>19 DEF Advanced
<1>21. ASSUME NEW i \in 1 .. m
       PROVE  buf[i] = WordAt(end + i - 1) /\ buf[i] \in AnyWord
  <2>1. PICK p \in Nat : p = end + i - 1 /\ n <= p /\ p < Capacity
    BY <1>8, <1>11, <1>15, <1>17, <1>18
  <2>2. buf[i] = WordAt(p)
    BY <1>11, <1>19, <2>1
  <2>3. QED
    BY <1>1, <2>1, <2>2, WordTypes
<1>22. buf \in Seq(AnyWord) /\ Len(buf) = m
  <2>1. buf \in [1 .. m -> AnyWord]
    BY <1>19, <1>21
  <2>2. buf \in Seq(AnyWord)
    BY <2>1, SeqDef
  <2>3. PICK k \in Nat : k = Len(buf) /\ DOMAIN buf = 1 .. k
    BY <2>2, LenProperties
  <2>4. 1 .. k = 1 .. m
    BY <2>1, <2>3
  <2>5. k = m
    BY ONLY <2>4, k \in Nat, m \in Nat
  <2>6. QED
    BY <2>2, <2>3, <2>5
<1>23. PICK rd2 : rd2 = [fetched |-> fetched, buf |-> buf]
  OBVIOUS
<1>24. rd2 \in AnyReader /\ rd2.fetched = fetched /\ rd2.buf = buf
  BY <1>17, <1>22, <1>23 DEF AnyReader
<1>25. ReadOffset(rd2) = end
  BY <1>15, <1>17, <1>18, <1>22, <1>24 DEF ReadOffset
<1>26. Faithful(rd2)
  <2>1. \A i \in 1 .. Len(rd2.buf) : rd2.buf[i] = WordAt(ReadOffset(rd2) + i - 1)
    BY <1>21, <1>22, <1>24, <1>25
  <2>2. Len(rd2.buf) <= rd2.fetched
    BY <1>15, <1>17, <1>18, <1>22, <1>24
  <2>3. QED
    BY <1>24, <2>1, <2>2 DEF Faithful
<1>27. PICK d2 \in Nat \ {0} : d2 = d + 1 /\ d2 - 1 = d
  OBVIOUS
<1>28. Min(d + 1, Len(log) + 1) = d2 /\ d2 <= Len(log) + 1
  BY <1>8, <1>13, <1>27 DEF Min
<1>29. reader' = [reader EXCEPT ![r] = rd2] /\ due' = [due EXCEPT ![r] = d2]
  BY <1>6, <1>7, <1>20, <1>23, <1>28
<1>30. ReadOffset(rd2) = AfterOf(log, d2 - 1) /\ rd2.fetched <= eof
  BY <1>14, <1>15, <1>17, <1>24, <1>25, <1>27
<1>31. QED
  BY <1>7, <1>26, <1>28, <1>29, <1>30, ReaderMoves

\* A Reader may go to any record of the log.
LEMMA SeekToInv ==
    ASSUME RecordInv, noSpan' = noSpan, NEW r \in Readers, NEW k \in DOMAIN log, SeekTo(r, k)
    PROVE  Grows /\ RecordInv'
<1>1. RecordTypes /\ FileInv /\ log \in Seq(AnyPlaced) /\ eof \in Nat
  BY CapacityInBlocks DEF RecordInv, RecordTypes
<1>2. k \in 1 .. Len(log) /\ Len(log) \in Nat
  BY <1>1, LenProperties
<1>3. PICK p \in Nat : p = log[k].at /\ p <= eof
  <2>1. log[k].at \in Nat /\ log[k].size \in Nat /\ log[k].at + log[k].size < eof
    BY <1>1, <1>2, LogIsThere
  <2>2. QED
    BY <1>1, <2>1
<1>4. PICK rd : rd = [fetched |-> p, buf |-> <<>>]
  OBVIOUS
<1>5. Faithful(rd) /\ ReadOffset(rd) = p /\ rd.fetched = p
  BY <1>4, FreshIsFaithful
<1>6. PICK d \in Nat \ {0} : d = k /\ d <= Len(log) /\ d <= Len(log) + 1
  BY <1>2
<1>7. /\ reader' = [reader EXCEPT ![r] = rd] /\ due' = [due EXCEPT ![r] = d]
      /\ UNCHANGED <<fileVars, writer, log, pending, failures>>
  BY <1>3, <1>4, <1>6 DEF SeekTo
<1>8. rd.fetched <= eof /\ ReadOffset(rd) = log[d].at
  BY <1>3, <1>5, <1>6
<1>9. QED
  BY <1>5, <1>6, <1>7, <1>8, ReaderMoves

-----------------------------------------------------------------------------
(* Every behaviour.                                                        *)

\* A new file holds no records.
LEMMA InitRecordInv == Init => RecordInv
<1>1. SUFFICES ASSUME Init PROVE RecordInv
  OBVIOUS
<1>2. /\ noSpan \in BOOLEAN /\ data = [b \in Blocks |-> [i \in 1 .. BlockWords |-> Leftover]]
      /\ eof = 0 /\ hwm = 0 /\ maxWritten = 0
      /\ writer = [w \in Writers |-> Closed]
      /\ reader = [r \in Readers |-> [fetched |-> 0, buf |-> <<>>]]
      /\ log = <<>> /\ pending = <<>> /\ due = [r \in Readers |-> 1] /\ failures = 0
  BY <1>1 DEF Init
<1>3. Capacity \in Nat /\ MaxBlocks \in Nat
  BY CapacityInBlocks, BoundTypes
<1>4. <<>> \in Seq(AnyPlaced) /\ <<>> \in Seq(AnyWord) /\ Len(<<>>) = 0
  OBVIOUS
<1>5. RecordTypes
  <2>1. Leftover \in AnyWord
    BY DEF Leftover, AnyWord
  <2>2. data \in [Blocks -> [1 .. BlockWords -> AnyWord]]
    BY <1>2, <2>1
  <2>3. writer \in [Writers -> AnyWriter]
    BY <1>2, ClosedIsWriter
  <2>4. [fetched |-> 0, buf |-> <<>>] \in AnyReader
    BY <1>4 DEF AnyReader
  <2>5. reader \in [Readers -> AnyReader]
    BY <1>2, <2>4
  <2>6. QED
    BY <1>2, <1>3, <1>4, <2>2, <2>3, <2>5 DEF RecordTypes, AnyReader
<1>6. \A w \in Writers : writer[w].state = "closed" /\ writer[w].failed = FALSE
  BY <1>2, ClosedIsWriter
<1>7. Apart
  BY <1>2, <1>6 DEF Apart, Open
<1>8. FileInv
  <2>1. \A p \in 0 .. eof - 1 : FALSE
    BY <1>2
  <2>2. Holds(noSpan, Disk, 0, <<>>)
    BY <1>4 DEF Holds, AfterOf
  <2>3. QED
    BY <1>2, <2>1, <2>2 DEF FileInv
<1>9. \A w \in Writers : WriterInv(w)
  BY <1>6 DEF WriterInv, Ready
<1>10. ASSUME NEW r \in Readers
       PROVE  ReaderInv(r)
  <2>1. PICK p \in Nat : p = 0
    OBVIOUS
  <2>2. PICK rd : rd = [fetched |-> p, buf |-> <<>>]
    OBVIOUS
  <2>3. Faithful(rd) /\ ReadOffset(rd) = p
    BY <2>2, FreshIsFaithful
  <2>4. reader[r] = rd /\ rd.fetched = p /\ due[r] = 1
    BY <1>2, <2>1, <2>2
  <2>5. due[r] <= Len(log) + 1 /\ AfterOf(log, due[r] - 1) = 0 /\ p <= eof
    BY <1>2, <1>4, <2>1, <2>4 DEF AfterOf
  <2>6. QED
    BY <2>1, <2>3, <2>4, <2>5 DEF ReaderInv, Faithful
<1>11. QED
  BY <1>5, <1>7, <1>8, <1>9, <1>10 DEF RecordInv

\* Every step keeps the file's words, and the invariant.
LEMMA StepRecordInv ==
    ASSUME Civil, RecordInv, [Next]_vars
    PROVE  Grows /\ RecordInv'
<1>1. CASE Next
  <2>1. Step /\ noSpan' = noSpan
    BY <1>1 DEF Next
  <2>2. ASSUME NEW w \in Writers, OpenShared(w)
        PROVE  Grows /\ RecordInv'
    BY <2>1, <2>2, OpenSharedInv
  <2>3. ASSUME NEW w \in Writers, OpenAppender(w)
        PROVE  Grows /\ RecordInv'
    BY <2>1, <2>3, OpenAppenderInv
  <2>4. ASSUME NEW w \in Writers, OpenWriter(w)
        PROVE  Grows /\ RecordInv'
    BY <2>1, <2>4, OpenWriterInv
  <2>5. ASSUME NEW w \in Writers, NEW size \in RecordSizes, Put(w, size)
        PROVE  Grows /\ RecordInv'
    BY <2>1, <2>5, PutInv
  <2>6. ASSUME NEW w \in Writers, NEW size \in RecordSizes, PutFails(w, size)
        PROVE  Grows /\ RecordInv'
    BY <2>1, <2>6, PutFailsInv
  <2>7. ASSUME NEW w \in Writers, NEW size \in RecordSizes, PutRefused(w, size)
        PROVE  Grows /\ RecordInv'
    BY <2>1, <2>7, PutRefusedInv
  <2>8. ASSUME NEW w \in Writers, Flush(w)
        PROVE  Grows /\ RecordInv'
    BY <2>1, <2>8, FlushInv
  <2>9. ASSUME NEW w \in Writers, Close(w)
        PROVE  Grows /\ RecordInv'
    BY <2>1, <2>9, CloseInv
  <2>10. ASSUME NEW w \in Writers, CloseFails(w)
         PROVE  Grows /\ RecordInv'
    BY <2>1, <2>10, CloseFailsInv
  <2>11. ASSUME NEW w \in Writers, Drop(w)
         PROVE  Grows /\ RecordInv'
    BY <2>1, <2>11, DropInv
  <2>12. ASSUME NEW r \in Readers, ReadNext(r)
         PROVE  Grows /\ RecordInv'
    BY <2>1, <2>12, ReadNextInv
  <2>13. ASSUME NEW r \in Readers, NEW k \in DOMAIN log, SeekTo(r, k)
         PROVE  Grows /\ RecordInv'
    BY <2>1, <2>13, SeekToInv
  <2>14. QED
    BY <2>1, <2>2, <2>3, <2>4, <2>5, <2>6, <2>7, <2>8, <2>9, <2>10, <2>11, <2>12, <2>13 DEF Step
<1>2. CASE UNCHANGED vars
  <2>1. /\ noSpan' = noSpan /\ UNCHANGED <<fileVars, writer, log, pending, failures>>
        /\ reader' = reader /\ due' = due
    BY <1>2 DEF vars
  <2>2. RecordTypes /\ FileInv /\ \A r \in Readers : ReaderInv(r)
    BY DEF RecordInv
  <2>3. Grows /\ LogGrows /\ eof' \in Nat
    BY <2>1, <2>2, FileUntouched DEF fileVars
  <2>4. \A r \in Readers : ReaderInv(r)'
    BY <2>1, <2>2, <2>3, ReadersStay
  <2>5. reader' \in [Readers -> AnyReader] /\ due' \in [Readers -> Nat \ {0}]
    BY <2>1, <2>2 DEF RecordTypes, AnyReader
  <2>6. QED
    BY <2>1, <2>4, <2>5, ReaderActs
<1>3. QED
  BY <1>1, <1>2

\* RecordInv, which the theorems below rest on: what is before the end of file is
\* the log; an open Writer's buffer is what the file holds, or continues it; and
\* every Reader stands at a record's end or start, its buffer what the file holds.
THEOREM RecordInvAlways ==
    ASSUME Civil
    PROVE  Spec => []RecordInv
<1>1. Init => RecordInv
  BY InitRecordInv
<1>2. RecordInv /\ [Next]_vars => RecordInv'
  BY StepRecordInv
<1>3. QED
  BY <1>1, <1>2, PTL DEF Spec

\* AppendsOnly: no Put, Flush or Close of any Writer, whichever others put before
\* it and whichever of its writes fail, changes a word before the end of file or
\* moves that end back.
THEOREM AppendsOnlyAlways ==
    ASSUME Civil
    PROVE  Spec => AppendsOnly
<1>1. RecordInv /\ [Next]_vars => [eof' >= eof /\ \A p \in 0 .. eof - 1 : WordAt(p)' = WordAt(p)]_vars
  <2>1. SUFFICES ASSUME RecordInv, [Next]_vars
                 PROVE  eof' >= eof /\ \A p \in 0 .. eof - 1 : WordAt(p)' = WordAt(p)
    OBVIOUS
  <2>2. Grows /\ RecordInv'
    BY <2>1, StepRecordInv
  <2>3. QED
    BY <2>2 DEF Grows
<1>2. QED
  BY <1>1, RecordInvAlways, PTL DEF Spec, AppendsOnly

\* ContentIsLog: while no Writer has the file to itself, the words before its end
\* are the records put, each where its Writer said, and nothing else.
THEOREM ContentIsLogAlways ==
    ASSUME Civil
    PROVE  Spec => []ContentIsLog
<1>1. RecordInv => ContentIsLog
  <2>1. SUFFICES ASSUME RecordInv PROVE ContentIsLog
    OBVIOUS
  <2>2. RecordTypes /\ FileInv /\ log \in Seq(AnyPlaced) /\ Len(log) \in Nat /\ DOMAIN log = 1 .. Len(log)
    BY <2>1, LenProperties DEF RecordInv, RecordTypes
  <2>3. \A k : AfterOf(log, k) = IF k = 0 THEN 0 ELSE log[k].at + log[k].size + 1
    BY DEF AfterOf
  <2>4. ASSUME NEW k \in 1 .. Len(log)
        PROVE  /\ NextStart(Fresh(AfterOf(log, k - 1))) = log[k].at
               /\ RecordAt(Fresh(log[k].at), log[k].at, log[k])
    <3>1. PICK o \in Nat : o = AfterOf(log, k - 1) /\ o < eof
      BY <2>2, LogIsThere
    <3>2. PICK p \in Nat : p = log[k].at
      BY <2>2, LogIsThere
    <3>3. PICK size \in Nat : size = log[k].size /\ p + size < eof
      BY <2>2, <3>2, LogIsThere
    <3>4. Faithful(Fresh(o)) /\ ReadOffset(Fresh(o)) = o /\ Faithful(Fresh(p)) /\ ReadOffset(Fresh(p)) = p
      BY FreshIsFaithful DEF Fresh
    <3>5. NextStart(Fresh(o)) = p
      <4>1. Seen(Fresh(o), o) = WordAt(o)
        BY <3>4, SeenWords
      <4>2. p = IF WordAt(o) = EndOfRecords THEN Start(BlockOf(o) + 1) ELSE o
        BY <2>2, <3>1, <3>2, LogIsThere
      <4>3. QED
        BY <3>1, <3>4, <4>1, <4>2 DEF NextStart
    <3>6. RecordAt(Fresh(p), p, log[k])
      <4>1. ASSUME NEW i \in 0 .. size
            PROVE  Seen(Fresh(p), p + i) = Frame(log[k])[i + 1]
        <5>1. p + i \in Nat /\ p <= p + i
          BY <3>2, <3>3
        <5>2. Seen(Fresh(p), p + i) = WordAt(p + i)
          BY <3>4, <5>1, SeenWords
        <5>3. WordAt(p + i) = Frame(log[k])[i + 1]
          BY <2>2, <3>2, <3>3, LogIsThere
        <5>4. QED
          BY <5>2, <5>3
      <4>2. QED
        BY <3>3, <4>1 DEF RecordAt
    <3>7. QED
      BY <3>1, <3>2, <3>5, <3>6
  <2>5. eof = AfterOf(log, Len(log))
    BY <2>2 DEF FileInv, Holds
  <2>6. noSpan => \A k \in DOMAIN log : BlockOf(log[k].at) = BlockOf(log[k].at + log[k].size)
    BY <2>2 DEF FileInv, Holds
  <2>7. QED
    BY <2>2, <2>3, <2>4, <2>5, <2>6 DEF ContentIsLog
<1>2. QED
  BY <1>1, RecordInvAlways, PTL

\* ReadersMissNothing: wherever a Reader stopped, and whatever was appended since,
\* the next thing it returns is the record after its last one.
THEOREM ReadersMissNothingAlways ==
    ASSUME Civil
    PROVE  Spec => []ReadersMissNothing
<1>1. RecordInv => ReadersMissNothing
  <2>1. SUFFICES ASSUME RecordInv, NEW r \in Readers, NEW s, s = Sought(reader[r])
                 PROVE  IF due[r] > Len(log) THEN ReadOffset(s) >= eof
                        ELSE ReadOffset(s) = log[due[r]].at /\ RecordAt(s, ReadOffset(s), log[due[r]])
    BY DEF ReadersMissNothing
  <2>2. RecordTypes /\ FileInv /\ ReaderInv(r) /\ Len(log) \in Nat /\ eof \in Nat
    BY <2>1, LenProperties, CapacityInBlocks DEF RecordInv, RecordTypes
  <2>3. PICK d \in Nat \ {0} : d = due[r]
    BY <2>2 DEF RecordTypes
  <2>4. /\ d <= Len(log) => ReadOffset(s) = log[d].at
        /\ d > Len(log) => ReadOffset(s) = eof
        /\ Faithful(s)
    BY <2>1, <2>2, <2>3, NextPlace
  <2>5. CASE d > Len(log)
    BY <2>2, <2>3, <2>4, <2>5
  <2>6. CASE ~(d > Len(log))
    <3>1. d \in 1 .. Len(log) /\ d <= Len(log)
      BY <2>2, <2>6
    <3>2. PICK p \in Nat : p = log[d].at /\ p = ReadOffset(s)
      BY <2>2, <2>4, <3>1, LogIsThere
    <3>3. PICK size \in Nat : size = log[d].size /\ p + size < eof
      BY <2>2, <3>1, <3>2, LogIsThere
    <3>4. ASSUME NEW i \in 0 .. size
          PROVE  Seen(s, p + i) = Frame(log[d])[i + 1]
      <4>1. p + i \in Nat /\ p <= p + i
        BY <3>2, <3>3
      <4>2. Seen(s, p + i) = WordAt(p + i)
        BY <2>4, <3>2, <4>1, SeenWords
      <4>3. WordAt(p + i) = Frame(log[d])[i + 1]
        BY <2>2, <3>1, <3>2, <3>3, LogIsThere
      <4>4. QED
        BY <4>2, <4>3
    <3>5. RecordAt(s, p, log[d])
      BY <3>3, <3>4 DEF RecordAt
    <3>6. QED
      BY <2>3, <2>6, <3>2, <3>5
  <2>7. QED
    BY <2>5, <2>6
<1>2. QED
  BY <1>1, RecordInvAlways, PTL
=============================================================================

-------------------------- MODULE FileAccessProofs --------------------------
(***************************************************************************)
(* Proofs about FileAccess, for any number of accessors and files.  The    *)
(* sharing rule is not inductive by itself: it follows from the counters   *)
(* being exact, which needs every open access to name the file its slot    *)
(* still holds (so that an open file is never read from the disk a second  *)
(* time).  IInv puts the three together.  Last comes the refinement of     *)
(* SharedFile.                                                             *)
(***************************************************************************)
EXTENDS FileAccess, FiniteSetTheorems, TLAPS

OpenNamesFile == \A a \in Accessors : ~access[a].done => access[a].number \in Files

IInv ==
    /\ TypeOK
    /\ OpenNamesFile
    /\ CountsAreExact
    /\ StorageHeldWhileAccessed
    /\ SharingHonoured

-----------------------------------------------------------------------------
(* Types.                                                                  *)

\* A position within the largest file lies in one of its blocks.
LEMMA BlocksForBound ==
    ASSUME NEW pos \in Positions
    PROVE  BlocksFor(pos) \in 0 .. MaxBlocks
<1> DEFINE q == BlocksFor(pos)
<1>1. pos \in Nat /\ pos <= BlockBytes * MaxBlocks /\ BlockBytes \in Nat /\ BlockBytes > 0
      /\ MaxBlocks \in Nat
  BY BoundsArePositive DEF Positions
<1>2. q \in Int /\ q * BlockBytes <= pos + BlockBytes - 1 /\ 0 <= q
  BY <1>1, SMTT(30) DEF BlocksFor
<1>3. q * BlockBytes < (MaxBlocks + 1) * BlockBytes
  BY <1>1, <1>2, SMTT(30)
<1>4. q < MaxBlocks + 1
  BY <1>1, <1>2, <1>3, SMTT(30)
<1>5. QED
  BY <1>1, <1>2, <1>4

\* Where CloseWithFinalByte puts the end of file is a position in the file.
LEMMA ClosedEndBound ==
    ASSUME NEW last \in 0 .. MaxBlocks, NEW finalByte \in 0 .. BlockBytes - 1
    PROVE  ClosedEnd(last, finalByte) \in Positions
<1>1. BlockBytes \in Nat /\ BlockBytes > 0 /\ MaxBlocks \in Nat
  BY BoundsArePositive
<1>2. last * BlockBytes <= BlockBytes * MaxBlocks /\ last * BlockBytes \in Nat
  BY <1>1, SMTT(30)
<1>3. CASE last = 0
  BY <1>1, <1>3, SMTT(30) DEF ClosedEnd, Positions
<1>4. CASE last # 0
  <2>1. (last - 1) * BlockBytes = last * BlockBytes - BlockBytes
    BY <1>1, SMTT(30)
  <2>2. (last - 1) * BlockBytes \in Nat
    BY <1>1, <1>4, SMTT(30)
  <2>3. QED
    BY <1>1, <1>2, <1>4, <2>1, <2>2 DEF ClosedEnd, Positions
<1>5. QED
  BY <1>3, <1>4

\* A header just read makes a well-formed File.
LEMMA OpenedIsFile ==
    ASSUME NEW h, h.seq \in 0 .. MaxSeq, h.attr \in Attr
    PROVE  Opened(h) \in File
BY BoundsArePositive DEF Opened, File, Unshared

\* Counting an accessor in or out changes a File's counters only.
LEMMA RecountedIsFile ==
    ASSUME NEW f \in File, NEW m, NEW delta \in {-1, 1}
    PROVE  LET g == Recounted(f, m, delta)
           IN  /\ g \in File
               /\ \A c \in Counters : g.count[c] = IF c \in m \cup {"accessors"}
                                                   THEN f.count[c] + delta ELSE f.count[c]
               /\ g.seq = f.seq /\ g.attr = f.attr /\ g.deletePending = f.deletePending
               /\ g.armed = f.armed /\ g.attributesChanged = f.attributesChanged
BY DEF Recounted, Add, File

\* Joining a File leaves a File, with its accessor counted in.
LEMMA JoinedIsFile ==
    ASSUME NEW f \in File, NEW m
    PROVE  LET g == Joined(f, m)
           IN  /\ g \in File
               /\ \A c \in Counters : g.count[c] = IF c \in m \cup {"accessors"}
                                                   THEN f.count[c] + 1 ELSE f.count[c]
               /\ g.seq = f.seq /\ g.attr = f.attr /\ g.deletePending = f.deletePending
<1>1. UsedBlocks(f.attr) \in 0 .. MaxBlocks
  BY BlocksForBound DEF UsedBlocks, File, Attr
<1>2. /\ OpenForWrite(f) \in File
      /\ OpenForWrite(f).seq = f.seq /\ OpenForWrite(f).attr = f.attr
      /\ OpenForWrite(f).deletePending = f.deletePending
      /\ OpenForWrite(f).count = f.count
  BY <1>1 DEF OpenForWrite, File
<1>3. QED
  BY <1>2, RecountedIsFile DEF Joined

-----------------------------------------------------------------------------
(* The counters.                                                           *)

\* Finitely many accessors count for a file in an access mode.
LEMMA CountedFinite ==
    ASSUME NEW n, NEW c
    PROVE  IsFiniteSet(Counted(n, c)) /\ Cardinality(Counted(n, c)) \in Nat
<1>1. IsFiniteSet(Counted(n, c))
  BY AccessorsFinite, FS_Subset DEF Counted, Holders
<1>2. QED
  BY <1>1, FS_CardinalityType

\* A counter at zero means nobody counts toward it.
LEMMA ZeroMeansNobody ==
    ASSUME NEW n, NEW c, ~(Cardinality(Counted(n, c)) > 0)
    PROVE  Counted(n, c) = {}
BY CountedFinite, FS_EmptySet

\* The File that OpenFID returns has exact counters, accessed or not.
LEMMA OpenFIDIsExact ==
    ASSUME IInv, NEW n \in Files, NEW s \in 1 .. MaxSeq, CanOpenFID(n, s)
    PROVE  /\ OpenFID(n, s) \in File
           /\ OpenFID(n, s).seq = s
           /\ HeaderIs(n, s)
           /\ \A c \in Counters : OpenFID(n, s).count[c] = Cardinality(Counted(n, c))
<1>1. CASE AccessedFile(n, s)
  <2>1. PICK b \in Accessors : Holds(b, n)
    BY <1>1 DEF IInv, CountsAreExact, Holders, AccessedFile
  <2>2. HeaderIs(n, s)
    BY <1>1, <2>1 DEF IInv, StorageHeldWhileAccessed, Holds, AccessedFile
  <2>3. QED
    BY <1>1, <2>2 DEF OpenFID, AccessedFile, IInv, TypeOK, CountsAreExact
<1>2. CASE ~AccessedFile(n, s)
  <2>1. HeaderIs(n, s)
    BY <1>2 DEF CanOpenFID
  <2>2. n \notin accessed
    <3>1. SUFFICES ASSUME n \in accessed PROVE FALSE
      OBVIOUS
    <3>2. PICK b \in Accessors : Holds(b, n)
      BY <3>1 DEF IInv, CountsAreExact, Holders
    <3>3. QED
      BY <1>2, <2>1, <3>1, <3>2 DEF IInv, StorageHeldWhileAccessed, Holds, HeaderIs, AccessedFile
  <2>3. \A c \in Counters : Counted(n, c) = {}
    BY <2>2 DEF IInv, CountsAreExact, Counted
  <2>4. header[n].seq \in 0 .. MaxSeq /\ header[n].attr \in Attr
    BY DEF IInv, TypeOK
  <2>5. OpenFID(n, s) = Opened(header[n]) /\ Opened(header[n]) \in File
    BY <1>2, <2>4, OpenedIsFile DEF OpenFID
  <2>6. QED
    BY <2>1, <2>3, <2>5, FS_EmptySet DEF Opened, Unshared, HeaderIs
<1>3. QED
  BY <1>1, <1>2

\* Nobody holds a file whose slot is blank.
LEMMA BlankIsNotHeld ==
    ASSUME IInv, NEW n \in Files, ~header[n].live
    PROVE  n \notin accessed /\ Holders(n) = {} /\ \A c \in Counters : Counted(n, c) = {}
<1>1. Holders(n) = {}
  BY DEF IInv, StorageHeldWhileAccessed, HeaderIs, Holders, Holds
<1>2. QED
  BY <1>1 DEF IInv, CountsAreExact, Counted

\* An accessor that joins a File with exact counters, conflicting with nobody,
\* keeps counters exact and the sharing rule; whatever happens to the headers.
LEMMA EnterKeepsSharing ==
    ASSUME IInv, NEW a \in Accessors, NEW n \in Files, NEW f \in File,
           NEW m \in SUBSET Flags,
           \A c \in Counters : f.count[c] = Cardinality(Counted(n, c)),
           EnterAccess(a, n, f, m)
    PROVE  OpenNamesFile' /\ CountsAreExact' /\ SharingHonoured'
<1> USE DEF IInv
<1>1. /\ access[a].done
      /\ access' = [access EXCEPT ![a] = [done |-> FALSE, number |-> n, seq |-> f.seq, mode |-> m]]
      /\ accessed' = accessed \cup {n}
      /\ file' = [file EXCEPT ![n] = Joined(f, m)]
  BY DEF EnterAccess
<1>2. access \in [Accessors -> [done: BOOLEAN, number: Files \cup {0}, seq: 0 .. MaxSeq,
                                mode: SUBSET Flags]]
  BY DEF TypeOK
<1>3. \A c \in Counters : a \notin Counted(n, c)
  BY <1>1 DEF Counted, Holders, Holds
<1>4. \A k \in Files : Holders(k)' = IF k = n THEN Holders(k) \cup {a} ELSE Holders(k)
  BY <1>1, <1>2 DEF Holders, Holds
<1>5. \A k \in Files, c \in Counters :
        Counted(k, c)' = IF k = n /\ c \in m \cup {"accessors"} THEN Counted(k, c) \cup {a}
                         ELSE Counted(k, c)
  BY <1>1, <1>2 DEF Counted, Holders, Holds
<1>6. OpenNamesFile'
  BY <1>1, <1>2 DEF OpenNamesFile
<1>7. CountsAreExact'
  <2>1. \A c \in Counters : Cardinality(Counted(n, c) \cup {a}) = Cardinality(Counted(n, c)) + 1
    BY <1>3, CountedFinite, FS_AddElement
  <2>2. \A c \in Counters :
          Joined(f, m).count[c] = IF c \in m \cup {"accessors"} THEN f.count[c] + 1 ELSE f.count[c]
    BY JoinedIsFile
  <2>3. \A k \in accessed', c \in Counters : file[k].count[c]' = Cardinality(Counted(k, c))'
    <3> SUFFICES ASSUME NEW k \in accessed', NEW c \in Counters
                 PROVE  file'[k].count[c] = Cardinality(Counted(k, c)')
      OBVIOUS
    <3>1. k \in Files /\ file \in [Files -> File]
      BY <1>1 DEF TypeOK
    <3>2. CASE k = n
      BY <1>1, <1>5, <2>1, <2>2, <3>1, <3>2
    <3>3. CASE k # n
      BY <1>1, <1>5, <3>1, <3>3 DEF CountsAreExact
    <3>4. QED
      BY <3>2, <3>3
  <2>4. QED
    BY <1>1, <1>4, <2>3 DEF CountsAreExact
<1>8. SharingHonoured'
  <2>1. ~Conflicts(f.count, m)
    BY DEF EnterAccess
  <2>2. /\ Counted(n, "NoRead") = {}
        /\ "Write" \in m => Counted(n, "NoWrite") = {}
        /\ "NoRead" \in m => Counted(n, "accessors") = {}
        /\ "NoWrite" \in m => Counted(n, "Write") = {}
    BY <2>1, ZeroMeansNobody DEF Conflicts, Counters, Flags
  <2>3. \A b \in Accessors : b # a /\ Holds(b, n) =>
          /\ "NoRead" \notin access[b].mode /\ "NoRead" \notin m
          /\ "Write" \in m => "NoWrite" \notin access[b].mode
          /\ "NoWrite" \in m => "Write" \notin access[b].mode
    BY <2>2 DEF Counted, Holders
  <2>4. \A b \in Accessors : b # a => access'[b] = access[b]
    BY <1>1, <1>2
  <2>5. access'[a].number = n /\ access'[a].mode = m
    BY <1>1, <1>2
  <2>6. QED
    BY <2>3, <2>4, <2>5 DEF SharingHonoured, Holds
<1>9. QED
  BY <1>6, <1>7, <1>8

\* An accessor that leaves keeps counters exact.
LEMMA LeaveKeepsCounts ==
    ASSUME IInv, NEW a \in Accessors, Deaccess(a)
    PROVE  OpenNamesFile' /\ CountsAreExact' /\ SharingHonoured'
<1> USE DEF IInv
<1>1. PICK n \in Files : n = access[a].number
  BY DEF Deaccess, OpenNamesFile
<1>2. n \in Files /\ Holds(a, n) /\ n \in accessed /\ file[n] \in File
  BY <1>1 DEF Deaccess, Holds, CountsAreExact, Holders, TypeOK
<1>3. PICK left \in File : left = Recounted(file[n], access[a].mode, -1)
  BY <1>2, RecountedIsFile
<1>4. \A c \in Counters : left.count[c] = IF c \in access[a].mode \cup {"accessors"}
                                          THEN file[n].count[c] - 1 ELSE file[n].count[c]
  BY <1>2, <1>3, RecountedIsFile DEF File
<1>5. access' = [access EXCEPT ![a].done = TRUE]
  BY DEF Deaccess
<1>6. access \in [Accessors -> [done: BOOLEAN, number: Files \cup {0}, seq: 0 .. MaxSeq,
                                mode: SUBSET Flags]]
  BY DEF TypeOK
<1>7. \A b \in Accessors : /\ b # a => access'[b] = access[b]
                           /\ access'[b].number = access[b].number
                           /\ access'[b].mode = access[b].mode
                           /\ access'[a].done
  BY <1>5, <1>6
<1>8. \A k \in Files : Holders(k)' = IF k = n THEN Holders(k) \ {a} ELSE Holders(k)
  BY <1>1, <1>2, <1>7 DEF Holders, Holds
<1>9. \A k \in Files, c \in Counters :
        Counted(k, c)' = IF k = n /\ c \in access[a].mode \cup {"accessors"}
                         THEN Counted(k, c) \ {a} ELSE Counted(k, c)
  BY <1>1, <1>2, <1>7 DEF Counted, Holders, Holds
<1>10. \A c \in Counters : left.count[c] = Cardinality(Counted(n, c)')
  <2> SUFFICES ASSUME NEW c \in Counters PROVE left.count[c] = Cardinality(Counted(n, c)')
    OBVIOUS
  <2>1. file[n].count[c] = Cardinality(Counted(n, c))
    BY <1>2 DEF CountsAreExact
  <2>2. CASE c \in access[a].mode \cup {"accessors"}
    <3>1. a \in Counted(n, c)
      BY <1>2, <2>2 DEF Counted, Holders
    <3>2. Cardinality(Counted(n, c) \ {a}) = Cardinality(Counted(n, c)) - 1
      BY <3>1, CountedFinite, FS_RemoveElement
    <3>3. QED
      BY <1>2, <1>9, <1>4, <2>1, <2>2, <3>2, CountedFinite
  <2>3. CASE c \notin access[a].mode \cup {"accessors"}
    BY <1>2, <1>9, <1>4, <2>1, <2>3
  <2>4. QED
    BY <2>2, <2>3
<1>11. Counted(n, "accessors")' = Holders(n)'
  BY DEF Counted
<1>12. "accessors" \in Counters
  BY DEF Counters
<1>13. left.count["accessors"] \in Int
  BY <1>12 DEF File
<1>14. StillShared(n, left) \/ LastGone(n, left)
  BY <1>1, <1>3 DEF Deaccess
<1>15. OpenNamesFile' /\ SharingHonoured'
  BY <1>7 DEF OpenNamesFile, SharingHonoured
<1>16. CASE left.count["accessors"] > 0
  <2>1. file' = [file EXCEPT ![n] = left] /\ accessed' = accessed
    BY <1>16, <1>13, <1>14 DEF StillShared, LastGone
  <2>2. \A k \in Files : k # n => file'[k] = file[k]
    BY <2>1 DEF TypeOK
  <2>3. file'[n].count = left.count
    BY <1>2, <2>1 DEF TypeOK, File
  <2>4. Holders(n)' # {}
    BY <1>10, <1>11, <1>12, <1>16, FS_EmptySet
  <2>5. \A k \in accessed', c \in Counters : file'[k].count[c] = Cardinality(Counted(k, c)')
    BY <1>2, <1>9, <1>10, <2>1, <2>2, <2>3 DEF CountsAreExact, TypeOK
  <2>6. \A k \in Files : k \in accessed' <=> Holders(k)' # {}
    BY <1>2, <1>8, <2>1, <2>4 DEF CountsAreExact
  <2>7. QED
    BY <1>15, <2>5, <2>6 DEF CountsAreExact
<1>17. CASE left.count["accessors"] <= 0
  <2>2. file' = [file EXCEPT ![n] = NoFile] /\ accessed' = accessed \ {n}
    BY <1>17, <1>13, <1>14 DEF StillShared, LastGone
  <2>3. Holders(n)' = {}
    <3>1. IsFiniteSet(Holders(n)')
      BY AccessorsFinite, FS_Subset DEF Holders
    <3>2. QED
      BY <1>10, <1>11, <1>12, <1>17, <3>1, FS_EmptySet, FS_CardinalityType
  <2>4. \A k \in accessed', c \in Counters : file'[k].count[c] = Cardinality(Counted(k, c)')
    BY <1>9, <2>2 DEF CountsAreExact, TypeOK
  <2>5. \A k \in Files : k \in accessed' <=> Holders(k)' # {}
    BY <1>8, <2>2, <2>3 DEF CountsAreExact
  <2>6. QED
    BY <1>15, <2>4, <2>5 DEF CountsAreExact
<1>18. QED
  BY <1>16, <1>17, <1>13

-----------------------------------------------------------------------------
(* Each action preserves IInv.                                             *)

\* A step that changes no access and no counter, and leaves every held slot
\* with the header it had, preserves all of IInv but the types.
LEMMA SameSharing ==
    ASSUME IInv, TypeOK',
           UNCHANGED <<accessed, access>>,
           \A k \in Files : file'[k].count = file[k].count /\ file'[k].seq = file[k].seq,
           \A k \in accessed : header'[k].live /\ header'[k].seq = header[k].seq
    PROVE  IInv'
<1> USE DEF IInv
<1>1. \A k, c : Holders(k)' = Holders(k) /\ Counted(k, c)' = Counted(k, c)
  BY DEF Holders, Holds, Counted
<1>2. accessed \subseteq Files
  BY DEF TypeOK
<1>3. CountsAreExact'
  BY <1>1, <1>2 DEF CountsAreExact
<1>4. \A a \in Accessors : ~access[a].done => access[a].number \in accessed
  BY DEF OpenNamesFile, CountsAreExact, Holders, Holds
<1>5. StorageHeldWhileAccessed'
  BY <1>2, <1>4 DEF StorageHeldWhileAccessed, HeaderIs
<1>6. OpenNamesFile' /\ SharingHonoured'
  BY DEF OpenNamesFile, SharingHonoured
<1>7. QED
  BY <1>3, <1>5, <1>6

\* The shared File's sequence number is its header's.
LEMMA SharedSeq ==
    ASSUME IInv, NEW n \in accessed
    PROVE  n \in Files /\ HeaderIs(n, file[n].seq)
BY DEF IInv, TypeOK, CountsAreExact, StorageHeldWhileAccessed, Holders, Holds, HeaderIs

\* A file whose header is on disk under ID (n, s) is accessed as that very
\* file or not at all.
LEMMA NotAccessedNotHeld ==
    ASSUME IInv, NEW n \in Files, NEW s, HeaderIs(n, s), ~AccessedFile(n, s)
    PROVE  n \notin accessed
BY SharedSeq DEF AccessedFile, HeaderIs

\* An access that succeeds keeps the types.
LEMMA EnterKeepsTypes ==
    ASSUME IInv, NEW a \in Accessors, NEW n \in Files, NEW f \in File,
           NEW m \in SUBSET Flags, EnterAccess(a, n, f, m)
    PROVE  /\ accessed' \in SUBSET Files
           /\ file' \in [Files -> File]
           /\ access' \in [Accessors -> [done: BOOLEAN, number: Files \cup {0},
                                         seq: 0 .. MaxSeq, mode: SUBSET Flags]]
<1>1. Joined(f, m) \in File
  BY JoinedIsFile
<1>2. f.seq \in 0 .. MaxSeq
  BY DEF File
<1>3. QED
  BY <1>1, <1>2 DEF IInv, TypeOK, EnterAccess

\* Access keeps the invariant.
LEMMA AccessKeepsIInv ==
    ASSUME IInv, NEW a \in Accessors, NEW n \in Files, NEW s \in 1 .. MaxSeq,
           NEW m \in SUBSET Flags, Access(a, n, s, m)
    PROVE  IInv'
<1> DEFINE f == OpenFID(n, s)
<1>1. CanOpenFID(n, s) /\ EnterAccess(a, n, f, m) /\ header' = header
  BY DEF Access
<1>2. f \in File /\ f.seq = s /\ HeaderIs(n, s)
      /\ \A c \in Counters : f.count[c] = Cardinality(Counted(n, c))
  BY <1>1, OpenFIDIsExact
<1>3. OpenNamesFile' /\ CountsAreExact' /\ SharingHonoured'
  BY <1>1, <1>2, EnterKeepsSharing
<1>4. TypeOK'
  BY <1>1, <1>2, EnterKeepsTypes DEF TypeOK, IInv
<1>5. StorageHeldWhileAccessed'
  <2>1. Joined(f, m).seq = s
    BY <1>2, JoinedIsFile
  <2>2. /\ file' = [file EXCEPT ![n] = Joined(f, m)]
        /\ access' = [access EXCEPT ![a] = [done |-> FALSE, number |-> n, seq |-> s, mode |-> m]]
    BY <1>1, <1>2 DEF EnterAccess
  <2>3. file'[n].seq = s /\ \A k \in Files : k # n => file'[k] = file[k]
    BY <2>1, <2>2 DEF IInv, TypeOK
  <2>4. /\ access'[a].number = n /\ access'[a].seq = s
        /\ \A b \in Accessors : b # a => access'[b] = access[b]
    BY <2>2 DEF IInv, TypeOK
  <2>5. QED
    BY <1>1, <1>2, <2>3, <2>4 DEF StorageHeldWhileAccessed, HeaderIs, IInv, OpenNamesFile
<1>6. QED
  BY <1>3, <1>4, <1>5 DEF IInv

\* The header CreateHeader writes, and the File made from it.
LEMMA CreatedIsHeader ==
    ASSUME IInv, NEW n \in Files, header[n].seq < MaxSeq
    PROVE  /\ Created(n) \in [live: BOOLEAN, seq: 0 .. MaxSeq, attr: Attr]
           /\ Created(n).seq \in 1 .. MaxSeq
           /\ Created(n).live
           /\ OpenForWrite(Opened(Created(n))) \in File
           /\ OpenForWrite(Opened(Created(n))).seq = Created(n).seq
           /\ OpenForWrite(Opened(Created(n))).count = Unshared
<1>1. NewAttr \in Attr
  BY BoundsArePositive, SMTT(30) DEF NewAttr, Attr, Positions
<1>2. header[n].seq \in 0 .. MaxSeq /\ MaxSeq \in Nat
  BY BoundsArePositive DEF IInv, TypeOK
<1>3. /\ Created(n) \in [live: BOOLEAN, seq: 0 .. MaxSeq, attr: Attr]
      /\ Created(n).seq \in 1 .. MaxSeq /\ Created(n).live
  BY <1>1, <1>2 DEF Created
<1>4. PICK f \in File : f = Opened(Created(n))
  BY <1>3, OpenedIsFile
<1>5. f.seq = Created(n).seq /\ f.count = Unshared
  BY <1>4 DEF Opened
<1>6. UsedBlocks(f.attr) \in 0 .. MaxBlocks
  BY BlocksForBound DEF UsedBlocks, File, Attr
<1>7. OpenForWrite(f) \in File /\ OpenForWrite(f).seq = f.seq /\ OpenForWrite(f).count = f.count
  BY <1>6 DEF OpenForWrite, File
<1>8. QED
  BY <1>3, <1>4, <1>5, <1>7

\* CreateAccessed keeps the invariant.
LEMMA CreateAccessedKeepsIInv ==
    ASSUME IInv, NEW a \in Accessors, NEW n \in Files, NEW m \in SUBSET Flags,
           CreateAccessed(a, n, m)
    PROVE  IInv'
<1> DEFINE f == OpenForWrite(Opened(Created(n)))
<1>1. ~header[n].live /\ header[n].seq < MaxSeq
      /\ header' = [header EXCEPT ![n] = Created(n)] /\ EnterAccess(a, n, f, m)
  BY DEF CreateAccessed, FreeSlot
<1>2. f \in File /\ f.seq = Created(n).seq /\ f.count = Unshared
      /\ Created(n).live /\ Created(n) \in [live: BOOLEAN, seq: 0 .. MaxSeq, attr: Attr]
  BY <1>1, CreatedIsHeader
<1>3. Holders(n) = {} /\ \A c \in Counters : Counted(n, c) = {}
  BY <1>1, BlankIsNotHeld
<1>4. \A c \in Counters : f.count[c] = Cardinality(Counted(n, c))
  BY <1>2, <1>3, FS_EmptySet DEF Unshared
<1>5. OpenNamesFile' /\ CountsAreExact' /\ SharingHonoured'
  BY <1>1, <1>2, <1>4, EnterKeepsSharing
<1>6. header' \in [Files -> [live: BOOLEAN, seq: 0 .. MaxSeq, attr: Attr]]
  BY <1>1, <1>2 DEF IInv, TypeOK
<1>7. TypeOK'
  BY <1>1, <1>2, <1>6, EnterKeepsTypes DEF TypeOK
<1>8. StorageHeldWhileAccessed'
  <2>1. Joined(f, m).seq = f.seq
    BY <1>2, JoinedIsFile
  <2>2. /\ file' = [file EXCEPT ![n] = Joined(f, m)]
        /\ access' = [access EXCEPT ![a] = [done |-> FALSE, number |-> n, seq |-> f.seq, mode |-> m]]
    BY <1>1 DEF EnterAccess
  <2>3. file'[n].seq = f.seq /\ header'[n] = Created(n)
        /\ \A k \in Files : k # n => file'[k] = file[k] /\ header'[k] = header[k]
    BY <1>1, <2>1, <2>2 DEF IInv, TypeOK
  <2>4. /\ access'[a].number = n /\ access'[a].seq = f.seq
        /\ \A b \in Accessors : b # a => access'[b] = access[b]
    BY <2>2 DEF IInv, TypeOK
  <2>5. \A b \in Accessors : ~access[b].done => access[b].number \in Files \ {n}
    BY <1>3 DEF IInv, OpenNamesFile, Holders, Holds
  <2>6. QED
    BY <1>2, <2>3, <2>4, <2>5 DEF StorageHeldWhileAccessed, HeaderIs, IInv
<1>9. QED
  BY <1>5, <1>7, <1>8 DEF IInv

\* Leaving: the slot is freed or rewritten only when nobody is left in it.
LEMMA DeaccessKeepsIInv ==
    ASSUME IInv, NEW a \in Accessors, Deaccess(a)
    PROVE  IInv'
<1>1. OpenNamesFile' /\ CountsAreExact' /\ SharingHonoured'
  BY LeaveKeepsCounts
<1>2. PICK n \in Files : n = access[a].number
  BY DEF IInv, OpenNamesFile, Deaccess
<1>3. Holds(a, n) /\ n \in accessed /\ file[n] \in File
  BY <1>2 DEF Deaccess, Holds, IInv, CountsAreExact, Holders, TypeOK
<1>4. PICK left \in File : left = Recounted(file[n], access[a].mode, -1) /\ left.seq = file[n].seq
  BY <1>3, RecountedIsFile
<1>5. StillShared(n, left) \/ LastGone(n, left)
  BY <1>2, <1>4 DEF Deaccess
<1>6. header[n].live /\ header[n].seq = left.seq
  BY <1>3, <1>4, SharedSeq DEF HeaderIs
<1>7. /\ access' \in [Accessors -> [done: BOOLEAN, number: Files \cup {0}, seq: 0 .. MaxSeq,
                                    mode: SUBSET Flags]]
      /\ \A b \in Accessors : ~access'[b].done =>
            b # a /\ access'[b] = access[b] /\ ~access[b].done
  BY DEF IInv, TypeOK, Deaccess
<1>8. NoFile \in File /\ NewAttr \in Attr
  <2>1. NewAttr \in Attr
    BY BoundsArePositive, SMTT(30) DEF NewAttr, Attr, Positions
  <2>2. QED
    BY <2>1, OpenedIsFile, BoundsArePositive DEF NoFile
<1>9. CASE StillShared(n, left)
  <2>1. file' = [file EXCEPT ![n] = left] /\ header' = header /\ accessed' = accessed
    BY <1>9 DEF StillShared
  <2>2. TypeOK'
    BY <1>7, <2>1 DEF IInv, TypeOK
  <2>3. \A k \in Files : file'[k].seq = file[k].seq
    BY <1>4, <2>1 DEF IInv, TypeOK
  <2>4. StorageHeldWhileAccessed'
    BY <1>7, <2>1, <2>3 DEF IInv, StorageHeldWhileAccessed, OpenNamesFile, HeaderIs
  <2>5. QED
    BY <1>1, <2>2, <2>4 DEF IInv
<1>10. CASE LastGone(n, left)
  <2>1. /\ file' = [file EXCEPT ![n] = NoFile] /\ accessed' = accessed \ {n}
        /\ FreeStorage(n) \/ WriteHeader(n, left) \/ header' = header
    BY <1>10 DEF LastGone
  <2>2. /\ header' \in [Files -> [live: BOOLEAN, seq: 0 .. MaxSeq, attr: Attr]]
        /\ \A k \in Files : k # n => header'[k] = header[k]
    <3>1. CASE FreeStorage(n)
      BY <1>8, <3>1 DEF IInv, TypeOK, FreeStorage
    <3>2. CASE WriteHeader(n, left)
      BY <3>2 DEF IInv, TypeOK, WriteHeader, File
    <3>3. QED
      BY <2>1, <3>1, <3>2 DEF IInv, TypeOK
  <2>3. TypeOK'
    BY <1>7, <1>8, <2>1, <2>2 DEF IInv, TypeOK
  <2>4. \A b \in Accessors : ~access'[b].done => access'[b].number \in Files \ {n}
    BY <1>1, <2>1, <1>7 DEF CountsAreExact, OpenNamesFile, Holders, Holds
  <2>5. StorageHeldWhileAccessed'
    BY <1>7, <2>1, <2>2, <2>4 DEF IInv, StorageHeldWhileAccessed, HeaderIs, TypeOK
  <2>6. QED
    BY <1>1, <2>3, <2>5 DEF IInv
<1>11. QED
  BY <1>5, <1>9, <1>10

\* A free slot is in nobody's hands, so creating a header disturbs no access.
LEMMA CreateHeaderKeepsIInv ==
    ASSUME IInv, NEW n \in Files, CreateHeader(n)
    PROVE  IInv'
<1>1. ~header[n].live /\ header[n].seq < MaxSeq
      /\ header' = [header EXCEPT ![n] = Created(n)] /\ UNCHANGED <<accessed, file, access>>
  BY DEF CreateHeader, FreeSlot
<1>2. n \notin accessed /\ Created(n) \in [live: BOOLEAN, seq: 0 .. MaxSeq, attr: Attr]
  BY <1>1, BlankIsNotHeld, CreatedIsHeader
<1>3. TypeOK'
  BY <1>1, <1>2 DEF IInv, TypeOK
<1>4. \A k \in accessed : header'[k] = header[k] /\ header[k].live
  BY <1>1, <1>2, BlankIsNotHeld DEF IInv, TypeOK
<1>5. QED
  BY <1>1, <1>3, <1>4, SameSharing

\* Deleting blanks a slot only if nobody has the file.
LEMMA DeleteHeaderKeepsIInv ==
    ASSUME IInv, NEW n \in Files, NEW s \in 1 .. MaxSeq, DeleteHeader(n, s)
    PROVE  IInv'
<1>1. HeaderIs(n, s) /\ UNCHANGED <<accessed, access>>
  BY DEF DeleteHeader
<1>2. CASE AccessedFile(n, s)
  <2>1. file' = [file EXCEPT ![n].deletePending = TRUE] /\ header' = header
    BY <1>2 DEF DeleteHeader
  <2>2. TypeOK' /\ \A k \in Files : file'[k].count = file[k].count /\ file'[k].seq = file[k].seq
    BY <1>1, <2>1, ZenonT(60) DEF IInv, TypeOK, File
  <2>3. \A k \in accessed : header'[k].live
    BY <2>1, SharedSeq DEF HeaderIs
  <2>4. QED
    BY <1>1, <2>1, <2>2, <2>3, SameSharing
<1>3. CASE ~AccessedFile(n, s)
  <2>1. n \notin accessed
    BY <1>1, <1>3, NotAccessedNotHeld
  <2>2. file' = file /\ header' = [header EXCEPT ![n].live = FALSE, ![n].attr = NewAttr]
    BY <1>3 DEF DeleteHeader, FreeStorage
  <2>3. NewAttr \in Attr
    BY BoundsArePositive, SMTT(30) DEF NewAttr, Attr, Positions
  <2>4. TypeOK'
    BY <1>1, <2>2, <2>3 DEF IInv, TypeOK
  <2>5. \A k \in accessed : header'[k].live /\ header'[k].seq = header[k].seq
    BY <2>1, <2>2, SharedSeq DEF HeaderIs, IInv, TypeOK
  <2>6. QED
    BY <1>1, <2>2, <2>4, <2>5, SameSharing
<1>4. QED
  BY <1>2, <1>3

\* A state in which nobody accesses anything satisfies IInv if it is typed.
LEMMA NobodyAccesses ==
    ASSUME TypeOK', accessed' = {}, \A a \in Accessors : access'[a] = Done
    PROVE  IInv'
<1>1. \A n \in Files : Holders(n)' = {}
  BY DEF Holders, Holds, Done
<1>2. QED
  BY <1>1 DEF IInv, OpenNamesFile, CountsAreExact, StorageHeldWhileAccessed, SharingHonoured, Done

\* A File nobody has read attributes of is a File.
LEMMA BlankFileTypes ==
    /\ NewAttr \in Attr
    /\ NoFile \in File
    /\ Done \in [done: BOOLEAN, number: Files \cup {0}, seq: 0 .. MaxSeq, mode: SUBSET Flags]
<1>1. NewAttr \in Attr
  BY BoundsArePositive, SMTT(30) DEF NewAttr, Attr, Positions
<1>2. NoFile \in File
  BY <1>1, OpenedIsFile, BoundsArePositive DEF NoFile
<1>3. QED
  BY <1>1, <1>2, BoundsArePositive DEF Done

\* No file is open at first.
LEMMA InitHasIInv == Init => IInv
<1> SUFFICES ASSUME Init PROVE IInv
  OBVIOUS
<1>1. TypeOK
  BY BlankFileTypes, BoundsArePositive DEF Init, TypeOK
<1>2. \A n \in Files : Holders(n) = {}
  BY DEF Init, Holders, Holds, Done
<1>3. QED
  BY <1>1, <1>2 DEF Init, IInv, OpenNamesFile, CountsAreExact, StorageHeldWhileAccessed,
                    SharingHonoured, Done

\* Dismount keeps the invariant.
LEMMA DismountKeepsIInv ==
    ASSUME IInv, Dismount
    PROVE  IInv'
<1>1. accessed' = {} /\ \A a \in Accessors : access'[a] = Done
  BY DEF Dismount
<1>2. header' \in [Files -> [live: BOOLEAN, seq: 0 .. MaxSeq, attr: Attr]]
  BY DEF Dismount, IInv, TypeOK, File
<1>3. TypeOK'
  BY <1>1, <1>2, BlankFileTypes DEF Dismount, TypeOK
<1>4. QED
  BY <1>1, <1>3, NobodyAccesses

\* Writing a held File's header, with whatever attributes, over its own slot
\* keeps the slot its own.
LEMMA WriteHeaderKeepsSlots ==
    ASSUME IInv, NEW n \in accessed, NEW f \in File, f.seq = file[n].seq, WriteHeader(n, f)
    PROVE  /\ header' \in [Files -> [live: BOOLEAN, seq: 0 .. MaxSeq, attr: Attr]]
           /\ \A k \in accessed : header'[k].live /\ header'[k].seq = header[k].seq
<1>1. n \in Files /\ header[n].seq = file[n].seq
  BY SharedSeq DEF HeaderIs
<1>2. \A k \in accessed : k \in Files /\ header[k].live
  BY SharedSeq DEF HeaderIs
<1>3. QED
  BY <1>1, <1>2 DEF WriteHeader, IInv, TypeOK, File

\* What an accessor does to the attributes of its File leaves the sharing alone.
LEMMA FileChangeKeepsIInv ==
    ASSUME IInv, NEW n \in accessed, NEW f \in File,
           f.seq = file[n].seq, f.count = file[n].count,
           file' = [file EXCEPT ![n] = f],
           WriteHeader(n, f) \/ header' = header,
           UNCHANGED <<accessed, access>>
    PROVE  IInv'
<1>1. n \in Files
  BY SharedSeq
<1>2. \A k \in Files : file'[k].count = file[k].count /\ file'[k].seq = file[k].seq
  BY <1>1 DEF IInv, TypeOK
<1>3. /\ header' \in [Files -> [live: BOOLEAN, seq: 0 .. MaxSeq, attr: Attr]]
      /\ \A k \in accessed : header'[k].live /\ header'[k].seq = header[k].seq
  <2>1. CASE header' = header
    BY <2>1, SharedSeq DEF IInv, TypeOK, HeaderIs
  <2>2. CASE WriteHeader(n, f)
    BY <2>2, WriteHeaderKeepsSlots
  <2>3. QED
    BY <2>1, <2>2
<1>4. TypeOK'
  BY <1>1, <1>3 DEF IInv, TypeOK
<1>5. QED
  BY <1>2, <1>3, <1>4, SameSharing

\* What an accessor holds is accessed.
LEMMA HolderHasFile ==
    ASSUME IInv, NEW a \in Accessors, NEW n \in Files, Holds(a, n)
    PROVE  n \in accessed /\ file[n] \in File
BY DEF IInv, TypeOK, CountsAreExact, Holders

\* The greater of two bounded numbers is bounded.
LEMMA AtLeastBound ==
    ASSUME NEW N \in Nat, NEW x \in 0 .. N, NEW y \in 0 .. N
    PROVE  AtLeast(x, y) \in 0 .. N
BY DEF AtLeast

\* The high-water mark stays within one block of the largest file.
LEMMA MarkBound ==
    ASSUME NEW f \in File, NEW last \in 0 .. MaxBlocks
    PROVE  AtLeast(f.attr.hwm, MarkPast(last)) \in 0 .. MaxBlocks + 1
<1>1. MaxBlocks + 1 \in Nat /\ f.attr.hwm \in 0 .. MaxBlocks + 1
      /\ MarkPast(last) \in 0 .. MaxBlocks + 1
  BY BoundsArePositive DEF File, Attr, MarkPast
<1>2. QED
  BY <1>1, AtLeastBound

\* What an accessor makes of its File is a File, with the identity and the
\* counters it had.
SameFile(f, g) == g \in File /\ g.seq = f.seq /\ g.count = f.count

\* The File SetEndOfFile leaves has the counts it had.
LEMMA EndedAtIsFile ==
    ASSUME NEW f \in File, NEW pos \in Positions
    PROVE  SameFile(f, EndedAt(f, pos))
<1>1. BlocksFor(pos) \in 0 .. MaxBlocks
  BY BlocksForBound
<1>2. AtLeast(f.attr.hwm, MarkPast(BlocksFor(pos))) \in 0 .. MaxBlocks + 1
  BY <1>1, MarkBound
<1>3. QED
  BY <1>2 DEF SameFile, EndedAt, File, Attr

\* So has the one whose attributes were written;
LEMMA SavedIsFile ==
    ASSUME NEW f \in File
    PROVE  SameFile(f, Saved(f))
BY DEF SameFile, Saved, File

\* the one extended;
LEMMA ExtendedIsFile ==
    ASSUME NEW f \in File, NEW vbn \in 1 .. MaxBlocks
    PROVE  SameFile(f, Extended(f, vbn))
<1>1. MaxBlocks \in Nat /\ vbn \in 0 .. MaxBlocks /\ f.attr.blocks \in 0 .. MaxBlocks
  BY BoundsArePositive DEF File, Attr
<1>2. AtLeast(f.attr.blocks, vbn) \in 0 .. MaxBlocks
  BY <1>1, AtLeastBound
<1>3. QED
  BY <1>2 DEF SameFile, Extended, File, Attr

\* the one a block was written to;
LEMMA WrittenIsFile ==
    ASSUME NEW f \in File, NEW vbn \in 1 .. MaxBlocks
    PROVE  SameFile(f, Written(f, vbn))
<1>1. MaxBlocks \in Nat /\ vbn \in 0 .. MaxBlocks /\ f.maxWritten \in 0 .. MaxBlocks
  BY BoundsArePositive DEF File
<1>2. AtLeast(f.maxWritten, vbn) \in 0 .. MaxBlocks
  BY <1>1, AtLeastBound
<1>3. AtLeast(f.attr.hwm, MarkPast(vbn)) \in 0 .. MaxBlocks + 1
  BY <1>1, MarkBound
<1>4. QED
  BY <1>2, <1>3 DEF SameFile, Written, File, Attr

\* and the one closed.
LEMMA ClosedIsFile ==
    ASSUME NEW f \in File, NEW finalByte \in 0 .. BlockBytes - 1
    PROVE  SameFile(f, Closed(f, finalByte))
<1>1. f.maxWritten \in 0 .. MaxBlocks /\ f.attr.hwm \in 0 .. MaxBlocks + 1
  BY DEF File, Attr
<1>2. ClosedEnd(f.maxWritten, finalByte) \in Positions
  BY <1>1, ClosedEndBound
<1>3. AtLeast(f.attr.hwm, MarkPast(f.maxWritten)) \in 0 .. MaxBlocks + 1
  BY <1>1, MarkBound
<1>4. QED
  BY <1>1, <1>2, <1>3 DEF SameFile, Closed, File, Attr

\* SetEndOfFile keeps the invariant.
LEMMA SetEndOfFileKeepsIInv ==
    ASSUME IInv, NEW a \in Accessors, NEW n \in Files, NEW pos \in Positions,
           SetEndOfFile(a, n, pos)
    PROVE  IInv'
<1>1. n \in accessed /\ file[n] \in File
  BY HolderHasFile DEF SetEndOfFile
<1>2. SameFile(file[n], EndedAt(file[n], pos))
  BY <1>1, EndedAtIsFile
<1>3. QED
  BY <1>1, <1>2, FileChangeKeepsIInv DEF SetEndOfFile, SameFile

\* WriteAttributes keeps the invariant.
LEMMA WriteAttributesKeepsIInv ==
    ASSUME IInv, NEW a \in Accessors, NEW n \in Files, WriteAttributes(a, n)
    PROVE  IInv'
<1>1. n \in accessed /\ file[n] \in File
  BY HolderHasFile DEF WriteAttributes
<1>2. SameFile(file[n], Saved(file[n])) /\ Saved(file[n]).attr = file[n].attr
  BY <1>1, SavedIsFile DEF Saved, File
<1>3. WriteHeader(n, Saved(file[n]))
  BY <1>2 DEF WriteAttributes, WriteHeader, SameFile
<1>4. QED
  BY <1>1, <1>2, <1>3, FileChangeKeepsIInv DEF WriteAttributes, SameFile

\* WriteBlock keeps the invariant.
LEMMA WriteBlockKeepsIInv ==
    ASSUME IInv, NEW a \in Accessors, NEW n \in Files, NEW vbn \in 1 .. MaxBlocks,
           WriteBlock(a, n, vbn)
    PROVE  IInv'
<1>1. n \in accessed /\ n \in Files /\ file[n] \in File
  BY HolderHasFile DEF WriteBlock
<1>2. PICK extended \in File : extended = Extended(file[n], vbn) /\ SameFile(file[n], extended)
  BY <1>1, ExtendedIsFile DEF SameFile
<1>3. PICK f \in File : f = Written(extended, vbn) /\ SameFile(file[n], f)
  BY <1>2, WrittenIsFile DEF SameFile
<1>4. /\ file' = [file EXCEPT ![n] = f]
      /\ WriteHeader(n, extended) \/ header' = header
      /\ UNCHANGED <<accessed, access>>
  BY <1>2, <1>3 DEF WriteBlock
<1>5. /\ header' \in [Files -> [live: BOOLEAN, seq: 0 .. MaxSeq, attr: Attr]]
      /\ \A k \in accessed : header'[k].live /\ header'[k].seq = header[k].seq
  <2>1. CASE header' = header
    BY <2>1, SharedSeq DEF IInv, TypeOK, HeaderIs
  <2>2. CASE WriteHeader(n, extended)
    BY <1>1, <1>2, <2>2, WriteHeaderKeepsSlots DEF SameFile
  <2>3. QED
    BY <1>4, <2>1, <2>2
<1>6. TypeOK'
  BY <1>1, <1>4, <1>5 DEF IInv, TypeOK
<1>7. \A k \in Files : file'[k].count = file[k].count /\ file'[k].seq = file[k].seq
  BY <1>3, <1>4 DEF IInv, TypeOK, SameFile
<1>8. QED
  BY <1>4, <1>5, <1>6, <1>7, SameSharing

\* Close keeps the invariant.
LEMMA CloseKeepsIInv ==
    ASSUME IInv, NEW n \in Files, NEW finalByte \in 0 .. BlockBytes - 1,
           CloseWithFinalByte(n, finalByte)
    PROVE  IInv'
<1>1. n \in accessed /\ file[n] \in File
  BY DEF CloseWithFinalByte, IInv, TypeOK
<1>2. SameFile(file[n], Closed(file[n], finalByte))
  BY <1>1, ClosedIsFile
<1>3. QED
  BY <1>1, <1>2, FileChangeKeepsIInv DEF CloseWithFinalByte, SameFile

-----------------------------------------------------------------------------
(* The theorems.                                                           *)

\* Every step of the specification preserves IInv.
LEMMA NextKeepsIInv == IInv /\ [Next]_vars => IInv'
<1> SUFFICES ASSUME IInv, [Next]_vars PROVE IInv'
  OBVIOUS
<1>1. ASSUME NEW n \in Files, CreateHeader(n) PROVE IInv'
  BY <1>1, CreateHeaderKeepsIInv
<1>2. ASSUME NEW n \in Files, NEW s \in 1 .. MaxSeq, DeleteHeader(n, s) PROVE IInv'
  BY <1>2, DeleteHeaderKeepsIInv
<1>3. ASSUME NEW a \in Accessors, NEW n \in Files, NEW m \in Modes,
             CreateAccessed(a, n, m) \/ \E s \in 1 .. MaxSeq : Access(a, n, s, m)
      PROVE  IInv'
  BY <1>3, ModesAreFlagSets, CreateAccessedKeepsIInv, AccessKeepsIInv
<1>4. ASSUME NEW a \in Accessors, Deaccess(a) PROVE IInv'
  BY <1>4, DeaccessKeepsIInv
<1>5. ASSUME NEW a \in Accessors, NEW n \in Files,
             \/ WriteAttributes(a, n)
             \/ \E pos \in Positions : SetEndOfFile(a, n, pos)
             \/ \E vbn \in 1 .. MaxBlocks : WriteBlock(a, n, vbn)
      PROVE  IInv'
  BY <1>5, WriteAttributesKeepsIInv, SetEndOfFileKeepsIInv, WriteBlockKeepsIInv
<1>6. ASSUME NEW n \in Files, NEW finalByte \in 0 .. BlockBytes - 1,
             CloseWithFinalByte(n, finalByte)
      PROVE  IInv'
  BY <1>6, CloseKeepsIInv
<1>7. ASSUME Dismount PROVE IInv'
  BY <1>7, DismountKeepsIInv
<1>8. ASSUME UNCHANGED vars PROVE IInv'
  <2>1. TypeOK'
    BY <1>8 DEF vars, IInv, TypeOK
  <2>2. \A k \in accessed : header'[k].live /\ header'[k].seq = header[k].seq
    BY <1>8, SharedSeq DEF vars, HeaderIs
  <2>3. QED
    BY <1>8, <2>1, <2>2, SameSharing DEF vars
<1>9. ASSUME NEW a \in Accessors, DeaccessAgain(a) PROVE IInv'
  BY <1>8, <1>9 DEF DeaccessAgain
<1>10. QED
  BY <1>1, <1>2, <1>3, <1>4, <1>5, <1>6, <1>7, <1>8, <1>9 DEF Next

\* IInv holds in every state of every behaviour.
THEOREM IInvAlways == Spec => []IInv
<1>1. QED
  BY InitHasIInv, NextKeepsIInv, PTL DEF Spec

\* The types are right, whatever the constants.
THEOREM TypeCorrect == Spec => []TypeOK
<1>1. IInv => TypeOK
  BY DEF IInv
<1>2. QED
  BY <1>1, IInvAlways, PTL

\* For any number of accessors and files, the sharing counters equal the number
\* of accesses they stand for, and the table is the files in use (access.go).
THEOREM CountsCorrect == Spec => []CountsAreExact
<1>1. IInv => CountsAreExact
  BY DEF IInv
<1>2. QED
  BY <1>1, IInvAlways, PTL

\* For any number of accessors, files and modes, no access shares a file with
\* one it shuts out (access.go, conflicts and add).
THEOREM SharingCorrect == Spec => []SharingHonoured
<1>1. IInv => SharingHonoured
  BY DEF IInv
<1>2. QED
  BY <1>1, IInvAlways, PTL

\* For any number of accessors and files, a slot is neither freed nor reused
\* while an access to the file it held is open (Deaccess, DeleteHeader).
THEOREM StorageHeldCorrect == Spec => []StorageHeldWhileAccessed
<1>1. IInv => StorageHeldWhileAccessed
  BY DEF IInv
<1>2. QED
  BY <1>1, IInvAlways, PTL

-----------------------------------------------------------------------------
(***************************************************************************)
(* The attributes of a shared File: what is in memory reaches the disk,    *)
(* and the high-water mark covers the data.  The two need a third fact,    *)
(* that the last block written lies within the allocation, because         *)
(* CloseWithFinalByte moves the end of file there; and they need IInv,     *)
(* because a slot somebody has open is never blanked or read again.        *)
(***************************************************************************)

SoundFile(f) == WithinHighWater(f.attr) /\ f.maxWritten <= f.attr.blocks

SoundSlot(n) ==
    /\ header[n].live => WithinHighWater(header[n].attr)
    /\ n \in accessed => /\ SoundFile(file[n])
                         /\ file[n].attr = header[n].attr \/ NeedsWriting(file[n])

AttrInv == \A n \in Files : SoundSlot(n)

-----------------------------------------------------------------------------
(* What becomes of one File.                                               *)

\* The fields of a File the arithmetic is about.
LEMMA FileFields ==
    ASSUME NEW f \in File
    PROVE  /\ f.attr.hwm \in 0 .. MaxBlocks + 1 /\ f.attr.blocks \in 0 .. MaxBlocks
           /\ f.maxWritten \in 0 .. MaxBlocks /\ UsedBlocks(f.attr) \in 0 .. MaxBlocks
           /\ MaxBlocks \in Nat
BY BlocksForBound, BoundsArePositive DEF File, Attr, UsedBlocks

\* The attributes of a new file are sound.
LEMMA NewAttrIsSound == WithinHighWater(NewAttr) /\ UsedBlocks(NewAttr) = 0
<1>1. BlockBytes \in Nat /\ BlockBytes > 0
  BY BoundsArePositive
<1>2. (0 + BlockBytes - 1) \div BlockBytes = 0
  BY <1>1, SMTT(30)
<1>3. QED
  BY <1>2 DEF WithinHighWater, UsedBlocks, BlocksFor, NewAttr

\* A File read from a sound header is sound.
LEMMA OpenedIsSound ==
    ASSUME NEW h, h.attr \in Attr, WithinHighWater(h.attr)
    PROVE  SoundFile(Opened(h)) /\ Opened(h).attr = h.attr
BY BoundsArePositive DEF Opened, SoundFile, Attr

\* Arming a File notes no more as written than the file has.
LEMMA ArmedIsSound ==
    ASSUME NEW f \in File, SoundFile(f)
    PROVE  SoundFile(OpenForWrite(f)) /\ OpenForWrite(f).attr = f.attr
<1>1. OpenForWrite(f).attr = f.attr /\ OpenForWrite(f).maxWritten = UsedBlocks(f.attr)
  BY DEF OpenForWrite, File
<1>2. UsedBlocks(f.attr) <= f.attr.blocks
  BY FileFields DEF SoundFile, WithinHighWater
<1>3. QED
  BY <1>1, <1>2 DEF SoundFile

\* Counting accessors leaves the attributes alone.
LEMMA RecountedIsSound ==
    ASSUME NEW f \in File, NEW m, NEW delta \in {-1, 1}, SoundFile(f)
    PROVE  SoundFile(Recounted(f, m, delta)) /\ Recounted(f, m, delta).attr = f.attr
BY DEF Recounted, SoundFile, File

\* So does joining the accessors of a file.
LEMMA JoinedIsSound ==
    ASSUME NEW f \in File, NEW m, SoundFile(f)
    PROVE  /\ SoundFile(Joined(f, m)) /\ Joined(f, m).attr = f.attr
           /\ NeedsWriting(f) => NeedsWriting(Joined(f, m))
<1>1. UsedBlocks(f.attr) \in 0 .. MaxBlocks
  BY FileFields
<1>2. OpenForWrite(f) \in File /\ SoundFile(OpenForWrite(f)) /\ OpenForWrite(f).attr = f.attr
      /\ OpenForWrite(f).armed /\ OpenForWrite(f).attributesChanged = f.attributesChanged
  BY <1>1, ArmedIsSound DEF OpenForWrite, File
<1> DEFINE g == IF "Write" \in m /\ ~f.armed THEN OpenForWrite(f) ELSE f
<1>3. /\ g \in File /\ SoundFile(g) /\ g.attr = f.attr
      /\ (f.armed => g.armed) /\ (f.attributesChanged => g.attributesChanged)
  BY <1>2
<1>4. Joined(f, m) = Recounted(g, m, 1)
  BY DEF Joined
<1> HIDE DEF g
<1> DEFINE j == Recounted(g, m, 1)
<1>5. /\ SoundFile(j) /\ j.attr = g.attr
      /\ (g.armed => j.armed) /\ (g.attributesChanged => j.attributesChanged)
  BY <1>3, RecountedIsSound, RecountedIsFile
<1> HIDE DEF j
<1>6. NeedsWriting(f) => NeedsWriting(j)
  BY <1>3, <1>5, Zenon DEF NeedsWriting
<1>7. QED
  BY <1>3, <1>4, <1>5, <1>6 DEF j

\* Moving the end of file inside the allocation keeps it under the mark.
LEMMA EndedAtIsSound ==
    ASSUME NEW f \in File, NEW pos \in Positions, SoundFile(f), BlocksFor(pos) <= f.attr.blocks
    PROVE  SoundFile(EndedAt(f, pos)) /\ EndedAt(f, pos).attributesChanged
<1> DEFINE g == EndedAt(f, pos)
<1>1. /\ g.attr.eof = pos /\ g.attr.hwm = AtLeast(f.attr.hwm, MarkPast(BlocksFor(pos)))
      /\ g.attr.blocks = f.attr.blocks /\ g.maxWritten = f.maxWritten /\ g.attributesChanged
  BY DEF EndedAt, File, Attr
<1>2. BlocksFor(pos) \in 0 .. MaxBlocks
  BY BlocksForBound
<1>3. WithinHighWater(g.attr)
  BY <1>1, <1>2, FileFields DEF WithinHighWater, UsedBlocks, AtLeast, MarkPast, SoundFile
<1>4. QED
  BY <1>1, <1>3 DEF SoundFile

\* Writing a block, after extending the file to hold it.
LEMMA WrittenIsSound ==
    ASSUME NEW f \in File, NEW vbn \in 1 .. MaxBlocks, SoundFile(f)
    PROVE  /\ SoundFile(Extended(f, vbn))
           /\ SoundFile(Written(Extended(f, vbn), vbn))
           /\ Written(Extended(f, vbn), vbn).armed = f.armed
<1>1. PICK g \in File : g = Extended(f, vbn) /\ SameFile(f, g)
  BY ExtendedIsFile DEF SameFile
<1>2. /\ g.attr.eof = f.attr.eof /\ g.attr.hwm = f.attr.hwm /\ g.maxWritten = f.maxWritten
      /\ g.attr.blocks = AtLeast(f.attr.blocks, vbn) /\ g.armed = f.armed
  BY <1>1 DEF Extended, File, Attr
<1>3. f.attr.blocks <= g.attr.blocks /\ vbn <= g.attr.blocks
  BY <1>2, FileFields DEF AtLeast
<1>4. UsedBlocks(g.attr) = UsedBlocks(f.attr)
  BY <1>2 DEF UsedBlocks
<1>5. SoundFile(g)
  BY <1>1, <1>2, <1>3, <1>4, FileFields DEF SoundFile, WithinHighWater
<1>6. PICK h \in File : h = Written(g, vbn) /\ SameFile(g, h)
  BY WrittenIsFile DEF SameFile
<1>7. /\ h.attr.eof = g.attr.eof /\ h.attr.hwm = AtLeast(g.attr.hwm, vbn + 1)
      /\ h.maxWritten = AtLeast(g.maxWritten, vbn)
      /\ h.attr.blocks = g.attr.blocks /\ h.armed = g.armed
  BY <1>6 DEF Written, File, Attr, MarkPast
<1>8. UsedBlocks(h.attr) = UsedBlocks(g.attr)
  BY <1>7 DEF UsedBlocks
<1>9. SoundFile(h)
  BY <1>3, <1>5, <1>7, <1>8, FileFields DEF SoundFile, WithinHighWater, AtLeast
<1>10. QED
  BY <1>1, <1>2, <1>5, <1>6, <1>7, <1>9

\* The end of file that closing records lies in the last block written.
LEMMA ClosedEndInLast ==
    ASSUME NEW last \in 0 .. MaxBlocks, NEW finalByte \in 0 .. BlockBytes - 1
    PROVE  BlocksFor(ClosedEnd(last, finalByte)) = last
<1>1. BlockBytes \in Nat /\ BlockBytes > 0 /\ MaxBlocks \in Nat /\ last \in Nat
      /\ finalByte \in Nat /\ finalByte < BlockBytes
  BY BoundsArePositive
<1>2. \A q \in Nat, r \in 0 .. BlockBytes - 1 : (q * BlockBytes + r) \div BlockBytes = q
  <2> SUFFICES ASSUME NEW q \in Nat, NEW r \in 0 .. BlockBytes - 1
               PROVE  (q * BlockBytes + r) \div BlockBytes = q
    OBVIOUS
  <2> DEFINE d == (q * BlockBytes + r) \div BlockBytes
  <2>1. /\ q * BlockBytes \in Nat /\ d \in Int
        /\ d * BlockBytes <= q * BlockBytes + r
        /\ q * BlockBytes + r < (d + 1) * BlockBytes
    BY <1>1, SMTT(30)
  <2>2. d * BlockBytes < (q + 1) * BlockBytes /\ q * BlockBytes < (d + 1) * BlockBytes
    BY <1>1, <2>1, SMTT(30)
  <2>3. d < q + 1 /\ q < d + 1
    BY <1>1, <2>1, <2>2, SMTT(30)
  <2>4. QED
    BY <2>1, <2>3
<1>3. CASE last = 0
  <2>1. (0 * BlockBytes + (BlockBytes - 1)) \div BlockBytes = 0
    BY <1>1, <1>2
  <2>2. 0 * BlockBytes + (BlockBytes - 1) = 0 + BlockBytes - 1
    BY <1>1
  <2>3. QED
    BY <1>1, <1>3, <2>1, <2>2 DEF ClosedEnd, BlocksFor
<1>4. CASE last # 0 /\ finalByte = 0
  <2>1. ClosedEnd(last, finalByte) = last * BlockBytes
    BY <1>1, <1>4 DEF ClosedEnd
  <2>2. last * BlockBytes + BlockBytes - 1 = last * BlockBytes + (BlockBytes - 1)
    BY <1>1, SMTT(30)
  <2>3. QED
    BY <1>1, <1>2, <2>1, <2>2 DEF BlocksFor
<1>5. CASE last # 0 /\ finalByte # 0
  <2>1. ClosedEnd(last, finalByte) = (last - 1) * BlockBytes + finalByte
    BY <1>1, <1>5 DEF ClosedEnd
  <2>2. (last - 1) * BlockBytes + finalByte + BlockBytes - 1 = last * BlockBytes + (finalByte - 1)
    BY <1>1, SMTT(30)
  <2>3. finalByte - 1 \in 0 .. BlockBytes - 1
    BY <1>1, <1>5
  <2>4. QED
    BY <1>1, <1>2, <2>1, <2>2, <2>3 DEF BlocksFor
<1>6. QED
  BY <1>3, <1>4, <1>5

\* The attributes Close computes are sound.
LEMMA ClosedIsSound ==
    ASSUME NEW f \in File, NEW finalByte \in 0 .. BlockBytes - 1, SoundFile(f)
    PROVE  SoundFile(Closed(f, finalByte))
<1> DEFINE g == Closed(f, finalByte)
           last == f.maxWritten
<1>1. /\ g.attr.eof = ClosedEnd(last, finalByte)
      /\ g.attr.hwm = IF last = 0 THEN f.attr.hwm ELSE AtLeast(f.attr.hwm, last + 1)
      /\ g.attr.blocks = f.attr.blocks /\ g.maxWritten = last
  BY DEF Closed, File, Attr, MarkPast
<1>2. last \in 0 .. MaxBlocks
  BY FileFields
<1>3. UsedBlocks(g.attr) = last
  BY <1>1, <1>2, ClosedEndInLast DEF UsedBlocks
<1>4. QED
  BY <1>1, <1>3, FileFields DEF SoundFile, WithinHighWater, AtLeast

-----------------------------------------------------------------------------
(* What becomes of the slots.                                              *)

\* A step that leaves every slot but one alone is judged by that one.
LEMMA OneSlotChanges ==
    ASSUME AttrInv, NEW n \in Files, SoundSlot(n)',
           \A k \in Files \ {n} : /\ header'[k] = header[k] /\ file'[k] = file[k]
                                  /\ k \in accessed' <=> k \in accessed
    PROVE  AttrInv'
BY DEF AttrInv, SoundSlot

\* A header about to be entered in the table, or to be found there, makes a
\* sound File whose attributes are either on disk or known to be new.
LEMMA OpenFIDIsSound ==
    ASSUME IInv, AttrInv, NEW n \in Files, NEW s \in 1 .. MaxSeq, CanOpenFID(n, s)
    PROVE  LET f == OpenFID(n, s)
           IN  SoundFile(f) /\ (f.attr = header[n].attr \/ NeedsWriting(f))
<1>1. header[n].live /\ header[n].attr \in Attr
  BY OpenFIDIsExact DEF HeaderIs, IInv, TypeOK
<1>2. CASE AccessedFile(n, s)
  BY <1>2 DEF OpenFID, AccessedFile, AttrInv, SoundSlot
<1>3. CASE ~AccessedFile(n, s)
  <2>1. WithinHighWater(header[n].attr)
    BY <1>1 DEF AttrInv, SoundSlot
  <2>2. QED
    BY <1>1, <1>3, <2>1, OpenedIsSound DEF OpenFID
<1>4. QED
  BY <1>2, <1>3

\* Access keeps the attributes' invariant.
LEMMA AccessKeepsAttrInv ==
    ASSUME IInv, AttrInv, NEW a \in Accessors, NEW n \in Files, NEW s \in 1 .. MaxSeq,
           NEW m \in SUBSET Flags, Access(a, n, s, m)
    PROVE  AttrInv'
<1>1. CanOpenFID(n, s) /\ EnterAccess(a, n, OpenFID(n, s), m) /\ header' = header
  BY DEF Access
<1>2. PICK f \in File : /\ f = OpenFID(n, s) /\ SoundFile(f)
                        /\ f.attr = header[n].attr \/ NeedsWriting(f)
  BY <1>1, OpenFIDIsExact, OpenFIDIsSound
<1>3. accessed' = accessed \cup {n} /\ file' = [file EXCEPT ![n] = Joined(f, m)]
  BY <1>1, <1>2 DEF EnterAccess
<1>4. SoundSlot(n)'
  <2>1. file'[n] = Joined(f, m)
    BY <1>3 DEF IInv, TypeOK
  <2>2. SoundFile(file'[n]) /\ (file'[n].attr = header[n].attr \/ NeedsWriting(file'[n]))
    BY <1>2, <2>1, JoinedIsSound
  <2>3. QED
    BY <1>1, <2>2 DEF SoundSlot, AttrInv
<1>5. QED
  BY <1>1, <1>3, <1>4, OneSlotChanges DEF IInv, TypeOK

\* CreateAccessed keeps the attributes' invariant.
LEMMA CreateAccessedKeepsAttrInv ==
    ASSUME IInv, AttrInv, NEW a \in Accessors, NEW n \in Files, NEW m \in SUBSET Flags,
           CreateAccessed(a, n, m)
    PROVE  AttrInv'
<1> DEFINE h == Created(n)
           o == Opened(h)
           f == OpenForWrite(o)
<1>1. /\ header[n].seq < MaxSeq /\ header' = [header EXCEPT ![n] = h]
      /\ accessed' = accessed \cup {n} /\ file' = [file EXCEPT ![n] = Joined(f, m)]
  BY DEF CreateAccessed, EnterAccess
<1>2. h.attr = NewAttr /\ h.attr \in Attr /\ h.seq \in 0 .. MaxSeq /\ f \in File
  BY <1>1, CreatedIsHeader DEF Created
<1>3. o \in File /\ SoundFile(o) /\ o.attr = NewAttr
  BY <1>2, NewAttrIsSound, OpenedIsSound, OpenedIsFile
<1>4. SoundFile(f) /\ f.attr = NewAttr
  BY <1>3, ArmedIsSound
<1> HIDE DEF f, o, h
<1>5. SoundFile(Joined(f, m)) /\ Joined(f, m).attr = NewAttr
  BY <1>2, <1>4, JoinedIsSound
<1>6. header'[n] = h /\ file'[n] = Joined(f, m)
  BY <1>1 DEF IInv, TypeOK
<1>7. SoundSlot(n)'
  BY <1>2, <1>5, <1>6, NewAttrIsSound DEF SoundSlot
<1>8. QED
  BY <1>1, <1>7, OneSlotChanges DEF IInv, TypeOK

\* CreateHeader keeps the attributes' invariant.
LEMMA CreateHeaderKeepsAttrInv ==
    ASSUME IInv, AttrInv, NEW n \in Files, CreateHeader(n)
    PROVE  AttrInv'
<1>1. ~header[n].live /\ header' = [header EXCEPT ![n] = Created(n)]
      /\ UNCHANGED <<accessed, file, access>>
  BY DEF CreateHeader, FreeSlot
<1>2. n \notin accessed
  BY <1>1, BlankIsNotHeld
<1>3. header'[n].attr = NewAttr
  BY <1>1 DEF IInv, TypeOK, Created
<1>4. SoundSlot(n)'
  BY <1>1, <1>2, <1>3, NewAttrIsSound DEF SoundSlot
<1>5. QED
  BY <1>1, <1>4, OneSlotChanges DEF IInv, TypeOK

\* DeleteHeader keeps the attributes' invariant.
LEMMA DeleteHeaderKeepsAttrInv ==
    ASSUME IInv, AttrInv, NEW n \in Files, NEW s \in 1 .. MaxSeq, DeleteHeader(n, s)
    PROVE  AttrInv'
<1>1. HeaderIs(n, s) /\ UNCHANGED <<accessed, access>>
  BY DEF DeleteHeader
<1>2. CASE AccessedFile(n, s)
  <2>1. file' = [file EXCEPT ![n].deletePending = TRUE] /\ header' = header
    BY <1>2 DEF DeleteHeader
  <2>2. /\ file'[n].attr = file[n].attr /\ file'[n].maxWritten = file[n].maxWritten
        /\ file'[n].armed = file[n].armed
        /\ file'[n].attributesChanged = file[n].attributesChanged
    BY <2>1 DEF IInv, TypeOK, File
  <2>3. NeedsWriting(file[n]) => NeedsWriting(file'[n])
    BY <2>2 DEF NeedsWriting, IInv, TypeOK, File
  <2>4. SoundSlot(n)'
    BY <1>1, <2>1, <2>2, <2>3 DEF SoundSlot, AttrInv, SoundFile
  <2>5. QED
    BY <1>1, <2>1, <2>4, OneSlotChanges DEF IInv, TypeOK
<1>3. CASE ~AccessedFile(n, s)
  <2>1. n \notin accessed /\ file' = file
        /\ header' = [header EXCEPT ![n].live = FALSE, ![n].attr = NewAttr]
    BY <1>1, <1>3, NotAccessedNotHeld DEF DeleteHeader, FreeStorage
  <2>2. ~header'[n].live
    BY <2>1 DEF IInv, TypeOK
  <2>3. SoundSlot(n)'
    BY <1>1, <2>1, <2>2 DEF SoundSlot
  <2>4. QED
    BY <1>1, <2>1, <2>3, OneSlotChanges DEF IInv, TypeOK
<1>4. QED
  BY <1>2, <1>3

\* The last accessor to go leaves the header sound and, unless the file was
\* marked for delete, holding the attributes the File had.
LEMMA DeaccessKeepsAttrInv ==
    ASSUME IInv, AttrInv, NEW a \in Accessors, Deaccess(a)
    PROVE  AttrInv'
<1>1. PICK n \in Files : n = access[a].number
  BY DEF IInv, OpenNamesFile, Deaccess
<1>2. n \in accessed /\ file[n] \in File
  BY <1>1 DEF Deaccess, Holds, IInv, CountsAreExact, Holders, TypeOK
<1>3. SoundFile(file[n]) /\ (file[n].attr = header[n].attr \/ NeedsWriting(file[n]))
  BY <1>2 DEF AttrInv, SoundSlot
<1>4. PICK left \in File : left = Recounted(file[n], access[a].mode, -1) /\ SoundFile(left)
                           /\ left.attr = file[n].attr /\ left.armed = file[n].armed
                           /\ left.attributesChanged = file[n].attributesChanged
  BY <1>2, <1>3, RecountedIsFile, RecountedIsSound
<1>5. StillShared(n, left) \/ LastGone(n, left)
  BY <1>1, <1>4 DEF Deaccess
<1>6. CASE StillShared(n, left)
  <2>1. file' = [file EXCEPT ![n] = left] /\ header' = header /\ accessed' = accessed
    BY <1>6 DEF StillShared
  <2>2. file'[n] = left
    BY <2>1 DEF IInv, TypeOK
  <2>3. NeedsWriting(file[n]) => NeedsWriting(left)
    BY <1>2, <1>4 DEF NeedsWriting, File
  <2>4. SoundSlot(n)'
    BY <1>3, <1>4, <2>1, <2>2, <2>3 DEF SoundSlot, AttrInv
  <2>5. QED
    BY <2>1, <2>4, OneSlotChanges DEF IInv, TypeOK
<1>7. CASE LastGone(n, left)
  <2>1. /\ accessed' = accessed \ {n} /\ file' = [file EXCEPT ![n] = NoFile]
        /\ FreeStorage(n) \/ WriteHeader(n, left) \/ header' = header
    BY <1>7 DEF LastGone
  <2>2. /\ \A k \in Files \ {n} : header'[k] = header[k]
        /\ ~header'[n].live \/ header'[n].attr = left.attr \/ header'[n] = header[n]
    BY <2>1 DEF FreeStorage, WriteHeader, IInv, TypeOK
  <2>3. SoundSlot(n)'
    BY <1>4, <2>1, <2>2 DEF SoundSlot, SoundFile, AttrInv
  <2>4. QED
    BY <2>1, <2>2, <2>3, OneSlotChanges DEF IInv, TypeOK
<1>8. QED
  BY <1>5, <1>6, <1>7

\* What an accessor makes of its File, and of the header it may write.
LEMMA ChangeKeepsAttrInv ==
    ASSUME IInv, AttrInv, NEW n \in accessed, NEW f \in File, NEW g \in File,
           SoundFile(f), SoundFile(g),
           file' = [file EXCEPT ![n] = f], UNCHANGED <<accessed, access>>,
           WriteHeader(n, g) \/ header' = header,
           NeedsWriting(f) \/ f.attr = header'[n].attr
    PROVE  AttrInv'
<1>1. n \in Files
  BY DEF IInv, TypeOK
<1>2. /\ \A k \in Files \ {n} : header'[k] = header[k]
      /\ header'[n].attr = g.attr \/ header'[n] = header[n]
  BY <1>1 DEF WriteHeader, IInv, TypeOK
<1>3. file'[n] = f
  BY <1>1 DEF IInv, TypeOK
<1>4. SoundSlot(n)'
  BY <1>1, <1>2, <1>3 DEF SoundSlot, SoundFile, AttrInv
<1>5. QED
  BY <1>1, <1>2, <1>4, OneSlotChanges DEF IInv, TypeOK

\* SetEndOfFile keeps the attributes' invariant.
LEMMA SetEndOfFileKeepsAttrInv ==
    ASSUME IInv, AttrInv, NEW a \in Accessors, NEW n \in Files, NEW pos \in Positions,
           SetEndOfFile(a, n, pos)
    PROVE  AttrInv'
<1>1. n \in accessed /\ file[n] \in File /\ BlocksFor(pos) <= file[n].attr.blocks
  BY HolderHasFile DEF SetEndOfFile
<1>2. SoundFile(file[n])
  BY <1>1 DEF AttrInv, SoundSlot
<1>3. PICK f \in File : f = EndedAt(file[n], pos) /\ SoundFile(f) /\ f.attributesChanged
  BY <1>1, <1>2, EndedAtIsFile, EndedAtIsSound DEF SameFile
<1>4. NeedsWriting(f)
  BY <1>3 DEF NeedsWriting
<1>5. file' = [file EXCEPT ![n] = f] /\ UNCHANGED <<header, accessed, access>>
  BY <1>3 DEF SetEndOfFile
<1>6. QED
  BY <1>1, <1>3, <1>4, <1>5, ChangeKeepsAttrInv

\* WriteAttributes keeps the attributes' invariant.
LEMMA WriteAttributesKeepsAttrInv ==
    ASSUME IInv, AttrInv, NEW a \in Accessors, NEW n \in Files, WriteAttributes(a, n)
    PROVE  AttrInv'
<1>1. n \in accessed /\ file[n] \in File
  BY HolderHasFile DEF WriteAttributes
<1>2. SoundFile(file[n])
  BY <1>1 DEF AttrInv, SoundSlot
<1>3. PICK f \in File : f = Saved(file[n])
  BY <1>1, SavedIsFile DEF SameFile
<1>4. SoundFile(f) /\ f.attr = file[n].attr
  BY <1>1, <1>2, <1>3 DEF SoundFile, Saved, File
<1>5. /\ file' = [file EXCEPT ![n] = f] /\ UNCHANGED <<accessed, access>>
      /\ WriteHeader(n, file[n])
  BY <1>3 DEF WriteAttributes
<1>6. f.attr = header'[n].attr
  BY <1>1, <1>4, <1>5 DEF WriteHeader, IInv, TypeOK
<1>7. QED
  BY <1>1, <1>2, <1>4, <1>5, <1>6, ChangeKeepsAttrInv

\* WriteBlock keeps the attributes' invariant.
LEMMA WriteBlockKeepsAttrInv ==
    ASSUME IInv, AttrInv, NEW a \in Accessors, NEW n \in Files, NEW vbn \in 1 .. MaxBlocks,
           WriteBlock(a, n, vbn)
    PROVE  AttrInv'
<1>1. n \in accessed /\ file[n] \in File /\ file[n].armed
  BY HolderHasFile DEF WriteBlock
<1>2. SoundFile(file[n])
  BY <1>1 DEF AttrInv, SoundSlot
<1>3. PICK g \in File : g = Extended(file[n], vbn) /\ SoundFile(g)
  BY <1>1, <1>2, ExtendedIsFile, WrittenIsSound DEF SameFile
<1>4. PICK f \in File : f = Written(g, vbn) /\ SoundFile(f) /\ f.armed
  BY <1>1, <1>2, <1>3, WrittenIsFile, WrittenIsSound DEF SameFile
<1>5. NeedsWriting(f)
  BY <1>4 DEF NeedsWriting
<1>6. /\ file' = [file EXCEPT ![n] = f] /\ UNCHANGED <<accessed, access>>
      /\ WriteHeader(n, g) \/ header' = header
  BY <1>3, <1>4 DEF WriteBlock
<1>7. QED
  BY <1>1, <1>3, <1>4, <1>5, <1>6, ChangeKeepsAttrInv

\* Close keeps the attributes' invariant.
LEMMA CloseKeepsAttrInv ==
    ASSUME IInv, AttrInv, NEW n \in Files, NEW finalByte \in 0 .. BlockBytes - 1,
           CloseWithFinalByte(n, finalByte)
    PROVE  AttrInv'
<1>1. n \in accessed /\ file[n] \in File
  BY DEF CloseWithFinalByte, IInv, TypeOK
<1>2. SoundFile(file[n])
  BY <1>1 DEF AttrInv, SoundSlot
<1>3. PICK f \in File : f = Closed(file[n], finalByte) /\ SoundFile(f)
  BY <1>1, <1>2, ClosedIsFile, ClosedIsSound DEF SameFile
<1>4. /\ file' = [file EXCEPT ![n] = f] /\ UNCHANGED <<accessed, access>>
      /\ WriteHeader(n, f)
  BY <1>3 DEF CloseWithFinalByte
<1>5. f.attr = header'[n].attr
  BY <1>4 DEF WriteHeader, IInv, TypeOK
<1>6. QED
  BY <1>1, <1>3, <1>4, <1>5, ChangeKeepsAttrInv

\* Dismount keeps the attributes' invariant.
LEMMA DismountKeepsAttrInv ==
    ASSUME IInv, AttrInv, Dismount
    PROVE  AttrInv'
<1>1. SUFFICES ASSUME NEW n \in Files PROVE SoundSlot(n)'
  BY DEF AttrInv
<1>2. header'[n] = header[n] \/ (n \in accessed /\ header'[n].attr = file[n].attr)
  BY DEF Dismount
<1>3. accessed' = {}
  BY DEF Dismount
<1>4. QED
  BY <1>2, <1>3 DEF SoundSlot, AttrInv, SoundFile

-----------------------------------------------------------------------------
(* The theorems.                                                           *)

\* No file has attributes to write at first.
LEMMA InitHasAttrInv == Init => AttrInv
BY DEF Init, AttrInv, SoundSlot

\* Every step of the specification preserves AttrInv.
LEMMA NextKeepsAttrInv == IInv /\ AttrInv /\ [Next]_vars => AttrInv'
<1> SUFFICES ASSUME IInv, AttrInv, [Next]_vars PROVE AttrInv'
  OBVIOUS
<1>1. ASSUME NEW n \in Files, CreateHeader(n) PROVE AttrInv'
  BY <1>1, CreateHeaderKeepsAttrInv
<1>2. ASSUME NEW n \in Files, NEW s \in 1 .. MaxSeq, DeleteHeader(n, s) PROVE AttrInv'
  BY <1>2, DeleteHeaderKeepsAttrInv
<1>3. ASSUME NEW a \in Accessors, NEW n \in Files, NEW m \in Modes,
             CreateAccessed(a, n, m) \/ \E s \in 1 .. MaxSeq : Access(a, n, s, m)
      PROVE  AttrInv'
  BY <1>3, ModesAreFlagSets, CreateAccessedKeepsAttrInv, AccessKeepsAttrInv
<1>4. ASSUME NEW a \in Accessors, Deaccess(a) PROVE AttrInv'
  BY <1>4, DeaccessKeepsAttrInv
<1>5. ASSUME NEW a \in Accessors, NEW n \in Files,
             \/ WriteAttributes(a, n)
             \/ \E pos \in Positions : SetEndOfFile(a, n, pos)
             \/ \E vbn \in 1 .. MaxBlocks : WriteBlock(a, n, vbn)
      PROVE  AttrInv'
  BY <1>5, WriteAttributesKeepsAttrInv, SetEndOfFileKeepsAttrInv, WriteBlockKeepsAttrInv
<1>6. ASSUME NEW n \in Files, NEW finalByte \in 0 .. BlockBytes - 1,
             CloseWithFinalByte(n, finalByte)
      PROVE  AttrInv'
  BY <1>6, CloseKeepsAttrInv
<1>7. ASSUME Dismount PROVE AttrInv'
  BY <1>7, DismountKeepsAttrInv
<1>8. ASSUME UNCHANGED vars PROVE AttrInv'
  BY <1>8 DEF vars, AttrInv, SoundSlot
<1>9. ASSUME NEW a \in Accessors, DeaccessAgain(a) PROVE AttrInv'
  BY <1>8, <1>9 DEF DeaccessAgain
<1>10. QED
  BY <1>1, <1>2, <1>3, <1>4, <1>5, <1>6, <1>7, <1>8, <1>9 DEF Next

\* IInv and AttrInv hold in every state of every behaviour.
THEOREM AttrInvAlways == Spec => [](IInv /\ AttrInv)
<1>1. QED
  BY InitHasIInv, NextKeepsIInv, InitHasAttrInv, NextKeepsAttrInv, PTL DEF Spec

\* For any number of accessors and files, attributes that differ in memory
\* from the header on disk are known to need writing, so that the last Deaccess
\* or Dismount writes them (access.go, SetEndOfFile and deaccess).
THEOREM ChangesWritten == Spec => []ChangesWillBeWritten
<1>1. IInv /\ AttrInv => ChangesWillBeWritten
  BY DEF IInv, TypeOK, AttrInv, SoundSlot, ChangesWillBeWritten, NeedsWriting
<1>2. QED
  BY <1>1, AttrInvAlways, PTL

\* For any number of accessors and files, and blocks of any size, the high-water
\* mark is past the data and within a block of the allocation, in memory and on
\* disk (writefile.go, CloseWithFinalByte, WriteBlock; access.go, SetEndOfFile).
THEOREM HighWaterCorrect == Spec => []EndWithinHighWater
<1>1. IInv /\ AttrInv => EndWithinHighWater
  BY DEF AttrInv, SoundSlot, SoundFile, EndWithinHighWater
<1>2. QED
  BY <1>1, AttrInvAlways, PTL

-----------------------------------------------------------------------------
\* The record that stands for access a while it is open.
Holding(a) == [who |-> a, number |-> access[a].number, mode |-> access[a].mode]

-----------------------------------------------------------------------------
(* How the parts of the abstract state change.                             *)

\* To the promise, an access that succeeds is one more held.
LEMMA HeldEnter ==
    ASSUME IInv, NEW a \in Accessors, NEW n \in Files, NEW s, NEW m,
           access[a].done,
           access' = [access EXCEPT ![a] = [done |-> FALSE, number |-> n, seq |-> s, mode |-> m]]
    PROVE  /\ heldBar' = heldBar \cup {[who |-> a, number |-> n, mode |-> m]}
           /\ Promise!Idle(a)
<1>1. /\ access'[a] = [done |-> FALSE, number |-> n, seq |-> s, mode |-> m]
      /\ \A b \in Accessors : b # a => access'[b] = access[b]
  BY DEF IInv, TypeOK
<1>2. heldBar' \subseteq heldBar \cup {[who |-> a, number |-> n, mode |-> m]}
  BY <1>1 DEF heldBar
<1>3. heldBar \cup {[who |-> a, number |-> n, mode |-> m]} \subseteq heldBar'
  BY <1>1 DEF heldBar
<1>4. Promise!Idle(a)
  BY DEF heldBar, Promise!Idle
<1>5. QED
  BY <1>2, <1>3, <1>4

\* A deaccess is one held no more.
LEMMA HeldLeave ==
    ASSUME IInv, NEW a \in Accessors, ~access[a].done,
           access' = [access EXCEPT ![a].done = TRUE]
    PROVE  Holding(a) \in heldBar /\ heldBar' = heldBar \ {Holding(a)}
<1>1. /\ access'[a].done
      /\ \A b \in Accessors : b # a => access'[b] = access[b]
  BY DEF IInv, TypeOK
<1>2. Holding(a) \in heldBar
  BY DEF heldBar, Holding
<1>3. heldBar' \subseteq heldBar \ {Holding(a)}
  BY <1>1 DEF heldBar, Holding
<1>4. heldBar \ {Holding(a)} \subseteq heldBar'
  BY <1>1 DEF heldBar, Holding
<1>5. QED
  BY <1>2, <1>3, <1>4

\* Somebody holds a file, abstractly, just when it is in the table.
LEMMA HeldMeansAccessed ==
    ASSUME IInv, NEW n \in Files
    PROVE  /\ Promise!Holders(n) # {} <=> n \in accessed
           /\ n \in accessed => header[n].live /\ header[n].seq = file[n].seq
<1>1. \A b \in Holders(n) : Holding(b) \in Promise!Holders(n)
  BY DEF Promise!Holders, heldBar, Holding, Holders, Holds
<1>2. \A h \in Promise!Holders(n) : \E b \in Holders(n) : h = Holding(b)
  BY DEF Promise!Holders, heldBar, Holding, Holders, Holds
<1>3. QED
  BY <1>1, <1>2, SharedSeq DEF IInv, CountsAreExact, HeaderIs

\* What the status of a file in the promise says of its header and its File.
LEMMA StatusMeaning ==
    ASSUME IInv, NEW n \in Files
    PROVE  /\ statusBar[n] = "free" <=> ~header[n].live
           /\ statusBar[n] = "kept" <=> header[n].live /\ ~(n \in accessed /\ file[n].deletePending)
           /\ statusBar[n] = "doomed" <=> header[n].live /\ n \in accessed /\ file[n].deletePending
BY DEF statusBar

\* Conflicts lets in nobody whom an accessor shuts out or who shuts one out.
LEMMA NoConflictIsCompatible ==
    ASSUME IInv, NEW n \in Files, NEW f, NEW m \in SUBSET Flags,
           \A c \in Counters : f.count[c] = Cardinality(Counted(n, c)),
           ~Conflicts(f.count, m)
    PROVE  \A h \in Promise!Holders(n) : Promise!Compatible(m, h.mode)
<1>1. /\ Counted(n, "NoRead") = {}
      /\ "Write" \in m => Counted(n, "NoWrite") = {}
      /\ "NoRead" \in m => Counted(n, "accessors") = {}
      /\ "NoWrite" \in m => Counted(n, "Write") = {}
  BY ZeroMeansNobody DEF Conflicts, Counters, Flags
<1>2. \A b \in Holders(n) : Promise!Compatible(m, access[b].mode)
  BY <1>1 DEF Counted, Promise!Compatible
<1>3. \A h \in Promise!Holders(n) : \E b \in Holders(n) : h.mode = access[b].mode
  BY DEF Promise!Holders, heldBar, Holders, Holds
<1>4. QED
  BY <1>2, <1>3

-----------------------------------------------------------------------------
(* Each action is a step of SharedFile, or none.                           *)

\* The initial states map to the promise's.
LEMMA InitRefines == Init => Promise!Init
BY DEF Init, Promise!Init, statusBar, seqBar, attrBar, heldBar, Done

\* A step that changes at most slot n, and leaves the accesses alone, is seen
\* by the status, number and attributes of that slot.
LEMMA BarsElsewhere ==
    ASSUME NEW n \in Files,
           \A k \in Files \ {n} : /\ header'[k] = header[k] /\ file'[k] = file[k]
                                  /\ k \in accessed' <=> k \in accessed
    PROVE  /\ statusBar' = [statusBar EXCEPT ![n] = statusBar'[n]]
           /\ seqBar' = [seqBar EXCEPT ![n] = header'[n].seq]
           /\ attrBar' = [attrBar EXCEPT ![n] = attrBar'[n]]
BY DEF statusBar, seqBar, attrBar

\* The File of a file ID shows the attributes and the mark for delete that
\* everyone sees.
LEMMA OpenFIDShowsBars ==
    ASSUME IInv, NEW n \in Files, NEW s \in 1 .. MaxSeq, CanOpenFID(n, s)
    PROVE  /\ header[n].live /\ OpenFID(n, s).attr = attrBar[n]
           /\ ~OpenFID(n, s).deletePending => statusBar[n] = "kept"
<1>1. HeaderIs(n, s)
  BY OpenFIDIsExact
<1>2. CASE AccessedFile(n, s)
  BY <1>1, <1>2 DEF OpenFID, AccessedFile, HeaderIs, attrBar, statusBar
<1>3. CASE ~AccessedFile(n, s)
  BY <1>1, <1>3, NotAccessedNotHeld DEF OpenFID, Opened, HeaderIs, attrBar, statusBar
<1>4. QED
  BY <1>2, <1>3

\* Access is a step of the promise, or a stutter.
LEMMA AccessRefines ==
    ASSUME IInv, NEW a \in Accessors, NEW n \in Files, NEW s \in 1 .. MaxSeq,
           NEW m \in SUBSET Flags, Access(a, n, s, m)
    PROVE  Promise!Join(a, n, m)
<1> DEFINE f == OpenFID(n, s)
<1>1. /\ CanOpenFID(n, s) /\ header' = header /\ access[a].done
      /\ ~f.deletePending /\ ~Conflicts(f.count, m)
      /\ accessed' = accessed \cup {n} /\ file' = [file EXCEPT ![n] = Joined(f, m)]
      /\ access' = [access EXCEPT ![a] = [done |-> FALSE, number |-> n, seq |-> f.seq,
                                          mode |-> m]]
  BY DEF Access, EnterAccess
<1>2. f \in File /\ (\A c \in Counters : f.count[c] = Cardinality(Counted(n, c)))
  BY <1>1, OpenFIDIsExact
<1>3. header[n].live /\ f.attr = attrBar[n] /\ statusBar[n] = "kept"
  BY <1>1, OpenFIDShowsBars
<1> HIDE DEF f
<1>4. /\ file'[n].attr = f.attr /\ file'[n].deletePending = f.deletePending
      /\ \A k \in Files \ {n} : file'[k] = file[k]
  BY <1>1, <1>2, JoinedIsFile DEF IInv, TypeOK
<1>5. statusBar'[n] = statusBar[n] /\ attrBar'[n] = attrBar[n]
  BY <1>1, <1>3, <1>4 DEF statusBar, attrBar
<1>6. UNCHANGED <<statusBar, seqBar, attrBar>>
  <2>1. statusBar' = statusBar
    BY <1>1, <1>4, <1>5 DEF statusBar
  <2>2. attrBar' = attrBar
    BY <1>1, <1>4, <1>5 DEF attrBar
  <2>3. QED
    BY <1>1, <2>1, <2>2 DEF seqBar
<1>7. \A h \in Promise!Holders(n) : Promise!Compatible(m, h.mode)
  BY <1>1, <1>2, NoConflictIsCompatible
<1>8. heldBar' = heldBar \cup {[who |-> a, number |-> n, mode |-> m]} /\ Promise!Idle(a)
  BY <1>1, HeldEnter
<1>9. QED
  BY <1>3, <1>6, <1>7, <1>8 DEF Promise!Join

\* The slot a new header goes to shows a new file.
LEMMA CreatedShows ==
    ASSUME IInv, NEW n \in Files, ~header[n].live, header' = [header EXCEPT ![n] = Created(n)],
           \A k \in Files \ {n} : file'[k] = file[k] /\ (k \in accessed' <=> k \in accessed),
           n \in accessed' => file'[n].attr = NewAttr /\ ~file'[n].deletePending
    PROVE  /\ statusBar[n] = "free"
           /\ statusBar' = [statusBar EXCEPT ![n] = "kept"]
           /\ seqBar' = [seqBar EXCEPT ![n] = @ + 1]
           /\ attrBar' = [attrBar EXCEPT ![n] = NewAttr]
<1>1. /\ header'[n] = Created(n)
      /\ \A k \in Files \ {n} : header'[k] = header[k]
  BY DEF IInv, TypeOK
<1>2. statusBar'[n] = "kept" /\ attrBar'[n] = NewAttr /\ header'[n].seq = header[n].seq + 1
  BY <1>1 DEF statusBar, attrBar, Created
<1>3. statusBar[n] = "free" /\ seqBar[n] = header[n].seq
  BY DEF statusBar, seqBar
<1>4. QED
  BY <1>1, <1>2, <1>3, BarsElsewhere

\* CreateHeader is a step of the promise, or a stutter.
LEMMA CreateHeaderRefines ==
    ASSUME IInv, NEW n \in Files, CreateHeader(n)
    PROVE  Promise!Create(n, {})
<1>1. ~header[n].live /\ header' = [header EXCEPT ![n] = Created(n)]
      /\ UNCHANGED <<accessed, file, access>>
  BY DEF CreateHeader, FreeSlot
<1>2. n \notin accessed
  BY <1>1, BlankIsNotHeld
<1>3. heldBar' = heldBar
  BY <1>1 DEF heldBar
<1>4. QED
  BY <1>1, <1>2, <1>3, CreatedShows DEF Promise!Create

\* CreateAccessed is a step of the promise, or a stutter.
LEMMA CreateAccessedRefines ==
    ASSUME IInv, NEW a \in Accessors, NEW n \in Files, NEW m \in SUBSET Flags,
           CreateAccessed(a, n, m)
    PROVE  Promise!Create(n, {[who |-> a, number |-> n, mode |-> m]})
<1> DEFINE f == OpenForWrite(Opened(Created(n)))
           h == [who |-> a, number |-> n, mode |-> m]
<1>1. /\ ~header[n].live /\ header[n].seq < MaxSeq
      /\ header' = [header EXCEPT ![n] = Created(n)]
      /\ access[a].done /\ ~f.deletePending
      /\ accessed' = accessed \cup {n} /\ file' = [file EXCEPT ![n] = Joined(f, m)]
      /\ access' = [access EXCEPT ![a] = [done |-> FALSE, number |-> n, seq |-> f.seq,
                                          mode |-> m]]
  BY DEF CreateAccessed, EnterAccess, FreeSlot
<1>2. f \in File
  BY <1>1, CreatedIsHeader
<1>3. f.attr = NewAttr
  BY DEF OpenForWrite, Opened, Created
<1> HIDE DEF f
<1>4. /\ file'[n].attr = NewAttr /\ ~file'[n].deletePending
      /\ \A k \in Files \ {n} : file'[k] = file[k]
  BY <1>1, <1>2, <1>3, JoinedIsFile DEF IInv, TypeOK
<1>5. heldBar' = heldBar \cup {h} /\ Promise!Idle(a)
  BY <1>1, HeldEnter
<1>6. /\ statusBar[n] = "free"
      /\ statusBar' = [statusBar EXCEPT ![n] = "kept"]
      /\ seqBar' = [seqBar EXCEPT ![n] = @ + 1]
      /\ attrBar' = [attrBar EXCEPT ![n] = NewAttr]
  BY <1>1, <1>4, CreatedShows
<1>7. QED
  BY <1>5, <1>6 DEF Promise!Create

\* DeleteHeader is a step of the promise, or a stutter.
LEMMA DeleteHeaderRefines ==
    ASSUME IInv, NEW n \in Files, NEW s \in 1 .. MaxSeq, DeleteHeader(n, s)
    PROVE  Promise!Delete(n)
<1>1. HeaderIs(n, s) /\ UNCHANGED <<accessed, access>>
  BY DEF DeleteHeader
<1>2. heldBar' = heldBar /\ statusBar[n] # "free"
  BY <1>1 DEF heldBar, HeaderIs, statusBar
<1>3. CASE AccessedFile(n, s)
  <2>1. file' = [file EXCEPT ![n].deletePending = TRUE] /\ header' = header
    BY <1>3 DEF DeleteHeader
  <2>2. /\ n \in accessed /\ file'[n].deletePending /\ file'[n].attr = file[n].attr
        /\ \A k \in Files \ {n} : file'[k] = file[k]
    BY <1>3, <2>1 DEF AccessedFile, IInv, TypeOK, File
  <2>3. /\ statusBar' = [statusBar EXCEPT ![n] = statusBar'[n]] /\ statusBar'[n] = "doomed"
        /\ attrBar' = attrBar /\ seqBar' = seqBar
    <3>1. statusBar' = [statusBar EXCEPT ![n] = statusBar'[n]]
      BY <1>1, <2>1, <2>2, BarsElsewhere
    <3>2. statusBar'[n] = "doomed"
      BY <1>1, <2>1, <2>2 DEF statusBar, HeaderIs
    <3>3. attrBar' = attrBar /\ seqBar' = seqBar
      BY <1>1, <2>1, <2>2 DEF attrBar, seqBar
    <3>4. QED
      BY <3>1, <3>2, <3>3
  <2>4. Promise!Holders(n) # {}
    BY <2>2, HeldMeansAccessed
  <2>5. QED
    BY <1>2, <2>3, <2>4 DEF Promise!Delete
<1>4. CASE ~AccessedFile(n, s)
  <2>1. n \notin accessed /\ file' = file
        /\ header' = [header EXCEPT ![n].live = FALSE, ![n].attr = NewAttr]
    BY <1>1, <1>4, NotAccessedNotHeld DEF DeleteHeader, FreeStorage
  <2>2. /\ ~header'[n].live /\ header'[n].attr = NewAttr /\ header'[n].seq = header[n].seq
        /\ \A k \in Files \ {n} : header'[k] = header[k]
    BY <2>1 DEF IInv, TypeOK
  <2>3. statusBar'[n] = "free" /\ attrBar'[n] = NewAttr
    BY <1>1, <2>1, <2>2 DEF statusBar, attrBar
  <2>4. /\ statusBar' = [statusBar EXCEPT ![n] = "free"]
        /\ attrBar' = [attrBar EXCEPT ![n] = NewAttr]
    BY <1>1, <2>1, <2>2, <2>3, BarsElsewhere
  <2>5. seqBar' = seqBar
    BY <2>2 DEF seqBar
  <2>6. Promise!Holders(n) = {}
    BY <2>1, HeldMeansAccessed
  <2>7. QED
    BY <1>2, <2>4, <2>5, <2>6 DEF Promise!Delete, Promise!Free
<1>5. QED
  BY <1>3, <1>4

\* The access that leaves is the file's only one just when the counter that
\* Deaccess reads says nobody is left.
LEMMA LastGoneIsLast ==
    ASSUME IInv, NEW a \in Accessors, Deaccess(a)
    PROVE  LET n == access[a].number
           IN  n \in accessed' <=> Promise!Holders(n) # {Holding(a)}
<1> DEFINE n == access[a].number
<1>1. n \in Files /\ ~access[a].done /\ access' = [access EXCEPT ![a].done = TRUE]
  BY DEF Deaccess, IInv, OpenNamesFile
<1>2. CountsAreExact'
  BY LeaveKeepsCounts
<1>3. n \in accessed' <=> Holders(n)' # {}
  BY <1>1, <1>2 DEF CountsAreExact
<1>4. Holders(n)' = Holders(n) \ {a}
  BY <1>1 DEF Holders, Holds, IInv, TypeOK
<1>5. \A b \in Holders(n) : Holding(b) \in Promise!Holders(n)
  BY DEF Promise!Holders, heldBar, Holding, Holders, Holds
<1>6. \A h \in Promise!Holders(n) : \E b \in Holders(n) : h = Holding(b)
  BY DEF Promise!Holders, heldBar, Holding, Holders, Holds
<1>7. a \in Holders(n)
  BY <1>1 DEF Holders, Holds
<1>8. \A b \in Accessors : b # a => Holding(b) # Holding(a)
  BY DEF Holding
<1> HIDE DEF n
<1>9. Holders(n)' # {} <=> Promise!Holders(n) # {Holding(a)}
  BY <1>4, <1>5, <1>6, <1>7, <1>8 DEF Holders
<1>10. QED
  BY <1>3, <1>9 DEF n

\* Deaccess is a step of the promise, or a stutter.
LEMMA DeaccessRefines ==
    ASSUME IInv, AttrInv, NEW a \in Accessors, Deaccess(a)
    PROVE  Promise!Leave(Holding(a))
<1>1. PICK n \in Files : n = access[a].number
  BY DEF IInv, OpenNamesFile, Deaccess
<1>2. n \in accessed /\ file[n] \in File /\ header[n].live /\ header[n].seq = file[n].seq
  BY <1>1, HeldMeansAccessed DEF Deaccess, Holds, IInv, CountsAreExact, Holders, TypeOK
<1>3. PICK left \in File : /\ left = Recounted(file[n], access[a].mode, -1)
                           /\ left.seq = file[n].seq /\ left.attr = file[n].attr
                           /\ left.deletePending = file[n].deletePending
                           /\ left.armed = file[n].armed
                           /\ left.attributesChanged = file[n].attributesChanged
  BY <1>2, RecountedIsFile
<1>4. /\ StillShared(n, left) \/ LastGone(n, left)
      /\ ~access[a].done /\ access' = [access EXCEPT ![a].done = TRUE]
  BY <1>1, <1>3 DEF Deaccess
<1>5. Holding(a) \in heldBar /\ heldBar' = heldBar \ {Holding(a)} /\ Holding(a).number = n
  BY <1>1, <1>4, HeldLeave DEF Holding
<1>6. n \in accessed' <=> Promise!Holders(n) # {Holding(a)}
  BY <1>1, LastGoneIsLast
<1>7. CASE StillShared(n, left)
  <2>1. file' = [file EXCEPT ![n] = left] /\ header' = header /\ accessed' = accessed
    BY <1>7 DEF StillShared
  <2>2. file'[n] = left /\ \A k \in Files \ {n} : file'[k] = file[k]
    BY <2>1 DEF IInv, TypeOK
  <2>3. \A k \in Files : /\ file'[k].attr = file[k].attr
                          /\ file'[k].deletePending = file[k].deletePending
    BY <1>3, <2>2
  <2>4. UNCHANGED <<statusBar, seqBar, attrBar>>
    BY <2>1, <2>3 DEF statusBar, seqBar, attrBar
  <2>5. Promise!Holders(n) # {Holding(a)}
    BY <1>2, <1>6, <2>1
  <2>6. QED
    BY <1>5, <2>4, <2>5 DEF Promise!Leave
<1>8. CASE LastGone(n, left)
  <2>1. /\ accessed' = accessed \ {n} /\ file' = [file EXCEPT ![n] = NoFile]
        /\ IF left.deletePending THEN FreeStorage(n)
           ELSE IF NeedsWriting(left) THEN WriteHeader(n, left) ELSE UNCHANGED header
    BY <1>8 DEF LastGone
  <2>2. Promise!Holders(n) = {Holding(a)}
    BY <1>6, <2>1
  <2>3. CASE left.deletePending
    <3>1. /\ ~header'[n].live /\ header'[n].attr = NewAttr /\ header'[n].seq = header[n].seq
          /\ \A k \in Files \ {n} : header'[k] = header[k] /\ file'[k] = file[k]
      BY <2>1, <2>3 DEF FreeStorage, IInv, TypeOK
    <3>2. statusBar[n] = "doomed" /\ statusBar'[n] = "free" /\ attrBar'[n] = NewAttr
      BY <1>2, <1>3, <2>1, <2>3, <3>1 DEF statusBar, attrBar
    <3>3. /\ statusBar' = [statusBar EXCEPT ![n] = "free"]
          /\ attrBar' = [attrBar EXCEPT ![n] = NewAttr]
      BY <2>1, <3>1, <3>2, BarsElsewhere
    <3>4. seqBar' = seqBar
      BY <3>1 DEF seqBar
    <3>5. QED
      BY <1>5, <2>2, <3>2, <3>3, <3>4 DEF Promise!Leave, Promise!Free
  <2>4. CASE ~left.deletePending
    <3>1. /\ header'[n].live /\ header'[n].seq = header[n].seq
          /\ header'[n].attr = left.attr
          /\ \A k \in Files \ {n} : header'[k] = header[k] /\ file'[k] = file[k]
      <4>1. left.attr = header[n].attr \/ NeedsWriting(left)
        BY <1>2, <1>3 DEF AttrInv, SoundSlot, NeedsWriting
      <4>2. QED
        BY <1>2, <1>3, <2>1, <2>4, <4>1 DEF WriteHeader, IInv, TypeOK
    <3>2. statusBar[n] = "kept" /\ statusBar'[n] = "kept" /\ attrBar'[n] = attrBar[n]
      BY <1>2, <1>3, <2>1, <2>4, <3>1 DEF statusBar, attrBar
    <3>3. statusBar' = statusBar /\ attrBar' = attrBar
      BY <2>1, <3>1, <3>2 DEF statusBar, attrBar
    <3>4. seqBar' = seqBar
      BY <3>1 DEF seqBar
    <3>5. QED
      BY <1>5, <3>2, <3>3, <3>4 DEF Promise!Leave
  <2>5. QED
    BY <2>3, <2>4
<1>9. QED
  BY <1>4, <1>7, <1>8

\* What an accessor makes of the shared attributes is a change all of them see.
LEMMA ChangeRefines ==
    ASSUME IInv, NEW n \in accessed, NEW f \in File, NEW g,
           file' = [file EXCEPT ![n] = f], f.deletePending = file[n].deletePending,
           g.seq = file[n].seq, WriteHeader(n, g) \/ header' = header,
           UNCHANGED <<accessed, access>>
    PROVE  /\ Promise!Change(n)
           /\ f.attr = file[n].attr => UNCHANGED Promise!vars
<1>1. n \in Files /\ header[n].live /\ header[n].seq = file[n].seq
      /\ Promise!Holders(n) # {}
  BY HeldMeansAccessed DEF IInv, TypeOK
<1>2. /\ header'[n].live /\ header'[n].seq = header[n].seq /\ file'[n] = f
      /\ \A k \in Files \ {n} : header'[k] = header[k] /\ file'[k] = file[k]
  BY <1>1 DEF WriteHeader, IInv, TypeOK
<1>3. statusBar' = statusBar /\ seqBar' = seqBar /\ heldBar' = heldBar
  <2>1. statusBar' = statusBar
    BY <1>1, <1>2 DEF statusBar
  <2>2. seqBar' = seqBar /\ heldBar' = heldBar
    BY <1>2 DEF seqBar, heldBar
  <2>3. QED
    BY <2>1, <2>2
<1>4. f.attr \in Attr /\ attrBar' = [attrBar EXCEPT ![n] = f.attr] /\ attrBar[n] = file[n].attr
  <2>1. attrBar'[n] = f.attr
    BY <1>1, <1>2 DEF attrBar
  <2>2. QED
    BY <1>1, <1>2, <2>1, BarsElsewhere DEF attrBar, File
<1>5. Promise!Change(n)
  BY <1>1, <1>3, <1>4 DEF Promise!Change
<1>6. ASSUME f.attr = file[n].attr PROVE attrBar' = attrBar
  BY <1>1, <1>2, <1>6 DEF attrBar
<1>7. QED
  BY <1>3, <1>5, <1>6 DEF Promise!vars

\* SetEndOfFile is a step of the promise, or a stutter.
LEMMA SetEndOfFileRefines ==
    ASSUME IInv, NEW a \in Accessors, NEW n \in Files, NEW pos \in Positions,
           SetEndOfFile(a, n, pos)
    PROVE  Promise!Change(n)
<1>1. n \in accessed /\ file[n] \in File
  BY HolderHasFile DEF SetEndOfFile
<1>2. PICK f \in File : f = EndedAt(file[n], pos)
  BY <1>1, EndedAtIsFile DEF SameFile
<1>3. f.deletePending = file[n].deletePending
  BY <1>1, <1>2 DEF EndedAt, File
<1>4. file' = [file EXCEPT ![n] = f] /\ UNCHANGED <<header, accessed, access>>
  BY <1>2 DEF SetEndOfFile
<1>5. QED
  BY <1>1, <1>3, <1>4, ChangeRefines

\* WriteAttributes is a step of the promise, or a stutter.
LEMMA WriteAttributesRefines ==
    ASSUME IInv, NEW a \in Accessors, NEW n \in Files, WriteAttributes(a, n)
    PROVE  UNCHANGED Promise!vars
<1>1. n \in accessed /\ file[n] \in File
  BY HolderHasFile DEF WriteAttributes
<1>2. PICK f \in File : f = Saved(file[n])
  BY <1>1, SavedIsFile DEF SameFile
<1>3. f.deletePending = file[n].deletePending /\ f.attr = file[n].attr
  BY <1>1, <1>2 DEF Saved, File
<1>4. file' = [file EXCEPT ![n] = f] /\ WriteHeader(n, file[n]) /\ UNCHANGED <<accessed, access>>
  BY <1>2 DEF WriteAttributes
<1>5. QED
  BY <1>1, <1>3, <1>4, ChangeRefines

\* WriteBlock is a step of the promise, or a stutter.
LEMMA WriteBlockRefines ==
    ASSUME IInv, NEW a \in Accessors, NEW n \in Files, NEW vbn \in 1 .. MaxBlocks,
           WriteBlock(a, n, vbn)
    PROVE  Promise!Change(n)
<1>1. n \in accessed /\ file[n] \in File
  BY HolderHasFile DEF WriteBlock
<1>2. PICK g \in File : g = Extended(file[n], vbn) /\ g.seq = file[n].seq
  BY <1>1, ExtendedIsFile DEF SameFile
<1>3. g.deletePending = file[n].deletePending
  BY <1>1, <1>2 DEF Extended, File
<1>4. PICK f \in File : f = Written(g, vbn)
  BY <1>2, WrittenIsFile DEF SameFile
<1>5. f.deletePending = file[n].deletePending
  BY <1>3, <1>4 DEF Written, File
<1>6. /\ file' = [file EXCEPT ![n] = f] /\ UNCHANGED <<accessed, access>>
      /\ WriteHeader(n, g) \/ header' = header
  BY <1>2, <1>4 DEF WriteBlock
<1>7. QED
  BY <1>1, <1>2, <1>5, <1>6, ChangeRefines

\* Close is a step of the promise, or a stutter.
LEMMA CloseRefines ==
    ASSUME IInv, NEW n \in Files, NEW finalByte \in 0 .. BlockBytes - 1,
           CloseWithFinalByte(n, finalByte)
    PROVE  Promise!Change(n)
<1>1. n \in accessed /\ file[n] \in File
  BY DEF CloseWithFinalByte, IInv, TypeOK
<1>2. PICK f \in File : f = Closed(file[n], finalByte) /\ f.seq = file[n].seq
  BY <1>1, ClosedIsFile DEF SameFile
<1>3. f.deletePending = file[n].deletePending
  BY <1>1, <1>2 DEF Closed, File
<1>4. file' = [file EXCEPT ![n] = f] /\ WriteHeader(n, f) /\ UNCHANGED <<accessed, access>>
  BY <1>2 DEF CloseWithFinalByte
<1>5. QED
  BY <1>1, <1>2, <1>3, <1>4, ChangeRefines

\* Dismount writes what differs, so nothing but the accesses and the marks for
\* delete is lost.
LEMMA DismountRefines ==
    ASSUME IInv, AttrInv, Dismount
    PROVE  Promise!Dismount
<1>1. \A n \in Files : /\ header'[n].live <=> header[n].live
                       /\ header'[n].seq = header[n].seq
                       /\ header'[n].attr = attrBar[n]
  <2> SUFFICES ASSUME NEW n \in Files
               PROVE  /\ header'[n].live <=> header[n].live
                      /\ header'[n].seq = header[n].seq
                      /\ header'[n].attr = attrBar[n]
    OBVIOUS
  <2>1. n \in accessed => /\ header[n].live /\ header[n].seq = file[n].seq
                          /\ file[n].attr = header[n].attr \/ NeedsWriting(file[n])
    BY HeldMeansAccessed DEF AttrInv, SoundSlot
  <2>2. header'[n] = IF n \in accessed /\ NeedsWriting(file[n])
                     THEN [live |-> TRUE, seq |-> file[n].seq, attr |-> file[n].attr]
                     ELSE header[n]
    BY DEF Dismount
  <2>3. CASE n \in accessed /\ NeedsWriting(file[n])
    BY <2>1, <2>2, <2>3 DEF attrBar
  <2>4. CASE ~(n \in accessed /\ NeedsWriting(file[n]))
    BY <2>1, <2>2, <2>4 DEF attrBar
  <2>5. QED
    BY <2>3, <2>4
<1>2. accessed' = {} /\ heldBar' = {}
  BY DEF Dismount, heldBar, Done
<1>3. seqBar' = seqBar /\ attrBar' = attrBar
  <2>1. seqBar' = seqBar
    BY <1>1 DEF seqBar
  <2>2. attrBar' = [n \in Files |-> attrBar[n]]
    BY <1>1, <1>2 DEF attrBar
  <2>3. attrBar = [n \in Files |-> attrBar[n]]
    BY DEF attrBar
  <2>4. QED
    BY <2>1, <2>2, <2>3
<1>4. statusBar' = [n \in Files |-> IF statusBar[n] = "doomed" THEN "kept" ELSE statusBar[n]]
  BY <1>1, <1>2 DEF statusBar
<1>5. QED
  BY <1>2, <1>3, <1>4 DEF Promise!Dismount

-----------------------------------------------------------------------------
(* The theorem.                                                            *)

\* Every step of FileAccess, from a state of IInv and AttrInv, is a step of
\* SharedFile or changes nothing SharedFile speaks of.
LEMMA NextRefines == IInv /\ AttrInv /\ [Next]_vars => [Promise!Next]_(Promise!vars)
<1> SUFFICES ASSUME IInv, AttrInv, [Next]_vars
             PROVE  Promise!Next \/ UNCHANGED Promise!vars
  OBVIOUS
<1>1. ASSUME NEW n \in Files, CreateHeader(n) PROVE Promise!Next
  BY <1>1, CreateHeaderRefines DEF Promise!Next
<1>2. ASSUME NEW n \in Files, NEW s \in 1 .. MaxSeq, DeleteHeader(n, s) PROVE Promise!Next
  BY <1>2, DeleteHeaderRefines DEF Promise!Next
<1>3. ASSUME NEW a \in Accessors, NEW n \in Files, NEW m \in Modes,
             CreateAccessed(a, n, m) \/ \E s \in 1 .. MaxSeq : Access(a, n, s, m)
      PROVE  Promise!Next
  <2>1. m \in SUBSET Flags
    BY ModesAreFlagSets
  <2>2. Promise!Create(n, {[who |-> a, number |-> n, mode |-> m]}) \/ Promise!Join(a, n, m)
    BY <1>3, <2>1, CreateAccessedRefines, AccessRefines
  <2>3. QED
    BY <2>1, <2>2 DEF Promise!Next
<1>4. ASSUME NEW a \in Accessors, Deaccess(a) PROVE Promise!Next
  BY <1>4, DeaccessRefines DEF Promise!Next, Promise!Leave
<1>5. ASSUME NEW a \in Accessors, NEW n \in Files, WriteAttributes(a, n)
      PROVE  UNCHANGED Promise!vars
  BY <1>5, WriteAttributesRefines
<1>6. ASSUME NEW a \in Accessors, NEW n \in Files,
             \/ \E pos \in Positions : SetEndOfFile(a, n, pos)
             \/ \E vbn \in 1 .. MaxBlocks : WriteBlock(a, n, vbn)
      PROVE  Promise!Next
  BY <1>6, SetEndOfFileRefines, WriteBlockRefines DEF Promise!Next
<1>7. ASSUME NEW n \in Files, NEW finalByte \in 0 .. BlockBytes - 1,
             CloseWithFinalByte(n, finalByte)
      PROVE  Promise!Next
  BY <1>7, CloseRefines DEF Promise!Next
<1>8. ASSUME Dismount PROVE Promise!Next
  BY <1>8, DismountRefines DEF Promise!Next
<1>9. ASSUME UNCHANGED vars PROVE UNCHANGED Promise!vars
  BY <1>9 DEF vars, Promise!vars, statusBar, seqBar, attrBar, heldBar
<1>10. ASSUME NEW a \in Accessors, DeaccessAgain(a) PROVE UNCHANGED Promise!vars
  BY <1>9, <1>10 DEF DeaccessAgain
<1>11. QED
  BY <1>1, <1>2, <1>3, <1>4, <1>5, <1>6, <1>7, <1>8, <1>9, <1>10 DEF Next

\* For any number of accessors and files, the counters, the table of accessed
\* files and the header copies keep the promise of SharedFile: one set of
\* attributes that survives whoever leaves in whatever order, and storage
\* freed exactly by the last holder (access.go, delete.go, dismount.go).
THEOREM PromiseKept == Spec => KeepsPromise
<1>1. Init => Promise!Init
  BY InitRefines
<1>2. IInv /\ AttrInv /\ [Next]_vars => [Promise!Next]_(Promise!vars)
  BY NextRefines
<1>3. QED
  BY <1>1, <1>2, AttrInvAlways, PTL DEF Spec, KeepsPromise, Promise!Spec

=============================================================================

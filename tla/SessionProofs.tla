--------------------------- MODULE SessionProofs ---------------------------
(***************************************************************************)
(* Proofs about Session, for any images, drives, slots and clusters.  What *)
(* an image holds and what its one device with bitmaps knows of it are     *)
(* judged together: each part of a command keeps them in the relation      *)
(* Covered (no cluster in use is shown free), and in the relation Exact    *)
(* while nothing unchecked happened to the image.                          *)
(***************************************************************************)
EXTENDS Session, NaturalsInduction, WellFoundedInduction, FiniteSetTheorems, TLAPS

Below == OpToRel(<, Nat)

\* Below is the order of the naturals, as a set of pairs.
LEMMA BelowIsLess == Below = {pair \in Nat \X Nat : pair[1] < pair[2]}
BY DEF OpToRel, Below

\* A set of naturals that is not empty has a least member.
LEMMA LeastNatural ==
    ASSUME NEW T, T \subseteq Nat, T # {}
    PROVE  \E least \in T : \A n \in T : least <= n
<1>1. IsWellFoundedOn(Below, Nat)
  BY NatLessThanWellFounded DEF Below
<1>2. \E x \in T : \A y \in T : ~(<<y, x>> \in Below)
  BY <1>1, WFMin
<1>3. \A x, y \in Nat : y < x => <<y, x>> \in Below
  BY BelowIsLess
<1>4. PICK x \in T : \A y \in T : ~(<<y, x>> \in Below)
  BY <1>2
<1>5. \A y \in T : ~(y < x)
  BY <1>3, <1>4
<1>6. \A y \in T : x <= y
  BY <1>5
<1>7. QED
  BY <1>6

UsedSlots(i, image) == {s \in Slots[i] : image.header[s] # NoFile}
Claims(i, image) == UNION {image.header[s] : s \in UsedSlots(i, image)}

\* No two headers claim a cluster, and none is shown free by a bitmap in use.
Covered(i, image, dev) ==
  /\ \A s, t \in UsedSlots(i, image) : s # t => image.header[s] \intersect image.header[t] = {}
  /\ dev.bm # NoCache => Claims(i, image) \subseteq dev.bm
  /\ ~dev.bmDirty => Claims(i, image) \subseteq image.used

\* The bitmaps say what the headers say: the device's, and the image's own
\* unless they are about to be overwritten.
Exact(i, image, dev) ==
  /\ dev.bm # NoCache => dev.bm = Claims(i, image)
  /\ dev.ib # NoCache => dev.ib = UsedSlots(i, image)
  /\ ~dev.bmDirty => image.used = Claims(i, image)
  /\ ~dev.ibDirty => image.taken = UsedSlots(i, image)

\* A step from (image, dev) to (image2, dev2) keeps both relations.
Follows(i, image, dev, image2, dev2) ==
  /\ Covered(i, image, dev) => Covered(i, image2, dev2)
  /\ Covered(i, image, dev) /\ Exact(i, image, dev) => Exact(i, image2, dev2)

\* Types of an image and its device; only a bitmap that was read can be dirty.
Sound(i, image, dev) ==
  /\ image \in Image(i) /\ dev \in Device(i)
  /\ dev.bmDirty => dev.bm # NoCache
  /\ dev.ibDirty => dev.ib # NoCache

Read(dev) == dev.bm # NoCache /\ dev.ib # NoCache

\* From what the disk holds to image, a header in use stays or is blanked.
HeadersStay(i, image) == \A s \in InUse(i) : image.header[s] \in {disk[i].header[s], NoFile}

-----------------------------------------------------------------------------
(* The parts of a command.                                                 *)

\* Steps that keep the relations can be chained.
LEMMA FollowsTrans ==
  ASSUME NEW i, NEW image, NEW dev, NEW image2, NEW dev2, NEW image3, NEW dev3,
         Follows(i, image, dev, image2, dev2), Follows(i, image2, dev2, image3, dev3)
  PROVE  Follows(i, image, dev, image3, dev3)
BY Zenon DEF Follows

\* Sets are not marks.
LEMMA SetsAreNotMarks ==
  ASSUME NEW i \in Images
  PROVE  /\ \A space \in SUBSET Clusters[i] : space # NoFile /\ space # NoCache
         /\ \A slots \in SUBSET Slots[i] : slots # NoCache
BY MarksAssumption

\* Headers claim clusters of their image.
LEMMA ClaimsAreClusters ==
  ASSUME NEW i \in Images, NEW image \in Image(i)
  PROVE  /\ Claims(i, image) \subseteq Clusters[i] /\ UsedSlots(i, image) \subseteq Slots[i]
         /\ \A s \in UsedSlots(i, image) : /\ image.header[s] \subseteq Clusters[i]
                                           /\ image.header[s] \subseteq Claims(i, image)
<1>1. \A s \in UsedSlots(i, image) : image.header[s] \in SUBSET Clusters[i]
  BY DEF Image, UsedSlots
<1>2. QED
  BY <1>1 DEF Claims, UsedSlots

\* Reading a bitmap that was not read.
LEMMA ReadKeeps ==
  ASSUME NEW i \in Images, NEW dev, Sound(i, disk[i], dev)
  PROVE  /\ Sound(i, disk[i], WithBitmap(dev)) /\ WithBitmap(dev).bm # NoCache
         /\ Follows(i, disk[i], dev, disk[i], WithBitmap(dev))
         /\ WithBitmap(dev).ib = dev.ib /\ WithBitmap(dev).ibDirty = dev.ibDirty
<1> DEFINE e == WithBitmap(dev)
<1>1. dev.image = i /\ dev \in Device(i) /\ disk[i].used \in SUBSET Clusters[i]
  BY DEF Sound, Device, Image
<1>2. /\ e.bm = IF dev.bm = NoCache THEN disk[i].used ELSE dev.bm
      /\ e.ib = dev.ib /\ e.bmDirty = dev.bmDirty /\ e.ibDirty = dev.ibDirty /\ e.image = i
      /\ e \in Device(i)
  BY <1>1 DEF WithBitmap, Device
<1>3. e.bm # NoCache
  BY <1>1, <1>2, SetsAreNotMarks
<1> HIDE DEF e
<1>4. Sound(i, disk[i], e)
  BY <1>2, <1>3 DEF Sound
<1>5. Covered(i, disk[i], dev) => Covered(i, disk[i], e)
  BY <1>2, <1>3 DEF Covered, Sound
<1>6. Exact(i, disk[i], dev) => Exact(i, disk[i], e)
  BY <1>2, <1>3 DEF Exact, Sound
<1>7. QED
  BY <1>2, <1>3, <1>4, <1>5, <1>6 DEF e, Follows

\* Reading both bitmaps.
LEMMA OpenedKeeps ==
  ASSUME NEW i \in Images, NEW dev, Sound(i, disk[i], dev)
  PROVE  /\ Sound(i, disk[i], Opened(dev)) /\ Read(Opened(dev))
         /\ Follows(i, disk[i], dev, disk[i], Opened(dev))
<1> DEFINE b == WithBitmap(dev)
           e == WithIndexBitmap(b)
<1>1. Sound(i, disk[i], b) /\ b.bm # NoCache /\ Follows(i, disk[i], dev, disk[i], b)
  BY ReadKeeps
<1> HIDE DEF b
<1>2. b.image = i /\ b \in Device(i) /\ disk[i].taken \in SUBSET Slots[i]
  BY <1>1 DEF Sound, Device, Image
<1>3. /\ e.ib = IF b.ib = NoCache THEN disk[i].taken ELSE b.ib
      /\ e.bm = b.bm /\ e.bmDirty = b.bmDirty /\ e.ibDirty = b.ibDirty /\ e.image = i
      /\ e \in Device(i)
  BY <1>2 DEF WithIndexBitmap, Device
<1>4. e.ib # NoCache
  BY <1>2, <1>3, SetsAreNotMarks
<1> HIDE DEF e
<1>5. Sound(i, disk[i], e)
  BY <1>1, <1>3, <1>4 DEF Sound
<1>6. Covered(i, disk[i], b) => Covered(i, disk[i], e)
  BY <1>3 DEF Covered
<1>7. Exact(i, disk[i], b) => Exact(i, disk[i], e)
  BY <1>1, <1>3, <1>4 DEF Exact, Sound
<1>8. Follows(i, disk[i], b, disk[i], e)
  BY <1>6, <1>7 DEF Follows
<1>9. Follows(i, disk[i], dev, disk[i], e)
  BY <1>1, <1>8, FollowsTrans
<1>10. QED
  BY <1>1, <1>3, <1>4, <1>5, <1>9 DEF e, b, Opened, Read

\* FindFreeSlot's slot is free in the bitmap and, if the command goes on, blank.
LEMMA FreeSlotIsFree ==
  ASSUME NEW i \in Images, NEW dev, Sound(i, disk[i], dev), ShownFree(dev) # {}
  PROVE  /\ FreeSlot(dev) \in Slots[i] /\ FreeSlot(dev) \notin dev.ib
         /\ \A t \in ShownFree(dev) : FreeSlot(dev) <= t
<1>1. dev.image = i
  BY DEF Sound, Device
<1>2. ShownFree(dev) \subseteq Nat
  BY <1>1, SlotsAssumption DEF ShownFree
<1>3. \E s \in ShownFree(dev) : \A t \in ShownFree(dev) : s <= t
  BY <1>2, LeastNatural
<1>4. FreeSlot(dev) \in ShownFree(dev) /\ \A t \in ShownFree(dev) : FreeSlot(dev) <= t
  BY <1>3 DEF FreeSlot
<1>5. QED
  BY <1>1, <1>4 DEF ShownFree

\* A new header, in a blank slot, over clusters the bitmap shows free.
LEMMA CreatedKeeps ==
  ASSUME NEW i \in Images, NEW dev, Sound(i, disk[i], dev), Read(dev), MayCreate(dev),
         NEW space \in Spaces(dev)
  PROVE  LET image2 == WithHeader(disk[i], FreeSlot(dev), space)
             dev2 == WithFile(dev, space)
         IN  /\ Sound(i, image2, dev2) /\ Read(dev2) /\ HeadersStay(i, image2)
             /\ Follows(i, disk[i], dev, image2, dev2)
<1> DEFINE image == disk[i]
           s == FreeSlot(dev)
           image2 == WithHeader(image, s, space)
           dev2 == WithFile(dev, space)
<1>1. /\ dev.image = i /\ dev \in Device(i) /\ image \in Image(i)
      /\ dev.bm \in SUBSET Clusters[i] /\ dev.ib \in SUBSET Slots[i]
      /\ space \in SUBSET Clusters[i] /\ space \intersect dev.bm = {}
  BY DEF Sound, Device, Read, Spaces
<1>2. s \in Slots[i] /\ s \notin dev.ib /\ image.header[s] = NoFile
  BY <1>1, FreeSlotIsFree DEF MayCreate
<1> HIDE DEF s, image
<1>3. /\ image2.header = [image.header EXCEPT ![s] = space]
      /\ image2.used = image.used /\ image2.taken = image.taken /\ image2 \in Image(i)
  BY <1>1, <1>2 DEF WithHeader, Image
<1>4. /\ dev2.bm = dev.bm \union space /\ dev2.ib = dev.ib \union {s} /\ dev2.ibDirty
      /\ dev2.bmDirty = (dev.bmDirty \/ space # {}) /\ dev2 \in Device(i)
  BY <1>1, <1>2 DEF WithFile, Device, s
<1> HIDE DEF image2, dev2
<1>5. /\ image2.header[s] = space
      /\ \A t \in Slots[i] : t # s => image2.header[t] = image.header[t]
      /\ s \in UsedSlots(i, image2)
  BY <1>1, <1>2, <1>3, SetsAreNotMarks DEF UsedSlots, Image
<1>6. UsedSlots(i, image2) = UsedSlots(i, image) \union {s} /\ s \notin UsedSlots(i, image)
  BY <1>2, <1>5 DEF UsedSlots
<1>7. \A t \in UsedSlots(i, image) : image2.header[t] = image.header[t]
  BY <1>5, <1>6 DEF UsedSlots
<1>8. Claims(i, image2) = Claims(i, image) \union space
  <2>1. Claims(i, image2) \subseteq Claims(i, image) \union space
    BY <1>5, <1>6, <1>7 DEF Claims
  <2>2. Claims(i, image) \union space \subseteq Claims(i, image2)
    BY <1>5, <1>6, <1>7 DEF Claims
  <2>3. QED
    BY <2>1, <2>2
<1>9. /\ dev2.bm # NoCache /\ dev2.ib # NoCache
  BY <1>1, <1>2, <1>4, SetsAreNotMarks
<1>10. Sound(i, image2, dev2) /\ Read(dev2)
  BY <1>3, <1>4, <1>9 DEF Sound, Read
<1>11. ASSUME Covered(i, image, dev) PROVE Covered(i, image2, dev2)
  <2>1. Claims(i, image) \subseteq dev.bm
    BY <1>11 DEF Covered, Read
  <2>2. \A t \in UsedSlots(i, image) : image.header[t] \intersect space = {}
    BY <1>1, <2>1 DEF Claims
  <2>3. \A t, u \in UsedSlots(i, image2) :
          t # u => image2.header[t] \intersect image2.header[u] = {}
    BY <1>5, <1>6, <1>7, <1>11, <2>2 DEF Covered
  <2>4. ~dev2.bmDirty => Claims(i, image2) \subseteq image2.used
    BY <1>3, <1>4, <1>8, <1>11 DEF Covered
  <2>5. QED
    BY <1>4, <1>8, <2>1, <2>3, <2>4 DEF Covered
<1>12. ASSUME Exact(i, image, dev) PROVE Exact(i, image2, dev2)
  <2>1. ~dev2.bmDirty => image2.used = Claims(i, image2)
    BY <1>3, <1>4, <1>8, <1>12 DEF Exact
  <2>2. dev2.bm = Claims(i, image2) /\ dev2.ib = UsedSlots(i, image2)
    BY <1>4, <1>6, <1>8, <1>12 DEF Exact, Read
  <2>3. QED
    BY <1>4, <2>1, <2>2 DEF Exact
<1>13. HeadersStay(i, image2)
  BY <1>2, <1>5 DEF HeadersStay, InUse, image
<1>14. QED
  BY <1>10, <1>11, <1>12, <1>13 DEF Follows, image2, dev2, image, s

\* Headers blanked, and their clusters and slots given back.
LEMMA DeletedKeeps ==
  ASSUME NEW i \in Images, NEW dev, Sound(i, disk[i], dev), Read(dev),
         NEW files \in SUBSET InUse(i)
  PROVE  LET image2 == WithoutHeaders(disk[i], files)
             dev2 == WithoutFiles(dev, files)
         IN  /\ Sound(i, image2, dev2) /\ Read(dev2) /\ HeadersStay(i, image2)
             /\ Follows(i, disk[i], dev, image2, dev2)
<1> DEFINE image == disk[i]
           freed == UNION {image.header[s] : s \in files}
           image2 == WithoutHeaders(image, files)
           dev2 == WithoutFiles(dev, files)
<1>1. /\ dev.image = i /\ dev \in Device(i) /\ image \in Image(i)
      /\ dev.bm \in SUBSET Clusters[i] /\ dev.ib \in SUBSET Slots[i]
      /\ files \subseteq UsedSlots(i, image)
  BY DEF Sound, Device, Read, InUse, UsedSlots
<1>2. /\ dev2.bm = dev.bm \ freed /\ dev2.ib = dev.ib \ files /\ dev2.ibDirty
      /\ dev2.bmDirty = (dev.bmDirty \/ freed # {}) /\ dev2 \in Device(i)
  <2>1. dev2 = [dev EXCEPT !.bm = @ \ freed, !.bmDirty = @ \/ freed # {},
                           !.ib = @ \ files, !.ibDirty = TRUE]
    BY <1>1 DEF WithoutFiles
  <2> HIDE DEF freed, dev2
  <2>2. QED
    BY <1>1, <2>1 DEF Device
<1> HIDE DEF image, freed
<1>3. /\ image2.header = [s \in DOMAIN image.header |-> IF s \in files THEN NoFile ELSE image.header[s]]
      /\ image2.used = image.used /\ image2.taken = image.taken
  BY <1>1 DEF WithoutHeaders, Image
<1>4. DOMAIN image.header = Slots[i] /\ image2 \in Image(i)
  BY <1>1 DEF WithoutHeaders, Image
<1> HIDE DEF image2, dev2
<1>5. UsedSlots(i, image2) = UsedSlots(i, image) \ files
      /\ \A s \in UsedSlots(i, image2) : image2.header[s] = image.header[s]
  BY <1>3, <1>4 DEF UsedSlots
<1>6. Claims(i, image2) \subseteq Claims(i, image)
  BY <1>5 DEF Claims
<1>7. Claims(i, image) \subseteq Claims(i, image2) \union freed
  BY <1>1, <1>5 DEF Claims, freed
<1>8. dev2.bm # NoCache /\ dev2.ib # NoCache
  BY <1>1, <1>2, SetsAreNotMarks
<1>9. Sound(i, image2, dev2) /\ Read(dev2)
  BY <1>2, <1>4, <1>8 DEF Sound, Read
<1>10. ASSUME Covered(i, image, dev)
       PROVE  Claims(i, image2) \intersect freed = {} /\ Covered(i, image2, dev2)
  <2>1. \A s \in files, t \in UsedSlots(i, image2) : image.header[s] \intersect image.header[t] = {}
    BY <1>1, <1>5, <1>10 DEF Covered
  <2>2. Claims(i, image2) \intersect freed = {}
    BY <1>5, <2>1 DEF Claims, freed
  <2>3. \A t, u \in UsedSlots(i, image2) :
          t # u => image2.header[t] \intersect image2.header[u] = {}
    BY <1>5, <1>10 DEF Covered
  <2>4. dev2.bm # NoCache => Claims(i, image2) \subseteq dev2.bm
    BY <1>2, <1>6, <1>10, <2>2 DEF Covered, Read
  <2>5. ~dev2.bmDirty => Claims(i, image2) \subseteq image2.used
    BY <1>2, <1>3, <1>6, <1>10 DEF Covered
  <2>6. QED
    BY <2>2, <2>3, <2>4, <2>5 DEF Covered
<1>11. ASSUME Covered(i, image, dev), Exact(i, image, dev) PROVE Exact(i, image2, dev2)
  <2>1. Claims(i, image2) = Claims(i, image) \ freed
    BY <1>6, <1>7, <1>10, <1>11
  <2>2. dev2.bm = Claims(i, image2) /\ dev2.ib = UsedSlots(i, image2)
    BY <1>2, <1>5, <1>11, <2>1 DEF Exact, Read
  <2>3. ~dev2.bmDirty => image2.used = Claims(i, image2)
    BY <1>2, <1>3, <1>11, <2>1 DEF Exact
  <2>4. QED
    BY <1>2, <2>2, <2>3 DEF Exact
<1>12. HeadersStay(i, image2)
  BY <1>3, <1>4 DEF HeadersStay, InUse, image
<1>13. QED
  BY <1>9, <1>10, <1>11, <1>12 DEF Follows, image2, dev2, image

\* A flush: what is written is the device's, what is lost stays dirty.
LEMMA FlushedKeeps ==
  ASSUME NEW i \in Images, NEW image, NEW dev, Sound(i, image, dev), NEW lost
  PROVE  LET image2 == Flushed(image, dev, lost)
             dev2 == AfterFlush(dev, lost)
         IN  /\ Sound(i, image2, dev2) /\ Follows(i, image, dev, image2, dev2)
             /\ dev2.bm = dev.bm /\ dev2.ib = dev.ib /\ image2.header = image.header
<1> DEFINE image2 == Flushed(image, dev, lost)
           dev2 == AfterFlush(dev, lost)
<1>1. /\ dev2.bm = dev.bm /\ dev2.ib = dev.ib
      /\ dev2.bmDirty = (dev.bmDirty /\ "bm" \in lost)
      /\ dev2.ibDirty = (dev.ibDirty /\ "ib" \in lost)
      /\ dev2 \in Device(i)
  BY DEF AfterFlush, Sound, Device
<1>2. /\ image2.header = image.header
      /\ image2.used = IF dev.bmDirty /\ "bm" \notin lost THEN dev.bm ELSE image.used
      /\ image2.taken = IF dev.ibDirty /\ "ib" \notin lost THEN dev.ib ELSE image.taken
      /\ image2 \in Image(i)
  BY DEF Flushed, Sound, Device, Image
<1> HIDE DEF image2, dev2
<1>3. UsedSlots(i, image2) = UsedSlots(i, image) /\ Claims(i, image2) = Claims(i, image)
  BY <1>2 DEF UsedSlots, Claims
<1>4. Sound(i, image2, dev2)
  BY <1>1, <1>2 DEF Sound
<1>5. Covered(i, image, dev) => Covered(i, image2, dev2)
  BY <1>1, <1>2, <1>3 DEF Covered, Sound
<1>6. Exact(i, image, dev) => Exact(i, image2, dev2)
  BY <1>1, <1>2, <1>3 DEF Exact, Sound
<1>7. QED
  BY <1>1, <1>2, <1>4, <1>5, <1>6 DEF Follows, image2, dev2

\* ANALYZE/REPAIR: what the headers on disk and the bitmap on disk disagree
\* about is set right in the copy.
LEMMA RepairedKeeps ==
  ASSUME NEW i \in Images, NEW dev, Sound(i, disk[i], dev), dev.bm # NoCache
  PROVE  /\ Sound(i, disk[i], Repaired(dev)) /\ Repaired(dev).bm # NoCache
         /\ Follows(i, disk[i], dev, disk[i], Repaired(dev))
<1> DEFINE image == disk[i]
           claimed == Claims(i, image)
           wrong == (image.used \ claimed) \union (claimed \ image.used)
           dev2 == Repaired(dev)
<1>1. /\ dev.image = i /\ dev \in Device(i) /\ image \in Image(i)
      /\ dev.bm \in SUBSET Clusters[i] /\ claimed \in SUBSET Clusters[i]
  BY ClaimsAreClusters DEF Sound, Device
<1>2. Claimed(i) = claimed /\ Wrong(i) = wrong
  BY DEF Claimed, Wrong, Claims, InUse, UsedSlots
<1>3. dev2 = [dev EXCEPT !.bm = (@ \ (wrong \ claimed)) \union (wrong \intersect claimed),
                         !.bmDirty = TRUE]
  BY <1>1, <1>2 DEF Repaired
<1> HIDE DEF claimed, wrong, image, dev2
<1>4. (dev.bm \ (wrong \ claimed)) \union (wrong \intersect claimed) \in SUBSET Clusters[i]
  BY <1>1
<1>5. /\ dev2.bm = (dev.bm \ (wrong \ claimed)) \union (wrong \intersect claimed)
      /\ dev2.ib = dev.ib /\ dev2.bmDirty /\ dev2.ibDirty = dev.ibDirty
      /\ dev2 \in Device(i)
  BY <1>1, <1>3, <1>4 DEF Device
<1>6. dev2.bm # NoCache
  BY <1>4, <1>5, SetsAreNotMarks
<1>7. Sound(i, image, dev2)
  BY <1>1, <1>5, <1>6 DEF Sound
<1>8. ASSUME Covered(i, image, dev) PROVE Covered(i, image, dev2)
  <2>1. claimed \subseteq dev.bm
    BY <1>8 DEF Covered, claimed
  <2>2. claimed \subseteq dev2.bm
    BY <1>5, <2>1
  <2>3. QED
    BY <1>5, <1>8, <2>2 DEF Covered, claimed
<1>9. ASSUME Exact(i, image, dev) PROVE Exact(i, image, dev2)
  <2>1. dev.bm = claimed
    BY <1>9 DEF Exact, claimed
  <2>2. dev2.bm = claimed
    BY <1>5, <2>1
  <2>3. QED
    BY <1>5, <1>9, <2>2 DEF Exact, claimed
<1>10. QED
  BY <1>6, <1>7, <1>8, <1>9 DEF Follows, image, dev2

-----------------------------------------------------------------------------
(* The invariant.                                                          *)

\* The places of image i among the mounted volumes.
At(vols, i) == {p \in Places(vols) : DeviceAt(vols, p).image = i}

HeldOnce(vols, i) ==
  \A p, q \in At(vols, i) : HasCache(DeviceAt(vols, p)) /\ HasCache(DeviceAt(vols, q)) => p = q

\* The devices whose word on image i counts: those that read a bitmap of it and,
\* if none is about to overwrite it, one that will read it next.
Speaks(vols, i, dev) ==
  \/ \E p \in At(vols, i) : dev = DeviceAt(vols, p) /\ HasCache(dev)
  \/ dev = NewDevice(i) /\ \A p \in At(vols, i) : ~IsDirty(DeviceAt(vols, p))

\* What is known of an image that marks happened to, while vols are mounted.
Known(i, vols, image, marks) ==
  /\ "twice" \notin marks => HeldOnce(vols, i)
  /\ marks \subseteq {"emptied"} => \A dev : Speaks(vols, i, dev) => Covered(i, image, dev)
  /\ marks = {} => \A dev : Speaks(vols, i, dev) => Exact(i, image, dev)

ImageInv(i) == Known(i, volumes, disk[i], mishaps[i])

SInv == TypeOK /\ \A i \in Images : ImageInv(i)

\* What every step does.
SafeStep == SInv' /\ \A i \in Images : HeadersStay(i, disk'[i])

\* A disk left alone keeps its headers.
LEMMA SameHeadersStay ==
  ASSUME NEW i, NEW image, image.header = disk[i].header
  PROVE  HeadersStay(i, image)
BY DEF HeadersStay

\* A device that read nothing says no more than the image itself.
LEMMA UnreadSpeaksForImage ==
  ASSUME NEW i, NEW image, NEW dev, NEW dev2, dev2.bm = NoCache, dev2.ib = NoCache
  PROVE  /\ ~dev.bmDirty /\ Covered(i, image, dev) => Covered(i, image, dev2)
         /\ ~dev.bmDirty /\ ~dev.ibDirty /\ Exact(i, image, dev) => Exact(i, image, dev2)
BY DEF Covered, Exact

\* What the type invariant says of the device at a place.
LEMMA PlaceFacts ==
  ASSUME TypeOK, NEW p \in Places(volumes)
  PROVE  /\ p[1] \in Drives /\ p[2] \in 1 .. 2 /\ p = <<p[1], p[2]>>
         /\ volumes[p[1]] \in Volume
         /\ p[2] \in DOMAIN volumes[p[1]].devices
         /\ DeviceAt(volumes, p).image \in Images
         /\ LET i == DeviceAt(volumes, p).image IN
              disk[i] \in Image(i) /\ Sound(i, disk[i], DeviceAt(volumes, p))
<1>1. p[1] \in Drives /\ p[2] \in 1 .. 2 /\ p = <<p[1], p[2]>>
      /\ volumes[p[1]] \in Volume /\ p[2] \in DOMAIN volumes[p[1]].devices
  BY DEF Places, TypeOK
<1>2. DeviceAt(volumes, p) \in Member
  BY <1>1 DEF Volume, DeviceAt
<1>3. PICK i \in Images : DeviceAt(volumes, p) \in Device(i)
  BY <1>2 DEF Member
<1>4. DeviceAt(volumes, p).image = i
  BY <1>3 DEF Device
<1>5. QED
  BY <1>1, <1>3, <1>4 DEF TypeOK, Sound

\* One device replaced: the others, and where they are, stay.
LEMMA BecomesPlaces ==
  ASSUME TypeOK, NEW d \in Drives, NEW n \in 1 .. 2, <<d, n>> \in Places(volumes),
         NEW dev \in Member, volumes' = [volumes EXCEPT ![d].devices[n] = dev]
  PROVE  /\ volumes' \in [Drives -> Volume \union {NoVolume}]
         /\ Places(volumes') = Places(volumes)
         /\ DeviceAt(volumes', <<d, n>>) = dev
         /\ \A q \in Places(volumes) : q # <<d, n>> => DeviceAt(volumes', q) = DeviceAt(volumes, q)
         /\ \A e \in Drives : volumes[e] # NoVolume => volumes'[e].writable = volumes[e].writable
<1>1. volumes[d] \in Volume /\ n \in DOMAIN volumes[d].devices
  BY PlaceFacts
<1>2. volumes'[d] = [volumes[d] EXCEPT !.devices[n] = dev]
      /\ \A e \in Drives : e # d => volumes'[e] = volumes[e]
  BY DEF TypeOK
<1>3. /\ volumes'[d] \in Volume
      /\ volumes'[d].devices = [volumes[d].devices EXCEPT ![n] = dev]
      /\ volumes'[d].writable = volumes[d].writable
  BY <1>1, <1>2 DEF Volume
<1>4. volumes' \in [Drives -> Volume \union {NoVolume}]
  BY <1>3 DEF TypeOK
<1>5. volumes'[d] # NoVolume /\ volumes[d] # NoVolume
  BY <1>1, <1>3, MarksAssumption
<1>6. DOMAIN volumes'[d].devices = DOMAIN volumes[d].devices
      /\ volumes'[d].devices[n] = dev
      /\ \A k \in DOMAIN volumes[d].devices : k # n => volumes'[d].devices[k] = volumes[d].devices[k]
  BY <1>1, <1>3 DEF Volume
<1>7. Places(volumes') = Places(volumes)
  BY <1>2, <1>5, <1>6 DEF Places
<1>8. ASSUME NEW q \in Places(volumes), q # <<d, n>>
      PROVE  DeviceAt(volumes', q) = DeviceAt(volumes, q)
  <2>1. q[1] \in Drives /\ q = <<q[1], q[2]>> /\ q[2] \in DOMAIN volumes[q[1]].devices
    BY PlaceFacts
  <2>2. CASE q[1] # d
    BY <1>2, <2>1, <2>2 DEF DeviceAt
  <2>3. CASE q[1] = d /\ q[2] # n
    BY <1>6, <2>1, <2>3 DEF DeviceAt
  <2>4. QED
    BY <1>8, <2>1, <2>2, <2>3
<1>9. QED
  BY <1>2, <1>3, <1>4, <1>6, <1>7, <1>8 DEF DeviceAt

\* The image and its one device with bitmaps go from (image, old) to (image2, dev).
LEMMA KnownFollows ==
  ASSUME NEW i, NEW vols, NEW image, NEW marks, Known(i, vols, image, marks),
         NEW vols2, NEW image2, NEW marks2, marks \subseteq marks2,
         NEW old, NEW dev, Follows(i, image, old, image2, dev),
         "twice" \notin marks2 =>
           /\ HeldOnce(vols2, i)
           /\ Speaks(vols, i, old)
           /\ \A x : Speaks(vols2, i, x) => x = dev \/ (x = NewDevice(i) /\ ~IsDirty(dev))
  PROVE  Known(i, vols2, image2, marks2)
<1>1. NewDevice(i).bm = NoCache /\ NewDevice(i).ib = NoCache
  BY DEF NewDevice
<1>2. ASSUME marks2 \subseteq {"emptied"}
      PROVE  Covered(i, image, old) /\ Covered(i, image2, dev)
  <2>1. Speaks(vols, i, old) /\ marks \subseteq {"emptied"}
    BY <1>2
  <2>2. Covered(i, image, old)
    BY <2>1 DEF Known
  <2>3. QED
    BY <2>2 DEF Follows
<1>3. ASSUME marks2 \subseteq {"emptied"}, NEW x, Speaks(vols2, i, x)
      PROVE  Covered(i, image2, x)
  <2>1. x = dev \/ (x = NewDevice(i) /\ ~IsDirty(dev))
    BY <1>3
  <2>2. QED
    BY <1>1, <1>2, <1>3, <2>1, UnreadSpeaksForImage DEF IsDirty
<1>4. ASSUME marks2 = {}, NEW x, Speaks(vols2, i, x)
      PROVE  Exact(i, image2, x)
  <2>1. x = dev \/ (x = NewDevice(i) /\ ~IsDirty(dev))
    BY <1>4
  <2>2. Speaks(vols, i, old) /\ marks = {} /\ Covered(i, image, old)
    BY <1>2, <1>4
  <2>3. Exact(i, image, old)
    BY <2>2 DEF Known
  <2>4. Exact(i, image2, dev)
    BY <2>2, <2>3 DEF Follows
  <2>5. QED
    BY <1>1, <2>1, <2>4, UnreadSpeaksForImage DEF IsDirty
<1>5. QED
  BY <1>3, <1>4 DEF Known

\* Nothing new is said of an image that stays what it is.
LEMMA KnownStays ==
  ASSUME NEW i, NEW vols, NEW image, NEW marks, Known(i, vols, image, marks),
         NEW vols2, NEW marks2, marks \subseteq marks2,
         "twice" \notin marks2 => HeldOnce(vols2, i),
         marks2 \subseteq {"emptied"} => \A x : Speaks(vols2, i, x) => Speaks(vols, i, x)
  PROVE  Known(i, vols2, image, marks2)
<1>1. marks2 = {} => marks = {} /\ marks2 \subseteq {"emptied"}
  OBVIOUS
<1>2. marks2 \subseteq {"emptied"} => marks \subseteq {"emptied"}
  OBVIOUS
<1>3. QED
  BY <1>1, <1>2 DEF Known

\* The images of which two devices hold bitmaps, said as HeldOnce says it.
LEMMA NotHeldTwice ==
  ASSUME NEW vols, NEW i \in Images, i \notin HeldTwice(vols)
  PROVE  HeldOnce(vols, i)
BY DEF HeldTwice, HeldOnce, At

\* The observer's part keeps its type and what happened before.
LEMMA NoteKeeps ==
  ASSUME TypeOK, NEW what \in {"twice", "dropped", "emptied"}, NEW images, Note(what, images)
  PROVE  /\ mishaps' \in [Images -> SUBSET {"twice", "dropped", "emptied"}]
         /\ \A i \in Images : /\ mishaps[i] \subseteq mishaps'[i]
                              /\ i \in images => what \in mishaps'[i]
BY DEF Note, TypeOK

\* At most two bitmap writes fail in a flush of one device.
LEMMA FailedCount ==
  ASSUME TypeOK, NEW failed \in SUBSET {"bm", "ib"},
         failures + Cardinality(failed) <= MaxFailures
  PROVE  failures + Cardinality(failed) \in 0 .. MaxFailures
<1>1. IsFiniteSet({"bm", "ib"})
  <2>1. IsFiniteSet({"bm"})
    BY FS_Singleton
  <2>2. IsFiniteSet({"bm"} \union {"ib"})
    BY <2>1, FS_AddElement
  <2>3. {"bm"} \union {"ib"} = {"bm", "ib"}
    OBVIOUS
  <2>4. QED
    BY <2>2, <2>3
<1>2. Cardinality(failed) \in Nat
  BY <1>1, FS_Subset, FS_CardinalityType
<1>3. QED
  BY <1>2, BoundsAssumption DEF TypeOK

-----------------------------------------------------------------------------
(* A command that changes one device and its image.                        *)

\* What Becomes does keeps the invariant, if the new device and image follow
\* from the old ones and the device has read a bitmap.
LEMMA BecomesIsSafe ==
  ASSUME SInv, NEW d \in Drives, NEW n \in 1 .. 2, <<d, n>> \in Places(volumes),
         NEW i \in Images, DeviceAt(volumes, <<d, n>>).image = i,
         NEW dev, NEW image, Sound(i, image, dev), HasCache(dev),
         Follows(i, disk[i], DeviceAt(volumes, <<d, n>>), image, dev), HeadersStay(i, image),
         volumes[d].writable,
         NEW failed \in SUBSET {"bm", "ib"}, failures + Cardinality(failed) <= MaxFailures,
         Counted, Becomes(d, n, dev, image, failed)
  PROVE  SafeStep
<1> DEFINE p == <<d, n>>
           old == DeviceAt(volumes, p)
<1>1. TypeOK /\ dev.image = i /\ dev \in Device(i) /\ image \in Image(i) /\ dev \in Member
  BY DEF SInv, Sound, Device, Member
<1>2. /\ volumes' = [volumes EXCEPT ![d].devices[n] = dev]
      /\ disk' = [disk EXCEPT ![i] = image]
      /\ failures' \in 0 .. MaxFailures /\ default' = default
      /\ Note("twice", HeldTwice(volumes'))
  BY <1>1, FailedCount DEF Becomes
<1>3. /\ volumes' \in [Drives -> Volume \union {NoVolume}]
      /\ Places(volumes') = Places(volumes)
      /\ DeviceAt(volumes', p) = dev
      /\ \A q \in Places(volumes) : q # p => DeviceAt(volumes', q) = DeviceAt(volumes, q)
      /\ \A e \in Drives : volumes[e] # NoVolume => volumes'[e].writable = volumes[e].writable
  BY <1>1, <1>2, BecomesPlaces
<1>4. /\ mishaps' \in [Images -> SUBSET {"twice", "dropped", "emptied"}]
      /\ \A j \in Images : /\ mishaps[j] \subseteq mishaps'[j]
                           /\ "twice" \notin mishaps'[j] => HeldOnce(volumes', j)
  BY <1>1, <1>2, NoteKeeps, NotHeldTwice
<1>5. /\ disk'[i] = image /\ \A j \in Images : j # i => disk'[j] = disk[j]
      /\ DOMAIN disk' = Images /\ \A j \in Images : disk'[j] \in Image(j)
  BY <1>1, <1>2 DEF TypeOK
<1>6. TypeOK'
  <2>1. commands' \in 0 .. MaxCommands
    BY <1>1, BoundsAssumption DEF Counted, TypeOK
  <2>2. ASSUME NEW q \in Places(volumes')
        PROVE  LET e == DeviceAt(volumes', q) IN
               /\ Rvn[e.image] = q[2] \/ (q[2] = 1 /\ Rvn[e.image] = 0)
               /\ e.bmDirty => e.bm # NoCache
               /\ e.ibDirty => e.ib # NoCache
               /\ HasCache(e) => volumes'[q[1]].writable
    <3>1. CASE q = p
      <4>1. Rvn[i] = p[2] \/ (p[2] = 1 /\ Rvn[i] = 0)
        BY <1>1 DEF TypeOK
      <4>2. volumes'[p[1]].writable
        BY <1>3 DEF Places
      <4>3. QED
        BY <1>1, <1>3, <3>1, <4>1, <4>2 DEF Sound
    <3>2. CASE q # p
      <4>1. q \in Places(volumes) /\ DeviceAt(volumes', q) = DeviceAt(volumes, q)
        BY <1>3, <3>2
      <4>2. volumes'[q[1]].writable = volumes[q[1]].writable
        BY <1>1, <1>3, <4>1 DEF Places
      <4>3. QED
        BY <1>1, <4>1, <4>2 DEF TypeOK
    <3>3. QED
      BY <3>1, <3>2
  <2>3. QED
    BY <1>1, <1>2, <1>3, <1>4, <1>5, <2>1, <2>2 DEF TypeOK
<1>7. Known(i, volumes', disk'[i], mishaps'[i])
  <2>1. ASSUME "twice" \notin mishaps'[i]
        PROVE  /\ HeldOnce(volumes', i)
               /\ Speaks(volumes, i, old)
               /\ \A x : Speaks(volumes', i, x) => x = dev \/ (x = NewDevice(i) /\ ~IsDirty(dev))
    <3>1. HeldOnce(volumes', i) /\ p \in At(volumes', i) /\ p \in At(volumes, i)
      BY <1>1, <1>3, <1>4, <2>1 DEF At
    <3>2. \A q \in At(volumes', i) : HasCache(DeviceAt(volumes', q)) => q = p
      BY <1>3, <3>1 DEF HeldOnce
    <3>3. \A q \in At(volumes, i) : q # p =>
             q \in At(volumes', i) /\ DeviceAt(volumes', q) = DeviceAt(volumes, q)
      BY <1>3 DEF At
    <3>4. \A q \in At(volumes, i) : q # p => ~IsDirty(DeviceAt(volumes, q))
      BY <1>1, <3>2, <3>3 DEF At, TypeOK, IsDirty, HasCache
    <3>5. Speaks(volumes, i, old)
      <4>1. CASE HasCache(old)
        BY <3>1, <4>1 DEF Speaks
      <4>2. CASE ~HasCache(old)
        <5>1. Sound(i, disk[i], old)
          BY <1>1, PlaceFacts
        <5>2. old.bm = NoCache /\ old.ib = NoCache /\ ~IsDirty(old)
          BY <4>2, <5>1 DEF HasCache, IsDirty, Sound
        <5>3. old = NewDevice(i)
          BY <5>1, <5>2 DEF Sound, Device, NewDevice, IsDirty
        <5>4. QED
          BY <3>4, <5>2, <5>3 DEF Speaks
      <4>3. QED
        BY <4>1, <4>2
    <3>6. ASSUME NEW x, Speaks(volumes', i, x)
          PROVE  x = dev \/ (x = NewDevice(i) /\ ~IsDirty(dev))
      BY <1>3, <3>1, <3>2, <3>6 DEF Speaks
    <3>7. QED
      BY <3>1, <3>5, <3>6
  <2>2. Known(i, volumes, disk[i], mishaps[i]) /\ mishaps[i] \subseteq mishaps'[i]
    BY <1>4 DEF SInv, ImageInv
  <2>3. QED
    BY <1>5, <2>1, <2>2, KnownFollows
<1>8. ASSUME NEW j \in Images, j # i PROVE Known(j, volumes', disk'[j], mishaps'[j])
  <2>1. /\ At(volumes', j) = At(volumes, j)
        /\ \A q \in At(volumes, j) : DeviceAt(volumes', q) = DeviceAt(volumes, q)
    BY <1>1, <1>3, <1>8 DEF At
  <2>2. \A x : Speaks(volumes', j, x) => Speaks(volumes, j, x)
    BY <2>1 DEF Speaks
  <2>3. Known(j, volumes, disk[j], mishaps[j]) /\ mishaps[j] \subseteq mishaps'[j]
    BY <1>4 DEF SInv, ImageInv
  <2>4. QED
    BY <1>4, <1>5, <1>8, <2>2, <2>3, KnownStays
<1>9. \A j \in Images : ImageInv(j)'
  BY <1>7, <1>8 DEF ImageInv
<1>10. \A j \in Images : HeadersStay(j, disk'[j])
  BY <1>5, SameHeadersStay
<1>11. QED
  BY <1>6, <1>9, <1>10 DEF SInv, SafeStep

\* The device a command writes, its image, and the device once it was read.
LEMMA MayWriteFacts ==
  ASSUME SInv, NEW d \in Drives, NEW n \in 1 .. 2, MayWrite(d, n)
  PROVE  LET old == DeviceAt(volumes, <<d, n>>)
             i == old.image
         IN  /\ <<d, n>> \in Places(volumes) /\ volumes[d].writable
             /\ i \in Images /\ Sound(i, disk[i], old)
             /\ Sound(i, disk[i], Opened(old)) /\ Read(Opened(old)) /\ Opened(old).image = i
             /\ Follows(i, disk[i], old, disk[i], Opened(old))
<1> DEFINE old == DeviceAt(volumes, <<d, n>>)
<1>1. <<d, n>> \in Places(volumes) /\ volumes[d].writable /\ TypeOK
  BY DEF MayWrite, SInv
<1>2. old.image \in Images /\ Sound(old.image, disk[old.image], old)
  BY <1>1, PlaceFacts
<1>3. /\ Sound(old.image, disk[old.image], Opened(old)) /\ Read(Opened(old))
      /\ Follows(old.image, disk[old.image], old, disk[old.image], Opened(old))
  BY <1>2, OpenedKeeps
<1>4. Opened(old).image = old.image
  BY <1>3 DEF Sound, Device
<1>5. QED
  BY <1>1, <1>2, <1>3, <1>4

\* The bitmap writes that fail are among two, and counted.
LEMMA FailingFacts ==
  ASSUME NEW dev, NEW lost \in Failing(dev)
  PROVE  lost \in SUBSET {"bm", "ib"} /\ failures + Cardinality(lost) <= MaxFailures
BY DEF Failing

\* A command that ends with its flushes, in whichever order and with whatever loss.
LEMMA FlushIsSafe ==
  ASSUME SInv, NEW d \in Drives, MayWrite(d, 1), Counted,
         NEW i \in Images, DeviceAt(volumes, <<d, 1>>).image = i,
         NEW dev, NEW image, Sound(i, image, dev), HasCache(dev),
         Follows(i, disk[i], DeviceAt(volumes, <<d, 1>>), image, dev), HeadersStay(i, image),
         NEW lost, NEW failed \in SUBSET {"bm", "ib"},
         failures + Cardinality(failed) <= MaxFailures,
         Becomes(d, 1, AfterFlush(dev, lost), Flushed(image, dev, lost), failed)
  PROVE  SafeStep
<1> DEFINE old == DeviceAt(volumes, <<d, 1>>)
           dev2 == AfterFlush(dev, lost)
           image2 == Flushed(image, dev, lost)
<1>1. /\ Sound(i, image2, dev2) /\ Follows(i, image, dev, image2, dev2)
      /\ dev2.bm = dev.bm /\ dev2.ib = dev.ib /\ HeadersStay(i, image2)
  BY FlushedKeeps DEF HeadersStay
<1>2. HasCache(dev2)
  BY <1>1 DEF HasCache
<1> HIDE DEF dev2, image2
<1>3. Follows(i, disk[i], old, image2, dev2)
  BY <1>1, FollowsTrans
<1>4. <<d, 1>> \in Places(volumes) /\ volumes[d].writable /\ 1 \in 1 .. 2
  BY DEF MayWrite
<1>5. Becomes(d, 1, dev2, image2, failed)
  BY DEF dev2, image2
<1>6. QED
  BY <1>1, <1>2, <1>3, <1>4, <1>5, BecomesIsSafe

\* The flushes of CREATE: the index-file bitmap is not written if the first fails.
LEMMA FlushedInOrderIsSafe ==
  ASSUME SInv, NEW d \in Drives, MayWrite(d, 1), Counted,
         NEW i \in Images, DeviceAt(volumes, <<d, 1>>).image = i,
         NEW dev, NEW image, Sound(i, image, dev), HasCache(dev),
         Follows(i, disk[i], DeviceAt(volumes, <<d, 1>>), image, dev), HeadersStay(i, image),
         FlushedInOrder(d, dev, image)
  PROVE  SafeStep
<1>1. PICK lost \in Failing(dev) \ {{"bm", "ib"}} :
         LET unwritten == IF "bm" \in lost THEN {"bm", "ib"} ELSE lost IN
         Becomes(d, 1, AfterFlush(dev, unwritten), Flushed(image, dev, unwritten), lost)
  BY DEF FlushedInOrder
<1>2. lost \in SUBSET {"bm", "ib"} /\ failures + Cardinality(lost) <= MaxFailures
  BY FailingFacts
<1>3. QED
  BY <1>1, <1>2, FlushIsSafe

\* CreateDirectory is safe.
LEMMA CreateDirectoryIsSafe ==
  ASSUME SInv, NEW d \in Drives, CreateDirectory(d)
  PROVE  SafeStep
<1> DEFINE old == DeviceAt(volumes, <<d, 1>>)
           i == old.image
           dev == Opened(old)
<1>1. MayWrite(d, 1) /\ Counted /\ MayCreate(dev)
  BY DEF CreateDirectory
<1>2. PICK space \in Spaces(dev) :
         FlushedInOrder(d, WithFile(dev, space), WithHeader(disk[dev.image], FreeSlot(dev), space))
  BY DEF CreateDirectory
<1>3. /\ i \in Images /\ Sound(i, disk[i], dev) /\ Read(dev) /\ dev.image = i
      /\ Follows(i, disk[i], old, disk[i], dev)
  BY <1>1, MayWriteFacts, 1 \in 1 .. 2
<1> HIDE DEF dev, i
<1> DEFINE dev2 == WithFile(dev, space)
           image2 == WithHeader(disk[i], FreeSlot(dev), space)
<1>4. /\ Sound(i, image2, dev2) /\ Read(dev2) /\ HeadersStay(i, image2)
      /\ Follows(i, disk[i], dev, image2, dev2)
  BY <1>1, <1>3, CreatedKeeps
<1>5. FlushedInOrder(d, dev2, image2)
  BY <1>2, <1>3
<1> HIDE DEF dev2, image2
<1>6. Follows(i, disk[i], old, image2, dev2) /\ HasCache(dev2)
  BY <1>3, <1>4, FollowsTrans DEF Read, HasCache
<1>7. QED
  BY <1>1, <1>3, <1>4, <1>5, <1>6, FlushedInOrderIsSafe DEF i

\* CREATE/DIRECTORY that is refused is safe.
LEMMA CreateRefusedIsSafe ==
  ASSUME SInv, NEW d \in Drives, CreateRefused(d)
  PROVE  SafeStep
<1> DEFINE old == DeviceAt(volumes, <<d, 1>>)
           i == old.image
           dev == Opened(old)
<1>1. MayWrite(d, 1) /\ Counted /\ FlushedInOrder(d, dev, disk[dev.image])
  BY DEF CreateRefused
<1>2. /\ i \in Images /\ Sound(i, disk[i], dev) /\ HasCache(dev) /\ dev.image = i
      /\ Follows(i, disk[i], old, disk[i], dev)
  BY <1>1, MayWriteFacts, 1 \in 1 .. 2 DEF Read, HasCache
<1> HIDE DEF dev
<1>3. QED
  BY <1>1, <1>2, SameHeadersStay, FlushedInOrderIsSafe

\* Copy is safe.
LEMMA CopyIsSafe ==
  ASSUME SInv, NEW d \in Drives, NEW n \in 1 .. 2, Copy(d, n)
  PROVE  SafeStep
<1> DEFINE old == DeviceAt(volumes, <<d, n>>)
           i == old.image
           dev == Opened(old)
<1>1. MayWrite(d, n) /\ Counted /\ MayCreate(dev)
  BY DEF Copy
<1>2. PICK space \in Spaces(dev) :
         Becomes(d, n, WithFile(dev, space), WithHeader(disk[dev.image], FreeSlot(dev), space), {})
  BY DEF Copy
<1>3. /\ i \in Images /\ Sound(i, disk[i], dev) /\ Read(dev) /\ dev.image = i
      /\ Follows(i, disk[i], old, disk[i], dev)
      /\ <<d, n>> \in Places(volumes) /\ volumes[d].writable
  BY <1>1, MayWriteFacts
<1> HIDE DEF dev, i
<1> DEFINE dev2 == WithFile(dev, space)
           image2 == WithHeader(disk[i], FreeSlot(dev), space)
<1>4. /\ Sound(i, image2, dev2) /\ Read(dev2) /\ HeadersStay(i, image2)
      /\ Follows(i, disk[i], dev, image2, dev2)
  BY <1>1, <1>3, CreatedKeeps
<1>5. Becomes(d, n, dev2, image2, {})
  BY <1>2, <1>3
<1> HIDE DEF dev2, image2
<1>6. Follows(i, disk[i], old, image2, dev2) /\ HasCache(dev2)
  BY <1>3, <1>4, FollowsTrans DEF Read, HasCache
<1>7. failures + Cardinality({}) <= MaxFailures
  BY FS_EmptySet DEF SInv, TypeOK
<1>8. QED
  BY <1>1, <1>3, <1>4, <1>5, <1>6, <1>7, BecomesIsSafe DEF i

\* COPY that is refused is safe.
LEMMA CopyRefusedIsSafe ==
  ASSUME SInv, NEW d \in Drives, NEW n \in 1 .. 2, CopyRefused(d, n)
  PROVE  SafeStep
<1> DEFINE old == DeviceAt(volumes, <<d, n>>)
           i == old.image
           dev == Opened(old)
<1>1. MayWrite(d, n) /\ Counted /\ Becomes(d, n, dev, disk[dev.image], {})
  BY DEF CopyRefused
<1>2. /\ i \in Images /\ Sound(i, disk[i], dev) /\ HasCache(dev) /\ dev.image = i
      /\ Follows(i, disk[i], old, disk[i], dev)
      /\ <<d, n>> \in Places(volumes) /\ volumes[d].writable
  BY <1>1, MayWriteFacts DEF Read, HasCache
<1>3. failures + Cardinality({}) <= MaxFailures
  BY FS_EmptySet DEF SInv, TypeOK
<1> HIDE DEF dev
<1>4. QED
  BY <1>1, <1>2, <1>3, SameHeadersStay, BecomesIsSafe

\* Delete is safe.
LEMMA DeleteIsSafe ==
  ASSUME SInv, NEW d \in Drives, NEW files \in FileSets(d), Delete(d, files)
  PROVE  SafeStep
<1> DEFINE old == DeviceAt(volumes, <<d, 1>>)
           i == old.image
           dev == Opened(old)
<1>1. MayWrite(d, 1) /\ Counted
  BY DEF Delete
<1>2. /\ i \in Images /\ Sound(i, disk[i], dev) /\ Read(dev) /\ dev.image = i
      /\ Follows(i, disk[i], old, disk[i], dev)
  BY <1>1, MayWriteFacts, 1 \in 1 .. 2
<1>3. files \in SUBSET InUse(i)
  BY DEF FileSets
<1> DEFINE dev2 == WithoutFiles(dev, files)
           image2 == WithoutHeaders(disk[i], files)
<1>4. PICK lost \in Failing(dev2) :
         Becomes(d, 1, AfterFlush(dev2, lost), Flushed(WithoutHeaders(disk[dev2.image], files), dev2, lost), lost)
  BY DEF Delete
<1>5. /\ Sound(i, image2, dev2) /\ Read(dev2) /\ HeadersStay(i, image2)
      /\ Follows(i, disk[i], dev, image2, dev2)
  BY <1>2, <1>3, DeletedKeeps
<1> HIDE DEF dev, i
<1>6. dev2.image = i /\ HasCache(dev2)
  BY <1>5 DEF Sound, Device, Read, HasCache
<1> HIDE DEF dev2
<1>7. Becomes(d, 1, AfterFlush(dev2, lost), Flushed(image2, dev2, lost), lost)
  BY <1>4, <1>6
<1> HIDE DEF image2
<1>8. Follows(i, disk[i], old, image2, dev2)
  BY <1>2, <1>5, FollowsTrans
<1>9. lost \in SUBSET {"bm", "ib"} /\ failures + Cardinality(lost) <= MaxFailures
  BY FailingFacts
<1>10. QED
  BY <1>1, <1>2, <1>5, <1>6, <1>7, <1>8, <1>9, FlushIsSafe DEF i

\* AnalyzeRepair is safe.
LEMMA AnalyzeRepairIsSafe ==
  ASSUME SInv, NEW d \in Drives, AnalyzeRepair(d)
  PROVE  SafeStep
<1> DEFINE old == DeviceAt(volumes, <<d, 1>>)
           i == old.image
           dev == WithBitmap(old)
           dev2 == Repaired(dev)
<1>1. MayWrite(d, 1) /\ Counted
  BY DEF AnalyzeRepair
<1>2. i \in Images /\ Sound(i, disk[i], old)
  BY <1>1, MayWriteFacts, 1 \in 1 .. 2
<1>3. Sound(i, disk[i], dev) /\ dev.bm # NoCache /\ Follows(i, disk[i], old, disk[i], dev)
  BY <1>2, ReadKeeps
<1>4. PICK lost \in Failing([dev2 EXCEPT !.ibDirty = FALSE]) :
         Becomes(d, 1, AfterFlush(dev2, lost \union {"ib"}),
                 Flushed(disk[dev2.image], dev2, lost \union {"ib"}), lost)
  BY DEF AnalyzeRepair
<1> HIDE DEF i, dev
<1>5. Sound(i, disk[i], dev2) /\ dev2.bm # NoCache /\ Follows(i, disk[i], dev, disk[i], dev2)
  BY <1>2, <1>3, RepairedKeeps
<1> HIDE DEF dev2
<1>6. dev2.image = i /\ HasCache(dev2)
  BY <1>5 DEF Sound, Device, HasCache
<1>7. Becomes(d, 1, AfterFlush(dev2, lost \union {"ib"}),
              Flushed(disk[i], dev2, lost \union {"ib"}), lost)
  BY <1>4, <1>6
<1>8. Follows(i, disk[i], old, disk[i], dev2)
  BY <1>3, <1>5, FollowsTrans
<1>9. lost \in SUBSET {"bm", "ib"} /\ failures + Cardinality(lost) <= MaxFailures
  BY FailingFacts
<1>10. QED
  BY <1>1, <1>2, <1>5, <1>6, <1>7, <1>8, <1>9, SameHeadersStay, FlushIsSafe DEF i

-----------------------------------------------------------------------------
(* Commands that change what is mounted, or an image nobody asked about.   *)

\* What a volume loses or gains without a bitmap changes nobody's word.
LEMMA LostPlaces ==
  ASSUME TypeOK, NEW vols2, NEW drives, NEW i \in Images,
         \A q \in Places(vols2) :
            \/ q \in Places(volumes) /\ DeviceAt(vols2, q) = DeviceAt(volumes, q)
            \/ ~HasCache(DeviceAt(vols2, q)),
         \A q \in Places(volumes) :
            q[1] \in drives \/ (q \in Places(vols2) /\ DeviceAt(vols2, q) = DeviceAt(volumes, q))
  PROVE  /\ HeldOnce(volumes, i) => HeldOnce(vols2, i)
         /\ i \notin Dropped(drives) => \A x : Speaks(vols2, i, x) => Speaks(volumes, i, x)
<1>1. \A q \in At(vols2, i) : HasCache(DeviceAt(vols2, q)) =>
         q \in At(volumes, i) /\ DeviceAt(vols2, q) = DeviceAt(volumes, q)
  BY DEF At
<1>2. HeldOnce(volumes, i) => HeldOnce(vols2, i)
  BY <1>1 DEF HeldOnce
<1>3. ASSUME i \notin Dropped(drives), NEW x, Speaks(vols2, i, x) PROVE Speaks(volumes, i, x)
  <2>1. CASE \E q \in At(vols2, i) : x = DeviceAt(vols2, q) /\ HasCache(x)
    BY <1>1, <2>1 DEF Speaks
  <2>2. CASE x = NewDevice(i) /\ \A q \in At(vols2, i) : ~IsDirty(DeviceAt(vols2, q))
    <3>1. ASSUME NEW q \in At(volumes, i) PROVE ~IsDirty(DeviceAt(volumes, q))
      <4>1. CASE q[1] \in drives
        BY <1>3, <3>1, <4>1 DEF Dropped, At
      <4>2. CASE q[1] \notin drives
        BY <2>2, <3>1, <4>2 DEF At
      <4>3. QED
        BY <4>1, <4>2
    <3>2. QED
      BY <2>2, <3>1 DEF Speaks
  <2>3. QED
    BY <1>3, <2>1, <2>2 DEF Speaks
<1>4. QED
  BY <1>2, <1>3

\* One image or two, in a sequence.
LEMMA SetFacts ==
  ASSUME NEW set \in Sets
  PROVE  set \in [1 .. 1 -> Images] \/ set \in [1 .. 2 -> Images]
BY DEF Sets

\* Mount is safe.
LEMMA MountIsSafe ==
  ASSUME SInv, NEW d \in Drives, NEW set \in Sets, NEW writable \in BOOLEAN, Mount(d, set, writable)
  PROVE  SafeStep
<1> DEFINE new == [devices |-> [n \in DOMAIN set |-> NewDevice(set[n])], writable |-> writable, open |-> TRUE]
<1>1. /\ TypeOK /\ volumes' = [volumes EXCEPT ![d] = new]
      /\ disk' = disk /\ failures' = failures /\ Note("dropped", Dropped({d}))
      /\ default' \in Drives \union {Unset} /\ commands' \in 0 .. MaxCommands
  BY BoundsAssumption DEF Mount, Counted, SInv, TypeOK
<1>2. \A i \in Images : NewDevice(i) \in Device(i) /\ NewDevice(i) \in Member
  BY DEF NewDevice, Device, Member
<1>3. \A n \in DOMAIN set : set[n] \in Images /\ n \in 1 .. 2
  BY SetFacts
<1>4. new.devices \in [1 .. 1 -> Member] \union [1 .. 2 -> Member]
  BY <1>2, SetFacts
<1>5. new \in Volume /\ DOMAIN new.devices = DOMAIN set
      /\ \A n \in DOMAIN set : new.devices[n] = NewDevice(set[n])
  BY <1>4 DEF Volume
<1> HIDE DEF new
<1>6. /\ volumes' \in [Drives -> Volume \union {NoVolume}]
      /\ volumes'[d] = new /\ \A e \in Drives : e # d => volumes'[e] = volumes[e]
  BY <1>1, <1>5 DEF TypeOK
<1>7. ASSUME NEW q \in Places(volumes')
      PROVE  \/ q[1] # d /\ q \in Places(volumes) /\ DeviceAt(volumes', q) = DeviceAt(volumes, q)
                /\ volumes'[q[1]] = volumes[q[1]]
             \/ q[1] = d /\ q[2] \in DOMAIN set /\ DeviceAt(volumes', q) = NewDevice(set[q[2]])
  BY <1>5, <1>6, <1>7 DEF Places, DeviceAt
<1>8. \A q \in Places(volumes) :
         q[1] \in {d} \/ (q \in Places(volumes') /\ DeviceAt(volumes', q) = DeviceAt(volumes, q))
  BY <1>6 DEF Places, DeviceAt
<1>9. ASSUME NEW i \in Images PROVE ~HasCache(NewDevice(i)) /\ ~IsDirty(NewDevice(i)) /\ NewDevice(i).image = i
  BY DEF HasCache, IsDirty, NewDevice
<1>10. /\ mishaps' \in [Images -> SUBSET {"twice", "dropped", "emptied"}]
       /\ \A i \in Images : /\ mishaps[i] \subseteq mishaps'[i]
                            /\ i \in Dropped({d}) => "dropped" \in mishaps'[i]
  BY <1>1, NoteKeeps
<1>11. TypeOK'
  <2>1. ASSUME NEW q \in Places(volumes')
        PROVE  LET e == DeviceAt(volumes', q) IN
               /\ Rvn[e.image] = q[2] \/ (q[2] = 1 /\ Rvn[e.image] = 0)
               /\ e.bmDirty => e.bm # NoCache
               /\ e.ibDirty => e.ib # NoCache
               /\ HasCache(e) => volumes'[q[1]].writable
    <3>1. CASE q[1] # d
      BY <1>1, <1>7, <3>1 DEF TypeOK
    <3>2. CASE q[1] = d
      <4>1. q[2] \in DOMAIN set /\ DeviceAt(volumes', q) = NewDevice(set[q[2]]) /\ set[q[2]] \in Images
        BY <1>3, <1>7, <3>2
      <4>2. Rvn[set[q[2]]] = q[2] \/ (q[2] = 1 /\ Rvn[set[q[2]]] = 0)
        BY <4>1, RvnAssumption DEF Mount, MayMount, InOrder
      <4>3. QED
        BY <1>9, <4>1, <4>2 DEF IsDirty
    <3>3. QED
      BY <3>1, <3>2
  <2>2. QED
    BY <1>1, <1>6, <1>10, <2>1 DEF TypeOK
<1>12. ASSUME NEW i \in Images PROVE Known(i, volumes', disk'[i], mishaps'[i])
  <2>1. /\ HeldOnce(volumes, i) => HeldOnce(volumes', i)
        /\ i \notin Dropped({d}) => \A x : Speaks(volumes', i, x) => Speaks(volumes, i, x)
    <3>1. \A q \in Places(volumes') :
            \/ q \in Places(volumes) /\ DeviceAt(volumes', q) = DeviceAt(volumes, q)
            \/ ~HasCache(DeviceAt(volumes', q))
      BY <1>3, <1>7, <1>9
    <3>2. QED
      BY <1>1, <1>8, <3>1, LostPlaces
  <2>2. Known(i, volumes, disk[i], mishaps[i])
    BY DEF SInv, ImageInv
  <2>3. "twice" \notin mishaps'[i] => HeldOnce(volumes', i)
    BY <1>10, <2>1, <2>2 DEF Known
  <2>4. mishaps'[i] \subseteq {"emptied"} => \A x : Speaks(volumes', i, x) => Speaks(volumes, i, x)
    <3>1. mishaps'[i] \subseteq {"emptied"} => i \notin Dropped({d})
      BY <1>10
    <3>2. QED
      BY <2>1, <3>1
  <2>5. QED
    BY <1>1, <1>10, <2>2, <2>3, <2>4, KnownStays
<1>13. QED
  BY <1>1, <1>11, <1>12, SameHeadersStay DEF SInv, ImageInv, SafeStep

\* Exit is safe.
LEMMA ExitIsSafe ==
  ASSUME SInv, Exit
  PROVE  SafeStep
<1>1. /\ TypeOK /\ volumes' = [d \in Drives |-> NoVolume] /\ default' = Unset
      /\ disk' = disk /\ failures' = failures /\ Note("dropped", Dropped(Drives))
      /\ commands' \in 0 .. MaxCommands
  BY BoundsAssumption DEF Exit, Counted, SInv, TypeOK
<1>2. Places(volumes') = {}
  BY <1>1 DEF Places
<1>3. /\ mishaps' \in [Images -> SUBSET {"twice", "dropped", "emptied"}]
      /\ \A i \in Images : /\ mishaps[i] \subseteq mishaps'[i]
                           /\ i \in Dropped(Drives) => "dropped" \in mishaps'[i]
  BY <1>1, NoteKeeps
<1>4. TypeOK'
  BY <1>1, <1>2, <1>3 DEF TypeOK
<1>5. ASSUME NEW i \in Images PROVE Known(i, volumes', disk'[i], mishaps'[i])
  <2>1. \A q \in Places(volumes) : q[1] \in Drives
    BY DEF Places
  <2>2. i \notin Dropped(Drives) => \A x : Speaks(volumes', i, x) => Speaks(volumes, i, x)
    BY <1>1, <1>2, <2>1, LostPlaces
  <2>3. HeldOnce(volumes', i)
    BY <1>2 DEF HeldOnce, At
  <2>4. Known(i, volumes, disk[i], mishaps[i])
    BY DEF SInv, ImageInv
  <2>5. mishaps'[i] \subseteq {"emptied"} => i \notin Dropped(Drives)
    BY <1>3
  <2>6. mishaps'[i] \subseteq {"emptied"} => \A x : Speaks(volumes', i, x) => Speaks(volumes, i, x)
    BY <2>2, <2>5
  <2>7. QED
    BY <1>1, <1>3, <2>3, <2>4, <2>6, KnownStays
<1>6. QED
  BY <1>1, <1>4, <1>5, SameHeadersStay DEF SInv, ImageInv, SafeStep

\* A blank image has no claims, so no bitmap shows one of its clusters in use free.
LEMMA BlankFacts ==
  ASSUME NEW i \in Images
  PROVE  /\ Blank(i) \in Image(i) /\ UsedSlots(i, Blank(i)) = {} /\ Claims(i, Blank(i)) = {}
         /\ \A dev : Covered(i, Blank(i), dev)
         /\ Exact(i, Blank(i), NewDevice(i))
<1>1. Blank(i) \in Image(i) /\ UsedSlots(i, Blank(i)) = {}
      /\ Blank(i).used = {} /\ Blank(i).taken = {}
  BY DEF Blank, Image, UsedSlots
<1>2. Claims(i, Blank(i)) = {}
  BY <1>1 DEF Claims
<1>3. \A dev : Covered(i, Blank(i), dev)
  BY <1>1, <1>2 DEF Covered
<1>4. Exact(i, Blank(i), NewDevice(i))
  BY <1>1, <1>2 DEF Exact, NewDevice
<1>5. QED
  BY <1>1, <1>2, <1>3, <1>4

\* Initialize is safe.
LEMMA InitializeIsSafe ==
  ASSUME SInv, NEW i \in Images, Initialize(i)
  PROVE  SafeStep
<1> DEFINE emptied == {i} \intersect
             {DeviceAt(volumes, p).image : p \in {q \in Places(volumes) : HasCache(DeviceAt(volumes, q))}}
<1>1. /\ TypeOK /\ disk' = [disk EXCEPT ![i] = Blank(i)] /\ Note("emptied", emptied)
      /\ volumes' = volumes /\ default' = default /\ failures' = failures
      /\ commands' \in 0 .. MaxCommands
  BY BoundsAssumption DEF Initialize, Counted, SInv, TypeOK
<1>2. (\E p \in At(volumes, i) : HasCache(DeviceAt(volumes, p))) => i \in emptied
  BY DEF At
<1> HIDE DEF emptied
<1>3. /\ mishaps' \in [Images -> SUBSET {"twice", "dropped", "emptied"}]
      /\ \A j \in Images : /\ mishaps[j] \subseteq mishaps'[j]
                           /\ j \in emptied => "emptied" \in mishaps'[j]
  BY <1>1, NoteKeeps
<1>4. /\ disk'[i] = Blank(i) /\ \A j \in Images : j # i => disk'[j] = disk[j]
      /\ DOMAIN disk' = Images /\ \A j \in Images : disk'[j] \in Image(j)
  BY <1>1, BlankFacts DEF TypeOK
<1>5. TypeOK'
  BY <1>1, <1>3, <1>4 DEF TypeOK
<1>6. \A j \in Images : Known(j, volumes, disk[j], mishaps[j])
  BY DEF SInv, ImageInv
<1>7. Known(i, volumes', disk'[i], mishaps'[i])
  <2>1. "twice" \notin mishaps'[i] => HeldOnce(volumes, i)
    BY <1>3, <1>6 DEF Known
  <2>2. ASSUME mishaps'[i] = {}, NEW x, Speaks(volumes, i, x) PROVE x = NewDevice(i)
    BY <1>2, <1>3, <2>2 DEF Speaks
  <2>3. \A x : Covered(i, disk'[i], x)
    BY <1>4, BlankFacts
  <2>4. mishaps'[i] = {} => \A x : Speaks(volumes, i, x) => Exact(i, disk'[i], x)
    BY <1>4, <2>2, BlankFacts
  <2>5. QED
    BY <1>1, <2>1, <2>3, <2>4 DEF Known
<1>8. ASSUME NEW j \in Images, j # i PROVE Known(j, volumes', disk'[j], mishaps'[j])
  <2>1. "twice" \notin mishaps'[j] => HeldOnce(volumes, j)
    BY <1>3, <1>6 DEF Known
  <2>2. QED
    BY <1>1, <1>3, <1>4, <1>6, <1>8, <2>1, KnownStays
<1>9. HeadersStay(i, disk'[i])
  BY <1>1, <1>4 DEF HeadersStay, Blank, InUse
<1>10. QED
  BY <1>4, <1>5, <1>7, <1>8, <1>9, SameHeadersStay DEF SInv, ImageInv, SafeStep

\* What DISMOUNT writes into an image, and that it leaves the headers alone.
LEMMA SavedKeepsHeaders ==
  ASSUME TypeOK, NEW d \in Drives, volumes[d] # NoVolume, NEW lost, NEW i \in Images
  PROVE  SavedBy(d, lost)[i] \in Image(i) /\ SavedBy(d, lost)[i].header = disk[i].header
<1> DEFINE ns == {n \in DOMAIN volumes[d].devices : volumes[d].devices[n].image = i}
           n == CHOOSE n \in ns : TRUE
<1>1. SavedBy(d, lost)[i] = IF ns = {} THEN disk[i]
                            ELSE Flushed(disk[i], volumes[d].devices[n], Lost(lost, n))
  BY DEF SavedBy
<1>2. disk[i] \in Image(i)
  BY DEF TypeOK
<1>3. CASE ns = {}
  BY <1>1, <1>2, <1>3
<1>4. CASE ns # {}
  <2>1. n \in ns
    BY <1>4
  <2> HIDE DEF n
  <2>2. volumes[d] \in Volume /\ n \in 1 .. 2
    BY <2>1 DEF TypeOK, Volume
  <2>3. <<d, n>> \in Places(volumes) /\ DeviceAt(volumes, <<d, n>>) = volumes[d].devices[n]
    BY <2>1, <2>2 DEF Places, DeviceAt
  <2>4. Sound(i, disk[i], volumes[d].devices[n])
    BY <2>1, <2>3, PlaceFacts
  <2> DEFINE old == volumes[d].devices[n]
             image2 == Flushed(disk[i], old, Lost(lost, n))
  <2>5. Sound(i, image2, AfterFlush(old, Lost(lost, n)))
    BY <2>4, FlushedKeeps
  <2>6. image2.header = disk[i].header
    BY <1>2 DEF Flushed, Image
  <2>7. QED
    BY <1>1, <1>4, <2>5, <2>6 DEF Sound
<1>5. QED
  BY <1>3, <1>4

\* DISMOUNT flushes each device of the volume, and drops them or leaves dirty
\* those whose bitmaps were lost.
LEMMA SavedKnown ==
  ASSUME SInv, NEW d \in Drives, volumes[d] # NoVolume, NEW lost, NEW vols2, NEW i \in Images,
         \A q \in Places(vols2) : q \in Places(volumes) /\
            DeviceAt(vols2, q) = IF q[1] = d THEN AfterFlush(DeviceAt(volumes, q), Lost(lost, q[2]))
                                 ELSE DeviceAt(volumes, q),
         \A q \in Places(volumes) :
            \/ q \in Places(vols2)
            \/ q[1] = d /\ ~IsDirty(AfterFlush(DeviceAt(volumes, q), Lost(lost, q[2])))
  PROVE  Known(i, vols2, SavedBy(d, lost)[i], mishaps[i])
<1> DEFINE ns == {n \in DOMAIN volumes[d].devices : volumes[d].devices[n].image = i}
           n == CHOOSE n \in ns : TRUE
<1>1. SavedBy(d, lost)[i] = IF ns = {} THEN disk[i]
                            ELSE Flushed(disk[i], volumes[d].devices[n], Lost(lost, n))
  BY DEF SavedBy
<1>2. Known(i, volumes, disk[i], mishaps[i]) /\ TypeOK
  BY DEF SInv, ImageInv
<1>3. \A q \in At(volumes, i) : /\ q = <<q[1], q[2]>> /\ Sound(i, disk[i], DeviceAt(volumes, q))
                                /\ Rvn[i] = q[2] \/ (q[2] = 1 /\ Rvn[i] = 0)
  BY <1>2, PlaceFacts DEF At, TypeOK
<1>4. \A q \in At(volumes, i) :
         LET old == DeviceAt(volumes, q)
             dev == AfterFlush(old, Lost(lost, q[2]))
         IN  /\ dev.bm = old.bm /\ dev.ib = old.ib /\ dev.image = i
             /\ HasCache(dev) <=> HasCache(old)
  BY <1>3 DEF AfterFlush, Sound, Device, HasCache
<1>5. \A q \in At(vols2, i) : /\ q \in At(volumes, i)
                              /\ HasCache(DeviceAt(vols2, q)) <=> HasCache(DeviceAt(volumes, q))
  <2>1. ASSUME NEW q \in At(vols2, i) PROVE q \in At(volumes, i)
    <3>1. q \in Places(volumes) /\ DeviceAt(vols2, q).image = i
      BY DEF At
    <3>2. DeviceAt(volumes, q).image \in Images
          /\ Sound(DeviceAt(volumes, q).image, disk[DeviceAt(volumes, q).image], DeviceAt(volumes, q))
      BY <1>2, <3>1, PlaceFacts
    <3>3. AfterFlush(DeviceAt(volumes, q), Lost(lost, q[2])).image = DeviceAt(volumes, q).image
      BY <3>2 DEF AfterFlush, Sound, Device
    <3>4. QED
      BY <3>1, <3>3 DEF At
  <2>2. QED
    BY <1>4, <2>1 DEF At
<1>6. HeldOnce(volumes, i) => HeldOnce(vols2, i)
  BY <1>5 DEF HeldOnce
<1>7. CASE ns = {}
  <2>1. \A q \in At(volumes, i) : q[1] # d
    BY <1>7 DEF At, Places, DeviceAt
  <2>2. At(vols2, i) = At(volumes, i) /\ \A q \in At(volumes, i) : DeviceAt(vols2, q) = DeviceAt(volumes, q)
    BY <1>5, <2>1 DEF At
  <2>3. \A x : Speaks(vols2, i, x) => Speaks(volumes, i, x)
    BY <2>2 DEF Speaks
  <2>4. "twice" \notin mishaps[i] => HeldOnce(vols2, i)
    BY <1>2, <1>6 DEF Known
  <2>5. SavedBy(d, lost)[i] = disk[i]
    BY <1>1, <1>7
  <2>6. QED
    BY <1>2, <2>3, <2>4, <2>5, KnownStays
<1>8. CASE ns # {}
  <2>1. n \in ns
    BY <1>8
  <2>2. SavedBy(d, lost)[i] = Flushed(disk[i], volumes[d].devices[n], Lost(lost, n))
    BY <1>1, <1>8
  <2> HIDE DEF n
  <2> DEFINE p == <<d, n>>
             old == DeviceAt(volumes, p)
             dev == AfterFlush(old, Lost(lost, n))
             image2 == Flushed(disk[i], old, Lost(lost, n))
  <2>3. p \in At(volumes, i) /\ SavedBy(d, lost)[i] = image2
    <3>1. volumes[d] \in Volume /\ n \in 1 .. 2
      BY <1>2, <2>1 DEF TypeOK, Volume
    <3>2. QED
      BY <2>1, <2>2, <3>1 DEF At, Places, DeviceAt
  <2>4. Sound(i, disk[i], old) /\ Follows(i, disk[i], old, image2, dev) /\ dev.bm = old.bm /\ dev.ib = old.ib
    BY <1>3, <2>3, FlushedKeeps
  <2>5. \A q \in At(volumes, i) : q[1] = d => q = p
    <3>1. ASSUME NEW q \in At(volumes, i), q[1] = d PROVE q = p
      <4>1. q = <<d, q[2]>>
        BY <1>3, <3>1
      <4>2. Rvn[i] = q[2] \/ (q[2] = 1 /\ Rvn[i] = 0)
        BY <1>3
      <4>3. Rvn[i] = n \/ (n = 1 /\ Rvn[i] = 0)
        BY <1>3, <2>3
      <4>4. q[2] = n
        <5>1. q[2] \in 1 .. 2 /\ n \in 1 .. 2
          BY <2>3 DEF At, Places
        <5>2. QED
          BY <4>2, <4>3, <5>1
      <4>5. QED
        BY <4>1, <4>4
    <3>2. QED
      BY <3>1
  <2>6. p \in At(vols2, i) => DeviceAt(vols2, p) = dev
    BY DEF At
  <2>7. p \notin At(vols2, i) => ~IsDirty(dev)
    <3>1. p \in Places(vols2) => p \in At(vols2, i)
      BY <1>4, <2>3 DEF At
    <3>2. QED
      BY <2>3, <3>1 DEF At
  <2>8. \A q \in At(volumes, i) : q # p => q \in At(vols2, i) /\ DeviceAt(vols2, q) = DeviceAt(volumes, q)
    BY <2>5 DEF At
  <2>9. CASE HasCache(old)
    <3>1. ASSUME "twice" \notin mishaps[i]
          PROVE  /\ HeldOnce(vols2, i) /\ Speaks(volumes, i, old)
                 /\ \A x : Speaks(vols2, i, x) => x = dev \/ (x = NewDevice(i) /\ ~IsDirty(dev))
      <4>1. HeldOnce(volumes, i)
        BY <1>2, <3>1 DEF Known
      <4>2. \A q \in At(vols2, i) : HasCache(DeviceAt(vols2, q)) => q = p
        BY <1>5, <2>3, <2>9, <4>1 DEF HeldOnce
      <4>3. ASSUME NEW x, Speaks(vols2, i, x) PROVE x = dev \/ (x = NewDevice(i) /\ ~IsDirty(dev))
        <5>1. CASE \E q \in At(vols2, i) : x = DeviceAt(vols2, q) /\ HasCache(x)
          BY <2>6, <4>2, <5>1
        <5>2. CASE x = NewDevice(i) /\ \A q \in At(vols2, i) : ~IsDirty(DeviceAt(vols2, q))
          BY <2>6, <2>7, <5>2
        <5>3. QED
          BY <4>3, <5>1, <5>2 DEF Speaks
      <4>4. QED
        BY <1>6, <2>3, <2>9, <4>1, <4>3 DEF Speaks
    <3>2. QED
      BY <1>2, <2>3, <2>4, <3>1, KnownFollows
  <2>10. CASE ~HasCache(old)
    <3>1. ~IsDirty(old)
      BY <2>4, <2>10 DEF HasCache, IsDirty, Sound
    <3>2. image2 = disk[i] /\ dev = old
      BY <2>4, <3>1 DEF Flushed, AfterFlush, Sound, IsDirty, Image, Device
    <3>3. ASSUME NEW x, Speaks(vols2, i, x) PROVE Speaks(volumes, i, x)
      <4>1. CASE \E q \in At(vols2, i) : x = DeviceAt(vols2, q) /\ HasCache(x)
        BY <1>5, <2>6, <2>8, <3>2, <4>1 DEF Speaks
      <4>2. CASE x = NewDevice(i) /\ \A q \in At(vols2, i) : ~IsDirty(DeviceAt(vols2, q))
        BY <2>8, <3>1, <4>2 DEF Speaks
      <4>3. QED
        BY <3>3, <4>1, <4>2 DEF Speaks
    <3>4. "twice" \notin mishaps[i] => HeldOnce(vols2, i)
      BY <1>2, <1>6 DEF Known
    <3>5. QED
      BY <1>2, <2>3, <3>2, <3>3, <3>4, KnownStays
  <2>11. QED
    BY <2>9, <2>10
<1>9. QED
  BY <1>7, <1>8

\* Dismount is safe.
LEMMA DismountIsSafe ==
  ASSUME SInv, NEW d \in Drives, Dismount(d)
  PROVE  SafeStep
<1>1. /\ TypeOK /\ volumes[d] # NoVolume /\ disk' = SavedBy(d, {})
      /\ volumes' = [volumes EXCEPT ![d] = NoVolume]
      /\ default' = default /\ failures' = failures /\ mishaps' = mishaps
      /\ commands' \in 0 .. MaxCommands
  BY BoundsAssumption DEF Dismount, Mounted, Counted, SInv, TypeOK
<1>2. /\ volumes' \in [Drives -> Volume \union {NoVolume}]
      /\ volumes'[d] = NoVolume /\ \A e \in Drives : e # d => volumes'[e] = volumes[e]
  BY <1>1 DEF TypeOK
<1>3. \A q \in Places(volumes') : /\ q \in Places(volumes) /\ q[1] # d
                                  /\ DeviceAt(volumes', q) = DeviceAt(volumes, q)
                                  /\ volumes'[q[1]] = volumes[q[1]]
  BY <1>2 DEF Places, DeviceAt
<1>4. \A q \in Places(volumes) : q[1] # d => q \in Places(volumes')
  BY <1>2 DEF Places
<1>5. \A q \in Places(volumes) : ~IsDirty(AfterFlush(DeviceAt(volumes, q), Lost({}, q[2])))
  <2>1. ASSUME NEW q \in Places(volumes)
        PROVE  ~IsDirty(AfterFlush(DeviceAt(volumes, q), Lost({}, q[2])))
    <3>1. DeviceAt(volumes, q) \in Device(DeviceAt(volumes, q).image)
      BY <1>1, PlaceFacts DEF Sound
    <3>2. Lost({}, q[2]) = {}
      BY DEF Lost
    <3>3. QED
      BY <3>1, <3>2 DEF AfterFlush, IsDirty, Device
  <2>2. QED
    BY <2>1
<1>6. TypeOK'
  <2>1. DOMAIN disk' = Images /\ \A i \in Images : disk'[i] \in Image(i)
    BY <1>1, SavedKeepsHeaders DEF SavedBy
  <2>2. \A q \in Places(volumes') :
          LET e == DeviceAt(volumes', q) IN
          /\ Rvn[e.image] = q[2] \/ (q[2] = 1 /\ Rvn[e.image] = 0)
          /\ e.bmDirty => e.bm # NoCache
          /\ e.ibDirty => e.ib # NoCache
          /\ HasCache(e) => volumes'[q[1]].writable
    BY <1>1, <1>3, ZenonT(60) DEF TypeOK
  <2>3. failures' \in 0 .. MaxFailures /\ default' \in Drives \union {Unset}
        /\ mishaps' \in [Images -> SUBSET {"twice", "dropped", "emptied"}]
    BY <1>1 DEF TypeOK
  <2>4. QED
    BY <1>1, <1>2, <2>1, <2>2, <2>3 DEF TypeOK
<1>7. ASSUME NEW i \in Images PROVE Known(i, volumes', disk'[i], mishaps'[i])
  BY <1>1, <1>3, <1>4, <1>5, SavedKnown
<1>8. \A i \in Images : HeadersStay(i, disk'[i])
  BY <1>1, SavedKeepsHeaders, SameHeadersStay
<1>9. QED
  BY <1>6, <1>7, <1>8 DEF SInv, ImageInv, SafeStep

\* A DISMOUNT that fails to flush is safe.
LEMMA DismountFailsIsSafe ==
  ASSUME SInv, NEW d \in Drives, DismountFails(d)
  PROVE  SafeStep
<1> DEFINE kept(lost) == [n \in DOMAIN volumes[d].devices |-> AfterFlush(volumes[d].devices[n], Lost(lost, n))]
<1>1. PICK lost \in SUBSET DirtyWrites(d) :
         /\ failures + Cardinality(lost) <= MaxFailures
         /\ disk' = SavedBy(d, lost)
         /\ volumes' = [volumes EXCEPT
              ![d].open = FALSE,
              ![d].devices = [n \in DOMAIN @ |-> AfterFlush(@[n], Lost(lost, n))]]
         /\ failures' = failures + Cardinality(lost)
  BY DEF DismountFails
<1>2. /\ TypeOK /\ volumes[d] # NoVolume /\ volumes[d] \in Volume
      /\ default' = default /\ mishaps' = mishaps /\ commands' \in 0 .. MaxCommands
  BY BoundsAssumption DEF DismountFails, Mounted, Counted, SInv, TypeOK
<1>3. failures' \in 0 .. MaxFailures
  <2>1. DOMAIN volumes[d].devices \in {1 .. 1, 1 .. 2}
    BY <1>2 DEF Volume
  <2>2. IsFiniteSet(1 .. 1) /\ IsFiniteSet(1 .. 2)
    BY FS_Interval, 1 \in Int, 2 \in Int
  <2>3. IsFiniteSet(DOMAIN volumes[d].devices)
    BY <2>1, <2>2
  <2>4. IsFiniteSet({"bm", "ib"})
    <3>1. IsFiniteSet({"bm"} \union {"ib"})
      BY FS_Singleton, FS_AddElement, ZenonT(60)
    <3>2. QED
      BY <3>1, {"bm"} \union {"ib"} = {"bm", "ib"}
  <2>5. IsFiniteSet((DOMAIN volumes[d].devices) \X {"bm", "ib"})
    BY <2>3, <2>4, FS_Product
  <2>6. lost \in SUBSET ((DOMAIN volumes[d].devices) \X {"bm", "ib"})
    BY DEF DirtyWrites
  <2>7. Cardinality(lost) \in Nat
    BY <2>5, <2>6, FS_Subset, FS_CardinalityType
  <2>8. QED
    BY <1>1, <1>2, <2>7, BoundsAssumption DEF TypeOK
<1>4. /\ volumes'[d] = [volumes[d] EXCEPT !.open = FALSE, !.devices = kept(lost)]
      /\ \A e \in Drives : e # d => volumes'[e] = volumes[e]
      /\ DOMAIN volumes' = Drives
  BY <1>1, <1>2 DEF TypeOK
<1>5. \A n \in DOMAIN volumes[d].devices :
         /\ <<d, n>> \in Places(volumes) /\ DeviceAt(volumes, <<d, n>>) = volumes[d].devices[n]
         /\ AfterFlush(volumes[d].devices[n], Lost(lost, n)) \in Member
  <2>1. ASSUME NEW n \in DOMAIN volumes[d].devices
        PROVE  /\ <<d, n>> \in Places(volumes) /\ DeviceAt(volumes, <<d, n>>) = volumes[d].devices[n]
               /\ AfterFlush(volumes[d].devices[n], Lost(lost, n)) \in Member
    <3>1. <<d, n>> \in Places(volumes) /\ DeviceAt(volumes, <<d, n>>) = volumes[d].devices[n]
      BY <1>2 DEF Places, DeviceAt, Volume
    <3>2. PICK i \in Images : volumes[d].devices[n] \in Device(i)
      BY <1>2, <3>1, PlaceFacts DEF Sound
    <3>3. AfterFlush(volumes[d].devices[n], Lost(lost, n)) \in Device(i)
      BY <3>2 DEF AfterFlush, Device
    <3>4. QED
      BY <3>1, <3>3 DEF Member
  <2>2. QED
    BY <2>1
<1>6. kept(lost) \in [1 .. 1 -> Member] \union [1 .. 2 -> Member]
  BY <1>2, <1>5 DEF Volume
<1>7. /\ volumes'[d] \in Volume /\ volumes'[d].devices = kept(lost)
      /\ volumes'[d].writable = volumes[d].writable
  BY <1>2, <1>4, <1>6 DEF Volume
<1>8. volumes' \in [Drives -> Volume \union {NoVolume}] /\ volumes'[d] # NoVolume
  <2>1. volumes'[d] # NoVolume
    BY <1>7, MarksAssumption
  <2>2. \A e \in Drives : volumes'[e] \in Volume \union {NoVolume}
    BY <1>2, <1>4, <1>7 DEF TypeOK
  <2>3. volumes' = [e \in Drives |-> volumes'[e]]
    BY <1>1, <1>2 DEF TypeOK
  <2>4. QED
    BY <2>1, <2>2, <2>3
<1>9. Places(volumes') = Places(volumes)
  BY <1>2, <1>4, <1>7, <1>8 DEF Places
<1>10. \A q \in Places(volumes) :
         DeviceAt(volumes', q) = IF q[1] = d THEN AfterFlush(DeviceAt(volumes, q), Lost(lost, q[2]))
                                 ELSE DeviceAt(volumes, q)
  <2>1. ASSUME NEW q \in Places(volumes), q[1] = d
        PROVE  DeviceAt(volumes', q) = AfterFlush(DeviceAt(volumes, q), Lost(lost, q[2]))
    BY <1>7, <2>1 DEF Places, DeviceAt
  <2>2. ASSUME NEW q \in Places(volumes), q[1] # d PROVE DeviceAt(volumes', q) = DeviceAt(volumes, q)
    BY <1>4, <2>2 DEF Places, DeviceAt
  <2>3. QED
    BY <2>1, <2>2
<1>11. TypeOK'
  <2>1. DOMAIN disk' = Images /\ \A i \in Images : disk'[i] \in Image(i)
    BY <1>1, <1>2, SavedKeepsHeaders DEF SavedBy
  <2>2. ASSUME NEW q \in Places(volumes')
        PROVE  LET e == DeviceAt(volumes', q) IN
               /\ Rvn[e.image] = q[2] \/ (q[2] = 1 /\ Rvn[e.image] = 0)
               /\ e.bmDirty => e.bm # NoCache
               /\ e.ibDirty => e.ib # NoCache
               /\ HasCache(e) => volumes'[q[1]].writable
    <3>1. q \in Places(volumes) /\ volumes'[q[1]].writable = volumes[q[1]].writable
      BY <1>2, <1>4, <1>7, <1>9 DEF Places
    <3>2. CASE q[1] # d
      BY <1>2, <1>10, <3>1, <3>2 DEF TypeOK
    <3>3. CASE q[1] = d
      <4> DEFINE old == DeviceAt(volumes, q)
                 e == DeviceAt(volumes', q)
      <4>1. e = AfterFlush(old, Lost(lost, q[2])) /\ old \in Device(old.image)
        BY <1>2, <1>10, <3>1, <3>3, PlaceFacts DEF Sound
      <4>2. /\ e.image = old.image /\ e.bm = old.bm /\ e.ib = old.ib
            /\ e.bmDirty => old.bmDirty
            /\ e.ibDirty => old.ibDirty
        BY <4>1 DEF AfterFlush, Device
      <4>3. /\ Rvn[old.image] = q[2] \/ (q[2] = 1 /\ Rvn[old.image] = 0)
            /\ old.bmDirty => old.bm # NoCache
            /\ old.ibDirty => old.ib # NoCache
            /\ HasCache(old) => volumes[q[1]].writable
        BY <1>2, <3>1 DEF TypeOK
      <4> HIDE DEF old, e
      <4>4. QED
        BY <3>1, <4>2, <4>3 DEF HasCache, e
    <3>4. QED
      BY <3>2, <3>3
  <2>3. QED
    BY <1>2, <1>3, <1>8, <2>1, <2>2 DEF TypeOK
<1>12. ASSUME NEW i \in Images PROVE Known(i, volumes', disk'[i], mishaps'[i])
  BY <1>1, <1>2, <1>9, <1>10, SavedKnown
<1>13. \A i \in Images : HeadersStay(i, disk'[i])
  BY <1>1, <1>2, SavedKeepsHeaders, SameHeadersStay
<1>14. QED
  BY <1>11, <1>12, <1>13 DEF SInv, ImageInv, SafeStep

-----------------------------------------------------------------------------
(* The theorems.                                                           *)

\* A session begins with nothing mounted.
LEMMA InitHasSInv == Init => SInv
<1> SUFFICES ASSUME Init PROVE SInv
  OBVIOUS
<1>1. Places(volumes) = {}
  BY DEF Init, Places
<1>2. TypeOK
  <2>1. \A i \in Images : disk[i] \in Image(i)
    BY BlankFacts DEF Init
  <2>2. QED
    BY <1>1, <2>1, BoundsAssumption DEF Init, TypeOK
<1>3. ASSUME NEW i \in Images PROVE Known(i, volumes, disk[i], mishaps[i])
  <2>1. disk[i] = Blank(i)
    BY DEF Init
  <2>2. \A x : Speaks(volumes, i, x) => x = NewDevice(i)
    BY <1>1 DEF Speaks, At
  <2>3. HeldOnce(volumes, i)
    BY <1>1 DEF HeldOnce, At
  <2>4. QED
    BY <2>1, <2>2, <2>3, BlankFacts DEF Known
<1>4. QED
  BY <1>2, <1>3 DEF SInv, ImageInv

\* Every step is safe.
LEMMA NextIsSafe ==
  ASSUME SInv, [Next]_vars
  PROVE  SafeStep
<1>1. ASSUME NEW d \in Drives, NEW set \in Sets, NEW writable \in BOOLEAN, Mount(d, set, writable)
      PROVE  SafeStep
  BY <1>1, MountIsSafe
<1>2. ASSUME NEW d \in Drives, CreateDirectory(d) PROVE SafeStep
  BY <1>2, CreateDirectoryIsSafe
<1>3. ASSUME NEW d \in Drives, CreateRefused(d) PROVE SafeStep
  BY <1>3, CreateRefusedIsSafe
<1>4. ASSUME NEW d \in Drives, NEW n \in 1 .. 2, Copy(d, n) PROVE SafeStep
  BY <1>4, CopyIsSafe
<1>5. ASSUME NEW d \in Drives, NEW n \in 1 .. 2, CopyRefused(d, n) PROVE SafeStep
  BY <1>5, CopyRefusedIsSafe
<1>6. ASSUME NEW d \in Drives, NEW files \in FileSets(d), Delete(d, files) PROVE SafeStep
  BY <1>6, DeleteIsSafe
<1>7. ASSUME NEW d \in Drives, AnalyzeRepair(d) PROVE SafeStep
  BY <1>7, AnalyzeRepairIsSafe
<1>8. ASSUME NEW i \in Images, Initialize(i) PROVE SafeStep
  BY <1>8, InitializeIsSafe
<1>9. ASSUME NEW d \in Drives, Dismount(d) PROVE SafeStep
  BY <1>9, DismountIsSafe
<1>10. ASSUME NEW d \in Drives, DismountFails(d) PROVE SafeStep
  BY <1>10, DismountFailsIsSafe
<1>11. CASE Exit
  BY <1>11, ExitIsSafe
<1>12. CASE UNCHANGED vars
  <2>1. disk' = disk /\ volumes' = volumes /\ default' = default /\ commands' = commands
        /\ failures' = failures /\ mishaps' = mishaps
    BY <1>12 DEF vars
  <2>2. TypeOK'
    BY <2>1 DEF SInv, TypeOK
  <2>3. ASSUME NEW i \in Images PROVE ImageInv(i)'
    <3>1. Known(i, volumes, disk[i], mishaps[i])
      BY <2>3 DEF SInv, ImageInv
    <3>2. Known(i, volumes, disk[i], mishaps[i])' <=> Known(i, volumes, disk[i], mishaps[i])
      BY <2>1 DEF Known, HeldOnce, Speaks, At, Places, DeviceAt
    <3>3. QED
      BY <3>1, <3>2 DEF ImageInv
  <2>4. \A i \in Images : HeadersStay(i, disk'[i])
    BY <2>1, SameHeadersStay, Zenon
  <2>5. QED
    BY <2>2, <2>3, <2>4 DEF SafeStep, SInv
<1>13. QED
  BY <1>1, <1>2, <1>3, <1>4, <1>5, <1>6, <1>7, <1>8, <1>9, <1>10, <1>11, <1>12 DEF Next

\* The types, and for every image: while no two devices held its bitmaps at once
\* and none was dropped dirty, no bitmap that counts shows a claimed cluster free;
\* while nothing at all happened to it, these bitmaps are exact.
THEOREM SInvAlways == Spec => []SInv
<1>1. Init => SInv
  BY InitHasSInv
<1>2. SInv /\ [Next]_vars => SInv'
  BY NextIsSafe DEF SafeStep
<1>3. QED
  BY <1>1, <1>2, PTL DEF Spec

\* Some device's word counts: a dirty one, or else one that will be read.
LEMMA SomeoneSpeaks ==
  ASSUME TypeOK, NEW i \in Images
  PROVE  \E dev : Speaks(volumes, i, dev)
<1>1. CASE \E p \in At(volumes, i) : IsDirty(DeviceAt(volumes, p))
  <2>1. PICK p \in At(volumes, i) : IsDirty(DeviceAt(volumes, p))
    BY <1>1
  <2>2. HasCache(DeviceAt(volumes, p))
    BY <2>1 DEF At, TypeOK, IsDirty, HasCache
  <2>3. QED
    BY <2>1, <2>2 DEF Speaks
<1>2. CASE ~\E p \in At(volumes, i) : IsDirty(DeviceAt(volumes, p))
  BY <1>2 DEF Speaks
<1>3. QED
  BY <1>1, <1>2

\* SpaceIsOwnedOnce: two files of an image share no cluster, whatever commands run
\* and whichever flushes fail, unless its bitmaps were held twice or dropped dirty.
THEOREM SpaceOwnedOnce == Spec => []SpaceIsOwnedOnce
<1>1. SInv => SpaceIsOwnedOnce
  <2>1. SUFFICES ASSUME SInv, NEW i \in Images, mishaps[i] \subseteq {"emptied"},
                        NEW s \in InUse(i), NEW t \in InUse(i), s # t
                 PROVE  disk[i].header[s] \intersect disk[i].header[t] = {}
    BY DEF SpaceIsOwnedOnce
  <2>2. PICK dev : Speaks(volumes, i, dev)
    BY <2>1, SomeoneSpeaks DEF SInv
  <2>3. Covered(i, disk[i], dev)
    BY <2>1, <2>2 DEF SInv, ImageInv, Known
  <2>4. QED
    BY <2>1, <2>3 DEF Covered, UsedSlots, InUse
<1>2. QED
  BY <1>1, SInvAlways, PTL

\* SavedUnlessDirty: once no mounted volume has a dirty bitmap of an image nothing
\* unchecked happened to, its bitmaps say what its headers say.
THEOREM SavedCorrect == Spec => []SavedUnlessDirty
<1>1. SInv => SavedUnlessDirty
  <2>1. SUFFICES ASSUME SInv, NEW i \in Images, mishaps[i] = {},
                        \A p \in Places(volumes) : DeviceAt(volumes, p).image = i => ~IsDirty(DeviceAt(volumes, p))
                 PROVE  disk[i].used = Claimed(i) /\ disk[i].taken = InUse(i)
    BY DEF SavedUnlessDirty
  <2>2. Speaks(volumes, i, NewDevice(i))
    BY <2>1 DEF Speaks, At
  <2>3. Exact(i, disk[i], NewDevice(i))
    BY <2>1, <2>2 DEF SInv, ImageInv, Known
  <2>4. QED
    BY <2>3 DEF Exact, NewDevice, Claims, UsedSlots, Claimed, InUse
<1>2. QED
  BY <1>1, SInvAlways, PTL

\* TypeOK, which the theorems above rest on: a bitmap is dirty only if it was read,
\* on a volume mounted /WRITE, and a set's members keep their home blocks' order.
THEOREM SessionTypes == Spec => []TypeOK
<1>1. SInv => TypeOK
  BY DEF SInv
<1>2. QED
  BY <1>1, SInvAlways, PTL

\* HeadersSurvive: no command writes a new file's header over one in use.
THEOREM HeadersSurviveAlways == Spec => HeadersSurvive
<1>1. SInv /\ [Next]_vars =>
        [\A i \in Images : \A s \in InUse(i) : (disk[i].header[s])' \in {disk[i].header[s], NoFile}]_vars
  BY NextIsSafe DEF SafeStep, HeadersStay
<1>2. QED
  BY <1>1, SInvAlways, PTL DEF Spec, HeadersSurvive
=============================================================================

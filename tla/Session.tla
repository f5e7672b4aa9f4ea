------------------------------ MODULE Session ------------------------------
(***************************************************************************)
(* The table of mounted volumes of a session (cmd/ods2/internal/session)   *)
(* and what its commands leave in the image files.                         *)
(*                                                                         *)
(* A volume is a sequence of devices, one per image file of a volume set.  *)
(* A device reads its two bitmaps from the image when a command first      *)
(* asks for them, and from then on changes these copies; a command or      *)
(* DISMOUNT writes them back, headers are written at once.  Nothing keeps  *)
(* an image from being mounted on two drives, mounted over, or initialized *)
(* anew while it is mounted.                                               *)
(*                                                                         *)
(* A step is a command, which runs to its end; a file is its header and    *)
(* the clusters it claims.                                                 *)
(***************************************************************************)
EXTENDS Integers, Sequences, FiniteSets

CONSTANTS
  Images,       \* image files on the host
  Drives,       \* device names
  Slots,        \* image -> header slots of its INDEXF.SYS, naturals
  Clusters,     \* image -> its clusters
  Rvn,          \* relative volume number in an image's home block
  NoCache,      \* a bitmap no command has asked for yet
  NoVolume,     \* a device name nothing is mounted on
  NoFile,       \* a blank header
  Unset,        \* no default device yet
  MaxSize,      \* bound: clusters of one file
  MaxFailures,  \* bound: bitmap writes that fail
  MaxMishaps,   \* bound: what happens to images that no command checks
  MaxCommands   \* bound: commands given

ASSUME SlotsAssumption == \A i \in Images : Slots[i] \subseteq Nat /\ IsFiniteSet(Slots[i])
ASSUME RvnAssumption == Rvn \in [Images -> Nat]
ASSUME BoundsAssumption == MaxSize \in Nat /\ MaxFailures \in Nat /\ MaxMishaps \in Nat /\ MaxCommands \in Nat

VARIABLES
  disk,       \* image -> what its file holds
  volumes,    \* Session.Volumes: device name -> volume
  default,    \* Session.Default's device
  commands,   \* how many commands were given
  failures,   \* bitmap writes that have failed
  mishaps     \* observer: image -> what happened to it that no command checks

vars == <<disk, volumes, default, commands, failures, mishaps>>

(***************************************************************************)
(* Images, devices and volumes                                             *)
(***************************************************************************)

\* What an image file holds, what a device knows of it, what is mounted.
Image(i) == [header : [Slots[i] -> (SUBSET Clusters[i]) \union {NoFile}],
             used : SUBSET Clusters[i], taken : SUBSET Slots[i]]
Device(i) == [image : {i}, bm : (SUBSET Clusters[i]) \union {NoCache}, ib : (SUBSET Slots[i]) \union {NoCache},
              bmDirty : BOOLEAN, ibDirty : BOOLEAN]
Member == UNION {Device(i) : i \in Images}
Volume == [devices : [1 .. 1 -> Member] \union [1 .. 2 -> Member], writable : BOOLEAN, open : BOOLEAN]

ASSUME MarksAssumption ==
  /\ NoVolume \notin Volume
  /\ \A i \in Images : /\ \A space \in SUBSET Clusters[i] : space # NoFile /\ space # NoCache
                      /\ \A slots \in SUBSET Slots[i] : slots # NoCache

\* A volume as INITIALIZE leaves it; its reserved files are left out.
Blank(i) == [header |-> [s \in Slots[i] |-> NoFile], used |-> {}, taken |-> {}]

InUse(i) == {s \in Slots[i] : disk[i].header[s] # NoFile}
Claimed(i) == UNION {disk[i].header[s] : s \in InUse(i)}

NewDevice(i) == [image |-> i, bm |-> NoCache, ib |-> NoCache, bmDirty |-> FALSE, ibDirty |-> FALSE]

\* Mutant of WithBitmap: the bitmap is read anew by every command.
WithBitmapAfresh(dev) == [dev EXCEPT !.bm = disk[dev.image].used]

\* Device.Bitmap and Device.IndexBitmap: read when first asked for.
WithBitmap(dev) == IF dev.bm = NoCache THEN [dev EXCEPT !.bm = disk[dev.image].used] ELSE dev
WithIndexBitmap(dev) == IF dev.ib = NoCache THEN [dev EXCEPT !.ib = disk[dev.image].taken] ELSE dev
Opened(dev) == WithIndexBitmap(WithBitmap(dev))

Mounted == {d \in Drives : volumes[d] # NoVolume}
DeviceAt(vols, p) == vols[p[1]].devices[p[2]]
Places(vols) == {p \in Drives \X (1 .. 2) : vols[p[1]] # NoVolume /\ p[2] \in DOMAIN vols[p[1]].devices}
HasCache(dev) == dev.bm # NoCache \/ dev.ib # NoCache
IsDirty(dev) == dev.bmDirty \/ dev.ibDirty

\* The images of which two devices hold bitmaps at once.
HeldTwice(vols) ==
  {i \in Images : \E p, q \in Places(vols) :
     /\ p # q
     /\ DeviceAt(vols, p).image = i /\ HasCache(DeviceAt(vols, p))
     /\ DeviceAt(vols, q).image = i /\ HasCache(DeviceAt(vols, q))}

Counted == commands < MaxCommands /\ commands' = commands + 1

\* The observer's part of a command.
Note(what, images) ==
  /\ mishaps' = [i \in Images |-> IF i \in images THEN mishaps[i] \union {what} ELSE mishaps[i]]
  /\ Cardinality(UNION {{i} \X mishaps'[i] : i \in Images}) <= MaxMishaps

(***************************************************************************)
(* The commands' common parts                                              *)
(***************************************************************************)

\* A container that was closed can neither be read nor written; OpenBitmap and
\* OpenIndexBitmap refuse a volume that is not mounted /WRITE.
MayWrite(d, n) == <<d, n>> \in Places(volumes) /\ volumes[d].open /\ volumes[d].writable

\* DELETE, PURGE and ANALYZE refuse volume sets.
IsSingle(d) == Len(volumes[d].devices) = 1

\* Flush of both bitmaps, of which those in lost fail.
Flushed(image, dev, lost) ==
  [image EXCEPT !.used = IF dev.bmDirty /\ "bm" \notin lost THEN dev.bm ELSE @,
                !.taken = IF dev.ibDirty /\ "ib" \notin lost THEN dev.ib ELSE @]
\* Mutant of AfterFlush: a flush that fails clears the dirty flag.
AfterFlushClean(dev, lost) == [dev EXCEPT !.bmDirty = FALSE, !.ibDirty = FALSE]

AfterFlush(dev, lost) ==
  [dev EXCEPT !.bmDirty = @ /\ "bm" \in lost, !.ibDirty = @ /\ "ib" \in lost]

\* The writes that may fail when dev is flushed.
Failing(dev) == {lost \in SUBSET {"bm", "ib"} :
                   /\ "bm" \in lost => dev.bmDirty
                   /\ "ib" \in lost => dev.ibDirty
                   /\ failures + Cardinality(lost) <= MaxFailures}

\* What a command makes of its device, its image, and the failures.
Becomes(d, n, dev, image, failed) ==
  /\ volumes' = [volumes EXCEPT ![d].devices[n] = dev]
  /\ disk' = [disk EXCEPT ![dev.image] = image]
  /\ failures' = failures + Cardinality(failed)
  /\ Note("twice", HeldTwice(volumes'))
  /\ UNCHANGED default

\* FindFreeSlot: the first slot the index-file bitmap shows free, and an error
\* if the slot is not blank on disk.
ShownFree(dev) == Slots[dev.image] \ dev.ib
FreeSlot(dev) == CHOOSE s \in ShownFree(dev) : \A t \in ShownFree(dev) : s <= t
\* Mutant of MayCreate: FindFreeSlot trusts the bitmap.
MayCreateUnseen(dev) == ShownFree(dev) # {}

MayCreate(dev) ==
  /\ ShownFree(dev) # {}
  /\ disk[dev.image].header[FreeSlot(dev)] = NoFile

\* CreateHeader and the file's clusters: the header is on disk, the rest is not.
WithFile(dev, space) ==
  [dev EXCEPT !.bm = @ \union space, !.bmDirty = @ \/ space # {},
              !.ib = @ \union {FreeSlot(dev)}, !.ibDirty = TRUE]
WithHeader(image, s, space) == [image EXCEPT !.header[s] = space]

\* freeFileStorage
WithoutFiles(dev, files) ==
  LET freed == UNION {disk[dev.image].header[s] : s \in files} IN
  [dev EXCEPT !.bm = @ \ freed, !.bmDirty = @ \/ freed # {},
              !.ib = @ \ files, !.ibDirty = TRUE]
WithoutHeaders(image, files) ==
  [image EXCEPT !.header = [s \in DOMAIN @ |-> IF s \in files THEN NoFile ELSE @[s]]]

Spaces(dev) == {space \in SUBSET (Clusters[dev.image] \ dev.bm) : Cardinality(space) <= MaxSize}

(***************************************************************************)
(* The commands                                                            *)
(***************************************************************************)

\* findHomeBlock and the order of a volume set: a lone volume may say 0 or 1.
InOrder(set, n) == Rvn[set[n]] = n \/ (n = 1 /\ Rvn[set[n]] <= 1)
MayMount(set) == \A n \in DOMAIN set : InOrder(set, n)

\* MOUNT: the volume replaces the one mounted there, whose dirty bitmaps
\* nobody can flush any more.
Dropped(drives) ==
  {i \in Images : \E p \in Places(volumes) :
     p[1] \in drives /\ DeviceAt(volumes, p).image = i /\ IsDirty(DeviceAt(volumes, p))}

Mount(d, set, writable) ==
  /\ Counted
  /\ MayMount(set)
  /\ volumes' = [volumes EXCEPT ![d] =
       [devices |-> [n \in DOMAIN set |-> NewDevice(set[n])], writable |-> writable, open |-> TRUE]]
  /\ default' = IF default = Unset THEN d ELSE default
  /\ Note("dropped", Dropped({d}))
  /\ UNCHANGED <<disk, failures>>

\* CREATE flushes the storage bitmap first, and returns when that fails.
FlushedInOrder(d, dev, image) ==
  \E lost \in Failing(dev) \ {{"bm", "ib"}} :
    LET unwritten == IF "bm" \in lost THEN {"bm", "ib"} ELSE lost IN
    Becomes(d, 1, AfterFlush(dev, unwritten), Flushed(image, dev, unwritten), lost)

\* CREATE/DIRECTORY: in the set's first device, flushed at the end.
CreateDirectory(d) ==
  /\ Counted
  /\ MayWrite(d, 1)
  /\ LET dev == Opened(DeviceAt(volumes, <<d, 1>>)) IN
     /\ MayCreate(dev)
     /\ \E space \in Spaces(dev) :
          LET made == WithFile(dev, space)
              image == WithHeader(disk[dev.image], FreeSlot(dev), space)
          IN /\ space # {}
             /\ FlushedInOrder(d, made, image)

\* A create refused by FindFreeSlot: the bitmaps were read, and what an earlier
\* command left dirty is flushed.
CreateRefused(d) ==
  /\ Counted
  /\ MayWrite(d, 1)
  /\ LET dev == Opened(DeviceAt(volumes, <<d, 1>>)) IN
     /\ ~MayCreate(dev)
     /\ FlushedInOrder(d, dev, disk[dev.image])

\* COPY to a volume: the bitmaps are not flushed.  A copy that fails half-way
\* leaves the file with what it has got.
Copy(d, n) ==
  /\ Counted
  /\ MayWrite(d, n)
  /\ LET dev == Opened(DeviceAt(volumes, <<d, n>>)) IN
     /\ MayCreate(dev)
     /\ \E space \in Spaces(dev) :
          Becomes(d, n, WithFile(dev, space), WithHeader(disk[dev.image], FreeSlot(dev), space), {})

CopyRefused(d, n) ==
  /\ Counted
  /\ MayWrite(d, n)
  /\ LET dev == Opened(DeviceAt(volumes, <<d, n>>)) IN
     ~MayCreate(dev) /\ Becomes(d, n, dev, disk[dev.image], {})

\* What DELETE and PURGE may match: some of the files there are.
FileSets(d) ==
  IF d \in Mounted THEN (SUBSET InUse(DeviceAt(volumes, <<d, 1>>).image)) \ {{}} ELSE {}

\* DELETE and PURGE: the files matched, or those before one that fails; both
\* bitmaps are flushed in any case.
Delete(d, files) ==
  /\ Counted
  /\ MayWrite(d, 1) /\ IsSingle(d)
  /\ LET dev == WithoutFiles(Opened(DeviceAt(volumes, <<d, 1>>)), files)
         image == WithoutHeaders(disk[dev.image], files)
     IN \E lost \in Failing(dev) :
          Becomes(d, 1, AfterFlush(dev, lost), Flushed(image, dev, lost), lost)

\* RepairDisk: what the headers on disk claim is compared with the bitmap on
\* disk, and the cache is set right where these differ.
Wrong(i) == (disk[i].used \ Claimed(i)) \union (Claimed(i) \ disk[i].used)
Repaired(dev) ==
  LET wrong == Wrong(dev.image)
      claimed == Claimed(dev.image)
  IN [dev EXCEPT !.bm = (@ \ (wrong \ claimed)) \union (wrong \intersect claimed), !.bmDirty = TRUE]

\* ANALYZE/DISK/REPAIR, which ends there when nothing is wrong; without /REPAIR
\* it only reads.  The index-file bitmap is none of its business.
AnalyzeRepair(d) ==
  /\ Counted
  /\ MayWrite(d, 1) /\ IsSingle(d)
  /\ Wrong(DeviceAt(volumes, <<d, 1>>).image) # {}
  /\ LET dev == Repaired(WithBitmap(DeviceAt(volumes, <<d, 1>>))) IN
     \E lost \in Failing([dev EXCEPT !.ibDirty = FALSE]) :
       LET spared == lost \union {"ib"} IN
       Becomes(d, 1, AfterFlush(dev, spared), Flushed(disk[dev.image], dev, spared), lost)

\* INITIALIZE works on an image file, whoever has it mounted.
Initialize(i) ==
  /\ Counted
  /\ disk' = [disk EXCEPT ![i] = Blank(i)]
  /\ Note("emptied", {i} \intersect
       {DeviceAt(volumes, p).image : p \in {q \in Places(volumes) : HasCache(DeviceAt(volumes, q))}})
  /\ UNCHANGED <<volumes, default, failures>>

\* DISMOUNT: every bitmap is flushed, and every container closed, whatever
\* fails; after a failure the volume stays in the table, closed.
DirtyWrites(d) == {w \in (DOMAIN volumes[d].devices) \X {"bm", "ib"} :
                     LET dev == volumes[d].devices[w[1]] IN
                     IF w[2] = "bm" THEN dev.bmDirty ELSE dev.ibDirty}
Lost(lost, n) == {b \in {"bm", "ib"} : <<n, b>> \in lost}

SavedBy(d, lost) ==
  [i \in Images |->
     LET ns == {n \in DOMAIN volumes[d].devices : volumes[d].devices[n].image = i} IN
     IF ns = {} THEN disk[i]
     ELSE LET n == CHOOSE n \in ns : TRUE IN Flushed(disk[i], volumes[d].devices[n], Lost(lost, n))]

Dismount(d) ==
  /\ Counted
  /\ d \in Mounted /\ volumes[d].open
  /\ disk' = SavedBy(d, {})
  /\ volumes' = [volumes EXCEPT ![d] = NoVolume]
  /\ UNCHANGED <<default, failures, mishaps>>

DismountFails(d) ==
  /\ Counted
  /\ d \in Mounted /\ volumes[d].open
  /\ \E lost \in SUBSET DirtyWrites(d) :
       /\ lost # {} /\ failures + Cardinality(lost) <= MaxFailures
       /\ disk' = SavedBy(d, lost)
       /\ volumes' = [volumes EXCEPT
            ![d].open = FALSE,
            ![d].devices = [n \in DOMAIN @ |-> AfterFlush(@[n], Lost(lost, n))]]
       /\ failures' = failures + Cardinality(lost)
  /\ UNCHANGED <<default, mishaps>>

\* EXIT, QUIT and the end of the input: nothing is dismounted.
Exit ==
  /\ Counted
  /\ Mounted # {}
  /\ volumes' = [d \in Drives |-> NoVolume]
  /\ default' = Unset
  /\ Note("dropped", Dropped(Drives))
  /\ UNCHANGED <<disk, failures>>

(***************************************************************************)
(* The specification                                                       *)
(***************************************************************************)

\* One image, or a volume set of two.
Sets == {<<i>> : i \in Images} \union {<<i, j>> : i, j \in Images}

Init ==
  /\ disk = [i \in Images |-> Blank(i)]
  /\ volumes = [d \in Drives |-> NoVolume]
  /\ default = Unset
  /\ commands = 0
  /\ failures = 0
  /\ mishaps = [i \in Images |-> {}]

Next ==
  \/ \E d \in Drives, set \in Sets, writable \in BOOLEAN : Mount(d, set, writable)
  \/ \E d \in Drives : CreateDirectory(d)
  \/ \E d \in Drives : CreateRefused(d)
  \/ \E d \in Drives, n \in 1 .. 2 : Copy(d, n)
  \/ \E d \in Drives, n \in 1 .. 2 : CopyRefused(d, n)
  \/ \E d \in Drives : \E files \in FileSets(d) : Delete(d, files)
  \/ \E d \in Drives : AnalyzeRepair(d)
  \/ \E i \in Images : Initialize(i)
  \/ \E d \in Drives : Dismount(d)
  \/ \E d \in Drives : DismountFails(d)
  \/ Exit

Spec == Init /\ [][Next]_vars

(***************************************************************************)
(* What holds                                                              *)
(***************************************************************************)

\* Types; the devices of a mounted volume are the members of a set, in the order
\* their home blocks give (Mount), and a bitmap is dirty only if it was read.
TypeOK ==
  /\ DOMAIN disk = Images /\ \A i \in Images : disk[i] \in Image(i)
  /\ volumes \in [Drives -> Volume \union {NoVolume}]
  /\ default \in Drives \union {Unset}
  /\ failures \in 0 .. MaxFailures /\ commands \in 0 .. MaxCommands
  /\ mishaps \in [Images -> SUBSET {"twice", "dropped", "emptied"}]
  /\ \A p \in Places(volumes) :
       LET dev == DeviceAt(volumes, p) IN
       /\ Rvn[dev.image] = p[2] \/ (p[2] = 1 /\ Rvn[dev.image] = 0)
       /\ dev.bmDirty => dev.bm # NoCache
       /\ dev.ibDirty => dev.ib # NoCache
       /\ HasCache(dev) => volumes[p[1]].writable

\* Two files of an image never claim the same cluster, in this session or a
\* later one, unless two mounted volumes held its bitmaps at once, or dirty
\* bitmaps were dropped with their volume (MOUNT over it, EXIT).  A dropped
\* bitmap shows late: while the first slot the index-file bitmap shows free has a
\* header, FindFreeSlot refuses every create; a delete before it opens the way.
SpaceIsOwnedOnce ==
  \A i \in Images : mishaps[i] \subseteq {"emptied"} =>
    \A s, t \in InUse(i) : s # t => disk[i].header[s] \intersect disk[i].header[t] = {}

\* Whatever commands ran, and whichever of their flushes failed: once no mounted
\* volume has a dirty bitmap of an image, the bitmaps in the image say what its
\* headers say - after DISMOUNT above all.
SavedUnlessDirty ==
  \A i \in Images :
    /\ mishaps[i] = {}
    /\ \A p \in Places(volumes) : DeviceAt(volumes, p).image = i => ~IsDirty(DeviceAt(volumes, p))
    => disk[i].used = Claimed(i) /\ disk[i].taken = InUse(i)

\* No command ever writes a new file's header over one in use, though the image
\* be mounted twice, mounted over or left dirty: FindFreeSlot looks at the disk.
HeadersSurvive ==
  [][\A i \in Images : \A s \in InUse(i) : (disk[i].header[s])' \in {disk[i].header[s], NoFile}]_vars

\* "Every command that finishes a mutating operation (CREATE, a COPY destined
\* for the volume, INITIALIZE) flushes its own dirty bitmap writes before
\* returning" (docs/PHASE-02.md:188-190): between commands nothing is dirty,
\* if no flush fails.
NothingLeftDirty ==
  failures = 0 => \A p \in Places(volumes) : ~IsDirty(DeviceAt(volumes, p))

=============================================================================

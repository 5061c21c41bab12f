---------------------------- MODULE LensDBProofs ----------------------------
(***************************************************************************)
(* The lens database wrapper, for every set of lenses, mounts, cameras and *)
(* files and any number of calls: what a save may do to memory, to the     *)
(* calibrations and to the rest of a file, and what a look-up answers.     *)
(***************************************************************************)
EXTENDS LensDB, FiniteSetTheorems, SequenceTheorems, WellFoundedInduction, TLAPS

(* Null stands for no file, no list of lenses and no list of mounts.       *)
KnownMounts == Mounts \cup {NoMount} \cup UNION {d.mounts : d \in Contents}
NullIsNothing ==
  /\ DOMAIN Null # {"mounts", "cameras", "lenses"}
  /\ \A n \in Nat : DOMAIN Null # 1..n
  /\ Null \notin SUBSET KnownMounts

(* The files at first, written with one calibration each as LensDB does.   *)
FilesCalibratedOnce ==
  \A d \in Contents : \A i \in DOMAIN d.lenses : OneCalibration(d.lenses[i])

OnDisk(f) == IF file[f] = Null THEN Empty ELSE file[f]

FileInv ==
  /\ DOMAIN file = Files
  /\ \A f \in Files : file[f] # Null => IsDatabase(file[f]) /\ file[f].mounts \subseteq KnownMounts

(* A list of mounts is at least the mounts of the file that it was made of. *)
MountsInv(s) ==
  /\ (s.mounts = Null) = (s.mountsOf = Null)
  /\ s.mountsOf # Null =>
       /\ s.mountsOf \in Files /\ s.mounts \subseteq KnownMounts
       /\ OnDisk(s.mountsOf).mounts \subseteq s.mounts

(* The lenses to be saved are those of the file, but for the current one.  *)
LensesInv ==
  /\ save.lenses \in Seq(Range1(save.lenses)) /\ \A l \in Range1(save.lenses) : IsLens(l)
  /\ save.current \in DOMAIN save.lenses
  /\ \A i \in DOMAIN save.content.lenses :
       /\ i \in DOMAIN save.lenses /\ save.lenses[i].name = save.content.lenses[i].name
       /\ save.lenses[i] # save.content.lenses[i] => i = save.current

SaveInv ==
  /\ DOMAIN save = {"db", "content", "lenses", "current", "mounts", "mountsOf", "filename"}
  /\ save.db \in {"null", "open", "gone"}
  /\ save.db = "open" => /\ save.filename \in Files /\ save.content = OnDisk(save.filename)
                         /\ LensesInv
  /\ save.db # "open" => save.lenses = Null /\ save.current \in {-1, 0}
  /\ save.db = "gone" => rejected
  /\ MountsInv(save)

WildInv == wild => rejected \/ strayed \/ main = Null

LInv == FileInv /\ SaveInv /\ WildInv

CalibInv ==
  /\ CalibratedOnce
  /\ save.db = "open" => \A i \in DOMAIN save.lenses : OneCalibration(save.lenses[i])

FoundInv == found # Null => found.name = IF asked = "" THEN "Standard" ELSE asked

----------------------------------------------------------------------------
(* The largest of finitely many indices.                                   *)

LEMMA LeastNumber ==
  ASSUME NEW S \in SUBSET Nat, S # {}
  PROVE  \E m \in S : \A k \in S : m <= k
<1> DEFINE R == OpToRel(<, Nat)
<1>1. \A y, x \in Nat : y < x => <<y, x>> \in R
  BY DEF OpToRel
<1>2. IsWellFoundedOn(R, Nat)
  BY NatLessThanWellFounded
<1> HIDE DEF R
<1>3. PICK m \in S : \A k \in S : ~ (<<k, m>> \in R)
  BY <1>2, WFMin, Zenon
<1>4. \A k \in S : m <= k
  <2> SUFFICES ASSUME NEW k \in S, k < m PROVE FALSE
    OBVIOUS
  <2>1. <<k, m>> \in R
    BY <1>1
  <2> QED
    BY <1>3, <2>1
<1> QED
  BY <1>4

LEMMA LargestIndex ==
  ASSUME NEW n \in Nat, NEW S \in SUBSET (1..n), S # {}
  PROVE  \E j \in S : \A k \in S : k <= j
<1> DEFINE T == {n - k : k \in S}
<1>1. T \in SUBSET Nat /\ T # {}
  <2>1. \A k \in S : n - k \in Nat
    OBVIOUS
  <2>2. T \subseteq Nat
    BY <2>1
  <2>3. PICK k \in S : TRUE
    OBVIOUS
  <2>4. n - k \in T
    OBVIOUS
  <2> QED
    BY <2>2, <2>4
<1>2. PICK m \in T : \A k \in T : m <= k
  BY <1>1, LeastNumber
<1>3. PICK j \in S : m = n - j
  BY <1>2
<1>4. \A k \in S : k <= j
  <2> SUFFICES ASSUME NEW k \in S PROVE k <= j
    OBVIOUS
  <2>1. n - k \in T /\ k \in 1..n /\ j \in 1..n
    OBVIOUS
  <2>2. m <= n - k
    BY <1>2, <2>1
  <2> QED
    BY <1>3, <2>1, <2>2
<1> QED
  BY <1>4

----------------------------------------------------------------------------
(* Databases, and what the first steps of a save make of the variables.    *)

LEMMA EmptyDatabase == IsDatabase(Empty) /\ Empty.mounts = {} /\ Empty.cameras = {} /\ Empty.lenses = << >>
BY DEF IsDatabase, Empty, Range1

LEMMA OnDiskDatabase ==
  ASSUME FileInv, NEW f \in Files
  PROVE  IsDatabase(OnDisk(f)) /\ OnDisk(f).mounts \subseteq KnownMounts
BY EmptyDatabase DEF FileInv, OnDisk

(* A list of lenses is a sequence of them.                                 *)
LEMMA DatabaseLenses ==
  ASSUME NEW d, IsDatabase(d)
  PROVE  /\ Len(d.lenses) \in Nat /\ DOMAIN d.lenses = 1..Len(d.lenses)
         /\ \A i \in DOMAIN d.lenses : IsLens(d.lenses[i])
BY DEF IsDatabase, Range1

(* A database that is opened anew has the content of its file.             *)
LEMMA OpenedFile ==
  ASSUME FileInv, SaveInv, NullIsNothing, ~TwiceDestroyed, NEW f \in Files
  PROVE  /\ DOMAIN Opened(f) = DOMAIN save
         /\ Opened(f).db = "open" /\ Opened(f).content = OnDisk(f)
         /\ Opened(f).lenses = Null /\ Opened(f).current \in {-1, 0} /\ MountsInv(Opened(f))
<1>1. CASE save.db = "null"
  BY <1>1 DEF Opened, SaveInv, OnDisk, MountsInv
<1>2. CASE save.db = "open"
  <2>1. Opened(f) = [CleanSaveInformation(save) EXCEPT !.db = "open", !.content = OnDisk(f)]
    BY <1>2 DEF Opened, OnDisk
  <2>2. Opened(f).mounts = Null /\ Opened(f).mountsOf = Null
    BY <2>1 DEF SaveInv, CleanSaveInformation, CleanUpdatedMounts
  <2>3. DOMAIN Opened(f) = DOMAIN save /\ Opened(f).db = "open" /\ Opened(f).content = OnDisk(f)
        /\ Opened(f).lenses = Null
    BY <2>1 DEF SaveInv, CleanSaveInformation, CleanUpdatedMounts
  <2>4. Opened(f).current = -1
    <3>1. \A n \in Nat : DOMAIN Null # 1..n
      BY DEF NullIsNothing
    <3>2. save.lenses # Null
      BY <1>2, <3>1 DEF SaveInv, LensesInv
    <3> QED
      BY <2>1, <3>2 DEF SaveInv, CleanSaveInformation, CleanUpdatedMounts
  <2> QED
    BY <2>2, <2>3, <2>4 DEF MountsInv
<1> QED
  BY <1>1, <1>2 DEF SaveInv, TwiceDestroyed

(* Looking a mount up changes the list of mounts only.                     *)
LEMMA MountLookedUp ==
  ASSUME FileInv, NullIsNothing, NEW f \in Files, NEW m \in Mounts \cup {NoMount}, NEW s,
         DOMAIN s = {"db", "content", "lenses", "current", "mounts", "mountsOf", "filename"},
         s.content = OnDisk(f)
  PROVE  LET t == IsNewMount(s, m, f)
         IN  /\ DOMAIN t = DOMAIN s /\ MountsInv(t)
             /\ t.db = s.db /\ t.content = s.content /\ t.lenses = s.lenses /\ t.current = s.current
             /\ t.mountsOf \in {f, Null}
             /\ t.mountsOf = f => s.content.mounts \subseteq t.mounts
<1> DEFINE t == IsNewMount(s, m, f)
<1>1. CASE m \in main.mounts \cup s.content.mounts
  <2>1. t = [s EXCEPT !.mounts = Null, !.mountsOf = Null]
    BY <1>1 DEF IsNewMount, CleanUpdatedMounts
  <2>2. f # Null
    BY LensConstants
  <2> HIDE DEF t
  <2>3. DOMAIN t = DOMAIN s /\ t.mounts = Null /\ t.mountsOf = Null
        /\ t.db = s.db /\ t.content = s.content /\ t.lenses = s.lenses /\ t.current = s.current
    BY <2>1
  <2>4. MountsInv(t)
    BY <2>3 DEF MountsInv
  <2> QED
    BY <2>2, <2>3, <2>4 DEF t
<1>2. CASE m \notin main.mounts \cup s.content.mounts
  <2>1. t = [s EXCEPT !.mounts = s.content.mounts \cup {m}, !.mountsOf = f]
    BY <1>2 DEF IsNewMount
  <2>2. s.content.mounts \cup {m} \in SUBSET KnownMounts
    BY OnDiskDatabase DEF KnownMounts
  <2>3. f # Null /\ s.content.mounts \cup {m} # Null
    BY <2>2, LensConstants DEF NullIsNothing
  <2> HIDE DEF t
  <2>4. DOMAIN t = DOMAIN s /\ t.mounts = s.content.mounts \cup {m} /\ t.mountsOf = f
        /\ t.db = s.db /\ t.content = s.content /\ t.lenses = s.lenses /\ t.current = s.current
    BY <2>1
  <2>5. MountsInv(t)
    BY <2>2, <2>3, <2>4 DEF MountsInv
  <2> QED
    BY <2>4, <2>5 DEF t
<1> QED
  BY <1>1, <1>2

----------------------------------------------------------------------------
(* Cameras.                                                                *)

CamerasOk(cameras) == \A c, k \in cameras : IsCamera(c) /\ (c.name = k.name => c = k)
Named(cameras, c) == {k \in cameras : k.name = c}
Recropped(cameras, c, crop) ==
  (cameras \ Named(cameras, c)) \cup {[k EXCEPT !.factor = crop] : k \in Named(cameras, c)}

LEMMA CameraRecropped ==
  ASSUME NEW cameras, CamerasOk(cameras), NEW c, NEW crop
  PROVE  /\ CamerasOk(Recropped(cameras, c, crop))
         /\ {k.name : k \in cameras} \subseteq {k.name : k \in Recropped(cameras, c, crop)}
         /\ cameras \ Recropped(cameras, c, crop) \subseteq Named(cameras, c)
<1> DEFINE new == Recropped(cameras, c, crop)
<1>1. \A k \in cameras : /\ IsCamera([k EXCEPT !.factor = crop])
                         /\ [k EXCEPT !.factor = crop].name = k.name
  BY DEF CamerasOk, IsCamera
<1>2. \A k \in new : \E o \in cameras :
        /\ k.name = o.name /\ IsCamera(k)
        /\ k = IF o.name = c THEN [o EXCEPT !.factor = crop] ELSE o
  BY <1>1 DEF Recropped, Named, CamerasOk
<1>3. CamerasOk(new)
  <2> HIDE DEF new
  <2> SUFFICES ASSUME NEW k1 \in new, NEW k2 \in new
               PROVE  IsCamera(k1) /\ (k1.name = k2.name => k1 = k2)
    BY DEF CamerasOk
  <2>1. PICK o1 \in cameras : /\ k1.name = o1.name /\ IsCamera(k1)
                              /\ k1 = IF o1.name = c THEN [o1 EXCEPT !.factor = crop] ELSE o1
    BY <1>2
  <2>2. PICK o2 \in cameras : /\ k2.name = o2.name /\ IsCamera(k2)
                              /\ k2 = IF o2.name = c THEN [o2 EXCEPT !.factor = crop] ELSE o2
    BY <1>2
  <2>3. k1.name = k2.name => o1 = o2
    BY <2>1, <2>2 DEF CamerasOk
  <2> QED
    BY <2>1, <2>2, <2>3
<1>4. \A k \in cameras : \E n \in new : n.name = k.name
  BY <1>1 DEF Recropped, Named
<1> QED
  BY <1>3, <1>4 DEF Recropped

LEMMA CameraAdded ==
  ASSUME NEW cameras, CamerasOk(cameras), NEW camera, IsCamera(camera),
         Named(cameras, camera.name) = {}
  PROVE  CamerasOk(cameras \cup {camera})
BY DEF CamerasOk, Named

(* Of cameras with different names at most one has a given name.           *)
LEMMA OneNamed ==
  ASSUME NEW cameras, CamerasOk(cameras), NEW c, NEW S \in SUBSET Named(cameras, c)
  PROVE  Cardinality(S) <= 1
<1>1. CASE S = {}
  BY <1>1, FS_EmptySet
<1>2. CASE S # {}
  <2>1. PICK k \in S : TRUE
    BY <1>2
  <2>2. S = {k}
    BY <2>1 DEF CamerasOk, Named
  <2> QED
    BY <2>2, FS_Singleton
<1> QED
  BY <1>1, <1>2

----------------------------------------------------------------------------
(* What is written is a database, and the other files stay.                *)
LEMMA FileWritten ==
  ASSUME FileInv, NullIsNothing, NEW f \in Files, NEW n, Written(f, n),
         IsDatabase(n), n.mounts \subseteq KnownMounts
  PROVE  /\ FileInv'
         /\ \A g \in Files \ {f} : file'[g] = file[g]
         /\ file'[f] = file[f] \/ (file'[f] = n /\ n # Null)
<1>1. n # Null
  BY DEF NullIsNothing, IsDatabase
<1>2. /\ DOMAIN file' = Files
      /\ \A g \in Files \ {f} : file'[g] = file[g]
      /\ file'[f] = file[f] \/ file'[f] = n
  BY DEF Written, FileInv
<1> QED
  BY <1>1, <1>2 DEF FileInv

(* The content with other cameras and mounts is that of a database.        *)
LEMMA CamerasSaved ==
  ASSUME NEW d, IsDatabase(d), NEW n, DOMAIN n = DOMAIN d, n.lenses = d.lenses, CamerasOk(n.cameras)
  PROVE  IsDatabase(n)
BY DEF IsDatabase, CamerasOk

(* SaveCameraCrop writes a file with the lenses and mounts it had, with at *)
(* most one camera changed.                                                *)
LEMMA CameraWrites ==
  ASSUME LInv, NullIsNothing, NEW f \in Files, NEW c, NEW m \in Mounts \cup {NoMount}, NEW crop,
         SaveCameraCrop(f, c, m, crop)
  PROVE  \E n : /\ Written(f, n) /\ IsDatabase(n) /\ n.mounts \subseteq KnownMounts
                /\ OnDisk(f).mounts \subseteq n.mounts /\ n.lenses = OnDisk(f).lenses
                /\ {k.name : k \in OnDisk(f).cameras} \subseteq {k.name : k \in n.cameras}
                /\ Cardinality(OnDisk(f).cameras \ n.cameras) <= 1
                /\ DOMAIN save' = DOMAIN save
                /\ save'.db = "null" /\ save'.lenses = Null /\ save'.current \in {-1, 0}
                /\ (save'.mounts = Null) = (save'.mountsOf = Null)
                /\ save'.mountsOf # Null =>
                     /\ save'.mountsOf \in Files /\ save'.mounts \subseteq KnownMounts
                     /\ OnDisk(save'.mountsOf).mounts \subseteq save'.mounts
                     /\ save'.mountsOf = f => n.mounts \subseteq save'.mounts
<1> DEFINE s == Opened(f)
           known == Named(s.content.cameras, c)
           marked == IsNewMount(s, m, f)
<1>1. /\ DOMAIN s = DOMAIN save /\ s.content = OnDisk(f) /\ s.lenses = Null /\ MountsInv(s)
      /\ s.current \in {-1, 0}
      /\ DOMAIN s = {"db", "content", "lenses", "current", "mounts", "mountsOf", "filename"}
  BY OpenedFile DEF LInv, SaveInv, SaveCameraCrop
<1>2. IsDatabase(s.content) /\ s.content.mounts \subseteq KnownMounts /\ CamerasOk(s.content.cameras)
  BY <1>1, OnDiskDatabase DEF LInv, IsDatabase, CamerasOk
<1>3. CASE known # {}
  <2> DEFINE cameras == Recropped(s.content.cameras, c, crop)
             n == [s.content EXCEPT !.mounts = s.content.mounts, !.cameras = cameras]
  <2>1. Written(f, n) /\ save' = [s EXCEPT !.db = "null", !.content = Empty]
    BY <1>3 DEF SaveCameraCrop, Recropped, Named
  <2>2. CamerasOk(cameras) /\ s.content.cameras \ cameras \subseteq known
        /\ {k.name : k \in s.content.cameras} \subseteq {k.name : k \in cameras}
    BY <1>2, CameraRecropped
  <2>3. Cardinality(s.content.cameras \ cameras) <= 1
    BY <1>2, <2>2, OneNamed
  <2> HIDE DEF s, cameras
  <2>4. IsDatabase(n) /\ n.mounts = s.content.mounts /\ n.cameras = cameras
        /\ n.lenses = s.content.lenses
    <3>1. n.mounts = s.content.mounts /\ n.cameras = cameras /\ n.lenses = s.content.lenses
          /\ DOMAIN n = DOMAIN s.content
      BY <1>2 DEF IsDatabase
    <3> HIDE DEF n
    <3> QED
      BY <1>2, <2>2, <3>1, CamerasSaved
  <2> HIDE DEF n
  <2>5. /\ DOMAIN save' = DOMAIN save /\ save'.db = "null" /\ save'.lenses = Null
        /\ save'.mounts = s.mounts /\ save'.mountsOf = s.mountsOf /\ save'.current = s.current
    BY <1>1, <2>1
  <2> QED
    BY <1>1, <1>2, <2>1, <2>2, <2>3, <2>4, <2>5 DEF MountsInv
<1>4. CASE known = {}
  <2> DEFINE camera == [name |-> c, mount |-> IF m = NoMount THEN "Generic" ELSE m, factor |-> crop]
             cameras == s.content.cameras \cup {camera}
             mounts == IF marked.mountsOf = f THEN marked.mounts ELSE s.content.mounts
             n == [s.content EXCEPT !.mounts = mounts, !.cameras = cameras]
  <2>1. Written(f, n) /\ save' = [marked EXCEPT !.db = "null", !.content = Empty]
    BY <1>4 DEF SaveCameraCrop, Named
  <2>2. IsCamera(camera) /\ camera.name = c
    BY DEF IsCamera
  <2>3. /\ DOMAIN marked = DOMAIN s /\ MountsInv(marked) /\ marked.lenses = s.lenses
        /\ marked.current = s.current
        /\ marked.mountsOf \in {f, Null}
        /\ marked.mountsOf = f => s.content.mounts \subseteq marked.mounts
    BY <1>1, MountLookedUp DEF LInv
  <2> HIDE DEF s, camera, marked
  <2>4. CamerasOk(cameras)
    BY <1>2, <1>4, <2>2, CameraAdded
  <2> HIDE DEF cameras
  <2>5. IsDatabase(n) /\ n.mounts = mounts /\ n.cameras = cameras /\ n.lenses = s.content.lenses
    <3>1. n.mounts = mounts /\ n.cameras = cameras /\ n.lenses = s.content.lenses
          /\ DOMAIN n = DOMAIN s.content
      BY <1>2 DEF IsDatabase
    <3> HIDE DEF n
    <3> QED
      BY <1>2, <2>4, <3>1, CamerasSaved
  <2>6. Cardinality(s.content.cameras \ cameras) <= 1
    <3>1. s.content.cameras \ cameras = {}
      BY DEF cameras
    <3> QED
      BY <3>1, FS_EmptySet
  <2>7. {k.name : k \in s.content.cameras} \subseteq {k.name : k \in cameras}
    BY DEF cameras
  <2>8. mounts \subseteq KnownMounts /\ s.content.mounts \subseteq mounts
    BY <1>2, <2>3, LensConstants DEF MountsInv
  <2> HIDE DEF n
  <2>9. /\ DOMAIN save' = DOMAIN save /\ save'.db = "null" /\ save'.lenses = Null
        /\ save'.mounts = marked.mounts /\ save'.mountsOf = marked.mountsOf
        /\ save'.current = marked.current
    BY <1>1, <2>1, <2>3
  <2>10. marked.mountsOf = f => mounts = marked.mounts
    OBVIOUS
  <2> HIDE DEF mounts
  <2> QED
    BY <1>1, <2>1, <2>3, <2>5, <2>6, <2>7, <2>8, <2>9, <2>10 DEF MountsInv
<1> QED
  BY <1>3, <1>4

----------------------------------------------------------------------------
(* The steps of a save.                                                    *)

(* Nothing is written: files and saves stay as they are.                   *)
LEMMA NothingSaved ==
  LInv /\ UNCHANGED <<file, save>> /\ (rejected => rejected') => FileInv' /\ SaveInv'
BY DEF LInv, FileInv, SaveInv, MountsInv, LensesInv, OnDisk

(* The file is untouched, and no list of lenses is left.                   *)
LEMMA NotOpenKeeps ==
  ASSUME LInv, UNCHANGED file, DOMAIN save' = DOMAIN save,
         save'.db \in {"null", "gone"}, save'.db = "gone" => rejected', save'.lenses = Null,
         save'.current \in {-1, 0},
         NEW s, MountsInv(s), save'.mounts = s.mounts, save'.mountsOf = s.mountsOf
  PROVE  FileInv' /\ SaveInv'
BY DEF LInv, FileInv, SaveInv, MountsInv, OnDisk

LEMMA CameraKeeps ==
  ASSUME LInv, NullIsNothing, NEW f \in Files, NEW c, NEW m \in Mounts \cup {NoMount}, NEW crop,
         SaveCameraCrop(f, c, m, crop)
  PROVE  FileInv' /\ SaveInv'
<1>1. PICK n :
        /\ Written(f, n) /\ IsDatabase(n) /\ n.mounts \subseteq KnownMounts
        /\ DOMAIN save' = DOMAIN save
        /\ save'.db = "null" /\ save'.lenses = Null /\ save'.current \in {-1, 0}
        /\ (save'.mounts = Null) = (save'.mountsOf = Null)
        /\ save'.mountsOf # Null =>
             /\ save'.mountsOf \in Files /\ save'.mounts \subseteq KnownMounts
             /\ OnDisk(save'.mountsOf).mounts \subseteq save'.mounts
             /\ save'.mountsOf = f => n.mounts \subseteq save'.mounts
  BY CameraWrites
<1>2. /\ FileInv' /\ \A g \in Files \ {f} : file'[g] = file[g]
      /\ file'[f] = file[f] \/ (file'[f] = n /\ n # Null)
  BY <1>1, FileWritten DEF LInv
<1> DEFINE after(g) == IF file'[g] = Null THEN Empty ELSE file'[g]
<1>3. save'.mountsOf # Null => after(save'.mountsOf).mounts \subseteq save'.mounts
  <2>1. CASE save'.mountsOf = f
    BY <1>1, <1>2, <2>1 DEF OnDisk
  <2>2. CASE save'.mountsOf # f
    BY <1>1, <1>2, <2>2 DEF OnDisk
  <2> QED
    BY <2>1, <2>2
<1>4. MountsInv(save)'
  BY <1>1, <1>3 DEF MountsInv, OnDisk
<1> QED
  BY <1>1, <1>2, <1>4 DEF SaveInv, LInv

LEMMA RefusedKeeps ==
  ASSUME LInv, NullIsNothing, NEW f \in Files, NEW n, NEW m, NEW p, NEW crop, BeginRefused(f, n, m, p, crop)
  PROVE  FileInv' /\ SaveInv'
<1> DEFINE s == Opened(f)
<1>1. /\ save' = [s EXCEPT !.db = "gone", !.content = Empty, !.filename = f]
      /\ rejected' = TRUE /\ UNCHANGED file
  BY DEF BeginRefused
<1>2. DOMAIN s = DOMAIN save /\ s.lenses = Null /\ MountsInv(s) /\ s.current \in {-1, 0}
  BY OpenedFile DEF LInv, BeginRefused
<1> HIDE DEF s
<1>3. /\ DOMAIN save' = DOMAIN save /\ save'.db = "gone" /\ save'.lenses = Null
      /\ save'.mounts = s.mounts /\ save'.mountsOf = s.mountsOf /\ save'.current = s.current
  BY <1>1, <1>2 DEF LInv, SaveInv
<1> QED
  BY <1>1, <1>2, <1>3, NotOpenKeeps

LEMMA ProjectionSet ==
  ASSUME NEW l, IsLens(l), NEW p
  PROVE  IsLens(TranslateProjectionHugin2LF(l, p)) /\ TranslateProjectionHugin2LF(l, p).name = l.name
BY DEF IsLens, TranslateProjectionHugin2LF

(* A lens that was found: the last one of its name and mount is one of the *)
(* list.                                                                   *)
LEMMA CurrentFound ==
  ASSUME NEW s, IsDatabase(s.content), NEW n, NEW m, NEW i \in OldLenses(s, n, m)
  PROVE  LET old == OldLenses(s, n, s.content.lenses[i].mount)
         IN  (CHOOSE j \in old : \A k \in old : k <= j) \in DOMAIN s.content.lenses
<1> DEFINE old == OldLenses(s, n, s.content.lenses[i].mount)
<1>1. DOMAIN s.content.lenses = 1..Len(s.content.lenses) /\ Len(s.content.lenses) \in Nat
  BY DatabaseLenses
<1>2. i \in old /\ old \subseteq DOMAIN s.content.lenses
  BY DEF OldLenses
<1> HIDE DEF old
<1>3. \E j \in old : \A k \in old : k <= j
  BY <1>1, <1>2, LargestIndex
<1>4. (CHOOSE j \in old : \A k \in old : k <= j) \in old
  BY <1>3
<1> QED
  BY <1>2, <1>4 DEF old

(* A save has begun: its lenses are those of the file, or those and one.   *)
LEMMA NewKeeps ==
  ASSUME LInv, NullIsNothing, NEW f \in Files, NEW n, NEW m \in Mounts \cup {NoMount}, NEW p, NEW crop,
         BeginNew(f, n, m, p, crop)
  PROVE  FileInv' /\ SaveInv'
<1> DEFINE s == IsNewMount(Opened(f), m, f)
           l == [NewLens EXCEPT !.name = n, !.factor = crop, !.mount = IF m = NoMount THEN "Generic" ELSE m]
           new == TranslateProjectionHugin2LF(l, p)
<1>1. /\ save' = [s EXCEPT !.lenses = Append(s.content.lenses, new),
                           !.current = Len(s.content.lenses) + 1, !.filename = f]
      /\ UNCHANGED <<file, rejected>>
  BY DEF BeginNew
<1>2. /\ DOMAIN Opened(f) = DOMAIN save /\ Opened(f).db = "open" /\ Opened(f).content = OnDisk(f)
      /\ DOMAIN save = {"db", "content", "lenses", "current", "mounts", "mountsOf", "filename"}
  BY OpenedFile DEF LInv, BeginNew, SaveInv
<1>3. DOMAIN s = DOMAIN save /\ MountsInv(s) /\ s.db = "open" /\ s.content = OnDisk(f)
  BY <1>2, MountLookedUp DEF LInv
<1>4. IsLens(new)
  <2>1. IsLens(l)
    BY DEF IsLens, NewLens
  <2> QED
    BY <2>1, ProjectionSet
<1>5. IsDatabase(s.content)
  BY <1>3, OnDiskDatabase DEF LInv
<1> HIDE DEF s, new
<1> DEFINE old == s.content.lenses
           lenses == Append(old, new)
<1>6. old \in Seq(Range1(old)) /\ (\A i \in DOMAIN old : IsLens(old[i])) /\ DOMAIN old = 1..Len(old)
      /\ Len(old) \in Nat
  BY <1>5, DatabaseLenses DEF IsDatabase
<1> HIDE DEF old
<1>7. /\ Len(lenses) = Len(old) + 1 /\ DOMAIN lenses = 1..Len(old) + 1
      /\ \A i \in 1..Len(old) : lenses[i] = old[i]
      /\ lenses[Len(old) + 1] = new
      /\ lenses \in Seq(Range1(old) \cup {new})
  <2>1. old \in Seq(Range1(old) \cup {new})
    BY <1>6, SeqMonotonic
  <2> QED
    BY <1>6, <2>1, AppendProperties
<1> HIDE DEF lenses
<1>8. \A i \in DOMAIN lenses : IsLens(lenses[i])
  BY <1>4, <1>6, <1>7
<1>9. Range1(lenses) = Range1(old) \cup {new}
  BY <1>6, <1>7 DEF Range1
<1>10. /\ DOMAIN save' = DOMAIN save /\ save'.db = "open" /\ save'.content = OnDisk(f)
       /\ save'.lenses = lenses /\ save'.current = Len(old) + 1 /\ save'.filename = f
       /\ save'.mounts = s.mounts /\ save'.mountsOf = s.mountsOf
  BY <1>1, <1>2, <1>3 DEF lenses, old
<1>11. LensesInv'
  <2>1. lenses \in Seq(Range1(lenses)) /\ \A x \in Range1(lenses) : IsLens(x)
    BY <1>7, <1>8, <1>9 DEF Range1
  <2>2. Len(old) + 1 \in DOMAIN lenses
    BY <1>6, <1>7
  <2>3. \A i \in DOMAIN old : i \in DOMAIN lenses /\ lenses[i] = old[i]
    BY <1>6, <1>7
  <2>4. save'.content.lenses = old
    BY <1>3, <1>10 DEF old
  <2> QED
    BY <1>10, <2>1, <2>2, <2>3, <2>4 DEF LensesInv, Range1
<1>12. MountsInv(save)'
  BY <1>1, <1>3, <1>10 DEF MountsInv, OnDisk
<1> QED
  BY <1>1, <1>2, <1>10, <1>11, <1>12 DEF LInv, SaveInv, FileInv, OnDisk

LEMMA UpdateKeeps ==
  ASSUME LInv, NullIsNothing, NEW f \in Files, NEW n, NEW m, NEW p, NEW crop,
         BeginUpdate(f, n, m, p, crop)
  PROVE  FileInv' /\ SaveInv'
<1> DEFINE s == Opened(f)
<1>1. PICK i \in OldLenses(s, n, m) :
        save' = [s EXCEPT !.lenses = s.content.lenses, !.filename = f,
                   !.current = CHOOSE j \in OldLenses(s, n, s.content.lenses[i].mount) :
                                 \A k \in OldLenses(s, n, s.content.lenses[i].mount) : k <= j]
  BY DEF BeginUpdate
<1>2. UNCHANGED <<file, rejected>>
  BY DEF BeginUpdate
<1>3. /\ DOMAIN s = DOMAIN save /\ s.db = "open" /\ s.content = OnDisk(f) /\ MountsInv(s)
      /\ DOMAIN save = {"db", "content", "lenses", "current", "mounts", "mountsOf", "filename"}
  BY OpenedFile DEF LInv, BeginUpdate, SaveInv
<1>4. IsDatabase(s.content)
  BY <1>3, OnDiskDatabase DEF LInv
<1> HIDE DEF s
<1>5. /\ DOMAIN save' = DOMAIN save /\ save'.db = "open" /\ save'.content = OnDisk(f)
      /\ save'.lenses = s.content.lenses /\ save'.filename = f
      /\ save'.mounts = s.mounts /\ save'.mountsOf = s.mountsOf
  BY <1>1, <1>3
<1>6. save'.current \in DOMAIN s.content.lenses
  BY <1>1, <1>3, <1>4, CurrentFound
<1>7. LensesInv'
  BY <1>3, <1>4, <1>5, <1>6 DEF LensesInv, IsDatabase, Range1
<1>8. MountsInv(save)'
  BY <1>2, <1>3, <1>5 DEF MountsInv, OnDisk
<1> QED
  BY <1>2, <1>3, <1>5, <1>7, <1>8 DEF LInv, SaveInv, FileInv, OnDisk

(* A calibration changes the current lens alone, and nothing without one.  *)
LEMMA CalibrateKeeps ==
  ASSUME LInv, NEW kind \in Kinds, NEW entries, Calibrate(kind, entries)
  PROVE  FileInv' /\ SaveInv' /\ WildInv'
<1>1. UNCHANGED <<file, rejected, main>>
  BY DEF Calibrate, Saving
<1>2. WildInv'
  <2> SUFFICES ASSUME wild' PROVE strayed'
    BY DEF WildInv
  <2>1. save.current = -1
    BY DEF Calibrate
  <2>2. save.db # "open"
    <3> SUFFICES ASSUME save.db = "open" PROVE FALSE
      OBVIOUS
    <3>1. save.lenses \in Seq(Range1(save.lenses)) /\ save.current \in DOMAIN save.lenses
      BY DEF LInv, SaveInv, LensesInv
    <3>2. save.current \in 1..Len(save.lenses)
      BY <3>1
    <3> QED
      BY <2>1, <3>2
  <2> QED
    BY <2>2 DEF Calibrate
<1>3. CASE save.current < 1
  <2>1. UNCHANGED save
    BY <1>3 DEF Calibrate
  <2> QED
    BY <1>1, <1>2, <2>1, NothingSaved
<1>4. CASE ~(save.current < 1)
  <2>1. save.db = "open" /\ LensesInv
    BY <1>4 DEF LInv, SaveInv
  <2>2. /\ save.lenses \in Seq(Range1(save.lenses)) /\ save.current \in 1..Len(save.lenses)
        /\ DOMAIN save.lenses = 1..Len(save.lenses)
    BY <2>1 DEF LensesInv
  <2> DEFINE cur == save.current
             lens == [save.lenses[cur] EXCEPT !.calib = [@ EXCEPT ![kind] = entries]]
             lenses == [save.lenses EXCEPT ![cur] = lens]
  <2>3. save' = [save EXCEPT !.lenses = lenses]
    BY <1>4 DEF Calibrate
  <2>4. IsLens(lens) /\ lens.name = save.lenses[cur].name
    BY <2>1, <2>2 DEF LensesInv, IsLens, Range1
  <2> HIDE DEF lens
  <2>5. /\ DOMAIN lenses = DOMAIN save.lenses /\ lenses[cur] = lens
        /\ \A i \in DOMAIN save.lenses : i # cur => lenses[i] = save.lenses[i]
    BY <2>2
  <2>6. lenses \in Seq(Range1(lenses))
    <3>1. Len(save.lenses) \in Nat
      BY <2>2
    <3>2. lenses \in [1..Len(save.lenses) -> Range1(lenses)]
      <4>1. lenses = [i \in 1..Len(save.lenses) |-> lenses[i]]
        BY <2>2
      <4> HIDE DEF lenses
      <4>2. \A i \in 1..Len(save.lenses) : lenses[i] \in Range1(lenses)
        BY <2>2, <2>5 DEF Range1
      <4> QED
        BY <4>1, <4>2
    <3> HIDE DEF lenses
    <3>3. Seq(Range1(lenses)) = UNION {[1..n -> Range1(lenses)] : n \in Nat}
      BY SeqDef, Zenon
    <3> QED
      BY <3>1, <3>2, <3>3, Zenon
  <2> HIDE DEF lenses
  <2>7. /\ DOMAIN save' = DOMAIN save /\ save'.lenses = lenses
        /\ save'.db = save.db /\ save'.content = save.content /\ save'.current = cur
        /\ save'.mounts = save.mounts /\ save'.mountsOf = save.mountsOf /\ save'.filename = save.filename
    BY <2>3 DEF LInv, SaveInv
  <2>8. \A l \in Range1(lenses) : IsLens(l)
    BY <2>1, <2>2, <2>4, <2>5 DEF LensesInv, Range1
  <2>9. \A i \in DOMAIN save.content.lenses :
          /\ i \in DOMAIN lenses /\ lenses[i].name = save.content.lenses[i].name
          /\ lenses[i] # save.content.lenses[i] => i = cur
    BY <2>1, <2>4, <2>5 DEF LensesInv
  <2>10. LensesInv'
    BY <2>2, <2>5, <2>6, <2>7, <2>8, <2>9 DEF LensesInv
  <2>11. MountsInv(save)'
    BY <1>1, <2>7 DEF LInv, SaveInv, MountsInv, OnDisk
  <2>12. FileInv'
    BY <1>1 DEF LInv, FileInv
  <2> QED
    BY <1>1, <1>2, <2>1, <2>7, <2>10, <2>11, <2>12 DEF LInv, SaveInv, OnDisk
<1> QED
  BY <1>3, <1>4

(* EndSaveLens writes the file it was begun for, with the lenses kept but  *)
(* for the current one, and forgets the save.                              *)
LEMMA EndWrites ==
  ASSUME LInv, NullIsNothing, EndSaveLens
  PROVE  LET f == save.filename
             n == [save.content EXCEPT !.mounts = MountsToSave(save), !.lenses = save.lenses]
         IN  /\ f \in Files /\ save.content = OnDisk(f) /\ Written(f, n)
             /\ IsDatabase(n) /\ n.mounts \subseteq KnownMounts
             /\ n.cameras = OnDisk(f).cameras /\ n.lenses = save.lenses
             /\ save.mountsOf \in {Null, f} => OnDisk(f).mounts \subseteq n.mounts
<1> DEFINE f == save.filename
           n == [save.content EXCEPT !.mounts = MountsToSave(save), !.lenses = save.lenses]
<1>1. /\ f \in Files /\ save.content = OnDisk(f) /\ LensesInv /\ MountsInv(save) /\ Written(f, n)
  BY DEF LInv, SaveInv, EndSaveLens
<1>2. IsDatabase(save.content) /\ save.content.mounts \subseteq KnownMounts
  BY <1>1, OnDiskDatabase DEF LInv
<1>3. /\ DOMAIN n = {"mounts", "cameras", "lenses"} /\ n.mounts = MountsToSave(save)
      /\ n.cameras = save.content.cameras /\ n.lenses = save.lenses
  BY <1>2 DEF IsDatabase
<1>4. MountsToSave(save) \subseteq KnownMounts
  BY <1>1, <1>2 DEF MountsToSave, MountsInv
<1>5. save.mountsOf \in {Null, f} => save.content.mounts \subseteq MountsToSave(save)
  BY <1>1 DEF MountsToSave, MountsInv
<1> HIDE DEF n
<1>6. IsDatabase(n)
  BY <1>1, <1>2, <1>3 DEF IsDatabase, LensesInv
<1> QED
  BY <1>1, <1>3, <1>4, <1>5, <1>6 DEF n

LEMMA EndKeeps == ASSUME LInv, NullIsNothing, EndSaveLens PROVE FileInv' /\ SaveInv'
<1>1. FileInv'
  BY EndWrites, FileWritten DEF LInv
<1>2. save' = [CleanSaveInformation(save) EXCEPT !.filename = Null] /\ save.db = "open"
  BY DEF EndSaveLens
<1>3. save.lenses # Null
  BY <1>2 DEF LInv, SaveInv, LensesInv, NullIsNothing
<1>4. /\ DOMAIN save' = DOMAIN save /\ save'.db = "null" /\ save'.lenses = Null /\ save'.current = -1
      /\ save'.mounts = Null /\ save'.mountsOf = Null
  BY <1>2, <1>3 DEF LInv, SaveInv, CleanSaveInformation, CleanUpdatedMounts
<1>5. MountsInv(save)'
  BY <1>4 DEF MountsInv
<1> QED
  BY <1>1, <1>4, <1>5 DEF LInv, SaveInv

LEMMA CleanKeeps == LInv /\ Clean => FileInv' /\ SaveInv' /\ WildInv'
<1> SUFFICES ASSUME LInv, Clean PROVE FileInv' /\ SaveInv' /\ WildInv'
  OBVIOUS
<1>1. /\ DOMAIN save' = DOMAIN save /\ save'.db = "null" /\ save'.lenses = Null /\ save'.current = 0
      /\ save'.mounts = Null /\ save'.mountsOf = Null /\ UNCHANGED <<file, rejected>>
  BY DEF Clean, LInv, SaveInv
<1>2. MountsInv(save)'
  BY <1>1 DEF MountsInv
<1>3. WildInv'
  BY DEF LInv, SaveInv, WildInv, Clean, TwiceDestroyed
<1> QED
  BY <1>1, <1>2, <1>3 DEF LInv, SaveInv, FileInv

(* Undefined behaviour needs a lens that was refused, a call out of order  *)
(* or a missing main database.                                             *)
LEMMA WildKeeps ==
  ASSUME LInv, NEW f \in Files, NEW c, NEW n, NEW m,
         SaveCameraWild(f, c) \/ BeginWild(f, n, m) \/ EndWild
  PROVE  FileInv' /\ SaveInv' /\ WildInv'
<1>1. GoWild /\ (save.db = "gone" \/ main = Null)
  BY DEF SaveCameraWild, BeginWild, EndWild, TwiceDestroyed
<1> QED
  BY <1>1, NothingSaved DEF GoWild, Saving, LInv, SaveInv, WildInv

LEMMA LInitially == LInit => LInv
<1> SUFFICES ASSUME LInit PROVE LInv
  OBVIOUS
<1>1. FileInv
  BY ContentConstants DEF LInit, FileInv, KnownMounts
<1>2. SaveInv
  BY DEF LInit, SaveInv, MountsInv
<1> QED
  BY <1>1, <1>2 DEF LInit, LInv, WildInv

LEMMA CalibrationsCalibrate ==
  ASSUME NEW at, Calibrations(at)
  PROVE  \E kind \in Kinds : \E entries : Calibrate(kind, entries)
BY DEF Calibrations, SaveHFOV, SaveCrop, SaveDistortion, SaveVignetting, Kinds

LEMMA LKeeps == NullIsNothing /\ LInv /\ [LNext]_lvars => LInv'
<1> SUFFICES ASSUME NullIsNothing, LInv, [LNext]_lvars PROVE LInv'
  OBVIOUS
<1>1. CASE ReloadUserPart \/ Query \/ \E n \in Names \cup {"", "Standard"}, c \in Cameras : FindLens(n, c)
  <2>1. ~wild /\ Reading
    BY <1>1 DEF ReloadUserPart, Query, FindLens, Call
  <2> QED
    BY <2>1, NothingSaved DEF Reading, LInv, WildInv
<1>2. CASE EndSaveLens
  BY <1>2, EndKeeps DEF EndSaveLens, Call, LInv, WildInv
<1>3. CASE EndWithout
  BY <1>3, NothingSaved DEF EndWithout, Call, LInv, WildInv
<1>4. CASE Clean
  BY <1>4, CleanKeeps DEF LInv
<1>5. CASE EndWild
  BY <1>5, WildKeeps, LensConstants DEF LInv
<1>6. CASE Done \/ UNCHANGED lvars
  BY <1>6, NothingSaved DEF Done, lvars, LInv, WildInv
<1>7. CASE \E at \in Focals : Calibrations(at)
  BY <1>7, CalibrationsCalibrate, CalibrateKeeps DEF LInv
<1>8. ASSUME NEW f \in Files, NEW m \in Mounts \cup {NoMount}, NEW crop \in Factors, Steps(f, m, crop)
      PROVE  LInv'
  <2>1. ASSUME NEW c \in Cameras, SaveCameraCrop(f, c, m, crop) PROVE LInv'
    <3>1. ~wild /\ wild' = wild
      BY <2>1 DEF SaveCameraCrop, Call
    <3>2. FileInv' /\ SaveInv'
      BY <2>1, CameraKeeps
    <3> QED
      BY <3>1, <3>2 DEF LInv, WildInv
  <2>2. ASSUME NEW c \in Cameras, SaveCameraWild(f, c) PROVE LInv'
    BY <2>2, WildKeeps DEF LInv
  <2>3. ASSUME NEW n \in Names, NEW p \in Projections, BeginRefused(f, n, m, p, crop) PROVE LInv'
    BY <2>3, RefusedKeeps DEF BeginRefused, Call, LInv, WildInv
  <2>4. ASSUME NEW n \in Names, NEW p \in Projections, BeginNew(f, n, m, p, crop) PROVE LInv'
    BY <2>4, NewKeeps DEF BeginNew, Call, LInv, WildInv
  <2>5. ASSUME NEW n \in Names, NEW p \in Projections, BeginUpdate(f, n, m, p, crop) PROVE LInv'
    <3>1. ~wild /\ wild' = wild
      BY <2>5 DEF BeginUpdate, Call
    <3>2. FileInv' /\ SaveInv'
      BY <2>5, UpdateKeeps
    <3> QED
      BY <3>1, <3>2 DEF LInv, WildInv
  <2>6. ASSUME NEW n \in Names, BeginWild(f, n, m) PROVE LInv'
    BY <2>6, WildKeeps DEF LInv
  <2> QED
    BY <1>8, <2>1, <2>2, <2>3, <2>4, <2>5, <2>6 DEF Steps
<1> QED
  BY <1>1, <1>2, <1>3, <1>4, <1>5, <1>6, <1>7, <1>8 DEF LNext

(***************************************************************************)
(* However the procedures are called, an array of lenses is there exactly  *)
(* while a save is open and the current lens is one of them, and memory is *)
(* misused only after a refused lens, outside of Begin and End, or without *)
(* a main database.                                                        *)
(***************************************************************************)
THEOREM LensMemorySafe == ASSUME NullIsNothing PROVE LSpec => []MemorySafe
<1>1. LInv => MemorySafe
  <2> SUFFICES ASSUME LInv PROVE MemorySafe
    OBVIOUS
  <2>1. save.db = "open" => save.lenses # Null
    BY DEF LInv, SaveInv, LensesInv, NullIsNothing
  <2> QED
    BY <2>1 DEF LInv, SaveInv, MountsInv, LensesInv, WildInv, MemorySafe, SaveVariables
<1> QED
  BY <1>1, LInitially, LKeeps, PTL DEF LSpec

----------------------------------------------------------------------------
(* Calibrations.                                                           *)

OnceEach(entries) == \A d, e \in entries : d.at = e.at => d = e

LEMMA WithoutOneOnce ==
  ASSUME NEW entries, OnceEach(entries), NEW at
  PROVE  /\ OnceEach(WithoutOne(entries, at))
         /\ \A e \in WithoutOne(entries, at) : e \in entries /\ e.at # at
<1> DEFINE same == {e \in entries : e.at = at}
<1>1. CASE same = {}
  BY <1>1 DEF WithoutOne, OnceEach
<1>2. CASE same # {}
  <2> DEFINE gone == CHOOSE e \in same : TRUE
  <2>1. WithoutOne(entries, at) = entries \ {gone}
    BY <1>2 DEF WithoutOne
  <2>2. gone \in same
    BY <1>2
  <2> HIDE DEF gone
  <2> QED
    BY <2>1, <2>2 DEF OnceEach
<1> QED
  BY <1>1, <1>2

LEMMA ReplacedOnce ==
  ASSUME NEW entries, OnceEach(entries), NEW at, NEW value
  PROVE  /\ OnceEach(Replaced(entries, at, value))
         /\ \A e \in Replaced(entries, at, value) : e.at = at \/ e \in entries
<1> DEFINE new == [at |-> at, value |-> value]
<1>1. Replaced(entries, at, value) = WithoutOne(entries, at) \cup {new} /\ new.at = at
  BY DEF Replaced
<1> HIDE DEF new
<1> QED
  BY <1>1, WithoutOneOnce DEF OnceEach

LEMMA OneCalibrationFields ==
  ASSUME NEW l
  PROVE  OneCalibration(l) <=>
           /\ \A k \in Kinds : OnceEach(l.calib[k])
           /\ (\E e \in l.calib["crop"] : e.at = 0) => Cardinality(l.calib["crop"]) = 1
BY DEF OneCalibration, OnceEach

(* A new lens has no calibration but the full crop of a circular fisheye.  *)
LEMMA NewOnce ==
  ASSUME NEW l, IsLens(l), \A k \in Kinds : l.calib[k] = {}, NEW p
  PROVE  OneCalibration(TranslateProjectionHugin2LF(l, p))
<1> DEFINE new == TranslateProjectionHugin2LF(l, p)
           standIn == [at |-> 0, value |-> "circle"]
<1>1. /\ \A k \in Kinds \ {"crop"} : new.calib[k] = {}
      /\ new.calib["crop"] \in {{}, {standIn}}
  BY DEF TranslateProjectionHugin2LF, IsLens, Kinds
<1> HIDE DEF new
<1>2. Cardinality({standIn}) = 1
  BY FS_Singleton
<1> HIDE DEF standIn
<1>3. \A k \in Kinds : OnceEach(new.calib[k])
  BY <1>1 DEF OnceEach, Kinds
<1>4. (\E e \in new.calib["crop"] : e.at = 0) => Cardinality(new.calib["crop"]) = 1
  BY <1>1, <1>2
<1> QED
  BY <1>3, <1>4, OneCalibrationFields DEF new

(* What is saved for a lens has one entry for a focal length, and a crop   *)
(* none for focal length 0.                                                *)
LEMMA CalibrationOnce ==
  ASSUME LInv, CalibInv, NEW at \in Focals, Calibrations(at)
  PROVE  \E kind \in Kinds : \E entries :
           /\ Calibrate(kind, entries) /\ OnceEach(entries)
           /\ kind = "crop" => \A e \in entries : e.at # 0
<1>1. \A kind \in Kinds : OnceEach(Saved(kind))
  <2>1. CASE save.current < 1
    BY <2>1 DEF Saved, OnceEach
  <2>2. CASE ~(save.current < 1)
    <3>1. save.db = "open" /\ save.current \in DOMAIN save.lenses
      BY <2>2 DEF LInv, SaveInv, LensesInv
    <3>2. OneCalibration(save.lenses[save.current])
      BY <3>1 DEF CalibInv
    <3> QED
      BY <2>2, <3>2, OneCalibrationFields DEF Saved
  <2> QED
    BY <2>1, <2>2
<1>2. ASSUME NEW v, SaveHFOV(at, v)
      PROVE  \E entries : Calibrate("fov", entries) /\ OnceEach(entries)
  <2>1. OnceEach(Replaced(Saved("fov"), at, v))
    BY <1>1, ReplacedOnce DEF Kinds
  <2> QED
    BY <1>2, <2>1 DEF SaveHFOV
<1>3. ASSUME NEW v, SaveDistortion(at, v)
      PROVE  \E entries : Calibrate("distortion", entries) /\ OnceEach(entries)
  <2> DEFINE value == [model |-> "ptlens", terms |-> SubSeq(v, 1, 3)]
  <2>1. OnceEach(Replaced(Saved("distortion"), at, value)) /\ OnceEach(Saved("distortion"))
    BY <1>1, ReplacedOnce DEF Kinds
  <2> QED
    BY <1>3, <2>1 DEF SaveDistortion
<1>4. ASSUME NEW v, SaveVignetting(at, v)
      PROVE  \E entries : Calibrate("vignetting", entries) /\ OnceEach(entries)
  <2> DEFINE value == [model |-> "pa", terms |-> SubSeq(v, 2, 4)]
  <2>1. OnceEach(Replaced(Saved("vignetting"), at, value)) /\ OnceEach(Saved("vignetting"))
    BY <1>1, ReplacedOnce DEF Kinds
  <2> QED
    BY <1>4, <2>1 DEF SaveVignetting
<1>5. ASSUME NEW mode, SaveCrop(at, mode)
      PROVE  \E entries : /\ Calibrate("crop", entries) /\ OnceEach(entries)
                          /\ \A e \in entries : e.at # 0
  <2> DEFINE rest == WithoutOne(Saved("crop"), 0)
  <2>1. OnceEach(rest) /\ \A e \in rest : e.at # 0
    BY <1>1, WithoutOneOnce DEF Kinds
  <2>2. SaveCrop(at, mode) = Calibrate("crop", IF mode = "none" THEN WithoutOne(rest, at)
                                               ELSE Replaced(rest, at, mode))
    BY DEF SaveCrop
  <2> HIDE DEF rest
  <2>3. OnceEach(WithoutOne(rest, at)) /\ \A e \in WithoutOne(rest, at) : e.at # 0
    BY <2>1, WithoutOneOnce
  <2>4. OnceEach(Replaced(rest, at, mode)) /\ \A e \in Replaced(rest, at, mode) : e.at # 0
    BY <2>1, ReplacedOnce, LensConstants
  <2> QED
    BY <1>5, <2>2, <2>3, <2>4
<1> QED
  BY <1>2, <1>3, <1>4, <1>5 DEF Calibrations, Kinds

LEMMA CalibrateOnce ==
  ASSUME LInv, CalibInv, NEW kind \in Kinds, NEW entries, Calibrate(kind, entries), OnceEach(entries),
         kind = "crop" => \A e \in entries : e.at # 0
  PROVE  CalibInv'
<1>1. UNCHANGED file
  BY DEF Calibrate
<1>2. CASE save.current < 1
  BY <1>1, <1>2 DEF Calibrate, CalibInv, CalibratedOnce
<1>3. CASE ~(save.current < 1)
  <2>1. save.db = "open" /\ save.current \in DOMAIN save.lenses
        /\ IsLens(save.lenses[save.current])
    BY <1>3 DEF LInv, SaveInv, LensesInv, Range1
  <2> DEFINE cur == save.current
             lens == [save.lenses[cur] EXCEPT !.calib = [@ EXCEPT ![kind] = entries]]
             lenses == [save.lenses EXCEPT ![cur] = lens]
  <2>2. save' = [save EXCEPT !.lenses = lenses]
    BY <1>3 DEF Calibrate
  <2>3. OneCalibration(save.lenses[cur])
    BY <2>1 DEF CalibInv
  <2>4. \A k \in Kinds : lens.calib[k] = IF k = kind THEN entries ELSE save.lenses[cur].calib[k]
    BY <2>1 DEF IsLens
  <2> HIDE DEF lens
  <2>5. OneCalibration(lens)
    <3>1. \A k \in Kinds : OnceEach(lens.calib[k])
      BY <2>3, <2>4, OneCalibrationFields
    <3>2. (\E e \in lens.calib["crop"] : e.at = 0) => Cardinality(lens.calib["crop"]) = 1
      BY <2>3, <2>4, OneCalibrationFields DEF Kinds
    <3> QED
      BY <3>1, <3>2, OneCalibrationFields
  <2>6. \A i \in DOMAIN lenses : OneCalibration(lenses[i])
    <3>1. DOMAIN lenses = DOMAIN save.lenses
          /\ \A i \in DOMAIN lenses : lenses[i] = IF i = cur THEN lens ELSE save.lenses[i]
      BY <2>1
    <3> HIDE DEF lenses
    <3> QED
      BY <2>1, <2>5, <3>1 DEF CalibInv
  <2> HIDE DEF lenses
  <2>7. save'.lenses = lenses
    BY <2>2 DEF LInv, SaveInv
  <2> QED
    BY <1>1, <2>6, <2>7 DEF CalibInv, CalibratedOnce
<1> QED
  BY <1>2, <1>3

(* What is written has lenses of one calibration each.                     *)
LEMMA WrittenOnce ==
  ASSUME FileInv, NullIsNothing, CalibratedOnce, NEW f \in Files, NEW n, Written(f, n), IsDatabase(n),
         n.mounts \subseteq KnownMounts, \A i \in DOMAIN n.lenses : OneCalibration(n.lenses[i])
  PROVE  CalibratedOnce'
<1>1. /\ \A g \in Files \ {f} : file'[g] = file[g]
      /\ file'[f] = file[f] \/ file'[f] = n
  BY FileWritten
<1>2. ASSUME NEW g \in Files, file'[g] # Null, NEW i \in DOMAIN file'[g].lenses
      PROVE  OneCalibration(file'[g].lenses[i])
  BY <1>1, <1>2 DEF CalibratedOnce
<1>3. QED
  BY <1>2 DEF CalibratedOnce, OneCalibration

LEMMA OnDiskOnce ==
  ASSUME CalibratedOnce, NEW f \in Files, NEW i \in DOMAIN OnDisk(f).lenses
  PROVE  OneCalibration(OnDisk(f).lenses[i])
BY EmptyDatabase DEF CalibratedOnce, OnDisk

LEMMA NewLensOnce ==
  ASSUME LInv, NullIsNothing, CalibInv, NEW f \in Files, NEW n, NEW m \in Mounts \cup {NoMount},
         NEW p, NEW crop, BeginNew(f, n, m, p, crop)
  PROVE  CalibInv'
<1> DEFINE s == IsNewMount(Opened(f), m, f)
           l == [NewLens EXCEPT !.name = n, !.factor = crop, !.mount = IF m = NoMount THEN "Generic" ELSE m]
           new == TranslateProjectionHugin2LF(l, p)
<1>1. save' = [s EXCEPT !.lenses = Append(s.content.lenses, new),
                        !.current = Len(s.content.lenses) + 1, !.filename = f]
      /\ UNCHANGED file
  BY DEF BeginNew
<1>2. /\ DOMAIN Opened(f) = DOMAIN save /\ Opened(f).content = OnDisk(f)
      /\ DOMAIN save = {"db", "content", "lenses", "current", "mounts", "mountsOf", "filename"}
  BY OpenedFile DEF LInv, BeginNew, SaveInv
<1>3. DOMAIN s = DOMAIN save /\ s.content = OnDisk(f)
  BY <1>2, MountLookedUp DEF LInv
<1>4. OneCalibration(new)
  <2>1. IsLens(l) /\ \A k \in Kinds : l.calib[k] = {}
    BY DEF IsLens, NewLens
  <2> HIDE DEF l
  <2> QED
    BY <2>1, NewOnce
<1> HIDE DEF s, new
<1> DEFINE old == OnDisk(f).lenses
           lenses == Append(old, new)
<1>5. save'.lenses = lenses
  BY <1>1, <1>2, <1>3
<1>6. \A i \in DOMAIN old : OneCalibration(old[i])
  BY OnDiskOnce DEF CalibInv
<1>7. old \in Seq(Range1(old))
  BY OnDiskDatabase DEF LInv, IsDatabase
<1> HIDE DEF old
<1>8. \A i \in DOMAIN lenses : OneCalibration(lenses[i])
  <2>1. \A i \in DOMAIN lenses : lenses[i] = new \/ (i \in DOMAIN old /\ lenses[i] = old[i])
    <3>1. old \in Seq(Range1(old) \cup {new}) /\ DOMAIN old = 1..Len(old) /\ Len(old) \in Nat
      BY <1>7, SeqMonotonic
    <3> QED
      BY <3>1, AppendProperties
  <2> HIDE DEF lenses
  <2> QED
    BY <1>4, <1>6, <2>1
<1> HIDE DEF lenses
<1> QED
  BY <1>1, <1>5, <1>8 DEF CalibInv, CalibratedOnce

LEMMA UpdateOnce ==
  ASSUME LInv, NullIsNothing, CalibInv, NEW f \in Files, NEW n, NEW m, NEW p, NEW crop,
         BeginUpdate(f, n, m, p, crop)
  PROVE  CalibInv'
<1> DEFINE s == Opened(f)
<1>1. PICK i \in OldLenses(s, n, m) :
        save' = [s EXCEPT !.lenses = s.content.lenses, !.filename = f,
                   !.current = CHOOSE j \in OldLenses(s, n, s.content.lenses[i].mount) :
                                 \A k \in OldLenses(s, n, s.content.lenses[i].mount) : k <= j]
  BY DEF BeginUpdate
<1>2. UNCHANGED file
  BY DEF BeginUpdate
<1>3. /\ DOMAIN s = DOMAIN save /\ s.content = OnDisk(f)
      /\ DOMAIN save = {"db", "content", "lenses", "current", "mounts", "mountsOf", "filename"}
  BY OpenedFile DEF LInv, BeginUpdate, SaveInv
<1> HIDE DEF s
<1>4. save'.lenses = OnDisk(f).lenses
  BY <1>1, <1>3
<1>5. \A k \in DOMAIN OnDisk(f).lenses : OneCalibration(OnDisk(f).lenses[k])
  BY OnDiskOnce DEF CalibInv
<1> QED
  BY <1>2, <1>4, <1>5 DEF CalibInv, CalibratedOnce

LEMMA EndOnce == ASSUME LInv, NullIsNothing, CalibInv, EndSaveLens PROVE CalibInv'
<1> DEFINE f == save.filename
           n == [save.content EXCEPT !.mounts = MountsToSave(save), !.lenses = save.lenses]
<1>1. /\ f \in Files /\ Written(f, n) /\ IsDatabase(n) /\ n.mounts \subseteq KnownMounts
      /\ n.lenses = save.lenses
  BY EndWrites
<1>2. \A i \in DOMAIN n.lenses : OneCalibration(n.lenses[i])
  BY <1>1 DEF CalibInv, EndSaveLens
<1> HIDE DEF n
<1>3. CalibratedOnce'
  BY <1>1, <1>2, WrittenOnce DEF LInv, CalibInv
<1>4. save'.db = "null"
  BY DEF EndSaveLens, CleanSaveInformation, CleanUpdatedMounts, LInv, SaveInv
<1> QED
  BY <1>3, <1>4 DEF CalibInv

LEMMA CameraOnce ==
  ASSUME LInv, NullIsNothing, CalibInv, NEW f \in Files, NEW c, NEW m \in Mounts \cup {NoMount}, NEW crop,
         SaveCameraCrop(f, c, m, crop)
  PROVE  CalibInv'
<1>1. PICK n : /\ Written(f, n) /\ IsDatabase(n) /\ n.mounts \subseteq KnownMounts
               /\ n.lenses = OnDisk(f).lenses /\ save'.db = "null"
  BY CameraWrites
<1>2. \A i \in DOMAIN n.lenses : OneCalibration(n.lenses[i])
  BY <1>1, OnDiskOnce DEF CalibInv
<1>3. CalibratedOnce'
  BY <1>1, <1>2, WrittenOnce DEF LInv, CalibInv
<1> QED
  BY <1>1, <1>3 DEF CalibInv

(* A step that leaves the files alone and no save open, or nothing changed. *)
LEMMA NotSavedOnce ==
  ASSUME CalibInv, UNCHANGED file, UNCHANGED save \/ save'.db # "open"
  PROVE  CalibInv'
BY DEF CalibInv, CalibratedOnce

LEMMA CalibKeeps == NullIsNothing /\ LInv /\ CalibInv /\ [LNext]_lvars => CalibInv'
<1> SUFFICES ASSUME NullIsNothing, LInv, CalibInv, [LNext]_lvars PROVE CalibInv'
  OBVIOUS
<1>1. CASE ReloadUserPart \/ Query \/ \E n \in Names \cup {"", "Standard"}, c \in Cameras : FindLens(n, c)
  <2>1. Reading
    BY <1>1 DEF ReloadUserPart, Query, FindLens
  <2> QED
    BY <2>1, NotSavedOnce DEF Reading
<1>2. CASE EndSaveLens
  BY <1>2, EndOnce
<1>3. CASE EndWithout \/ Done \/ UNCHANGED lvars
  BY <1>3, NotSavedOnce DEF EndWithout, Done, lvars
<1>4. CASE Clean
  <2>1. save'.db # "open" /\ UNCHANGED file
    BY <1>4 DEF Clean, LInv, SaveInv
  <2> QED
    BY <2>1, NotSavedOnce
<1>5. CASE EndWild
  BY <1>5, NotSavedOnce DEF EndWild, GoWild
<1>6. ASSUME NEW at \in Focals, Calibrations(at) PROVE CalibInv'
  BY <1>6, CalibrationOnce, CalibrateOnce
<1>7. ASSUME NEW f \in Files, NEW m \in Mounts \cup {NoMount}, NEW crop \in Factors, Steps(f, m, crop)
      PROVE  CalibInv'
  <2>1. ASSUME NEW c \in Cameras, SaveCameraCrop(f, c, m, crop) PROVE CalibInv'
    BY <2>1, CameraOnce
  <2>2. ASSUME NEW c \in Cameras, SaveCameraWild(f, c) PROVE CalibInv'
    BY <2>2, NotSavedOnce DEF SaveCameraWild, GoWild
  <2>3. ASSUME NEW n \in Names, NEW p \in Projections, BeginRefused(f, n, m, p, crop) PROVE CalibInv'
    <3> DEFINE s == Opened(f)
    <3>1. save' = [s EXCEPT !.db = "gone", !.content = Empty, !.filename = f] /\ UNCHANGED file
      BY <2>3 DEF BeginRefused
    <3>2. DOMAIN s = DOMAIN save /\ "db" \in DOMAIN save
      BY <2>3, OpenedFile DEF LInv, SaveInv, BeginRefused
    <3> HIDE DEF s
    <3>3. save'.db = "gone"
      BY <3>1, <3>2
    <3> QED
      BY <3>1, <3>3, NotSavedOnce
  <2>4. ASSUME NEW n \in Names, NEW p \in Projections, BeginNew(f, n, m, p, crop) PROVE CalibInv'
    BY <2>4, NewLensOnce
  <2>5. ASSUME NEW n \in Names, NEW p \in Projections, BeginUpdate(f, n, m, p, crop) PROVE CalibInv'
    BY <2>5, UpdateOnce
  <2>6. ASSUME NEW n \in Names, BeginWild(f, n, m) PROVE CalibInv'
    BY <2>6, NotSavedOnce DEF BeginWild, GoWild
  <2> QED
    BY <1>7, <2>1, <2>2, <2>3, <2>4, <2>5, <2>6 DEF Steps
<1> QED
  BY <1>1, <1>2, <1>3, <1>4, <1>5, <1>6, <1>7 DEF LNext

(***************************************************************************)
(* In files that begin so, every lens keeps one calibration of a kind for  *)
(* a focal length, and the stand-in crop never lies beside a saved one.    *)
(***************************************************************************)
THEOREM LensCalibratedOnce ==
  ASSUME NullIsNothing, FilesCalibratedOnce
  PROVE  LSpec => []CalibratedOnce
<1>1. LInit => CalibInv
  BY DEF LInit, CalibInv, CalibratedOnce, FilesCalibratedOnce
<1>2. CalibInv => CalibratedOnce
  BY DEF CalibInv
<1> QED
  BY <1>1, <1>2, LInitially, LKeeps, CalibKeeps, PTL DEF LSpec

----------------------------------------------------------------------------
(* Looking up.                                                             *)

LEMMA FoundKeeps == FoundInv /\ [LNext]_lvars => FoundInv'
<1> SUFFICES ASSUME FoundInv, [LNext]_lvars PROVE FoundInv'
  OBVIOUS
<1>1. ASSUME NEW n, NEW c, FindLens(n, c) PROVE FoundInv'
  <2> DEFINE hits == {l \in InitDB.lenses : l.name = IF n = "" THEN "Standard" ELSE n}
  <2>1. asked' = n /\ (found' = Null \/ found' \in hits)
    BY <1>1 DEF FindLens
  <2> QED
    BY <2>1 DEF FoundInv
<1>2. CASE Clean
  BY <1>2 DEF Clean, FoundInv
<1>3. CASE UNCHANGED <<found, asked>>
  BY <1>3 DEF FoundInv
<1>4. CASE ReloadUserPart \/ Query \/ EndSaveLens \/ EndWithout \/ EndWild \/ Done \/ UNCHANGED lvars
  BY <1>3, <1>4 DEF ReloadUserPart, Query, EndSaveLens, EndWithout, EndWild, GoWild, Saving, Done, lvars
<1>5. ASSUME NEW at \in Focals, Calibrations(at) PROVE FoundInv'
  BY <1>3, <1>5, CalibrationsCalibrate DEF Calibrate, Saving
<1>6. ASSUME NEW f \in Files, NEW m \in Mounts \cup {NoMount}, NEW crop \in Factors, Steps(f, m, crop)
      PROVE  FoundInv'
  <2>1. Saving
    BY <1>6 DEF Steps, SaveCameraCrop, SaveCameraWild, BeginRefused, BeginNew, BeginUpdate, BeginWild, GoWild
  <2> QED
    BY <1>3, <2>1 DEF Saving
<1> QED
  BY <1>1, <1>2, <1>4, <1>5, <1>6 DEF LNext

(***************************************************************************)
(* A getter that answers answers about the lens last asked for, whatever   *)
(* was found before and however the database was loaded or cleaned since.  *)
(***************************************************************************)
THEOREM LensAnswers == LSpec => []AnswersAboutAsked
<1>1. LInit => FoundInv
  BY DEF LInit, FoundInv
<1>2. FoundInv => AnswersAboutAsked
  BY DEF FoundInv, AnswersAboutAsked, GetProjection, GetCrop, GetFov
<1> QED
  BY <1>1, <1>2, FoundKeeps, PTL DEF LSpec

----------------------------------------------------------------------------
(* The rest of a file.                                                     *)

LEMMA SameKept == ASSUME NEW d, NEW f PROVE Kept(d, d, f)
<1>1. d.cameras \ d.cameras = {}
  OBVIOUS
<1>2. Cardinality(d.cameras \ d.cameras) <= 1
  BY <1>1, FS_EmptySet
<1> QED
  BY <1>2 DEF Kept

FileKept(g) == file'[g] # Null /\ Kept(file[g], file'[g], g)

LEMMA UntouchedKept ==
  ASSUME NEW g \in Files, file[g] # Null, file'[g] = file[g]
  PROVE  FileKept(g)
BY SameKept DEF FileKept

LEMMA CameraKept ==
  ASSUME LInv, NullIsNothing, NEW f \in Files, NEW c, NEW m \in Mounts \cup {NoMount}, NEW crop,
         SaveCameraCrop(f, c, m, crop), NEW g \in Files, file[g] # Null
  PROVE  FileKept(g)
<1>1. PICK n : /\ Written(f, n) /\ IsDatabase(n) /\ n.mounts \subseteq KnownMounts
               /\ OnDisk(f).mounts \subseteq n.mounts /\ n.lenses = OnDisk(f).lenses
               /\ {k.name : k \in OnDisk(f).cameras} \subseteq {k.name : k \in n.cameras}
               /\ Cardinality(OnDisk(f).cameras \ n.cameras) <= 1
  BY CameraWrites
<1>2. /\ \A h \in Files \ {f} : file'[h] = file[h]
      /\ file'[f] = file[f] \/ (file'[f] = n /\ n # Null)
  BY <1>1, FileWritten DEF LInv
<1>3. CASE file'[g] = file[g]
  BY <1>3, UntouchedKept
<1>4. CASE file'[g] # file[g]
  <2>1. g = f /\ file'[g] = n /\ n # Null /\ file[g] = OnDisk(f)
    BY <1>2, <1>4 DEF OnDisk
  <2>2. Kept(OnDisk(f), n, f)
    BY <1>1 DEF Kept
  <2> QED
    BY <2>1, <2>2 DEF FileKept
<1> QED
  BY <1>3, <1>4

LEMMA EndKept ==
  ASSUME LInv, NullIsNothing, EndSaveLens, NEW g \in Files, file[g] # Null
  PROVE  FileKept(g)
<1> DEFINE f == save.filename
           n == [save.content EXCEPT !.mounts = MountsToSave(save), !.lenses = save.lenses]
<1>1. /\ f \in Files /\ save.content = OnDisk(f) /\ Written(f, n)
      /\ IsDatabase(n) /\ n.mounts \subseteq KnownMounts
      /\ n.cameras = OnDisk(f).cameras /\ n.lenses = save.lenses
      /\ save.mountsOf \in {Null, f} => OnDisk(f).mounts \subseteq n.mounts
  BY EndWrites
<1> HIDE DEF n
<1>2. /\ \A h \in Files \ {f} : file'[h] = file[h]
      /\ file'[f] = file[f] \/ (file'[f] = n /\ n # Null)
  BY <1>1, FileWritten DEF LInv
<1>3. save.db = "open" /\ LensesInv
  BY DEF LInv, SaveInv, EndSaveLens
<1>4. CASE file'[g] = file[g]
  BY <1>4, UntouchedKept
<1>5. CASE file'[g] # file[g]
  <2>1. g = f /\ file'[g] = n /\ n # Null /\ file[g] = OnDisk(f)
    BY <1>1, <1>2, <1>5 DEF OnDisk
  <2>2. Cardinality(OnDisk(f).cameras \ n.cameras) <= 1
    <3>1. OnDisk(f).cameras \ n.cameras = {}
      BY <1>1
    <3> QED
      BY <3>1, FS_EmptySet
  <2>3. \A i \in DOMAIN OnDisk(f).lenses :
          /\ i \in DOMAIN n.lenses /\ n.lenses[i].name = OnDisk(f).lenses[i].name
          /\ n.lenses[i] # OnDisk(f).lenses[i] => i = save.current /\ save.db = "open"
    BY <1>1, <1>3 DEF LensesInv
  <2>4. Kept(OnDisk(f), n, f)
    BY <1>1, <2>2, <2>3 DEF Kept
  <2> QED
    BY <2>1, <2>4 DEF FileKept
<1> QED
  BY <1>4, <1>5

(***************************************************************************)
(* A step that writes a lens or a camera into a file keeps the rest of it: *)
(* cameras, the other lenses in their order, and the mounts, unless a list *)
(* of mounts of another file was left over.                                *)
(***************************************************************************)
THEOREM LensRestOfFileKept == ASSUME NullIsNothing PROVE LSpec => RestOfFileKept
<1>1. ASSUME LInv, [LNext]_lvars, NEW g \in Files, file[g] # Null
      PROVE  FileKept(g)
  <2>1. CASE UNCHANGED file
    BY <1>1, <2>1, UntouchedKept
  <2>2. CASE EndSaveLens
    BY <1>1, <2>2, EndKept
  <2>3. CASE ReloadUserPart \/ Query \/ \E n \in Names \cup {"", "Standard"}, c \in Cameras : FindLens(n, c)
    BY <2>1, <2>3 DEF ReloadUserPart, Query, FindLens, Reading
  <2>4. CASE EndWithout \/ EndWild \/ Clean \/ Done \/ UNCHANGED lvars
    BY <2>1, <2>4 DEF EndWithout, EndWild, GoWild, Clean, Done, lvars
  <2>5. ASSUME NEW at \in Focals, Calibrations(at) PROVE FileKept(g)
    BY <2>1, <2>5, CalibrationsCalibrate DEF Calibrate
  <2>6. ASSUME NEW f \in Files, NEW m \in Mounts \cup {NoMount}, NEW crop \in Factors, Steps(f, m, crop)
        PROVE  FileKept(g)
    <3>1. ASSUME NEW c \in Cameras, SaveCameraCrop(f, c, m, crop) PROVE FileKept(g)
      BY <1>1, <3>1, CameraKept
    <3>2. CASE UNCHANGED file
      BY <2>1, <3>2
    <3> QED
      BY <2>6, <3>1, <3>2 DEF Steps, SaveCameraWild, BeginRefused, BeginNew, BeginUpdate, BeginWild, GoWild
  <2> QED
    BY <1>1, <2>2, <2>3, <2>4, <2>5, <2>6 DEF LNext
<1>2. LInv /\ [LNext]_lvars =>
        \A f \in Files : file[f] # Null => file'[f] # Null /\ Kept(file[f], file'[f], f)
  BY <1>1 DEF FileKept
<1> QED
  BY <1>2, LInitially, LKeeps, PTL DEF LSpec, RestOfFileKept
=============================================================================

------------------------------- MODULE LensDB -------------------------------
(***************************************************************************)
(* The wrapper around the lensfun database (lensdb/LensDB.cpp): one object *)
(* that looks lenses up in the main database, and that rewrites a database *)
(* file through a second one, in steps that a caller makes one by one.     *)
(* lensfun itself is external: a database is mounts, cameras and lenses.   *)
(* Undefined behaviour (a database destroyed twice, a lens written after   *)
(* it was deleted) sets `wild', after which nothing more is said.          *)
(***************************************************************************)
EXTENDS Integers, Sequences, FiniteSets

CONSTANTS
  Names,      \* lenses, by maker and model
  Mounts,     \* mounts by name; NoMount is the empty name
  Cameras, Files,
  Focals,     \* what a calibration is for: a focal length, and for the
              \* vignetting an aperture and a distance with it
  Factors,    \* crop factors
  Vectors,    \* coefficients handed to SaveDistortion and SaveVignetting
  Installed,  \* the main database on disk, and the file of the user's part
  UserFile,
  Contents,   \* what a file may hold at first
  NoMount, Null,
  MaxCalls    \* bound: calls that are followed

ASSUME LensConstants ==
  /\ "Generic" \in Mounts /\ NoMount \notin Mounts /\ Null \notin Names \cup Mounts \cup Files
  /\ 0 \notin Focals /\ UserFile \in Files /\ MaxCalls \in Nat

\* A database file is read as a list of lenses, and as cameras of different
\* names.
Range1(s) == {s[i] : i \in DOMAIN s}
Kinds == {"fov", "crop", "distortion", "vignetting"}
IsLens(l) == DOMAIN l = {"name", "mount", "type", "factor", "calib"} /\ DOMAIN l.calib = Kinds
IsCamera(c) == DOMAIN c = {"name", "mount", "factor"}
IsDatabase(d) ==
  /\ DOMAIN d = {"mounts", "cameras", "lenses"}
  /\ d.lenses \in Seq(Range1(d.lenses)) /\ \A l \in Range1(d.lenses) : IsLens(l)
  /\ \A c, k \in d.cameras : IsCamera(c) /\ (c.name = k.name => c = k)

ASSUME ContentConstants == \A d \in Contents : IsDatabase(d)

Projections == {"rectilinear", "circular", "fullframe"}
CropModes == {"none", "rectangle", "circle"}

VARIABLES
  calls,     \* how many calls were made
  file,      \* the database files on disk, Null where there is none
  main,      \* m_db: Null if lensfun gave none, or what it has loaded
  loaded,    \* m_initialized
  save,      \* m_newDB and the other variables that a save uses
  found,     \* m_lenses: the lens that the getters answer about
  asked,     \* the lens that FindLens was last called for
  rejected,  \* BeginSaveLens has refused a lens
  strayed,   \* a Save procedure was called outside of Begin and End
  wild       \* behaviour was undefined

lvars == <<calls, file, main, loaded, save, found, asked, rejected, strayed, wild>>

Call == ~wild /\ calls < MaxCalls /\ calls' = calls + 1
Reading == UNCHANGED <<file, save, rejected, strayed, wild>>

----------------------------------------------------------------------------
(* A lens of lensfun, and the projections of Hugin: a fisheye is circular  *)
(* when its crop at the shortest focal length is a circle.                 *)
NewLens == [name |-> Null, mount |-> NoMount, type |-> "unknown", factor |-> 0,
            calib |-> [k \in Kinds |-> {}]]
Empty == [mounts |-> {}, cameras |-> {}, lenses |-> << >>]

AtMinFocal(entries) == {e \in entries : \A o \in entries : e.at <= o.at}

TranslateProjectionLF2Hugin(l) ==
  IF l.type # "fisheye" THEN l.type
  ELSE IF \E e \in AtMinFocal(l.calib["crop"]) : e.value = "circle"
       THEN "circular" ELSE "fullframe"

\* A circular fisheye without a crop gets a full one, for focal length 0.
TranslateProjectionHugin2LF(l, p) ==
  IF p \notin {"circular", "fullframe"} THEN [l EXCEPT !.type = p]
  ELSE [l EXCEPT !.type = "fisheye",
          !.calib["crop"] = IF p = "circular" /\ @ = {} THEN {[at |-> 0, value |-> "circle"]}
                            ELSE @]

----------------------------------------------------------------------------
(* Looking up.  The main database is loaded once, by whoever needs it.     *)
LInit ==
  /\ calls = 0 /\ file \in [Files -> Contents \cup {Null}]
  /\ main \in {Null, [mounts |-> {}, cameras |-> {}, lenses |-> {}]} /\ loaded = FALSE
  /\ save = [db |-> "null", content |-> Empty, lenses |-> Null, current |-> 0,
             mounts |-> Null, mountsOf |-> Null, filename |-> Null]
  /\ found = Null /\ asked = Null
  /\ rejected = FALSE /\ strayed = FALSE /\ wild = FALSE

Joined(db, content) ==
  [mounts |-> db.mounts \cup content.mounts,
   cameras |-> db.cameras \cup {c.name : c \in content.cameras},
   lenses |-> db.lenses \cup Range1(content.lenses)]

LoadFilesInDir(db) == IF file[UserFile] = Null THEN db ELSE Joined(db, file[UserFile])

InitDB == IF loaded \/ main = Null THEN main ELSE LoadFilesInDir(Joined(main, Installed))
InitDBDone == main' = InitDB /\ loaded' = (main # Null)

ReloadUserPart ==
  /\ Call /\ main # Null
  /\ main' = IF loaded THEN LoadFilesInDir(main) ELSE InitDB
  /\ loaded' = TRUE /\ UNCHANGED <<found, asked>> /\ Reading

\* GetCropFactor, GetCameraMount, FindLenses and GetMounts: the lists they
\* get from lensfun are freed again, what stays is the loaded database.
Query == Call /\ InitDBDone /\ UNCHANGED <<found, asked>> /\ Reading

\* bug: m_lenses is only replaced where the search is made.
FindLensKeeping(name, camera) ==
  /\ Call /\ InitDBDone /\ asked' = name
  /\ LET hits == {l \in InitDB.lenses : l.name = IF name = "" THEN "Standard" ELSE name}
     IN  IF main = Null \/ (name \in {"", "Standard"} /\ camera \notin InitDB.cameras) THEN found' = found
         ELSE IF hits = {} THEN found' = Null ELSE found' \in hits
  /\ Reading

\* The lens of an earlier call is forgotten first.  Without a name the camera
\* must be known, and its lens is the one called Standard.
FindLens(name, camera) ==
  /\ Call /\ InitDBDone /\ asked' = name
  /\ LET hits == {l \in InitDB.lenses : l.name = IF name = "" THEN "Standard" ELSE name}
     IN  IF \/ main = Null \/ hits = {}
            \/ name \in {"", "Standard"} /\ camera \notin InitDB.cameras
         THEN found' = Null ELSE found' \in hits
  /\ Reading

\* What the getters say of the lens found, for a focal length that has a
\* calibration; interpolation between two is lensfun's.
At(kind, focal) == {e.value : e \in {c \in found.calib[kind] : c.at = focal}}
GetProjection == IF found = Null \/ found.type = "unknown" THEN {} ELSE {TranslateProjectionLF2Hugin(found)}
GetCrop(focal) == IF found = Null THEN {} ELSE At("crop", focal)
GetFov(focal) == IF found = Null THEN {} ELSE At("fov", focal)
GetDistortion(focal) ==
  IF found = Null THEN {}
  ELSE {IF d.model = "poly3" THEN <<0, d.terms[1], 0>> ELSE d.terms :
          d \in {v \in At("distortion", focal) : v.model \in {"poly3", "ptlens"}}}
GetVignetting(focal) ==
  IF found = Null THEN {}
  ELSE {<<1>> \o v.terms : v \in {c \in At("vignetting", focal) : c.model = "pa"}}

----------------------------------------------------------------------------
(* Saving.  save.current is 0 for NULL, an index of m_updatedLenses, or -1 *)
(* when the array it pointed into was deleted; save.mountsOf is the file   *)
(* whose mounts m_updatedMounts holds.  m_currentLens is never reset.      *)
CleanUpdatedMounts(s) == [s EXCEPT !.mounts = Null, !.mountsOf = Null]

\* bug: the destroyed database is not forgotten.
CleanKeepingPointer(s) ==
  [CleanUpdatedMounts(s) EXCEPT !.lenses = Null, !.db = IF @ = "null" THEN @ ELSE "gone",
            !.content = Empty, !.current = IF s.lenses # Null THEN -1 ELSE @]

CleanSaveInformation(s) ==
  [CleanUpdatedMounts(s) EXCEPT !.lenses = Null, !.db = "null", !.content = Empty,
            !.current = IF s.lenses # Null THEN -1 ELSE @]

\* m_newDB is cleaned up when it is not NULL, which destroys it a second time
\* if it was only destroyed; then the file is loaded, if it exists.
TwiceDestroyed == save.db = "gone"
Opened(f) ==
  [(IF save.db # "null" THEN CleanSaveInformation(save) ELSE save)
     EXCEPT !.db = "open", !.content = IF file[f] = Null THEN Empty ELSE file[f]]

\* A mount is looked for in the main database, as far as that is loaded, and
\* in the new one; when it is in neither, the mounts of the new one and it
\* are the list to be saved.
IsNewMount(s, m, f) ==
  IF m \in main.mounts \cup s.content.mounts THEN CleanUpdatedMounts(s)
  ELSE [s EXCEPT !.mounts = s.content.mounts \cup {m}, !.mountsOf = f]

MountsToSave(s) == IF s.mounts = Null THEN s.content.mounts ELSE s.mounts
Written(f, content) == file' \in {file, [file EXCEPT ![f] = content]}

Saving == UNCHANGED <<main, loaded, found, asked>>
GoWild == wild' = TRUE /\ UNCHANGED <<file, save, rejected, strayed>> /\ Saving

\* The camera is new, with its mount, or only its crop factor changes.  The
\* database is destroyed, a list of mounts is not.
SaveCameraCrop(f, c, m, crop) ==
  /\ Call /\ ~TwiceDestroyed
  /\ LET s == Opened(f)
         known == {k \in s.content.cameras : k.name = c}
         marked == IsNewMount(s, m, f)
         saved(t, cameras, mounts) ==
           /\ Written(f, [s.content EXCEPT !.mounts = mounts, !.cameras = cameras])
           /\ save' = [t EXCEPT !.db = "null", !.content = Empty]
     IN  IF known # {}
         THEN saved(s, (s.content.cameras \ known) \cup {[k EXCEPT !.factor = crop] : k \in known},
                    s.content.mounts)
         ELSE /\ main # Null
              /\ saved(marked, s.content.cameras \cup
                         {[name |-> c, mount |-> IF m = NoMount THEN "Generic" ELSE m, factor |-> crop]},
                       IF marked.mountsOf = f THEN marked.mounts ELSE s.content.mounts)
  /\ UNCHANGED <<rejected, strayed, wild>> /\ Saving

\* A second Destroy, or a look into a main database that there is not.
SaveCameraWild(f, c) ==
  /\ Call
  /\ TwiceDestroyed \/ (main = Null /\ \A k \in Opened(f).content.cameras : k.name # c)
  /\ GoWild

OldLenses(s, n, m) ==
  {i \in DOMAIN s.content.lenses :
     s.content.lenses[i].name = n /\ (m = NoMount \/ s.content.lenses[i].mount = m)}

\* A lens that the file has is refused when its projection or its crop
\* factor is another one; the database is destroyed, and m_newDB keeps it.
Refused(l, p, crop) ==
  \/ l.type # "unknown" /\ TranslateProjectionLF2Hugin(l) # p
  \/ l.factor # crop

BeginRefused(f, n, m, p, crop) ==
  /\ Call /\ ~TwiceDestroyed
  /\ LET s == Opened(f)
     IN  /\ \E i \in OldLenses(s, n, m) : Refused(s.content.lenses[i], p, crop)
         /\ save' = [s EXCEPT !.db = "gone", !.content = Empty, !.filename = f]
  /\ rejected' = TRUE
  /\ UNCHANGED <<file, strayed, wild>> /\ Saving

\* bug: the list of lenses is begun without those of the file.
BeginNewAlone(f, n, m, p, crop) ==
  /\ Call /\ ~TwiceDestroyed /\ main # Null
  /\ LET s == IsNewMount(Opened(f), m, f)
         l == [NewLens EXCEPT !.name = n, !.factor = crop, !.mount = IF m = NoMount THEN "Generic" ELSE m]
     IN  /\ OldLenses(s, n, m) = {}
         /\ save' = [s EXCEPT !.lenses = <<TranslateProjectionHugin2LF(l, p)>>, !.current = 1, !.filename = f]
  /\ UNCHANGED <<file, rejected, strayed, wild>> /\ Saving

BeginNew(f, n, m, p, crop) ==
  /\ Call /\ ~TwiceDestroyed /\ main # Null
  /\ LET s == IsNewMount(Opened(f), m, f)
         l == [NewLens EXCEPT !.name = n, !.factor = crop,
                              !.mount = IF m = NoMount THEN "Generic" ELSE m]
     IN  /\ OldLenses(s, n, m) = {}
         /\ save' = [s EXCEPT !.lenses = Append(s.content.lenses, TranslateProjectionHugin2LF(l, p)),
                              !.current = Len(s.content.lenses) + 1, !.filename = f]
  /\ UNCHANGED <<file, rejected, strayed, wild>> /\ Saving

\* The lenses are copied; the last that shares the name and a mount with the
\* one found is the one to be updated.  IsNewMount is not called.
BeginUpdate(f, n, m, p, crop) ==
  /\ Call /\ ~TwiceDestroyed
  /\ LET s == Opened(f)
     IN  \E i \in OldLenses(s, n, m) :
           /\ ~Refused(s.content.lenses[i], p, crop)
           /\ save' = [s EXCEPT !.lenses = s.content.lenses, !.filename = f,
                !.current = CHOOSE j \in OldLenses(s, n, s.content.lenses[i].mount) :
                              \A k \in OldLenses(s, n, s.content.lenses[i].mount) : k <= j]
  /\ UNCHANGED <<file, rejected, strayed, wild>> /\ Saving

BeginWild(f, n, m) ==
  /\ Call /\ GoWild
  /\ TwiceDestroyed \/ (main = Null /\ OldLenses(Opened(f), n, m) = {})

----------------------------------------------------------------------------
(* Calibrations: the first entry for the same focal length is removed, the *)
(* new one is appended.                                                    *)
WithoutOne(entries, at) ==
  LET same == {e \in entries : e.at = at}
  IN  IF same = {} THEN entries ELSE entries \ {CHOOSE e \in same : TRUE}

Replaced(entries, at, value) == WithoutOne(entries, at) \cup {[at |-> at, value |-> value]}

\* What the current lens has; nothing is saved without one.
Saved(kind) == IF save.current < 1 THEN {} ELSE save.lenses[save.current].calib[kind]

\* The steps of all Save procedures.
Calibrate(kind, entries) ==
  /\ Call
  /\ strayed' = (strayed \/ save.db # "open")
  /\ wild' = (save.current = -1)
  /\ save' = IF save.current < 1 THEN save ELSE [save EXCEPT !.lenses[save.current].calib[kind] = entries]
  /\ UNCHANGED <<file, rejected>> /\ Saving

SaveHFOV(at, v) == Calibrate("fov", Replaced(Saved("fov"), at, v))

\* bug: the crop for focal length 0 stays.
SaveCropKeepingZero(at, mode) ==
  LET old == Saved("crop")
  IN  Calibrate("crop", IF mode = "none" THEN WithoutOne(old, at) ELSE Replaced(old, at, mode))

\* The crop for focal length 0 goes first; no crop only removes.
SaveCrop(at, mode) ==
  LET rest == WithoutOne(Saved("crop"), 0)
  IN  Calibrate("crop", IF mode = "none" THEN WithoutOne(rest, at) ELSE Replaced(rest, at, mode))

\* Vectors of another size than four are skipped.
SaveDistortion(at, v) ==
  LET old == Saved("distortion")
  IN  Calibrate("distortion",
        IF Len(v) # 4 THEN old ELSE Replaced(old, at, [model |-> "ptlens", terms |-> SubSeq(v, 1, 3)]))
SaveVignetting(at, v) ==
  LET old == Saved("vignetting")
  IN  Calibrate("vignetting",
        IF Len(v) # 4 THEN old ELSE Replaced(old, at, [model |-> "pa", terms |-> SubSeq(v, 2, 4)]))

EndSaveLens ==
  /\ Call /\ save.db = "open"
  /\ Written(save.filename, [save.content EXCEPT !.mounts = MountsToSave(save), !.lenses = save.lenses])
  /\ save' = [CleanSaveInformation(save) EXCEPT !.filename = Null]
  /\ UNCHANGED <<rejected, strayed, wild>> /\ Saving

EndWithout ==
  /\ Call /\ save.db = "null"
  /\ strayed' = TRUE /\ UNCHANGED <<file, save, rejected, wild>> /\ Saving

\* Check and Save of what was destroyed.
EndWild == Call /\ save.db = "gone" /\ GoWild

\* Clean: the destructor, and a new object at the next GetSingleton.
Clean ==
  /\ Call /\ wild' = TwiceDestroyed
  /\ save' = [save EXCEPT !.db = "null", !.content = Empty, !.lenses = Null, !.current = 0,
                          !.mounts = Null, !.mountsOf = Null, !.filename = Null]
  /\ main' \in {Null, [mounts |-> {}, cameras |-> {}, lenses |-> {}]} /\ loaded' = FALSE
  /\ found' = Null /\ asked' = Null /\ UNCHANGED <<file, rejected, strayed>>

Done == (wild \/ calls = MaxCalls) /\ UNCHANGED lvars

Steps(f, m, crop) ==
  \/ \E c \in Cameras : SaveCameraCrop(f, c, m, crop) \/ SaveCameraWild(f, c)
  \/ \E n \in Names, p \in Projections :
       \/ BeginRefused(f, n, m, p, crop) \/ BeginNew(f, n, m, p, crop)
       \/ BeginUpdate(f, n, m, p, crop) \/ BeginWild(f, n, m)

Calibrations(at) ==
  \/ (\E v \in {50, 60} : SaveHFOV(at, v)) \/ (\E mode \in CropModes : SaveCrop(at, mode))
  \/ \E v \in Vectors : SaveDistortion(at, v) \/ SaveVignetting(at, v)

LNext ==
  \/ ReloadUserPart \/ Query \/ EndSaveLens \/ EndWithout \/ EndWild \/ Clean \/ Done
  \/ \E n \in Names \cup {"", "Standard"}, c \in Cameras : FindLens(n, c)
  \/ \E f \in Files, m \in Mounts \cup {NoMount}, crop \in Factors : Steps(f, m, crop)
  \/ \E at \in Focals : Calibrations(at)

LSpec == LInit /\ [][LNext]_lvars

----------------------------------------------------------------------------
(* An array of lenses is there exactly while the second database is open,  *)
(* and the current lens is one of them then.  Memory is misused only after *)
(* BeginSaveLens refused a lens (m_newDB keeps the database it destroyed), *)
(* by a Save procedure outside of Begin and End (m_currentLens is not      *)
(* reset), or when lensfun gave no main database.                          *)
SaveVariables ==
  /\ save.db \in {"null", "open", "gone"}
  /\ (save.lenses # Null) = (save.db = "open")
  /\ save.db = "open" => save.current \in DOMAIN save.lenses /\ save.filename \in Files
  /\ (save.mounts = Null) = (save.mountsOf = Null)
MemorySafe == SaveVariables /\ (wild => rejected \/ strayed \/ main = Null)

(* What LensDB.h says of CleanSaveInformation, that it frees all resources *)
(* of a save: then none is freed twice, whatever BeginSaveLens answered.   *)
DestroyedOnce == wild => strayed \/ main = Null

(* A lens has one calibration of a kind for a focal length, and the        *)
(* stand-in for focal length 0 is never beside a crop that was saved.      *)
OneCalibration(l) ==
  /\ \A k \in Kinds : \A d, e \in l.calib[k] : d.at = e.at => d = e
  /\ (\E e \in l.calib["crop"] : e.at = 0) => Cardinality(l.calib["crop"]) = 1
CalibratedOnce ==
  \A f \in Files : file[f] # Null => \A i \in DOMAIN file[f].lenses : OneCalibration(file[f].lenses[i])

(* The getters never answer about a lens of an earlier search.             *)
AnswersAboutAsked ==
  (GetProjection # {} \/ \E at \in Focals : GetCrop(at) \cup GetFov(at) # {})
     => found.name = (IF asked = "" THEN "Standard" ELSE asked)

(* Writing one lens or camera into a file keeps the rest of the file: the  *)
(* other lenses with their calibrations, the cameras, and the mounts,      *)
(* unless a list of mounts of another file was left by SaveCameraCrop.     *)
Kept(old, new, f) ==
  /\ {c.name : c \in old.cameras} \subseteq {c.name : c \in new.cameras}
  /\ Cardinality(old.cameras \ new.cameras) <= 1
  /\ \A i \in DOMAIN old.lenses :
       /\ i \in DOMAIN new.lenses /\ new.lenses[i].name = old.lenses[i].name
       /\ new.lenses[i] # old.lenses[i] => i = save.current /\ save.db = "open"
  /\ save.mountsOf \in {Null, f} => old.mounts \subseteq new.mounts
RestOfFileKept ==
  [][\A f \in Files : file[f] # Null => file'[f] # Null /\ Kept(file[f], file'[f], f)]_lvars
=============================================================================

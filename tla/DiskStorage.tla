---------------------------- MODULE DiskStorage ----------------------------
(***************************************************************************)
(* The "file on disk" storage of an export job (imageio/storage/disk.c).   *)
(* The export job calls store once per image, from several threads at      *)
(* once.  The name of the file is chosen under darktable.plugin_threadsafe *)
(* but the file is created only after the mutex is released.               *)
(***************************************************************************)
EXTENDS Integers, FiniteSets, Sequences

CONSTANTS
  Images,      \* the images of the job; store runs once for each
  Parts,       \* variables, separators and other pieces of a pattern
  Variables,   \* the parts with a $ in them
  Texts,       \* what parts expand to
  Value,       \* what a part expands to for an image
  Mark,        \* the last dot or slash of a text, or "none"
  Cut,         \* a text with a dot: what is before its last dot
  MaxSuffix,   \* bound of the _NN counter that avoids existing files
  Patterns,    \* file name patterns the user can have typed
  UserFiles,   \* files that exist before the job
  NoName,      \* no name is chosen yet
  NoImage,     \* content that is not of this job
  Free         \* the mutex has no owner

Total == Cardinality(Images)

(* A pattern: its parts, and what g_file_test says of it as it stands.     *)
Pattern == [exists : BOOLEAN, parts : Seq(Parts)]

(* A file name without its extension: the texts of the expanded pattern    *)
(* and the _NN suffix, 0 for none.  Names are told apart by these, never   *)
(* by where one text ends and the next begins.                             *)
Names == [stem : Seq(Texts), suffix : 0..MaxSuffix]

ASSUME DiskConstants ==
  /\ IsFiniteSet(Images)
  /\ Variables \subseteq Parts
  /\ {"$(FILE_NAME)", "$(SEQUENCE)"} \subseteq Variables /\ "_" \in Parts \ Variables
  /\ Value \in [Parts -> [Images -> Texts]]
  /\ Mark \in [Texts -> {".", "/", "none"}]
  /\ Cut \in [Texts -> Texts] /\ "" \in Texts
  /\ \A i, j \in Images : Value["$(SEQUENCE)"][i] = Value["$(SEQUENCE)"][j] => i = j
  /\ \A i \in Images : Mark[Value["$(SEQUENCE)"][i]] = "none"
  /\ MaxSuffix \in Nat
  /\ Patterns \subseteq Pattern
  /\ UserFiles \subseteq Names
  /\ NoImage \notin Images /\ Free \notin Images /\ NoName \notin Names

(* What a file holds: whose pixels, and whose xmp.                         *)
Content == [pixels : Images \cup {NoImage}, xmp : Images \cup {NoImage}]

VARIABLES
  pattern,     \* d->filename, shared by all calls of store
  owner,       \* owner of darktable.plugin_threadsafe
  pc,          \* where the call of store for an image is
  name,        \* its local filename
  files,       \* the file system: the names that exist and their content
  result       \* what store returned

vars == <<pattern, owner, pc, name, files, result>>

Critical == {"expand", "probe", "unlock"}
Places == Critical \cup {"start", "export", "xmp", "done"}

UserContent == [pixels |-> NoImage, xmp |-> NoImage]

Exists(n) == n \in DOMAIN files

Put(n, c) == [m \in DOMAIN files \cup {n} |-> IF m = n THEN c ELSE files[m]]

----------------------------------------------------------------------------
Init ==
  /\ pattern \in Patterns
  /\ owner = Free
  /\ pc = [i \in Images |-> "start"]
  /\ name = [i \in Images |-> NoName]
  /\ files = [n \in UserFiles |-> UserContent]
  /\ result = [i \in Images |-> -1]

Lock(i) ==
  /\ pc[i] = "start" /\ owner = Free
  /\ owner' = i
  /\ pc' = [pc EXCEPT ![i] = "expand"]
  /\ UNCHANGED <<pattern, name, files, result>>

HasVariable(p) == \E k \in DOMAIN p.parts : p.parts[k] \in Variables

Named(p) == IF p.exists THEN [exists |-> FALSE, parts |-> p.parts \o <<"$(FILE_NAME)">>] ELSE p

\* bug: a job of several images keeps a pattern without variables.
CompletedByName(p) == Named(p)

\* What exists, a directory as a rule, gets $(FILE_NAME); a pattern without
\* any $ gets _$(SEQUENCE) when the job has several images.
Completed(p) ==
  IF Total > 1 /\ ~HasVariable(Named(p))
  THEN [Named(p) EXCEPT !.parts = @ \o <<"_", "$(SEQUENCE)">>]
  ELSE Named(p)

\* Part k holds the last dot of the last component of the path: the name is
\* cut there, unless it would be empty.
CutAt(e, k) ==
  /\ Mark[e[k]] = "." /\ \A n \in DOMAIN e : n > k => Mark[e[n]] = "none"
  /\ Cut[e[k]] # "" \/ \E n \in DOMAIN e : n < k /\ e[n] # ""

\* What is left of an expanded name before its extension is put behind it.
Stem(e) ==
  IF \E k \in DOMAIN e : CutAt(e, k)
  THEN LET k == CHOOSE k \in DOMAIN e : CutAt(e, k)
       IN  [n \in 1..k |-> IF n = k THEN Cut[e[k]] ELSE e[n]]
  ELSE e

StemOf(p, i) == Stem([k \in DOMAIN p.parts |-> Value[p.parts[k]][i]])

Expanded(p, i) == [stem |-> StemOf(p, i), suffix |-> 0]

\* Complete the shared pattern, expand it, create the directory.
Expand(i) ==
  /\ pc[i] = "expand"
  /\ pattern' = Completed(pattern)
  /\ name' = [name EXCEPT ![i] = Expanded(pattern', i)]
  /\ pc' = [pc EXCEPT ![i] = "probe"]
  /\ UNCHANGED <<owner, files, result>>

\* bug: the failure path returns without unlocking.
MkdirFailsLocked(i) ==
  /\ pc[i] = "expand"
  /\ pattern' = Completed(pattern)
  /\ result' = [result EXCEPT ![i] = 1]
  /\ pc' = [pc EXCEPT ![i] = "done"]
  /\ UNCHANGED <<owner, name, files>>

\* g_mkdir_with_parents fails: goto failed, which skips the probing.
MkdirFails(i) ==
  /\ pc[i] = "expand"
  /\ pattern' = Completed(pattern)
  /\ result' = [result EXCEPT ![i] = 1]
  /\ pc' = [pc EXCEPT ![i] = "unlock"]
  /\ UNCHANGED <<owner, name, files>>

\* bug: the counter is not advanced.
ProbeStuck(i) ==
  /\ pc[i] = "probe" /\ Exists(name[i])
  /\ UNCHANGED vars

\* "prevent overwrite of files": one g_file_test per step.
ProbeTaken(i) ==
  /\ pc[i] = "probe" /\ Exists(name[i])
  /\ name[i].suffix < MaxSuffix
  /\ name' = [name EXCEPT ![i].suffix = @ + 1]
  /\ UNCHANGED <<pattern, owner, pc, files, result>>

\* bug: only the unsuffixed name is tested before it is used.
ProbeOnce(i) ==
  /\ pc[i] = "probe" /\ (~Exists(name[i]) \/ name[i].suffix > 0)
  /\ pc' = [pc EXCEPT ![i] = "unlock"]
  /\ UNCHANGED <<pattern, owner, name, files, result>>

ProbeFree(i) ==
  /\ pc[i] = "probe" /\ ~Exists(name[i])
  /\ pc' = [pc EXCEPT ![i] = "unlock"]
  /\ UNCHANGED <<pattern, owner, name, files, result>>

Unlock(i) ==
  /\ pc[i] = "unlock"
  /\ owner' = Free
  /\ pc' = [pc EXCEPT ![i] = IF result[i] = 1 THEN "done" ELSE "export"]
  /\ UNCHANGED <<pattern, name, files, result>>

\* dt_imageio_export writes the file or fails; its result is not looked at.
Export(i) ==
  /\ pc[i] = "export"
  /\ pc' = [pc EXCEPT ![i] = "xmp"]
  /\ \/ files' = Put(name[i], [pixels |-> i, xmp |-> NoImage])
     \/ UNCHANGED files
  /\ UNCHANGED <<pattern, owner, name, result>>

\* dt_exif_xmp_attach opens the file by its name once more.
AttachXmp(i) ==
  /\ pc[i] = "xmp"
  /\ pc' = [pc EXCEPT ![i] = "done"]
  /\ files' = IF Exists(name[i]) THEN [files EXCEPT ![name[i]].xmp = i] ELSE files
  /\ result' = [result EXCEPT ![i] = 0]
  /\ UNCHANGED <<pattern, owner, name>>

Store(i) ==
  \/ Lock(i) \/ Expand(i) \/ MkdirFails(i) \/ ProbeTaken(i) \/ ProbeFree(i)
  \/ Unlock(i) \/ Export(i) \/ AttachXmp(i)

AllDone == (\A i \in Images : pc[i] = "done") /\ UNCHANGED vars

Next == (\E i \in Images : Store(i)) \/ AllDone

Spec == Init /\ [][Next]_vars

\* The threads of the job keep running.  Each takes the mutex only once, so
\* that weak fairness is enough for it to be granted.
Fairness == \A i \in Images : WF_vars(Store(i))
FairSpec == Spec /\ Fairness
----------------------------------------------------------------------------
TypeOK ==
  /\ pattern \in Pattern
  /\ owner \in Images \cup {Free}
  /\ pc \in [Images -> Places]
  /\ name \in [Images -> Names \cup {NoName}]
  /\ DOMAIN files \subseteq Names
  /\ \A n \in DOMAIN files : files[n] \in Content
  /\ result \in [Images -> {-1, 0, 1}]

(***************************************************************************)
(* The mutex is held exactly by the call that is between lock and unlock,  *)
(* on the failure path as well: no call returns with the mutex held.       *)
(***************************************************************************)
LockDiscipline == \A i \in Images : pc[i] \in Critical <=> owner = i

(***************************************************************************)
(* Files of the user survive: whatever the job's threads do to each other, *)
(* a file that existed before the job keeps its content for ever.          *)
(***************************************************************************)
UserFilesKept ==
  \A n \in UserFiles : n \in DOMAIN files /\ files[n] = UserContent

\* The call has chosen a name and was not refused.
Writes(i) == pc[i] \in {"export", "xmp"} \/ (pc[i] = "done" /\ result[i] = 0)

\* The name of the image keeps its number, or is that of a single image.  A
\* number behind the last dot is cut off with what follows the dot.
Numbered(i) ==
  \/ ~HasVariable(pattern)
  \/ \E k \in DOMAIN StemOf(pattern, i) : pattern.parts[k] = "$(SEQUENCE)"

(***************************************************************************)
(* "avoid braindead export which is bound to overwrite at random": an      *)
(* image whose name has its number to the end is never given the file of   *)
(* another image, though names are chosen before files are made, and its   *)
(* xmp goes to no other image's file.                                      *)
(***************************************************************************)
NumberedFilesDiffer ==
  \A i \in Images : Numbered(i) =>
    /\ \A j \in Images : i # j /\ Writes(i) /\ Writes(j) => name[i] # name[j]
    /\ \A n \in DOMAIN files : files[n].xmp = i => files[n].pixels = i

\* Every call of store returns: nobody waits for ever for the mutex.
StoreReturns == \A i \in Images : <>(pc[i] = "done")

\* "prevent overwrite of files" (disk.c:206): once an image's pixels are in a
\* file, no other call of store puts its own there.
NoOverwrite ==
  [][\A n \in DOMAIN files :
       files[n].pixels # NoImage => files'[n].pixels = files[n].pixels]_vars
=============================================================================

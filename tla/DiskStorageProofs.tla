------------------------- MODULE DiskStorageProofs -------------------------
(***************************************************************************)
(* For every set of images, every naming of them and every set of user     *)
(* files: the mutex discipline of disk.c, and that no file of the user is  *)
(* ever overwritten by an export job, although two calls of store can      *)
(* overwrite each other's file.                                            *)
(***************************************************************************)
EXTENDS DiskStorage, FiniteSetTheorems, TLAPS

(* A call that has a name it may write to: its name was probed.            *)
HasName(i) == pc[i] \in {"export", "xmp"} \/ (pc[i] = "unlock" /\ result[i] # 1)

NamesTyped == \A i \in Images : pc[i] = "probe" \/ HasName(i) => name[i] \in Names
NamesFresh == \A i \in Images : HasName(i) => name[i] \notin UserFiles

(* The inductive invariant.                                                *)
DiskInv == TypeOK /\ LockDiscipline /\ NamesTyped /\ NamesFresh /\ UserFilesKept

(* What the constants' assumption says, in portions.                       *)
LEMMA PartsKnown ==
  /\ "$(FILE_NAME)" \in Parts /\ "$(SEQUENCE)" \in Parts /\ "_" \in Parts
  /\ "$(SEQUENCE)" \in Variables
  BY DiskConstants, Zenon

LEMMA ValueTyped == Value \in [Parts -> [Images -> Texts]]
  BY DiskConstants, Zenon

LEMMA CutTyped == Cut \in [Texts -> Texts]
  BY DiskConstants, Zenon

LEMMA SuffixIsNat == MaxSuffix \in Nat
  BY DiskConstants, Zenon

LEMMA NothingIsNoImage == NoImage \notin Images
  BY DiskConstants, Zenon

(* Short sequences, and one put behind another.                            *)
LEMMA ShortSequences ==
  ASSUME NEW S, NEW a \in S, NEW b \in S
  PROVE  /\ <<a>> \in Seq(S) /\ <<a, b>> \in Seq(S)
         /\ 2 \in DOMAIN <<a, b>> /\ <<a, b>>[2] = b
  OBVIOUS

LEMMA Appending ==
  ASSUME NEW S, NEW s \in Seq(S), NEW t \in Seq(S)
  PROVE  s \o t \in Seq(S)
  OBVIOUS

(* What completion appends.                                                *)
LEMMA WhatIsAppended ==
  /\ <<"$(FILE_NAME)">> \in Seq(Parts)
  /\ <<"_", "$(SEQUENCE)">> \in Seq(Parts)
  /\ 2 \in DOMAIN <<"_", "$(SEQUENCE)">> /\ <<"_", "$(SEQUENCE)">>[2] \in Variables
  BY PartsKnown, ShortSequences, Zenon

(* A directory, or what else exists, is named as a pattern.                *)
LEMMA NamedType ==
  ASSUME NEW p \in Pattern
  PROVE  Named(p) \in Pattern /\ ~Named(p).exists
  <1> DEFINE s == <<"$(FILE_NAME)">>
  <1>1. s \in Seq(Parts) /\ Named(p) = IF p.exists THEN [exists |-> FALSE, parts |-> p.parts \o s] ELSE p
    BY WhatIsAppended, Zenon DEF Named
  <1> HIDE DEF s
  <1>2. p.parts \in Seq(Parts) /\ p.parts \o s \in Seq(Parts)
    BY <1>1, Appending DEF Pattern
  <1> QED BY <1>1, <1>2 DEF Pattern

(* Completing a pattern gives a pattern.                                   *)
LEMMA CompletedType == \A p \in Pattern : Completed(p) \in Pattern
  <1> SUFFICES ASSUME NEW p \in Pattern PROVE Completed(p) \in Pattern
    OBVIOUS
  <1> DEFINE s == <<"_", "$(SEQUENCE)">>
  <1>1. /\ s \in Seq(Parts) /\ Named(p) \in Pattern
        /\ \/ Completed(p) = [Named(p) EXCEPT !.parts = @ \o s]
           \/ Completed(p) = Named(p)
    BY WhatIsAppended, NamedType, Zenon DEF Completed
  <1> HIDE DEF s
  <1>2. Named(p).parts \o s \in Seq(Parts)
    BY <1>1, Appending DEF Pattern
  <1> QED BY <1>1, <1>2 DEF Pattern

(* A stem is the expanded name, or its texts up to the one that is cut.    *)
LEMMA StemShape ==
  ASSUME NEW e
  PROVE  \/ Stem(e) = e
         \/ \E k \in DOMAIN e :
              Mark[e[k]] = "." /\ Stem(e) = [n \in 1..k |-> IF n = k THEN Cut[e[k]] ELSE e[n]]
  <1>1. CASE \E k \in DOMAIN e : CutAt(e, k)
    <2> DEFINE c == CHOOSE k \in DOMAIN e : CutAt(e, k)
    <2>1. c \in DOMAIN e /\ CutAt(e, c)
      BY <1>1
    <2>2. Mark[e[c]] = "."
      BY <2>1 DEF CutAt
    <2>3. Stem(e) = [n \in 1..c |-> IF n = c THEN Cut[e[c]] ELSE e[n]]
      BY <1>1 DEF Stem
    <2> QED BY <2>1, <2>2, <2>3
  <1>2. CASE ~\E k \in DOMAIN e : CutAt(e, k)
    BY <1>2 DEF Stem
  <1> QED BY <1>1, <1>2

(* The texts of a pattern for an image.                                    *)
LEMMA TextsOf ==
  ASSUME NEW p \in Pattern, NEW i \in Images
  PROVE  /\ DOMAIN p.parts = 1..Len(p.parts) /\ Len(p.parts) \in Nat
         /\ \A k \in DOMAIN p.parts : p.parts[k] \in Parts /\ Value[p.parts[k]][i] \in Texts
         /\ [k \in DOMAIN p.parts |-> Value[p.parts[k]][i]] \in Seq(Texts)
  <1>1. p.parts \in Seq(Parts)
    BY DEF Pattern
  <1>2. DOMAIN p.parts = 1..Len(p.parts) /\ Len(p.parts) \in Nat
    BY <1>1
  <1>3. \A k \in DOMAIN p.parts : p.parts[k] \in Parts /\ Value[p.parts[k]][i] \in Texts
    BY <1>1, ValueTyped
  <1>4. [k \in 1..Len(p.parts) |-> Value[p.parts[k]][i]] \in Seq(Texts)
    BY <1>2, <1>3
  <1> QED BY <1>2, <1>3, <1>4

(* The stem of a name is made of texts.                                    *)
LEMMA StemType ==
  ASSUME NEW p \in Pattern, NEW i \in Images
  PROVE  StemOf(p, i) \in Seq(Texts)
  <1> DEFINE e == [k \in DOMAIN p.parts |-> Value[p.parts[k]][i]]
  <1>1. e \in Seq(Texts)
    BY TextsOf
  <1>2. StemOf(p, i) = Stem(e)
    BY DEF StemOf
  <1> HIDE DEF e
  <1>3. ASSUME NEW k \in DOMAIN e
        PROVE  [n \in 1..k |-> IF n = k THEN Cut[e[k]] ELSE e[n]] \in Seq(Texts)
    <2>1. k \in Nat /\ 1..k \subseteq DOMAIN e /\ e[k] \in Texts
      BY <1>1
    <2>2. \A n \in 1..k : (IF n = k THEN Cut[e[k]] ELSE e[n]) \in Texts
      BY <1>1, <2>1, CutTyped
    <2> QED BY <2>1, <2>2
  <1> QED BY <1>1, <1>2, <1>3, StemShape

(* Expanding it gives a file name.                                         *)
LEMMA ExpandedType ==
  ASSUME NEW p \in Pattern, NEW i \in Images
  PROVE  Expanded(p, i) \in Names
  BY StemType, SuffixIsNat DEF Expanded, Names

(* Writing a file adds its name and changes no other file.                 *)
LEMMA PutOther ==
  ASSUME NEW n, NEW c, NEW m \in DOMAIN files, m # n
  PROVE  m \in DOMAIN Put(n, c) /\ Put(n, c)[m] = files[m]
  BY DEF Put

(* The initial state satisfies the invariant.                              *)
LEMMA DiskInit == Init => DiskInv
  <1> SUFFICES ASSUME Init PROVE DiskInv
    OBVIOUS
  <1>1. TypeOK
    BY DiskConstants DEF Init, TypeOK, Places, Content, UserContent
  <1>2. LockDiscipline
    BY DiskConstants DEF Init, LockDiscipline, Critical
  <1>3. NamesTyped /\ NamesFresh /\ UserFilesKept
    BY DEF Init, NamesTyped, NamesFresh, UserFilesKept, HasName
  <1> QED BY <1>1, <1>2, <1>3 DEF DiskInv

(* Every step of a call of store keeps the types.                          *)
LEMMA StoreType ==
  ASSUME DiskInv, NEW i \in Images, Store(i)
  PROVE  TypeOK'
  <1> USE DEF DiskInv, TypeOK, Places, Critical
  <1>1. CASE Lock(i)
    BY <1>1 DEF Lock
  <1>2. CASE Expand(i)
    BY <1>2, CompletedType, ExpandedType DEF Expand
  <1>3. CASE MkdirFails(i)
    BY <1>3, CompletedType DEF MkdirFails
  <1>4. CASE ProbeTaken(i)
    <2>1. name[i] \in Names
      BY <1>4 DEF ProbeTaken, NamesTyped
    <2>2. [name[i] EXCEPT !.suffix = @ + 1] \in Names
      BY <1>4, <2>1, SuffixIsNat DEF ProbeTaken, Names
    <2> QED BY <1>4, <2>2 DEF ProbeTaken
  <1>5. CASE ProbeFree(i)
    BY <1>5 DEF ProbeFree
  <1>6. CASE Unlock(i)
    BY <1>6 DEF Unlock
  <1>7. CASE Export(i)
    <2>1. name[i] \in Names
      BY <1>7 DEF Export, NamesTyped, HasName
    <2>2. [pixels |-> i, xmp |-> NoImage] \in Content
      BY DEF Content
    <2>3. DOMAIN files' \subseteq Names /\ \A n \in DOMAIN files' : files'[n] \in Content
      BY <1>7, <2>1, <2>2 DEF Export, Put
    <2> QED BY <1>7, <2>3 DEF Export
  <1>8. CASE AttachXmp(i)
    <2>1. DOMAIN files' \subseteq Names /\ \A n \in DOMAIN files' : files'[n] \in Content
      BY <1>8 DEF AttachXmp, Exists, Content
    <2> QED BY <1>8, <2>1 DEF AttachXmp
  <1> QED BY <1>1, <1>2, <1>3, <1>4, <1>5, <1>6, <1>7, <1>8 DEF Store

(* Every step of a call keeps the mutex discipline.                        *)
LEMMA StoreLock ==
  ASSUME DiskInv, NEW i \in Images, Store(i)
  PROVE  LockDiscipline'
  <1> USE DiskConstants DEF DiskInv, TypeOK, LockDiscipline, Critical
  <1>1. CASE Lock(i)
    BY <1>1 DEF Lock
  <1>2. CASE Expand(i)
    BY <1>2 DEF Expand
  <1>3. CASE MkdirFails(i)
    BY <1>3 DEF MkdirFails
  <1>4. CASE ProbeTaken(i)
    BY <1>4 DEF ProbeTaken
  <1>5. CASE ProbeFree(i)
    BY <1>5 DEF ProbeFree
  <1>6. CASE Unlock(i)
    BY <1>6 DEF Unlock
  <1>7. CASE Export(i)
    BY <1>7 DEF Export
  <1>8. CASE AttachXmp(i)
    BY <1>8 DEF AttachXmp
  <1> QED BY <1>1, <1>2, <1>3, <1>4, <1>5, <1>6, <1>7, <1>8 DEF Store

(* Every step of a call keeps the names it may write to off the user's.    *)
LEMMA StoreNames ==
  ASSUME DiskInv, NEW i \in Images, Store(i)
  PROVE  NamesTyped' /\ NamesFresh'
  <1> USE DEF DiskInv, TypeOK, NamesTyped, NamesFresh, HasName
  <1>1. CASE Lock(i)
    BY <1>1 DEF Lock
  <1>2. CASE Expand(i)
    BY <1>2, CompletedType, ExpandedType DEF Expand
  <1>3. CASE MkdirFails(i)
    BY <1>3 DEF MkdirFails
  <1>4. CASE ProbeTaken(i)
    <2>1. [name[i] EXCEPT !.suffix = @ + 1] \in Names
      BY <1>4, SuffixIsNat DEF ProbeTaken, Names
    <2> QED BY <1>4, <2>1 DEF ProbeTaken
  <1>5. CASE ProbeFree(i)
    BY <1>5 DEF ProbeFree, Exists, UserFilesKept
  <1>6. CASE Unlock(i)
    BY <1>6 DEF Unlock
  <1>7. CASE Export(i)
    BY <1>7 DEF Export
  <1>8. CASE AttachXmp(i)
    BY <1>8 DEF AttachXmp
  <1> QED BY <1>1, <1>2, <1>3, <1>4, <1>5, <1>6, <1>7, <1>8 DEF Store

(* Every step of a call keeps the user's files.                            *)
LEMMA StoreFiles ==
  ASSUME DiskInv, NEW i \in Images, Store(i)
  PROVE  UserFilesKept'
  <1> USE DEF DiskInv, UserFilesKept
  <1>1. CASE Export(i)
    <2> SUFFICES ASSUME NEW n \in UserFiles
                 PROVE  n \in DOMAIN files' /\ files'[n] = UserContent
      OBVIOUS
    <2>1. n # name[i]
      BY <1>1 DEF Export, NamesFresh, HasName
    <2> QED BY <1>1, <2>1, PutOther DEF Export
  <1>2. CASE AttachXmp(i)
    BY <1>2 DEF AttachXmp, NamesFresh, HasName, Exists
  <1>3. CASE UNCHANGED files
    BY <1>3
  <1> QED
    BY <1>1, <1>2, <1>3
    DEF Store, Lock, Expand, MkdirFails, ProbeTaken, ProbeFree, Unlock

(* A stuttering step changes nothing.                                      *)
LEMMA DiskStutter == DiskInv /\ UNCHANGED vars => DiskInv'
  BY DEF DiskInv, vars, TypeOK, LockDiscipline, NamesTyped, NamesFresh,
         HasName, UserFilesKept

(* The invariant holds in every reachable state.                           *)
THEOREM DiskInvariant == Spec => []DiskInv
  <1>1. Init => DiskInv
    BY DiskInit
  <1>2. DiskInv /\ [Next]_vars => DiskInv'
    <2> SUFFICES ASSUME DiskInv, [Next]_vars PROVE DiskInv'
      OBVIOUS
    <2>1. ASSUME NEW i \in Images, Store(i) PROVE DiskInv'
      BY <2>1, StoreType, StoreLock, StoreNames, StoreFiles DEF DiskInv
    <2>2. CASE AllDone
      BY <2>2, DiskStutter DEF AllDone
    <2>3. CASE UNCHANGED vars
      BY <2>3, DiskStutter
    <2> QED BY <2>1, <2>2, <2>3 DEF Next
  <1> QED BY <1>1, <1>2, PTL DEF Spec

(* Type correctness of the disk storage.                                   *)
THEOREM DiskTypeCorrect == Spec => []TypeOK
  <1>1. DiskInv => TypeOK
    BY DEF DiskInv
  <1> QED BY <1>1, DiskInvariant, PTL

(* No call returns with the mutex, and the mutex has one holder at a time. *)
THEOREM DiskLockDiscipline == Spec => []LockDiscipline
  <1>1. DiskInv => LockDiscipline
    BY DEF DiskInv
  <1> QED BY <1>1, DiskInvariant, PTL

(* Every file that existed before the job keeps its content.               *)
THEOREM DiskUserFilesKept == Spec => []UserFilesKept
  <1>1. DiskInv => UserFilesKept
    BY DEF DiskInv
  <1> QED BY <1>1, DiskInvariant, PTL
----------------------------------------------------------------------------
(***************************************************************************)
(* Numbered files.  Once a call has expanded the pattern it is complete    *)
(* and stays as it is; from then on a call's name and a file of the job    *)
(* have the stem of their image.                                           *)
(***************************************************************************)
HasExpanded(i) == pc[i] = "probe" \/ HasName(i) \/ Writes(i)

Complete == Completed(pattern) = pattern

NamesNumbered ==
  \A i \in Images : HasExpanded(i) => Complete /\ name[i].stem = StemOf(pattern, i)

FilesNumbered ==
  \A n \in DOMAIN files \ UserFiles :
    /\ Complete
    /\ files[n].pixels \in Images /\ n.stem = StemOf(pattern, files[n].pixels)
    /\ files[n].xmp \in Images => n.stem = StemOf(pattern, files[n].xmp)

NumberInv == NamesNumbered /\ FilesNumbered

(* What is appended adds a variable.                                       *)
LEMMA AppendedVariable ==
  ASSUME NEW p \in Pattern, NEW s \in Seq(Parts),
         \E k \in DOMAIN s : s[k] \in Variables
  PROVE  \E k \in DOMAIN (p.parts \o s) : (p.parts \o s)[k] \in Variables
  <1>1. p.parts \in Seq(Parts)
    BY DEF Pattern
  <1>2. PICK k \in DOMAIN s : s[k] \in Variables
    OBVIOUS
  <1>3. /\ Len(p.parts) + k \in DOMAIN (p.parts \o s)
        /\ (p.parts \o s)[Len(p.parts) + k] = s[k]
    BY <1>1, <1>2
  <1> QED BY <1>2, <1>3

(* Completing a pattern twice does no more than completing it once, and    *)
(* afterwards only a job of one image has a pattern without variables.     *)
LEMMA CompletedIdempotent ==
  \A p \in Pattern :
    /\ Completed(Completed(p)) = Completed(p)
    /\ Total > 1 => HasVariable(Completed(p))
  <1> SUFFICES ASSUME NEW p \in Pattern
               PROVE  /\ Completed(Completed(p)) = Completed(p)
                      /\ Total > 1 => HasVariable(Completed(p))
    OBVIOUS
  <1>1. \A q : ~q.exists => Named(q) = q
    BY DEF Named
  <1>2. ~Named(p).exists /\ Named(p) \in Pattern
    BY NamedType
  <1>3. CASE Total > 1 /\ ~HasVariable(Named(p))
    <2> DEFINE s == <<"_", "$(SEQUENCE)">>
    <2>1. s \in Seq(Parts) /\ 2 \in DOMAIN s /\ s[2] \in Variables
      BY WhatIsAppended, Zenon
    <2>2. Completed(p) = [Named(p) EXCEPT !.parts = @ \o s]
      BY <1>3 DEF Completed
    <2> HIDE DEF s
    <2>3. Completed(p).parts = Named(p).parts \o s /\ ~Completed(p).exists
      BY <1>2, <2>2 DEF Pattern
    <2>4. HasVariable(Completed(p))
      BY <1>2, <2>1, <2>3, AppendedVariable DEF HasVariable
    <2>5. Named(Completed(p)) = Completed(p)
      BY <1>1, <2>3
    <2> QED BY <2>4, <2>5 DEF Completed
  <1>4. CASE ~(Total > 1 /\ ~HasVariable(Named(p)))
    <2>1. Completed(p) = Named(p)
      BY <1>4 DEF Completed
    <2>2. Named(Named(p)) = Named(p)
      BY <1>1, <1>2
    <2> QED BY <1>4, <2>1, <2>2 DEF Completed
  <1> QED BY <1>3, <1>4

(* A complete pattern without variables belongs to a job of one image.     *)
LEMMA PlainIsAlone ==
  ASSUME pattern \in Pattern, Complete, ~HasVariable(pattern),
         NEW i \in Images, NEW j \in Images
  PROVE  i = j
  <1>1. ~(Total > 1)
    BY CompletedIdempotent DEF Complete
  <1>2. Cardinality(Images) \in Nat /\ Cardinality({i, j}) <= Cardinality(Images)
    BY DiskConstants, FS_Subset, FS_CardinalityType
  <1>3. i # j => Cardinality({i, j}) = 2
    <2> SUFFICES ASSUME i # j PROVE Cardinality({i, j}) = 2
      OBVIOUS
    <2>1. IsFiniteSet({i}) /\ Cardinality({i}) = 1
      BY FS_Singleton
    <2>2. Cardinality({i} \cup {j}) = Cardinality({i}) + 1
      BY <2>1, FS_AddElement
    <2>3. {i, j} = {i} \cup {j}
      OBVIOUS
    <2> QED BY <2>1, <2>2, <2>3
  <1> QED BY <1>1, <1>2, <1>3 DEF Total

(* A number that is in a stem is there as a whole.                         *)
LEMMA NumberInStem ==
  ASSUME NEW p \in Pattern, NEW i \in Images, NEW j \in Images,
         NEW k \in DOMAIN StemOf(p, i), p.parts[k] = "$(SEQUENCE)",
         k \in DOMAIN StemOf(p, j)
  PROVE  StemOf(p, j)[k] = Value["$(SEQUENCE)"][j]
  <1> DEFINE e == [n \in DOMAIN p.parts |-> Value[p.parts[n]][j]]
  <1>1. DOMAIN p.parts = 1..Len(p.parts) /\ Len(p.parts) \in Nat
    BY TextsOf
  <1>2. StemOf(p, j) = Stem(e) /\ DOMAIN e = DOMAIN p.parts
    BY DEF StemOf
  <1>3. k \in DOMAIN p.parts => e[k] = Value["$(SEQUENCE)"][j]
    OBVIOUS
  <1> HIDE DEF e
  <1>4. CASE Stem(e) = e
    BY <1>2, <1>3, <1>4
  <1>5. ASSUME NEW c \in DOMAIN e, Mark[e[c]] = ".",
               Stem(e) = [n \in 1..c |-> IF n = c THEN Cut[e[c]] ELSE e[n]]
        PROVE  StemOf(p, j)[k] = Value["$(SEQUENCE)"][j]
    <2>1. k \in 1..c
      BY <1>2, <1>5
    <2>2. k \in DOMAIN p.parts
      BY <1>1, <1>2, <1>5, <2>1
    <2>3. k # c
      BY <1>3, <1>5, <2>2, DiskConstants
    <2> QED BY <1>2, <1>3, <1>5, <2>1, <2>2, <2>3
  <1> QED BY <1>4, <1>5, StemShape

(* The stem of a numbered image is that of no other image.                 *)
LEMMA NumberTellsImage ==
  ASSUME pattern \in Pattern, Complete, NEW i \in Images, NEW j \in Images,
         Numbered(i), StemOf(pattern, i) = StemOf(pattern, j)
  PROVE  i = j
  <1>1. CASE ~HasVariable(pattern)
    BY <1>1, PlainIsAlone
  <1>2. CASE HasVariable(pattern)
    <2>1. PICK k \in DOMAIN StemOf(pattern, i) : pattern.parts[k] = "$(SEQUENCE)"
      BY <1>2 DEF Numbered
    <2>2. StemOf(pattern, i)[k] = Value["$(SEQUENCE)"][i]
      BY <2>1, NumberInStem
    <2>3. StemOf(pattern, j)[k] = Value["$(SEQUENCE)"][j]
      BY <2>1, NumberInStem
    <2> QED BY <2>2, <2>3, DiskConstants
  <1> QED BY <1>1, <1>2

(* The pattern is completed under the mutex by whoever comes first.        *)
LEMMA CompleteKept ==
  ASSUME DiskInv, pattern' = Completed(pattern)
  PROVE  Complete' /\ (Complete => pattern' = pattern)
  BY CompletedIdempotent DEF Complete, DiskInv, TypeOK

(* A pattern that stays is as complete as it was.                          *)
LEMMA StillComplete == pattern' = pattern => (Complete' <=> Complete)
  BY DEF Complete, Completed, Named, HasVariable

(* A stem depends on the pattern alone.                                    *)
LEMMA StemStays ==
  ASSUME pattern' = pattern
  PROVE  \A i \in Images : StemOf(pattern', i) = StemOf(pattern, i)
  OBVIOUS

(* Every step of a call keeps the stems of the names.                      *)
LEMMA StoreNamesNumbered ==
  ASSUME DiskInv, NumberInv, NEW i \in Images, Store(i)
  PROVE  NamesNumbered'
  <1> USE DEF DiskInv, TypeOK, NumberInv, NamesNumbered, HasExpanded, HasName, Writes
  <1>1. CASE Lock(i)
    BY <1>1, StillComplete DEF Lock
  <1>2. CASE Expand(i)
    <2>1. Complete' /\ (Complete => pattern' = pattern)
      BY <1>2, CompleteKept DEF Expand
    <2>2. name'[i] = Expanded(pattern', i)
      BY <1>2 DEF Expand
    <2>3. name'[i].stem = StemOf(pattern', i)
      BY <2>2 DEF Expanded
    <2>4. \A j \in Images : j # i => name'[j] = name[j] /\ pc'[j] = pc[j]
      BY <1>2 DEF Expand
    <2>5. result' = result
      BY <1>2 DEF Expand
    <2> QED BY <2>1, <2>3, <2>4, <2>5
  <1>3. CASE MkdirFails(i)
    <2>1. Complete' /\ (Complete => pattern' = pattern)
      BY <1>3, CompleteKept DEF MkdirFails
    <2> QED BY <1>3, <2>1 DEF MkdirFails
  <1>4. CASE ProbeTaken(i)
    <2>1. name'[i].stem = name[i].stem
      BY <1>4 DEF ProbeTaken, NamesTyped, Names
    <2> QED BY <1>4, <2>1, StillComplete DEF ProbeTaken
  <1>5. CASE ProbeFree(i)
    BY <1>5, StillComplete DEF ProbeFree
  <1>6. CASE Unlock(i)
    BY <1>6, StillComplete DEF Unlock
  <1>7. CASE Export(i)
    BY <1>7, StillComplete DEF Export
  <1>8. CASE AttachXmp(i)
    BY <1>8, StillComplete DEF AttachXmp
  <1> QED BY <1>1, <1>2, <1>3, <1>4, <1>5, <1>6, <1>7, <1>8 DEF Store

(* Every step of a call keeps the stems of the files.                      *)
LEMMA StoreFilesNumbered ==
  ASSUME DiskInv, NumberInv, NEW i \in Images, Store(i)
  PROVE  FilesNumbered'
  <1>1. CASE UNCHANGED files /\ pattern' = Completed(pattern)
    BY <1>1, CompleteKept DEF NumberInv, FilesNumbered
  <1>2. CASE UNCHANGED <<files, pattern>>
    BY <1>2, StillComplete DEF NumberInv, FilesNumbered
  <1>3. CASE Export(i) /\ ~UNCHANGED files
    <2>1. pattern' = pattern /\ files' = Put(name[i], [pixels |-> i, xmp |-> NoImage])
      BY <1>3 DEF Export
    <2>2. Complete' /\ name[i].stem = StemOf(pattern, i)
      BY <1>3, <2>1, StillComplete
      DEF Export, NumberInv, NamesNumbered, HasExpanded, HasName
    <2>3. DOMAIN files' = DOMAIN files \cup {name[i]}
      BY <2>1 DEF Put
    <2>4. files'[name[i]] = [pixels |-> i, xmp |-> NoImage]
      BY <2>1 DEF Put
    <2>5. \A n \in DOMAIN files : n # name[i] => files'[n] = files[n]
      BY <2>1, PutOther
    <2> QED BY <2>1, <2>2, <2>3, <2>4, <2>5, NothingIsNoImage DEF NumberInv, FilesNumbered
  <1>4. CASE AttachXmp(i) /\ ~UNCHANGED files
    <2>1. pattern' = pattern /\ name[i] \in DOMAIN files
          /\ files' = [files EXCEPT ![name[i]].xmp = i]
      BY <1>4 DEF AttachXmp, Exists
    <2>2. name[i].stem = StemOf(pattern, i)
      BY <1>4 DEF AttachXmp, NumberInv, NamesNumbered, HasExpanded, HasName
    <2>3. files[name[i]] \in Content
      BY <2>1 DEF DiskInv, TypeOK
    <2>4. files'[name[i]].pixels = files[name[i]].pixels /\ files'[name[i]].xmp = i
      BY <2>1, <2>3 DEF Content
    <2>5. DOMAIN files' = DOMAIN files
          /\ \A n \in DOMAIN files : n # name[i] => files'[n] = files[n]
      BY <2>1
    <2>6. Complete' <=> Complete
      BY <2>1, StillComplete
    <2> QED BY <2>1, <2>2, <2>4, <2>5, <2>6 DEF NumberInv, FilesNumbered
  <1> QED
    BY <1>1, <1>2, <1>3, <1>4
    DEF Store, Lock, Expand, MkdirFails, ProbeTaken, ProbeFree, Unlock, Export, AttachXmp

(* The stems are as they should be in every reachable state.               *)
LEMMA NumberInvariant == Spec => []NumberInv
  <1>1. Init => NumberInv
    BY DEF Init, NumberInv, NamesNumbered, FilesNumbered, HasExpanded, HasName, Writes
  <1>2. DiskInv /\ NumberInv /\ [Next]_vars => NumberInv'
    <2> SUFFICES ASSUME DiskInv, NumberInv, [Next]_vars PROVE NumberInv'
      OBVIOUS
    <2>1. ASSUME NEW i \in Images, Store(i) PROVE NumberInv'
      BY <2>1, StoreNamesNumbered, StoreFilesNumbered DEF NumberInv
    <2>2. CASE UNCHANGED vars
      BY <2>2, StillComplete
      DEF vars, NumberInv, NamesNumbered, FilesNumbered, HasExpanded, HasName, Writes
    <2> QED BY <2>1, <2>2 DEF Next, AllDone
  <1> QED BY <1>1, <1>2, DiskInvariant, PTL DEF Spec

(***************************************************************************)
(* disk.c's "avoid braindead export which is bound to overwrite at random" *)
(* keeps its word for every job and every pattern: an image whose number   *)
(* is in front of the last dot of its name never has the file of another,  *)
(* and its xmp never goes to another's.                                    *)
(***************************************************************************)
THEOREM DiskNumberedFilesDiffer == Spec => []NumberedFilesDiffer
  <1>1. DiskInv /\ NumberInv => NumberedFilesDiffer
    <2> SUFFICES ASSUME DiskInv, NumberInv, NEW i \in Images, Numbered(i)
                 PROVE  /\ \A j \in Images : i # j /\ Writes(i) /\ Writes(j) => name[i] # name[j]
                        /\ \A n \in DOMAIN files : files[n].xmp = i => files[n].pixels = i
      BY DEF NumberedFilesDiffer
    <2>1. ASSUME NEW j \in Images, Writes(i), Writes(j), name[i] = name[j]
          PROVE  i = j
      <3>1. Complete /\ StemOf(pattern, i) = StemOf(pattern, j)
        BY <2>1 DEF NumberInv, NamesNumbered, HasExpanded
      <3> QED BY <3>1, NumberTellsImage DEF DiskInv, TypeOK
    <2>2. ASSUME NEW n \in DOMAIN files, files[n].xmp = i
          PROVE  files[n].pixels = i
      <3>1. n \notin UserFiles
        BY <2>2, NothingIsNoImage DEF DiskInv, UserFilesKept, UserContent
      <3>2. /\ Complete /\ files[n].pixels \in Images
            /\ StemOf(pattern, i) = StemOf(pattern, files[n].pixels)
        BY <2>2, <3>1 DEF NumberInv, FilesNumbered
      <3> QED BY <3>2, NumberTellsImage DEF DiskInv, TypeOK
    <2> QED BY <2>1, <2>2
  <1> QED BY <1>1, DiskInvariant, NumberInvariant, PTL
=============================================================================

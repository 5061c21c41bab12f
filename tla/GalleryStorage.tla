--------------------------- MODULE GalleryStorage ---------------------------
(***************************************************************************)
(* The "website gallery" storage (imageio/storage/gallery.c).  The threads *)
(* of an export job call store for images 1 .. Total, each image once; the *)
(* job calls finalize_store when all calls have returned.  The parameters  *)
(* d are shared by the calls; the format parameters fdata, which hold the  *)
(* codec's state, belong to one thread.                                    *)
(***************************************************************************)
EXTENDS Integers, FiniteSets, Sequences, SequencesExt

CONSTANTS
  Threads,
  Total,       \* number of images; the job numbers them 1 .. Total
  FileName,    \* what $(FILE_NAME) expands to for an image
  Directory,   \* what $(FILE_DIRECTORY) expands to for an image
  Patterns,    \* file name patterns the user can have typed
  FullSize,    \* max_width and max_height of the job
  ThumbSize,   \* 200
  None         \* no image, directory or thread

Numbers == 1..Total  \* of the images of the job

(* `exists': the pattern is a directory; `file', `sequence', `own',        *)
(* `other': it holds $(FILE_NAME), $(SEQUENCE), $(FILE_DIRECTORY), another *)
(* variable; `cut': a dot of its file name comes before the variables.     *)
Pattern == [exists : BOOLEAN, file : BOOLEAN, sequence : BOOLEAN, own : BOOLEAN,
            other : BOOLEAN, cut : BOOLEAN]

\* index.html: its directory, or None if it could not be opened, and its positions.
Directories == {"gallery"} \cup {Directory[i] : i \in Numbers}
IndexPage == [dir : Directories \cup {None}, entries : Seq(Numbers)]

\* What the constants are assumed to be, where this module is instantiated.
GalleryConstants ==
  /\ Total \in Nat \ {0} /\ Patterns \subseteq Pattern
  /\ None \notin Threads \cup Numbers \cup {0, 1} /\ None \notin IndexPage

VARIABLES
  pattern,    \* d->filename
  cached,     \* d->cached_dirname
  list,       \* d->l: positions in the order of the list
  owner,      \* owner of darktable.plugin_threadsafe
  pc,         \* where the store of a thread is, "idle" between two calls
  num,        \* the image a thread stores
  size,       \* fdata->max_width and max_height of a thread
  pictures,   \* image files: name -> image and size
  pages,      \* pairs of directory and number of the pages img_<num>.html
  result,     \* what store returned for an image
  index,      \* index.html, None until finalize_store
  crashed     \* fprintf to the null FILE of a page that could not be opened

gvars == <<pattern, cached, list, owner, pc, num, size, pictures, pages,
           result, index, crashed>>

Completed(p) ==
  LET named == IF p.exists THEN [p EXCEPT !.exists = FALSE, !.file = TRUE, !.cut = FALSE] ELSE p
  IN  IF Total > 1 /\ ~(named.file \/ named.sequence \/ named.own \/ named.other)
      THEN [named EXCEPT !.sequence = TRUE] ELSE named

DirOf(p, i) == IF p.own THEN Directory[i] ELSE "gallery"

\* The extension replaces all from the last dot on.
Picture(p, i, thumb) ==
  [dir |-> DirOf(p, i), file |-> IF p.file /\ ~p.cut THEN FileName[i] ELSE "",
   number |-> IF p.sequence /\ ~p.cut THEN i ELSE 0, thumb |-> thumb]

OpenNextPage(i) == i + 1  \* bug: the last page has no successor

(* The links of a page go round the positions.                             *)
NextPage(i) == (i % Total) + 1
PrevPage(i) == IF i = 1 THEN Total ELSE i - 1

Put(name, i, s) ==
  pictures' = [m \in DOMAIN pictures \cup {name} |->
                 IF m = name THEN [image |-> i, size |-> s] ELSE pictures[m]]

\* g_list_insert_sorted with sort_pos: before the first position not below i.
InsertSorted(l, i) ==
  LET Place(k) == (\A j \in 1..k - 1 : l[j] < i) /\ (k <= Len(l) => l[k] >= i)
  IN  InsertAt(l, CHOOSE k \in 1..Len(l) + 1 : Place(k), i)

----------------------------------------------------------------------------
GInit ==
  /\ pattern \in Patterns
  /\ cached = None /\ list = << >> /\ owner = None
  /\ pc = [t \in Threads |-> "idle"]
  /\ num = [t \in Threads |-> None]
  /\ size = [t \in Threads |-> FullSize]
  /\ pictures = [n \in {} |-> None] /\ pages = {}
  /\ result = [i \in Numbers |-> None]
  /\ index = None /\ crashed = FALSE

At(t, place) == pc[t] = place /\ ~crashed
Goto(t, place) == pc' = [pc EXCEPT ![t] = place]

\* The job hands an image that no thread was given to a thread that is idle.
Call(t) ==
  /\ At(t, "idle") /\ Goto(t, "lock")
  /\ \E i \in Numbers :
       /\ result[i] = None /\ \A u \in Threads : num[u] # i
       /\ num' = [num EXCEPT ![t] = i]
  /\ UNCHANGED <<pattern, cached, list, owner, size, pictures, pages, result, index, crashed>>

Lock(t) ==
  /\ At(t, "lock") /\ owner = None /\ Goto(t, "page")
  /\ owner' = t
  /\ UNCHANGED <<pattern, cached, list, num, size, pictures, pages, result, index, crashed>>

Return(t, code) ==
  /\ Goto(t, "idle")
  /\ result' = [result EXCEPT ![num[t]] = code]
  /\ num' = [num EXCEPT ![t] = None]

\* bug: the failure path returns with the mutex held.
MkdirFailsLocked(t) ==
  /\ At(t, "page") /\ Return(t, 1)
  /\ pattern' = Completed(pattern)
  /\ UNCHANGED <<cached, list, owner, size, pictures, pages, index, crashed>>

\* g_mkdir_with_parents fails: unlock, return 1.
MkdirFails(t) ==
  /\ At(t, "page") /\ Return(t, 1)
  /\ pattern' = Completed(pattern)
  /\ owner' = None
  /\ UNCHANGED <<cached, list, size, pictures, pages, index, crashed>>

\* Expand the pattern, remember the directory, write the image's page and
\* enter it into the list, all before the mutex is released.
WritePage(t) ==
  /\ At(t, "page") /\ Goto(t, "export")
  /\ pattern' = Completed(pattern)
  /\ cached' = DirOf(pattern', num[t])
  /\ pages' = pages \cup {<<cached', num[t]>>}
  /\ list' = InsertSorted(list, num[t])
  /\ owner' = None
  /\ UNCHANGED <<num, size, pictures, result, index, crashed>>

\* fopen of the page fails and its result is not looked at.
PageNotOpened(t) ==
  /\ At(t, "page")
  /\ pattern' = Completed(pattern)
  /\ cached' = DirOf(pattern', num[t])
  /\ crashed' = TRUE
  /\ UNCHANGED <<list, owner, pc, num, size, pictures, pages, result, index>>

\* dt_imageio_export writes the picture or fails; its result is not looked at.
Export(t, thumb) ==
  \/ Put(Picture(pattern, num[t], thumb), num[t], size[t])
  \/ UNCHANGED pictures

ExportPicture(t) ==
  /\ At(t, "export") /\ Goto(t, "shrink")
  /\ Export(t, FALSE)
  /\ UNCHANGED <<pattern, cached, list, owner, num, size, pages, result, index, crashed>>

\* Keep max_width and max_height aside, set them to 200.
Shrink(t) ==
  /\ At(t, "shrink") /\ Goto(t, "thumb")
  /\ size' = [size EXCEPT ![t] = ThumbSize]
  /\ UNCHANGED <<pattern, cached, list, owner, num, pictures, pages, result, index, crashed>>

ExportThumb(t) ==
  /\ At(t, "thumb") /\ Goto(t, "restore")
  /\ Export(t, TRUE)
  /\ UNCHANGED <<pattern, cached, list, owner, num, size, pages, result, index, crashed>>

\* bug: the size of the thumbnail stays.
RestoreNothing(t) ==
  /\ At(t, "restore") /\ Return(t, 0)
  /\ UNCHANGED <<pattern, cached, list, owner, size, pictures, pages, index, crashed>>

\* "restore for next image".
Restore(t) ==
  /\ At(t, "restore") /\ Return(t, 0)
  /\ size' = [size EXCEPT ![t] = FullSize]
  /\ UNCHANGED <<pattern, cached, list, owner, pictures, pages, index, crashed>>

\* finalize_store, after all calls: the list is emptied into index.html of
\* the cached directory, unless that cannot be opened.
FinalizeStore ==
  /\ index = None /\ ~crashed
  /\ \A i \in Numbers : result[i] # None
  /\ \/ index' = [dir |-> cached, entries |-> list] /\ list' = << >>
     \/ index' = [dir |-> None, entries |-> << >>] /\ UNCHANGED list
  /\ UNCHANGED <<pattern, cached, owner, pc, num, size, pictures, pages, result, crashed>>

Store(t) ==
  \/ Lock(t) \/ MkdirFails(t) \/ WritePage(t) \/ PageNotOpened(t)
  \/ ExportPicture(t) \/ Shrink(t) \/ ExportThumb(t) \/ Restore(t)

JobOver == (index # None \/ crashed) /\ UNCHANGED gvars

GNext == (\E t \in Threads : Call(t) \/ Store(t)) \/ FinalizeStore \/ JobOver

GSpec == GInit /\ [][GNext]_gvars
----------------------------------------------------------------------------
GTypeOK ==
  /\ pattern \in Pattern
  /\ owner \in Threads \cup {None}
  /\ pc \in [Threads -> {"idle", "lock", "page", "export", "shrink", "thumb", "restore"}]
  /\ num \in [Threads -> Numbers \cup {None}]
  /\ size \in [Threads -> {FullSize, ThumbSize}]
  /\ \A n \in DOMAIN pictures : pictures[n] \in [image : Numbers, size : {FullSize, ThumbSize}]
  /\ result \in [Numbers -> {None, 0, 1}]
  /\ list \in Seq(Numbers)
  /\ crashed \in BOOLEAN
  /\ \A t \in Threads : /\ pc[t] = "page" <=> owner = t
                        /\ pc[t] = "idle" <=> num[t] = None

(***************************************************************************)
(* One gallery is one job of StorageJobs: its index is the presentation,   *)
(* in the order of the job, of all stored images or, if index.html could   *)
(* not be opened, of none.                                                 *)
(***************************************************************************)
TheJob(i) == 1
Earlier(i, k) == i < k
Answers ==
  [i \in Numbers |-> IF result[i] = None THEN "none" ELSE IF result[i] = 0 THEN "taken" ELSE "refused"]

Promise == INSTANCE StorageJobs WITH
  Images <- Numbers, Jobs <- {1}, JobOf <- TheJob, Before <- Earlier, Room <- 0,
  answer <- Answers,
  presented <- IF index = None THEN {} ELSE {1},
  shown <- [j \in {1} |-> IF index = None THEN << >> ELSE index.entries]

GalleryPresented == Promise!JobsSpec

(***************************************************************************)
(* The index lists every stored image once, in the order of the job, in    *)
(* whatever order the calls finished and whichever of them failed.         *)
(***************************************************************************)
IndexInOrder ==
  index # None =>
    \/ index.dir = None /\ (index.entries = << >>)
    \/ /\ ToSet(index.entries) = {i \in Numbers : result[i] = 0}
       /\ \A j, k \in DOMAIN index.entries : j < k => index.entries[j] < index.entries[k]

(***************************************************************************)
(* A thread's format parameters are back at the job's size when the next   *)
(* image is exported: every picture has full size and every thumbnail the  *)
(* small one.                                                              *)
(***************************************************************************)
SizesKeptApart ==
  \A n \in DOMAIN pictures : pictures[n].size = IF n.thumb THEN ThumbSize ELSE FullSize

(***************************************************************************)
(* The pages of a complete gallery form one ring: when no image failed and *)
(* all pages share a directory, "next" leads to a page that is there and   *)
(* "prev" of that page leads back.                                         *)
(***************************************************************************)
PagesFormRing ==
  index # None /\ (\A i \in Numbers : result[i] = 0) /\ ~pattern.own =>
    \A p \in pages : /\ <<p[1], NextPage(p[2])>> \in pages
                     /\ PrevPage(NextPage(p[2])) = p[2]
=============================================================================

----------------------------- MODULE MCStorages -----------------------------
(***************************************************************************)
(* The storages that send or present exported images, and the dialogs that *)
(* log in for two of them; each run of the model is one of one of them.    *)
(* Instances: three images for a storage, in the gallery the last two with *)
(* one base name in two directories, by e-mail two jobs that use one file  *)
(* name; for a dialog two users, and contexts for the log-ins of two       *)
(* exports and a refresh.                                                  *)
(***************************************************************************)
EXTENDS PicasaStorage, FlickrSession, PicasaSession, TLC

CONSTANTS
  Threads, Patterns, FullSize, ThumbSize,                        \* gallery
  TeamSizes,                                                     \* Flickr
  a1, a2, b1, a3, AttachmentRoom, NoImage                        \* e-mail

VARIABLES
  which,
  gpattern, gcached, glist, gowner, gpc, gnum, gsize, gpictures, gpages, gresult, gindex, gcrashed,
  fpc, ftemp, fcritical, fcurrent, fnewAlbum, fuploaded, fmembers, fresult, fteam, fchoice, frefused,
  funanswered,
  epc, ecritical, efiles, eunwritten, eimages, etail, ejob, eattached, elaunched, email, ereceived

galleryVars == <<gpattern, gcached, glist, gowner, gpc, gnum, gsize, gpictures, gpages, gresult,
  gindex, gcrashed>>
flickrVars == <<fpc, ftemp, fcritical, fcurrent, fnewAlbum, fuploaded, fmembers, fresult, fteam,
  fchoice, frefused, funanswered>>
emailVars == <<epc, ecritical, efiles, eunwritten, eimages, etail, ejob, eattached, elaunched, email,
  ereceived>>
G == INSTANCE GalleryStorage WITH
       Total <- 3, FileName <- <<"a", "b", "b">>, Directory <- <<"d", "d", "e">>,
       pattern <- gpattern, cached <- gcached, list <- glist, owner <- gowner, pc <- gpc, num <- gnum,
       size <- gsize, pictures <- gpictures, pages <- gpages, result <- gresult, index <- gindex,
       crashed <- gcrashed
F == INSTANCE FlickrStorage WITH
       pc <- fpc, temp <- ftemp, critical <- fcritical, current <- fcurrent, newAlbum <- fnewAlbum,
       uploaded <- fuploaded, members <- fmembers, result <- fresult, team <- fteam, choice <- fchoice,
       refused <- frefused, unanswered <- funanswered
SecondJob(i) == IF i = a3 THEN 2 ELSE 1
BaseName(i) == IF i = b1 THEN "b" ELSE "a"
E == INSTANCE EmailStorage WITH
       Images <- {a1, a2, b1, a3}, JobOf <- SecondJob, Base <- BaseName,
       pc <- epc, critical <- ecritical, files <- efiles, unwritten <- eunwritten, images <- eimages,
       tail <- etail, job <- ejob, attached <- eattached, launched <- elaunched, mails <- email, received <- ereceived
ASSUME StorageConstants == G!GalleryConstants /\ F!FlickrConstants /\ E!EmailConstants

Typed == [exists |-> FALSE, file |-> FALSE, sequence |-> FALSE, own |-> FALSE, other |-> FALSE, cut |-> FALSE]
ExistingDirectory == [Typed EXCEPT !.exists = TRUE]
MCPatterns == {ExistingDirectory, Typed, [Typed EXCEPT !.file = TRUE, !.own = TRUE],
               [Typed EXCEPT !.other = TRUE, !.cut = TRUE]}

\* No definition tells one context from another.
Interchangeable == Permutations(Contexts)

----------------------------------------------------------------------------
\* What is not selected stays in one of its initial states.
MCInit ==
  /\ which \in {"gallery", "flickr", "picasa", "email", "flickr dialog", "picasa dialog"}
  /\ G!GInit /\ F!FInit /\ PInit /\ E!EInit
  /\ IF which = "picasa dialog" THEN PicasaInit /\ token = NoUser /\ stored = NoUser /\ outlived = FALSE
     ELSE FlickrInit
  /\ which = "gallery" \/ gpattern = ExistingDirectory
  /\ which = "flickr" \/ (fteam = 1 /\ fchoice = "new")
  /\ which = "picasa" \/ current = None
  /\ which \in {"flickr dialog", "picasa dialog"} \/ (entry = (CHOOSE u \in Users : TRUE) /\ stored = NoUser)

MCNext ==
  /\ UNCHANGED which
  /\ \/ which = "gallery" /\ G!GNext /\ UNCHANGED <<flickrVars, pvars, emailVars, FlickrVars>>
     \/ which = "flickr" /\ F!FNext /\ UNCHANGED <<galleryVars, pvars, emailVars, FlickrVars>>
     \/ which = "picasa" /\ PNext /\ UNCHANGED <<galleryVars, flickrVars, emailVars, FlickrVars>>
     \/ which = "email" /\ E!ENext /\ UNCHANGED <<galleryVars, flickrVars, pvars, FlickrVars>>
     \/ which = "flickr dialog" /\ FlickrNext /\ UNCHANGED <<galleryVars, flickrVars, pvars, emailVars>>
     \/ which = "picasa dialog" /\ PicasaNext
        /\ UNCHANGED <<galleryVars, flickrVars, pvars, emailVars, token, stored, outlived>>

MCSpec == MCInit /\ [][MCNext]_<<which, galleryVars, flickrVars, pvars, emailVars, FlickrVars>>

----------------------------------------------------------------------------
(* What each storage and each dialog has is of its type; with that, the     *)
(* mutex of the gallery is held by the thread that writes a page and by no *)
(* other, on its failure path too, and the two critical blocks of Picasa   *)
(* exclude each other, for they share a curl handle (GTypeOK, PTypeOK).    *)
StoragesTyped ==
  /\ G!GTypeOK /\ F!FTypeOK /\ PTypeOK /\ E!ETypeOK
  /\ IF which = "picasa dialog" THEN PicasaTypeOK ELSE FlickrTypeOK

(* Gallery and e-mail keep the promise of StorageJobs: the index and the   *)
(* mail present the images that store took, no other and none twice, the   *)
(* index in the order of the job and not of the threads, after the last    *)
(* call has returned, and never again.                                     *)
JobsPresented == G!GalleryPresented /\ E!MailsPresented

(* Gallery: no picture is exported in the size of a thumbnail, although    *)
(* both are exported from one record of the sizes, image after image.      *)
SizesKeptApart == G!SizesKeptApart

(* Gallery: the pages link to pages that exist, in a ring.                 *)
PagesFormRing == G!PagesFormRing

(* Flickr: a photo of which store returned 0, which is failure there, is   *)
(* in no album, and on the server only if the answer was lost.             *)
ZeroLeavesNothing == F!ZeroLeavesNothing

(* Flickr: photos get into the album that was chosen and no other is made  *)
(* than a new one that was asked for; with one thread all photos of a job  *)
(* are in one album, and a call that lost its album had a parallel one.    *)
AlbumsAsChosen == F!AlbumsAsChosen /\ F!PhotosTogetherSerially

(* E-mail: the list of a job has each export that returned, once, however  *)
(* the calls interleave; its mail has each image once, unless there are    *)
(* more than the command line takes; and what the client reads of a file   *)
(* that later exports overwrite is never older than what was mailed,       *)
(* unless the export failed.                                               *)
MailAsExported == E!EveryExportListed /\ E!MailComplete /\ E!NothingStaleMailed

(* The dialogs: a job has the album that the dialog showed when the user   *)
(* started it, and the account that was named then, unless what was typed  *)
(* has not been logged in (Picasa) or was typed while there was no context *)
(* and a token of the earlier name (Flickr; get_params of both storages).  *)
AlbumAsShown ==
  IF which = "picasa dialog" THEN PicasaAlbumAsShown /\ AccountAsNamed
  ELSE FlickrAlbumAsShown /\ FlickrAccountAsNamed
=============================================================================

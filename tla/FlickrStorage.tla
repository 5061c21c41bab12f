--------------------------- MODULE FlickrStorage ---------------------------
(***************************************************************************)
(* The uploads of an export job to Flickr (imageio/storage/flickr.c).      *)
(* Parallel calls of store share one api context p->flickr_api.  Only the  *)
(* upload itself is the block of `omp critical'; the choice, creation and  *)
(* filling of the album that follow it are not.                            *)
(***************************************************************************)
EXTENDS Integers, FiniteSets

CONSTANTS
  Images,     \* the images of the job
  TeamSizes,  \* how many calls of store run at the same time
  Existing,   \* an album the user had
  None

\* What the constants are assumed to be, where this module is instantiated.
FlickrConstants ==
  /\ IsFiniteSet(Images)
  /\ TeamSizes \subseteq Nat \ {0}
  /\ Existing \notin Images /\ None \notin Images \cup {Existing, 0, 1}

(* An album of this job is known by the photo it was created with.         *)
Albums == Images \cup {Existing}

VARIABLES
  pc,          \* where the call of store for an image is
  temp,        \* images whose temporary file exists
  critical,    \* the call inside the critical block
  current,     \* p->flickr_api->current_album
  newAlbum,    \* p->flickr_api->new_album
  uploaded,    \* photos on the server
  members,     \* pairs of album and photo on the server
  result,      \* what store returned: 0 is failure here, 1 is success
  team,        \* the number of threads of the job
  choice,      \* history: the album the user chose
  refused,     \* history: the server did not do, or not answer, what was asked
  unanswered   \* history: photos on the server of which store was not told

fvars == <<pc, temp, critical, current, newAlbum, uploaded, members, result,
           team, choice, refused, unanswered>>

Goto(i, place) == pc' = [pc EXCEPT ![i] = place]
Active == {i \in Images : pc[i] \notin {"waiting", "done", "killed"}}
Created == {a \in Images : <<a, a>> \in members}

----------------------------------------------------------------------------
(* get_params left the context with no album, a new one or a known one.    *)
FInit ==
  /\ pc = [i \in Images |-> "waiting"]
  /\ temp = {} /\ critical = None
  /\ team \in TeamSizes
  /\ choice \in {"without", "new", "existing"}
  /\ current = IF choice = "existing" THEN Existing ELSE None
  /\ newAlbum = (choice = "new")
  /\ uploaded = {} /\ members = {}
  /\ result = [i \in Images |-> None]
  /\ refused = FALSE /\ unanswered = {}

Call(i) ==
  /\ pc[i] = "waiting" /\ Cardinality(Active) < team
  /\ Goto(i, "temp")
  /\ UNCHANGED <<temp, critical, current, newAlbum, uploaded, members, result,
                 choice, team, refused, unanswered>>

\* g_mkstemp and the export into the file it made.
MakeTemp(i) ==
  /\ pc[i] = "temp" /\ Goto(i, "upload")
  /\ temp' = temp \cup {i}
  /\ UNCHANGED <<critical, current, newAlbum, uploaded, members, result,
                 choice, team, refused, unanswered>>

\* g_mkstemp fails: return 1, the value of a success.
TempFails(i) ==
  /\ pc[i] = "temp" /\ Goto(i, "done")
  /\ result' = [result EXCEPT ![i] = 1]
  /\ UNCHANGED <<temp, critical, current, newAlbum, uploaded, members, choice,
                 team, refused, unanswered>>

EnterCritical(i) ==
  /\ pc[i] = "upload" /\ critical = None /\ Goto(i, "sending")
  /\ critical' = i
  /\ UNCHANGED <<temp, current, newAlbum, uploaded, members, result, choice,
                 team, refused, unanswered>>

UploadPhoto(i) ==
  /\ pc[i] = "sending" /\ Goto(i, "album")
  /\ critical' = None
  /\ uploaded' = uploaded \cup {i}
  /\ UNCHANGED <<temp, current, newAlbum, members, result, choice, team,
                 refused, unanswered>>

\* No photo_status: result = 0, goto cleanup.  The server did not take the
\* photo, or it did and its answer was lost or not understood.
UploadFails(i) ==
  /\ pc[i] = "sending" /\ Goto(i, "cleanup")
  /\ critical' = None
  /\ result' = [result EXCEPT ![i] = 0]
  /\ \/ UNCHANGED <<uploaded, unanswered>>
     \/ uploaded' = uploaded \cup {i} /\ unanswered' = unanswered \cup {i}
  /\ refused' = TRUE
  /\ UNCHANGED <<temp, current, newAlbum, members, choice, team>>

\* bug: the flag of a new album is not looked at.
ChooseAlways(i) ==
  /\ pc[i] = "album"
  /\ Goto(i, IF current = None THEN "create" ELSE "add")
  /\ UNCHANGED <<temp, critical, current, newAlbum, uploaded, members, result,
                 choice, team, refused, unanswered>>

\* "A photoset is only created if we have an album title set".
ChooseAlbum(i) ==
  /\ pc[i] = "album"
  /\ Goto(i, IF current = None /\ newAlbum THEN "create" ELSE "add")
  /\ UNCHANGED <<temp, critical, current, newAlbum, uploaded, members, result,
                 choice, team, refused, unanswered>>

\* flickcurl_photosets_create makes an album with this photo in it.
CreateAlbum(i) ==
  /\ pc[i] = "create" /\ Goto(i, "info")
  /\ members' = members \cup {<<i, i>>}
  /\ UNCHANGED <<temp, critical, current, newAlbum, uploaded, result, choice,
                 team, refused, unanswered>>

\* bug: the call fails with the album, though its photo is uploaded.
CreateFailsCall(i) ==
  /\ pc[i] = "create" /\ Goto(i, "cleanup")
  /\ refused' = TRUE
  /\ result' = [result EXCEPT ![i] = 0]
  /\ UNCHANGED <<temp, critical, current, newAlbum, uploaded, members, choice,
                 team, unanswered>>

\* No id of an album: logged, and the call goes on without one, which the
\* server may have made all the same.
CreateFails(i) ==
  /\ pc[i] = "create" /\ Goto(i, "add")
  /\ UNCHANGED members \/ members' = members \cup {<<i, i>>}
  /\ refused' = TRUE
  /\ UNCHANGED <<temp, critical, current, newAlbum, uploaded, result, choice,
                 team, unanswered>>

\* flickcurl_photosets_getInfo of the new album, or NULL.
GetAlbumInfo(i) ==
  /\ pc[i] = "info" /\ Goto(i, "add")
  /\ \/ current' = i /\ UNCHANGED refused
     \/ current' = None /\ refused' = TRUE
  /\ UNCHANGED <<temp, critical, newAlbum, uploaded, members, result, choice,
                 team, unanswered>>

\* "Add to gallery, if needed": the test, before the album is read again.
AlbumNeeded(i) ==
  /\ pc[i] = "add" /\ current # None /\ ~newAlbum /\ Goto(i, "adding")
  /\ UNCHANGED <<temp, critical, current, newAlbum, uploaded, members, result,
                 choice, team, refused, unanswered>>

\* flickcurl_photosets_addPhoto; errors are not looked at.
AddToAlbum(i) ==
  /\ pc[i] = "adding" /\ current # None /\ Goto(i, "cleanup")
  /\ \/ members' = members \cup {<<current, i>>} /\ UNCHANGED refused
     \/ refused' = TRUE /\ UNCHANGED members
  /\ UNCHANGED <<temp, critical, current, newAlbum, uploaded, result, choice,
                 team, unanswered>>

\* Another call has lost its album in between: current_album->id of NULL ends
\* the program.
AlbumLost(i) ==
  /\ pc[i] = "adding" /\ current = None
  /\ pc' = [j \in Images |-> "killed"]
  /\ UNCHANGED <<temp, critical, current, newAlbum, uploaded, members, result,
                 choice, team, refused, unanswered>>

\* Otherwise an album that was just created stops being new.
SkipAdding(i) ==
  /\ pc[i] = "add" /\ (current = None \/ newAlbum) /\ Goto(i, "cleanup")
  /\ newAlbum' = (newAlbum /\ current = None)
  /\ UNCHANGED <<temp, critical, current, uploaded, members, result, choice,
                 team, refused, unanswered>>

\* unlink the temporary file and return.
Cleanup(i) ==
  /\ pc[i] = "cleanup" /\ Goto(i, "done")
  /\ temp' = temp \ {i}
  /\ result' = [result EXCEPT ![i] = IF @ = None THEN 1 ELSE @]
  /\ UNCHANGED <<critical, current, newAlbum, uploaded, members, choice, team,
                 refused, unanswered>>

Store(i) ==
  \/ Call(i) \/ MakeTemp(i) \/ TempFails(i) \/ EnterCritical(i)
  \/ UploadPhoto(i) \/ UploadFails(i)
  \/ ChooseAlbum(i) \/ CreateAlbum(i) \/ CreateFails(i) \/ GetAlbumInfo(i)
  \/ AlbumNeeded(i) \/ AddToAlbum(i) \/ AlbumLost(i) \/ SkipAdding(i) \/ Cleanup(i)

Done == \A i \in Images : pc[i] = "done"
Killed == \E i \in Images : pc[i] = "killed"
JobOver == (Done \/ Killed) /\ UNCHANGED fvars

FNext == (\E i \in Images : Store(i)) \/ JobOver
FSpec == FInit /\ [][FNext]_fvars
----------------------------------------------------------------------------
Places == {"waiting", "temp", "upload", "sending", "album", "create", "info",
           "add", "adding", "cleanup", "done", "killed"}

(* The connection carries one upload at a time, and a call has its temporary *)
(* file from mkstemp until it returns.                                      *)
FTypeOK ==
  /\ pc \in [Images -> Places]
  /\ temp \subseteq Images
  /\ critical \in Images \cup {None}
  /\ current \in Albums \cup {None}
  /\ newAlbum \in BOOLEAN
  /\ uploaded \subseteq Images
  /\ members \subseteq Albums \X uploaded
  /\ result \in [Images -> {None, 0, 1}]
  /\ team \in TeamSizes
  /\ choice \in {"without", "new", "existing"}
  /\ refused \in BOOLEAN
  /\ unanswered \subseteq uploaded
  /\ ~Killed => \A i \in Images :
       /\ pc[i] = "sending" <=> critical = i
       /\ i \in temp <=> pc[i] \notin {"waiting", "temp", "done"}

(***************************************************************************)
(* What a result of 0, the failure here, tells: the photo is in no album,  *)
(* and it is on the server only if the answer to its upload was lost,      *)
(* whatever happened to the album.  (The value 1 says less: it is returned *)
(* without an upload when the temporary file cannot be made.)              *)
(***************************************************************************)
ZeroLeavesNothing ==
  \A i \in Images : pc[i] = "done" /\ result[i] = 0 =>
    /\ \A m \in members : m[2] # i
    /\ i \in uploaded => i \in unanswered

(***************************************************************************)
(* Albums are made only when the user asked for a new one, and photos go   *)
(* only to such an album or to the one the user chose, however the calls   *)
(* overwrite current_album.  Calls that run one after the other never read *)
(* an album that another call has lost.                                    *)
(***************************************************************************)
AlbumsAsChosen ==
  /\ choice # "new" => Created = {}
  /\ \A m \in members : m[1] \in Created \/ choice = "existing"
  /\ Killed => choice = "new" /\ team > 1 /\ refused

(***************************************************************************)
(* "Add to gallery, if needed" (flickr.c:744): when the user chose an      *)
(* album and the server did and answered everything, all uploaded photos   *)
(* are in one album.                                                       *)
(***************************************************************************)
PhotosTogether ==
  Done /\ choice # "without" /\ ~refused =>
    \E a \in Albums : uploaded \subseteq {i \in Images : <<a, i>> \in members}

(***************************************************************************)
(* One thread keeps that promise: the second call finds the album the      *)
(* first one made, and that it is no longer new.                           *)
(***************************************************************************)
PhotosTogetherSerially == team = 1 => PhotosTogether
=============================================================================

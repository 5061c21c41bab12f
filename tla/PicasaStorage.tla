--------------------------- MODULE PicasaStorage ---------------------------
(***************************************************************************)
(* The uploads of an export job to Picasa (imageio/storage/picasa.c).      *)
(* Parallel calls of store share one api context p->picasa_api with one    *)
(* curl handle.  Two blocks of `omp critical' use it; both are unnamed, so *)
(* they exclude each other: the first sees to the album of the job, the    *)
(* second uploads the photo and then its tags.                             *)
(***************************************************************************)
EXTENDS Integers, FiniteSets

CONSTANTS
  Images,     \* the images of the job
  Tagged,     \* those that have tags to be exported
  Existing,   \* an album the user had
  None

ASSUME PicasaConstants ==
  /\ IsFiniteSet(Images) /\ Tagged \subseteq Images
  /\ Existing \notin Images /\ None \notin Images \cup {Existing, 0, 1}

(* An album of this job is known by the call that made it.                 *)
Albums == Images \cup {Existing}

VARIABLES
  pc,          \* where the call of store for an image is
  temp,        \* images whose temporary file exists
  critical,    \* the call inside one of the critical blocks
  current,     \* p->picasa_api->current_album
  made,        \* albums of this job on the server
  photos,      \* pairs of album and photo on the server
  result,      \* what store returned: 0 is success
  childless,   \* history: calls that were told 201 but nothing of an album
  unanswered   \* history: photos on the server of which store was not told

pvars == <<pc, temp, critical, current, made, photos, result, childless, unanswered>>
history == <<childless, unanswered>>

Goto(i, place) == pc' = [pc EXCEPT ![i] = place]
Uploaded == {p[2] : p \in photos}

----------------------------------------------------------------------------
(* get_params left the context without an album, for a new one, or with    *)
(* one of the user's.                                                      *)
PInit ==
  /\ pc = [i \in Images |-> "start"]
  /\ temp = {} /\ critical = None
  /\ current \in {None, Existing}
  /\ made = {} /\ photos = {}
  /\ result = [i \in Images |-> None]
  /\ childless = {} /\ unanswered = {}

Enter(i, from, to) ==
  /\ pc[i] = from /\ critical = None /\ Goto(i, to)
  /\ critical' = i
  /\ UNCHANGED <<temp, current, made, photos, result, history>>

EnterAlbum(i) == Enter(i, "start", "album")
EnterUpload(i) == Enter(i, "exported", "upload")

AlbumKnown(i) ==
  /\ pc[i] = "album" /\ current # None /\ Goto(i, "temp")
  /\ critical' = None
  /\ UNCHANGED <<temp, current, made, photos, result, history>>

\* bug: the request for an album is sent once the block has been left.
RequestAlbumLate(i) ==
  /\ pc[i] = "album" /\ current = None /\ Goto(i, "request")
  /\ critical' = None
  /\ UNCHANGED <<temp, current, made, photos, result, history>>

\* _picasa_api_create_album sends its request while it is in the block.
RequestAlbum(i) ==
  /\ pc[i] = "album" /\ current = None /\ Goto(i, "request")
  /\ UNCHANGED <<temp, critical, current, made, photos, result, history>>

AlbumCreated(i) ==
  /\ pc[i] = "request" /\ Goto(i, "temp")
  /\ critical' = None
  /\ current' = i /\ made' = made \cup {i}
  /\ UNCHANGED <<temp, photos, result, history>>

\* 201 and an entry that has no children: current_album stays NULL, and the
\* call goes on all the same.
AlbumChildless(i) ==
  /\ pc[i] = "request" /\ Goto(i, "temp")
  /\ critical' = None
  /\ made' = made \cup {i} /\ childless' = childless \cup {i}
  /\ UNCHANGED <<temp, current, photos, result, unanswered>>

\* The server refuses it, or makes it and its answer is lost or is no entry:
\* current_album stays NULL, fail = 1, return 1.
AlbumFails(i) ==
  /\ pc[i] = "request" /\ Goto(i, "done")
  /\ critical' = None
  /\ made' \in {made, made \cup {i}}
  /\ result' = [result EXCEPT ![i] = 1]
  /\ UNCHANGED <<temp, current, photos, history>>

\* g_mkstemp and the export into the file it made.
MakeTemp(i) ==
  /\ pc[i] = "temp" /\ Goto(i, "exported")
  /\ temp' = temp \cup {i}
  /\ UNCHANGED <<critical, current, made, photos, result, history>>

TempFails(i) ==
  /\ pc[i] = "temp" /\ Goto(i, "done")
  /\ result' = [result EXCEPT ![i] = 1]
  /\ UNCHANGED <<temp, critical, current, made, photos, history>>

\* Nobody has made an album: current_album->id of NULL ends the program.
AlbumMissing(i) ==
  /\ pc[i] = "upload" /\ current = None
  /\ pc' = [j \in Images |-> "killed"]
  /\ UNCHANGED <<temp, critical, current, made, photos, result, history>>

\* 201: the photo is in the album; its tags, if any, are still to be sent.
PhotoCreated(i) ==
  /\ pc[i] = "upload" /\ current # None
  /\ Goto(i, IF i \in Tagged THEN "tags" ELSE "accepted")
  /\ photos' = photos \cup {<<current, i>>}
  /\ UNCHANGED <<temp, critical, current, made, result, history>>

\* bug: the code of the answer is not compared with 201.
PhotoRefusedIgnored(i) ==
  /\ pc[i] = "upload" /\ current # None /\ Goto(i, "accepted")
  /\ UNCHANGED <<temp, critical, current, made, photos, result, history>>

\* Any other status, 0 when there is no answer: the server did not take the
\* photo, or it did and its answer was lost.
PhotoRefused(i) ==
  /\ pc[i] = "upload" /\ current # None /\ Goto(i, "refused")
  /\ \/ UNCHANGED <<photos, unanswered>>
     \/ photos' = photos \cup {<<current, i>>} /\ unanswered' = unanswered \cup {i}
  /\ UNCHANGED <<temp, critical, current, made, result, childless>>

\* The answer is parsed and sent back with the keywords; what the server
\* says to that is not looked at.
SendTags(i) ==
  /\ pc[i] = "tags" /\ Goto(i, "accepted")
  /\ UNCHANGED <<temp, critical, current, made, photos, result, history>>

\* The answer does not parse: return 0, which is not 201.
AnswerUnreadable(i) ==
  /\ pc[i] = "tags" /\ Goto(i, "refused")
  /\ UNCHANGED <<temp, critical, current, made, photos, result, history>>

\* result = 0 on 201 only, inside the block.
FinishUpload(i) ==
  /\ pc[i] \in {"accepted", "refused"} /\ Goto(i, "unlink")
  /\ critical' = None
  /\ result' = [result EXCEPT ![i] = IF pc[i] = "accepted" THEN 0 ELSE 1]
  /\ UNCHANGED <<temp, current, made, photos, history>>

Unlink(i) ==
  /\ pc[i] = "unlink" /\ Goto(i, "done")
  /\ temp' = temp \ {i}
  /\ UNCHANGED <<critical, current, made, photos, result, history>>

Store(i) ==
  \/ EnterAlbum(i) \/ AlbumKnown(i) \/ RequestAlbum(i) \/ AlbumCreated(i) \/ AlbumChildless(i)
  \/ AlbumFails(i) \/ MakeTemp(i) \/ TempFails(i)
  \/ EnterUpload(i) \/ AlbumMissing(i) \/ PhotoCreated(i) \/ PhotoRefused(i)
  \/ SendTags(i) \/ AnswerUnreadable(i) \/ FinishUpload(i) \/ Unlink(i)

Killed == \E i \in Images : pc[i] = "killed"
JobOver == (Killed \/ \A i \in Images : pc[i] = "done") /\ UNCHANGED pvars

PNext == (\E i \in Images : Store(i)) \/ JobOver
PSpec == PInit /\ [][PNext]_pvars
----------------------------------------------------------------------------
InCritical == {"album", "request", "upload", "tags", "accepted", "refused"}
HasFile == {"exported", "upload", "tags", "accepted", "refused", "unlink"}
Places == InCritical \cup HasFile \cup {"start", "temp", "done", "killed"}

(* The curl handle carries one request at a time, whichever block sends it, *)
(* and a call has its temporary file from mkstemp until it returns.         *)
PTypeOK ==
  /\ pc \in [Images -> Places]
  /\ temp \subseteq Images
  /\ critical \in Images \cup {None}
  /\ current \in Albums \cup {None}
  /\ made \subseteq Images
  /\ photos \subseteq Albums \X Images
  /\ result \in [Images -> {None, 0, 1}]
  /\ childless \subseteq Images /\ unanswered \subseteq Images
  /\ ~Killed => \A i \in Images : /\ pc[i] \in InCritical <=> critical = i
                                  /\ i \in temp <=> pc[i] \in HasFile

(***************************************************************************)
(* All photos of the job are in one album, the one the user chose or one   *)
(* new one.  A call is on its way to its upload without an album, which    *)
(* the upload would dereference, only if its own request was answered with *)
(* nothing of an album.  Calls can try again to make an album; of those    *)
(* they leave on the server at most one is without a failed call or such   *)
(* an answer.                                                              *)
(***************************************************************************)
OneAlbum ==
  /\ \A p, q \in photos : p[1] = q[1]
  /\ \A i \in Images :
       pc[i] \in {"temp", "exported", "upload"} => current # None \/ i \in childless
  /\ Killed => current = None /\ childless # {}
  /\ Cardinality({a \in made \ childless : result[a] # 1}) <= 1

(***************************************************************************)
(* A call that returns 0 has its photo on the server; one that returns 1   *)
(* has not, unless the answer was lost or it had tags to send after the    *)
(* photo was created.                                                      *)
(***************************************************************************)
ResultTellsUpload ==
  \A i \in Images :
    /\ result[i] = 0 => i \in Uploaded
    /\ result[i] = 1 => i \notin Uploaded \/ i \in unanswered \cup Tagged
=============================================================================

------------------------ MODULE FlickrStorageProofs ------------------------
(***************************************************************************)
(* For every set of images and every number of threads: a photo whose      *)
(* store failed is in no album, photos get into the album that was         *)
(* chosen, and a job of one thread has them all in one album, although     *)
(* parallel calls may spread them over several.                            *)
(***************************************************************************)
EXTENDS FlickrStorage, FiniteSetTheorems, TLAPS

(* A null album that is dereferenced ends all calls at once.               *)
AllKilled == Killed => \A i \in Images : pc[i] = "killed"

(* How far a call has come says whether its photo is on the server.        *)
PhotoAtPlace ==
  \A i \in Images :
    /\ pc[i] \notin {"cleanup", "done", "killed"} => result[i] = None
    /\ pc[i] \in {"waiting", "temp", "upload", "sending"} => i \notin uploaded
    /\ pc[i] \in {"album", "create", "info", "add", "adding"} => i \in uploaded
    /\ result[i] = 0 => /\ i \in uploaded => i \in unanswered
                        /\ \A m \in members : m[2] # i

(* The inductive invariant of one photo.                                   *)
PhotoInv == FTypeOK /\ AllKilled /\ PhotoAtPlace

(* One thread has one call at a time.                                      *)
OneAtATime == team = 1 => \A i, j \in Active : i = j

(* Without a new album the context keeps the album it was given; a new one *)
(* is made only by who asked for it.                                       *)
AlbumOfChoice ==
  /\ choice = "existing" => current = Existing /\ ~newAlbum
  /\ choice = "without" => current = None /\ ~newAlbum
  /\ choice = "new" => current = None \/ current \in Created
  /\ \A i \in Images : pc[i] \in {"create", "info"} => choice = "new"
  /\ \A i \in Images : pc[i] = "info" => i \in Created

(* A call that is about to read the album has one, unless another call ran *)
(* in between and lost it.                                                 *)
AlbumAtHand ==
  \A i \in Images : pc[i] = "adding" =>
    /\ choice # "without"
    /\ current = None => choice = "new" /\ team > 1 /\ refused

(* The inductive invariant of the albums.                                  *)
AlbumInv == OneAtATime /\ AlbumOfChoice /\ AlbumAtHand /\ AlbumsAsChosen

----------------------------------------------------------------------------
(* The initial state has no photo, no album and no running call.           *)
LEMMA FlickrStarts ==
  ASSUME FlickrConstants, FInit
  PROVE  PhotoInv /\ AlbumInv
  <1>1. FTypeOK
    BY DEF FlickrConstants, FInit, FTypeOK, Places, Albums, Killed
  <1>2. AllKilled /\ PhotoAtPlace
    BY DEF FlickrConstants, FInit, AllKilled, PhotoAtPlace, Killed
  <1>3. OneAtATime /\ AlbumOfChoice /\ AlbumAtHand
    BY DEF FInit, OneAtATime, AlbumOfChoice, AlbumAtHand, Active
  <1>4. AlbumsAsChosen
    BY DEF FInit, AlbumsAsChosen, Created, Killed
  <1> QED BY <1>1, <1>2, <1>3, <1>4 DEF PhotoInv, AlbumInv

(* A call runs only while no null album has been read.                     *)
LEMMA StoreIsAlive ==
  ASSUME PhotoInv, NEW i \in Images, Store(i)
  PROVE  ~Killed /\ \A j \in Images : pc[j] # "killed"
  <1>1. pc[i] # "killed"
    BY DEF Store, Call, MakeTemp, TempFails, EnterCritical, UploadPhoto, UploadFails,
       ChooseAlbum, CreateAlbum, CreateFails, GetAlbumInfo, AlbumNeeded, AddToAlbum,
       AlbumLost, SkipAdding, Cleanup
  <1> QED BY <1>1 DEF PhotoInv, AllKilled, Killed

(* Every step of a call keeps the types, the exclusion of the uploads, the *)
(* temporary files, and what the calls know of their photos.               *)
LEMMA StoreKeepsPhotos ==
  ASSUME FlickrConstants, PhotoInv, NEW i \in Images, Store(i)
  PROVE  PhotoInv'
  <1>a. ~Killed /\ \A j \in Images : pc[j] # "killed"
    BY StoreIsAlive
  <1> USE <1>a DEF FlickrConstants, PhotoInv, FTypeOK, AllKilled, PhotoAtPlace, Places, Albums,
          Killed, Goto
  <1>1. CASE Call(i)
    BY <1>1 DEF Call
  <1>2. CASE MakeTemp(i)
    BY <1>2 DEF MakeTemp
  <1>3. CASE TempFails(i)
    BY <1>3 DEF TempFails
  <1>4. CASE EnterCritical(i)
    BY <1>4 DEF EnterCritical
  <1>5. CASE UploadPhoto(i)
    <2>1. members' \subseteq Albums \X uploaded'
      <3> SUFFICES ASSUME NEW m \in members PROVE m \in Albums \X (uploaded \cup {i})
        BY <1>5 DEF UploadPhoto
      <3>1. m \in Albums \X uploaded
        OBVIOUS
      <3> HIDE DEF Albums
      <3> QED BY <3>1
    <2>2. i \notin uploaded /\ result[i] = None /\ critical' = None /\ uploaded' = uploaded \cup {i}
      BY <1>5 DEF UploadPhoto
    <2>3. FTypeOK'
      BY <1>5, <2>1, <2>2 DEF UploadPhoto
    <2>4. AllKilled'
      BY <1>5 DEF UploadPhoto
    <2>5. PhotoAtPlace'
      <3>1. result' = result /\ pc' = [pc EXCEPT ![i] = "album"]
        BY <1>5 DEF UploadPhoto
      <3> SUFFICES ASSUME NEW j \in Images
                   PROVE  /\ pc'[j] \notin {"cleanup", "done", "killed"} => result[j] = None
                          /\ pc'[j] \in {"waiting", "temp", "upload", "sending"} => j \notin uploaded'
                          /\ pc'[j] \in {"album", "create", "info", "add", "adding"} => j \in uploaded'
                          /\ result[j] = 0 => /\ j \in uploaded' => j \in unanswered
                                              /\ \A m \in members : m[2] # j
        BY <1>5, <3>1 DEF UploadPhoto
      <3>2. result[i] # 0
        BY <2>2
      <3> QED BY <2>2, <3>1, <3>2
    <2> QED BY <2>3, <2>4, <2>5
  <1>6. CASE UploadFails(i)
    <2>1. /\ uploaded \subseteq uploaded' /\ uploaded' \subseteq uploaded \cup {i}
          /\ unanswered' \subseteq uploaded' /\ unanswered \subseteq unanswered'
          /\ i \in uploaded' => i \in unanswered'
      BY <1>6 DEF UploadFails
    <2>2. members' = members /\ result' = [result EXCEPT ![i] = 0] /\ i \notin uploaded
          /\ pc' = [pc EXCEPT ![i] = "cleanup"]
      BY <1>6 DEF UploadFails
    <2>3. members' \subseteq Albums \X uploaded' /\ \A m \in members : m[2] # i
      <3>1. \A m \in members : m \in Albums \X uploaded /\ m[2] \in uploaded
        OBVIOUS
      <3>2. \A m \in members : m \in Albums \X uploaded'
        <4> SUFFICES ASSUME NEW m \in members PROVE m \in Albums \X uploaded'
          OBVIOUS
        <4>1. m \in Albums \X uploaded
          BY <3>1
        <4> HIDE DEF Albums, FTypeOK, PhotoInv, PhotoAtPlace
        <4> QED BY <2>1, <4>1
      <3> QED BY <2>2, <3>1, <3>2
    <2>4. FTypeOK'
      BY <1>6, <2>1, <2>3 DEF UploadFails
    <2>5. AllKilled'
      BY <1>6 DEF UploadFails
    <2>6. PhotoAtPlace'
      BY <2>1, <2>2, <2>3
    <2> QED BY <2>4, <2>5, <2>6
  <1>7. CASE ChooseAlbum(i)
    BY <1>7 DEF ChooseAlbum
  <1>8. CASE CreateAlbum(i) \/ CreateFails(i)
    <2>1. i \in uploaded /\ members' \subseteq members \cup {<<i, i>>} /\ result[i] = None
      BY <1>8 DEF CreateAlbum, CreateFails
    <2>2. <<i, i>> \in Albums \X uploaded
      BY <2>1
    <2>3. members' \subseteq Albums \X uploaded
      BY <2>1, <2>2
    <2>4. \A j \in Images : result[j] = 0 => \A m \in members' : m[2] # j
      BY <2>1
    <2>5. FTypeOK'
      <3>1. /\ \A j \in Images : j # i => pc'[j] = pc[j]
            /\ pc' \in [Images -> Places]
            /\ pc[i] = "create" /\ pc'[i] \in {"info", "add"}
        BY <1>8 DEF CreateAlbum, CreateFails
      <3>2. /\ UNCHANGED <<temp, critical, current, newAlbum, uploaded, result,
                          choice, team, unanswered>>
            /\ refused' \in BOOLEAN
        BY <1>8 DEF CreateAlbum, CreateFails
      <3> QED BY <2>3, <3>1, <3>2
    <2>6. AllKilled'
      BY <1>8 DEF CreateAlbum, CreateFails
    <2>7. PhotoAtPlace'
      <3>1. /\ \A j \in Images : j # i => pc'[j] = pc[j]
            /\ pc[i] = "create" /\ pc'[i] \in {"info", "add"}
            /\ uploaded' = uploaded /\ unanswered' = unanswered /\ result' = result
        BY <1>8 DEF CreateAlbum, CreateFails
      <3> QED BY <2>1, <2>4, <3>1
    <2> QED BY <2>5, <2>6, <2>7
  <1>10. CASE GetAlbumInfo(i)
    BY <1>10 DEF GetAlbumInfo
  <1>11. CASE AlbumNeeded(i)
    BY <1>11 DEF AlbumNeeded
  <1>12. CASE AddToAlbum(i)
    <2>1. current \in Albums /\ i \in uploaded
      BY <1>12 DEF AddToAlbum
    <2>2. <<current, i>> \in Albums \X uploaded
      BY <2>1
    <2>3. members' \subseteq Albums \X uploaded
      BY <1>12, <2>2 DEF AddToAlbum
    <2>4. \A j \in Images : result[j] = 0 => \A m \in members' : m[2] # j
      BY <1>12, <2>1 DEF AddToAlbum
    <2> QED BY <1>12, <2>3, <2>4 DEF AddToAlbum
  <1>13. CASE AlbumLost(i)
    BY <1>13 DEF AlbumLost
  <1>14. CASE SkipAdding(i)
    BY <1>14 DEF SkipAdding
  <1>15. CASE Cleanup(i)
    BY <1>15 DEF Cleanup
  <1> QED
    BY <1>1, <1>2, <1>3, <1>4, <1>5, <1>6, <1>7, <1>8, <1>10, <1>11, <1>12, <1>13,
       <1>14, <1>15 DEF Store

(* With one thread, a call that starts finds no other running.             *)
LEMMA NobodyElse ==
  ASSUME FlickrConstants, team = 1, Cardinality(Active) < team
  PROVE  Active = {}
  <1>1. IsFiniteSet(Active)
    BY FS_Subset DEF FlickrConstants, Active
  <1>2. Cardinality(Active) = 0
    BY <1>1, FS_CardinalityType
  <1> QED BY <1>1, <1>2, FS_EmptySet

(* Every step of a call keeps one thread to one call.                      *)
LEMMA StoreIsSerial ==
  ASSUME FlickrConstants, PhotoInv, AlbumInv, NEW i \in Images, Store(i)
  PROVE  OneAtATime'
  <1>1. team' = team
    BY DEF Store, Call, MakeTemp, TempFails, EnterCritical, UploadPhoto, UploadFails,
       ChooseAlbum, CreateAlbum, CreateFails, GetAlbumInfo, AlbumNeeded, AddToAlbum,
       AlbumLost, SkipAdding, Cleanup
  <1>2. CASE Call(i)
    <2>1. Active' \subseteq Active \cup {i}
      BY <1>2 DEF Call, Goto, Active, PhotoInv, FTypeOK
    <2> QED BY <1>1, <1>2, <2>1, NobodyElse DEF Call, OneAtATime
  <1>3. CASE ~Call(i)
    <2>1. i \in Active /\ \A j \in Images : j # i => pc'[j] \in {pc[j], "killed"}
      BY <1>3 DEF Store, MakeTemp, TempFails, EnterCritical, UploadPhoto, UploadFails,
         ChooseAlbum, CreateAlbum, CreateFails, GetAlbumInfo, AlbumNeeded, AddToAlbum,
         AlbumLost, SkipAdding, Cleanup, Active, Goto, PhotoInv, FTypeOK
    <2>2. Active' \subseteq Active
      BY <2>1 DEF Active
    <2> QED BY <1>1, <2>2 DEF OneAtATime, AlbumInv
  <1> QED BY <1>2, <1>3

(* Every step of a call keeps what is known of the albums.                 *)
LEMMA StoreKeepsAlbums ==
  ASSUME FlickrConstants, PhotoInv, AlbumInv, NEW i \in Images, Store(i)
  PROVE  AlbumOfChoice' /\ AlbumAtHand' /\ AlbumsAsChosen'
  <1>a. \A j \in Images : pc[j] # "killed"
    BY StoreIsAlive
  <1> USE <1>a DEF FlickrConstants, PhotoInv, FTypeOK, AlbumInv, AlbumOfChoice, AlbumAtHand,
          AlbumsAsChosen, Killed, Goto
  <1>1. CASE CreateAlbum(i) \/ CreateFails(i)
    <2>1. \/ members' = members /\ Created' = Created
          \/ members' = members \cup {<<i, i>>} /\ Created' = Created \cup {i}
      BY <1>1 DEF CreateAlbum, CreateFails, Created
    <2>2. choice = "new"
      BY <1>1 DEF CreateAlbum, CreateFails
    <2>3. CreateAlbum(i) => members' = members \cup {<<i, i>>}
      BY DEF CreateAlbum
    <2>4. /\ \A j \in Images : j # i => pc'[j] = pc[j]
          /\ pc'[i] \in {"info", "add"} /\ (pc'[i] = "info" => CreateAlbum(i))
          /\ current' = current /\ newAlbum' = newAlbum /\ choice' = choice /\ team' = team
          /\ refused => refused'
      BY <1>1 DEF CreateAlbum, CreateFails
    <2>5. Created \subseteq Created' /\ (CreateAlbum(i) => i \in Created')
      BY <2>1, <2>3 DEF Created
    <2>6. AlbumOfChoice' /\ AlbumAtHand'
      BY <2>2, <2>4, <2>5
    <2>7. AlbumsAsChosen'
      <3>1. choice # "new" => Created' = {}
        BY <2>2
      <3>2. \A m \in members' : m[1] \in Created' \/ choice = "existing"
        BY <2>1, <2>5
      <3>3. ~Killed'
        BY <1>a, <2>4
      <3> QED BY <2>4, <3>1, <3>2, <3>3
    <2> QED BY <2>6, <2>7
  <1>2. CASE AddToAlbum(i)
    <2>1. current # None /\ choice # "without"
      BY <1>2 DEF AddToAlbum
    <2>2. current \in Created \/ current = Existing
      BY <2>1
    <2>3. members' \subseteq members \cup {<<current, i>>}
      BY <1>2 DEF AddToAlbum
    <2>4. Created' = Created
      <3>1. Created \subseteq Created'
        BY <1>2 DEF AddToAlbum, Created
      <3>2. Created' \subseteq Created \cup {current}
        BY <2>3 DEF Created
      <3>3. Existing \notin Created'
        BY DEF Created
      <3>4. Created' \subseteq Created
        BY <2>2, <3>2, <3>3
      <3> HIDE DEF Killed, AlbumOfChoice, AlbumAtHand, AlbumsAsChosen, FTypeOK
      <3> QED BY <3>1, <3>4
    <2>5. \A m \in members' : m[1] \in Created \/ choice = "existing"
      <3> SUFFICES ASSUME NEW m \in members' PROVE m[1] \in Created \/ choice = "existing"
        OBVIOUS
      <3>1. CASE m \in members
        BY <3>1
      <3>2. CASE m = <<current, i>>
        BY <2>1, <3>2
      <3> QED BY <2>3, <3>1, <3>2
    <2> QED BY <1>2, <2>4, <2>5 DEF AddToAlbum
  <1>3. CASE GetAlbumInfo(i)
    <2>1. i \in Created /\ choice = "new" /\ Created' = Created
      BY <1>3 DEF GetAlbumInfo, Created
    <2>2. ASSUME NEW j \in Images, pc[j] = "adding" PROVE team > 1
      <3>1. team # 1
        BY <1>3, <2>2 DEF OneAtATime, Active, GetAlbumInfo
      <3> QED BY <3>1
    <2> QED BY <1>3, <2>1, <2>2 DEF GetAlbumInfo
  <1>4. CASE Call(i) \/ MakeTemp(i) \/ TempFails(i) \/ EnterCritical(i)
    BY <1>4 DEF Call, MakeTemp, TempFails, EnterCritical, Created
  <1>5. CASE UploadPhoto(i) \/ UploadFails(i) \/ Cleanup(i)
    BY <1>5 DEF UploadPhoto, UploadFails, Cleanup, Created
  <1>6. CASE ChooseAlbum(i) \/ AlbumNeeded(i)
    BY <1>6 DEF ChooseAlbum, AlbumNeeded, Created
  <1>7. CASE AlbumLost(i)
    BY <1>7 DEF AlbumLost, Created
  <1>8. CASE SkipAdding(i)
    BY <1>8 DEF SkipAdding, Created
  <1> QED BY <1>1, <1>2, <1>3, <1>4, <1>5, <1>6, <1>7, <1>8 DEF Store

(* The invariants hold of every job.                                       *)
LEMMA FlickrStutters ==
  ASSUME PhotoInv, AlbumInv, UNCHANGED fvars
  PROVE  PhotoInv' /\ AlbumInv'
  BY DEF fvars, PhotoInv, FTypeOK, AllKilled, PhotoAtPlace, Killed, AlbumInv, OneAtATime,
     Active, AlbumOfChoice, AlbumAtHand, AlbumsAsChosen, Created

LEMMA FlickrAlways ==
  ASSUME FlickrConstants
  PROVE  FSpec => [](PhotoInv /\ AlbumInv)
  <1>1. FInit => PhotoInv /\ AlbumInv
    BY FlickrStarts
  <1>2. PhotoInv /\ AlbumInv /\ [FNext]_fvars => (PhotoInv /\ AlbumInv)'
    <2> SUFFICES ASSUME PhotoInv, AlbumInv, [FNext]_fvars
                 PROVE  PhotoInv' /\ AlbumInv'
      OBVIOUS
    <2>1. ASSUME NEW i \in Images, Store(i) PROVE PhotoInv' /\ AlbumInv'
      BY <2>1, StoreKeepsPhotos, StoreIsSerial, StoreKeepsAlbums DEF AlbumInv
    <2>2. CASE UNCHANGED fvars
      BY <2>2, FlickrStutters
    <2> QED BY <2>1, <2>2 DEF FNext, JobOver
  <1> QED BY <1>1, <1>2, PTL DEF FSpec

(* Type correctness; one upload at a time uses the connection, and a call  *)
(* has its temporary file from mkstemp to its return (flickr.c:683-763).   *)
THEOREM FlickrTypeCorrect ==
  ASSUME FlickrConstants
  PROVE  FSpec => []FTypeOK
  <1>1. PhotoInv => FTypeOK
    BY DEF PhotoInv
  <1> QED BY <1>1, FlickrAlways, PTL

(* A photo whose store returned 0, the failure here, is in no album, and   *)
(* on the server only if it did not answer.                                *)
THEOREM FlickrZeroLeavesNothing ==
  ASSUME FlickrConstants
  PROVE  FSpec => []ZeroLeavesNothing
  <1>1. PhotoInv => ZeroLeavesNothing
    BY DEF PhotoInv, PhotoAtPlace, ZeroLeavesNothing
  <1> QED BY <1>1, FlickrAlways, PTL

(* Photos get into the chosen album or a new one that was asked for, and   *)
(* only parallel calls of a job that lost its album read a null one.       *)
THEOREM FlickrAlbumsAsChosen ==
  ASSUME FlickrConstants
  PROVE  FSpec => []AlbumsAsChosen
  <1>1. AlbumInv => AlbumsAsChosen
    BY DEF AlbumInv
  <1> QED BY <1>1, FlickrAlways, PTL
----------------------------------------------------------------------------
(***************************************************************************)
(* One thread, and a server that refuses nothing: between two calls the    *)
(* context has an album exactly when it no longer expects a new one, and   *)
(* every photo of a call that is over is in it.                            *)
(***************************************************************************)
Serially == team = 1 /\ ~refused /\ choice # "without"

AlbumSettled ==
  /\ current = None => newAlbum
  /\ newAlbum /\ current # None => \E i \in Images : pc[i] = "add"

CallHasAlbum ==
  \A i \in Images :
    /\ pc[i] \in {"create", "info"} => current = None
    /\ pc[i] = "add" => current # None /\ (newAlbum => <<current, i>> \in members)
    /\ pc[i] = "adding" => current # None /\ ~newAlbum

PhotosInAlbum ==
  \A i \in uploaded : pc[i] \in {"cleanup", "done"} =>
    current # None /\ <<current, i>> \in members

SerialInv == Serially => AlbumSettled /\ CallHasAlbum /\ PhotosInAlbum

(* Nothing has been uploaded to begin with.                                *)
LEMMA SerialStarts == FlickrConstants /\ FInit => SerialInv
  BY DEF FlickrConstants, FInit, SerialInv, Serially, AlbumSettled, CallHasAlbum, PhotosInAlbum

(* A serial job was serial before its last step.                           *)
LEMMA SerialBefore ==
  ASSUME NEW i \in Images, Store(i), Serially'
  PROVE  Serially
  BY DEF Serially, Store, Call, MakeTemp, TempFails, EnterCritical, UploadPhoto, UploadFails,
     ChooseAlbum, CreateAlbum, CreateFails, GetAlbumInfo, AlbumNeeded, AddToAlbum,
     AlbumLost, SkipAdding, Cleanup

(* Every step of a call keeps the album of a serial job.                   *)
LEMMA StoreKeepsSerial ==
  ASSUME FlickrConstants, PhotoInv, AlbumInv, SerialInv, NEW i \in Images, Store(i)
  PROVE  SerialInv'
  <1> SUFFICES ASSUME Serially' PROVE AlbumSettled' /\ CallHasAlbum' /\ PhotosInAlbum'
    BY DEF SerialInv
  <1>a. Serially /\ ~refused' /\ AlbumSettled /\ CallHasAlbum /\ PhotosInAlbum
    BY SerialBefore DEF SerialInv, Serially
  <1>b. i \in Active => \A j \in Images : j # i => pc[j] \in {"waiting", "done"}
    BY <1>a, StoreIsAlive DEF AlbumInv, OneAtATime, Active, Serially
  <1>c. pc \in [Images -> Places] /\ uploaded \subseteq Images
    BY DEF PhotoInv, FTypeOK
  <1>d. \A j \in Images : pc[j] \in {"waiting", "temp", "upload", "sending"} => j \notin uploaded
    BY DEF PhotoInv, PhotoAtPlace
  <1> USE <1>a, <1>b, <1>c, <1>d DEF Goto, Active, AlbumSettled, CallHasAlbum, PhotosInAlbum
  <1>1. CASE Call(i)
    BY <1>1 DEF Call
  <1>2. CASE MakeTemp(i) \/ TempFails(i) \/ EnterCritical(i) \/ UploadPhoto(i) \/ UploadFails(i)
    BY <1>2 DEF MakeTemp, TempFails, EnterCritical, UploadPhoto, UploadFails
  <1>3. CASE ChooseAlbum(i)
    BY <1>3 DEF ChooseAlbum
  <1>4. CASE CreateAlbum(i)
    BY <1>4 DEF CreateAlbum
  <1>5. CASE CreateFails(i) \/ AlbumLost(i)
    BY <1>5 DEF CreateFails, AlbumLost
  <1>6. CASE GetAlbumInfo(i)
    <2>1. <<i, i>> \in members /\ i # None
      BY <1>6 DEF GetAlbumInfo, AlbumInv, AlbumOfChoice, Created, FlickrConstants
    <2> QED BY <1>6, <2>1 DEF GetAlbumInfo
  <1>7. CASE AlbumNeeded(i)
    BY <1>7 DEF AlbumNeeded
  <1>8. CASE AddToAlbum(i)
    BY <1>8 DEF AddToAlbum
  <1>9. CASE SkipAdding(i)
    BY <1>9 DEF SkipAdding
  <1>10. CASE Cleanup(i)
    BY <1>10 DEF Cleanup
  <1> QED BY <1>1, <1>2, <1>3, <1>4, <1>5, <1>6, <1>7, <1>8, <1>9, <1>10 DEF Store

(* "Add to gallery, if needed" (flickr.c:744) keeps its word for one       *)
(* thread: the photos of a job are in one album if the server refused      *)
(* nothing and the user wanted an album.                                   *)
THEOREM FlickrPhotosTogetherSerially ==
  ASSUME FlickrConstants
  PROVE  FSpec => []PhotosTogetherSerially
  <1>1. FInit => SerialInv
    BY SerialStarts
  <1>2. PhotoInv /\ AlbumInv /\ SerialInv /\ [FNext]_fvars => SerialInv'
    <2> SUFFICES ASSUME PhotoInv, AlbumInv, SerialInv, [FNext]_fvars
                 PROVE  SerialInv'
      OBVIOUS
    <2>1. CASE UNCHANGED fvars
      BY <2>1 DEF fvars, SerialInv, Serially, AlbumSettled, CallHasAlbum, PhotosInAlbum
    <2> QED BY <2>1, StoreKeepsSerial DEF FNext, JobOver
  <1>3. PhotoInv /\ SerialInv => PhotosTogetherSerially
    <2> SUFFICES ASSUME PhotoInv, SerialInv, Serially, Done
                 PROVE  \E a \in Albums : uploaded \subseteq {i \in Images : <<a, i>> \in members}
      BY DEF PhotosTogetherSerially, PhotosTogether, Serially
    <2>1. uploaded \subseteq Images /\ current \in Albums \cup {None}
      BY DEF PhotoInv, FTypeOK
    <2>2. CASE uploaded = {}
      BY <2>2 DEF Albums
    <2>3. CASE uploaded # {}
      <3>1. current # None /\ \A i \in uploaded : <<current, i>> \in members
        BY <2>1, <2>3 DEF SerialInv, PhotosInAlbum, Done
      <3>2. current \in Albums /\ uploaded \subseteq {i \in Images : <<current, i>> \in members}
        BY <2>1, <3>1
      <3> QED BY <3>2
    <2> QED BY <2>2, <2>3
  <1> QED BY <1>1, <1>2, <1>3, FlickrAlways, PTL DEF FSpec
=============================================================================

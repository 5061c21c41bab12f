--------------------------- MODULE PicasaSession ---------------------------
(***************************************************************************)
(* The dialog of the Picasa storage and the api contexts it makes          *)
(* (imageio/storage/picasa.c): the callbacks of its widgets, get_params,   *)
(* which gives the context of the dialog to an export job, and free_params *)
(* at the end of the job.  The callbacks run in the thread of the dialog   *)
(* and get_params reads its widgets, so that each is one step.             *)
(***************************************************************************)
EXTENDS AlbumDialog

\* The combo box: nothing, or "create new album", a separator and albums.
PicasaShown(index) == IF index = 0 THEN NewAlbum ELSE items[index - 1]
PicasaIndices == {0} \cup 2..Len(items) + 1

----------------------------------------------------------------------------
PicasaInit == DialogInit /\ albums = [c \in Contexts |-> << >>] /\ items = << >>

\* entry_changed, for the name or the password.
PicasaEntryChanged ==
  /\ entry' \in Users
  /\ needs' = needs \cup ({ui} \ {NoContext})
  /\ UNCHANGED <<ui, account, albums, currentAlbum, items, active, sensitive, jobs, freed, choice>>

\* _picasa_api_authenticate: a new context for the name in the dialog.
PicasaAuthenticate ==
  \/ ui' = NoContext /\ UNCHANGED account
  \/ /\ ui' \in Unused
     /\ account' = [account EXCEPT ![ui'] = entry]

\* bug: a context that cannot be replaced is freed and kept.
LoginKeepingFreed ==
  IF ui = NoContext \/ ui \in needs
  THEN /\ PicasaAuthenticate \/ UNCHANGED <<ui, account>>
       /\ freed' = freed \cup ({ui} \ {NoContext})
  ELSE UNCHANGED <<ui, account, freed>>

\* The first part of refresh_albums.
LoginIfNeeded ==
  IF ui = NoContext \/ ui \in needs
  THEN PicasaAuthenticate /\ freed' = freed \cup ({ui} \ {NoContext})
  ELSE UNCHANGED <<ui, account, freed>>

\* refresh_albums without a context: the combo box is left empty.
PicasaRefreshLoggedOut ==
  /\ LoginIfNeeded /\ ui' = NoContext
  /\ items' = << >> /\ active' = -1 /\ sensitive' = FALSE
  /\ UNCHANGED <<entry, needs, albums, currentAlbum, jobs, choice>>

\* _picasa_api_get_feed replaces the list of the context, and the combo box
\* shows it with the first album active, or "create new album".
PicasaRefreshAlbums ==
  /\ LoginIfNeeded /\ ui' # NoContext
  /\ \E list \in Lists(account'[ui']) :
       /\ albums' = [albums EXCEPT ![ui'] = list]
       /\ items' = list
       /\ active' = IF list = << >> THEN 0 ELSE 2
  /\ sensitive' = TRUE
  /\ UNCHANGED <<entry, needs, currentAlbum, jobs, choice>>

\* The feed does not come: the combo box is left empty, the list as it was.
PicasaRefreshFails ==
  /\ LoginIfNeeded /\ ui' # NoContext
  /\ items' = << >> /\ active' = -1 /\ sensitive' = TRUE
  /\ UNCHANGED <<entry, needs, albums, currentAlbum, jobs, choice>>

\* album_changed only shows or hides the entries of a new album.
PicasaChooseAlbum ==
  /\ sensitive /\ active # -1
  /\ active' \in PicasaIndices
  /\ UNCHANGED <<entry, ui, account, needs, albums, currentAlbum, items, sensitive, jobs, freed, choice>>

\* g_list_nth_data of the list of the context, not of what is shown.
Found(index) ==
  IF index = 0 THEN NewAlbum
  ELSE IF index - 1 \in DOMAIN albums[ui] THEN albums[ui][index - 1] ELSE NoAlbum

\* get_params: the context goes to the job, and the dialog logs in again with
\* a context that has no list yet; the combo box stays as it is.
PicasaHandOver ==
  /\ ui # NoContext /\ active >= 0 /\ Found(active) # NoAlbum
  /\ currentAlbum' = [currentAlbum EXCEPT ![ui] = IF active = 0 THEN NoAlbum ELSE Found(active)]
  /\ jobs' = jobs \cup {ui}
  /\ choice' = [choice EXCEPT ![ui] = [album |-> PicasaShown(active), user |-> entry]]
  /\ PicasaAuthenticate
  /\ UNCHANGED <<entry, needs, albums, items, active, sensitive, freed>>

\* "Something went wrong.. album index %d = NULL": get_params returns NULL.
Decline ==
  /\ ui # NoContext /\ active >= 0 /\ Found(active) = NoAlbum
  /\ currentAlbum' = [currentAlbum EXCEPT ![ui] = NoAlbum]
  /\ UNCHANGED <<entry, ui, account, needs, albums, items, active, sensitive, jobs, freed, choice>>

\* free_params; what the context held goes with it.
PicasaFreeParams ==
  /\ \E c \in jobs :
       /\ jobs' = jobs \ {c} /\ freed' = freed \cup {c}
       /\ albums' = [albums EXCEPT ![c] = << >>]
       /\ currentAlbum' = [currentAlbum EXCEPT ![c] = NoAlbum]
       /\ needs' = needs \ {c}
       /\ choice' = [choice EXCEPT ![c] = [album |-> NoAlbum, user |-> NoUser]]
       /\ account' = [account EXCEPT ![c] = NoUser]
  /\ UNCHANGED <<entry, ui, items, active, sensitive>>

PicasaNext ==
  \/ PicasaEntryChanged
  \/ PicasaRefreshLoggedOut \/ PicasaRefreshAlbums \/ PicasaRefreshFails
  \/ PicasaChooseAlbum \/ PicasaHandOver \/ Decline \/ PicasaFreeParams
PicasaSpec == PicasaInit /\ [][PicasaNext]_dialogVars
----------------------------------------------------------------------------
PicasaTypeOK ==
  /\ DialogTypeOK
  /\ \A c \in Contexts : albums[c] \in UNION {Lists(user) : user \in Users}
  /\ items \in UNION {Lists(user) : user \in Users}
  /\ active \in PicasaIndices \cup {-1}

(***************************************************************************)
(* A job posts to the album that the combo box showed as chosen, and one   *)
(* of the account its context is logged in to, though the index is looked  *)
(* up in the list of the context and the box may show an older list.       *)
(***************************************************************************)
PicasaAlbumAsShown ==
  \A c \in jobs :
    IF choice[c].album = NewAlbum THEN currentAlbum[c] = NoAlbum
    ELSE currentAlbum[c] = choice[c].album /\ currentAlbum[c].owner = account[c]

(***************************************************************************)
(* A job runs under another account than the one the dialog named only     *)
(* when its context was marked for a new log-in, which get_params does not *)
(* look at (picasa.c:1002): no refresh, failed log-in or earlier export    *)
(* gives the dialog a context of another user unmarked.                    *)
(***************************************************************************)
AccountAsNamed == \A c \in jobs : account[c] = choice[c].user \/ c \in needs
=============================================================================

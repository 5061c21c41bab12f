--------------------------- MODULE FlickrSession ---------------------------
(***************************************************************************)
(* The dialog of the Flickr storage and the api contexts it makes          *)
(* (imageio/storage/flickr.c): the callbacks of its widgets, get_params,   *)
(* which gives the context of the dialog to an export job, and free_params *)
(* at the end of the job.  The list of albums belongs to the dialog here,  *)
(* and so does the token of the last log-in, which outlives contexts; one  *)
(* more token is kept in the password storage.                             *)
(***************************************************************************)
EXTENDS AlbumDialog

VARIABLES
  token,       \* the user whose token ui->user_token is
  stored,      \* the user whose token the password storage has
  outlived     \* history: the name was changed under a token and without a
               \* context, and no list of the account now named came since

FlickrVars == <<dialogVars, token, stored, outlived>>

\* What the combo box shows: nothing, or "without album", "create new album",
\* a separator and the albums it was filled with.
Empty == [filled |-> FALSE, list |-> << >>]
FlickrShown(index) ==
  CASE index = 0 -> NoAlbum [] index = 1 -> NewAlbum [] OTHER -> items.list[index - 2]
FlickrIndices == {0, 1} \cup 3..Len(items.list) + 2

----------------------------------------------------------------------------
FlickrInit ==
  /\ DialogInit /\ token = NoUser /\ stored \in Users \cup {NoUser}
  /\ albums = << >> /\ items = Empty /\ outlived = FALSE

\* flickr_entry_changed: the token goes, but only with a context.
FlickrEntryChanged ==
  /\ entry' \in Users
  /\ IF ui = NoContext
     THEN /\ outlived' = (outlived \/ token # NoUser)
          /\ UNCHANGED <<needs, token, sensitive>>
     ELSE /\ needs' = needs \cup {ui} /\ token' = NoUser /\ sensitive' = FALSE
          /\ outlived' = FALSE
  /\ UNCHANGED <<stored, ui, account, albums, items, active, currentAlbum, jobs, freed, choice>>

LoggedIn(user) ==
  /\ ui' \in Unused
  /\ account' = [account EXCEPT ![ui'] = user]
  /\ token' = user

\* _flickr_api_authenticate: with the dialog's token, else with the stored one
\* if it is of the user named, else the user logs in with the browser, for
\* which a token that was just refused makes way.  Each can fail.
FlickrAuthenticate ==
  \/ ui' = NoContext /\ UNCHANGED <<account, token, stored>>
  \/ token # NoUser /\ LoggedIn(token) /\ UNCHANGED stored
  \/ token = NoUser /\ stored = entry /\ LoggedIn(stored) /\ UNCHANGED stored
  \/ LoggedIn(entry) /\ stored' = entry

AuthenticateIfNeeded ==
  IF ui = NoContext \/ ui \in needs
  THEN FlickrAuthenticate /\ freed' = freed \cup ({ui} \ {NoContext})
  ELSE UNCHANGED <<ui, account, token, stored, freed>>

\* refresh_albums without a context returns before it clears the combo box.
FlickrRefreshLoggedOut ==
  /\ AuthenticateIfNeeded /\ ui' = NoContext
  /\ sensitive' = FALSE
  /\ UNCHANGED <<entry, needs, albums, items, active, currentAlbum, jobs, choice, outlived>>

\* The first album becomes active.  Without albums nothing does: the box has
\* no item 3.
FlickrRefreshAlbums ==
  /\ AuthenticateIfNeeded /\ ui' # NoContext
  /\ albums' \in Lists(account'[ui'])
  /\ items' = [filled |-> TRUE, list |-> albums']
  /\ active' = IF albums' = << >> THEN -1 ELSE 3
  /\ sensitive' = TRUE /\ outlived' = (outlived /\ account'[ui'] # entry)
  /\ UNCHANGED <<entry, needs, currentAlbum, jobs, choice>>

\* There is no list: ui->albums is NULL and the combo box stays empty.
FlickrRefreshFails ==
  /\ AuthenticateIfNeeded /\ ui' # NoContext
  /\ albums' = << >> /\ items' = Empty /\ active' = -1
  /\ sensitive' = TRUE /\ outlived' = (outlived /\ account'[ui'] # entry)
  /\ UNCHANGED <<entry, needs, currentAlbum, jobs, choice>>

FlickrChooseAlbum ==
  /\ sensitive /\ items.filled
  /\ active' \in FlickrIndices
  /\ UNCHANGED <<entry, token, stored, ui, account, needs, albums, items, sensitive, currentAlbum,
                 jobs, freed, choice, outlived>>

\* bug: needsReauthentication is not looked at.
ReadyUnchecked == ui # NoContext /\ active >= 0
Ready == ui # NoContext /\ ui \notin needs /\ active >= 0

\* The album of an index, in the list of the dialog and not in what is shown.
LookUp(index) ==
  CASE index = 0 -> NoAlbum [] index = 1 -> NewAlbum [] OTHER -> albums[index - 2]

\* get_params: the context goes to the job, and the dialog logs in again; the
\* combo box stays as it is, with its list.
FlickrHandOver ==
  /\ Ready
  /\ currentAlbum' = [currentAlbum EXCEPT ![ui] = LookUp(active)]
  /\ jobs' = jobs \cup {ui}
  /\ choice' = [choice EXCEPT ![ui] = [album |-> FlickrShown(active), user |-> entry]]
  /\ FlickrAuthenticate
  /\ sensitive' = (sensitive /\ ui' # NoContext)
  /\ UNCHANGED <<entry, needs, albums, items, active, freed, outlived>>

\* Flickr does not give the album: the dialog keeps its context.
AlbumGone ==
  /\ Ready /\ active >= 3
  /\ currentAlbum' = [currentAlbum EXCEPT ![ui] = NoAlbum]
  /\ UNCHANGED <<entry, token, stored, ui, account, needs, albums, items, active, sensitive, jobs,
                 freed, choice, outlived>>

\* "Flickr account not authenticated".
Refuse ==
  /\ ui = NoContext \/ ui \in needs
  /\ sensitive' = FALSE
  /\ UNCHANGED <<entry, token, stored, ui, account, needs, albums, items, active, currentAlbum,
                 jobs, freed, choice, outlived>>

\* free_params; what the context held goes with it.
FlickrFreeParams ==
  /\ \E c \in jobs :
       /\ jobs' = jobs \ {c} /\ freed' = freed \cup {c}
       /\ currentAlbum' = [currentAlbum EXCEPT ![c] = NoAlbum]
       /\ choice' = [choice EXCEPT ![c] = [album |-> NoAlbum, user |-> NoUser]]
       /\ account' = [account EXCEPT ![c] = NoUser]
  /\ UNCHANGED <<entry, token, stored, ui, needs, albums, items, active, sensitive, outlived>>

FlickrNext ==
  \/ FlickrEntryChanged
  \/ FlickrRefreshLoggedOut \/ FlickrRefreshAlbums \/ FlickrRefreshFails
  \/ FlickrChooseAlbum \/ FlickrHandOver \/ AlbumGone \/ Refuse \/ FlickrFreeParams
FlickrSpec == FlickrInit /\ [][FlickrNext]_FlickrVars
----------------------------------------------------------------------------
FlickrTypeOK ==
  /\ DialogTypeOK /\ token \in Users \cup {NoUser} /\ stored \in Users \cup {NoUser}
  /\ albums \in UNION {Lists(user) : user \in Users}
  /\ items \in [filled : BOOLEAN, list : UNION {Lists(user) : user \in Users}]
  /\ active \in FlickrIndices \cup {-1} /\ outlived \in BOOLEAN

(***************************************************************************)
(* A job posts where the combo box showed, though the index is looked up   *)
(* in a list that may be older than the context, and its context is one    *)
(* that needed no new log-in, whatever was typed before and since.         *)
(***************************************************************************)
FlickrAlbumAsShown == \A c \in jobs : c \notin needs /\ currentAlbum[c] = choice[c].album

(***************************************************************************)
(* The context that an export would be given is logged in as the user      *)
(* named, and the album to be looked up is of that user, unless a token    *)
(* outlived the name it was for: a name that is typed while there is no    *)
(* context leaves the token, and the next log-in is by the token           *)
(* (flickr.c:356).                                                         *)
(***************************************************************************)
FlickrAccountAsNamed ==
  Ready => \/ outlived
           \/ account[ui] = entry /\ (active >= 3 => LookUp(active).owner = entry)
=============================================================================

--------------------------- MODULE StoragesProofs ---------------------------
(***************************************************************************)
(* The storages that send images and the dialogs that log in for them, for *)
(* every set of images, users, albums and contexts: who owns an api        *)
(* context, what a job posts to, the uploads to Picasa, and what follows   *)
(* for all storages side by side.                                          *)
(***************************************************************************)
EXTENDS MCStorages, FiniteSetTheorems, TLAPS

----------------------------------------------------------------------------
(* The ownership of contexts.                                              *)

Owned == Ownership!OwnershipTypeOK /\ Ownership!OneOwner

LEMMA OwnedInit == Ownership!OwnershipInit => Owned
BY DEF Ownership!OwnershipInit, Owned, Ownership!OwnershipTypeOK, Ownership!OneOwner

LEMMA OwnedStep == Owned /\ [Ownership!OwnershipNext]_Ownership!ownershipvars => Owned'
<1> SUFFICES ASSUME Owned, [Ownership!OwnershipNext]_Ownership!ownershipvars
             PROVE  Owned'
  OBVIOUS
<1> USE DialogConstants DEF Owned, Ownership!OwnershipTypeOK, Ownership!OneOwner
<1>1. CASE Ownership!LogIn
  BY <1>1 DEF Ownership!LogIn, Ownership!Unused
<1>2. CASE Ownership!HandOver
  BY <1>2 DEF Ownership!HandOver, Ownership!Unused
<1>3. CASE Ownership!Release
  BY <1>3 DEF Ownership!Release
<1>4. CASE UNCHANGED Ownership!ownershipvars
  BY <1>4 DEF Ownership!ownershipvars
<1> QED
  BY <1>1, <1>2, <1>3, <1>4 DEF Ownership!OwnershipNext

(***************************************************************************)
(* No api context is shared by the dialog and a job, by two jobs, or used  *)
(* after it was freed: get_params, refresh_albums and free_params of the   *)
(* web albums move contexts and never copy them.                           *)
(***************************************************************************)
THEOREM OneOwnerAlways ==
  ContextsOwned => [](Ownership!OwnershipTypeOK /\ Ownership!OneOwner)
<1>1. Owned => Ownership!OwnershipTypeOK /\ Ownership!OneOwner
  BY DEF Owned
<1> QED
  BY <1>1, OwnedInit, OwnedStep, PTL DEF ContextsOwned, Ownership!OwnershipSpec

----------------------------------------------------------------------------
(* The dialog of Flickr.                                                   *)

(* However a log-in comes about, its context is one nobody has.            *)
LEMMA FlickrNewContext == FlickrAuthenticate => ui' \in Unused \cup {NoContext}
BY DEF FlickrAuthenticate, LoggedIn

LEMMA FlickrLogIn ==
  AuthenticateIfNeeded /\ UNCHANGED jobs
    => Ownership!LogIn \/ UNCHANGED Ownership!ownershipvars
BY FlickrNewContext
   DEF AuthenticateIfNeeded, Unused, Ownership!LogIn, Ownership!Unused,
       Ownership!ownershipvars

LEMMA FlickrStep == [FlickrNext]_FlickrVars => [Ownership!OwnershipNext]_Ownership!ownershipvars
<1> SUFFICES ASSUME [FlickrNext]_FlickrVars
             PROVE  Ownership!OwnershipNext \/ UNCHANGED Ownership!ownershipvars
  OBVIOUS
<1>1. CASE FlickrRefreshLoggedOut \/ FlickrRefreshAlbums \/ FlickrRefreshFails
  BY <1>1, FlickrLogIn
     DEF FlickrRefreshLoggedOut, FlickrRefreshAlbums, FlickrRefreshFails, Ownership!OwnershipNext
<1>2. CASE FlickrHandOver
  BY <1>2, FlickrNewContext
     DEF FlickrHandOver, Ready, Unused, Ownership!OwnershipNext, Ownership!HandOver, Ownership!Unused
<1>3. CASE FlickrFreeParams
  BY <1>3 DEF FlickrFreeParams, Ownership!OwnershipNext, Ownership!Release
<1>4. CASE FlickrEntryChanged \/ FlickrChooseAlbum \/ AlbumGone \/ Refuse \/ UNCHANGED FlickrVars
  BY <1>4 DEF FlickrEntryChanged, FlickrChooseAlbum, AlbumGone, Refuse, FlickrVars, dialogVars, Ownership!ownershipvars
<1> QED
  BY <1>1, <1>2, <1>3, <1>4 DEF FlickrNext

(* The combo box has the list of the dialog, and a context that is marked   *)
(* has been the dialog's.                                                  *)
FlickrDialogInv ==
  /\ Owned /\ FlickrAlbumAsShown
  /\ items.list = albums /\ needs \subseteq jobs \cup freed \cup ({ui} \ {NoContext})
  /\ DOMAIN currentAlbum = Contexts /\ DOMAIN choice = Contexts

LEMMA FlickrDialogInit == FlickrInit => FlickrDialogInv
<1>1. FlickrInit => Ownership!OwnershipInit
  BY DEF FlickrInit, DialogInit, Ownership!OwnershipInit
<1> QED
  BY <1>1, OwnedInit DEF FlickrDialogInv, FlickrInit, DialogInit, FlickrAlbumAsShown, Empty

LEMMA FlickrDialogStep == FlickrDialogInv /\ [FlickrNext]_FlickrVars => FlickrDialogInv'
<1> SUFFICES ASSUME FlickrDialogInv, [FlickrNext]_FlickrVars PROVE FlickrDialogInv'
  OBVIOUS
<1>1. Owned'
  BY FlickrStep, OwnedStep DEF FlickrDialogInv
<1>2. ui \notin jobs
  BY DEF FlickrDialogInv, Owned, Ownership!OneOwner
<1> USE DEF FlickrDialogInv, FlickrAlbumAsShown
<1>3. CASE FlickrEntryChanged
  BY <1>1, <1>2, <1>3 DEF FlickrEntryChanged
<1>4. CASE FlickrRefreshLoggedOut \/ FlickrRefreshAlbums \/ FlickrRefreshFails
  <2>1. AuthenticateIfNeeded /\ UNCHANGED <<needs, jobs, choice, currentAlbum>>
    BY <1>4 DEF FlickrRefreshLoggedOut, FlickrRefreshAlbums, FlickrRefreshFails
  <2>2. items'.list = albums'
    BY <1>4 DEF FlickrRefreshLoggedOut, FlickrRefreshAlbums, FlickrRefreshFails, Empty
  <2>4. needs' \subseteq jobs' \cup freed' \cup ({ui'} \ {NoContext})
    BY <2>1 DEF AuthenticateIfNeeded
  <2> QED
    BY <1>1, <2>1, <2>2, <2>4
<1>5. CASE FlickrHandOver
  <2>1. FlickrShown(active) = LookUp(active) /\ ui \in Contexts /\ ui \notin needs
    BY <1>5 DEF FlickrHandOver, Ready, FlickrShown, LookUp, Owned, Ownership!OwnershipTypeOK
  <2> QED
    BY <1>1, <1>2, <1>5, <2>1 DEF FlickrHandOver
<1>6. CASE FlickrFreeParams
  BY <1>1, <1>6 DEF FlickrFreeParams
<1>7. CASE AlbumGone
  BY <1>1, <1>2, <1>7 DEF AlbumGone
<1>8. CASE FlickrChooseAlbum \/ Refuse \/ UNCHANGED FlickrVars
  BY <1>1, <1>8 DEF FlickrChooseAlbum, Refuse, FlickrVars, dialogVars
<1> QED
  BY <1>3, <1>4, <1>5, <1>6, <1>7, <1>8 DEF FlickrNext

----------------------------------------------------------------------------
(* The dialog of Picasa.                                                   *)

(* A refresh that logs in frees the context it replaces.                   *)
LEMMA PicasaLogIn ==
  LoginIfNeeded /\ UNCHANGED jobs => Ownership!LogIn \/ UNCHANGED Ownership!ownershipvars
BY DEF LoginIfNeeded, PicasaAuthenticate, Unused, Ownership!LogIn, Ownership!Unused,
       Ownership!ownershipvars

LEMMA PicasaStep == [PicasaNext]_dialogVars => [Ownership!OwnershipNext]_Ownership!ownershipvars
<1> SUFFICES ASSUME [PicasaNext]_dialogVars
             PROVE  Ownership!OwnershipNext \/ UNCHANGED Ownership!ownershipvars
  OBVIOUS
<1>1. CASE PicasaRefreshLoggedOut \/ PicasaRefreshAlbums \/ PicasaRefreshFails
  BY <1>1, PicasaLogIn
     DEF PicasaRefreshLoggedOut, PicasaRefreshAlbums, PicasaRefreshFails, Ownership!OwnershipNext
<1>2. CASE PicasaHandOver
  BY <1>2 DEF PicasaHandOver, PicasaAuthenticate, Unused, Ownership!OwnershipNext,
              Ownership!HandOver, Ownership!Unused
<1>3. CASE PicasaFreeParams
  BY <1>3 DEF PicasaFreeParams, Ownership!OwnershipNext, Ownership!Release
<1>4. CASE PicasaEntryChanged \/ PicasaChooseAlbum \/ Decline \/ UNCHANGED dialogVars
  BY <1>4 DEF PicasaEntryChanged, PicasaChooseAlbum, Decline, dialogVars, Ownership!ownershipvars
<1> QED
  BY <1>1, <1>2, <1>3, <1>4 DEF PicasaNext

(* A context has the list of its account, and none before its first feed;  *)
(* the box shows the list of the dialog's context, unless that has none.   *)
ListsInv ==
  /\ \A c \in Contexts : albums[c] \in Lists(account[c])
  /\ \A c \in Unused : albums[c] = << >>
  /\ active \in PicasaIndices \cup {-1}
  /\ ui # NoContext /\ active >= 0 => albums[ui] \in {items, << >>}

PicasaDialogInv ==
  /\ Owned /\ ListsInv
  /\ ui # NoContext => account[ui] \in Users /\ (account[ui] = entry \/ ui \in needs)
  /\ PicasaAlbumAsShown /\ AccountAsNamed
  /\ entry \in Users /\ items \in UNION {Lists(user) : user \in Users}
  /\ account \in [Contexts -> Users \cup {NoUser}]
  /\ DOMAIN albums = Contexts /\ DOMAIN currentAlbum = Contexts /\ DOMAIN choice = Contexts

LEMMA NoList == \A user : << >> \in Lists(user)
<1> SUFFICES ASSUME NEW user PROVE << >> \in Lists(user)
  OBVIOUS
<1>1. [n \in 1..0 |-> [owner |-> user, number |-> n]] = << >>
  OBVIOUS
<1> QED
  BY <1>1, DialogConstants DEF Lists

LEMMA ListOf ==
  ASSUME NEW user, NEW list \in Lists(user)
  PROVE  /\ Len(list) \in Nat /\ DOMAIN list = 1..Len(list)
         /\ \A n \in DOMAIN list : list[n] \in AlbumsOf(user) /\ list[n].owner = user
<1>1. PICK k \in 0..MaxAlbums : list = [n \in 1..k |-> [owner |-> user, number |-> n]]
  BY DEF Lists
<1>2. k \in Nat /\ MaxAlbums \in Nat /\ k <= MaxAlbums
  BY DialogConstants
<1>3. Len(list) = k /\ DOMAIN list = 1..k
  BY <1>1, <1>2
<1>4. \A n \in 1..k : list[n] = [owner |-> user, number |-> n] /\ n \in 1..MaxAlbums
  BY <1>1, <1>2
<1> QED
  BY <1>2, <1>3, <1>4 DEF AlbumsOf

LEMMA PicasaDialogInit == PicasaInit => PicasaDialogInv
<1> SUFFICES ASSUME PicasaInit PROVE PicasaDialogInv
  OBVIOUS
<1> USE DEF PicasaInit, DialogInit
<1>1. Owned
  BY OwnedInit DEF Ownership!OwnershipInit
<1>2. ListsInv
  BY NoList DEF ListsInv, Unused
<1>3. PicasaAlbumAsShown /\ AccountAsNamed
  BY DEF PicasaAlbumAsShown, AccountAsNamed
<1>4. items \in UNION {Lists(user) : user \in Users}
  BY NoList
<1> QED
  BY <1>1, <1>2, <1>3, <1>4 DEF PicasaDialogInv

(* A new context has no list, and nobody else's account changes.           *)
LEMMA NewContext ==
  ASSUME PicasaDialogInv, PicasaAuthenticate
  PROVE  /\ account' \in [Contexts -> Users \cup {NoUser}]
         /\ \A c \in Contexts : albums[c] \in Lists(account'[c])
         /\ ui' = NoContext \/ (ui' \in Unused /\ account'[ui'] = entry /\ albums[ui'] = << >>)
         /\ \A c \in Contexts \ Unused : account'[c] = account[c]
<1>1. CASE ui' = NoContext /\ UNCHANGED account
  BY <1>1 DEF PicasaDialogInv, ListsInv
<1>2. CASE ui' \in Unused /\ account' = [account EXCEPT ![ui'] = entry]
  BY <1>2, NoList DEF PicasaDialogInv, ListsInv, Unused
<1> QED
  BY <1>1, <1>2 DEF PicasaAuthenticate

(* After the first part of a refresh the dialog's context is of the user   *)
(* named, and it has the list it had or none.                              *)
LEMMA LoggedInAgain ==
  ASSUME PicasaDialogInv, LoginIfNeeded, UNCHANGED <<jobs, entry, needs>>
  PROVE  /\ account' \in [Contexts -> Users \cup {NoUser}]
         /\ \A c \in Contexts : albums[c] \in Lists(account'[c])
         /\ Unused' \subseteq Unused
         /\ ui' # NoContext => account'[ui'] = entry
         /\ \A c \in jobs : account'[c] = account[c]
<1>1. CASE ui = NoContext \/ ui \in needs
  <2>1. PicasaAuthenticate /\ freed' = freed \cup ({ui} \ {NoContext})
    BY <1>1 DEF LoginIfNeeded
  <2>2. jobs \subseteq Contexts \ Unused
    BY DEF PicasaDialogInv, Owned, Ownership!OwnershipTypeOK, Unused
  <2>3. Unused' \subseteq Unused
    BY <2>1, DialogConstants DEF Unused
  <2> QED
    BY <2>1, <2>2, <2>3, NewContext
<1>2. CASE ~(ui = NoContext \/ ui \in needs)
  BY <1>2 DEF LoginIfNeeded, PicasaDialogInv, ListsInv, Unused
<1> QED
  BY <1>1, <1>2

(* What jobs have stays, when nothing of it changes.                       *)
LEMMA JobsKept ==
  ASSUME PicasaDialogInv, UNCHANGED <<jobs, choice, currentAlbum>>, needs \subseteq needs',
         \A c \in jobs : account'[c] = account[c]
  PROVE  PicasaAlbumAsShown' /\ AccountAsNamed'
BY DEF PicasaDialogInv, PicasaAlbumAsShown, AccountAsNamed

LEMMA PicasaRefreshKeeps ==
  ASSUME PicasaDialogInv, Owned',
         PicasaRefreshLoggedOut \/ PicasaRefreshAlbums \/ PicasaRefreshFails
  PROVE  PicasaDialogInv'
<1>1. /\ LoginIfNeeded /\ UNCHANGED <<entry, needs, currentAlbum, jobs, choice>>
      /\ ui' = NoContext \/ ui' \in Contexts
  BY DEF PicasaRefreshLoggedOut, PicasaRefreshAlbums, PicasaRefreshFails, Owned, Ownership!OwnershipTypeOK
<1>2. /\ account' \in [Contexts -> Users \cup {NoUser}]
      /\ \A c \in Contexts : albums[c] \in Lists(account'[c])
      /\ Unused' \subseteq Unused
      /\ ui' # NoContext => account'[ui'] = entry
      /\ \A c \in jobs : account'[c] = account[c]
  BY <1>1, LoggedInAgain
<1>3. PicasaAlbumAsShown' /\ AccountAsNamed'
  BY <1>1, <1>2, JobsKept
<1>4. CASE PicasaRefreshLoggedOut \/ PicasaRefreshFails
  <2>1. UNCHANGED albums /\ items' = << >> /\ active' = -1
    BY <1>4 DEF PicasaRefreshLoggedOut, PicasaRefreshFails
  <2>2. ListsInv'
    BY <1>2, <2>1 DEF ListsInv, PicasaDialogInv
  <2>3. items' \in UNION {Lists(user) : user \in Users}
    BY <2>1, NoList DEF PicasaDialogInv
  <2> QED
    BY <1>1, <1>2, <1>3, <2>1, <2>2, <2>3 DEF PicasaDialogInv
<1>5. CASE PicasaRefreshAlbums
  <2>1. PICK list \in Lists(account'[ui']) :
          /\ albums' = [albums EXCEPT ![ui'] = list] /\ items' = list
          /\ active' = IF list = << >> THEN 0 ELSE 2
    BY <1>5 DEF PicasaRefreshAlbums
  <2>2. ui' \in Contexts /\ ui' \notin Unused'
    BY <1>1, <1>5 DEF PicasaRefreshAlbums, Unused
  <2>3. active' \in {0} \cup 2..Len(items') + 1
    <3>1. Len(list) \in Nat
      BY ListOf
    <3>2. list # << >> => Len(list) # 0
      <4>1. list \in Seq(AlbumsOf(account'[ui']))
        <5>1. DOMAIN list = 1..Len(list) /\ \A n \in DOMAIN list : list[n] \in AlbumsOf(account'[ui'])
          BY ListOf
        <5>2. list = [n \in 1..Len(list) |-> list[n]]
          BY DEF Lists
        <5> QED
          BY <3>1, <5>1, <5>2
      <4> QED
        BY <4>1
    <3> QED
      BY <2>1, <3>1, <3>2
  <2>4. ListsInv'
    BY <1>2, <2>1, <2>2, <2>3 DEF ListsInv, PicasaDialogInv, PicasaIndices
  <2>5. items' \in UNION {Lists(user) : user \in Users}
    <3>1. ui' # NoContext /\ entry \in Users
      BY <1>5 DEF PicasaRefreshAlbums, PicasaDialogInv
    <3> QED
      BY <1>2, <2>1, <3>1
  <2> QED
    BY <1>1, <1>2, <1>3, <2>1, <2>4, <2>5 DEF PicasaDialogInv
<1> QED
  BY <1>4, <1>5

LEMMA PicasaHandOverKeeps ==
  ASSUME PicasaDialogInv, Owned', PicasaHandOver
  PROVE  PicasaDialogInv'
<1>1. /\ ui # NoContext /\ active >= 0 /\ Found(active) # NoAlbum /\ ui \in Contexts /\ ui \notin jobs
      /\ currentAlbum' = [currentAlbum EXCEPT ![ui] = IF active = 0 THEN NoAlbum ELSE Found(active)]
      /\ jobs' = jobs \cup {ui}
      /\ choice' = [choice EXCEPT ![ui] = [album |-> PicasaShown(active), user |-> entry]]
      /\ PicasaAuthenticate
      /\ UNCHANGED <<entry, needs, albums, items, active, freed>>
  BY DEF PicasaHandOver, PicasaDialogInv, Owned, Ownership!OwnershipTypeOK, Ownership!OneOwner
<1>2. /\ account' \in [Contexts -> Users \cup {NoUser}]
      /\ \A c \in Contexts : albums[c] \in Lists(account'[c])
      /\ ui' = NoContext \/ (ui' \in Unused /\ account'[ui'] = entry /\ albums[ui'] = << >>)
      /\ \A c \in Contexts \ Unused : account'[c] = account[c]
  BY <1>1, NewContext
<1>3. \A c \in jobs' : c \in Contexts /\ account'[c] = account[c]
  BY <1>1, <1>2 DEF PicasaDialogInv, Owned, Ownership!OwnershipTypeOK, Unused
<1>4. ListsInv'
  <2>1. Unused' \subseteq Unused
    BY <1>1, <1>2 DEF Unused
  <2>2. PicasaIndices' = PicasaIndices
    BY <1>1 DEF PicasaIndices
  <2>3. ui' # NoContext => albums'[ui'] = << >>
    BY <1>1, <1>2
  <2> QED
    BY <1>1, <1>2, <2>1, <2>2, <2>3 DEF ListsInv, PicasaDialogInv
<1>5. AccountAsNamed'
  BY <1>1, <1>3 DEF AccountAsNamed, PicasaDialogInv
<1>6. CASE active = 0
  <2>1. PicasaShown(active) = NewAlbum
    BY <1>6 DEF PicasaShown
  <2>2. PicasaAlbumAsShown'
    BY <1>1, <1>3, <1>6, <2>1 DEF PicasaAlbumAsShown, PicasaDialogInv
  <2> QED
    BY <1>1, <1>2, <1>4, <1>5, <2>2 DEF PicasaDialogInv
<1>7. CASE active # 0
  <2> DEFINE album == items[active - 1]
  <2>1. /\ Found(active) = albums[ui][active - 1] /\ active - 1 \in DOMAIN albums[ui]
        /\ PicasaShown(active) = album
    BY <1>1, <1>7 DEF Found, PicasaShown
  <2>2. albums[ui] = items
    BY <1>1, <2>1 DEF PicasaDialogInv, ListsInv
  <2>3. items \in Lists(account[ui])
    BY <1>1, <2>2 DEF PicasaDialogInv, ListsInv
  <2>4. album \in AlbumsOf(account[ui]) /\ album.owner = account[ui]
    BY <2>1, <2>2, <2>3, ListOf
  <2>5. account[ui] \in Users
    BY <1>1 DEF PicasaDialogInv
  <2>6. album # NewAlbum
    BY <2>4, <2>5, DialogConstants DEF AccountAlbums
  <2> HIDE DEF album
  <2>7. PicasaAlbumAsShown'
    BY <1>1, <1>3, <1>7, <2>1, <2>2, <2>4, <2>6 DEF PicasaAlbumAsShown, PicasaDialogInv, album
  <2> QED
    BY <1>1, <1>2, <1>4, <1>5, <2>7 DEF PicasaDialogInv
<1> QED
  BY <1>6, <1>7

LEMMA PicasaDialogStep == PicasaDialogInv /\ [PicasaNext]_dialogVars => PicasaDialogInv'
<1> SUFFICES ASSUME PicasaDialogInv, [PicasaNext]_dialogVars PROVE PicasaDialogInv'
  OBVIOUS
<1>1. Owned'
  BY PicasaStep, OwnedStep DEF PicasaDialogInv
<1>2. ui \notin jobs /\ jobs \subseteq Contexts /\ ui \in Contexts \cup {NoContext}
  BY DEF PicasaDialogInv, Owned, Ownership!OneOwner, Ownership!OwnershipTypeOK
<1>3. CASE PicasaRefreshLoggedOut \/ PicasaRefreshAlbums \/ PicasaRefreshFails
  BY <1>1, <1>3, PicasaRefreshKeeps
<1>4. CASE PicasaHandOver
  BY <1>1, <1>4, PicasaHandOverKeeps
<1>5. CASE PicasaEntryChanged
  <2>1. PicasaAlbumAsShown' /\ AccountAsNamed'
    BY <1>5, JobsKept DEF PicasaEntryChanged
  <2>2. ListsInv'
    BY <1>5 DEF PicasaEntryChanged, PicasaDialogInv, ListsInv, Unused, PicasaIndices
  <2> QED
    BY <1>1, <1>5, <2>1, <2>2 DEF PicasaEntryChanged, PicasaDialogInv
<1>6. CASE PicasaChooseAlbum
  <2>1. PicasaAlbumAsShown' /\ AccountAsNamed'
    BY <1>6, JobsKept DEF PicasaChooseAlbum
  <2>2. active \in PicasaIndices /\ active >= 0
    BY <1>6 DEF PicasaChooseAlbum, PicasaDialogInv, ListsInv, PicasaIndices
  <2>3. ListsInv'
    BY <1>6, <2>2 DEF PicasaChooseAlbum, PicasaDialogInv, ListsInv, Unused, PicasaIndices
  <2> QED
    BY <1>1, <1>6, <2>1, <2>3 DEF PicasaChooseAlbum, PicasaDialogInv
<1>7. CASE Decline
  <2>1. PicasaAlbumAsShown' /\ AccountAsNamed'
    BY <1>2, <1>7 DEF Decline, PicasaDialogInv, PicasaAlbumAsShown, AccountAsNamed
  <2>2. ListsInv'
    BY <1>7 DEF Decline, PicasaDialogInv, ListsInv, Unused, PicasaIndices
  <2> QED
    BY <1>1, <1>7, <2>1, <2>2 DEF Decline, PicasaDialogInv
<1>8. CASE PicasaFreeParams
  <2>1. PICK c \in jobs :
          /\ jobs' = jobs \ {c} /\ freed' = freed \cup {c}
          /\ albums' = [albums EXCEPT ![c] = << >>]
          /\ currentAlbum' = [currentAlbum EXCEPT ![c] = NoAlbum]
          /\ needs' = needs \ {c}
          /\ choice' = [choice EXCEPT ![c] = [album |-> NoAlbum, user |-> NoUser]]
          /\ account' = [account EXCEPT ![c] = NoUser]
    BY <1>8 DEF PicasaFreeParams
  <2>2. UNCHANGED <<entry, ui, items, active>>
    BY <1>8 DEF PicasaFreeParams
  <2>3. account' \in [Contexts -> Users \cup {NoUser}]
    BY <2>1 DEF PicasaDialogInv
  <2>4. PicasaAlbumAsShown' /\ AccountAsNamed'
    BY <1>2, <2>1 DEF PicasaDialogInv, PicasaAlbumAsShown, AccountAsNamed
  <2>5. ListsInv'
    <3>1. Unused' \subseteq Unused
      BY <2>1, <2>2 DEF Unused
    <3>2. \A d \in Contexts : albums'[d] \in Lists(account'[d])
      BY <1>2, <2>1, NoList DEF PicasaDialogInv, ListsInv
    <3>3. ui # c
      BY <1>2, <2>1
    <3>4. \A d \in Unused' : albums'[d] = << >>
      BY <2>1, <3>1 DEF PicasaDialogInv, ListsInv, Unused
    <3> QED
      BY <1>2, <2>1, <2>2, <3>2, <3>3, <3>4 DEF PicasaDialogInv, ListsInv, PicasaIndices
  <2> QED
    BY <1>1, <1>2, <2>1, <2>2, <2>3, <2>4, <2>5 DEF PicasaDialogInv
<1>9. CASE UNCHANGED dialogVars
  <2>1. PicasaAlbumAsShown' /\ AccountAsNamed'
    BY <1>9, JobsKept DEF dialogVars
  <2>2. ListsInv'
    BY <1>9 DEF dialogVars, PicasaDialogInv, ListsInv, Unused, PicasaIndices
  <2> QED
    BY <1>1, <1>9, <2>1, <2>2 DEF dialogVars, PicasaDialogInv
<1> QED
  BY <1>3, <1>4, <1>5, <1>6, <1>7, <1>8, <1>9 DEF PicasaNext

----------------------------------------------------------------------------
(* The dialogs together.                                                   *)

MCvars == <<which, galleryVars, flickrVars, pvars, emailVars, FlickrVars>>

(* A step of the model is a step of the one dialog or of the other.        *)
LEMMA DialogStep ==
  [MCNext]_MCvars => /\ UNCHANGED which
                     /\ IF which = "picasa dialog" THEN [PicasaNext]_dialogVars ELSE [FlickrNext]_FlickrVars
BY DEF MCNext, MCvars, FlickrVars

(***************************************************************************)
(* In both dialogs contexts pass to export jobs as ContextOwnership says,  *)
(* however refreshes, log-ins that fail, and exports interleave.           *)
(***************************************************************************)
THEOREM ContextsAlwaysOwned == MCSpec => ContextsOwned
<1>1. MCInit => Ownership!OwnershipInit
  BY DEF MCInit, FlickrInit, PicasaInit, DialogInit, Ownership!OwnershipInit
<1>2. [MCNext]_MCvars => [Ownership!OwnershipNext]_Ownership!ownershipvars
  BY DialogStep, FlickrStep, PicasaStep
<1> QED
  BY <1>1, <1>2, PTL DEF MCSpec, MCvars, ContextsOwned, Ownership!OwnershipSpec

----------------------------------------------------------------------------
(* Types of the dialogs.                                                   *)

LEMMA UserLists ==
  ASSUME NEW list \in UNION {Lists(user) : user \in Users}
  PROVE  /\ Len(list) \in Nat /\ DOMAIN list = 1..Len(list)
         /\ \A n \in DOMAIN list : list[n] \in AccountAlbums
<1>1. PICK user \in Users : list \in Lists(user)
  OBVIOUS
<1>2. AlbumsOf(user) \subseteq AccountAlbums
  BY DEF AccountAlbums
<1> QED
  BY <1>1, <1>2, ListOf

LEMMA ListLength ==
  ASSUME NEW user, NEW list \in Lists(user), list # << >>
  PROVE  Len(list) \in Nat \ {0}
<1>1. PICK k \in 0..MaxAlbums : list = [n \in 1..k |-> [owner |-> user, number |-> n]]
  BY DEF Lists
<1>2. k \in Nat
  BY DialogConstants
<1>3. Len(list) = k
  BY <1>1, <1>2
<1>4. k # 0
  <2> SUFFICES ASSUME k = 0 PROVE FALSE
    OBVIOUS
  <2>1. list = [n \in 1..0 |-> [owner |-> user, number |-> n]]
    BY <1>1
  <2>2. list = << >>
    BY <2>1
  <2> QED
    BY <2>2
<1> QED
  BY <1>2, <1>3, <1>4

(* The dialog's context of Flickr is logged in as some user.               *)
FlickrTypedInv ==
  FlickrTypeOK /\ Owned /\ items.list = albums /\ (ui # NoContext => account[ui] \in Users)

LEMMA FlickrAccounts ==
  ASSUME FlickrTypedInv, FlickrAuthenticate \/ AuthenticateIfNeeded
  PROVE  /\ account' \in [Contexts -> Users \cup {NoUser}]
         /\ token' \in Users \cup {NoUser} /\ stored' \in Users \cup {NoUser}
         /\ ui' # NoContext => account'[ui'] \in Users
BY DEF FlickrTypedInv, FlickrTypeOK, DialogTypeOK, FlickrAuthenticate, AuthenticateIfNeeded, LoggedIn, Unused

LEMMA OwnedTypes ==
  Owned => ui \in Contexts \cup {NoContext} /\ jobs \subseteq Contexts /\ freed \subseteq Contexts /\ ui \notin jobs
BY DEF Owned, Ownership!OwnershipTypeOK, Ownership!OneOwner

LEMMA SomeList == DialogInit => << >> \in UNION {Lists(user) : user \in Users}
BY NoList DEF DialogInit

LEMMA FlickrTypedInit == FlickrInit => FlickrTypedInv
<1> SUFFICES ASSUME FlickrInit PROVE FlickrTypedInv
  OBVIOUS
<1>1. Owned
  BY FlickrDialogInit DEF FlickrDialogInv
<1> QED
  BY <1>1, SomeList DEF FlickrInit, DialogInit, FlickrTypedInv, FlickrTypeOK, DialogTypeOK, Empty

LEMMA FlickrTypedStep == FlickrTypedInv /\ [FlickrNext]_FlickrVars => FlickrTypedInv'
<1> SUFFICES ASSUME FlickrTypedInv, [FlickrNext]_FlickrVars PROVE FlickrTypedInv'
  OBVIOUS
<1>1. Owned'
  BY FlickrStep, OwnedStep DEF FlickrTypedInv
<1>2. ui' \in Contexts \cup {NoContext} /\ jobs' \subseteq Contexts /\ freed' \subseteq Contexts
  BY <1>1 DEF Owned, Ownership!OwnershipTypeOK
<1>3. ui \notin jobs /\ ui \in Contexts \cup {NoContext}
  BY OwnedTypes DEF FlickrTypedInv
<1> USE <1>1, <1>2 DEF FlickrTypedInv, FlickrTypeOK, DialogTypeOK, Empty
<1>4. CASE FlickrEntryChanged
  BY <1>4 DEF FlickrEntryChanged, FlickrIndices
<1>5. CASE FlickrRefreshLoggedOut
  BY <1>5, FlickrAccounts DEF FlickrRefreshLoggedOut, FlickrIndices
<1>6. CASE FlickrRefreshAlbums
  <2>1. albums' \in Lists(account'[ui']) /\ account'[ui'] \in Users
    BY <1>6, FlickrAccounts DEF FlickrRefreshAlbums
  <2>2. active' \in FlickrIndices' \cup {-1}
    BY <1>6, <2>1, ListLength DEF FlickrRefreshAlbums, FlickrIndices
  <2> QED
    BY <1>6, <2>1, <2>2, FlickrAccounts DEF FlickrRefreshAlbums
<1>7. CASE FlickrRefreshFails
  <2>1. albums' \in UNION {Lists(user) : user \in Users}
    BY <1>7, NoList DEF FlickrRefreshFails
  <2> QED
    BY <1>7, <2>1, FlickrAccounts DEF FlickrRefreshFails
<1>8. CASE FlickrChooseAlbum
  BY <1>8 DEF FlickrChooseAlbum, FlickrIndices
<1>9. CASE FlickrHandOver
  <2>1. LookUp(active) \in AccountAlbums \cup {NewAlbum, NoAlbum}
    <3>1. active \in FlickrIndices /\ active >= 0
      BY <1>9 DEF FlickrHandOver, Ready, FlickrIndices
    <3>2. CASE active \in {0, 1}
      BY <3>2 DEF LookUp, FlickrShown
    <3>3. CASE active \in 3..Len(items.list) + 2
      <4>1. Len(albums) \in Nat /\ DOMAIN albums = 1..Len(albums)
            /\ \A n \in DOMAIN albums : albums[n] \in AccountAlbums
        BY UserLists
      <4>2. active - 2 \in DOMAIN albums
        BY <3>3, <4>1
      <4>3. LookUp(active) = albums[active - 2]
        BY <3>3, <4>1 DEF LookUp
      <4> QED
        BY <4>1, <4>2, <4>3
    <3> QED
      BY <3>1, <3>2, <3>3 DEF FlickrIndices
  <2> QED
    BY <1>9, <2>1, FlickrAccounts DEF FlickrHandOver, FlickrIndices
<1>10. CASE AlbumGone
  BY <1>10 DEF AlbumGone, FlickrIndices
<1>11. CASE Refuse
  BY <1>11 DEF Refuse, FlickrIndices
<1>12. CASE FlickrFreeParams
  BY <1>3, <1>12 DEF FlickrFreeParams, FlickrIndices
<1>13. CASE UNCHANGED FlickrVars
  BY <1>13 DEF FlickrVars, dialogVars, FlickrIndices
<1> QED
  BY <1>4, <1>5, <1>6, <1>7, <1>8, <1>9, <1>10, <1>11, <1>12, <1>13 DEF FlickrNext

PicasaTypedInv == PicasaTypeOK /\ PicasaDialogInv

LEMMA PicasaTypedInit == PicasaInit => PicasaTypedInv
<1> SUFFICES ASSUME PicasaInit PROVE PicasaTypedInv
  OBVIOUS
<1> QED
  BY PicasaDialogInit, SomeList DEF PicasaInit, DialogInit, PicasaTypedInv, PicasaTypeOK, DialogTypeOK

LEMMA PicasaTypedStep == PicasaTypedInv /\ [PicasaNext]_dialogVars => PicasaTypedInv'
<1> SUFFICES ASSUME PicasaTypedInv, [PicasaNext]_dialogVars PROVE PicasaTypeOK' /\ PicasaDialogInv'
  BY DEF PicasaTypedInv
<1>1. PicasaDialogInv'
  BY PicasaDialogStep DEF PicasaTypedInv
<1>2. /\ entry' \in Users /\ account' \in [Contexts -> Users \cup {NoUser}]
      /\ items' \in UNION {Lists(user) : user \in Users} /\ active' \in PicasaIndices' \cup {-1}
      /\ ui' \in Contexts \cup {NoContext} /\ jobs' \subseteq Contexts /\ freed' \subseteq Contexts
      /\ ui' # NoContext => account'[ui'] \in Users
  BY <1>1 DEF PicasaDialogInv, ListsInv, Owned, Ownership!OwnershipTypeOK
<1>3. ui \in Contexts \cup {NoContext} /\ entry \in Users
  BY OwnedTypes DEF PicasaTypedInv, PicasaDialogInv
<1> DEFINE Rest == /\ needs' \subseteq Contexts /\ sensitive' \in BOOLEAN
                   /\ currentAlbum' \in [Contexts -> AccountAlbums \cup {NewAlbum, NoAlbum}]
                   /\ \A c \in Contexts : albums'[c] \in UNION {Lists(user) : user \in Users}
<1>a. Rest => PicasaTypeOK'
  BY <1>2 DEF PicasaTypeOK, DialogTypeOK
<1>b. /\ needs \subseteq Contexts /\ sensitive \in BOOLEAN
      /\ currentAlbum \in [Contexts -> AccountAlbums \cup {NewAlbum, NoAlbum}]
      /\ \A c \in Contexts : albums[c] \in UNION {Lists(user) : user \in Users}
  BY DEF PicasaTypedInv, PicasaTypeOK, DialogTypeOK
<1> SUFFICES Rest
  BY <1>1, <1>a
<1> USE <1>b
<1>4. CASE PicasaEntryChanged
  BY <1>3, <1>4 DEF PicasaEntryChanged
<1>5. CASE PicasaRefreshLoggedOut \/ PicasaRefreshFails
  BY <1>5 DEF PicasaRefreshLoggedOut, PicasaRefreshFails
<1>6. CASE PicasaRefreshAlbums
  <2>1. PICK list \in Lists(account'[ui']) : albums' = [albums EXCEPT ![ui'] = list]
    BY <1>6 DEF PicasaRefreshAlbums
  <2>2. list \in UNION {Lists(user) : user \in Users}
    BY <1>2, <1>6, <2>1 DEF PicasaRefreshAlbums
  <2>3. \A c \in Contexts : albums'[c] \in UNION {Lists(user) : user \in Users}
    BY <2>1, <2>2 DEF PicasaTypedInv, PicasaDialogInv
  <2> QED
    BY <1>6, <2>3 DEF PicasaRefreshAlbums
<1>7. CASE PicasaChooseAlbum
  BY <1>7 DEF PicasaChooseAlbum
<1>8. CASE PicasaHandOver
  <2>1. Found(active) \in AccountAlbums \cup {NewAlbum}
    <3>1. active # 0 => active - 1 \in DOMAIN albums[ui] /\ Found(active) = albums[ui][active - 1]
      BY <1>8 DEF PicasaHandOver, Found
    <3>2. albums[ui] \in UNION {Lists(user) : user \in Users}
      BY <1>3, <1>8 DEF PicasaHandOver
    <3>3. \A n \in DOMAIN albums[ui] : albums[ui][n] \in AccountAlbums
      BY <3>2, UserLists
    <3> QED
      BY <3>1, <3>3 DEF Found
  <2> QED
    BY <1>8, <2>1 DEF PicasaHandOver
<1>9. CASE Decline
  BY <1>9 DEF Decline
<1>10. CASE PicasaFreeParams
  <2>1. PICK c \in jobs :
          /\ jobs' = jobs \ {c} /\ albums' = [albums EXCEPT ![c] = << >>]
          /\ currentAlbum' = [currentAlbum EXCEPT ![c] = NoAlbum] /\ needs' = needs \ {c}
    BY <1>10 DEF PicasaFreeParams
  <2>2. << >> \in UNION {Lists(user) : user \in Users}
    BY <1>3, NoList
  <2>3. \A d \in Contexts : albums'[d] \in UNION {Lists(user) : user \in Users}
    BY <2>1, <2>2 DEF PicasaTypedInv, PicasaDialogInv
  <2> QED
    BY <1>10, <2>1, <2>3 DEF PicasaFreeParams
<1>11. CASE UNCHANGED dialogVars
  BY <1>11 DEF dialogVars
<1> QED
  BY <1>4, <1>5, <1>6, <1>7, <1>8, <1>9, <1>10, <1>11 DEF PicasaNext

----------------------------------------------------------------------------
(* The account of the dialog of Flickr.                                    *)

(* The token is that of the context, of the name, unless it outlived it; so *)
(* the context and the list of the dialog are of the user named.           *)
FlickrNamed ==
  /\ ~outlived => token \in {NoUser, entry}
  /\ ui # NoContext /\ ui \notin needs =>
       account[ui] = token /\ (~outlived => albums \in Lists(entry))

FlickrNamedInv == FlickrTypedInv /\ FlickrDialogInv /\ FlickrNamed

(* Who logs in has the token, which is of the user named unless a token    *)
(* outlived the name, and nobody has marked the new context.               *)
LEMMA FlickrLoggedIn ==
  ASSUME FlickrNamedInv, FlickrAuthenticate
  PROVE  /\ ui' # NoContext => account'[ui'] = token' /\ ui' \notin needs
         /\ ~outlived => token' \in {NoUser, entry}
<1>1. token # NoUser /\ ~outlived => token = entry
  BY DEF FlickrNamedInv, FlickrNamed
<1>2. DOMAIN account = Contexts /\ \A c \in Unused : c \notin needs
  BY DEF FlickrNamedInv, FlickrTypedInv, FlickrTypeOK, DialogTypeOK, FlickrDialogInv, Unused
<1>3. CASE ui' = NoContext /\ UNCHANGED <<account, token, stored>>
  BY <1>3 DEF FlickrNamedInv, FlickrNamed
<1>4. CASE token # NoUser /\ LoggedIn(token)
  BY <1>1, <1>2, <1>4 DEF LoggedIn, Unused
<1>5. CASE LoggedIn(entry)
  BY <1>2, <1>5 DEF LoggedIn, Unused
<1> QED
  BY <1>3, <1>4, <1>5 DEF FlickrAuthenticate

LEMMA FlickrNamedInit == FlickrInit => FlickrNamedInv
<1> SUFFICES ASSUME FlickrInit PROVE FlickrNamed
  BY FlickrTypedInit, FlickrDialogInit DEF FlickrNamedInv
<1> QED
  BY DEF FlickrInit, DialogInit, FlickrNamed

(* A refresh lists the albums of the context it has or gets.               *)
LEMMA FlickrRefreshNamed ==
  ASSUME FlickrNamedInv, FlickrRefreshAlbums \/ FlickrRefreshFails
  PROVE  FlickrNamed'
<1>1. /\ AuthenticateIfNeeded /\ ui' # NoContext /\ UNCHANGED <<entry, needs>>
      /\ outlived' = (outlived /\ account'[ui'] # entry)
      /\ albums' \in Lists(account'[ui'])
  BY NoList DEF FlickrRefreshAlbums, FlickrRefreshFails
<1>2. account'[ui'] = token' /\ (~outlived => token' \in {NoUser, entry})
  <2>1. CASE ui = NoContext \/ ui \in needs
    BY <1>1, <2>1, FlickrLoggedIn DEF AuthenticateIfNeeded
  <2>2. CASE ~(ui = NoContext \/ ui \in needs)
    BY <1>1, <2>2 DEF AuthenticateIfNeeded, FlickrNamedInv, FlickrNamed
  <2> QED BY <2>1, <2>2
<1>3. account'[ui'] # NoUser
  <2>1. account'[ui'] \in Users
    BY <1>1, FlickrAccounts DEF FlickrNamedInv
  <2> QED BY <2>1, DialogConstants
<1>4. ~outlived' => account'[ui'] = entry
  BY <1>1, <1>2, <1>3
<1> QED
  BY <1>1, <1>2, <1>4 DEF FlickrNamed

LEMMA FlickrNamedStep == FlickrNamedInv /\ [FlickrNext]_FlickrVars => FlickrNamedInv'
<1> SUFFICES ASSUME FlickrNamedInv, [FlickrNext]_FlickrVars PROVE FlickrNamed'
  BY FlickrTypedStep, FlickrDialogStep DEF FlickrNamedInv
<1>1. CASE FlickrEntryChanged
  BY <1>1 DEF FlickrEntryChanged, FlickrNamedInv, FlickrNamed
<1>2. CASE FlickrRefreshLoggedOut
  <2>1. ui' = NoContext /\ UNCHANGED <<entry, outlived>> /\ AuthenticateIfNeeded
    BY <1>2 DEF FlickrRefreshLoggedOut
  <2>2. ~outlived => token' \in {NoUser, entry}
    BY <2>1, FlickrLoggedIn DEF AuthenticateIfNeeded, FlickrNamedInv, FlickrNamed
  <2> QED
    BY <2>1, <2>2 DEF FlickrNamed
<1>3. CASE FlickrRefreshAlbums \/ FlickrRefreshFails
  BY <1>3, FlickrRefreshNamed
<1>4. CASE FlickrHandOver
  <2>1. /\ Ready /\ FlickrAuthenticate /\ UNCHANGED <<entry, needs, albums, outlived>>
    BY <1>4 DEF FlickrHandOver
  <2>2. ~outlived => albums \in Lists(entry)
    BY <2>1 DEF Ready, FlickrNamedInv, FlickrNamed
  <2> QED
    BY <2>1, <2>2, FlickrLoggedIn DEF FlickrNamed
<1>5. CASE FlickrFreeParams
  <2>1. PICK c \in jobs : account' = [account EXCEPT ![c] = NoUser]
    BY <1>5 DEF FlickrFreeParams
  <2>2. ui \notin jobs
    BY OwnedTypes DEF FlickrNamedInv, FlickrTypedInv
  <2>3. account'[ui] = account[ui]
    BY <2>1, <2>2
  <2> QED
    BY <1>5, <2>3 DEF FlickrFreeParams, FlickrNamedInv, FlickrNamed
<1>6. CASE FlickrChooseAlbum \/ AlbumGone \/ Refuse \/ UNCHANGED FlickrVars
  BY <1>6 DEF FlickrChooseAlbum, AlbumGone, Refuse, FlickrVars, dialogVars, FlickrNamedInv, FlickrNamed
<1> QED
  BY <1>1, <1>2, <1>3, <1>4, <1>5, <1>6 DEF FlickrNext

(* So the album that get_params looks up is of the user named.             *)
LEMMA NamedAsShown == FlickrNamedInv => FlickrAccountAsNamed
<1> SUFFICES ASSUME FlickrNamedInv, Ready, ~outlived
             PROVE  account[ui] = entry /\ (active >= 3 => LookUp(active).owner = entry)
  BY DEF FlickrAccountAsNamed
<1>1. account[ui] = token /\ albums \in Lists(entry) /\ token \in {NoUser, entry}
  BY DEF Ready, FlickrNamedInv, FlickrNamed
<1>2. account[ui] \in Users
  BY DEF Ready, FlickrNamedInv, FlickrTypedInv
<1>3. account[ui] = entry
  BY <1>1, <1>2, DialogConstants
<1>4. ASSUME active >= 3 PROVE LookUp(active).owner = entry
  <2>1. Len(albums) \in Nat /\ DOMAIN albums = 1..Len(albums)
        /\ \A n \in DOMAIN albums : albums[n].owner = entry
    BY <1>1, ListOf
  <2>2. items.list = albums /\ active \in FlickrIndices \cup {-1}
    BY DEF FlickrNamedInv, FlickrDialogInv, FlickrTypedInv, FlickrTypeOK
  <2>3. active \in 3..Len(albums) + 2
    BY <1>4, <2>1, <2>2 DEF FlickrIndices
  <2>4. active - 2 \in DOMAIN albums
    BY <2>1, <2>3
  <2>5. LookUp(active) = albums[active - 2]
    BY <2>1, <2>3 DEF LookUp
  <2> QED
    BY <2>1, <2>4, <2>5
<1> QED
  BY <1>3, <1>4

(***************************************************************************)
(* A job posts to the album that the combo box showed, though get_params   *)
(* looks it up in another list, however refreshes, failed log-ins and      *)
(* earlier exports interleave; and to the account of the user named then,  *)
(* unless the name was typed after the log-in (Picasa) or while there was  *)
(* no context but a token of the earlier name (Flickr).                    *)
(***************************************************************************)
THEOREM AlbumAlwaysAsShown == MCSpec => []AlbumAsShown
<1> DEFINE Inv == IF which = "picasa dialog" THEN PicasaDialogInv ELSE FlickrNamedInv
<1>1. MCInit => Inv
  BY FlickrNamedInit, PicasaDialogInit DEF MCInit
<1>2. Inv /\ [MCNext]_MCvars => Inv'
  BY DialogStep, FlickrNamedStep, PicasaDialogStep
<1>3. Inv => AlbumAsShown
  BY NamedAsShown DEF FlickrNamedInv, FlickrDialogInv, PicasaDialogInv, AlbumAsShown
<1> QED
  BY <1>1, <1>2, <1>3, PTL DEF MCSpec, MCvars

----------------------------------------------------------------------------
(* The uploads to Picasa.                                                   *)

(* The program is ended for all calls at once.                              *)
AllKilled == Killed => \A i \in Images : pc[i] = "killed"

(* Who asks for an album has the block, and there is none yet; who has got  *)
(* past that block has one, unless it was told nothing of its own.          *)
AlbumFirst ==
  /\ \A i \in Images :
       /\ pc[i] = "request" => current = None
       /\ pc[i] \in {"temp", "exported", "upload"} => current # None \/ i \in childless
  /\ Killed => current = None /\ childless # {}

(* The album of the job is that of all photos, and the only album it made   *)
(* that no failed call and no answer without an album stands for.           *)
AlbumOfAll ==
  /\ \A p \in photos : p[1] = current /\ current # None
  /\ \A a \in made \ childless : result[a] = 1 \/ current = a

(* How far a call has come says what it knows of its photo.                 *)
PhotoAtPlace ==
  ~Killed => \A i \in Images :
    /\ result[i] # None <=> pc[i] \in {"unlink", "done"}
    /\ i \in Uploaded => pc[i] \in {"tags", "accepted", "refused", "unlink", "done"}
    /\ pc[i] \in {"tags", "accepted"} => i \in Uploaded
    /\ pc[i] = "tags" => i \in Tagged
    /\ pc[i] = "refused" => i \notin Uploaded \/ i \in unanswered \cup Tagged

(* The inductive invariant.                                                 *)
UploadInv == PTypeOK /\ AllKilled /\ AlbumFirst /\ AlbumOfAll /\ PhotoAtPlace /\ ResultTellsUpload

(* The initial state satisfies the invariant.                               *)
LEMMA UploadInit == PInit => UploadInv
  <1> SUFFICES ASSUME PInit PROVE UploadInv
    OBVIOUS
  <1>1. PTypeOK
    BY PicasaConstants DEF PInit, PTypeOK, Places, InCritical, HasFile, Albums
  <1>2. ~Killed /\ AllKilled
    BY DEF PInit, Killed, AllKilled
  <1>3. AlbumFirst /\ AlbumOfAll
    BY <1>2 DEF PInit, AlbumFirst, AlbumOfAll
  <1>4. PhotoAtPlace /\ ResultTellsUpload
    BY PicasaConstants DEF PInit, PhotoAtPlace, ResultTellsUpload, Uploaded
  <1> QED BY <1>1, <1>2, <1>3, <1>4 DEF UploadInv

(* A photo that is added is that of its image.                              *)
LEMMA SecondOfPairs ==
  ASSUME NEW S, NEW a, NEW i
  PROVE  {p[2] : p \in S \cup {<<a, i>>}} = {p[2] : p \in S} \cup {i}
  <1> DEFINE T == S \cup {<<a, i>>}
  <1>1. ASSUME NEW x \in {p[2] : p \in T} PROVE x \in {p[2] : p \in S} \cup {i}
    <2>1. PICK p \in T : x = p[2]
      OBVIOUS
    <2>2. CASE p \in S
      BY <2>1, <2>2
    <2>3. CASE p = <<a, i>>
      BY <2>1, <2>3
    <2> QED BY <2>2, <2>3
  <1>2. ASSUME NEW x \in {p[2] : p \in S} PROVE x \in {p[2] : p \in T}
    OBVIOUS
  <1>3. i \in {p[2] : p \in T}
    <2>1. <<a, i>> \in T /\ <<a, i>>[2] = i
      OBVIOUS
    <2> QED BY <2>1
  <1> QED BY <1>1, <1>2, <1>3

(* A call that takes a step has not been ended, and no other has.          *)
LEMMA Alive ==
  ASSUME UploadInv, NEW i \in Images, Store(i)
  PROVE  ~Killed
  <1>1. pc[i] # "killed"
    BY DEF Store, EnterAlbum, EnterUpload, Enter, AlbumKnown, RequestAlbum, AlbumCreated, AlbumChildless,
       AlbumFails, MakeTemp, TempFails, AlbumMissing, PhotoCreated, PhotoRefused, SendTags,
       AnswerUnreadable, FinishUpload, Unlink
  <1> QED BY <1>1 DEF UploadInv, AllKilled

(* Two calls are never inside the blocks together, and None is not a call.  *)
LEMMA Alone ==
  ASSUME PTypeOK, ~Killed, NEW i \in Images, pc[i] \in InCritical
  PROVE  critical = i /\ \A j \in Images : j # i => pc[j] \notin InCritical
  BY DEF PTypeOK

(* The end of the program in one call is its end in all of them.           *)
LEMMA MissingKeeps ==
  ASSUME UploadInv, NEW i \in Images, AlbumMissing(i)
  PROVE  UploadInv'
  <1>1. \A j \in Images : pc'[j] = "killed"
    BY DEF AlbumMissing
  <1>2. Killed'
    BY <1>1 DEF Killed
  <1>3. current = None /\ i \in childless
    BY DEF AlbumMissing, UploadInv, AlbumFirst
  <1>4. pc' \in [Images -> Places] /\ UNCHANGED <<temp, critical, current, made, photos, result, history>>
    BY DEF AlbumMissing, Places
  <1>5. PTypeOK' /\ AllKilled'
    BY <1>1, <1>2, <1>4 DEF UploadInv, PTypeOK, AllKilled, Albums, history
  <1>6. AlbumFirst'
    BY <1>1, <1>3, <1>4 DEF AlbumFirst, history
  <1>7. AlbumOfAll' /\ PhotoAtPlace' /\ ResultTellsUpload'
    BY <1>2, <1>4 DEF UploadInv, AlbumOfAll, PhotoAtPlace, ResultTellsUpload, Uploaded, history
  <1> QED BY <1>5, <1>6, <1>7 DEF UploadInv

(* Every other step of a call ends none.                                   *)
LEMMA StillAlive ==
  ASSUME UploadInv, NEW i \in Images, Store(i), ~AlbumMissing(i)
  PROVE  ~Killed'
  <1>1. pc \in [Images -> Places] /\ \A j \in Images : pc[j] # "killed"
    BY Alive DEF UploadInv, PTypeOK, Killed
  <1>2. PICK place : place # "killed" /\ pc' = [pc EXCEPT ![i] = place]
    BY DEF Store, EnterAlbum, EnterUpload, Enter, AlbumKnown, RequestAlbum, AlbumCreated, AlbumChildless,
       AlbumFails, MakeTemp, TempFails, PhotoCreated, PhotoRefused, SendTags,
       AnswerUnreadable, FinishUpload, Unlink, Goto
  <1> QED BY <1>1, <1>2 DEF Killed

(* Every step of a call keeps the types and the exclusion of the blocks.    *)
LEMMA StoreKeepsType ==
  ASSUME UploadInv, NEW i \in Images, Store(i), ~AlbumMissing(i)
  PROVE  PTypeOK'
  <1> USE PicasaConstants, Alive
      DEF UploadInv, PTypeOK, Places, InCritical, HasFile, Albums, Goto, history
  <1>1. CASE EnterAlbum(i)
    BY <1>1 DEF EnterAlbum, Enter
  <1>2. CASE AlbumKnown(i)
    BY <1>2 DEF AlbumKnown
  <1>3. CASE RequestAlbum(i)
    BY <1>3 DEF RequestAlbum
  <1>4. CASE AlbumCreated(i)
    BY <1>4 DEF AlbumCreated
  <1>5. CASE AlbumFails(i)
    BY <1>5 DEF AlbumFails
  <1>6. CASE MakeTemp(i)
    BY <1>6 DEF MakeTemp
  <1>7. CASE TempFails(i)
    BY <1>7 DEF TempFails
  <1>8. CASE EnterUpload(i)
    BY <1>8 DEF EnterUpload, Enter
  <1>9. CASE PhotoCreated(i)
    BY <1>9 DEF PhotoCreated
  <1>10. CASE PhotoRefused(i)
    BY <1>10 DEF PhotoRefused
  <1>11. CASE SendTags(i) \/ AnswerUnreadable(i)
    BY <1>11 DEF SendTags, AnswerUnreadable
  <1>12. CASE FinishUpload(i)
    BY <1>12 DEF FinishUpload
  <1>13. CASE Unlink(i)
    BY <1>13 DEF Unlink
  <1>14. CASE AlbumChildless(i)
    BY <1>14 DEF AlbumChildless
  <1> QED
    BY <1>1, <1>2, <1>3, <1>4, <1>5, <1>6, <1>7, <1>8, <1>9, <1>10, <1>11, <1>12, <1>13, <1>14
       DEF Store

(* And what is known of the album.                                          *)
LEMMA StoreKeepsAlbum ==
  ASSUME UploadInv, NEW i \in Images, Store(i), ~AlbumMissing(i)
  PROVE  AlbumFirst' /\ AlbumOfAll'
  <1> USE PicasaConstants, Alive, StillAlive
      DEF UploadInv, PTypeOK, AlbumFirst, AlbumOfAll, Goto, history
  <1>1. CASE EnterAlbum(i) \/ EnterUpload(i)
    BY <1>1 DEF EnterAlbum, EnterUpload, Enter
  <1>2. CASE AlbumKnown(i) \/ RequestAlbum(i)
    BY <1>2 DEF AlbumKnown, RequestAlbum
  <1>3. CASE AlbumCreated(i)
    <2>1. current = None /\ photos = {} /\ \A a \in made \ childless : result[a] = 1
      BY <1>3 DEF AlbumCreated
    <2>2. \A j \in Images : j # i => pc[j] # "request"
      BY <1>3, Alone DEF AlbumCreated, InCritical
    <2> QED BY <1>3, <2>1, <2>2 DEF AlbumCreated
  <1>4. CASE AlbumFails(i)
    <2>1. result[i] = None
      BY <1>4 DEF AlbumFails, PhotoAtPlace
    <2> QED BY <1>4, <2>1 DEF AlbumFails
  <1>5. CASE MakeTemp(i) \/ Unlink(i)
    BY <1>5 DEF MakeTemp, Unlink
  <1>6. CASE TempFails(i)
    BY <1>6 DEF TempFails
  <1>7. CASE PhotoCreated(i)
    BY <1>7 DEF PhotoCreated
  <1>8. CASE PhotoRefused(i)
    BY <1>8 DEF PhotoRefused
  <1>9. CASE SendTags(i) \/ AnswerUnreadable(i)
    BY <1>9 DEF SendTags, AnswerUnreadable
  <1>10. CASE FinishUpload(i)
    <2>1. result[i] = None
      BY <1>10 DEF FinishUpload, PhotoAtPlace
    <2> QED BY <1>10, <2>1 DEF FinishUpload
  <1>11. CASE AlbumChildless(i)
    BY <1>11 DEF AlbumChildless
  <1> QED
    BY <1>1, <1>2, <1>3, <1>4, <1>5, <1>6, <1>7, <1>8, <1>9, <1>10, <1>11 DEF Store

(* And what a call knows of its photo.                                      *)
LEMMA StoreKeepsPhotos ==
  ASSUME UploadInv, NEW i \in Images, Store(i), ~AlbumMissing(i)
  PROVE  PhotoAtPlace' /\ ResultTellsUpload'
  <1> USE PicasaConstants, Alive, StillAlive
      DEF UploadInv, PTypeOK, PhotoAtPlace, ResultTellsUpload, Goto, history
  <1>1. ASSUME photos' = photos \cup {<<current, i>>} PROVE Uploaded' = Uploaded \cup {i}
    <2>1. Uploaded' = {p[2] : p \in photos \cup {<<current, i>>}}
      BY <1>1 DEF Uploaded
    <2>2. {p[2] : p \in photos \cup {<<current, i>>}} = {p[2] : p \in photos} \cup {i}
      BY SecondOfPairs
    <2> QED BY <2>1, <2>2 DEF Uploaded
  <1>2. UNCHANGED photos => Uploaded' = Uploaded
    BY DEF Uploaded
  <1>3. CASE PhotoCreated(i)
    <2>1. result[i] = None
      BY <1>3 DEF PhotoCreated
    <2>2. Uploaded' = Uploaded \cup {i}
      BY <1>1, <1>3 DEF PhotoCreated
    <2>3. CASE i \in Tagged
      BY <1>3, <2>1, <2>2, <2>3 DEF PhotoCreated
    <2>4. CASE i \notin Tagged
      BY <1>3, <2>1, <2>2, <2>4 DEF PhotoCreated
    <2> QED BY <2>3, <2>4
  <1>4. CASE PhotoRefused(i)
    <2>1. result[i] = None /\ i \notin Uploaded
      BY <1>4 DEF PhotoRefused
    <2>2. CASE UNCHANGED <<photos, unanswered>>
      BY <1>2, <1>4, <2>1, <2>2 DEF PhotoRefused
    <2>3. CASE photos' = photos \cup {<<current, i>>} /\ unanswered' = unanswered \cup {i}
      BY <1>1, <1>4, <2>1, <2>3 DEF PhotoRefused
    <2> QED BY <1>4, <2>2, <2>3 DEF PhotoRefused
  <1> USE <1>2
  <1>5. CASE EnterAlbum(i) \/ EnterUpload(i)
    BY <1>5 DEF EnterAlbum, EnterUpload, Enter
  <1>6. CASE AlbumKnown(i) \/ RequestAlbum(i)
    BY <1>6 DEF AlbumKnown, RequestAlbum
  <1>7. CASE AlbumCreated(i) \/ AlbumChildless(i)
    BY <1>7 DEF AlbumCreated, AlbumChildless
  <1>8. CASE AlbumFails(i) \/ TempFails(i)
    BY <1>8 DEF AlbumFails, TempFails
  <1>9. CASE MakeTemp(i) \/ Unlink(i)
    BY <1>9 DEF MakeTemp, Unlink
  <1>10. CASE SendTags(i) \/ AnswerUnreadable(i)
    BY <1>10 DEF SendTags, AnswerUnreadable
  <1>11. CASE FinishUpload(i)
    BY <1>11 DEF FinishUpload
  <1> QED
    BY <1>3, <1>4, <1>5, <1>6, <1>7, <1>8, <1>9, <1>10, <1>11 DEF Store

(* So does a step of the job, or of its surroundings.                       *)
LEMMA UploadStep == UploadInv /\ [PNext]_pvars => UploadInv'
  <1> SUFFICES ASSUME UploadInv, [PNext]_pvars PROVE UploadInv'
    OBVIOUS
  <1>1. ASSUME NEW i \in Images, Store(i) PROVE UploadInv'
    <2>1. CASE AlbumMissing(i)
      BY <2>1, MissingKeeps
    <2>2. CASE ~AlbumMissing(i)
      BY <1>1, <2>2, StillAlive, StoreKeepsType, StoreKeepsAlbum, StoreKeepsPhotos DEF UploadInv, AllKilled
    <2> QED BY <2>1, <2>2
  <1>2. CASE UNCHANGED pvars
    BY <1>2 DEF pvars, UploadInv, PTypeOK, AllKilled, Killed, AlbumFirst, AlbumOfAll, PhotoAtPlace,
       ResultTellsUpload, Uploaded
  <1> QED BY <1>1, <1>2 DEF PNext, JobOver

(* One album without a failed call means at most one element.               *)
LEMMA AlbumIsOne == UploadInv => OneAlbum
  <1> SUFFICES ASSUME UploadInv PROVE OneAlbum
    OBVIOUS
  <1> DEFINE kept == {a \in made \ childless : result[a] # 1}
  <1>1. Cardinality(kept) <= 1
    <2>1. kept \subseteq {current}
      BY DEF UploadInv, AlbumOfAll
    <2>2. IsFiniteSet({current}) /\ Cardinality({current}) = 1
      BY FS_Singleton
    <2> QED BY <2>1, <2>2, FS_Subset
  <1>2. \A p, q \in photos : p[1] = q[1]
    BY DEF UploadInv, AlbumOfAll
  <1> QED BY <1>1, <1>2 DEF OneAlbum, UploadInv, AlbumFirst

(* The invariant holds of every job.                                        *)
LEMMA UploadAlways == PSpec => []UploadInv
  BY UploadInit, UploadStep, PTL DEF PSpec

(* The curl handle carries one request at a time, and a call has its        *)
(* temporary file from mkstemp to its end, on every path (picasa.c:905,     *)
(* 968).                                                                    *)
THEOREM PicasaHandleExclusive == PSpec => []PTypeOK
  <1>1. UploadInv => PTypeOK
    BY DEF UploadInv
  <1> QED BY <1>1, UploadAlways, PTL

(* Whatever the servers answer and however the calls interleave, the photos *)
(* of a job are in one album; a call gets to its upload without an album,  *)
(* the NULL that picasa.c:240 dereferences, only after an answer of 201    *)
(* with an entry that has no children, its own (picasa.c:430).             *)
THEOREM PicasaOneAlbum == PSpec => []OneAlbum
  BY UploadAlways, AlbumIsOne, PTL

(* A result of 0 means that the photo is on the server; 1 that it is not,   *)
(* that the answer to it was lost, or that it had tags to be sent once it  *)
(* was there (picasa.c:255-281, 967-972).                                  *)
THEOREM PicasaResultTellsUpload == PSpec => []ResultTellsUpload
  <1>1. UploadInv => ResultTellsUpload
    BY DEF UploadInv
  <1> QED BY <1>1, UploadAlways, PTL

----------------------------------------------------------------------------
(* The uploads to Flickr, beside the other storages.                       *)

FP == INSTANCE FlickrStorageProofs WITH
        pc <- fpc, temp <- ftemp, critical <- fcritical, current <- fcurrent, newAlbum <- fnewAlbum,
        uploaded <- fuploaded, members <- fmembers, result <- fresult, team <- fteam, choice <- fchoice,
        refused <- frefused, unanswered <- funanswered

LEMMA FlickrRuns == MCSpec => F!FSpec
<1>1. MCInit => F!FInit
  BY DEF MCInit
<1>2. [MCNext]_MCvars => [F!FNext]_(F!fvars)
  BY DEF MCNext, MCvars, flickrVars, F!fvars
<1> QED
  BY <1>1, <1>2, PTL DEF MCSpec, MCvars, F!FSpec

(* FlickrStorageProofs is about the same storage.                          *)
LEMMA FlickrSameConstants == FP!FlickrConstants
<1>1. F!FlickrConstants
  BY StorageConstants
<1> QED
  BY <1>1 DEF F!FlickrConstants, FP!FlickrConstants, F!IsFiniteSet, FP!IsFiniteSet

LEMMA FlickrSameStore == ASSUME NEW i \in Images, F!Store(i) PROVE FP!Store(i)
<1>1. F!Active = FP!Active
  BY DEF F!Active, FP!Active
<1>2. F!Call(i) => FP!Call(i)
  <2>1. F!Cardinality(F!Active) = FP!Cardinality(F!Active)
    BY DEF F!Cardinality, FP!Cardinality
  <2> QED
    BY <1>1, <2>1 DEF F!Call, FP!Call, F!Goto, FP!Goto
<1>3. F!MakeTemp(i) => FP!MakeTemp(i)
  BY DEF F!MakeTemp, FP!MakeTemp, F!Goto, FP!Goto
<1>4. F!TempFails(i) => FP!TempFails(i)
  BY DEF F!TempFails, FP!TempFails, F!Goto, FP!Goto
<1>5. F!EnterCritical(i) => FP!EnterCritical(i)
  BY DEF F!EnterCritical, FP!EnterCritical, F!Goto, FP!Goto
<1>6. F!UploadPhoto(i) => FP!UploadPhoto(i)
  BY DEF F!UploadPhoto, FP!UploadPhoto, F!Goto, FP!Goto
<1>7. F!UploadFails(i) => FP!UploadFails(i)
  BY DEF F!UploadFails, FP!UploadFails, F!Goto, FP!Goto
<1>8. F!ChooseAlbum(i) => FP!ChooseAlbum(i)
  BY DEF F!ChooseAlbum, FP!ChooseAlbum, F!Goto, FP!Goto
<1>9. F!CreateAlbum(i) => FP!CreateAlbum(i)
  BY DEF F!CreateAlbum, FP!CreateAlbum, F!Goto, FP!Goto
<1>10. F!CreateFails(i) => FP!CreateFails(i)
  BY DEF F!CreateFails, FP!CreateFails, F!Goto, FP!Goto
<1>11. F!GetAlbumInfo(i) => FP!GetAlbumInfo(i)
  BY DEF F!GetAlbumInfo, FP!GetAlbumInfo, F!Goto, FP!Goto
<1>12. F!AlbumNeeded(i) => FP!AlbumNeeded(i)
  BY DEF F!AlbumNeeded, FP!AlbumNeeded, F!Goto, FP!Goto
<1>13. F!AddToAlbum(i) => FP!AddToAlbum(i)
  BY DEF F!AddToAlbum, FP!AddToAlbum, F!Goto, FP!Goto
<1>14. F!AlbumLost(i) => FP!AlbumLost(i)
  BY DEF F!AlbumLost, FP!AlbumLost, F!Goto, FP!Goto
<1>15. F!SkipAdding(i) => FP!SkipAdding(i)
  BY DEF F!SkipAdding, FP!SkipAdding, F!Goto, FP!Goto
<1>16. F!Cleanup(i) => FP!Cleanup(i)
  BY DEF F!Cleanup, FP!Cleanup, F!Goto, FP!Goto
<1> QED
  BY <1>2, <1>3, <1>4, <1>5, <1>6, <1>7, <1>8, <1>9, <1>10, <1>11, <1>12, <1>13, <1>14, <1>15, <1>16 DEF F!Store, FP!Store

LEMMA FlickrSame == F!FSpec => FP!FSpec
<1>1. F!FInit => FP!FInit
  BY DEF F!FInit, FP!FInit
<1>2. F!JobOver => FP!JobOver
  BY DEF F!JobOver, FP!JobOver, F!Done, FP!Done, F!Killed, FP!Killed, F!fvars, FP!fvars
<1>3. [F!FNext]_(F!fvars) => [FP!FNext]_(FP!fvars)
  BY <1>2, FlickrSameStore DEF F!FNext, FP!FNext, F!fvars, FP!fvars
<1> QED
  BY <1>1, <1>3, PTL DEF F!FSpec, FP!FSpec

(***************************************************************************)
(* A photo whose store returned 0 is in no album, and on the server only if *)
(* the answer to its upload was lost, however the calls interleave and     *)
(* whatever the server does.                                               *)
(***************************************************************************)
THEOREM FlickrZeroLeaves == MCSpec => []ZeroLeavesNothing
<1>1. FP!FSpec => []FP!ZeroLeavesNothing
  BY FlickrSameConstants, FP!FlickrZeroLeavesNothing
<1>2. FP!ZeroLeavesNothing => ZeroLeavesNothing
  BY DEF FP!ZeroLeavesNothing, F!ZeroLeavesNothing, ZeroLeavesNothing
<1> QED
  BY <1>1, <1>2, FlickrRuns, FlickrSame, PTL

(***************************************************************************)
(* Photos get only into the album that was chosen or into a new one that   *)
(* was asked for, and one thread brings all of them into one album.        *)
(***************************************************************************)
THEOREM FlickrAsChosen == MCSpec => []AlbumsAsChosen
<1>1. FP!FSpec => [](FP!AlbumsAsChosen /\ FP!PhotosTogetherSerially)
  <2>1. FP!FSpec => []FP!AlbumsAsChosen
    BY FlickrSameConstants, FP!FlickrAlbumsAsChosen
  <2>2. FP!FSpec => []FP!PhotosTogetherSerially
    BY FlickrSameConstants, FP!FlickrPhotosTogetherSerially
  <2> QED
    BY <2>1, <2>2, PTL
<1>2. FP!AlbumsAsChosen => F!AlbumsAsChosen
  BY DEF FP!AlbumsAsChosen, F!AlbumsAsChosen, FP!Created, F!Created, FP!Killed, F!Killed
<1>3. FP!PhotosTogetherSerially => F!PhotosTogetherSerially
  BY DEF FP!PhotosTogetherSerially, F!PhotosTogetherSerially, FP!PhotosTogether, F!PhotosTogether,
         FP!Done, F!Done, FP!Albums, F!Albums
<1>4. FP!AlbumsAsChosen /\ FP!PhotosTogetherSerially => AlbumsAsChosen
  BY <1>2, <1>3 DEF AlbumsAsChosen
<1> QED
  BY <1>1, <1>4, FlickrRuns, FlickrSame, PTL

----------------------------------------------------------------------------
(* The gallery, beside the other storages.                                 *)

GP == INSTANCE GalleryProofs WITH
        Total <- 3, FileName <- <<"a", "b", "b">>, Directory <- <<"d", "d", "e">>,
        pattern <- gpattern, cached <- gcached, list <- glist, owner <- gowner, pc <- gpc, num <- gnum,
        size <- gsize, pictures <- gpictures, pages <- gpages, result <- gresult, index <- gindex,
        crashed <- gcrashed

LEMMA GalleryRuns == MCSpec => G!GSpec
<1>1. MCInit => G!GInit
  BY DEF MCInit
<1>2. [MCNext]_MCvars => [G!GNext]_(G!gvars)
  BY DEF MCNext, MCvars, galleryVars, G!gvars
<1> QED
  BY <1>1, <1>2, PTL DEF MCSpec, MCvars, G!GSpec

(* GalleryProofs is about the same storage.                                *)
LEMMA GallerySameConstants == GP!GalleryConstants
<1>1. G!GalleryConstants
  BY StorageConstants
<1> QED
  BY <1>1, Zenon DEF G!GalleryConstants, GP!GalleryConstants, G!Numbers, GP!Numbers, G!Pattern, GP!Pattern,
     G!Directories, GP!Directories, G!IndexPage, GP!IndexPage

LEMMA GallerySameNames ==
  /\ G!Numbers = GP!Numbers
  /\ \A p : G!Completed(p) = GP!Completed(p)
  /\ \A p, i : G!DirOf(p, i) = GP!DirOf(p, i)
  /\ \A p, i, thumb : G!Picture(p, i, thumb) = GP!Picture(p, i, thumb)
  /\ \A l, i : G!InsertSorted(l, i) = GP!InsertSorted(l, i)
<1>1. G!Numbers = GP!Numbers
  BY DEF G!Numbers, GP!Numbers
<1>2. \A p : G!Completed(p) = GP!Completed(p)
  BY Zenon DEF G!Completed, GP!Completed
<1>3. \A p, i : G!DirOf(p, i) = GP!DirOf(p, i)
  BY Zenon DEF G!DirOf, GP!DirOf
<1>4. \A p, i, thumb : G!Picture(p, i, thumb) = GP!Picture(p, i, thumb)
  BY <1>3, Zenon DEF G!Picture, GP!Picture
<1>5. \A l, k, i : G!InsertAt(l, k, i) = GP!InsertAt(l, k, i)
  BY Zenon DEF G!InsertAt, GP!InsertAt
<1>6. \A l, i : G!InsertSorted(l, i) = GP!InsertSorted(l, i)
  BY <1>5, Zenon DEF G!InsertSorted, GP!InsertSorted
<1> QED
  BY <1>1, <1>2, <1>3, <1>4, <1>6

LEMMA GallerySameStore == ASSUME NEW t \in Threads, G!Store(t) PROVE GP!Store(t)
<1>1. \A thumb : G!Export(t, thumb) => GP!Export(t, thumb)
  BY GallerySameNames, Zenon DEF G!Export, GP!Export, G!Put, GP!Put
<1>2. G!Lock(t) => GP!Lock(t)
  BY DEF G!Lock, GP!Lock, G!At, GP!At, G!Goto, GP!Goto
<1>3. G!MkdirFails(t) => GP!MkdirFails(t)
  BY GallerySameNames DEF G!MkdirFails, GP!MkdirFails, G!At, GP!At, G!Return, GP!Return, G!Goto, GP!Goto
<1>4. G!WritePage(t) => GP!WritePage(t)
  BY GallerySameNames DEF G!WritePage, GP!WritePage, G!At, GP!At, G!Goto, GP!Goto
<1>5. G!PageNotOpened(t) => GP!PageNotOpened(t)
  BY GallerySameNames DEF G!PageNotOpened, GP!PageNotOpened, G!At, GP!At
<1>6. G!ExportPicture(t) => GP!ExportPicture(t)
  BY <1>1 DEF G!ExportPicture, GP!ExportPicture, G!At, GP!At, G!Goto, GP!Goto
<1>7. G!Shrink(t) => GP!Shrink(t)
  BY DEF G!Shrink, GP!Shrink, G!At, GP!At, G!Goto, GP!Goto
<1>8. G!ExportThumb(t) => GP!ExportThumb(t)
  BY <1>1 DEF G!ExportThumb, GP!ExportThumb, G!At, GP!At, G!Goto, GP!Goto
<1>9. G!Restore(t) => GP!Restore(t)
  BY DEF G!Restore, GP!Restore, G!At, GP!At, G!Return, GP!Return, G!Goto, GP!Goto
<1> QED
  BY <1>2, <1>3, <1>4, <1>5, <1>6, <1>7, <1>8, <1>9 DEF G!Store, GP!Store

LEMMA GallerySame == G!GSpec => GP!GSpec
<1>1. G!GInit => GP!GInit
  BY GallerySameNames DEF G!GInit, GP!GInit
<1>2. G!FinalizeStore => GP!FinalizeStore
  BY GallerySameNames DEF G!FinalizeStore, GP!FinalizeStore
<1>3. ASSUME NEW t \in Threads, G!Call(t) PROVE GP!Call(t)
  BY <1>3, GallerySameNames DEF G!Call, GP!Call, G!At, GP!At, G!Goto, GP!Goto
<1>4. [G!GNext]_(G!gvars) => [GP!GNext]_(GP!gvars)
  BY <1>2, <1>3, GallerySameStore DEF G!GNext, GP!GNext, G!gvars, GP!gvars, G!JobOver, GP!JobOver
<1> QED
  BY <1>1, <1>4, PTL DEF G!GSpec, GP!GSpec

LEMMA GalleryCorrectBeside ==
  MCSpec => [](G!GTypeOK /\ G!IndexInOrder /\ G!SizesKeptApart /\ G!PagesFormRing)
<1>1. GP!GSpec => [](GP!GTypeOK /\ GP!IndexInOrder /\ GP!SizesKeptApart /\ GP!PagesFormRing)
  BY GallerySameConstants, GP!GalleryCorrect
<1>2. GP!GTypeOK => G!GTypeOK
  BY GallerySameNames DEF GP!GTypeOK, G!GTypeOK, GP!Pattern, G!Pattern
<1>3. GP!IndexInOrder => G!IndexInOrder
  <2>1. \A s : GP!ToSet(s) = G!ToSet(s)
    BY Zenon DEF GP!ToSet, G!ToSet
  <2> QED
    BY <2>1, GallerySameNames DEF GP!IndexInOrder, G!IndexInOrder
<1>4. GP!SizesKeptApart => G!SizesKeptApart
  BY DEF GP!SizesKeptApart, G!SizesKeptApart
<1>5. GP!PagesFormRing => G!PagesFormRing
  BY GallerySameNames, Zenon DEF GP!PagesFormRing, G!PagesFormRing, GP!NextPage, G!NextPage, GP!PrevPage, G!PrevPage
<1> QED
  BY <1>1, <1>2, <1>3, <1>4, <1>5, GalleryRuns, GallerySame, PTL

(* The gallery of the instance keeps the promise of that of the proofs.    *)
LEMMA GallerySamePromise == GP!GalleryPresented => G!GalleryPresented
<1>1. GP!Answers = G!Answers
  BY GallerySameNames, Zenon DEF GP!Answers, G!Answers
<1>2. \A S : GP!Promise!Cardinality(S) = G!Promise!Cardinality(S)
  BY Zenon DEF GP!Promise!Cardinality, G!Promise!Cardinality, GP!Promise!IsFiniteSet, G!Promise!IsFiniteSet
<1>3. \A i : GP!Promise!Answer(i) => G!Promise!Answer(i)
  BY <1>1, Zenon DEF GP!Promise!Answer, G!Promise!Answer, GP!Answers, G!Answers, GP!TheJob, G!TheJob
<1>4. \A j : GP!Promise!Taken(j) = G!Promise!Taken(j)
  BY <1>1, GallerySameNames, Zenon DEF GP!Promise!Taken, G!Promise!Taken, GP!TheJob, G!TheJob
<1>5. \A S : GP!Promise!Lists(S) = G!Promise!Lists(S)
  BY <1>2, Zenon DEF GP!Promise!Lists, G!Promise!Lists, GP!Earlier, G!Earlier
<1>6. \A j : GP!Promise!Present(j) => G!Promise!Present(j)
  BY <1>1, <1>2, <1>4, <1>5, GallerySameNames, Zenon
     DEF GP!Promise!Present, G!Promise!Present, GP!Answers, G!Answers, GP!TheJob, G!TheJob
<1>7. [GP!Promise!JobsNext]_(GP!Promise!jobvars) => [G!Promise!JobsNext]_(G!Promise!jobvars)
  BY <1>1, <1>3, <1>6, GallerySameNames, Zenon
     DEF GP!Promise!JobsNext, G!Promise!JobsNext, GP!Promise!jobvars, G!Promise!jobvars, GP!Answers, G!Answers
<1>8. GP!Promise!JobsInit => G!Promise!JobsInit
  BY <1>1, GallerySameNames, Zenon DEF GP!Promise!JobsInit, G!Promise!JobsInit
<1> QED
  BY <1>7, <1>8, PTL DEF GP!GalleryPresented, G!GalleryPresented, GP!Promise!JobsSpec, G!Promise!JobsSpec

LEMMA GalleryPresentsBeside == MCSpec => G!GalleryPresented
<1>1. GP!GSpec => GP!GalleryPresented
  BY GallerySameConstants, GP!GalleryPresents
<1> QED
  BY <1>1, GalleryRuns, GallerySame, GallerySamePromise, PTL

(***************************************************************************)
(* No picture of the gallery is exported in the size of a thumbnail, and   *)
(* no thumbnail in full size.                                              *)
(***************************************************************************)
THEOREM GallerySizes == MCSpec => []SizesKeptApart
BY GalleryCorrectBeside, PTL DEF SizesKeptApart

(***************************************************************************)
(* The links of the pages lead from page to page that exists, in a ring.   *)
(***************************************************************************)
THEOREM GalleryRing == MCSpec => []PagesFormRing
BY GalleryCorrectBeside, PTL DEF PagesFormRing

----------------------------------------------------------------------------
(* E-mail, beside the other storages.                                      *)

EP == INSTANCE EmailProofs WITH
        Images <- {a1, a2, b1, a3}, JobOf <- SecondJob, Base <- BaseName,
        pc <- epc, critical <- ecritical, files <- efiles, unwritten <- eunwritten, images <- eimages,
        tail <- etail, job <- ejob,
        attached <- eattached, launched <- elaunched, mails <- email, received <- ereceived

LEMMA EmailRuns == MCSpec => E!ESpec
<1>1. MCInit => E!EInit
  BY DEF MCInit
<1>2. [MCNext]_MCvars => [E!ENext]_(E!evars)
  BY DEF MCNext, MCvars, emailVars, E!evars
<1> QED
  BY <1>1, <1>2, PTL DEF MCSpec, MCvars, E!ESpec

(* EmailProofs is about the same storage.                                  *)
LEMMA EmailSameNames ==
  /\ E!Jobs = EP!Jobs /\ E!Files = EP!Files
  /\ \A j : E!InJob(j) = EP!InJob(j)
  /\ \A S : E!Cardinality(S) = EP!Cardinality(S)
  /\ \A S : E!IsFiniteSet(S) = EP!IsFiniteSet(S)
  /\ \A s : E!Range(s) = EP!Range(s)
  /\ \A s : E!IsInjective(s) = EP!IsInjective(s)
<1>1. E!Jobs = EP!Jobs
  BY Zenon DEF E!Jobs, EP!Jobs
<1>2. E!Files = EP!Files
  BY Zenon DEF E!Files, EP!Files
<1>3. \A j : E!InJob(j) = EP!InJob(j)
  BY Zenon DEF E!InJob, EP!InJob
<1>4. \A S : E!Cardinality(S) = EP!Cardinality(S)
  BY Zenon DEF E!Cardinality, EP!Cardinality, E!IsFiniteSet, EP!IsFiniteSet
<1>5. \A S : E!IsFiniteSet(S) = EP!IsFiniteSet(S)
  BY Zenon DEF E!IsFiniteSet, EP!IsFiniteSet
<1>6. \A s : E!Range(s) = EP!Range(s)
  BY Zenon DEF E!Range, EP!Range
<1>7. \A s : E!IsInjective(s) = EP!IsInjective(s)
  BY Zenon DEF E!IsInjective, EP!IsInjective
<1> QED
  BY <1>1, <1>2, <1>3, <1>4, <1>5, <1>6, <1>7, Zenon

LEMMA EmailSameReturned == \A j : E!Returned(j) = EP!Returned(j)
BY EmailSameNames, Zenon DEF E!Returned, EP!Returned

LEMMA EmailSameConstants == EP!EmailConstants
<1>1. E!EmailConstants
  BY StorageConstants
<1> QED
  BY <1>1, EmailSameNames, Zenon DEF E!EmailConstants, EP!EmailConstants

LEMMA EmailSame == E!ESpec => EP!ESpec
<1>1. E!EInit => EP!EInit
  BY EmailSameNames, Zenon DEF E!EInit, EP!EInit
<1>2. \A i : E!Export(i) => EP!Export(i)
  BY Zenon DEF E!Export, EP!Export, E!Goto, EP!Goto
<1>3. \A i : E!EnterCritical(i) => EP!EnterCritical(i)
  BY Zenon DEF E!EnterCritical, EP!EnterCritical, E!Goto, EP!Goto
<1>4. \A i : E!Link(i) => EP!Link(i)
  BY Zenon DEF E!Link, EP!Link, E!Goto, EP!Goto
<1>5. \A i : E!ClientReads(i) => EP!ClientReads(i)
  BY EmailSameNames, Zenon DEF E!ClientReads, EP!ClientReads
<1>6. E!Attach => EP!Attach
  BY EmailSameReturned, Zenon DEF E!Attach, EP!Attach
<1>7. E!Emptied => EP!Emptied
  BY EmailSameReturned, Zenon DEF E!Emptied, EP!Emptied
<1>8. E!Launch => EP!Launch
  BY <1>7, EmailSameNames, Zenon DEF E!Launch, EP!Launch
<1>9. E!LaunchFails => EP!LaunchFails
  BY <1>7, Zenon DEF E!LaunchFails, EP!LaunchFails
<1>10. E!AllOver => EP!AllOver
  BY EmailSameNames, Zenon DEF E!AllOver, EP!AllOver, E!evars, EP!evars
<1>11. [E!ENext]_(E!evars) => [EP!ENext]_(EP!evars)
  BY <1>2, <1>3, <1>4, <1>5, <1>6, <1>8, <1>9, <1>10, Zenon
     DEF E!ENext, EP!ENext, E!Store, EP!Store, E!FinalizeStore, EP!FinalizeStore, E!evars, EP!evars
<1> QED
  BY <1>1, <1>11, PTL DEF E!ESpec, EP!ESpec

LEMMA EmailCorrectBeside ==
  MCSpec => [](E!ETypeOK /\ E!EveryExportListed /\ E!MailComplete /\ E!NothingStaleMailed)
<1>1. EP!ESpec => [](EP!ETypeOK /\ EP!EveryExportListed /\ EP!MailComplete /\ EP!NothingStaleMailed)
  BY EmailSameConstants, EP!EmailCorrect
<1>2. EP!ETypeOK => E!ETypeOK
  BY EmailSameNames, Zenon DEF EP!ETypeOK, E!ETypeOK
<1>3. EP!EveryExportListed => E!EveryExportListed
  BY EmailSameNames, Zenon DEF EP!EveryExportListed, E!EveryExportListed
<1>4. EP!MailComplete => E!MailComplete
  BY EmailSameNames, Zenon DEF EP!MailComplete, E!MailComplete
<1>5. EP!NothingStaleMailed => E!NothingStaleMailed
  BY Zenon DEF EP!NothingStaleMailed, E!NothingStaleMailed
<1> QED
  BY <1>1, <1>2, <1>3, <1>4, <1>5, EmailRuns, EmailSame, PTL

(***************************************************************************)
(* E-mail loses no attachment and mails none twice, unless there are more  *)
(* than the command line takes; what the client reads is not older than    *)
(* its job, unless the export failed.                                      *)
(***************************************************************************)
THEOREM EmailAsExported == MCSpec => []MailAsExported
BY EmailCorrectBeside, PTL DEF MailAsExported

(* E-mail of the instance keeps the promise of that of the proofs.         *)
LEMMA EmailSamePromise == EP!MailsPresented => E!MailsPresented
<1>1. EP!Answers = E!Answers
  BY Zenon DEF EP!Answers, E!Answers
<1>2. \A S : EP!Promise!Cardinality(S) = E!Promise!Cardinality(S)
  BY Zenon DEF EP!Promise!Cardinality, E!Promise!Cardinality, EP!Promise!IsFiniteSet, E!Promise!IsFiniteSet
<1>3. \A i : EP!Promise!Answer(i) => E!Promise!Answer(i)
  BY <1>1, EmailSameNames, Zenon DEF EP!Promise!Answer, E!Promise!Answer, EP!Answers, E!Answers, EP!Jobs, E!Jobs
<1>4. \A j : EP!Promise!Taken(j) = E!Promise!Taken(j)
  BY <1>1, Zenon DEF EP!Promise!Taken, E!Promise!Taken
<1>5. \A S : EP!Promise!Lists(S) = E!Promise!Lists(S)
  BY <1>2, Zenon DEF EP!Promise!Lists, E!Promise!Lists, EP!Other, E!Other
<1>6. \A j : EP!Promise!Present(j) => E!Promise!Present(j)
  BY <1>1, <1>2, <1>4, <1>5, EmailSameNames, Zenon
     DEF EP!Promise!Present, E!Promise!Present, EP!Answers, E!Answers, EP!Jobs, E!Jobs
<1>7. [EP!Promise!JobsNext]_(EP!Promise!jobvars) => [E!Promise!JobsNext]_(E!Promise!jobvars)
  BY <1>1, <1>3, <1>6, EmailSameNames, Zenon
     DEF EP!Promise!JobsNext, E!Promise!JobsNext, EP!Promise!jobvars, E!Promise!jobvars, EP!Answers, E!Answers,
         EP!Jobs, E!Jobs
<1>8. EP!Promise!JobsInit => E!Promise!JobsInit
  BY <1>1, EmailSameNames, Zenon DEF EP!Promise!JobsInit, E!Promise!JobsInit
<1> QED
  BY <1>7, <1>8, PTL DEF EP!MailsPresented, E!MailsPresented, EP!Promise!JobsSpec, E!Promise!JobsSpec

LEMMA EmailPresentsBeside == MCSpec => E!MailsPresented
<1>1. EP!ESpec => EP!MailsPresented
  BY EmailSameConstants, EP!EmailPresents
<1> QED
  BY <1>1, EmailRuns, EmailSame, EmailSamePromise, PTL

(***************************************************************************)
(* Gallery and e-mail implement StorageJobs: however their calls interleave*)
(* and whichever fail, the index and the mails present what store took,    *)
(* once, after the last call of the job.                                   *)
(***************************************************************************)
THEOREM StoragesPresentJobs == MCSpec => JobsPresented
BY GalleryPresentsBeside, EmailPresentsBeside, PTL DEF JobsPresented

----------------------------------------------------------------------------
(* Types, of all of them.                                                  *)

LEMMA FlickrTyped == MCSpec => []F!FTypeOK
<1>1. FP!FSpec => []FP!FTypeOK
  BY FlickrSameConstants, FP!FlickrTypeCorrect
<1>2. FP!FTypeOK => F!FTypeOK
  BY DEF FP!FTypeOK, F!FTypeOK, FP!Places, F!Places, FP!Albums, F!Albums, FP!Killed, F!Killed
<1> QED
  BY <1>1, <1>2, FlickrRuns, FlickrSame, PTL

LEMMA PicasaTyped == MCSpec => []PTypeOK
<1>1. MCInit => PInit
  BY DEF MCInit
<1>2. [MCNext]_MCvars => [PNext]_pvars
  BY DEF MCNext, MCvars
<1> QED
  BY <1>1, <1>2, PicasaHandleExclusive, PTL DEF MCSpec, MCvars, PSpec

DialogTyped == IF which = "picasa dialog" THEN PicasaTypedInv ELSE FlickrTypedInv

LEMMA DialogsTyped == MCSpec => []DialogTyped
<1>1. MCInit => DialogTyped
  BY FlickrTypedInit, PicasaTypedInit DEF MCInit, DialogTyped
<1>2. DialogTyped /\ [MCNext]_MCvars => DialogTyped'
  BY DialogStep, FlickrTypedStep, PicasaTypedStep DEF DialogTyped
<1> QED
  BY <1>1, <1>2, PTL DEF MCSpec, MCvars

(***************************************************************************)
(* What the storages and the dialogs have is of its type.  With that, no   *)
(* failure of the gallery leaves its mutex locked, and the calls of Picasa *)
(* and of Flickr that share a curl handle or a context exclude each other. *)
(***************************************************************************)
THEOREM StoragesAlwaysTyped == MCSpec => []StoragesTyped
<1>1. DialogTyped => IF which = "picasa dialog" THEN PicasaTypeOK ELSE FlickrTypeOK
  BY DEF DialogTyped, PicasaTypedInv, FlickrTypedInv
<1> QED
  BY <1>1, GalleryCorrectBeside, FlickrTyped, PicasaTyped, EmailCorrectBeside, DialogsTyped, PTL DEF StoragesTyped
=============================================================================

---------------------------- MODULE AlbumDialog ----------------------------
(***************************************************************************)
(* What the dialogs of the two web albums have in common (flickr.c and     *)
(* picasa.c of imageio/storage): the widgets that get_params reads, the    *)
(* api contexts that log-ins make, and the jobs that contexts are given    *)
(* to.  The callbacks run in the thread of the dialog and get_params reads *)
(* its widgets, so that each of them is one step.                          *)
(***************************************************************************)
EXTENDS Sequences, Integers, FiniteSets

CONSTANTS
  Users, MaxAlbums,      \* bound of the albums of an account
  Contexts, NoContext,   \* bound of the log-ins of a run
  NewAlbum, NoAlbum, NoUser

\* The albums of an account, in the order in which its list can have them.
AlbumsOf(user) == {[owner |-> user, number |-> n] : n \in 1..MaxAlbums}
Lists(user) == {[n \in 1..k |-> [owner |-> user, number |-> n]] : k \in 0..MaxAlbums}
AccountAlbums == UNION {AlbumsOf(user) : user \in Users}

ASSUME DialogConstants ==
  /\ NoContext \notin Contexts /\ NoUser \notin Users
  /\ MaxAlbums \in Nat
  /\ NewAlbum # NoAlbum /\ NewAlbum \notin AccountAlbums

VARIABLES
  entry,        \* the user name in the dialog
  ui,           \* the context of the dialog
  account,      \* the user a context is logged in as
  needs,        \* contexts with needsReauthentication
  albums,       \* the list of albums: of the dialog, or of each context
  currentAlbum, \* current_album of a context
  items,        \* what the combo box shows of it
  active,       \* index of its active item, -1 without
  sensitive,    \* the user may change it
  jobs,         \* contexts that belong to export jobs
  freed,        \* contexts that were freed
  choice        \* history: what the dialog showed when it gave a context away

dialogVars == <<entry, ui, account, needs, albums, currentAlbum, items, active, sensitive, jobs, freed, choice>>

Unused == Contexts \ (jobs \cup freed \cup {ui})

\* The dialog as gui_init leaves it, but for the combo box.
DialogInit ==
  /\ entry \in Users /\ ui = NoContext /\ needs = {}
  /\ account = [c \in Contexts |-> NoUser]
  /\ currentAlbum = [c \in Contexts |-> NoAlbum]
  /\ active = -1 /\ sensitive = FALSE /\ jobs = {} /\ freed = {}
  /\ choice = [c \in Contexts |-> [album |-> NoAlbum, user |-> NoUser]]

DialogTypeOK ==
  /\ entry \in Users /\ ui \in Contexts \cup {NoContext}
  /\ account \in [Contexts -> Users \cup {NoUser}]
  /\ currentAlbum \in [Contexts -> AccountAlbums \cup {NewAlbum, NoAlbum}]
  /\ sensitive \in BOOLEAN
  /\ needs \subseteq Contexts /\ jobs \subseteq Contexts /\ freed \subseteq Contexts

(* Contexts pass from the dialog to jobs as ContextOwnership says: one is  *)
(* never freed twice, never used after that, and never has two owners      *)
(* (get_params, refresh_albums and free_params of both storages).          *)
Ownership == INSTANCE ContextOwnership
ContextsOwned == Ownership!OwnershipSpec
=============================================================================

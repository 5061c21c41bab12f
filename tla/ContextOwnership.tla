-------------------------- MODULE ContextOwnership --------------------------
(***************************************************************************)
(* What the dialogs of the web albums promise about api contexts, whatever *)
(* the service: a context belongs to the dialog or to one export job and   *)
(* passes from the one to the other once; it is freed by the one it        *)
(* belongs to, and nobody has a context that was freed.                    *)
(***************************************************************************)
EXTENDS Integers

CONSTANTS Contexts, NoContext

VARIABLES
  ui,       \* the context of the dialog
  jobs,     \* the contexts of jobs
  freed     \* the contexts that were freed

ownershipvars == <<ui, jobs, freed>>

Unused == Contexts \ (jobs \cup freed \cup {ui})

OwnershipInit == ui = NoContext /\ jobs = {} /\ freed = {}

\* Log in, after the context there was, if any, has been freed.
LogIn ==
  /\ ui' \in Unused \cup {NoContext}
  /\ freed' = freed \cup ({ui} \ {NoContext})
  /\ UNCHANGED jobs

\* A job takes the context; the dialog logs in again, or has none.
HandOver ==
  /\ ui # NoContext
  /\ jobs' = jobs \cup {ui}
  /\ ui' \in Unused \cup {NoContext}
  /\ UNCHANGED freed

\* A job ends.
Release ==
  \E c \in jobs : jobs' = jobs \ {c} /\ freed' = freed \cup {c} /\ UNCHANGED ui

OwnershipNext == LogIn \/ HandOver \/ Release
OwnershipSpec == OwnershipInit /\ [][OwnershipNext]_ownershipvars
----------------------------------------------------------------------------
OwnershipTypeOK ==
  /\ ui \in Contexts \cup {NoContext}
  /\ jobs \subseteq Contexts
  /\ freed \subseteq Contexts

\* No context has two owners, and none is used after it was freed.
OneOwner == ui \notin jobs \cup freed /\ jobs \cap freed = {}
=============================================================================

---------------------------- MODULE EmailStorage ----------------------------
(***************************************************************************)
(* Export jobs to the mail client (imageio/storage/email.c).  The calls of *)
(* store of a job run in parallel, export to a file of the image's base    *)
(* name and append it to the list d->images; finalize_store empties the    *)
(* list into one command line and starts the client in the background,     *)
(* which reads the files when it comes to it.  Jobs run one after the      *)
(* other and share the directory of temporary files, which nobody cleans.  *)
(***************************************************************************)
EXTENDS Sequences, Integers, FiniteSets, Functions

CONSTANTS
  Images,           \* the images of all jobs
  JobOf(_),         \* the number of the job of an image, from 1
  Base(_),          \* the base name of the exported file
  AttachmentRoom,   \* bound: attachments that the buffers of 4096 bytes hold
  NoImage

Jobs == {JobOf(i) : i \in Images}
Files == {Base(i) : i \in Images}
InJob(j) == {i \in Images : JobOf(i) = j}

\* What the constants are assumed to be, where this module is instantiated.
EmailConstants ==
  /\ IsFiniteSet(Images) /\ NoImage \notin Images
  /\ Jobs = 1..Cardinality(Jobs)
  /\ AttachmentRoom \in Nat \ {0}

VARIABLES
  pc,          \* where the call of store for an image is
  critical,    \* the call inside the critical block
  files,       \* the image whose pixels a temporary file has
  unwritten,   \* the images whose export failed, which store does not look at
  images,      \* d->images of the running job
  tail,        \* what the call in the critical block takes for the list
  job,         \* the running job
  attached,    \* the attachments of its command line so far
  launched,    \* jobs whose command line system() ran
  mails,       \* the attachments the client was started with, by job
  received     \* what the client read: pairs of image and pixels

evars == <<pc, critical, files, unwritten, images, tail, job, attached, launched, mails, received>>

Goto(i, place) == pc' = [pc EXCEPT ![i] = place]
Returned(j) == j \in Jobs /\ \A i \in InJob(j) : pc[i] = "done"

----------------------------------------------------------------------------
EInit ==
  /\ pc = [i \in Images |-> "start"]
  /\ critical = NoImage
  /\ files = [f \in Files |-> NoImage] /\ unwritten = {}
  /\ images = << >> /\ tail = << >>
  /\ job = 1
  /\ attached = << >>
  /\ launched = {}
  /\ mails = [j \in Jobs |-> << >>]
  /\ received = {}

\* dt_imageio_export to tmp/<base name>, whatever file is there; its result is
\* not looked at.
Export(i) ==
  /\ JobOf(i) = job /\ pc[i] = "start" /\ Goto(i, "append")
  /\ \/ files' = [files EXCEPT ![Base(i)] = i] /\ UNCHANGED unwritten
     \/ unwritten' = unwritten \cup {i} /\ UNCHANGED files
  /\ UNCHANGED <<critical, images, tail, job, attached, launched, mails, received>>

\* g_list_append walks to the end of the list ...
EnterCritical(i) ==
  /\ pc[i] = "append" /\ critical = NoImage /\ Goto(i, "link")
  /\ critical' = i /\ tail' = images
  /\ UNCHANGED <<files, unwritten, images, job, attached, launched, mails, received>>

\* bug: the new element replaces the list.
LinkAlone(i) ==
  /\ pc[i] = "link" /\ Goto(i, "done")
  /\ images' = <<i>>
  /\ critical' = NoImage /\ tail' = << >>
  /\ UNCHANGED <<files, unwritten, job, attached, launched, mails, received>>

\* ... and links the new element to what it found there.
Link(i) ==
  /\ pc[i] = "link" /\ Goto(i, "done")
  /\ images' = Append(tail, i)
  /\ critical' = NoImage /\ tail' = << >>
  /\ UNCHANGED <<files, unwritten, job, attached, launched, mails, received>>

\* finalize_store: one round of its loop.  g_snprintf cuts what does not fit.
Attach ==
  /\ Returned(job) /\ images # << >>
  /\ attached' = IF Len(attached) < AttachmentRoom THEN Append(attached, Head(images)) ELSE attached
  /\ images' = Tail(images)
  /\ UNCHANGED <<pc, critical, files, unwritten, tail, job, launched, mails, received>>

EmptiedEarly == Returned(job)  \* bug: the loop ends with images in the list

Emptied == Returned(job) /\ images = << >>

\* system() runs the command line, which starts the client in the background;
\* the next job may begin.  The shell does not accept a line that was cut
\* inside quotes, and says so to nobody.
Launch ==
  /\ Emptied
  /\ launched' = launched \cup {job}
  /\ \/ mails' = [mails EXCEPT ![job] = attached]
     \/ Len(attached) < Cardinality(InJob(job)) /\ UNCHANGED mails
  /\ job' = job + 1 /\ attached' = << >>
  /\ UNCHANGED <<pc, critical, files, unwritten, images, tail, received>>

\* "[email] could not launch subprocess!"
LaunchFails ==
  /\ Emptied
  /\ job' = job + 1 /\ attached' = << >>
  /\ UNCHANGED <<pc, critical, files, unwritten, images, tail, launched, mails, received>>

\* The client opens an attachment, some time after it was started.
ClientReads(i) ==
  /\ JobOf(i) < job
  /\ i \in Range(mails[JobOf(i)])
  /\ i \notin {r[1] : r \in received}
  /\ received' = received \cup {<<i, files[Base(i)]>>}
  /\ UNCHANGED <<pc, critical, files, unwritten, images, tail, job, attached, launched, mails>>

Store(i) == Export(i) \/ EnterCritical(i) \/ Link(i)
FinalizeStore == Attach \/ Launch \/ LaunchFails

AllOver == job \notin Jobs /\ UNCHANGED evars

ENext == (\E i \in Images : Store(i) \/ ClientReads(i)) \/ FinalizeStore \/ AllOver
ESpec == EInit /\ [][ENext]_evars
----------------------------------------------------------------------------
ETypeOK ==
  /\ pc \in [Images -> {"start", "append", "link", "done"}]
  /\ critical \in Images \cup {NoImage}
  /\ files \in [Files -> Images \cup {NoImage}]
  /\ Range(images) \cup Range(tail) \cup Range(attached) \subseteq Images
  /\ Len(attached) <= AttachmentRoom
  /\ job \in 1..Cardinality(Jobs) + 1
  /\ launched \subseteq Jobs
  /\ \A j \in DOMAIN mails : Len(mails[j]) <= AttachmentRoom
  /\ unwritten \subseteq Images
  /\ received \subseteq Images \X (Images \cup {NoImage})

(***************************************************************************)
(* Parallel calls lose no attachment and add none twice: the list, with    *)
(* what finalize_store has taken from it, holds the calls of this job that *)
(* returned, and after the last of them it holds them all.                 *)
(***************************************************************************)
EveryExportListed ==
  job \in Jobs =>
    /\ IsInjective(images)
    /\ Range(images) \subseteq InJob(job)
    /\ attached = << >> => Range(images) = {i \in InJob(job) : pc[i] = "done"}

(***************************************************************************)
(* A mail has each image of its job at most once and none of another job;  *)
(* it misses one only when the command line has no room for all.           *)
(***************************************************************************)
MailComplete ==
  \A j \in launched :
    /\ IsInjective(mails[j])
    /\ Range(mails[j]) \subseteq InJob(j)
    /\ Range(mails[j]) # InJob(j) =>
         /\ Cardinality(InJob(j)) > AttachmentRoom
         /\ Len(mails[j]) \in {0, AttachmentRoom}

(***************************************************************************)
(* Temporary files are never removed, and a later job, or another image of *)
(* the job, can overwrite one before the client has read it.  What the     *)
(* client reads is never older than its job: a file that an earlier job    *)
(* left is not mailed again, unless the export failed that should have     *)
(* replaced it.                                                            *)
(***************************************************************************)
NothingStaleMailed ==
  \A r \in received : r[1] \notin unwritten =>
    r[2] # NoImage /\ JobOf(r[2]) >= JobOf(r[1])

(***************************************************************************)
(* The jobs are those of StorageJobs: a mail presents what store took.     *)
(***************************************************************************)
Other(i, k) == i # k
Answers == [i \in Images |-> IF pc[i] = "done" THEN "taken" ELSE "none"]

Promise == INSTANCE StorageJobs WITH
  Before <- Other, Room <- AttachmentRoom,
  answer <- Answers, presented <- {j \in Jobs : j < job}, shown <- mails

MailsPresented == Promise!JobsSpec
=============================================================================

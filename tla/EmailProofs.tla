----------------------------- MODULE EmailProofs -----------------------------
(***************************************************************************)
(* Export by e-mail, for every set of images, jobs and file names and for  *)
(* every length of the command line: the list that parallel calls append   *)
(* to, the mail that is made of it, and what the client reads later.       *)
(***************************************************************************)
EXTENDS EmailStorage, FiniteSetTheorems, TLAPS

----------------------------------------------------------------------------
(* Lists.                                                                  *)

LEMMA Appending ==
  ASSUME NEW S, NEW s \in Seq(S), NEW e \in S
  PROVE  /\ Append(s, e) \in Seq(S) /\ Len(Append(s, e)) = Len(s) + 1 /\ Append(s, e) # << >>
         /\ Range(Append(s, e)) = Range(s) \cup {e}
         /\ IsInjective(s) /\ e \notin Range(s) => IsInjective(Append(s, e))
<1> DEFINE a == Append(s, e)
<1>1. /\ a \in Seq(S) /\ Len(a) = Len(s) + 1 /\ Len(s) \in Nat /\ a # << >>
      /\ \A k \in 1..Len(s) : a[k] = s[k]
      /\ a[Len(s) + 1] = e
  OBVIOUS
<1> HIDE DEF a
<1>2. DOMAIN a = 1..Len(s) + 1 /\ DOMAIN s = 1..Len(s)
  BY <1>1
<1>3. \A k \in DOMAIN a : k = Len(s) + 1 \/ k \in DOMAIN s
  BY <1>1, <1>2
<1>4. Len(s) + 1 \in DOMAIN a /\ DOMAIN s \subseteq DOMAIN a
  BY <1>1, <1>2
<1>5. Range(a) = Range(s) \cup {e}
  BY <1>1, <1>2, <1>3, <1>4, Zenon DEF Range
<1>6. ASSUME IsInjective(s), e \notin Range(s) PROVE IsInjective(a)
  BY <1>1, <1>2, <1>3, <1>6, Zenon DEF Range, IsInjective
<1> QED
  BY <1>1, <1>5, <1>6 DEF a

LEMMA Heading ==
  ASSUME NEW S, NEW s \in Seq(S), s # << >>, IsInjective(s)
  PROVE  /\ Tail(s) \in Seq(S) /\ IsInjective(Tail(s)) /\ Head(s) \in S
         /\ Range(s) = Range(Tail(s)) \cup {Head(s)} /\ Head(s) \notin Range(Tail(s))
<1> DEFINE t == Tail(s)
<1>1. /\ t \in Seq(S) /\ Len(s) \in Nat \ {0} /\ Len(t) = Len(s) - 1
      /\ \A k \in 1..Len(t) : t[k] = s[k + 1]
      /\ Head(s) = s[1] /\ Head(s) \in S
  OBVIOUS
<1> HIDE DEF t
<1>2. DOMAIN t = 1..Len(s) - 1 /\ DOMAIN s = 1..Len(s)
  BY <1>1
<1>3. \A k \in DOMAIN t : k + 1 \in DOMAIN s /\ t[k] = s[k + 1] /\ k + 1 # 1
  BY <1>1, <1>2
<1>4. \A k \in DOMAIN s : k = 1 \/ (k - 1 \in DOMAIN t /\ t[k - 1] = s[k])
  BY <1>1, <1>2
<1>5. 1 \in DOMAIN s
  BY <1>1, <1>2
<1>6. Range(s) = Range(t) \cup {Head(s)}
  <2>1. ASSUME NEW k \in DOMAIN s PROVE s[k] \in Range(t) \cup {Head(s)}
    BY <1>1, <1>4 DEF Range
  <2>2. ASSUME NEW k \in DOMAIN t PROVE t[k] \in Range(s)
    BY <1>3 DEF Range
  <2>3. Head(s) \in Range(s)
    BY <1>1, <1>5 DEF Range
  <2> QED
    BY <2>1, <2>2, <2>3, Zenon DEF Range
<1>7. Head(s) \notin Range(t)
  BY <1>1, <1>3, <1>5 DEF Range, IsInjective
<1>8. IsInjective(t)
  <2> SUFFICES ASSUME NEW j \in DOMAIN t, NEW k \in DOMAIN t, t[j] = t[k] PROVE j = k
    BY DEF IsInjective
  <2>1. j + 1 = k + 1
    BY <1>3 DEF IsInjective
  <2> QED
    BY <1>2, <2>1
<1> QED
  BY <1>1, <1>6, <1>7, <1>8 DEF t

(* A list without repetition is as long as what it has.                    *)
LEMMA LengthIsCardinality ==
  ASSUME NEW S, NEW s \in Seq(S), IsInjective(s)
  PROVE  IsFiniteSet(Range(s)) /\ Cardinality(Range(s)) = Len(s)
<1>1. DOMAIN s = 1..Len(s) /\ Len(s) \in Nat
  OBVIOUS
<1>2. IsFiniteSet(1..Len(s)) /\ Cardinality(1..Len(s)) = Len(s)
  BY <1>1, FS_Interval
<1>3. s \in [1..Len(s) -> Range(s)]
  BY <1>1 DEF Range
<1>4. s \in Surjection(1..Len(s), Range(s))
  BY <1>1, <1>3 DEF Surjection, Range
<1>5. s \in Injection(1..Len(s), Range(s))
  BY <1>3 DEF Injection
<1> QED
  BY <1>2, <1>4, <1>5, FS_Surjection

----------------------------------------------------------------------------
(* The inductive invariant.                                                *)

DoneOf(j) == {i \in InJob(j) : pc[i] = "done"}

(* What is of which type; jobs come one after the other.                    *)
Running ==
  /\ pc \in [Images -> {"start", "append", "link", "done"}]
  /\ critical \in Images \cup {NoImage}
  /\ files \in [Files -> Images \cup {NoImage}]
  /\ {images, tail, attached} \subseteq Seq(Images)
  /\ Len(attached) <= AttachmentRoom
  /\ job \in 1..Cardinality(Jobs) + 1
  /\ launched \subseteq 1..job - 1
  /\ mails \in [Jobs -> Seq(Images)]
  /\ \A j \in Jobs : Len(mails[j]) <= AttachmentRoom
  /\ unwritten \subseteq Images
  /\ received \subseteq Images \X (Images \cup {NoImage})
  /\ \A i \in Images : (JobOf(i) < job => pc[i] = "done") /\ (JobOf(i) > job => pc[i] = "start")

(* One call at a time is between the two halves of the append, and the list *)
(* is as that call found it.                                                *)
Linking ==
  /\ \A i \in Images : pc[i] = "link" <=> critical = i
  /\ critical # NoImage => tail = images

(* What returned is in the list or in the command line, once; some may be   *)
(* missing when the command line is full.                                   *)
Collected ==
  /\ IsInjective(images) /\ Range(images) \subseteq DoneOf(job)
  /\ IsInjective(attached) /\ Range(attached) \subseteq DoneOf(job)
  /\ Range(images) \cap Range(attached) = {}
  /\ attached # << >> => Returned(job)
  /\ Len(attached) < AttachmentRoom => Range(images) \cup Range(attached) = DoneOf(job)

(* Mails of jobs that ran, and no other.                                    *)
Mailed == MailComplete /\ \A j \in Jobs \ launched : mails[j] = << >>

(* The file of an image whose export did not fail has its pixels, or later  *)
(* ones.                                                                    *)
Exported ==
  /\ \A i \in Images : pc[i] # "start" /\ i \notin unwritten =>
       files[Base(i)] # NoImage /\ JobOf(files[Base(i)]) >= JobOf(i)
  /\ NothingStaleMailed

EmailInv == Running /\ Linking /\ Collected /\ Mailed /\ Exported

----------------------------------------------------------------------------
LEMMA JobNumbers ==
  ASSUME EmailConstants
  PROVE  /\ Cardinality(Jobs) \in Nat /\ Jobs = 1..Cardinality(Jobs)
         /\ \A i \in Images : JobOf(i) \in Jobs /\ JobOf(i) \in Nat \ {0}
<1> DEFINE f == [i \in Images |-> JobOf(i)]
<1>1. f \in Surjection(Images, Jobs)
  BY DEF Surjection, Jobs
<1>2. IsFiniteSet(Jobs)
  BY <1>1, FS_Surjection DEF EmailConstants
<1>3. Cardinality(Jobs) \in Nat /\ Jobs = 1..Cardinality(Jobs)
  BY <1>2, FS_CardinalityType DEF EmailConstants
<1>4. \A i \in Images : JobOf(i) \in Jobs
  BY DEF Jobs
<1>5. \A j \in Jobs : j \in Nat \ {0}
  BY <1>3
<1> QED
  BY <1>3, <1>4, <1>5

LEMMA EmptyList == << >> \in Seq(Images) /\ IsInjective(<< >>) /\ Range(<< >>) = {} /\ Len(<< >>) = 0
BY DEF IsInjective, Range

LEMMA EmailStarts == ASSUME EmailConstants, EInit PROVE EmailInv
<1> USE EmptyList, JobNumbers DEF EmailConstants
<1>1. Running
  <2>1. \A i \in Images : ~(JobOf(i) < job)
    BY DEF EInit
  <2> QED
    BY <2>1 DEF EInit, Running
<1>2. Linking
  BY DEF EInit, Linking
<1>3. Collected
  BY DEF EInit, Collected, DoneOf, InJob
<1>4. Mailed /\ Exported
  BY DEF EInit, Mailed, MailComplete, Exported, NothingStaleMailed
<1> QED
  BY <1>1, <1>2, <1>3, <1>4 DEF EmailInv

(* A call that is under way belongs to the job that runs, which is then not *)
(* over, and nothing of it is in the command line yet.                      *)
LEMMA UnderWay ==
  ASSUME EmailConstants, EmailInv, NEW i \in Images, pc[i] \in {"append", "link"}
  PROVE  /\ JobOf(i) = job /\ job \in Jobs /\ attached = << >> /\ i \notin DoneOf(job)
         /\ Range(images) = DoneOf(job)
<1>1. JobOf(i) = job
  <2>1. JobOf(i) \in Nat /\ job \in Nat
    BY JobNumbers DEF EmailInv, Running
  <2>2. ~(JobOf(i) < job) /\ ~(JobOf(i) > job)
    BY DEF EmailInv, Running
  <2> QED
    BY <2>1, <2>2
<1>2. job \in Jobs /\ i \notin DoneOf(job)
  BY <1>1, JobNumbers DEF DoneOf
<1>3. ~Returned(job)
  BY <1>1 DEF Returned, InJob
<1>4. attached = << >>
  BY <1>3 DEF EmailInv, Collected
<1>5. Len(attached) < AttachmentRoom
  BY <1>4, EmptyList DEF EmailConstants
<1> QED
  BY <1>1, <1>2, <1>4, <1>5, EmptyList DEF EmailInv, Collected

(* No step of a call or of the client takes a mail back.                    *)
LEMMA RunningStep ==
  ASSUME EmailConstants, EmailInv, [ENext]_evars
  PROVE  Running'
<1> USE DEF EmailConstants
<1>0. /\ pc \in [Images -> {"start", "append", "link", "done"}] /\ critical \in Images \cup {NoImage}
      /\ files \in [Files -> Images \cup {NoImage}]
      /\ images \in Seq(Images) /\ tail \in Seq(Images) /\ attached \in Seq(Images)
      /\ Len(attached) <= AttachmentRoom /\ job \in 1..Cardinality(Jobs) + 1
      /\ launched \subseteq 1..job - 1 /\ mails \in [Jobs -> Seq(Images)]
      /\ \A j \in Jobs : Len(mails[j]) <= AttachmentRoom
      /\ unwritten \subseteq Images
      /\ received \subseteq Images \X (Images \cup {NoImage})
      /\ \A i \in Images : (JobOf(i) < job => pc[i] = "done") /\ (JobOf(i) > job => pc[i] = "start")
  BY DEF EmailInv, Running
<1>j. /\ Cardinality(Jobs) \in Nat /\ Jobs = 1..Cardinality(Jobs)
      /\ \A i \in Images : JobOf(i) \in Jobs /\ JobOf(i) \in Nat \ {0}
  BY JobNumbers
<1>1. ASSUME NEW i \in Images, Export(i) PROVE Running'
  <2>1. files' \in [Files -> Images \cup {NoImage}] /\ unwritten' \subseteq Images
    BY <1>0, <1>1 DEF Export
  <2> QED
    BY <1>0, <1>j, <1>1, <2>1 DEF Export, Goto, Running
<1>2. ASSUME NEW i \in Images, EnterCritical(i) PROVE Running'
  <2>1. JobOf(i) = job
    BY <1>2, UnderWay DEF EnterCritical
  <2> QED
    BY <1>0, <1>j, <1>2, <2>1 DEF EnterCritical, Goto, Running
<1>3. ASSUME NEW i \in Images, Link(i) PROVE Running'
  <2>1. JobOf(i) = job
    BY <1>3, UnderWay DEF Link
  <2>2. images' \in Seq(Images) /\ tail' \in Seq(Images)
    BY <1>0, <1>3, Appending, EmptyList DEF Link
  <2> QED
    BY <1>0, <1>j, <1>3, <2>1, <2>2 DEF Link, Goto, Running
<1>4. CASE Attach
  <2>1. images' \in Seq(Images) /\ attached' \in Seq(Images) /\ Len(attached') <= AttachmentRoom
    <3>1. Tail(images) \in Seq(Images) /\ Head(images) \in Images /\ Len(attached) \in Nat
      BY <1>0, <1>4, Heading DEF Attach, EmailInv, Collected
    <3>2. Append(attached, Head(images)) \in Seq(Images)
          /\ Len(Append(attached, Head(images))) = Len(attached) + 1
      BY <1>0, <3>1, Appending
    <3> QED
      BY <1>0, <1>4, <3>1, <3>2 DEF Attach
  <2> QED
    BY <1>0, <1>4, <2>1 DEF Attach, Running
<1>5. CASE Launch \/ LaunchFails
  <2>1. /\ job \in Jobs /\ job' = job + 1 /\ attached' = << >> /\ \A i \in InJob(job) : pc[i] = "done"
        /\ UNCHANGED <<pc, critical, files, unwritten, images, tail, received>>
    BY <1>5 DEF Launch, LaunchFails, Emptied, Returned
  <2>2. launched' \subseteq 1..job' - 1
    <3>1. launched' \subseteq launched \cup {job}
      BY <1>5 DEF Launch, LaunchFails
    <3> QED
      BY <1>0, <1>j, <2>1, <3>1
  <2>3. /\ mails' \in [Jobs -> Seq(Images)]
        /\ \A j \in Jobs : Len(mails'[j]) <= AttachmentRoom
    <3>1. UNCHANGED mails \/ mails' = [mails EXCEPT ![job] = attached]
      BY <1>5 DEF Launch, LaunchFails
    <3> QED
      BY <1>0, <2>1, <3>1
  <2>4. \A i \in Images : (JobOf(i) < job' => pc[i] = "done") /\ (JobOf(i) > job' => pc[i] = "start")
    <3> SUFFICES ASSUME NEW i \in Images
                 PROVE  (JobOf(i) < job + 1 => pc[i] = "done") /\ (JobOf(i) > job + 1 => pc[i] = "start")
      BY <2>1
    <3>1. JobOf(i) = job => pc[i] = "done"
      BY <2>1 DEF InJob
    <3>2. JobOf(i) \in Nat /\ job \in Nat
      BY <1>0, <1>j
    <3> QED
      BY <1>0, <3>1, <3>2
  <2>5. job' \in 1..Cardinality(Jobs) + 1 /\ Len(attached') <= AttachmentRoom /\ attached' \in Seq(Images)
    BY <1>j, <2>1, EmptyList
  <2> QED
    BY <1>0, <2>1, <2>2, <2>3, <2>4, <2>5 DEF Running
<1>6. ASSUME NEW i \in Images, ClientReads(i) PROVE Running'
  <2>1. pc[i] = "done" /\ Base(i) \in Files
    BY <1>0, <1>6 DEF ClientReads, Files
  <2>2. files[Base(i)] \in Images \cup {NoImage}
    BY <1>0, <2>1
  <2>3. received' \subseteq Images \X (Images \cup {NoImage})
    BY <1>0, <1>6, <2>2 DEF ClientReads
  <2> QED
    BY <1>0, <1>6, <2>3 DEF ClientReads, Running
<1>7. CASE UNCHANGED evars
  BY <1>7 DEF evars, EmailInv, Running
<1> QED
  BY <1>1, <1>2, <1>3, <1>4, <1>5, <1>6, <1>7 DEF ENext, Store, FinalizeStore, AllOver

(* The critical block.                                                      *)
LEMMA LinkingStep ==
  ASSUME EmailConstants, EmailInv, [ENext]_evars
  PROVE  Linking'
<1> USE DEF EmailConstants
<1>0. /\ pc \in [Images -> {"start", "append", "link", "done"}] /\ NoImage \notin Images
      /\ \A i \in Images : pc[i] = "link" <=> critical = i
      /\ critical # NoImage => tail = images
      /\ critical \in Images \cup {NoImage}
  BY DEF EmailInv, Running, Linking
<1>1. ASSUME NEW i \in Images, Export(i) PROVE Linking'
  BY <1>0, <1>1 DEF Export, Goto, Linking
<1>2. ASSUME NEW i \in Images, EnterCritical(i) PROVE Linking'
  BY <1>0, <1>2 DEF EnterCritical, Goto, Linking
<1>3. ASSUME NEW i \in Images, Link(i) PROVE Linking'
  BY <1>0, <1>3 DEF Link, Goto, Linking
<1>4. CASE Attach
  <2>1. \A i \in Images : critical # i
    <3> SUFFICES ASSUME NEW i \in Images, critical = i PROVE FALSE
      OBVIOUS
    <3>1. i \notin DoneOf(job) /\ JobOf(i) = job
      BY <1>0, UnderWay
    <3> QED
      BY <1>4, <3>1 DEF Attach, Returned, DoneOf, InJob
  <2> QED
    BY <1>0, <1>4, <2>1 DEF Attach, Linking
<1>5. CASE Launch \/ LaunchFails
  <2>1. UNCHANGED <<pc, critical, images, tail>>
    BY <1>5 DEF Launch, LaunchFails
  <2> QED
    BY <1>0, <2>1 DEF Linking
<1>6. ASSUME NEW i \in Images, ClientReads(i) PROVE Linking'
  BY <1>0, <1>6 DEF ClientReads, Linking
<1>7. CASE UNCHANGED evars
  BY <1>0, <1>7 DEF evars, Linking
<1> QED
  BY <1>1, <1>2, <1>3, <1>4, <1>5, <1>6, <1>7 DEF ENext, Store, FinalizeStore, AllOver

(* The list and the command line.                                           *)
LEMMA CollectedStep ==
  ASSUME EmailConstants, EmailInv, [ENext]_evars
  PROVE  Collected'
<1> USE DEF EmailConstants
<1>0. /\ pc \in [Images -> {"start", "append", "link", "done"}]
      /\ images \in Seq(Images) /\ attached \in Seq(Images) /\ job \in 1..Cardinality(Jobs) + 1
      /\ Len(attached) <= AttachmentRoom
      /\ IsInjective(images) /\ Range(images) \subseteq DoneOf(job)
      /\ IsInjective(attached) /\ Range(attached) \subseteq DoneOf(job)
      /\ Range(images) \cap Range(attached) = {}
      /\ attached # << >> => Returned(job)
      /\ Len(attached) < AttachmentRoom => Range(images) \cup Range(attached) = DoneOf(job)
  BY DEF EmailInv, Running, Collected
<1>1. ASSUME UNCHANGED <<images, job, attached>>, DoneOf(job)' = DoneOf(job),
             Returned(job) => Returned(job)'
      PROVE  Collected'
  BY <1>0, <1>1 DEF Collected
<1>2. ASSUME NEW i \in Images, Export(i) PROVE Collected'
  <2>1. DoneOf(job)' = DoneOf(job)
    BY <1>0, <1>2 DEF Export, Goto, DoneOf, InJob
  <2>2. ~Returned(job)
    BY <1>2 DEF Export, Returned, InJob
  <2> QED
    BY <1>1, <1>2, <2>1, <2>2 DEF Export
<1>3. ASSUME NEW i \in Images, EnterCritical(i) PROVE Collected'
  <2>1. DoneOf(job)' = DoneOf(job)
    BY <1>0, <1>3 DEF EnterCritical, Goto, DoneOf, InJob
  <2>2. ~Returned(job)
    BY <1>3, UnderWay DEF EnterCritical, Returned, DoneOf, InJob
  <2> QED
    BY <1>1, <1>3, <2>1, <2>2 DEF EnterCritical
<1>4. ASSUME NEW i \in Images, Link(i) PROVE Collected'
  <2>1. /\ JobOf(i) = job /\ attached = << >> /\ i \notin DoneOf(job) /\ Range(images) = DoneOf(job)
        /\ pc[i] = "link" /\ images' = Append(tail, i) /\ UNCHANGED <<job, attached>>
    BY <1>4, UnderWay DEF Link
  <2>2. tail = images
    BY <2>1 DEF EmailInv, Linking, Running, EmailConstants
  <2>3. IsInjective(images') /\ Range(images') = Range(images) \cup {i}
    BY <1>0, <2>1, <2>2, Appending
  <2>4. DoneOf(job)' = DoneOf(job) \cup {i}
    BY <1>0, <1>4, <2>1 DEF Link, Goto, DoneOf, InJob
  <2> QED
    BY <2>1, <2>3, <2>4, EmptyList DEF Collected
<1>5. CASE Attach
  <2>1. /\ Tail(images) \in Seq(Images) /\ IsInjective(Tail(images)) /\ Head(images) \in Images
        /\ Range(images) = Range(Tail(images)) \cup {Head(images)}
        /\ Head(images) \notin Range(Tail(images))
    BY <1>0, <1>5, Heading DEF Attach
  <2>2. DoneOf(job)' = DoneOf(job) /\ images' = Tail(images) /\ Returned(job)' /\ UNCHANGED job
    BY <1>5 DEF Attach, DoneOf, Returned
  <2>3. CASE Len(attached) < AttachmentRoom
    <3>1. attached' = Append(attached, Head(images))
      BY <1>5, <2>3 DEF Attach
    <3>2. IsInjective(attached') /\ Range(attached') = Range(attached) \cup {Head(images)}
      BY <1>0, <2>1, <3>1, Appending
    <3> QED
      BY <1>0, <2>1, <2>2, <2>3, <3>2 DEF Collected
  <2>4. CASE ~(Len(attached) < AttachmentRoom)
    <3>1. attached' = attached
      BY <1>5, <2>4 DEF Attach
    <3> QED
      BY <1>0, <2>1, <2>2, <2>4, <3>1 DEF Collected
  <2> QED
    BY <2>3, <2>4
<1>6. CASE Launch \/ LaunchFails
  <2>1. /\ images' = << >> /\ attached' = << >> /\ job' = job + 1 /\ pc' = pc
    BY <1>6 DEF Launch, LaunchFails, Emptied
  <2>2. DoneOf(job)' = {}
    <3> SUFFICES ASSUME NEW i \in Images, JobOf(i) = job + 1 PROVE pc[i] # "done"
      BY <2>1 DEF DoneOf, InJob
    <3>1. JobOf(i) > job
      BY <1>0, JobNumbers
    <3> QED
      BY <3>1 DEF EmailInv, Running
  <2> QED
    BY <2>1, <2>2, EmptyList DEF Collected
<1>7. CASE (\E i \in Images : ClientReads(i)) \/ UNCHANGED evars
  <2>1. UNCHANGED <<pc, images, job, attached>>
    BY <1>7 DEF ClientReads, evars
  <2> QED
    BY <1>1, <2>1 DEF DoneOf, Returned
<1> QED
  BY <1>2, <1>3, <1>4, <1>5, <1>6, <1>7 DEF ENext, Store, FinalizeStore, AllOver

(* A command line that is short of an image is full.                        *)
LEMMA FullWhenShort ==
  ASSUME EmailConstants, EmailInv, Emptied
  PROVE  /\ job \in Jobs /\ DoneOf(job) = InJob(job)
         /\ Range(attached) # InJob(job) =>
              Len(attached) = AttachmentRoom /\ Cardinality(InJob(job)) > AttachmentRoom
         /\ Len(attached) < Cardinality(InJob(job)) =>
              Len(attached) = AttachmentRoom /\ Cardinality(InJob(job)) > AttachmentRoom
<1> USE DEF EmailConstants
<1>1. job \in Jobs /\ DoneOf(job) = InJob(job) /\ Range(images) = {}
  BY EmptyList DEF Emptied, Returned, DoneOf
<1>2. /\ attached \in Seq(Images) /\ IsInjective(attached) /\ Range(attached) \subseteq InJob(job)
      /\ Len(attached) <= AttachmentRoom /\ Len(attached) \in Nat
      /\ Len(attached) < AttachmentRoom => Range(attached) = InJob(job)
  BY <1>1 DEF EmailInv, Running, Collected
<1>3. IsFiniteSet(InJob(job)) /\ Cardinality(InJob(job)) \in Nat
  <2>1. InJob(job) \in SUBSET Images
    BY DEF InJob
  <2> QED
    BY <2>1, FS_Subset, FS_CardinalityType
<1>4. Cardinality(Range(attached)) = Len(attached)
  BY <1>2, LengthIsCardinality
<1>5. /\ Len(attached) <= Cardinality(InJob(job))
      /\ Cardinality(InJob(job)) = Len(attached) => InJob(job) = Range(attached)
  <2>1. Range(attached) \in SUBSET InJob(job)
    BY <1>2
  <2> QED
    BY <1>3, <1>4, <2>1, FS_Subset
<1> QED
  BY <1>1, <1>2, <1>3, <1>4, <1>5

(* The mails.                                                               *)
LEMMA MailedStep ==
  ASSUME EmailConstants, EmailInv, [ENext]_evars
  PROVE  Mailed'
<1> USE DEF EmailConstants
<1>0. /\ mails \in [Jobs -> Seq(Images)] /\ launched \subseteq 1..job - 1 /\ job \in Nat
      /\ attached \in Seq(Images) /\ IsInjective(attached) /\ Range(attached) \subseteq DoneOf(job)
      /\ MailComplete /\ \A j \in Jobs \ launched : mails[j] = << >>
  BY JobNumbers DEF EmailInv, Running, Collected, Mailed
<1>1. CASE Launch
  <2>1. job \in Jobs /\ job \notin launched /\ launched' = launched \cup {job} /\ Emptied
    BY <1>0, <1>1 DEF Launch, Emptied, Returned
  <2>2. \A j \in Jobs : j # job => mails'[j] = mails[j]
    BY <1>0, <1>1 DEF Launch
  <2>3. \A j \in Jobs \ launched' : mails'[j] = << >>
    BY <1>0, <2>1, <2>2
  <2>4. \/ mails'[job] = attached
        \/ mails'[job] = << >> /\ Len(attached) < Cardinality(InJob(job))
    BY <1>0, <1>1, <2>1 DEF Launch
  <2>5. /\ IsInjective(mails'[job]) /\ Range(mails'[job]) \subseteq InJob(job)
        /\ Range(mails'[job]) # InJob(job) =>
             Cardinality(InJob(job)) > AttachmentRoom /\ Len(mails'[job]) \in {0, AttachmentRoom}
    BY <1>0, <2>1, <2>4, FullWhenShort, EmptyList
  <2>6. \A j \in launched : j \in Jobs /\ j # job
    <3>1. launched \subseteq Jobs
      <4>1. job \in 1..Cardinality(Jobs) + 1
        BY DEF EmailInv, Running
      <4> QED
        BY <1>0, <4>1, JobNumbers
    <3> QED
      BY <2>1, <3>1
  <2>7. MailComplete'
    <3> SUFFICES ASSUME NEW j \in launched'
                 PROVE  /\ IsInjective(mails'[j]) /\ Range(mails'[j]) \subseteq InJob(j)
                        /\ Range(mails'[j]) # InJob(j) =>
                             Cardinality(InJob(j)) > AttachmentRoom /\ Len(mails'[j]) \in {0, AttachmentRoom}
      BY DEF MailComplete
    <3>1. CASE j = job
      BY <2>5, <3>1
    <3>2. CASE j # job
      BY <1>0, <2>1, <2>2, <2>6, <3>2 DEF MailComplete
    <3> QED
      BY <3>1, <3>2
  <2> QED
    BY <2>3, <2>7 DEF Mailed
<1>2. CASE ~Launch
  <2>1. UNCHANGED <<launched, mails>>
    BY <1>2 DEF ENext, Store, FinalizeStore, AllOver, Export, EnterCritical, Link, Attach, LaunchFails,
                ClientReads, evars
  <2> QED
    BY <1>0, <2>1 DEF Mailed, MailComplete
<1> QED
  BY <1>1, <1>2

(* The files.                                                               *)
LEMMA ExportedStep ==
  ASSUME EmailConstants, EmailInv, [ENext]_evars
  PROVE  Exported'
<1> USE DEF EmailConstants
<1>0. /\ pc \in [Images -> {"start", "append", "link", "done"}]
      /\ files \in [Files -> Images \cup {NoImage}]
      /\ \A i \in Images : (JobOf(i) < job => pc[i] = "done") /\ (JobOf(i) > job => pc[i] = "start")
      /\ \A i \in Images : pc[i] # "start" /\ i \notin unwritten =>
           files[Base(i)] # NoImage /\ JobOf(files[Base(i)]) >= JobOf(i)
      /\ NothingStaleMailed
      /\ \A i \in Images : JobOf(i) \in Nat
      /\ job \in Nat
  BY JobNumbers DEF EmailInv, Running, Exported
<1>1. ASSUME NEW i \in Images, Export(i) PROVE Exported'
  <2>1. \A k \in Images : Base(k) \in Files
    BY DEF Files
  <2>2. /\ pc' = [pc EXCEPT ![i] = "append"] /\ JobOf(i) = job /\ i # NoImage /\ UNCHANGED received
        /\ \/ files' = [files EXCEPT ![Base(i)] = i] /\ UNCHANGED unwritten
           \/ unwritten' = unwritten \cup {i} /\ UNCHANGED files
    BY <1>1 DEF Export, Goto
  <2>3. ASSUME NEW k \in Images, pc'[k] # "start", k \notin unwritten'
        PROVE  files'[Base(k)] # NoImage /\ JobOf(files'[Base(k)]) >= JobOf(k)
    <3>1. JobOf(k) <= job
      BY <1>0, <2>2, <2>3
    <3>2. CASE files' = [files EXCEPT ![Base(i)] = i] /\ Base(k) = Base(i)
      <4>1. files'[Base(k)] = i
        BY <1>0, <2>1, <3>2
      <4> QED
        BY <1>0, <2>2, <3>1, <4>1
    <3>3. CASE ~(files' = [files EXCEPT ![Base(i)] = i] /\ Base(k) = Base(i))
      <4>1. files'[Base(k)] = files[Base(k)]
        BY <1>0, <2>1, <2>2, <3>3
      <4>2. k # i
        BY <2>2, <2>3, <3>3
      <4>3. pc[k] # "start" /\ k \notin unwritten
        BY <1>0, <2>2, <2>3, <4>2
      <4> QED
        BY <1>0, <4>1, <4>3
    <3> QED
      BY <3>2, <3>3
  <2>4. \A r \in received : r[1] \notin unwritten' => r[1] \notin unwritten
    BY <2>2
  <2> QED
    BY <1>0, <2>2, <2>3, <2>4 DEF Exported, NothingStaleMailed
<1>2. ASSUME NEW i \in Images, ClientReads(i) PROVE Exported'
  <2>1. pc[i] = "done" /\ received' = received \cup {<<i, files[Base(i)]>>} /\ UNCHANGED <<pc, files, unwritten>>
    BY <1>0, <1>2 DEF ClientReads
  <2>2. NothingStaleMailed'
    BY <1>0, <2>1 DEF NothingStaleMailed
  <2> QED
    BY <1>0, <2>1, <2>2 DEF Exported
<1>3. CASE \A i \in Images : ~Export(i) /\ ~ClientReads(i)
  <2>1. UNCHANGED <<files, unwritten, received>>
    BY <1>3 DEF ENext, Store, FinalizeStore, AllOver, EnterCritical, Link, Attach, Launch, LaunchFails, evars
  <2>2. \A i \in Images : pc'[i] # "start" => pc[i] # "start"
    <3>1. ASSUME NEW k \in Images, EnterCritical(k) \/ Link(k)
          PROVE  \A i \in Images : pc'[i] # "start" => pc[i] # "start"
      BY <1>0, <3>1 DEF EnterCritical, Link, Goto
    <3>2. ASSUME UNCHANGED pc PROVE \A i \in Images : pc'[i] # "start" => pc[i] # "start"
      BY <3>2
    <3> QED
      BY <1>3, <3>1, <3>2 DEF ENext, Store, FinalizeStore, AllOver, Attach, Launch, LaunchFails, evars
  <2> QED
    BY <1>0, <2>1, <2>2 DEF Exported, NothingStaleMailed
<1> QED
  BY <1>1, <1>2, <1>3

----------------------------------------------------------------------------
(* However the calls interleave: a job loses no attachment and mails none   *)
(* twice, unless there are more than the command line takes; and what the   *)
(* client reads is never older than its job, unless the export failed.      *)
THEOREM EmailCorrect ==
  ASSUME EmailConstants
  PROVE  ESpec => [](ETypeOK /\ EveryExportListed /\ MailComplete /\ NothingStaleMailed)
<1>1. EInit => EmailInv
  BY EmailStarts
<1>2. EmailInv /\ [ENext]_evars => EmailInv'
  BY RunningStep, LinkingStep, CollectedStep, MailedStep, ExportedStep DEF EmailInv
<1>3. EmailInv => ETypeOK
  <2> SUFFICES ASSUME EmailInv PROVE ETypeOK
    OBVIOUS
  <2>1. \A s \in Seq(Images) : Range(s) \subseteq Images
    BY DEF Range
  <2>2. launched \subseteq Jobs
    <3>1. job \in 1..Cardinality(Jobs) + 1 /\ launched \subseteq 1..job - 1
      BY DEF EmailInv, Running
    <3> QED
      BY <3>1, JobNumbers
  <2> QED
    BY <2>1, <2>2 DEF EmailInv, Running, ETypeOK
<1>4. EmailInv => EveryExportListed
  <2> SUFFICES ASSUME EmailInv, job \in Jobs
               PROVE  /\ IsInjective(images) /\ Range(images) \subseteq InJob(job)
                      /\ attached = << >> => Range(images) = {i \in InJob(job) : pc[i] = "done"}
    BY DEF EveryExportListed
  <2>1. attached = << >> => Len(attached) < AttachmentRoom /\ Range(attached) = {}
    BY EmptyList DEF EmailConstants
  <2> QED
    BY <2>1 DEF EmailInv, Collected, DoneOf
<1>5. EmailInv => MailComplete /\ NothingStaleMailed
  BY DEF EmailInv, Mailed, Exported
<1> QED
  BY <1>1, <1>2, <1>3, <1>4, <1>5, PTL DEF ESpec

----------------------------------------------------------------------------
(* The jobs as StorageJobs has them.                                        *)

LEMMA SameCounts == \A S : Promise!Cardinality(S) = Cardinality(S)
BY Zenon DEF Promise!Cardinality, Promise!IsFiniteSet, Cardinality, IsFiniteSet

(* A mail without repetition is one that StorageJobs may present.           *)
LEMMA MailFits ==
  ASSUME NEW S, IsFiniteSet(S), NEW l \in Seq(Images), IsInjective(l), Range(l) \subseteq S
  PROVE  l \in Promise!Lists(S)
<1>1. Len(l) \in Nat /\ DOMAIN l = 1..Len(l)
  OBVIOUS
<1>2. IsFiniteSet(Range(l)) /\ Cardinality(Range(l)) = Len(l)
  BY LengthIsCardinality
<1>3. Cardinality(S) \in Nat /\ Len(l) <= Cardinality(S)
  <2>1. Range(l) \in SUBSET S
    OBVIOUS
  <2>2. Cardinality(Range(l)) <= Cardinality(S) /\ Cardinality(S) \in Nat
    BY <2>1, FS_Subset, FS_CardinalityType
  <2> QED
    BY <1>2, <2>2
<1>4. l \in [1..Len(l) -> S]
  <2>1. \A k \in 1..Len(l) : l[k] \in S
    BY <1>1 DEF Range
  <2> QED
    BY <2>1
<1>5. Len(l) \in 0..Promise!Cardinality(S)
  BY <1>1, <1>3, SameCounts
<1>6. \A a, b \in DOMAIN l : a < b => Other(l[a], l[b])
  <2> SUFFICES ASSUME NEW a \in DOMAIN l, NEW b \in DOMAIN l, a < b PROVE l[a] # l[b]
    BY DEF Other
  <2>1. a # b
    BY <1>1
  <2> QED
    BY <2>1 DEF IsInjective
<1> QED
  BY <1>4, <1>5, <1>6 DEF Promise!Lists

LEMMA LinkAnswers ==
  ASSUME EmailConstants, EmailInv, NEW i \in Images, Link(i)
  PROVE  Promise!Answer(i)
<1>1. /\ pc \in [Images -> {"start", "append", "link", "done"}] /\ pc[i] = "link"
      /\ pc' = [pc EXCEPT ![i] = "done"] /\ UNCHANGED <<job, mails>>
  BY DEF EmailInv, Running, Link, Goto
<1>2. JobOf(i) = job /\ job \in Jobs /\ job \in Nat
  BY <1>1, UnderWay, JobNumbers
<1>3. Answers' = [Answers EXCEPT ![i] = "taken"] /\ Answers'[i] = "taken"
  <2>1. \A k \in Images : Answers'[k] = IF k = i THEN "taken" ELSE Answers[k]
    BY <1>1 DEF Answers
  <2>2. Answers' = [Answers EXCEPT ![i] = "taken"]
    BY <2>1, Zenon DEF Answers
  <2> QED
    BY <2>1, <2>2
<1>4. Answers[i] = "none" /\ JobOf(i) \notin {j \in Jobs : j < job}
  BY <1>1, <1>2 DEF Answers
<1>5. {j \in Jobs : j < job}' = {j \in Jobs : j < job}
  BY <1>1
<1> QED
  <2>1. UNCHANGED <<{j \in Jobs : j < job}, mails>>
    BY <1>1, <1>5
  <2>2. Answers'[i] \in {"taken", "refused"} /\ Answers' = [Answers EXCEPT ![i] = Answers'[i]]
    BY <1>3
  <2> QED
    BY <1>4, <2>1, <2>2 DEF Promise!Answer

LEMMA LaunchPresents ==
  ASSUME EmailConstants, EmailInv, Launch \/ LaunchFails
  PROVE  \E j \in Jobs : Promise!Present(j)
<1> USE DEF EmailConstants
<1>0. /\ mails \in [Jobs -> Seq(Images)] /\ launched \subseteq 1..job - 1 /\ job \in Nat
      /\ attached \in Seq(Images) /\ IsInjective(attached) /\ Range(attached) \subseteq DoneOf(job)
      /\ \A j \in Jobs \ launched : mails[j] = << >>
  BY JobNumbers DEF EmailInv, Running, Collected, Mailed
<1>1. Emptied /\ job' = job + 1 /\ UNCHANGED pc
  BY DEF Launch, LaunchFails
<1>2. /\ job \in Jobs /\ DoneOf(job) = InJob(job) /\ \A i \in InJob(job) : pc[i] = "done"
      /\ Range(attached) # InJob(job) => Len(attached) = AttachmentRoom
  BY <1>1, FullWhenShort DEF Emptied, Returned
<1>3. mails' = [mails EXCEPT ![job] = attached] \/ UNCHANGED mails
  BY DEF Launch, LaunchFails
<1>4. mails[job] = << >>
  BY <1>0, <1>2
<1>5. mails' = [mails EXCEPT ![job] = mails'[job]]
  BY <1>0, <1>2, <1>3
<1>6. mails'[job] \in {attached, << >>}
  BY <1>0, <1>2, <1>3, <1>4
<1>7. Promise!Taken(job) = InJob(job)
  BY <1>2 DEF Promise!Taken, Answers, InJob
<1>8. IsFiniteSet(InJob(job))
  <2>1. InJob(job) \in SUBSET Images
    BY DEF InJob
  <2> QED
    BY <2>1, FS_Subset
<1>9. mails'[job] \in Promise!Lists(InJob(job))
  <2>1. attached \in Promise!Lists(InJob(job))
    BY <1>0, <1>2, <1>8, MailFits
  <2>2. << >> \in Promise!Lists(InJob(job))
    <3>1. Range(<< >>) \subseteq InJob(job) /\ << >> \in Seq(Images) /\ IsInjective(<< >>)
      BY EmptyList
    <3> QED
      BY <1>8, <3>1, MailFits, Zenon
  <2> QED
    BY <1>6, <2>1, <2>2
<1>10. Len(mails'[job]) \in {0, AttachmentRoom, Promise!Cardinality(InJob(job))}
  <2>1. Range(attached) = InJob(job) => Len(attached) = Cardinality(InJob(job))
    BY <1>0, LengthIsCardinality
  <2> QED
    BY <1>2, <1>6, <2>1, EmptyList, SameCounts
<1>11. {j \in Jobs : j < job}' = {j \in Jobs : j < job} \cup {job}
  BY <1>0, <1>1, <1>2, JobNumbers
<1>12. job \notin {j \in Jobs : j < job}
  BY <1>0
<1>13. \A i \in Images : JobOf(i) = job => Answers[i] # "none"
  BY <1>2 DEF Answers, InJob
<1>14. UNCHANGED Answers
  BY <1>1 DEF Answers
<1>15. PICK j \in Jobs : j = job
  BY <1>2
<1>16. Promise!Present(j)
  BY <1>15, <1>5, <1>7, <1>9, <1>10, <1>11, <1>12, <1>13, <1>14 DEF Promise!Present
<1> QED
  BY <1>15, <1>16

(* Jobs by e-mail are jobs of StorageJobs: a mail presents, after the last  *)
(* call of its job has returned, what store took, all of it or as much as   *)
(* the command line has room for, or nothing.                               *)
THEOREM EmailPresents ==
  ASSUME EmailConstants
  PROVE  ESpec => MailsPresented
<1>1. EInit => EmailInv
  BY EmailStarts
<1>2. EmailInv /\ [ENext]_evars => EmailInv'
  BY RunningStep, LinkingStep, CollectedStep, MailedStep, ExportedStep DEF EmailInv
<1>3. EInit => Promise!JobsInit
  <2> SUFFICES ASSUME EInit PROVE Promise!JobsInit
    OBVIOUS
  <2>1. {j \in Jobs : j < job} = {}
    BY JobNumbers DEF EInit
  <2>2. Answers = [i \in Images |-> "none"]
    BY DEF EInit, Answers
  <2> QED
    BY <2>1, <2>2 DEF EInit, Promise!JobsInit
<1>4. EmailInv /\ [ENext]_evars => [Promise!JobsNext]_(Promise!jobvars)
  <2> SUFFICES ASSUME EmailInv, [ENext]_evars PROVE [Promise!JobsNext]_(Promise!jobvars)
    OBVIOUS
  <2>1. ASSUME NEW i \in Images, Link(i) PROVE Promise!JobsNext
    BY <2>1, LinkAnswers DEF Promise!JobsNext
  <2>2. ASSUME Launch \/ LaunchFails PROVE Promise!JobsNext
    BY <2>2, LaunchPresents DEF Promise!JobsNext
  <2>3. ASSUME UNCHANGED <<Answers, job, mails>> PROVE UNCHANGED Promise!jobvars
    BY <2>3 DEF Promise!jobvars
  <2>4. ASSUME NEW i \in Images, Export(i) \/ EnterCritical(i) PROVE UNCHANGED <<Answers, job, mails>>
    <3>1. /\ pc \in [Images -> {"start", "append", "link", "done"}] /\ UNCHANGED <<job, mails>>
          /\ pc[i] # "done" /\ \E p \in {"append", "link"} : pc' = [pc EXCEPT ![i] = p]
      BY <2>4 DEF EmailInv, Running, Export, EnterCritical, Goto
    <3> QED
      BY <3>1 DEF Answers
  <2>5. ASSUME Attach \/ AllOver \/ UNCHANGED evars \/ \E i \in Images : ClientReads(i)
        PROVE  UNCHANGED <<Answers, job, mails>>
    BY <2>5 DEF Attach, AllOver, evars, ClientReads, Answers
  <2> QED
    BY <2>1, <2>2, <2>3, <2>4, <2>5 DEF ENext, Store, FinalizeStore
<1> QED
  BY <1>1, <1>2, <1>3, <1>4, PTL DEF ESpec, MailsPresented, Promise!JobsSpec
=============================================================================

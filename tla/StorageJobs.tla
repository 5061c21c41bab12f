----------------------------- MODULE StorageJobs -----------------------------
(***************************************************************************)
(* What a storage that presents its images together (the index of the      *)
(* gallery, a mail) promises to the export jobs that call it, without      *)
(* saying how: store answers once for each image, in any order; when it    *)
(* has answered for all images of a job, finalize_store presents them.  It *)
(* presents only what store took, in the order it should have, and all of  *)
(* it, or none, or as much as there is room for.  What was presented stays *)
(* as it is.                                                               *)
(***************************************************************************)
EXTENDS Integers, FiniteSets, Sequences

CONSTANTS Images, Jobs, JobOf(_),
          Before(_, _),  \* whether one image may be presented ahead of another
          Room           \* how many a presentation holds that is short of some

VARIABLES answer,     \* what store returned for an image, "none" before it did
          presented,  \* the jobs that were finalized
          shown       \* the images that were presented, by job

jobvars == <<answer, presented, shown>>

JobsInit ==
  /\ answer = [i \in Images |-> "none"]
  /\ presented = {}
  /\ shown = [j \in Jobs |-> << >>]

Answer(i) ==
  /\ answer[i] = "none" /\ answer'[i] \in {"taken", "refused"}
  /\ answer' = [answer EXCEPT ![i] = answer'[i]]
  /\ JobOf(i) \notin presented
  /\ UNCHANGED <<presented, shown>>

Taken(j) == {i \in Images : JobOf(i) = j /\ answer[i] = "taken"}

Lists(S) ==
  {l \in UNION {[1..n -> S] : n \in 0..Cardinality(S)} :
     \A a, b \in DOMAIN l : a < b => Before(l[a], l[b])}

Present(j) ==
  /\ j \notin presented /\ presented' = presented \cup {j}
  /\ \A i \in Images : JobOf(i) = j => answer[i] # "none"
  /\ \E l \in Lists(Taken(j)) :
       /\ Len(l) \in {0, Room, Cardinality(Taken(j))}
       /\ shown' = [shown EXCEPT ![j] = l]
  /\ UNCHANGED answer

JobsNext == (\E i \in Images : Answer(i)) \/ (\E j \in Jobs : Present(j))

JobsSpec == JobsInit /\ [][JobsNext]_jobvars
=============================================================================

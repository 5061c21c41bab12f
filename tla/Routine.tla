------------------------------- MODULE Routine -------------------------------
(***************************************************************************)
(* A routine that obtains buffers and handles, works in steps and may fail *)
(* at any of them: process and process_cl of the files of src/iop, and the *)
(* readers and writers of src/imageio/format.  They differ in a row of a   *)
(* table (PixelRoutines, FormatRoutines): the order of the steps, what     *)
(* each reads and writes, and where each failure goes.  When process_cl    *)
(* returns FALSE the pixel pipe, which is not in the repository, runs      *)
(* process on the same input instead.  Pixels are abstracted to where they *)
(* come from: a buffer holds the names of the steps that contributed to it.*)
(***************************************************************************)
EXTENDS RoutineRows

CONSTANT Table  \* <<file, case>> -> routine

VARIABLES
  job,      \* the file and the case
  routine,  \* its row
  path,     \* "gpu" or "cpu"
  at,       \* the step
  held,     \* what is allocated: <<path, buffer>>
  nulls,    \* what should be, but is a NULL that nobody looked at
  made,     \* what the parts of the buffers contain
  scaled,   \* how often processed_maximum was scaled
  missed,   \* a step failed
  misused,  \* released or used although it was not allocated
  outcome   \* "running", "done", "failed" or "killed"

routineVars == <<job, routine, path, at, held, nulls, made, scaled, missed, misused, outcome>>

\* Every row keeps the discipline of RoutineRows.
TableSound == \A j \in DOMAIN Table : Sound(Table[j])

Prog == IF path = "gpu" THEN routine.gpu ELSE routine.cpu
Todo == Prog.steps[at]
Running == outcome = "running"

Contents(b) == Whole(made, b)
Usable(b) == b \in Lent \/ <<path, b>> \in held
Used(s) == s.from \cup {s.buf}

Advance == at' = at + 1 /\ UNCHANGED <<job, routine, path, outcome>>

Obtain ==
  /\ Running /\ at <= Len(Prog.steps) /\ Todo.op = "get"
  /\ held' = held \cup {<<path, Todo.buf>>} /\ nulls' = nulls \ {Todo.buf}
  /\ made' = AllocatedBy(Todo, made)
  /\ Advance /\ UNCHANGED <<scaled, missed, misused>>

Verify ==
  /\ Running /\ at <= Len(Prog.steps) /\ Todo.op = "need" /\ \A b \in Todo.from : Usable(b)
  /\ Advance /\ UNCHANGED <<held, nulls, made, scaled, missed, misused>>

\* A kernel with a NULL argument is not enqueued.
Compute ==
  /\ Running /\ at <= Len(Prog.steps) /\ Todo.op = "do"
  /\ path = "gpu" => \A b \in Todo.from : Usable(b)
  /\ nulls \cap Used(Todo) = {}
  /\ made' = WrittenBy(Todo, made)
  /\ misused' = (misused \/ \E b \in Used(Todo) : ~Usable(b))
  /\ Advance /\ UNCHANGED <<held, nulls, scaled, missed>>

\* The host dereferences the NULL: the program is gone.
Crash ==
  /\ Running /\ at <= Len(Prog.steps) /\ Todo.op = "do" /\ nulls \cap Used(Todo) # {}
  /\ outcome' = "killed"
  /\ UNCHANGED <<job, routine, path, at, held, nulls, made, scaled, missed, misused>>

\* To free a NULL does nothing.
Release ==
  /\ Running /\ at <= Len(Prog.steps) /\ Todo.op = "put"
  /\ held' = held \ {<<path, Todo.buf>>}
  /\ misused' = (misused \/ (~Usable(Todo.buf) /\ Todo.buf \notin nulls))
  /\ Advance /\ UNCHANGED <<nulls, made, scaled, missed>>

ScaleMaximum ==
  /\ Running /\ at <= Len(Prog.steps) /\ Todo.op = "scale" /\ scaled' = scaled + 1
  /\ Advance /\ UNCHANGED <<held, nulls, made, missed, misused>>

\* A failure that nobody notices: the routine goes on.
Miss ==
  /\ Running /\ at <= Len(Prog.steps) /\ Todo.exit \in {"lost", "null"} /\ missed' = TRUE
  /\ nulls' = IF Todo.exit = "null" THEN nulls \cup {Todo.buf} ELSE nulls
  /\ Advance /\ UNCHANGED <<held, made, scaled, misused>>

\* A failure that is noticed.  What process_cl leaves undone the pipe does
\* with process; `in' and `out' are then copied from and to the host.
Fail ==
  /\ Running /\ at <= Len(Prog.steps) /\ Todo.exit \in DOMAIN Prog.exits
  /\ Todo.op = "need" => \E b \in Todo.from : ~Usable(b)
  /\ held' = held \ {<<path, b>> : b \in Prog.exits[Todo.exit].frees}
  /\ IF path = "gpu"
     THEN path' = "cpu" /\ at' = 1 /\ made' = [FreshBuffers(routine) EXCEPT !["in"] = made["in"]]
          /\ missed' = FALSE /\ UNCHANGED outcome
     ELSE /\ outcome' = (IF Prog.exits[Todo.exit].status = 0 THEN "done" ELSE "failed")
          /\ missed' = TRUE /\ UNCHANGED <<path, at, made>>
  /\ UNCHANGED <<job, routine, nulls, scaled, misused>>

Return ==
  /\ Running /\ at = Len(Prog.steps) + 1
  /\ outcome' = (IF Prog.status = 0 THEN "done" ELSE "failed")
  /\ UNCHANGED <<job, routine, path, at, held, nulls, made, scaled, missed, misused>>

\* The pipe begins on the card if it has one that is free.
RoutineInit ==
  /\ job \in DOMAIN Table /\ routine = Table[job] /\ at = 1
  /\ path \in (IF routine.gpu = NoProgram THEN {"cpu"} ELSE {"gpu", "cpu"})
  /\ held = {} /\ nulls = {} /\ made = FreshBuffers(routine) /\ scaled = 0 /\ missed = FALSE /\ misused = FALSE
  /\ outcome = "running"

Returned == ~Running /\ UNCHANGED routineVars

RoutineNext ==
  Obtain \/ Verify \/ Compute \/ Crash \/ Release \/ ScaleMaximum \/ Miss \/ Fail \/ Return \/ Returned

RoutineSpec == RoutineInit /\ [][RoutineNext]_routineVars

----------------------------------------------------------------------------
(* Whichever steps fail, and whether the graphics card did the work, gave  *)
(* up half-way or was not asked: the output that is handed on is made of   *)
(* all its steps and nothing else, no part of it is left unwritten, and    *)
(* processed_maximum has been scaled just as often.  Both paths make it of *)
(* the same, but for the rows of Demosaic that say otherwise: process_cl   *)
(* does not look at the method nor at the smoothing (demosaic.c:753).      *)
ResultComplete ==
  ~Running /\ ~missed => Contents("out") = Promised(routine, path) /\ scaled = routine.scales

(* Whatever way a routine returns, it has given back what it obtained on   *)
(* either path.                                                            *)
NothingLeaks == outcome \in {"done", "failed"} => {h[2] : h \in held} \subseteq routine.keeps

(* The input is still what it was when the routine has returned or the     *)
(* other path begins: blending and process need it.  Nothing is used that  *)
(* has not been asked for or is already released.  An allocation that was  *)
(* asked for, failed and was not looked at is used, and ends the program:  *)
(* that is `killed', and no property denies it.                            *)
InputKept == made["in"] = [p \in {"inner", "border"} |-> {"in"}] /\ ~misused

(* A routine that returns a status returns an error only if something      *)
(* failed, and 0 only if all of the output is there; or all but the last   *)
(* buffer, where nobody looks at what fclose returns (png.c:202,           *)
(* copy.c:98).                                                             *)
LastUnwritten ==
  /\ at <= Len(Prog.steps) /\ Todo.exit \in routine.late
  /\ Contents("out") \cup {Todo.name} = Promised(routine, path)
FailureReported ==
  routine.tells => /\ outcome = "done" => LastUnwritten \/ (~missed /\ Contents("out") = Promised(routine, path))
                   /\ outcome = "failed" => missed
=============================================================================

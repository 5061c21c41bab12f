----------------------------- MODULE RoutineRows -----------------------------
(***************************************************************************)
(* The programs of Routine: the steps of a routine in their order, where   *)
(* the failure of each goes, what its exits release and return; what a     *)
(* step makes of the contents of the buffers; and the outline of a         *)
(* program, which says of every place in it what holds there.              *)
(***************************************************************************)
EXTENDS Integers, Sequences, FiniteSets, TLC

(* Steps.  `exit' is where the failure of a step goes: "none" if nothing   *)
(* can fail, or the library ends the program; "lost" if it goes unnoticed; *)
(* "null" if an allocation leaves a NULL that the host does not look at.   *)
Step(op, buf, from, name, exit) ==
  [op |-> op, buf |-> buf, from |-> from, name |-> name, part |-> {"inner", "border"}, exit |-> exit]
Get(b, exit) == Step("get", b, {}, "", exit)
Upload(b, exit) == Step("get", b, {}, "constants", exit)  \* with its contents
Need(bufs, exit) == Step("need", "none", bufs, "", exit)    \* checks several at once
Put(b) == Step("put", b, {}, "", "none")
Do(name, from, to) == Step("do", to, from, name, "none")
Try(name, from, to, exit) == Step("do", to, from, name, exit)
Inner(step) == [step EXCEPT !.part = {"inner"}]
Border(step) == [step EXCEPT !.part = {"border"}]
Copy(from, to) == Do("copy", {from}, to)
Scale == Step("scale", "none", {}, "", "none")  \* processed_maximum

(* A program: its steps, what each of its exits releases and returns, and  *)
(* what it returns at the end.                                             *)
Exit(frees, status) == [frees |-> frees, status |-> status]
Program(steps, exits, status) == [steps |-> steps, exits |-> exits, status |-> status]
Members(s) == {s[i] : i \in DOMAIN s}
Gets(bufs, exit) == [i \in DOMAIN bufs |-> Get(bufs[i], exit)]
Uploads(bufs, exit) == [i \in DOMAIN bufs |-> Upload(bufs[i], exit)]
Puts(bufs) == [i \in DOMAIN bufs |-> Put(bufs[i])]

(* Nearly every process_cl: each allocation is checked, each kernel may    *)
(* fail, and the label `error' releases whatever is not NULL.              *)
OnDevice(gets, work, puts) ==
  Program(gets \o [i \in DOMAIN work |-> IF work[i].op = "do" THEN [work[i] EXCEPT !.exit = "error"] ELSE work[i]]
            \o Puts(puts), [error |-> Exit(Members(puts), 1)], 0)
Kernels(bufs, work) == OnDevice(Gets(bufs, "error"), work, bufs)
(* process: allocations that are not checked, or checked with a return.    *)
Loops(bufs, work) == Program(Gets(bufs, "null") \o work \o Puts(bufs), << >>, 0)
Checked(bufs, work) ==
  Program(Gets(bufs, "error") \o work \o Puts(bufs), [error |-> Exit(Members(bufs), 1)], 0)

(* A row.  `promise' is what `out' is made of at the end, `onCard' what    *)
(* the card makes it of, `scales' how often processed_maximum is scaled,   *)
(* `keeps' what stays allocated, `tells' whether the result is returned,   *)
(* and `late' the exits that return 0 with the last buffer unwritten.      *)
NoProgram == Program(<< >>, << >>, 0)
OnBoth(gpu, cpu, promise) ==
  [gpu |-> gpu, cpu |-> cpu, promise |-> promise, onCard |-> promise, scales |-> 0, keeps |-> {},
   tells |-> FALSE, late |-> {}]
OnCpu(cpu, promise) == OnBoth(NoProgram, cpu, promise)
Promised(row, on) == IF on = "gpu" THEN row.onCard ELSE row.promise

----------------------------------------------------------------------------
(* The contents of the buffers: for each part of each, the names of the    *)
(* steps it is made of.  Fresh memory holds garbage.                       *)
Lent == {"in", "out"}  \* the pipe's
Buffers(row) == Lent \cup {s.buf : s \in Members(row.gpu.steps \o row.cpu.steps)}
FreshBuffers(row) == [b \in Buffers(row) |-> [p \in {"inner", "border"} |-> IF b = "in" THEN {"in"} ELSE {"garbage"}]]
Whole(parts, b) == parts[b]["inner"] \cup parts[b]["border"]

\* Allocated, and filled if it comes with its contents.
AllocatedBy(s, parts) == [parts EXCEPT ![s.buf] = [p \in DOMAIN @ |-> IF s.name = "" THEN {"garbage"} ELSE {}]]

\* What a stage writes is made of what it reads; a stage that reads what it
\* writes adds to it.  One that leaves the border alone does not look at it
\* either.
Read(s, parts, b) == IF s.part = {"inner"} THEN parts[b]["inner"] ELSE Whole(parts, b)
WrittenBy(s, parts) ==
  LET new == ({s.name} \ {"copy"}) \cup UNION {Read(s, parts, b) : b \in s.from}
  IN  [parts EXCEPT ![s.buf] = [p \in DOMAIN @ |-> IF p \in s.part THEN new ELSE @[p]]]

----------------------------------------------------------------------------
(* The outline of a program: what holds before each of its steps as long   *)
(* as the routine runs.  `sure' is allocated or a NULL not looked at,      *)
(* nothing but `may' is allocated, a failure that went unnoticed left      *)
(* something of `lacking' unallocated, and without such a failure the      *)
(* buffers contain what `made' says.                                       *)
Steps ==
  [op : {"get", "need", "put", "do", "scale"}, buf : STRING, from : SUBSET STRING, name : STRING,
   part : SUBSET {"inner", "border"}, exit : STRING]

\* What is allocated, or NULL, for sure when a step has been done.
Proven(s, on) ==
  CASE s.exit = "lost" -> {}
    [] s.exit # "lost" /\ s.op = "get" -> {s.buf}
    [] s.exit # "lost" /\ (s.op = "need" \/ (s.op = "do" /\ on = "gpu")) -> s.from \ Lent
    [] OTHER -> {}

\* What is found to be allocated when a step has been done: the host does
\* not survive the use of a NULL.
Found(s, on) ==
  IF s.exit \in {"lost", "null"} THEN {} ELSE IF s.op = "do" /\ on = "cpu" THEN (s.from \cup {s.buf}) \ Lent ELSE Proven(s, on)

Start(row) == [sure |-> {}, may |-> {}, lacking |-> {}, made |-> FreshBuffers(row), scaled |-> 0]
After(s, n, on) ==
  [sure |-> IF s.op = "put" THEN n.sure \ {s.buf} ELSE n.sure \cup Proven(s, on),
   may |-> IF s.op = "put" THEN n.may \ {s.buf} ELSE IF s.op = "get" THEN n.may \cup {s.buf} ELSE n.may,
   lacking |-> (IF s.exit \in {"lost", "null"} THEN n.lacking \cup {s.buf} ELSE n.lacking) \ Found(s, on),
   made |-> IF s.op = "get" THEN AllocatedBy(s, n.made) ELSE IF s.op = "do" THEN WrittenBy(s, n.made) ELSE n.made,
   scaled |-> IF s.op = "scale" THEN n.scaled + 1 ELSE n.scaled]

Outline(row, prog, on) ==
  LET holds[i \in 1..(Len(prog.steps) + 1)] ==
        IF i = 1 THEN Start(row) ELSE After(prog.steps[i - 1], holds[i - 1], on)
  IN  holds

(* What the steps, the exits and the end of a program may do where they    *)
(* are: nothing writes the input, nothing is used or released that may not *)
(* be there, what a failure leaves allocated is what the row says, and on  *)
(* the device nothing has been scaled by then.                             *)
Allowed(s, n, on) ==
  /\ s.op \in {"get", "do"} => s.buf # "in"
  /\ s.op = "do" => s.buf \in Lent \cup n.sure /\ (on = "gpu" \/ s.from \subseteq Lent \cup n.sure)
  /\ s.op = "put" => s.buf \in n.sure
  /\ s.exit = "lost" => s.op \in {"get", "do"}
  /\ s.exit = "null" => s.op = "get" /\ on = "cpu"
Leaving(s, n, row, prog, on) ==
  s.exit \in DOMAIN prog.exits => n.may \ prog.exits[s.exit].frees \subseteq row.keeps /\ (on = "gpu" => n.scaled = 0)
Ending(n, row, on) == n.may \subseteq row.keeps /\ Whole(n.made, "out") = Promised(row, on) /\ n.scaled = row.scales

\* A program that tells: every exit of the host returns an error, or is
\* taken when all but the last buffer is written; and what goes unnoticed at
\* first is noticed before the end.
LastOf(s, n, row, on) == n.lacking = {} /\ Whole(n.made, "out") \cup {s.name} = Promised(row, on)
TellsExit(s, n, row, prog, on) ==
  /\ s.exit \in {"lost", "null"} => s.op = "get" /\ s.buf \notin n.may
  /\ s.op = "get" => s.buf \notin n.lacking
  /\ s.exit \in DOMAIN prog.exits => \/ on = "gpu"
                                    \/ prog.exits[s.exit].status # 0
                                    \/ (s.exit \in row.late /\ LastOf(s, n, row, on))
TellsEnd(n, prog) == n.lacking = {} /\ prog.status = 0

SoundProgram(row, prog, on, o) ==
  /\ prog.steps \in Seq(Steps)
  /\ \A i \in 1..Len(prog.steps) :
       /\ Allowed(prog.steps[i], o[i], on) /\ Leaving(prog.steps[i], o[i], row, prog, on)
       /\ row.tells => TellsExit(prog.steps[i], o[i], row, prog, on)
  /\ Ending(o[Len(prog.steps) + 1], row, on)
  /\ row.tells => TellsEnd(o[Len(prog.steps) + 1], prog)
Sound(row) ==
  /\ row.gpu # NoProgram => SoundProgram(row, row.gpu, "gpu", Outline(row, row.gpu, "gpu"))
  /\ SoundProgram(row, row.cpu, "cpu", Outline(row, row.cpu, "cpu"))
=============================================================================

--------------------------- MODULE TicketPromise ---------------------------
(***************************************************************************)
(* What one run of openPablo promises to the script that calls it, without *)
(* saying how: it delivers the sinks of the ticket one after the other and *)
(* ends; it ends with a failure status only when it delivered nothing.     *)
(* Status 0 promises no more than that the run came to its end.            *)
(***************************************************************************)
EXTENDS Integers

CONSTANTS Running,     \* the status of a run that has not ended
          Success,     \* the status of a run that came to its end
          Failures     \* the other ways to end

VARIABLES delivered,   \* number of sinks written so far
          asked,       \* number of sinks of the ticket
          status

promisevars == <<delivered, asked, status>>

PromiseInit == delivered = 0 /\ asked \in Nat /\ status = Running

Deliver ==
  /\ status = Running /\ delivered < asked
  /\ delivered' = delivered + 1
  /\ UNCHANGED <<asked, status>>

Succeed == status = Running /\ status' = Success /\ UNCHANGED <<delivered, asked>>

Fail ==
  /\ status = Running /\ delivered = 0
  /\ status' \in Failures
  /\ UNCHANGED <<delivered, asked>>

PromiseNext == Deliver \/ Succeed \/ Fail

PromiseSpec == PromiseInit /\ [][PromiseNext]_promisevars
Ends == <>(status # Running)
=============================================================================

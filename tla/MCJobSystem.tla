---------------------------- MODULE MCJobSystem ----------------------------
(* An instance of JobSystem for TLC. *)
EXTENDS JobSystem, TLC

CONSTANTS main, worker, again, later, nested, bad, poll, fails, next, early

AddOf(j)  == [op |-> "add", job |-> j]
CallOf(j) == [op |-> "call", job |-> j]
RunNow    == [op |-> "run"]
ResetNow  == [op |-> "reset"]

\* The main thread calls a job that throws, and another until it is done, which adds
\* the next, and runs the system for ever; a worker calls a delayed job, adds jobs,
\* runs the system as well and at last resets it.  One callback is called again, one
\* is delayed, one throws, and one adds that one, runs the system itself, and lets the
\* exception through or throws one of its own.
Program ==
  main   :> <<AddOf(nested), CallOf(fails), CallOf(poll), CallOf(poll)>> @@
  worker :> <<CallOf(early), AddOf(later), AddOf(again), RunNow, ResetNow>> @@
  nested :> <<AddOf(bad), RunNow>> @@
  [j \in Jobs |-> <<>>]

OneRound == [j \in Jobs |-> IF j \in {again, poll} THEN 1 ELSE 0]
Continuations == [j \in Jobs |-> IF j = poll THEN next ELSE NoJob]
=============================================================================

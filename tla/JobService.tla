----------------------------- MODULE JobService -----------------------------
(***************************************************************************)
(* What the Manager promises to a program, without fibers, threads, queues *)
(* or counters: the main callback and the jobs run each at its own pace, a *)
(* job starts after it was scheduled, once, and a wait for a counter to be *)
(* 0 is over only when every job that was scheduled with the counter is    *)
(* done.  Nothing is promised of a wait for another value, of a blocking   *)
(* wait that wakes up though nobody notifies it, nor that what can happen  *)
(* will.                                                                   *)
(***************************************************************************)
EXTENDS Program

CONSTANT Programs    \* the programs: what the code of each does is body

VARIABLES
  program,     \* the one that runs
  status,      \* how far each job has come
  rest,        \* what the code in execution has still to do
  jobCounter,  \* the counter a job was scheduled with
  entries      \* the vector of each Queue

vars == <<program, status, rest, jobCounter, entries>>

Init ==
  /\ program \in Programs
  /\ status = [j \in Jobs |-> "new"]
  /\ rest = [x \in Code |-> IF x = MainJob THEN program.body[x] ELSE <<>>]
  /\ jobCounter = [j \in Jobs |-> NoCounter]
  /\ entries = [c \in Counters |-> <<>>]

\* The next operation of x is one of ops.
Does(x, ops) == rest[x] # <<>> /\ Head(rest[x]).op \in ops
Past(x) == rest' = [rest EXCEPT ![x] = Tail(@)]

Undone(c) == {j \in Jobs : jobCounter[j] = c /\ status[j] \in {"queued", "started"}}

Submit(j, c) ==
  /\ status[j] = "new"
  /\ status' = [status EXCEPT ![j] = "queued"]
  /\ jobCounter' = [jobCounter EXCEPT ![j] = c]
  /\ UNCHANGED <<program, entries>>

ScheduleJob(x) ==
  /\ Does(x, {"schedule"})
  /\ Submit(Head(rest[x]).job, Head(rest[x]).ctr)
  /\ Past(x)

\* A blocking wait has a job of its own, which it need not have scheduled.
ScheduleProxy(x) ==
  /\ Does(x, {"blockingWait"})
  /\ Submit(Head(rest[x]).proxy, NoCounter)
  /\ UNCHANGED rest

WaitForCounter(x) ==
  /\ Does(x, Waits)
  /\ Head(rest[x]).target = 0 => Undone(Head(rest[x]).ctr) = {}
  /\ Past(x)
  /\ UNCHANGED <<program, status, jobCounter, entries>>

\* A blocking wait that sleeps, its job scheduled, may end before that: the cv.wait
\* has no predicate.
WakesUp(x) ==
  /\ Does(x, {"blockingWait"})
  /\ status[Head(rest[x]).proxy] # "new"
  /\ Past(x)
  /\ UNCHANGED <<program, status, jobCounter, entries>>

Step(x) ==
  /\ Does(x, {"step", "execute"})
  /\ rest' = [rest EXCEPT ![x] = Unfold(@, entries[Head(@).ctr])]
  /\ UNCHANGED <<program, status, jobCounter, entries>>

Change(x) ==
  /\ Does(x, {"add", "erase"})
  /\ entries' = [entries EXCEPT ![Head(rest[x]).ctr] = Changed(Head(rest[x]), @)]
  /\ Past(x)
  /\ UNCHANGED <<program, status, jobCounter>>

Other(x) ==
  /\ Does(x, {"new", "notify", "shutdown"})
  /\ Past(x)
  /\ UNCHANGED <<program, status, jobCounter, entries>>

Start(j) ==
  /\ status[j] = "queued"
  /\ status' = [status EXCEPT ![j] = "started"]
  /\ rest' = [rest EXCEPT ![j] = program.body[j]]
  /\ UNCHANGED <<program, jobCounter, entries>>

Finish(j) ==
  /\ status[j] = "started"
  /\ rest[j] = <<>>
  /\ status' = [status EXCEPT ![j] = "done"]
  /\ UNCHANGED <<program, rest, jobCounter, entries>>

Next ==
  \/ \E x \in Code :
       \/ ScheduleJob(x) \/ ScheduleProxy(x) \/ WaitForCounter(x) \/ WakesUp(x)
       \/ Step(x) \/ Change(x) \/ Other(x)
  \/ \E j \in Jobs : Start(j) \/ Finish(j)

Spec == Init /\ [][Next]_vars
=============================================================================

----------------------------- MODULE JobSystem -----------------------------
(***************************************************************************)
(* nmd::job::JobSystem (code/threadjob): a list of jobs that any thread    *)
(* may add to and any thread may Run.  Run takes the whole list and then,  *)
(* without the lock, executes each job of it, deleting the ones that are   *)
(* done and adding the others again.  A callback may itself Add and Run.   *)
(*                                                                         *)
(* A program can also make a job of its own, set a continuation with then  *)
(* and call it with operator(), which executes it and adds the             *)
(* continuation once it is done.  Run calls Execute and not the job's Run, *)
(* so it passes over the continuation of a job in the list, and over the   *)
(* window of a DelayedJob, which is the return value of operator() only.   *)
(*                                                                         *)
(* The lock is held only around one operation on the list, so an action is *)
(* such an operation with the thread-local work before it, or the start or *)
(* the end of a callback.  Reset takes no lock; it is modelled where the   *)
(* program may call it, when no other thread is in a call.                 *)
(***************************************************************************)
EXTENDS Integers, Sequences

CONSTANTS
  Threads, Jobs, NoJob,
  Body,        \* what a thread, or the callback of a job, does: a sequence of Op
  Rounds,      \* how often the callback of a job returns false before it returns true
  Delayed,     \* the DelayedJobs
  Then,        \* _next: the job that then() has made for a job, or NoJob
  Throwing,    \* the jobs whose callback ends in an exception, its own or one it lets through
  Runners      \* the threads that go on to Run for ever, as a main loop does

Op == [op : {"add", "call"}, job : Jobs] \cup [op : {"run", "reset"}]

ASSUME JobSystemAssumption ==
  /\ Threads \cap Jobs = {}
  /\ Body \in [Threads \cup Jobs -> Seq(Op)]
  /\ Rounds \in [Jobs -> Nat]
  /\ Delayed \subseteq Jobs
  /\ NoJob \notin Jobs
  /\ Then \in [Jobs -> Jobs \cup {NoJob}]
  /\ Throwing \subseteq Jobs
  /\ Runners \subseteq Threads

VARIABLES
  jobs,     \* _jobs
  stack,    \* of each thread: its own code and the callbacks it is in, outermost first
  memory,   \* history: what has become of each job
  due,      \* the DelayedJobs whose _start has passed
  rounds    \* how often the callback will still return false

vars == <<jobs, stack, memory, due, rounds>>

\* Code being executed: how many of its operations it has begun, whether it is in
\* Run or in operator(), and jobsToRun from the job in execution on.
Frame == [code : Threads \cup Jobs, ip : Nat, in : {"code", "Run", "operator()"},
          jobsToRun : Seq(Jobs)]

NewFrame(x) == [code |-> x, ip |-> 0, in |-> "code", jobsToRun |-> <<>>]

Init ==
  /\ jobs = <<>>
  /\ stack = [t \in Threads |-> <<NewFrame(t)>>]
  /\ memory = [j \in Jobs |-> "none"]
  /\ due = Jobs \ Delayed
  /\ rounds = Rounds

----------------------------------------------------------------------------
Depth(t) == Len(stack[t])
Top(t) == stack[t][Depth(t)]
SetTop(t, frame) == stack' = [stack EXCEPT ![t][Depth(t)] = frame]
Running(t) == Top(t).in = "Run"
Calling(t) == Top(t).in = "code"
HasNext(t) == Calling(t) /\ Top(t).ip < Len(Body[Top(t).code])
NextOp(t) == Body[Top(t).code][Top(t).ip + 1]
Starts(t, op) == HasNext(t) /\ NextOp(t).op = op
AtEnd(t) == Calling(t) /\ Top(t).ip = Len(Body[Top(t).code])
Past(t) == [Top(t) EXCEPT !.ip = @ + 1]

\* The job whose callback the thread is in is the first of jobsToRun of the
\* frame below; the callback is over and so is its turn.
Below(t) == stack[t][Depth(t) - 1]
Inside(t, from) == Calling(t) /\ Depth(t) > 1 /\ Below(t).in = from
Called(t, from) == Inside(t, from) /\ AtEnd(t)
Pop(t) ==
  stack' = [stack EXCEPT ![t] =
              Append(SubSeq(@, 1, Depth(t) - 2), [Below(t) EXCEPT !.jobsToRun = Tail(@)])]

\* AddJob, AddDelayedJob, ...: a new job at the end of the list.
Add(t) ==
  /\ Starts(t, "add")
  /\ memory[NextOp(t).job] = "none"
  /\ jobs' = Append(jobs, NextOp(t).job)
  /\ memory' = [memory EXCEPT ![NextOp(t).job] = "allocated"]
  /\ SetTop(t, Past(t))
  /\ UNCHANGED <<due, rounds>>

\* A bug: the list is copied and not emptied.
RunCopies(t) ==
  /\ Starts(t, "run") \/ (AtEnd(t) /\ Depth(t) = 1 /\ t \in Runners)
  /\ SetTop(t, [(IF AtEnd(t) THEN Top(t) ELSE Past(t)) EXCEPT
                   !.in = "Run", !.jobsToRun = jobs])
  /\ UNCHANGED <<jobs, memory, due, rounds>>

\* Run: swap the list with an empty one.
Run(t) ==
  /\ Starts(t, "run") \/ (AtEnd(t) /\ Depth(t) = 1 /\ t \in Runners)
  /\ SetTop(t, [(IF AtEnd(t) THEN Top(t) ELSE Past(t)) EXCEPT
                   !.in = "Run", !.jobsToRun = jobs])
  /\ jobs' = <<>>
  /\ UNCHANGED <<memory, due, rounds>>

RunReturns(t) ==
  /\ Running(t)
  /\ Top(t).jobsToRun = <<>>
  /\ SetTop(t, [Top(t) EXCEPT !.in = "code"])
  /\ UNCHANGED <<jobs, memory, due, rounds>>

\* DelayedJob::Execute before its time: false, so the job is added again.
TooEarly(t) ==
  /\ Running(t)
  /\ Top(t).jobsToRun # <<>>
  /\ LET j == Head(Top(t).jobsToRun) IN
       /\ j \notin due
       /\ jobs' = Append(jobs, j)
  /\ SetTop(t, [Top(t) EXCEPT !.jobsToRun = Tail(@)])
  /\ UNCHANGED <<memory, due, rounds>>

\* Execute calls the callback.
Execute(t) ==
  /\ Running(t)
  /\ Top(t).jobsToRun # <<>>
  /\ LET j == Head(Top(t).jobsToRun) IN
       /\ j \in due
       /\ stack' = [stack EXCEPT ![t] = Append(@, NewFrame(j))]
  /\ UNCHANGED <<jobs, memory, due, rounds>>

\* The callback returns, and the job is deleted
Remove(t) ==
  /\ Called(t, "Run")
  /\ Top(t).code \notin Throwing
  /\ rounds[Top(t).code] = 0
  /\ memory' = [memory EXCEPT ![Top(t).code] = "deleted"]
  /\ Pop(t)
  /\ UNCHANGED <<jobs, due, rounds>>

\* A bug: what the callback returns is not looked at.
AgainAny(t) ==
  /\ Called(t, "Run")
  /\ Top(t).code \notin Throwing
  /\ rounds' = [rounds EXCEPT ![Top(t).code] = @ - 1]
  /\ jobs' = Append(jobs, Top(t).code)
  /\ Pop(t)
  /\ UNCHANGED <<memory, due>>

\* A bug: a job that is not done yet is neither deleted nor added.
AgainNot(t) ==
  /\ Called(t, "Run")
  /\ Top(t).code \notin Throwing
  /\ rounds[Top(t).code] > 0
  /\ rounds' = [rounds EXCEPT ![Top(t).code] = @ - 1]
  /\ Pop(t)
  /\ UNCHANGED <<jobs, memory, due>>

\* or added again,
Again(t) ==
  /\ Called(t, "Run")
  /\ Top(t).code \notin Throwing
  /\ rounds[Top(t).code] > 0
  /\ rounds' = [rounds EXCEPT ![Top(t).code] = @ - 1]
  /\ jobs' = Append(jobs, Top(t).code)
  /\ Pop(t)
  /\ UNCHANGED <<memory, due>>

\* or an exception leaves it, from anywhere in it, and the Run that called it: the
\* job and the rest of jobsToRun are neither deleted nor added.  The code that called
\* Run catches it, or lets it through, when it is a callback that throws itself.
Thrown(t, from) == Inside(t, from) /\ Top(t).code \in Throwing

Lost(t) == {Below(t).jobsToRun[i] : i \in DOMAIN Below(t).jobsToRun}

Throws(t) ==
  /\ Thrown(t, "Run")
  /\ memory' = [j \in Jobs |-> IF j \in Lost(t) THEN "leaked" ELSE memory[j]]
  /\ stack' = [stack EXCEPT ![t] =
                 Append(SubSeq(@, 1, Depth(t) - 2),
                        [Below(t) EXCEPT !.in = "code", !.jobsToRun = <<>>])]
  /\ UNCHANGED <<jobs, due, rounds>>

\* operator() of a job of the program's own: Execute calls the callback,
Call(t) ==
  /\ Starts(t, "call")
  /\ NextOp(t).job \in due
  /\ stack' = [stack EXCEPT ![t] =
                 Append(SubSeq(@, 1, Depth(t) - 1) \o <<[Past(t) EXCEPT !.in = "operator()"]>>,
                        NewFrame(NextOp(t).job))]
  /\ UNCHANGED <<jobs, memory, due, rounds>>

\* unless it is a DelayedJob before its time, which returns false.
CallTooEarly(t) ==
  /\ Starts(t, "call")
  /\ NextOp(t).job \notin due
  /\ SetTop(t, Past(t))
  /\ UNCHANGED <<jobs, memory, due, rounds>>

Return(t) ==
  stack' = [stack EXCEPT ![t] =
              Append(SubSeq(@, 1, Depth(t) - 2), [Below(t) EXCEPT !.in = "code"])]

\* If the callback is done the continuation is added;
CallDone(t) ==
  /\ Called(t, "operator()")
  /\ Top(t).code \notin Throwing
  /\ rounds[Top(t).code] = 0
  /\ LET j == Then[Top(t).code] IN
       IF j = NoJob THEN UNCHANGED <<jobs, memory>>
                    ELSE /\ jobs' = Append(jobs, j)
                         /\ memory' = [memory EXCEPT ![j] = "allocated"]
  /\ Return(t)
  /\ UNCHANGED <<due, rounds>>

\* A bug: the continuation is added without a look at what the callback returned.
CallNotDoneAdds(t) ==
  /\ \/ Thrown(t, "operator()")
     \/ Called(t, "operator()") /\ rounds[Top(t).code] > 0
  /\ rounds' = [rounds EXCEPT ![Top(t).code] = IF @ > 0 THEN @ - 1 ELSE @]
  /\ LET j == Then[Top(t).code] IN
       IF j = NoJob THEN UNCHANGED <<jobs, memory>>
                    ELSE /\ jobs' = Append(jobs, j)
                         /\ memory' = [memory EXCEPT ![j] = "allocated"]
  /\ Return(t)
  /\ UNCHANGED due

\* else operator() returns false, or the exception leaves it.
CallNotDone(t) ==
  /\ \/ Thrown(t, "operator()")
     \/ Called(t, "operator()") /\ rounds[Top(t).code] > 0
  /\ rounds' = [rounds EXCEPT ![Top(t).code] = IF @ > 0 THEN @ - 1 ELSE @]
  /\ Return(t)
  /\ UNCHANGED <<jobs, memory, due>>

\* Reset: the list is cleared, the jobs of it are not deleted.
Reset(t) ==
  /\ Starts(t, "reset")
  /\ \A u \in Threads \ {t} : Depth(u) = 1 /\ Calling(u)
  /\ memory' = [j \in Jobs |->
                  IF \E i \in DOMAIN jobs : jobs[i] = j THEN "leaked" ELSE memory[j]]
  /\ jobs' = <<>>
  /\ SetTop(t, Past(t))
  /\ UNCHANGED <<due, rounds>>

TimePasses(j) ==
  /\ j \notin due
  /\ due' = due \cup {j}
  /\ UNCHANGED <<jobs, stack, memory, rounds>>

Step(t) ==
  \/ Add(t) \/ Run(t) \/ RunReturns(t) \/ TooEarly(t) \/ Execute(t)
  \/ Remove(t) \/ Again(t) \/ Throws(t) \/ Reset(t)
  \/ Call(t) \/ CallTooEarly(t) \/ CallDone(t) \/ CallNotDone(t)

Next == (\E t \in Threads : Step(t)) \/ \E j \in Jobs : TimePasses(j)

\* Threads run, callbacks return, and time goes by.
Fairness ==
  /\ \A t \in Threads : WF_vars(Step(t))
  /\ \A j \in Jobs : WF_vars(TimePasses(j))
Spec == Init /\ [][Next]_vars /\ Fairness

----------------------------------------------------------------------------
TypeOK ==
  /\ jobs \in Seq(Jobs)
  /\ stack \in [Threads -> Seq(Frame) \ {<<>>}]
  /\ memory \in [Jobs -> {"none", "allocated", "deleted", "leaked"}]
  /\ due \in SUBSET Jobs
  /\ rounds \in [Jobs -> Nat]

\* Where a pointer to job j is: a place in the list, or in a jobsToRun.
Positions(seq, j) == {i \in DOMAIN seq : seq[i] = j}
Places(j) ==
  {<<i>> : i \in Positions(jobs, j)} \cup
  UNION {UNION {{<<t, d, i>> : i \in Positions(stack[t][d].jobsToRun, j)}
                  : d \in DOMAIN stack[t]} : t \in Threads}

\* threadjob/Job.h:50-61.  When a callback that operator() has called returns true,
\* the continuation has not been added before: a job is over once, unless the program
\* calls it again, or gives two jobs the same continuation.
ContinuedOnce ==
  \A t \in Threads :
    /\ Called(t, "operator()")
    /\ Top(t).code \notin Throwing
    /\ rounds[Top(t).code] = 0
    /\ Then[Top(t).code] # NoJob
    => memory[Then[Top(t).code]] = "none"

\* threadjob/Manager.h:34-51.  There is one pointer to a job that is allocated,
\* and none to one that has been deleted or given up: no job is executed by two
\* Runs, or by the Run that its own callback calls, nor deleted twice.
OneOwner ==
  \A j \in Jobs :
    IF memory[j] = "allocated"
      THEN \E place \in Places(j) : Places(j) = {place}
      ELSE Places(j) = {}

\* threadjob/Manager.h:43-50.  A job that was added is executed until its
\* callback returns true, and then deleted, unless an exception of a job it was
\* taken with, or a Reset, comes first.
JobsEnd == \A j \in Jobs : memory[j] = "allocated" ~> memory[j] \in {"deleted", "leaked"}
=============================================================================

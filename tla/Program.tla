------------------------------ MODULE Program ------------------------------
(***************************************************************************)
(* What a program asks of the Manager: the main callback and the jobs are  *)
(* sequences of operations.  The helpers of the library, WaitForSingle,    *)
(* List and Queue, are what they are in the code: short sequences of       *)
(* operations on a counter they own, which stands for the helper.          *)
(***************************************************************************)
EXTENDS Naturals, Sequences

CONSTANTS
  Jobs,        \* the jobs the program schedules, each at most once
  MainJob,     \* the main callback
  NoJob,
  Counters,    \* the counters, those of Lists and Queues among them
  NoCounter,   \* a null BaseCounter*
  Values       \* the values of a counter

Prio == {"high", "normal", "low", "io"}
Code == Jobs \cup {MainJob}

\* An entry of the vector of a Queue: the counter of its JobInfo is the Queue's.
Entry == [prio : Prio, job : Jobs]

\* "new" constructs a counter at the address of an earlier one, as the stack
\* object of WaitForSingle is.  The condition variable of a blocking wait is
\* named by the job that notifies it.
Op == [op : {"schedule"}, prio : Prio, job : Jobs, ctr : Counters \cup {NoCounter}]
        \cup [op : {"wait"}, ctr : Counters, target : Values]
        \cup [op : {"blockingWait"}, ctr : Counters, target : Values, proxy : Jobs]
        \cup [op : {"notify"}, proxy : Jobs]
        \cup [op : {"new"}, ctr : Counters]
        \cup [op : {"add"}, ctr : Counters, entry : Entry]
        \cup [op : {"step", "execute", "erase"}, ctr : Counters]
        \cup [op : {"shutdown"}, blocking : BOOLEAN]

NoOp == [op |-> "none"]

Schedule(prio, job, ctr) == [op |-> "schedule", prio |-> prio, job |-> job, ctr |-> ctr]
Wait(ctr, target)        == [op |-> "wait", ctr |-> ctr, target |-> target]

\* WaitForCounter(&counter, target, true), and the job it schedules.
BlockingWait(ctr, target, proxy) ==
  [op |-> "blockingWait", ctr |-> ctr, target |-> target, proxy |-> proxy]
WaitForCounter_Proxy(ctr, target, proxy) ==
  <<Wait(ctr, target), [op |-> "notify", proxy |-> proxy]>>

\* The operations that wait for a counter to reach a value.
Waits == {"wait", "blockingWait"}

WaitForSingle(prio, job, ctr) ==
  <<[op |-> "new", ctr |-> ctr], Schedule(prio, job, ctr), Wait(ctr, 0)>>

ListAdd(list, prio, job) == Schedule(prio, job, list)
ListWait(list)           == Wait(list, 0)

QueueAdd(queue, prio, job) ==
  [op |-> "add", ctr |-> queue, entry |-> [prio |-> prio, job |-> job]]
QueueStep(queue)    == [op |-> "step", ctr |-> queue]
QueueExecute(queue) == [op |-> "execute", ctr |-> queue]

\* A bug: Step does not wait for the job.
StepOnUnwaited(queue, entries) ==
  <<Schedule(Head(entries).prio, Head(entries).job, queue), [op |-> "erase", ctr |-> queue]>>

\* Queue::Step of a Queue that is not empty.
StepOn(queue, entries) ==
  <<Schedule(Head(entries).prio, Head(entries).job, queue), Wait(queue, 0),
    [op |-> "erase", ctr |-> queue]>>

\* What is left to do when a "step" or an "execute", the first of rest, is begun:
\* Execute calls Step until it returns false, which it does when there is no job.
Unfold(rest, entries) ==
  LET queue == Head(rest).ctr IN
    IF entries = <<>> THEN Tail(rest)
    ELSE StepOn(queue, entries) \o (IF Head(rest).op = "execute" THEN rest ELSE Tail(rest))

\* The vector of a Queue after "add" and after "erase".
Changed(op, entries) ==
  CASE op.op = "add"   -> Append(entries, op.entry)
    [] op.op = "erase" -> Tail(entries)

\* The jobs, with their priorities, that an operation asks for sooner or later.
Submission(op) ==
  CASE op.op = "schedule"     -> {[prio |-> op.prio, job |-> op.job]}
    [] op.op = "blockingWait" -> {[prio |-> "high", job |-> op.proxy]}
    [] op.op = "add"          -> {op.entry}
    [] OTHER                  -> {}

\* A job is asked for by one operation.
ScheduledOnce(body) ==
  \A x, y \in Code : \A i \in DOMAIN body[x], k \in DOMAIN body[y] :
    \A r \in Submission(body[x][i]), s \in Submission(body[y][k]) :
      r.job = s.job => x = y /\ i = k

\* Nothing protects the vector of a Queue: one code uses it, and erases by Step only.
OnQueue == {"add", "step", "execute"}
QueuesOwned(body) ==
  \A x, y \in Code : \A i \in DOMAIN body[x], k \in DOMAIN body[y] :
    /\ body[x][i].op # "erase"
    /\ body[x][i].op \in OnQueue /\ body[y][k].op \in OnQueue
         /\ body[x][i].ctr = body[y][k].ctr => x = y
=============================================================================

----------------------------- MODULE CounterUse -----------------------------
(***************************************************************************)
(* Fibers using counters: each runs its part of a script of schedule,      *)
(* finish, wait and other operations, so that Increment, Decrement and     *)
(* AddWaitingFiber calls of several fibers interleave at every atomic      *)
(* access.                                                                 *)
(*                                                                         *)
(* What surrounds the counter is reduced to what it does to the counter.   *)
(* "schedule" is ScheduleJob of a job with the counter, up to the job      *)
(* being in its queue; "finish" is the end of JobInfo::Execute of such a   *)
(* job; "wait" is WaitForCounter.  A counter can also be used as a latch:  *)
(* "increment" and "decrement" are the public Increment and Decrement, and *)
(* "submit" a ScheduleJob of a job without counter that calls Decrement as *)
(* it ends, which is again "finish".  A fiber whose AddWaitingFiber returned false leaves *)
(* its thread and is stored; a stored fiber named by a ready list is       *)
(* resumed.  Scheduler has the threads, queues and switches behind this.   *)
(***************************************************************************)
EXTENDS BaseCounter, Sequences

CONSTANT Scripts   \* each has the operations of every fiber, a sequence of Op

Op == [op : {"schedule", "submit", "finish"}, ctr : Counters]
        \cup [op : {"increment", "decrement"}, ctr : Counters, by : Unit]
        \cup [op : {"wait"}, ctr : Counters, target : Unit]
NoOp == [op |-> "none"]

ASSUME ScriptAssumption == Scripts \subseteq [Fibers -> Seq(Op)]

VARIABLES
  script,    \* the script that is run
  todo,      \* the operations a fiber has not started
  doing,     \* the operation a fiber is in
  parked,    \* the fibers that are stored and not resumed
  ready,     \* how many entries of the threads' _readyFibers name a fiber
  jobs,      \* the jobs of each counter that are in a queue
  reached    \* history: the target of a wait has been in effect since it began

useVars == <<todo, doing, parked, ready, jobs>>
vars == <<script, counterVars, useVars, reached>>

Init ==
  /\ CounterInit
  /\ script \in Scripts
  /\ todo    = script
  /\ doing   = [f \in Fibers |-> NoOp]
  /\ parked  = {}
  /\ ready   = [f \in Fibers |-> 0]
  /\ jobs    = [c \in Counters |-> 0]
  /\ reached = [f \in Fibers |-> FALSE]

----------------------------------------------------------------------------
Doing(f, op) == doing[f].op = op

\* f starts its next operation, which is an op.
Start(f, op) ==
  /\ Doing(f, "none")
  /\ todo[f] # <<>>
  /\ Head(todo[f]).op = op
  /\ todo' = [todo EXCEPT ![f] = Tail(@)]

Begin(f) == doing' = [doing EXCEPT ![f] = Head(todo[f])]
End(f)   == doing' = [doing EXCEPT ![f] = NoOp]

\* ScheduleJob: the counter is incremented, then the job enters its queue.
Schedule(f) ==
  /\ Start(f, "schedule")
  /\ Increment(f, Head(todo[f]).ctr, 1)
  /\ Begin(f)
  /\ UNCHANGED <<parked, ready, jobs>>

Enqueue(f) ==
  /\ Doing(f, "schedule")
  /\ At(f, "idle")
  /\ jobs' = [jobs EXCEPT ![doing[f].ctr] = @ + 1]
  /\ End(f)
  /\ UNCHANGED <<counterVars, todo, parked, ready>>

Submit(f) ==
  /\ Start(f, "submit")
  /\ jobs' = [jobs EXCEPT ![Head(todo[f]).ctr] = @ + 1]
  /\ UNCHANGED <<counterVars, doing, parked, ready>>

\* The public operations: by any number, and not on behalf of a job.
Change(f) ==
  /\ \/ Start(f, "increment") /\ Increment(f, Head(todo[f]).ctr, Head(todo[f]).by)
     \/ Start(f, "decrement") /\ Decrement(f, Head(todo[f]).ctr, Head(todo[f]).by)
  /\ Begin(f)
  /\ UNCHANGED <<parked, ready, jobs>>

\* The callback of a job has returned: Execute decrements the job's counter.
Finish(f) ==
  /\ Start(f, "finish")
  /\ LET c == Head(todo[f]).ctr IN
       /\ jobs[c] > 0
       /\ jobs' = [jobs EXCEPT ![c] = @ - 1]
       /\ Decrement(f, c, 1)
  /\ Begin(f)
  /\ UNCHANGED <<parked, ready>>

Finished(f) ==
  /\ doing[f].op \in {"finish", "increment", "decrement"}
  /\ At(f, "idle")
  /\ End(f)
  /\ UNCHANGED <<counterVars, todo, parked, ready, jobs>>

\* WaitForCounter returns at once when the counter has the target value ...
WaitNot(f) ==
  /\ Start(f, "wait")
  /\ counter[Head(todo[f]).ctr] = Head(todo[f]).target
  /\ UNCHANGED <<counterVars, doing, parked, ready, jobs>>

\* ... and otherwise registers the current fiber;
Wait(f) ==
  /\ Start(f, "wait")
  /\ counter[Head(todo[f]).ctr] # Head(todo[f]).target
  /\ StartAdd(f, Head(todo[f]).ctr, f, Head(todo[f]).target)
  /\ Begin(f)
  /\ UNCHANGED <<parked, ready, jobs>>

\* it returns if the target was reached meanwhile,
WaitDone(f) ==
  /\ At(f, "added")
  /\ Return(f)
  /\ End(f)
  /\ UNCHANGED <<counter, slotVars, todo, parked, ready, jobs>>

\* it throws, ending what f was to do, if every slot is taken,
WaitThrows(f) ==
  /\ At(f, "full")
  /\ Return(f)
  /\ End(f)
  /\ todo' = [todo EXCEPT ![f] = <<>>]
  /\ UNCHANGED <<counter, slotVars, parked, ready, jobs>>

\* and else the fiber is switched away and stored,
Park(f) ==
  /\ At(f, "pending")
  /\ Return(f)
  /\ parked' = parked \cup {f}
  /\ UNCHANGED <<counter, slotVars, todo, doing, ready, jobs>>

\* until a thread finds it in its ready list.
Resume(f) ==
  /\ f \in parked
  /\ ready[f] > 0
  /\ parked' = parked \ {f}
  /\ ready' = [ready EXCEPT ![f] = @ - 1]
  /\ End(f)
  /\ UNCHANGED <<counterVars, todo, jobs>>

Take(f) ==
  /\ CheckAcquire(f)
  /\ ready' = [ready EXCEPT ![Handed(f)] = @ + 1]
  /\ UNCHANGED <<todo, doing, parked, jobs>>

InCounter(f) == CounterStep(f) /\ UNCHANGED useVars

Step(f) ==
  \/ Schedule(f) \/ Enqueue(f) \/ Submit(f) \/ Change(f) \/ Finish(f) \/ Finished(f)
  \/ WaitNot(f) \/ Wait(f) \/ WaitDone(f) \/ WaitThrows(f)
  \/ Park(f) \/ Resume(f) \/ Take(f) \/ InCounter(f)

\* The counter f waits for has the target, or an Increment or Decrement that gave
\* it this value is still going through the slots.
InEffect(f) ==
  \/ counter[doing[f].ctr] = doing[f].target
  \/ \E g \in Fibers :
       /\ call[g].ctr = doing[f].ctr
       /\ call[g].value = doing[f].target
       /\ call[g].pc \in {"checkFree", "checkInUse", "checkTarget", "checkAcquire"}

\* The history: reset outside a wait, set when the target is in effect.
Observe ==
  /\ UNCHANGED script
  /\ reached' = [f \in Fibers |->
       doing'[f].op = "wait" /\ (reached[f] \/ InEffect(f)')]

AllDone == \A f \in Fibers : todo[f] = <<>> /\ Doing(f, "none")
Terminated == AllDone /\ UNCHANGED vars

Next == (\E f \in Fibers : Step(f) /\ Observe) \/ Terminated

\* Every thread keeps running, so a fiber that can take a step takes one.
Fairness == \A f \in Fibers : WF_vars(Step(f) /\ Observe)
Spec == Init /\ [][Next]_vars /\ Fairness

----------------------------------------------------------------------------
TypeOK ==
  /\ CounterTypeOK
  /\ script \in [Fibers -> Seq(Op)]
  /\ todo \in [Fibers -> Seq(Op)]
  /\ doing \in [Fibers -> Op \cup {NoOp}]
  /\ parked \in SUBSET Fibers
  /\ ready \in [Fibers -> Nat]
  /\ jobs \in [Counters -> Nat]
  /\ reached \in [Fibers -> BOOLEAN]

\* The waits that fiber f makes in the script.
WaitsOf(f) == {i \in DOMAIN script[f] : script[f][i].op = "wait"}

\* No two waits of the script are for the same counter.
WaitsAlone ==
  \A f, g \in Fibers : \A i \in WaitsOf(f), j \in WaitsOf(g) :
    script[f][i].ctr = script[g][j].ctr => f = g /\ i = j

\* Counter.cpp:102-129.  A wait ends only when the counter has had the target
\* since it began, or had it shortly before and the call that gave it this value
\* is not over.
WaitEndsAtTarget ==
  [][WaitsAlone => \A f \in Fibers :
       Doing(f, "wait") /\ doing'[f].op = "none" /\ ~At(f, "full") => reached[f]]_vars

\* ManagerJobs.cpp:131-133,59-64.  An entry of a ready list is the only one for
\* its fiber and the fiber is on its way to sleep or asleep, so the flag the
\* entry points to is still allocated and the fiber is resumed once.
WokenOnce ==
  WaitsAlone => \A f \in Fibers : ready[f] > 0 =>
    /\ ready[f] = 1
    /\ \/ f \in parked
       \/ call[f].pc \in {"addLoad", "addInUse", "addTarget", "addAcquire", "pending"}

\* Counter.cpp:92-99,121-127.  A sleeping fiber is either still registered in a
\* slot or named by a ready list.
NoLostWaiter ==
  WaitsAlone => \A f \in parked :
    ready[f] > 0 \/ \E s \in Slots : ~inUse[s] /\ fiberIndex[s] = f

\* A fiber that waits for a counter its jobs bring to the target returns.
WaitersReturn == \A f \in Fibers : Doing(f, "wait") ~> ~Doing(f, "wait")

\* ManagerJobs.cpp:117-139.  So it is when no other wait has to do with the
\* counter.
LoneWaiterReturns == WaitsAlone => WaitersReturn
=============================================================================

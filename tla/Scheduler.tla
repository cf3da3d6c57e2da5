----------------------------- MODULE Scheduler -----------------------------
(***************************************************************************)
(* nmd::fiber::Manager (code/fiber/Manager*.cpp): threads that run fibers, *)
(* fibers that run jobs, jobs that wait for counters.                      *)
(*                                                                         *)
(* A worker fiber loops over GetNextJob and Execute.  A job that waits     *)
(* leaves its fiber asleep and the thread goes on with an idle fiber; the  *)
(* call that brings the counter to the target puts the sleeper in the      *)
(* ready list of its own thread, whose GetNextJob switches to it and       *)
(* leaves the fiber it was on in the pool.  A fiber switched away from is  *)
(* saved only after the switch, so what is to be done with it (idle again, *)
(* or marked stored) is left in the thread's TLS for the next fiber, which *)
(* does it in CleanupPreviousFiber.                                        *)
(*                                                                         *)
(* An action is one access to state another thread can reach - a queue, an *)
(* idle flag, a stored flag, a counter, the TLS a fiber can keep a pointer *)
(* to - with the thread-local work around it.  BaseCounter has the calls   *)
(* on counters.  The queues are FIFO with atomic operations.               *)
(***************************************************************************)
EXTENDS BaseCounter, SequencesExt

CONSTANTS
  NumThreads,   \* the most ManagerOptions::NumThreads asks for; one more does IO
  NumFibers,    \* ManagerOptions::NumFibers
  QueueSize,    \* the size of each queue
  Jobs, MainJob, NoJob,
  Programs      \* the programs, with their options: a set of records

Threads    == 0 .. NumThreads
MainThread == 0
IOThread   == NumThreads
NoThread   == -1

INSTANCE Program WITH Values <- Unit

\* threads: those that are made, by Run or by hand.
ProgramType(p) ==
  /\ p.body \in [Code -> Seq(Op)]
  /\ MainThread \in p.threads /\ p.threads \subseteq Threads
  /\ p.shutdownAfterMain \in BOOLEAN
  /\ ScheduledOnce(p.body) /\ QueuesOwned(p.body)
  /\ \A x \in Code : \A i \in DOMAIN p.body[x] :
       LET op == p.body[x][i] IN
         op.op = "blockingWait" =>
           p.body[op.proxy] = WaitForCounter_Proxy(op.ctr, op.target, op.proxy)

ASSUME SchedulerAssumption ==
  /\ NumThreads \in Nat \ {0}
  /\ NumFibers \in Nat \ {0}
  /\ Fibers = 0 .. NumFibers - 1
  /\ IsFiniteSet(Jobs) /\ MainJob \notin Jobs /\ NoJob \notin Code
  /\ QueueSize \in [Prio -> Nat]
  /\ \A p \in Programs : ProgramType(p)

VARIABLES
  program,       \* the program that runs: body, threads, shutdownAfterMain
  queue,         \* the four job queues
  jobCounter,    \* the _counter of the JobInfo in a queue or in execution
  entries,       \* the _queue of the Queue whose counter it is
  idle,          \* _idleFibers
  tls,           \* the TLS of each thread
  stored,        \* the atomic_bool of a fiber's wait: "none" when not allocated
  running,       \* the fiber a thread is on, NoFiber on its thread fiber
  home,          \* the thread whose thread fiber is the _returnFiber of a fiber
  tpc,           \* where a thread fiber is
  probe,         \* the index FindFreeFiber looks at on a thread
  fpc,           \* where a fiber is
  frame,         \* the locals of a fiber
  shuttingDown,  \* _shuttingDown
  failed,        \* an exception has left a fiber: the program is terminated
  status         \* history: how far each job has come

\* What a fiber leaves alone while it stays on its thread, while it does not
\* move itself, and while it does not run jobs or shut down.
threadVars  == <<idle, tls, running, home, tpc, probe>>
fiberVars   == <<stored, fpc, frame>>
programVars == <<program, queue, jobCounter, entries, shuttingDown, failed, status>>

schedVars == <<threadVars, fiberVars, programVars>>
vars == <<counterVars, schedVars>>

\* cur, prev, dest: _currentFiberIndex, _previousFiberIndex, _previousFiber-
\* Destination; _previousFiberStored is stored[prev].  ready: _readyFibers.
TLS == [cur : Fibers \cup {NoFiber}, prev : Fibers \cup {NoFiber},
        dest : {"none", "waiting", "pool"}, ready : Seq(Fibers)]

\* job: the job in execution; op: the operation it is in; rest: those it has not
\* begun; tls: the thread whose TLS pointer the worker loop holds; scan: the
\* position in the walk over _readyFibers.
Frame == [job : Code \cup {NoJob}, op : Op \cup {NoOp}, rest : Seq(Op),
          tls : Threads, scan : Nat]

ThreadPC == {"find", "fibers", "exited", "join", "returned"}
FiberPC ==
  { "fresh", "freshClear", "loop", "io", "high", "ready", "switch",
    "inGet", "inGetClear", "normal", "low", "body", "enqueue", "end",
    "adding", "find", "inWait", "inWaitClear", "findLast", "over",
    "lookAgain", "cvEnter", "cvWait", "cvWoken", "joining" }

\* Run makes the threads, waits for none of them, and takes a fiber for main: each
\* thread that has taken its own by then has one of those before it.
FirstFibers(threads) ==
  {first \in [Threads -> Fibers \cup {NoFiber}] :
     /\ first[MainThread] # NoFiber
     /\ \A f \in 0 .. first[MainThread] : \E t \in threads : first[t] = f
     /\ \A t \in Threads : first[t] # NoFiber => t \in threads /\ first[t] <= first[MainThread]
     /\ \A t, u \in Threads : first[t] = first[u] => t = u \/ first[t] = NoFiber}

\* main is called; the threads that have no fiber yet start when they start.
Init ==
  /\ CounterInit
  /\ program \in Programs
  /\ queue   = [p \in Prio |-> <<>>]
  /\ jobCounter = [j \in Jobs |-> NoCounter]
  /\ entries = [c \in Counters |-> <<>>]
  /\ running \in FirstFibers(program.threads)
  /\ idle    = [f \in Fibers |-> f > running[MainThread]]
  /\ tls     = [t \in Threads |->
                 [cur |-> running[t], prev |-> NoFiber, dest |-> "none", ready |-> <<>>]]
  /\ stored  = [f \in Fibers |-> "none"]
  /\ home    = [f \in Fibers |->
                 IF idle[f] THEN NoThread ELSE CHOOSE t \in Threads : running[t] = f]
  /\ tpc     = [t \in Threads |-> CASE t \notin program.threads -> "exited"
                                    [] running[t] # NoFiber -> "fibers"
                                    [] OTHER -> "find"]
  /\ probe   = [t \in Threads |-> 0]
  /\ fpc     = [f \in Fibers |-> IF f = running[MainThread] THEN "body" ELSE "fresh"]
  /\ frame   = [f \in Fibers |->
                 [job |-> IF f = running[MainThread] THEN MainJob ELSE NoJob,
                  op |-> NoOp,
                  rest |-> IF f = running[MainThread] THEN program.body[MainJob] ELSE <<>>,
                  tls |-> MainThread, scan |-> 0]]
  /\ shuttingDown = FALSE
  /\ failed = FALSE
  /\ status = [j \in Jobs |-> "new"]

----------------------------------------------------------------------------
(* In what follows thread t is on fiber f.                                 *)

On(f, pc) == fpc[f] = pc
Jump(f, pc) == fpc' = [fpc EXCEPT ![f] = pc]

\* Fiber::SwitchTo, from the thread fiber of t to f.
SwitchTo(t, f) ==
  /\ running' = [running EXCEPT ![t] = f]
  /\ home' = [home EXCEPT ![f] = t]

NextProbe(t) ==
  /\ probe' = [probe EXCEPT ![t] = (@ + 1) % NumFibers]
  /\ UNCHANGED <<idle, tls, running, home>>

\* FindFreeFiber: probe the idle flags from 0 on, round and round, and switch
\* to the first fiber whose flag this thread is the one to clear.
FindFreeFiber(t) ==
  IF idle[probe[t]]
    THEN /\ idle'    = [idle EXCEPT ![probe[t]] = FALSE]
         /\ tls'     = [tls EXCEPT ![t].cur = probe[t]]
         /\ SwitchTo(t, probe[t])
         /\ probe'   = [probe EXCEPT ![t] = 0]
    ELSE NextProbe(t)

\* ThreadCallback_Worker: a new thread takes its first fiber.
StartThread(t) ==
  /\ tpc[t] = "find"
  /\ FindFreeFiber(t)
  /\ tpc' = [tpc EXCEPT ![t] = IF idle[probe[t]] THEN "fibers" ELSE @]
  /\ UNCHANGED <<counterVars, fiberVars, programVars>>

\* SwitchBack: the thread fiber f came from goes on, in ThreadCallback_Worker,
\* which returns, or in Run, which joins the other threads.
SwitchBack(t, f) ==
  /\ running' = [running EXCEPT ![t] = NoFiber]
  /\ tpc' = [tpc EXCEPT ![home[f]] = IF home[f] = MainThread THEN "join" ELSE "exited"]
  /\ Jump(f, "over")

\* The loop that joins the threads 1, 2, ... is over when all of them have exited.
AllJoined == \A u \in Threads \ {MainThread} : tpc[u] = "exited"

Run(t) ==
  /\ tpc[t] = "join"
  /\ AllJoined
  /\ tpc' = [tpc EXCEPT ![t] = "returned"]
  /\ UNCHANGED <<counterVars, idle, tls, running, home, probe, fiberVars, programVars>>

----------------------------------------------------------------------------
(* CleanupPreviousFiber: a fiber has just been switched to.  Coming from   *)
(* GetNextJob it uses the TLS pointer it had when it was switched away.    *)

AfterCleanup == [fresh |-> "loop", inGet |-> "normal", inWait |-> "body",
                 freshClear |-> "loop", inGetClear |-> "normal", inWaitClear |-> "body"]
Clearing == [fresh |-> "freshClear", inGet |-> "inGetClear", inWait |-> "inWaitClear"]

CleanupTLS(t, f) == IF fpc[f] \in {"inGet", "inGetClear"} THEN frame[f].tls ELSE t

\* The cleanup is over; after that of a wait the wait is over as well.
CleanupEnds(f) ==
  /\ Jump(f, AfterCleanup[fpc[f]])
  /\ frame' = IF AfterCleanup[fpc[f]] = "body" THEN [frame EXCEPT ![f].op = NoOp] ELSE frame

\* A bug: a waiting fiber is never marked stored.
CleanupStoreIdleOnly(t, f) ==
  /\ fpc[f] \in {"fresh", "inGet", "inWait"}
  /\ LET prev == tls[CleanupTLS(t, f)].prev
         dest == tls[CleanupTLS(t, f)].dest
     IN /\ IF dest = "none" THEN CleanupEnds(f)
                            ELSE Jump(f, Clearing[fpc[f]]) /\ UNCHANGED frame
        /\ idle' = IF dest = "pool" THEN [idle EXCEPT ![prev] = TRUE] ELSE idle
  /\ UNCHANGED <<counterVars, tls, stored, running, home, tpc, probe, programVars>>

CleanupStore(t, f) ==
  /\ fpc[f] \in {"fresh", "inGet", "inWait"}
  /\ LET prev == tls[CleanupTLS(t, f)].prev
         dest == tls[CleanupTLS(t, f)].dest
     IN /\ IF dest = "none" THEN CleanupEnds(f)
                            ELSE Jump(f, Clearing[fpc[f]]) /\ UNCHANGED frame
        /\ idle' = IF dest = "pool" THEN [idle EXCEPT ![prev] = TRUE] ELSE idle
        /\ stored' = IF dest = "waiting" THEN [stored EXCEPT ![prev] = "yes"] ELSE stored
  /\ UNCHANGED <<counterVars, tls, running, home, tpc, probe, programVars>>

CleanupClear(t, f) ==
  /\ fpc[f] \in {"freshClear", "inGetClear", "inWaitClear"}
  /\ tls' = [tls EXCEPT ![CleanupTLS(t, f)].prev = NoFiber,
                        ![CleanupTLS(t, f)].dest = "none"]
  /\ CleanupEnds(f)
  /\ UNCHANGED <<counterVars, idle, stored, running, home, tpc, probe, programVars>>

----------------------------------------------------------------------------
(* FiberCallback_Worker and GetNextJob.                                    *)

\* A bug: the loop keeps the TLS pointer it began with.
NextTurnStale(t, f, pc) ==
  /\ Jump(f, pc)
  /\ UNCHANGED <<frame, running, tpc>>

NextTurn(t, f, pc) ==
  /\ Jump(f, pc)
  /\ frame' = [frame EXCEPT ![f].tls = t]
  /\ UNCHANGED <<running, tpc>>

\* A bug: the IO thread is not told to stop.
LoopForIO(t, f) ==
  /\ On(f, "loop")
  /\ IF shuttingDown /\ t # IOThread
       THEN SwitchBack(t, f) /\ UNCHANGED frame
       ELSE NextTurn(t, f, IF t = IOThread THEN "io" ELSE "high")
  /\ UNCHANGED <<counterVars, idle, tls, stored, home, probe, programVars>>

Loop(t, f) ==
  /\ On(f, "loop")
  /\ IF shuttingDown
       THEN SwitchBack(t, f) /\ UNCHANGED frame
       ELSE NextTurn(t, f, IF t = IOThread THEN "io" ELSE "high")
  /\ UNCHANGED <<counterVars, idle, tls, stored, home, probe, programVars>>

\* A dequeue that succeeds starts a job; one that fails leads to pc.
Dequeue(f, p, pc) ==
  /\ IF queue[p] # <<>>
       THEN /\ queue'  = [queue EXCEPT ![p] = Tail(@)]
            /\ frame'  = [frame EXCEPT ![f].job = Head(queue[p]),
                                       ![f].rest = program.body[Head(queue[p])]]
            /\ status' = [status EXCEPT ![Head(queue[p])] = "started"]
            /\ Jump(f, "body")
       ELSE /\ Jump(f, pc)
            /\ UNCHANGED <<queue, frame, status>>
  /\ UNCHANGED <<counterVars, stored, program, jobCounter, entries, shuttingDown, failed,
                 threadVars>>

DequeueIO(t, f)     == On(f, "io")     /\ Dequeue(f, "io", "loop")

\* A bug: the ready fibers are passed over.
DequeueHighOnly(t, f) == On(f, "high") /\ Dequeue(f, "high", "normal")

DequeueHigh(t, f)   == On(f, "high")   /\ Dequeue(f, "high", "ready")
DequeueNormal(t, f) == On(f, "normal") /\ Dequeue(f, "normal", "low")
DequeueLow(t, f)    == On(f, "low")    /\ Dequeue(f, "low", "loop")

\* The two outcomes of a turn that finds no stored fiber.
ReadyEnds(f) ==
  /\ Jump(f, "normal")
  /\ frame' = [frame EXCEPT ![f].scan = 0]
  /\ UNCHANGED <<tls, stored>>

ReadySkips(f) ==
  /\ frame' = [frame EXCEPT ![f].scan = @ + 1]
  /\ UNCHANGED <<tls, stored, fpc>>

\* A bug: the flag is deleted and its entry not erased.
ReadyTakesKept(t, f, i) ==
  /\ stored' = [stored EXCEPT ![tls[t].ready[i]] = "none"]
  /\ tls' = [tls EXCEPT ![t].cur = tls[t].ready[i], ![t].prev = tls[t].cur, ![t].dest = "pool"]
  /\ Jump(f, "switch")
  /\ frame' = [frame EXCEPT ![f].scan = 0]

\* The third: the entry is erased and the TLS updated for the switch.
ReadyTakes(t, f, i) ==
  /\ stored' = [stored EXCEPT ![tls[t].ready[i]] = "none"]
  /\ tls' = [tls EXCEPT ![t] = [cur |-> tls[t].ready[i], prev |-> tls[t].cur, dest |-> "pool",
                                ready |-> RemoveAt(tls[t].ready, i)]]
  /\ Jump(f, "switch")
  /\ frame' = [frame EXCEPT ![f].scan = 0]

\* One turn of the walk over _readyFibers, or its end.
ScanReady(t, f) ==
  /\ On(f, "ready")
  /\ LET ready == tls[t].ready
         i     == frame[f].scan + 1
     IN \/ i > Len(ready) /\ ReadyEnds(f)
        \/ i <= Len(ready) /\ stored[ready[i]] # "yes" /\ ReadySkips(f)
        \/ i <= Len(ready) /\ stored[ready[i]] = "yes" /\ ReadyTakes(t, f, i)
  /\ UNCHANGED <<counterVars, idle, running, home, tpc, probe, programVars>>

SwitchToReady(t, f) ==
  /\ On(f, "switch")
  /\ SwitchTo(t, tls[t].cur)
  /\ Jump(f, "inGet")
  /\ UNCHANGED <<counterVars, idle, tls, stored, tpc, probe, frame, programVars>>

----------------------------------------------------------------------------
(* What jobs do.                                                           *)

CurOp(f)   == frame[f].op
AtEnd(f)   == On(f, "body") /\ frame[f].rest = <<>>
NextOp(f)  == Head(frame[f].rest)
Starts(f, op) == On(f, "body") /\ frame[f].rest # <<>> /\ NextOp(f).op = op

\* f begins its next operation, ends the one it is in, does the next one whole.
Begin(f) == frame' = [frame EXCEPT ![f].op = NextOp(f), ![f].rest = Tail(@)]
End(f)   == frame' = [frame EXCEPT ![f].op = NoOp]
Skip(f)  == frame' = [frame EXCEPT ![f].rest = Tail(@)]

\* A bug: the counter is not incremented.
ScheduleUncount(t, f) ==
  /\ Starts(f, "schedule")
  /\ NextOp(f).ctr # NoCounter
  /\ Begin(f)
  /\ Jump(f, "enqueue")
  /\ UNCHANGED <<counterVars, stored, threadVars, programVars>>

\* ScheduleJob, first half: a job with a counter increments it.
ScheduleCount(t, f) ==
  /\ Starts(f, "schedule")
  /\ NextOp(f).ctr # NoCounter
  /\ Increment(f, NextOp(f).ctr, 1)
  /\ Begin(f)
  /\ Jump(f, "enqueue")
  /\ UNCHANGED <<stored, threadVars, programVars>>

\* A job without one goes straight to its queue.
ScheduleUncounted(t, f) ==
  /\ Starts(f, "schedule")
  /\ NextOp(f).ctr = NoCounter
  /\ Begin(f)
  /\ Jump(f, "enqueue")
  /\ UNCHANGED <<counterVars, stored, threadVars, programVars>>

\* The ScheduleJob f is in: its own, or that of the blocking WaitForCounter.
Submitted(f) ==
  IF CurOp(f).op = "schedule" THEN CurOp(f) ELSE Schedule("high", CurOp(f).proxy, NoCounter)

\* Second half: a full queue is an exception, EX_JOB_QUEUE_FULL.
ScheduleJob(t, f) ==
  /\ On(f, "enqueue")
  /\ At(f, "idle")
  /\ LET s == Submitted(f) IN
       IF Len(queue[s.prio]) < QueueSize[s.prio]
         THEN /\ queue'  = [queue EXCEPT ![s.prio] = Append(@, s.job)]
              /\ jobCounter' = [jobCounter EXCEPT ![s.job] = s.ctr]
              /\ status' = [status EXCEPT ![s.job] = "queued"]
              /\ IF s = CurOp(f) THEN End(f) /\ Jump(f, "body")
                                 ELSE Jump(f, "cvEnter") /\ UNCHANGED frame
              /\ UNCHANGED failed
         ELSE /\ failed' = TRUE
              /\ UNCHANGED <<queue, jobCounter, status, fpc, frame>>
  /\ UNCHANGED <<counterVars, stored, program, entries, shuttingDown, threadVars>>

\* WaitForCounter: nothing to wait for,
WaitNot(t, f) ==
  /\ \E op \in Waits : Starts(f, op)
  /\ counter[NextOp(f).ctr] = NextOp(f).target
  /\ Skip(f)
  /\ UNCHANGED <<counterVars, stored, fpc, threadVars, programVars>>

\* A bug: the previous fiber of the TLS is registered.
WaitForCounterPrev(t, f) ==
  /\ Starts(f, "wait")
  /\ counter[NextOp(f).ctr] # NextOp(f).target
  /\ StartAdd(f, NextOp(f).ctr, tls[t].prev, NextOp(f).target)
  /\ stored' = [stored EXCEPT ![f] = "no"]
  /\ Begin(f)
  /\ Jump(f, "adding")
  /\ UNCHANGED <<threadVars, programVars>>

\* or the fiber in the TLS is registered with a new flag.
WaitForCounter(t, f) ==
  /\ Starts(f, "wait")
  /\ counter[NextOp(f).ctr] # NextOp(f).target
  /\ StartAdd(f, NextOp(f).ctr, tls[t].cur, NextOp(f).target)
  /\ stored' = [stored EXCEPT ![f] = "no"]
  /\ Begin(f)
  /\ Jump(f, "adding")
  /\ UNCHANGED <<threadVars, programVars>>

WaitDone(t, f) ==
  /\ On(f, "adding")
  /\ At(f, "added")
  /\ Return(f)
  /\ stored' = [stored EXCEPT ![f] = "none"]
  /\ End(f)
  /\ Jump(f, "body")
  /\ UNCHANGED <<counter, slotVars, threadVars, programVars>>

WaitThrows(t, f) ==
  /\ On(f, "adding")
  /\ At(f, "full")
  /\ Return(f)
  /\ failed' = TRUE
  /\ UNCHANGED <<counter, slotVars, program, queue, jobCounter, entries, shuttingDown,
                 status, threadVars, fiberVars>>

\* A bug: the fiber is marked stored while the thread is still on it.
WaitLeavesStored(t, f) ==
  /\ On(f, "adding")
  /\ At(f, "pending")
  /\ Return(f)
  /\ tls' = [tls EXCEPT ![t].prev = tls[t].cur, ![t].dest = "none"]
  /\ stored' = [stored EXCEPT ![f] = "yes"]
  /\ Jump(f, "find")
  /\ UNCHANGED <<counter, slotVars, idle, running, home, tpc, probe, frame, programVars>>

\* Still waiting: the TLS is set up, and the thread looks for another fiber.
WaitLeaves(t, f) ==
  /\ On(f, "adding")
  /\ At(f, "pending")
  /\ Return(f)
  /\ tls' = [tls EXCEPT ![t].prev = tls[t].cur, ![t].dest = "waiting"]
  /\ Jump(f, "find")
  /\ UNCHANGED <<counter, slotVars, idle, stored, running, home, tpc, probe, frame, programVars>>

WaitSwitches(t, f) ==
  /\ On(f, "find")
  /\ FindFreeFiber(t)
  /\ Jump(f, IF idle[probe[t]] THEN "inWait" ELSE "find")
  /\ UNCHANGED <<counterVars, stored, tpc, frame, programVars>>

\* The blocking WaitForCounter looks at the counter twice, schedules its proxy,
\* and then waits for the condition variable, on its thread.
BlockingWaits(t, f) ==
  /\ Starts(f, "blockingWait")
  /\ counter[NextOp(f).ctr] # NextOp(f).target
  /\ Begin(f)
  /\ Jump(f, "lookAgain")
  /\ UNCHANGED <<counterVars, stored, threadVars, programVars>>

LookAgain(t, f) ==
  /\ On(f, "lookAgain")
  /\ IF counter[CurOp(f).ctr] = CurOp(f).target
       THEN End(f) /\ Jump(f, "body")
       ELSE Jump(f, "enqueue") /\ UNCHANGED frame
  /\ UNCHANGED <<counterVars, stored, threadVars, programVars>>

CvWait(t, f) ==
  /\ On(f, "cvEnter")
  /\ Jump(f, "cvWait")
  /\ UNCHANGED <<counterVars, stored, frame, threadVars, programVars>>

\* notify_all, of the proxy: whoever is in cv.wait will go on,
Notify(t, f) ==
  /\ Starts(f, "notify")
  /\ fpc' = [g \in Fibers |->
               IF On(g, "cvWait") /\ CurOp(g).proxy = NextOp(f).proxy THEN "cvWoken" ELSE fpc[g]]
  /\ Skip(f)
  /\ UNCHANGED <<counterVars, stored, threadVars, programVars>>

\* or, as there is no predicate, it just goes on.
CvReturns(t, f) ==
  /\ fpc[f] \in {"cvWait", "cvWoken"}
  /\ End(f)
  /\ Jump(f, "body")
  /\ UNCHANGED <<counterVars, stored, threadVars, programVars>>

\* The constructor of a counter at an address that was used before.
NewCounter(t, f) ==
  /\ Starts(f, "new")
  /\ LET new == NextOp(f).ctr IN
       /\ counter'     = [counter EXCEPT ![new] = 0]
       /\ freeSlot'    = [s \in Slots |-> IF s[1] = new THEN TRUE ELSE freeSlot[s]]
       /\ inUse'       = [s \in Slots |-> IF s[1] = new THEN TRUE ELSE inUse[s]]
       /\ fiberIndex'  = [s \in Slots |-> IF s[1] = new THEN NoFiber ELSE fiberIndex[s]]
       /\ targetValue' = [s \in Slots |-> IF s[1] = new THEN 0 ELSE targetValue[s]]
  /\ Skip(f)
  /\ UNCHANGED <<call, stored, fpc, threadVars, programVars>>

\* The vector of a Queue, which is the program's own: Add and erase,
ChangeQueue(t, f) ==
  /\ Starts(f, "add") \/ Starts(f, "erase")
  /\ entries' = [entries EXCEPT ![NextOp(f).ctr] = Changed(NextOp(f), @)]
  /\ Skip(f)
  /\ UNCHANGED <<counterVars, stored, fpc, program, queue, jobCounter, shuttingDown, failed,
                 status, threadVars>>

\* and the test at the top of Step, which is all there is to Execute.
QueueSteps(t, f) ==
  /\ Starts(f, "step") \/ Starts(f, "execute")
  /\ frame' = [frame EXCEPT ![f].rest = Unfold(@, entries[NextOp(f).ctr])]
  /\ UNCHANGED <<counterVars, stored, fpc, threadVars, programVars>>

\* Shutdown, blocking or not,
Shutdown(t, f) ==
  /\ Starts(f, "shutdown")
  /\ shuttingDown' = TRUE
  /\ IF NextOp(f).blocking
       THEN Begin(f) /\ Jump(f, "joining")
       ELSE Skip(f) /\ UNCHANGED fpc
  /\ UNCHANGED <<counterVars, program, queue, jobCounter, entries, stored, failed, status,
                 threadVars>>

\* and its loop over the threads: on any of them.
ShutdownJoins(t, f) ==
  /\ On(f, "joining")
  /\ AllJoined
  /\ End(f)
  /\ Jump(f, "body")
  /\ UNCHANGED <<counterVars, stored, threadVars, programVars>>

\* JobInfo::Execute after the delegate: the counter of the job goes down.
Finish(t, f) ==
  /\ AtEnd(f)
  /\ frame[f].job # MainJob
  /\ status' = [status EXCEPT ![frame[f].job] = "done"]
  /\ IF jobCounter[frame[f].job] = NoCounter
       THEN UNCHANGED counterVars
       ELSE Decrement(f, jobCounter[frame[f].job], 1)
  /\ Jump(f, "end")
  /\ UNCHANGED <<program, queue, jobCounter, entries, stored, frame, shuttingDown, failed,
                 threadVars>>

Executed(t, f) ==
  /\ On(f, "end")
  /\ At(f, "idle")
  /\ frame' = [frame EXCEPT ![f].job = NoJob]
  /\ Jump(f, "loop")
  /\ UNCHANGED <<counterVars, stored, threadVars, programVars>>

\* FiberCallback_Main after the callback: shut down, or leave the thread to a
\* worker fiber, for good.
MainEnds(t, f) ==
  /\ AtEnd(f)
  /\ frame[f].job = MainJob
  /\ IF program.shutdownAfterMain
       THEN /\ shuttingDown' = TRUE
            /\ SwitchBack(t, f)
       ELSE /\ Jump(f, "findLast")
            /\ UNCHANGED <<running, tpc, shuttingDown>>
  /\ UNCHANGED <<counterVars, program, queue, jobCounter, entries, idle, tls, stored, home,
                 probe, frame, failed, status>>

MainLeaves(t, f) ==
  /\ On(f, "findLast")
  /\ FindFreeFiber(t)
  /\ Jump(f, IF idle[probe[t]] THEN "over" ELSE "findLast")
  /\ UNCHANGED <<counterVars, stored, tpc, frame, programVars>>

----------------------------------------------------------------------------
(* Inside a call on a counter.                                             *)

\* CheckWaitingFibers: the fiber goes to the ready list of the thread it is on.
Ready(t, f) ==
  /\ CheckAcquire(f)
  /\ tls' = [tls EXCEPT ![t].ready = Append(@, Handed(f))]
  /\ UNCHANGED <<idle, running, home, tpc, probe, fiberVars, programVars>>

InCounter(t, f) == CounterStep(f) /\ UNCHANGED schedVars

FiberStep(t, f) ==
  \/ CleanupStore(t, f) \/ CleanupClear(t, f)
  \/ Loop(t, f) \/ DequeueIO(t, f) \/ DequeueHigh(t, f) \/ ScanReady(t, f)
  \/ SwitchToReady(t, f) \/ DequeueNormal(t, f) \/ DequeueLow(t, f)
  \/ ScheduleCount(t, f) \/ ScheduleUncounted(t, f) \/ ScheduleJob(t, f)
  \/ WaitNot(t, f) \/ WaitForCounter(t, f) \/ WaitDone(t, f) \/ WaitThrows(t, f)
  \/ WaitLeaves(t, f) \/ WaitSwitches(t, f)
  \/ BlockingWaits(t, f) \/ LookAgain(t, f) \/ CvWait(t, f) \/ Notify(t, f) \/ CvReturns(t, f)
  \/ NewCounter(t, f) \/ ChangeQueue(t, f) \/ QueueSteps(t, f)
  \/ Shutdown(t, f) \/ ShutdownJoins(t, f)
  \/ Finish(t, f) \/ Executed(t, f) \/ MainEnds(t, f) \/ MainLeaves(t, f)
  \/ Ready(t, f) \/ InCounter(t, f)

ThreadStep(t) ==
  /\ ~failed
  /\ \/ StartThread(t)
     \/ Run(t)
     \/ running[t] # NoFiber /\ FiberStep(t, running[t])

\* The program is over when Run has returned or an exception was not caught.
Over == failed \/ tpc[MainThread] = "returned"
Terminated == Over /\ UNCHANGED vars

Next == (\E t \in Threads : ThreadStep(t)) \/ Terminated

\* The operating system runs every thread; it need not wake one up that nobody has
\* notified.
Asleep(t) == running[t] # NoFiber /\ fpc[running[t]] = "cvWait"
Awake(t) == ThreadStep(t) /\ ~Asleep(t)

Fairness == \A t \in Threads : WF_vars(Awake(t))
Spec == Init /\ [][Next]_vars /\ Fairness

----------------------------------------------------------------------------
(* A thread that starts late may find the fiber that another one has just  *)
(* left in GetNextJob for a ready fiber, and go on in GetNextJob.  Prompt  *)
(* assumes of the operating system that it does not: the threads that are  *)
(* made have started before a fiber is first left there.  Nothing in Run   *)
(* sees to it.                                                             *)

Displaced(f) == fpc[f] = "inGet" /\ \A t \in Threads : running[t] # f

StartedFirst ==
  \A t \in Threads : tpc[t] = "find" => \A f \in Fibers : ~Displaced(f)

PromptStep(t) == ThreadStep(t) /\ StartedFirst'
PromptNext == (\E t \in Threads : PromptStep(t)) \/ Terminated
Prompt ==
  /\ Init /\ [][PromptNext]_vars
  /\ \A t \in Threads : WF_vars(PromptStep(t) /\ ~Asleep(t))

----------------------------------------------------------------------------
TypeOK ==
  /\ CounterTypeOK
  /\ program \in Programs
  /\ queue \in [Prio -> Seq(Jobs)]
  /\ jobCounter \in [Jobs -> Counters \cup {NoCounter}]
  /\ entries \in [Counters -> Seq(Entry)]
  /\ idle \in [Fibers -> BOOLEAN]
  /\ tls \in [Threads -> TLS]
  /\ stored \in [Fibers -> {"none", "no", "yes"}]
  /\ running \in [Threads -> Fibers \cup {NoFiber}]
  /\ home \in [Fibers -> Threads \cup {NoThread}]
  /\ tpc \in [Threads -> ThreadPC]
  /\ probe \in [Threads -> Fibers]
  /\ fpc \in [Fibers -> FiberPC]
  /\ frame \in [Fibers -> Frame]
  /\ shuttingDown \in BOOLEAN
  /\ failed \in BOOLEAN
  /\ status \in [Jobs -> {"new", "queued", "started", "done"}]

\* Manager.cpp:189-213, Fiber.cpp:73-93.  Two threads are never on one fiber; a
\* fiber that another thread may switch to, because its idle flag or its stored
\* flag is set, has been left by the thread that was on it, at the point where it
\* is to be resumed; and a fiber goes back to the thread fiber of its thread.
FiberIsLeft ==
  /\ \A t, u \in Threads : running[t] = running[u] => t = u \/ running[t] = NoFiber
  /\ \A f \in Fibers : idle[f] \/ stored[f] = "yes" =>
       /\ \A t \in Threads : running[t] # f
       /\ fpc[f] \in (IF idle[f] THEN {"fresh", "inGet"} ELSE {"inWait"})
  /\ \A t \in Threads : running[t] # NoFiber => home[running[t]] = t

\* ManagerJobs.cpp:22, 73.  A thread cleans up after a switch with its own TLS: a fiber
\* that was left in GetNextJob goes on on the thread it was left by, or has been
\* around the loop since.
SameThread ==
  \A t \in Threads : running[t] # NoFiber => CleanupTLS(t, running[t]) = t

\* ManagerJobs.cpp:58-69, Counter.cpp:121-127.  An entry of a ready list is the
\* only one for its fiber, its stored flag is still allocated, and no slot holds
\* the fiber any more.
ReadyOnce ==
  /\ \A t, u \in Threads :
       \A i \in DOMAIN tls[t].ready, k \in DOMAIN tls[u].ready :
         tls[t].ready[i] = tls[u].ready[k] => t = u /\ i = k
  /\ \A t \in Threads : \A i \in DOMAIN tls[t].ready :
       /\ stored[tls[t].ready[i]] # "none"
       /\ \A s \in Slots : ~inUse[s] => fiberIndex[s] # tls[t].ready[i]

\* The operations of the program, the jobs it asks for, and who waits for c.
AllOps == UNION {{program.body[x][i] : i \in DOMAIN program.body[x]} : x \in Code}
Submissions == UNION {Submission(op) : op \in AllOps}
WaitsOn(x, c) ==
  \E i \in DOMAIN program.body[x] :
    LET op == program.body[x][i] IN op.op \in {"wait", "step", "execute"} /\ op.ctr = c

\* ManagerJobs.cpp:44-47, "IO only does IO jobs", and the other threads none.
IOApart ==
  \A t \in Threads : \A f \in Fibers :
    running[t] = f /\ frame[f].job \in Jobs =>
      \A s \in Submissions : s.job = frame[f].job => ((s.prio = "io") = (t = IOThread))

\* README.md:66, Queue.cpp:46-65.  "Safe, Jobs are executed consecutively": of the
\* jobs added to a Queue only the first that has not been erased is with the
\* Manager, and those that were erased are done.
Consecutive ==
  \A op \in AllOps :
    op.op = "add" /\ status[op.entry.job] \in {"queued", "started"} =>
      entries[op.ctr] # <<>> /\ Head(entries[op.ctr]) = op.entry

\* ManagerJobs.cpp:93-95, Counter.cpp:68-103,127.  No exception is thrown for want
\* of room that is there: when the queues hold what the program schedules with
\* each priority, and each counter has a slot for every callback that waits for
\* it, a slot given back too late or never would be missed.
Enough ==
  /\ \A p \in Prio : Cardinality({s \in Submissions : s.prio = p}) <= QueueSize[p]
  /\ \A c \in Counters : Cardinality({x \in Code : WaitsOn(x, c)}) <= NumSlots

NeverFull == Enough => ~failed

Waiting(f) == fpc[f] \in {"adding", "find", "inWait", "inWaitClear"}

\* What f still has to do, the operation it is in included.
Remaining(f) ==
  (IF frame[f].op = NoOp THEN <<>> ELSE <<frame[f].op>>) \o frame[f].rest

\* This step ends a wait of f, or finds nothing to wait for.
WaitEnds(f) ==
  /\ Remaining(f) # <<>>
  /\ Head(Remaining(f)).op \in Waits
  /\ Remaining(f)' = Tail(Remaining(f))

\* README.md:2 and the waits of the example: when a wait for 0 is over, blocking
\* or not, no job that was scheduled with the counter is still to be executed;
\* but a cv.wait that nobody has notified, and that returns, ends a blocking wait.
WaitMeansDone ==
  [][\A f \in Fibers : WaitEnds(f) /\ fpc[f] # "cvWait" =>
       LET op == Head(Remaining(f)) IN
         op.target = 0 =>
           \A j \in Jobs :
             jobCounter[j] = op.ctr => status[j] \notin {"queued", "started"}]_vars

\* The proxy of a blocking wait has notified before the caller was in cv.wait.
NotificationLost ==
  \E f \in Fibers : fpc[f] \in {"cvEnter", "cvWait"} /\ status[CurOp(f).proxy] = "done"

\* Manager.cpp:145-150.  Run returns; only a notification that comes before the
\* cv.wait it is for can keep it from that, or an exception.
RunReturns == <>(Over \/ NotificationLost)

\* Manager.cpp:156-166.  After Shutdown every thread leaves its loop and Run
\* returns, whatever is queued or asleep.
ShutdownEnds == shuttingDown ~> Over

\* README.md, "Jobs can wait for each other": a wait comes to an end, unless the
\* program does first.
WaitsEnd == \A f \in Fibers : Waiting(f) ~> ~Waiting(f) \/ shuttingDown \/ failed

\* README.md:146.  A blocking wait comes to an end as well.
BlockingWaitsEnd ==
  \A f \in Fibers : CurOp(f).op = "blockingWait" ~> CurOp(f).op # "blockingWait" \/ failed

\* Manager.h:116-126.  The Manager is a job service: what a program can see of it,
\* its own progress and that of its jobs, is a behaviour of JobService.
RestOf(x) ==
  IF \E f \in Fibers : frame[f].job = x
    THEN Remaining(CHOOSE f \in Fibers : frame[f].job = x)
    ELSE <<>>

Service == INSTANCE JobService WITH rest <- [x \in Code |-> RestOf(x)], Values <- Unit
IsJobService == Service!Spec
=============================================================================

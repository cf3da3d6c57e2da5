# NomadTasks in TLA+

A specification of NomadTasks, a job system for C++17 that runs jobs on fibers
(`code/fiber`), and of its small companion without fibers (`code/threadjob`).
TLC checks the modules on small instances; TLAPS proves some of the results for
every value of the constants. `PROJECT.json` has the same information in a form
for tools: runs, the source lines behind every definition, hazards, findings.

To check one run: `tlc -config <run>.cfg <module>.tla`; to check the proofs:
`tlapm CounterUseProofs.tla`. Paths below are relative to `src/`.

## The system

| Part | State it keeps | Operations |
|---|---|---|
| Counter (`fiber/Counter.cpp`): `BaseCounter`, `Counter` (4 waiters), `TinyCounter` (1) | an atomic value; slots `_freeWaitingSlots`, `_waitingFibers` | `Increment`, `Decrement`, `GetValue`; for the Manager `AddWaitingFiber`, `CheckWaitingFibers` |
| Manager, scheduling (`ManagerJobs.cpp`, `ManagerCallbacks.cpp`, `Manager.cpp:156-213`) | four job queues, `_idleFibers`, `_shuttingDown`; per thread a `TLS` | `ScheduleJob`, `GetNextJob`, `WaitForCounter`, `WaitForSingle`, `FindFreeFiber`, `CleanupPreviousFiber`, `Shutdown`, the fiber callbacks |
| Manager, start (`Manager.cpp:43-154`, `Thread.cpp`, `ManagerThreads.cpp`) | `_threads`, `_fibers`, thread ids, flags in the TLS | `Run`, `SetupThread`, `SpawnThread`, `GetCurrentTLS`, `Thread::Spawn`, `WaitForReady`, `Join` |
| Job queue (`include/fiber/detail/mpmc_queue.h`) | a ring of cells with sequence numbers, two positions | `enqueue`, `dequeue` |
| JobInfo and delegates (`include/fiber/Job.h`, `detail/`) | the bytes of a callback, a counter | copy, destroy, `Execute` |
| Fiber (`Fiber.cpp`) | a Windows fiber, the fiber to go back to | `SwitchTo`, `SwitchBack`, `FromCurrentThread` |
| List, Queue (`List.cpp`, `Queue.cpp`) | a counter; a vector of jobs | `Add`, `Wait`; `Add`, `Step`, `Execute` |
| JobSystem (`threadjob/`) | a vector of job pointers, a recursive mutex | `Add*`, `Run`, `Reset` |
| Optick (`vendor/optick`) | - | a profiler of another project: only its event macros are called |

How they work together. A program calls `Run` with a main callback; `Run` makes
the fibers, starts the threads and runs the callback on a fiber of its own
thread. Each thread runs one fiber at a time; a worker fiber loops over
`GetNextJob` and `Execute`. `ScheduleJob` raises the counter of the job and puts
it in the queue of its priority; `Execute` lowers the counter after the callback.
`WaitForCounter` registers the fiber in a slot of the counter, leaves it asleep
and lets the thread go on with an idle fiber. The `Increment` or `Decrement` that
produces the target takes the registration out of the slot and appends it to the
ready list of *its own* thread; `GetNextJob` on that thread later switches to it.
As a fiber cannot be saved before it is left, what should become of it ("idle
again", "mark it stored") waits in the TLS for the next fiber on that thread.

What is hard:

* `Counter.cpp` holds no lock: a waiter registers and looks again while others
  change the value and walk the slots.
* A fiber may go on on a different thread than it stopped on, so a TLS pointer
  held over a switch may be another thread's.
* Between the decision to leave a fiber and having left it, others can see it.
* Values, flags and counters at the same address are used again.
* Waiting has to end, and `Shutdown` has to get every thread out of its loop from
  wherever it is.
* The ring lets callers stall at any point, and its positions wrap.
* Threads run before their creator has stored their id.
* Queues, slots and the pool of fibers have an end.
* A blocking wait and a blocking shutdown hold a thread, not a fiber.

`PROJECT.json` lists 39 such places, each with the property that covers it or
the reason there is none.

## Modules

| Module | Models | State |
|---|---|---|
| `BaseCounter` | `Counter.cpp`, as steps of a call made by a fiber; open, used by the next two | value and slots of every counter; `call[f]`, the registers of the call fiber `f` is in |
| `CounterUse` | fibers that run scripts of schedule, finish, increment, decrement and wait on counters | what is left of each script, who is asleep, who is in a ready list |
| `Program` | what a program can ask of the Manager: its operations, and `WaitForSingle`, `List` and `Queue` as sequences of them | none |
| `Scheduler` | the Manager's scheduling and waiting, blocking and not, with `BaseCounter`'s steps inside | queues, idle and stored flags, TLS, which fiber each thread is on, where each fiber is and where it goes back to, the vectors of Queues |
| `JobService` | the abstract specification of the Manager: jobs start after they are scheduled, once, and a wait for 0 follows its jobs | what the code in execution has still to do, how far each job has come |
| `Startup` | `Run`, `Spawn`, `WaitForReady`, `Join`, `SpawnThread`, `SetupThread` | thread ids, start-up mutexes, IO flags, where `Run` and each thread are |
| `MpmcQueue` | the ring, access by access | sequence numbers, data, positions, the call of each caller |
| `BoundedQueue` | the abstract specification of the ring: an atomic FIFO queue | the items, the call of each caller |
| `JobSystem` | `threadjob` | the list, a stack of callbacks per thread, what became of each job |
| `BaseCounterProofs`, `CounterUseProofs` | proofs about the counters: the slots for any caller, then slots, lone waiters and targets for the fibers of `CounterUse` | |
| `StartupProofs` | proofs about the start of threads | |
| `MpmcQueueProofs` | proofs about the ring, and that it implements `BoundedQueue` | |
| `SchedulerProofs`, `SchedulerSafetyProofs`, `SchedulerWaitProofs` | proofs about the scheduler, each on top of the one before: what its steps are to the types and to the jobs; what is promised of services, Queues, fibers and IO jobs; who is registered where while it waits, and what has happened when the wait is over; which programs keep threads to their own fibers | |
| `JobSystemProofs` | proofs about `threadjob` | |
| `MC*` | scripts and programs for TLC | |

Names are the source's where there is one. One action is one access to a variable
that another thread can reach, with the thread-local work around it. In
`BaseCounter` the fields of a slot that are not atomic are read and written
together with the access to `_inUse` they depend on. `Scheduler` treats one access
to a job queue as one step; that is what `MpmcQueue` is checked against, with one
difference, see *Bounds*.

`Scheduler` and `CounterUse` overlap on purpose: `CounterUse` keeps only what a
counter sees of the scheduler, which lets TLC go through contended slots with
four fibers, and gives the proofs an environment in which fibers do anything.

A program of `Scheduler` is a record: the operations of main and of each job, the
threads that exist, and the option `ShutdownAfterMainCallback`. `Run` calls main right after
`CreateThread` (`Manager.cpp:111-143`) and waits for no thread to come to its first fiber
(`ManagerCallbacks.cpp:36`), so `Init` takes any part of the threads as having theirs, before main's,
and the others look for one when they start, during main or after it.
`Spec` is this and nothing else. `Prompt` is `Spec` where the operating system is quick: every thread that is
made has started before a fiber is left in `GetNextJob` (`StartedFirst`). Nothing in the
code sees to it, and where it does not hold the promises fail (findings 2 and 4); it is there
to see what holds otherwise.
The run over programs chooses one in its initial states, as the run over scripts
of `CounterUse` does, so every property is checked of all of them. `JobService`
has the same programs and none of the machinery; `Scheduler` maps to it by its
own `program`, `status`, `jobCounter` and `entries` and by `RestOf`, the operation
a fiber is in followed by those it has not begun.

### From code to actions

* `CheckWaitingFibers`: `CheckFree` (line 108), `CheckInUse` (113), `CheckTarget`
  (117), `CheckAcquire`/`CheckAcquireFails` (122), `CheckRelease` (127). `Increment`
  and `Decrement` change the value and start the walk with the value they produced.
* `AddWaitingFiber`: `AddTake` (71), `AddStore` (77-80), `AddLoad` (83), `AddInUse`
  (84), `AddTarget` (88), `AddAcquire` (93), `AddRelease` (97). The call ends at
  `added`, `pending` or `full`: true, false, exception.
* `GetNextJob`: `DequeueIO`, `DequeueHigh`, `ScanReady` (one step per entry of the
  ready list), `SwitchToReady`, then after the fiber is resumed `CleanupStore` and
  `CleanupClear`, `DequeueNormal`, `DequeueLow`. `frame[f].tls` is the TLS pointer
  the worker loop took at its top; the cleanup after a switch in `GetNextJob` uses
  it, the other two cleanups look the TLS up.
* `WaitForCounter`: `WaitNot`, `WaitForCounter`, the steps of `AddWaitingFiber`,
  `WaitDone` or `WaitThrows` or `WaitLeaves`; then `WaitSwitches` (one step per idle
  flag probed) and the cleanup of whoever switches back.
* The blocking `WaitForCounter`: `BlockingWaits` (line 107), `LookAgain` (113),
  `ScheduleJob` of the proxy (119), `CvWait` (123), `CvReturns`, notified or not: `cv.wait` may
  wake up spuriously, and has no predicate. The proxy is a job
  whose body is a wait and `Notify`, as `WaitForCounter_Proxy` is. `cv.wait` needs
  no mutex in the model: the mutex is a local that nobody else ever locks.
* `WaitForSingle`, `List` and `Queue` are in `Program`: `WaitForSingle` is `new`,
  `schedule`, `wait`; a List is its counter; a Queue is its counter and `entries`,
  and `step` unfolds to schedule, wait, erase, `execute` to steps until the vector is
  empty. `NewCounter` is the constructor at an address used before.
* `Shutdown` sets the flag; with `blocking`, `ShutdownJoins` ends the operation when
  all other threads have exited. The joins of `Run` are `Run`.
* `SwitchTo` records in `home[f]` the thread fiber that switched to `f` last, the
  `_returnFiber`; `SwitchBack` goes to that one.
* `Startup`: every thread is made by `Run` (`NextThread`), or by the program before
  it, with `SpawnThread` or on a thread of its own that calls `SetupThread`.
* `JobSystem`: `frame.in` says where a callback was called from: the program's own
  code, `JobSystem::Run`, or `operator()` of the job, whose `Return` step adds the
  continuation.
* The callbacks: `Loop`, `Finish` and `Executed` for a worker; `MainEnds` and
  `MainLeaves` for main.

## Runs

| Run | Shows |
|---|---|
| `counter_use` | Seven scripts over one counter. Whatever the fibers do, a slot is free, published or held by one call (`SlotExclusive`, `NoSlotLeak`, `PublishedIsClaimed`). A wait that is alone on its counter is woken exactly once (`WokenOnce`), is never in neither a slot nor a ready list (`NoLostWaiter`), ends only for a value the counter has had since it began, or had when a check still under way was begun (`WaitEndsAtTarget`), and returns if its counter gets to the target and stays (`LoneWaiterReturns`). |
| `counter_two_waiters` | *Finding*: two waiters for the same value, one sleeps for ever. |
| `sched_programs` | Eight programs on up to three threads, below, under `Prompt`. A cleanup uses the TLS of its own thread (`SameThread`), no two threads on a fiber and none on a fiber that may be switched to (`FiberIsLeft`), ready lists with live entries (`ReadyOnce`), jobs of a Queue one after the other (`Consecutive`), no exception while there is room (`NeverFull`), no wait over before its jobs (`WaitMeansDone`, but for a `cv.wait` nobody has notified), waits end (`WaitsEnd`), `Run` returns (`RunReturns`), a shutdown gets every thread out (`ShutdownEnds`), and all of it is a behaviour of `JobService` (`IsJobService`). |
| `sched_nested_workers` | *Finding*: the nested wait with two threads for jobs may not end. |
| `sched_io_wait` | *Finding*: a wait for an IO job does not end. |
| `sched_late_io` | *Finding*, under `Spec`: an IO thread that starts late executes a job that is not of IO (`IOApart`). |
| `sched_single` | *Finding*: the second of two `WaitForSingle` may end before its job. |
| `sched_blocking_wait` | *Finding*: a blocking wait may miss its notification and never end. |
| `sched_blocking_shutdown` | *Finding*: the blocking `Shutdown` in main, after a wait, may join its own thread. |
| `mpmc_queue` | The ring implements `BoundedQueue` (`IsBoundedQueue`) and gives each cell to one caller (`CellExclusive`). |
| `startup` | Every combination of options, `CreateThread` failing or not, threads made by `Run` or by hand, which may exit or not: workers find their own TLS (`OwnTLS`) with its flag final (`FlagsFirst`), a `Run` that succeeded leaves nobody running (`NoneLeftBehind`), and everything starts (`Starts`). |
| `job_system` | Two threads add, run and reset repeated, delayed, nested and throwing jobs, and call a job with a continuation: a continuation is added once (`ContinuedOnce`), one pointer to every live job (`OneOwner`), and every job ends (`JobsEnd`). |

All runs of the scheduler but `sched_late_io` are under `Prompt`: what they show has a cause that
no late thread is needed for.

The programs of `sched_programs` (`MCScheduler`):

| Program | Threads | What it is for |
|---|---|---|
| `ForkJoin` | main, worker | two waits, each woken from either thread |
| `WaitOnce` | main, worker, IO | one wait, with the IO thread, and every order in which the three start |
| `Nested` | main, IO | a job that waits for a job; a counter at an address used before; an IO job beside the one worker |
| `Detached` | main, worker, IO | no shutdown after main; a job that shuts down; waits for what never comes, over one slot, and a queue that may overflow: fibers are left asleep, or an exception ends the program |
| `Queue3` | main | `Add`, `Step`, `Execute` of a Queue, with a job that waits on a List |
| `List3` | main, IO | a List of three jobs, one of which waits |
| `Blocking` | main, worker, IO | a blocking wait, with the notification in time, or lost, or a wake-up without one |
| `JoinAll` | main, worker, IO | the blocking shutdown on main's own thread |

Each property of a passing run has a mutant: an operator next to the action it
changes, marked "A bug:", with which TLC finds that property violated. They are
not part of the specifications.

### Bounds

* `UnitMod = 4` instead of 2^32: counters are raised to 3 at most; `ScriptWrap`
  lowers one below 0, and it comes back. It is 8 in `sched_programs`, so that there are
  more values than jobs, as in the code.
* `NumSlots` 1 is a `TinyCounter`, and a `Counter` with all slots but one in use;
  2 is enough for a walk that goes on after a match and for slots in both orders.
* `NumFibers` 4 to 6: one for each thread, one for each fiber that can sleep, so
  the pool is not exhausted where a wait has to end. In the code an exhausted
  pool makes `FindFreeFiber` spin, which the model does as well.
* `MaxLag = 2` in `MpmcQueue`: at most that many positions are given out while a
  caller is between two of its steps. The code has no such limit, but a caller
  that slept for half of all positions, 2^31 or 2^63, would take a later lap for
  its own; `PosMod = 8` keeps the proportion. With `Size = 2` a lag of 2 is a full
  lap, so a caller does meet a cell of another lap.
* The queues of `Scheduler` are exact: `dequeue` fails only when the queue is
  empty and `enqueue` only when it is full. `BoundedQueue` says what the ring
  promises: while another caller is between its compare-exchange and its store,
  either may fail before that. For `GetNextJob` such a failure only means another
  turn of the loop; for `ScheduleJob` it is an early EX_JOB_QUEUE_FULL.
* Jobs are scheduled once each, with four of them. In `Scheduler` a job that runs
  again is another job; a counter that is used again is the same counter.
* Three threads, of which two run jobs that are not IO: enough for a fiber to
  change threads and for a check to be overtaken; programs that nest waits have one
  such thread where finding 2 would be met with two.
  With `AutoSpawnThreads` there is an IO thread, unless `NumThreads` is 0. `ForkJoin`, `Queue3` and
  `JobWaits` have none: `Queue3` has only main's thread, the other two have one worker made by hand.
* A blocking wait ends too early when `cv.wait` wakes up though nobody notified it.
  Both happen in the model; `WaitMeansDone` leaves this step out, and `JobService` has it
  (`WakesUp`), as the code promises nothing else.
* The exceptions of `ScheduleJob` and `WaitForCounter` are not caught inside a
  fiber; they end the program (`failed`). What a caller that catches one leaves
  behind is not modelled in `Scheduler`; in `CounterUse` the fiber just stops.
* `startup`: `NumThreads = 4`, so that a thread has neighbours on both sides.
* `job_system`: one round of `Run` in the program for each thread, the main loop
  after it without end. The program stops calling a job of its own once it is done.

Deadlock is checked except in `counter_use` and `counter_two_waiters`, where a
sleeper can be left over; in `startup`, where the model ends
with `Run`, a thread may find no fiber, and the join of a thread taken in by `SetupThread` never returns; and in `sched_blocking_shutdown`, where
the thread that joins itself stops everything. The liveness runs say where the
program may simply be over (`Terminated`).

### Memory order and undefined behaviour

The models are sequentially consistent. The build has two targets, x86 and x64,
both under Windows (`ManagerThreads.cpp:18` rejects anything else). There only a
store followed by a load of something else can be seen out of order, and the one
place that depends on that order, the store to `_inUse` and the load of the
counter in `AddWaitingFiber`, has a seq_cst store. The stale TLS pointer makes
two threads access one TLS; the accesses are separated where their order matters,
into the store of the flag and the clearing of the fields.

### Fairness

`WF_vars` of the whole step of a thread (or fiber, or caller): the operating
system runs every thread, and nothing else is assumed; a thread that sleeps in `cv.wait` need not
wake up before it is notified (`Awake`). The fairness of `Prompt` is of the steps that `Prompt` allows. In particular no fairness
is assumed for a single action, a queue or a fiber; `Sleep(1)` in the worker loop
is no step. `JobSystem` also lets time pass for delayed jobs, and its main thread
goes on to `Run`, as a program with a main loop does (the test program calls `Run`
once, which is enough for jobs that are neither delayed nor repeated). In `CounterUse` it is the
fiber that is fair, which stands for threads that pick up every fiber of their
ready list. `MpmcQueue` has no liveness: a caller can lose the compare-exchange for
ever. Safety properties need none of this.

## Findings

Seven, each with a run in which TLC finds the violation.

1. `counter_two_waiters` (`Counter.cpp:92`). A waiter's second look reads its slot,
   is delayed, and then takes the registration another fiber has published in that
   slot since. The other fiber is in no slot and no ready list.
2. `sched_nested_workers` (`ManagerJobs.cpp:73`). After a switch in `GetNextJob` the
   cleanup uses the TLS pointer from before the switch. If the fiber goes on on
   another thread, the sleeper that thread has just left is never marked stored. In the
   same program `SameThread` and so `FiberIsLeft` fail too: the cleanup of the old thread puts the fiber
   that runs it into the idle pool. Two codes that wait are not necessary for `SameThread` to
   fail: one wait of main is enough, beside a worker or an IO thread that starts late and takes for its first
   fiber the one that main's thread was taken off (finding 4 is what the IO thread does with it). With
   one code that waits the theorem `OneLeaverIsSafe` says that this is the only way left.
3. `sched_io_wait` (`ManagerJobs.cpp:45`). The IO thread puts fibers in its ready
   list and never reads it.
4. `sched_late_io` (`ManagerJobs.cpp:79`). The same of a thread for IO, with one worker and one wait:
   it starts after main's thread has left a fiber in `GetNextJob`, takes that for its first, and
   goes on behind the switch at line 73: to the queues of normal and low priority, which line
   45 would have kept it from. "IO only does IO jobs" (line 44) is then false.
5. `sched_single` (`Counter.cpp:117`). The walk of a `Decrement` that has reached 0
   goes on while the counter is constructed or used again, and wakes the next
   waiter for 0 with its old value. A counter need not be used again on purpose: two jobs
   scheduled with one counter (`Forks`), of which the first is executed before the second is
   scheduled, bring it to 0 twice; the walk of the first 0 takes the wait for the second. The
   theorem `WaitsMeanDone` says that, where one code uses the counter and waits for 0 on it and
   fibers keep to their threads, this is the only way for a wait to end early, but for a `cv.wait` that nobody notified.
6. `sched_blocking_wait` (`ManagerJobs.cpp:123`). The proxy job can notify before the
   caller is in `cv.wait`, which has no predicate.
7. `sched_blocking_shutdown` (`Manager.cpp:163`). The fiber of main is resumed on the
   worker that ran the last job; the blocking `Shutdown` then joins that worker.

Seen as well, in `Startup`: a thread taken in by `SetupThread` cannot be joined, whether or not it
has ended (`Thread.cpp:92`). What is kept is the pseudo handle of `GetCurrentThread()`, which means whoever
uses it, so a join waits for itself; `Join` of the model is never enabled for such a thread, and `Starts` leaves
it out.

The passing runs are drawn so that these do not hide everything else: what is
promised of a wait in `counter_use` is promised of a wait alone on its counter;
the programs of `sched_programs` have one thread for jobs where waits nest or a
counter is used again, wait for no IO job, call the blocking `Shutdown` without a
wait before it, and are under `Prompt`; `RunReturns` names the lost notification. No two threads of `startup`
are given the same index, and `NoneLeftBehind` is of a `Run` that succeeded.

## Proofs

`tlapm` checks every proof to its leaves. What the theorems say holds for any
number of fibers, counters, slots, threads, callers and cells, and any scripts, with
changes of a counter by any number, given the named assumptions on the constants
(`CounterAssumption`, `ScriptAssumption`, `StartupAssumption`, `QueueAssumption`,
`SchedulerAssumption`, `JobSystemAssumption`). They
say no more than that the special values are no ordinary ones and that numbers are
numbers; of the ring also that its size is a power of 2, as its constructor asserts,
and divides the number of positions; of the programs of the scheduler, what the models
need to name their jobs by, see *Scheduler*. Each theorem, but for the invariant of the
scheduler and what is proved of `IOApart`, states a property that the passing runs check on a small
instance.

**Counters.**

* `CounterUseProofs!TypeCorrect`: `Spec => []TypeOK`.
* `CounterUseProofs!SlotLife`: `Spec => [](SlotExclusive /\ NoSlotLeak /\
  PublishedIsClaimed)`; `SlotsReturn` and `RegistrationsName` state two of the three
  by themselves. The three say that each slot is in exactly one of the
  states free, published, held by one call. No one of them is inductive alone:
  that a claim finds no holder needs "a free slot is nobody's", that a take finds
  a fiber needs `PublishedIsClaimed`, that a free slot is not published needs the
  third. Their conjunction (`SlotInv`) is, given the types. `BaseCounterProofs`
  proves it for any caller, by three lemmas on the only kinds of steps there are:
  quiet ones (`QuietStep`), those by which a call takes a slot (`TakingStep`) and
  those by which it gives it up (`GivingStep`).
* `CounterUseProofs!LoneWaiterNotLost` and `LoneWaiterWokenOnce`: `NoLostWaiter` and
  `WokenOnce`, both of scripts in which each wait is alone on its counter
  (`WaitsAlone`; finding 1 breaks them otherwise). The invariant `WaitInv` says where
  the one registration of a waiter is: in one slot, or turned into one entry of a
  ready list (`OneRegistration`). That the second look of a waiter takes its own
  registration, and no other, is where being alone is needed (`Alone`, `InCall`).
* `CounterUseProofs!LoneWaiterEndsAtTarget`: the action property `WaitEndsAtTarget`.
  The walk compares `_targetValue` before it takes the registration, so the proof has
  to show that the target it compared is that of the wait it then wakes. As fibers go
  through their scripts in order (`InOrder`), nothing of a counter was ever
  published before its only wait (`Unused`), and from then on the target in the
  slot is that wait's own (`TargetKept`, `Matched`). `Seen` relates it to what the counter
  has had.

**Start.**

* `StartupProofs!TypeCorrect`, `FindsItsTLS`, `KnowsItsKind` and `JoinsAll`: `TypeOK`,
  `OwnTLS`, `FlagsFirst` and `NoneLeftBehind`. The inductive invariant adds: a thread
  that `Run`, or the program with `SpawnThread`, has yet to come to does not exist
  (`InOrder`, over `Later`); a thread that exists has its id stored, but for the one
  that is being created (`Stored`); every thread the loop of `Run` has been over has
  its final flag (`Marked`, over `LoopedOver`); only a `Run` with `AutoSpawnThreads`, or
  `SpawnThread`, creates threads (`Spawner`); and nobody ever waits in `WaitForReady`
  (`NoneWaits`): the mutex is held exactly while a thread is created.

**The ring.**

* `MpmcQueueProofs!TypeCorrect` and `OneInCell`: `TypeOK`, which includes that whatever a
  dequeue returns is an item, and `CellExclusive`. The invariant `RingInv` says what the
  number of every cell in the window of `Size` positions from `dequeue_pos` on may be
  (`Numbers`), what it is for a caller inside its cell (`Held`), that a position is given
  out once (`Sole`), and that what a caller has read of a number still holds if its
  compare-exchange can succeed (`Sought`). Positions wrap, so all of it is stated by the
  distance `Off` of two positions; that `Size` divides `PosMod` is what keeps positions
  and cells in step over the wrap (`SameCell`, `NearCell`, `LapCell`). `MaxLag` rules out
  the caller that sleeps for half of all positions and takes a later lap for its own.
* `MpmcQueueProofs!RingIsBoundedQueue`: `Spec => IsBoundedQueue`, the refinement. It
  needs that a cell that is not ready has somebody at work in it (`WorkInv`), so that a
  refusal has the reason `BoundedQueue` asks for, however old the position of the caller
  is (`RefusedPut`, `RefusedGet`). The steps then map one by one: the two
  compare-exchanges are `Put` and `Get`, the two stores `PutEnds` and `GetEnds`, a refusal
  is `NoRoom` or `Nothing`, and everything else but the call itself is a stutter.

**Scheduler.** `SchedulerAssumption` says of the programs that they have the types
`ProgramType` gives, and three things more. There are finitely many jobs, so that those
of a queue can be counted. A job is asked for by one operation
(`ScheduledOnce`): in the model a job that runs again is another job. The vector of a
Queue is used by one code (`QueuesOwned`): nothing in `Queue.cpp` protects it. All the
passing and failing programs satisfy both, as TLC evaluates the assumption.

* `SchedulerProofs` says what the steps are. Its thirty-odd actions, with those of `BaseCounter`
  inside, are only nine things to the jobs (`Moves`): a fiber idles (`Idles`), goes on
  past an operation (`Passes`), submits a job or the proxy of a blocking wait (`Submits`,
  `SubmitsProxy`), changes or unfolds a Queue (`Changes`, `Unfolds`), takes a job from a
  queue (`Takes`), finishes what it executes (`Finishes`) and drops it (`Drops`).
  `StepMoves` proves that there is nothing else, and the proofs that follow look at moves
  and not at actions.
* `SchedulerProofs!SchedulerInvariant` and `TypeCorrect`: the inductive invariant
  `SchedInv`, and `TypeOK`. Types alone are not inductive: `GetNextJob` runs the body of
  what is in a queue, and `erase` takes the first of a vector that a `Step` on the same
  fiber found full, some steps before. The invariant says that a code runs on
  one fiber and its job has started (`OneRun`, `RunStatus`); that the queues have the
  jobs that are queued, each in one place (`InQueue`); that an erase is still preceded by
  the rest of the Step it belongs to (`Shape`); and that a job is asked for in one place, in
  what a fiber has left, a vector, or the body of a job that has not started, and only
  while it is new (`Once`). With `Once` a job cannot be submitted a second time, so it
  cannot be in two queues, so it is not taken twice.
* `SchedulerSafetyProofs!ServicePromised`: `Spec /\ WaitMeansDone => IsJobService`. The
  Manager, with all its threads, fibers and counters, implements `JobService`. The nine
  moves map to the steps of the service or to a stutter; that `RestOf`, which chooses the
  fiber a code is on, has no choice, is `OneRun`. That a wait for 0 ends with its jobs
  done is a hypothesis, as the code does not give it for every program (finding 5).
  It is used for the steps that end a wait and for no other; TLC checks it on the programs. That a
  blocking wait in `cv.wait` has its job scheduled, which `WakesUp` asks for, is the invariant `ProxySent`.
* `SchedulerSafetyProofs!ExecutesConsecutively`: `Consecutive`, with the same hypothesis.
  Every operation is one of the program or one a Step was unfolded to (`FromProgram`), what
  a vector has is what was added (`Added`), jobs behind the first are not with the
  Manager (`OnlyFirst`), and the wait of a Step stands between its job and the erase
  (`StepWaits`).
* `SchedulerSafetyProofs!FibersAreLeft`: `Spec /\ []SameThread => []FiberIsLeft`.
  `SameThread` says that each cleanup uses the TLS of the thread it runs on. Finding 2 is a
  program in which it does not, so no proof can do without; the theorem says that the
  stale pointer of line 73 is the *only* way for a fiber to be used before it has been
  left. The invariant `LeftInv` gives a fiber that is in use to one
  thread: the one that is on it, the one that has chosen it and has still to switch
  (`Chosen`), or the one that has left it and has still to clean up (`Left`). No fiber has
  two (`OneHas`), what has a thread is not idle (`Busy`), and is where the cleanup will want
  it (`Asleep`). A step then has to see to the fibers of its own thread (`LocalLeft`).
* `SchedulerSafetyProofs!IOStaysApart`: `Spec /\ IOJobsStay /\ []SameThread => []IOApart`.
  Jobs stay in the queue of their priority, through operations, vectors and the entries
  of Queues (`SortInv`); the IO thread looks at its own queue only (`IOOnly`), an IO job does
  not leave it (`IOKept`), and no fiber left in `GetNextJob` holds its TLS (`IOTurns`).
  `IOJobsStay` is a condition on the program: an IO job that waits may be resumed
  by a worker, who then runs the rest of it (finding 3 is what the IO thread does with those
  it would have to resume).
* `SchedulerSafetyProofs!OneWorkerIsSafe`: `SameThread`, `FiberIsLeft` and `IOApart` of
  every program whose only worker is main's thread and whose IO jobs do not wait
  (`OnlyMainWorks`, `IOJobsStay`), as `Nested` with its IO job, `Queue3` and `List3` of the runs, where the IO thread
  is not late (`[]StartedFirst`). Only one thread then leaves fibers in `GetNextJob`, and no other
  resumes any. Finding 4 is the same without `[]StartedFirst`, so the theorem says that there is no
  other way.
* `SchedulerSafetyProofs!OneThreadIsSafe`: the same where main's is the only thread (`OnlyMain`),
  with nothing assumed of what happens, as nobody can be late.

* `SchedulerWaitProofs!FibersReadyOnce`: `Spec /\ OneWaiter /\ []SameThread =>
  []ReadyOnce`. `OneWaiter` is a condition on the program: no two of its codes wait for the same
  counter, in an operation or as part of a `Step`, though each may wait for it as often as it
  likes. Where two do, finding 1 has one take back the registration of the other. The invariant
  `WaitInv` says where a fiber that waits is registered: in one published slot, in one entry of
  one ready list, or in neither, and never in both (`OneName`); a fiber that is named in a slot or a
  list has its flag allocated and an `AddWaitingFiber` that has published it and not taken it
  back (`PublishedFits`, `ListedFits`); and the registers of every call fit the place its
  fiber is at (`InCall`). `StepKinds` reduces the thirty-odd actions to ten kinds, of
  which the fiber's registration moves in five: `AddStore`, `AddAcquire`,
  `CheckAcquire`, the entry of a ready list that is taken, and a counter that is constructed
  again. That a fiber never begins a wait while it is still registered is the invariant `LeftInv`
  of the fibers at work: a registered fiber is asleep, or still in its `AddWaitingFiber`.
* `SchedulerWaitProofs!RoomForAll`: `NeverFull`, with the same hypotheses. A queue has
  room as the jobs in it were asked for by distinct operations of that priority
  (`EnoughRoom`, by `SortInv` and `AsksInv`, and an injection into `Submissions`). A counter
  has a free slot as a slot that is not free is published, or held by the call that
  will publish or free it, or by the walk that has just put its fiber in the ready list
  (`Claimed`): in each case the one code that waits for the counter has it. The hazard
  is the last case, a slot given back *after* its fiber was handed over: the fiber is
  still in the list of the very thread that has to give the slot back.
* `SchedulerWaitProofs!OneWorkerWaits`: both, with `[]StartedFirst` in the place of `[]SameThread`,
  where main's thread is the only worker and IO jobs do not wait.
* `SchedulerWaitProofs!WaitsMeanDone`: `Spec /\ CountersKept /\ []SameThread /\
  []ChecksAreFresh => WaitMeansDone`. `CountersKept` is a condition on the program: each
  counter is used by one code (`CountersOwned`), which leaves its fiber to wait for 0
  (`PlainWaits`), constructs it again only after it has waited for it, or before it has raised it
  (`NewsSettled`), and there are fewer jobs than values of a counter (2^32 in the code).
  `ChecksAreFresh` says that no walk begun at 0 is overtaken by an `Increment`: finding 5 is
  one that is, so the theorem says that this is all that can go wrong. The invariant
  `EndInv`: a counter counts the jobs that are with the Manager, and the one whose
  `ScheduleJob` is between the increment and the queue (`Counted`); so it is 0 where it is
  constructed (`NewSafe`) and where its code has not started (`Untouched`); all targets are 0
  (`PlainLeft`, `ZeroTargets`); what the second look of a wait has loaded is still true when it
  takes the registration back, as the only code to raise the counter is the one that waits
  (`Loaded`); and a fiber that waits is registered, or about to be, or its counter is 0
  (`Awaits`).
* `SchedulerWaitProofs!OneWorkerIsDone` and `OneWorkerServes`: `WaitMeansDone`, and with it
  `IsJobService` and `Consecutive`, of every program that satisfies `CountersKept`, has main's thread
  as its only worker (`OnlyMainWorks`), and gives its IO jobs no counter (`IOUncounted`), where
  `[]StartedFirst`. Then only one thread walks, on a fiber it does not leave
  meanwhile, so the counter keeps the value of the walk (`WalkSees`). `Nested`, `Queue3` and `List3` are such
  programs. A late IO thread is a second worker, and finding 5 then applies.
* `SchedulerWaitProofs!OneThreadServes`: all three with main's thread alone, and nothing assumed of
  what happens. `Queue3` is such a program.
* `SchedulerWaitProofs!OneJobWaits`: `WaitMeansDone` with any number of workers and
  `[]SameThread`, of programs that satisfy `CountersKept` and raise each counter by one `ScheduleJob`
  (`OneJobEach`), as a `WaitForSingle` does whose address is not used again. A walk for 0 is then
  that of the job's own `Decrement`, after the only `Increment` (`SingleInv`). `OneWorkerJobs`
  is the case of one worker, with `[]StartedFirst`, whose IO jobs may then be waited for.
* `SchedulerWaitProofs!OneLeaverIsSafe`: `SameThread`, and from it `FiberIsLeft`, `ReadyOnce` and
  `NeverFull`, with any number of workers, where one code
  of the program does all the waiting, however often (`OneLeaver`), and all threads have started
  before a fiber is first left in `GetNextJob` (`[]StartedFirst`); if
  that code is not main's, main shuts down when it returns. The code goes from thread to
  thread, and on each it arrives on, the fiber that thread was on is left in `GetNextJob`,
  where the stale pointer of line 73 is. Why it is always the same thread that
  comes back to that fiber is an argument about the pool. `TurnsInv`: there is one such
  fiber at most, and its thread is the one that is on the waiting code's fiber (`GivesWay`);
  fibers that were never used come after all others (`SparesLast`); a search goes from
  the first fiber on and passes no idle one (`Probed`). So when the code leaves its fiber the next
  time, the search of its thread comes to the fiber left in `GetNextJob` first, and every
  thread on a fiber in `GetNextJob` is the one whose TLS it holds (`TurnsOwn`). `StartedFirst` and
  `LastOut` keep others from searching then: a thread that starts, and a main that leaves for good. A
  thread that starts earlier finds fibers that were never used (`TurnStarts`).
  Without the order of the search, or with a second code that waits, it fails (finding 2).
* `SchedulerWaitProofs!OneLeaverServes` and `OneLeaverIOApart`: what follows, with `[]StartedFirst`, for the
  simplest use of the library, jobs that main forks and waits for one by one: with any number of workers
  a wait is over after its job, the Manager implements `JobService`, Queues keep
  their order, and IO jobs stay apart. `ForkJoin` is such a program.

**threadjob.**

* `JobSystemProofs!TypeCorrect`: `TypeOK`. Needs the shape of the stacks (`StackInv`): below a
  callback that `Run` has called is a Run with this job first, so that what `Run` takes off
  when the callback returns is there.
* `JobSystemProofs!OwnedOnce`: `Spec /\ []ContinuedOnce => []OneOwner`. A job that is
  allocated has one pointer to it, in the list or in the `jobsToRun` of one `Run`. The
  invariant: no list has a job twice (`NoneTwice`), no two have one in common
  (`Apart`), and what is in one is what is allocated (`Owned`). `ContinuedOnce` says that
  a job's continuation has not been added before. The code does not look at this: a
  program that calls such a job again after it is done, or gives two jobs one
  continuation, adds it twice. TLC checks `ContinuedOnce` on the program of `job_system`.
* `JobSystemProofs!ContinuedAndOwned`: both, with nothing assumed of what happens, of
  programs that keep to `ContinuationsSettled`: a job with a continuation is called by one
  thread, no more often than it takes until it is done, and neither the job nor its continuation is added
  by the program or shared. The invariant `ContinueInv` counts, for every thread, the calls of the job
  that it has begun or still to make against the rounds that the job has left
  (`SettledInv`); an exception in a callback, or a nested `Run`, can only take calls away.

Two kinds of hypotheses appear in these theorems. Conditions on the program (`OneWaiter`,
`CountersKept`, `OneJobEach`, `OnlyMain`, `OnlyMainWorks`, `IOJobsStay`, `IOUncounted`, `OneLeaver`,
`ContinuationsSettled`) can be read off its text. The others are of what happens. `WaitMeansDone`,
`[]SameThread`, `[]ChecksAreFresh` and `[]ContinuedOnce` are the ways for the code to go
wrong that the findings show; each has a theorem that rids it of them for some programs.
`[]StartedFirst` is of the operating system: no thread is so late that a fiber has been left in
`GetNextJob` before it starts. The code does not see to it, and a program that has threads besides main's
cannot either: the theorems with it say what is left to go wrong when the threads are quick, which is
nothing for these programs, and findings 2 and 4 what goes wrong when they are not. The programs of the runs that
satisfy the conditions:

| Program | Nothing assumed of what happens | With `[]StartedFirst` |
|---|---|---|
| `Queue3` | `OneThreadIsSafe`, `OneThreadServes` | as `Nested` |
| `Nested`, `List3` | | `OneWorkerIsSafe`, `OneWorkerWaits`, `OneWorkerIsDone`, `OneWorkerServes` |
| `ForkJoin`, `WaitOnce` | | `OneLeaverIsSafe`, `OneLeaverServes`, `OneLeaverIOApart` |
| `Blocking` | | `OneLeaverIsSafe`, `OneLeaverIOApart` |
| `IOWait` of finding 3 | | `OneWorkerIsSafe`, `OneWorkerWaits`, `OneWorkerJobs`, those of `ForkJoin` |
| `WaitAndLeave` of finding 4 | | those of `Nested` and of `ForkJoin` |
| `Singles`, `Forks` of finding 5 | | `OneLeaverIsSafe`, `OneLeaverIOApart` |
| `WaitAndJoin` of finding 7 | | those of `ForkJoin` |
| the program of `job_system` | `ContinuedAndOwned` | |

`JobWaits` of finding 2, in which two codes wait, and `Detached`, whose waits share a counter, are in none
of the rows; `JoinAll` waits for nothing. TLC has evaluated the conditions on the
programs, and the invariants on their states, before they were proved.

Only model-checked:

* `SameThread` with two or more workers where several codes wait: it depends on who resumes
  whom (finding 2).
* `IOApart` has no passing run: it is proved where it holds, and `sched_late_io` shows where it does not.
* `WaitMeansDone` with two or more workers where a counter is raised more than once, which
  finding 5 breaks, where a counter is lowered or waited for by several codes, or where a wait blocks
  its thread (`Blocking`) or is for a value other than 0.
* `ReadyOnce` and `NeverFull` where several codes wait for one counter, as in `Detached` of
  `sched_programs`: finding 1 breaks them in general.
* `ContinuedOnce` of `threadjob` for programs outside of `ContinuationsSettled`.
* All liveness, and with it the absence of deadlock: fairness and ENABLED are out of the
  reach of the prover.

## Not modelled

* The destructor of the Manager; `SetupThread` for an index that is taken, and what a
  thread it has taken in does with the Manager while it is on its thread fiber.
* Delegates: which copy of a `JobInfo` destroys the callback. The copies are byte by
  byte and every one destroys it, which is harmless for the trivial arguments the
  README asks for and undefined for others; the template machinery of
  `detail/function_*.h`, `detail/detail.h` and `JobFunctionTraits.h` is compile-time.
* The references that `JobSystem::Add*` return, and the destructor of `IJob`.
* Creating and converting Windows fibers (`Fiber.cpp:9-71`), and the Windows API in
  general, which is taken to do what it documents.
* Optick, another project's code; the build files; the example programs, from which
  the programs of the runs are drawn.

## Plan

Done: the counter and its races, with theorems on types, slots and lone waiters; the scheduler with
the blocking operations, `List` and `Queue`, against `JobService`, proved where waits mean
what they should; fibers, IO jobs and waits, with proofs, some of them for what a program does and others
for the programs in which nothing can go wrong; the ring against `BoundedQueue`, proved
as well; the start of threads, with proofs; `threadjob`, with proofs.

Left, in this order:

1. `SameThread` where several codes wait: which programs on several workers keep it, besides
   those with one code that waits.
2. `JobOwnership`: the copies of a `JobInfo` from `ScheduleJob` through a cell to the
   worker, and who destroys the delegate.
3. `Scheduler`: exceptions caught inside a job, and what they leave raised.

New questions extend the scripts and programs of the existing runs where they can, so
that a run stays one question.

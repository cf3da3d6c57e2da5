---------------------------- MODULE MCScheduler ----------------------------
(* Instances of Scheduler for TLC. *)
EXTENDS Scheduler, TLC

CONSTANTS main, a, b, c, d, c1, c2

AllFibers == 0 .. NumFibers - 1
Queues2   == [p \in Prio |-> 2]

\* What is not in f does nothing.
Bodies(f) == [x \in Code |-> IF x \in DOMAIN f THEN f[x] ELSE <<>>]

\* A main, a worker and an IO thread; a main thread, which then runs all jobs but
\* those of IO, and an IO thread; and what there is without AutoSpawnThreads, a main
\* thread with one worker that the program makes, or alone.
AllThreads == Threads
OneWorker  == {MainThread, IOThread}
NoIO       == Threads \ {IOThread}
MainOnly   == {MainThread}

Running(threads, f) ==
  [body |-> Bodies(f), threads |-> threads, shutdownAfterMain |-> TRUE]

\* Main schedules two jobs and waits for each.
ForkJoin == Running(NoIO,
  main :> <<Schedule("normal", a, c1), Schedule("high", b, c2), Wait(c1, 0), Wait(c2, 0)>>)

\* Main waits for one job, beside a worker and the IO thread.
WaitOnce == Running(AllThreads, main :> <<Schedule("normal", a, c1), Wait(c1, 0)>>)

\* A single job that itself schedules a job and waits for it, then another single
\* job from the same place: the counter is at the same address.  Before that, one
\* job of IO, beside the one worker.
Nested == Running(OneWorker,
  main :> <<Schedule("io", d, NoCounter)>> \o WaitForSingle("normal", a, c1) \o WaitForSingle("normal", c, c1) @@
  a    :> <<Schedule("low", b, c2), Wait(c2, 0)>>)

\* Main returns at once; its jobs go on, two of them to wait for what never comes
\* to pass, over one slot, while one of priority High shuts down.
Detached ==
  [body |-> Bodies(
     main :> <<Schedule("normal", a, NoCounter), Schedule("normal", b, NoCounter),
               Schedule("normal", d, NoCounter), Schedule("high", c, NoCounter)>> @@
     a    :> <<Wait(c1, 1)>> @@ b :> <<Wait(c1, 1)>> @@
     c    :> <<[op |-> "shutdown", blocking |-> FALSE]>>),
   threads |-> AllThreads, shutdownAfterMain |-> FALSE]

\* A Queue of three jobs, of which the first waits for a job of its own.
Queue3 == Running(MainOnly,
  main :> <<QueueAdd(c1, "normal", a), QueueAdd(c1, "high", b), QueueStep(c1),
            QueueAdd(c1, "low", c), QueueExecute(c1)>> @@
  a    :> <<ListAdd(c2, "low", d), ListWait(c2)>>)

\* A List of two jobs that wait for a third of the list to go before them.
List3 == Running(OneWorker,
  main :> <<ListAdd(c1, "low", a), ListAdd(c1, "normal", b), ListAdd(c1, "high", c),
            ListWait(c1)>> @@
  b    :> <<Schedule("normal", d, c2), Wait(c2, 0)>>)

\* Main waits for a job, blocking its thread.
Blocking == Running(AllThreads,
  main :> <<Schedule("normal", a, c1), BlockingWait(c1, 0, d)>> @@
  d    :> WaitForCounter_Proxy(c1, 0, d))

\* Main shuts down and waits for the threads, started or not.
JoinAll ==
  [body |-> Bodies(
     main :> <<Schedule("normal", a, NoCounter), Schedule("io", b, NoCounter),
               [op |-> "shutdown", blocking |-> TRUE]>>),
   threads |-> AllThreads, shutdownAfterMain |-> FALSE]

SoundPrograms == {ForkJoin, WaitOnce, Nested, Detached, Queue3, List3, Blocking, JoinAll}

\* One job that schedules another one and waits for it.
JobWaits == Running(NoIO,
  main :> <<Schedule("normal", a, c1), Wait(c1, 0)>> @@
  a    :> <<Schedule("normal", b, c2), Wait(c2, 0)>>)

\* A wait for one job of IO.
IOWait == Running(OneWorker, main :> <<Schedule("io", a, c1), Wait(c1, 0)>>)

\* WaitForSingle twice from the same place, with a worker beside main.
Singles == Running(AllThreads,
  main :> WaitForSingle("normal", a, c1) \o WaitForSingle("normal", b, c1))

\* A fork of two jobs under one counter, with a worker beside main.
Forks == Running(AllThreads,
  main :> <<Schedule("normal", a, c1), Schedule("normal", b, c1), Wait(c1, 0)>>)

\* Main waits for a job and then shuts down, wherever it is by then.
WaitAndJoin == Running(AllThreads,
  main :> <<Schedule("normal", a, c1), Wait(c1, 0), [op |-> "shutdown", blocking |-> TRUE]>>)

\* Main waits for a job and then leaves another one to be done.
WaitAndLeave == Running(OneWorker,
  main :> <<Schedule("normal", a, c1), Wait(c1, 0), Schedule("normal", b, NoCounter)>>)

WaitAndLeaveOnly == {WaitAndLeave}
JobWaitsOnly    == {JobWaits}
IOWaitOnly      == {IOWait}
RaisedAgain     == {Singles, Forks}
BlockingOnly    == {Blocking}
WaitAndJoinOnly == {WaitAndJoin}
=============================================================================

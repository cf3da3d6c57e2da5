------------------------------ MODULE Startup ------------------------------
(***************************************************************************)
(* Manager::Run (code/fiber/Manager.cpp) and Thread (code/fiber/           *)
(* Thread.cpp): how the worker threads come up and where Run gives up.     *)
(*                                                                         *)
(* A worker finds its TLS by comparing its thread id with the _id of every *)
(* Thread.  CreateThread may let the new thread run before it has stored   *)
(* that id, so Spawn holds _startupIdMutex over the call and the new       *)
(* thread passes the mutex in WaitForReady before its callback.            *)
(*                                                                         *)
(* What the threads do once they are in the loop of a worker fiber is      *)
(* Scheduler's matter; here a worker leaves when the manager shuts down.   *)
(*                                                                         *)
(* Without AutoSpawnThreads the program makes the threads, in its main     *)
(* callback or, when it has none, after Run: with SpawnThread one after    *)
(* the other, or by having threads of its own call SetupThread.            *)
(***************************************************************************)
EXTENDS Integers

CONSTANTS
  NumThreads,   \* _numThreads: thread 0 is the main one, the last one does IO
  NoId          \* UINT32_MAX

Threads  == 0 .. NumThreads - 1
Workers  == Threads \ {0}
IOThread == NumThreads - 1

ASSUME StartupAssumption ==
  /\ NumThreads \in Nat \ {0}
  /\ NoId \notin Threads

\* The options Run depends on: whether there is a main callback, whether to
\* shut down after it, whether Run spawns the workers and how else they come to
\* be, how many fibers there are (none, too few for the threads, or enough), and
\* whether the check of the thread affinity fails.
Options == [main : BOOLEAN, shutdownAfterMain : BOOLEAN, autoSpawn : BOOLEAN,
            byHand : {"SpawnThread", "SetupThread"},
            numFibers : {0, NumThreads - 1, NumThreads}, affinityFails : BOOLEAN]

VARIABLES
  options,
  id,            \* _id of each Thread; the id of the thread that runs it is its index
  handle,        \* _handle: none, that of the thread, or that of GetCurrentThread(),
                 \* which is a name for whatever thread uses it
  mutexHeld,     \* Spawn holds _startupIdMutex
  isIO,          \* TLS::_isIO
  worker,        \* where each worker thread is
  fibers,        \* how many idle fibers there are
  runPC,         \* where Run is
  next,          \* the thread it is at
  shuttingDown,
  code           \* what Run has returned

vars == <<options, id, handle, mutexHeld, isIO, worker, fibers, runPC, next, shuttingDown,
          code>>
runVars == <<runPC, next, code>>

WorkerPC == {"none", "created", "waiting", "callback", "loop", "exited", "setup", "usable"}
RunPC == {"run", "flags", "spawn", "create", "created", "find", "main", "join", "returned"}
ReturnCode == {"none", "Succes", "OSError", "NullCallback", "AlreadyInitialized",
               "InvalidNumFibers", "ErrorThreadAffinity"}

Init ==
  /\ options \in Options
  /\ id = [i \in Threads |-> NoId]
  /\ handle = [i \in Threads |-> "none"]
  /\ mutexHeld = [i \in Threads |-> FALSE]
  /\ isIO = [i \in Threads |-> FALSE]
  /\ worker = [i \in Workers |-> "none"]
  /\ fibers = 0
  /\ runPC = "run"
  /\ next = 0
  /\ shuttingDown = FALSE
  /\ code = "none"

----------------------------------------------------------------------------
Returns(rc) == runPC' = "returned" /\ code' = rc
Goes(pc) == runPC' = pc /\ UNCHANGED code

\* Run up to the loop over the threads.
Run ==
  /\ runPC = "run"
  /\ id' = [id EXCEPT ![0] = 0]
  /\ handle' = [handle EXCEPT ![0] = "current"]
  /\ fibers' = options.numFibers
  /\ \/ options.numFibers = 0 /\ Returns("InvalidNumFibers")
     \/ options.numFibers > 0 /\ options.affinityFails /\ Returns("ErrorThreadAffinity")
     \/ options.numFibers > 0 /\ ~options.affinityFails /\ Goes("flags")
  /\ UNCHANGED <<options, mutexHeld, isIO, worker, next, shuttingDown>>

\* A second Run finds the arrays of the first.
RunAgain ==
  /\ runPC = "returned"
  /\ code # "AlreadyInitialized"
  /\ Returns("AlreadyInitialized")
  /\ UNCHANGED <<options, id, handle, mutexHeld, isIO, worker, fibers, next, shuttingDown>>

\* On to the next thread of the loop.
NextThread == IF next = IOThread THEN Goes("find") /\ UNCHANGED next
                                 ELSE Goes("flags") /\ next' = next + 1

\* A bug: the IO thread is not marked.
FlagsUnset ==
  /\ runPC = "flags"
  /\ IF next > 0 /\ options.autoSpawn THEN Goes("spawn") /\ UNCHANGED next ELSE NextThread
  /\ UNCHANGED <<options, id, handle, mutexHeld, isIO, worker, fibers, shuttingDown>>

\* One turn of the loop: the TLS of thread next, and its Spawn.
Flags ==
  /\ runPC = "flags"
  /\ isIO' = [isIO EXCEPT ![next] = next > 0 /\ next = IOThread]
  /\ IF next > 0 /\ options.autoSpawn THEN Goes("spawn") /\ UNCHANGED next ELSE NextThread
  /\ UNCHANGED <<options, id, handle, mutexHeld, worker, fibers, shuttingDown>>

\* Spawn takes the mutex.
Spawn ==
  /\ runPC = "spawn"
  /\ mutexHeld' = [mutexHeld EXCEPT ![next] = TRUE]
  /\ Goes("create")
  /\ UNCHANGED <<options, id, handle, isIO, worker, fibers, next, shuttingDown>>

\* CreateThread makes the thread, which can run at once,
CreateThread ==
  /\ runPC = "create"
  /\ worker' = [worker EXCEPT ![next] = "created"]
  /\ Goes("created")
  /\ UNCHANGED <<options, id, handle, mutexHeld, isIO, fibers, next, shuttingDown>>

\* Back to whoever called SpawnThread: the loop of Run, or the program.
SpawnReturns == IF options.autoSpawn THEN NextThread ELSE Goes("main") /\ UNCHANGED next

\* A bug: the mutex is kept.
SpawnedLocked ==
  /\ runPC = "created"
  /\ id' = [id EXCEPT ![next] = next]
  /\ handle' = [handle EXCEPT ![next] = "thread"]
  /\ worker' = [worker EXCEPT ![next] = IF @ = "waiting" THEN "callback" ELSE @]
  /\ SpawnReturns
  /\ UNCHANGED <<options, mutexHeld, isIO, fibers, shuttingDown>>

\* and stores its id before it returns; Spawn unlocks and notifies the waiters.
Spawned ==
  /\ runPC = "created"
  /\ id' = [id EXCEPT ![next] = next]
  /\ handle' = [handle EXCEPT ![next] = "thread"]
  /\ mutexHeld' = [mutexHeld EXCEPT ![next] = FALSE]
  /\ worker' = [worker EXCEPT ![next] = IF @ = "waiting" THEN "callback" ELSE @]
  /\ SpawnReturns
  /\ UNCHANGED <<options, isIO, fibers, shuttingDown>>

\* It may fail: then there is no id, and Run returns with the threads spawned so
\* far running; SpawnThread only says so.
CreateThreadFails ==
  /\ runPC = "create"
  /\ mutexHeld' = [mutexHeld EXCEPT ![next] = FALSE]
  /\ IF options.autoSpawn THEN Returns("OSError") ELSE Goes("main")
  /\ UNCHANGED <<options, id, handle, isIO, worker, fibers, next, shuttingDown>>

\* FindFreeFiber for the main thread; then the main callback.  Without one Run
\* returns, and the program goes on where the callback would be.
FindFiber ==
  /\ runPC = "find"
  /\ fibers > 0
  /\ fibers' = fibers - 1
  /\ next' = 0
  /\ \/ options.main /\ Goes("main")
     \/ ~options.main /\ options.shutdownAfterMain /\ Returns("NullCallback")
     \/ ~options.main /\ ~options.shutdownAfterMain /\ runPC' = "main" /\ code' = "Succes"
  /\ UNCHANGED <<options, id, handle, mutexHeld, isIO, worker, shuttingDown>>

\* SpawnThread: the program makes the next thread.
SpawnThread ==
  /\ runPC = "main"
  /\ ~options.autoSpawn
  /\ options.byHand = "SpawnThread"
  /\ next < IOThread
  /\ next' = next + 1
  /\ Goes("spawn")
  /\ UNCHANGED <<options, id, handle, mutexHeld, isIO, worker, fibers, shuttingDown>>

\* The main callback has ended; or, without shutdownAfterMain, a job that it left
\* behind calls Shutdown, as the program has to at last; without a callback it
\* is the blocking Shutdown, which joins the threads as Run does.
Shutdown ==
  /\ runPC = "main"
  /\ shuttingDown' = TRUE
  /\ Goes("join")
  /\ UNCHANGED <<options, id, handle, mutexHeld, isIO, worker, fibers, next>>

\* A bug: the last thread is not joined.
JoinFewer ==
  /\ runPC = "join"
  /\ \A i \in Workers \ {IOThread} : id[i] # NoId => worker[i] = "exited"
  /\ Returns("Succes")
  /\ UNCHANGED <<options, id, handle, mutexHeld, isIO, worker, fibers, next, shuttingDown>>

\* Join of a thread without id returns at once.  With the handle of the current
\* thread, which SetupThread stores, it is the caller that the caller waits for: that
\* Join never returns, whether or not the thread has ended.
Join ==
  /\ runPC = "join"
  /\ \A i \in Workers : id[i] # NoId => handle[i] = "thread" /\ worker[i] = "exited"
  /\ Returns("Succes")
  /\ UNCHANGED <<options, id, handle, mutexHeld, isIO, worker, fibers, next, shuttingDown>>

----------------------------------------------------------------------------
(* A worker thread.                                                        *)

WorkerGoes(i, pc) ==
  /\ worker' = [worker EXCEPT ![i] = pc]
  /\ UNCHANGED <<options, id, handle, mutexHeld, isIO, runVars, shuttingDown>>

\* A bug: no look at the id, the callback is called at once.
WaitForReadyNot(i) ==
  /\ worker[i] = "created"
  /\ WorkerGoes(i, "callback")
  /\ UNCHANGED fibers

\* LaunchThread, WaitForReady: take the mutex and look at the id.
WaitForReady(i) ==
  /\ worker[i] = "created"
  /\ ~mutexHeld[i]
  /\ WorkerGoes(i, IF id[i] = NoId THEN "waiting" ELSE "callback")
  /\ UNCHANGED fibers

\* A bug: a fiber is taken that is not idle.
ThreadCallbackAny(i) ==
  /\ worker[i] = "callback"
  /\ fibers' = fibers - 1
  /\ WorkerGoes(i, "loop")

\* ThreadCallback_Worker: the first fiber.  There may be none left, for ever.
ThreadCallback(i) ==
  /\ worker[i] = "callback"
  /\ fibers > 0
  /\ fibers' = fibers - 1
  /\ WorkerGoes(i, "loop")

\* A worker leaves its loop at shutdown; a thread of the program ends when it likes.
Exit(i) ==
  /\ \/ worker[i] = "loop" /\ shuttingDown
     \/ worker[i] = "usable"
  /\ WorkerGoes(i, "exited")
  /\ UNCHANGED fibers

\* SetupThread, called by a thread of the program that is to be thread i, while
\* the Manager has its threads: the Thread is nobody's, and takes the id and the
\* handle of its caller.
SetupThread(i) ==
  /\ worker[i] = "none"
  /\ runPC = "main"
  /\ ~options.autoSpawn /\ options.byHand = "SetupThread"
  /\ id[i] = NoId
  /\ id' = [id EXCEPT ![i] = i]
  /\ handle' = [handle EXCEPT ![i] = "current"]
  /\ worker' = [worker EXCEPT ![i] = "setup"]
  /\ UNCHANGED <<options, mutexHeld, isIO, fibers, runVars, shuttingDown>>

\* Its first fiber; after that SetupThread returns true.
SetupFiber(i) ==
  /\ worker[i] = "setup"
  /\ fibers > 0
  /\ fibers' = fibers - 1
  /\ WorkerGoes(i, "usable")

RunStep ==
  \/ Run \/ RunAgain \/ Flags \/ Spawn \/ CreateThread \/ Spawned \/ CreateThreadFails
  \/ FindFiber \/ SpawnThread \/ Shutdown \/ Join
WorkerStep(i) ==
  WaitForReady(i) \/ ThreadCallback(i) \/ Exit(i) \/ SetupThread(i) \/ SetupFiber(i)

Next == RunStep \/ \E i \in Workers : WorkerStep(i)
Fairness == WF_vars(RunStep) /\ \A i \in Workers : WF_vars(WorkerStep(i))
Spec == Init /\ [][Next]_vars /\ Fairness

----------------------------------------------------------------------------
TypeOK ==
  /\ options \in Options
  /\ id \in [Threads -> Threads \cup {NoId}]
  /\ handle \in [Threads -> {"none", "thread", "current"}]
  /\ mutexHeld \in [Threads -> BOOLEAN]
  /\ isIO \in [Threads -> BOOLEAN]
  /\ worker \in [Workers -> WorkerPC]
  /\ fibers \in 0 .. NumThreads
  /\ runPC \in RunPC
  /\ next \in Threads
  /\ shuttingDown \in BOOLEAN
  /\ code \in ReturnCode
  /\ runPC = "returned" => code # "none"

\* Thread.h:68-75, ManagerThreads.cpp:51-64, Manager.cpp:60-62.  A thread that runs
\* its callback, or that SetupThread has taken in, has its id in its Thread, so
\* that the TLS it looks up is there and its own.
OwnTLS ==
  \A i \in Workers :
    worker[i] \in {"callback", "loop", "exited", "setup", "usable"} => id[i] = i

\* Manager.cpp:111-124, ManagerJobs.cpp:44-47.  The flag by which a thread knows
\* that it does IO is final before the thread can look at it.
FlagsFirst ==
  \A i \in Workers :
    worker[i] \in {"callback", "loop", "setup", "usable"} => isIO[i] = (i = IOThread)

\* Manager.cpp:146-165.  When the joins are over, of a Run with a main callback or
\* of Shutdown, no worker is left that could use the threads and fibers of the
\* Manager.
NoneLeftBehind ==
  code = "Succes" /\ runPC = "returned" => \A i \in Workers : worker[i] \in {"none", "exited"}

\* Manager.cpp:70-154, Thread.cpp:49-111.  If there is a fiber for every thread,
\* or none, each thread that was created comes to its loop and Run returns; the
\* threads of SetupThread are another matter.
Starts ==
  options.numFibers # NumThreads - 1 =>
    /\ options.autoSpawn \/ options.byHand = "SpawnThread" => <>(runPC = "returned")
    /\ \A i \in Workers : worker[i] = "created" ~> worker[i] = "loop"
=============================================================================

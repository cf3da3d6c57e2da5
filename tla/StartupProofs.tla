--------------------------- MODULE StartupProofs ---------------------------
(***************************************************************************)
(* The safety properties of Startup, for any number of threads.            *)
(*                                                                         *)
(* OwnTLS is not inductive: that a worker passes WaitForReady only with    *)
(* its id stored rests on Run holding the mutex from before the thread is  *)
(* made until the id is there, and FlagsFirst on the workers being made in *)
(* the order of the loop, so that Run marks no thread that exists.         *)
(***************************************************************************)
EXTENDS Startup, TLAPS

\* Run holds the mutex of the thread it is making ...
Held ==
  /\ runPC \in {"spawn", "create", "created"} => next \in Workers
  /\ runPC \in {"create", "created"} => mutexHeld[next]
  /\ runPC = "created" => worker[next] = "created"

\* ... and makes them in order.
Later(i) ==
  \/ runPC = "run"
  \/ runPC \in {"flags", "spawn", "create"} /\ i >= next
  \/ runPC = "created" /\ i > next
  \/ runPC \in {"flags", "find"} /\ ~options.autoSpawn
  \/ runPC = "main" /\ ~options.autoSpawn /\ options.byHand = "SpawnThread" /\ i > next

InOrder ==
  /\ runPC = "run" => next = 0
  /\ \A i \in Workers : Later(i) => worker[i] = "none"

\* A thread that exists has its id stored, except while Run is in CreateThread.
Stored ==
  \A i \in Workers :
    worker[i] # "none" => id[i] = i \/ (runPC = "created" /\ next = i)

\* The thread has been through the loop over the threads, or is just there.
LoopedOver(i) ==
  \/ worker[i] # "none"
  \/ runPC \in {"spawn", "create", "created"} /\ i = next
  \/ ~options.autoSpawn /\ runPC = "flags" /\ i < next
  \/ ~options.autoSpawn /\ runPC \in {"find", "main", "spawn", "create", "created"}

\* The flag is set before the thread is made.
Marked == \A i \in Workers : LoopedOver(i) => isIO[i] = (i = IOThread)

\* Run spawns the threads, or the program does.
Spawner ==
  runPC \in {"spawn", "create", "created"} =>
    options.autoSpawn \/ options.byHand = "SpawnThread"

\* Nobody waits for the condition variable of WaitForReady.
NoneWaits == \A i \in Workers : worker[i] # "waiting"

Inv ==
  /\ TypeOK
  /\ Held
  /\ Spawner
  /\ InOrder
  /\ Stored
  /\ Marked
  /\ NoneWaits
  /\ OwnTLS
  /\ NoneLeftBehind

----------------------------------------------------------------------------
\* Initially no worker has been made.
LEMMA InitInv == Init => Inv
<1> SUFFICES ASSUME Init PROVE Inv
  OBVIOUS
<1>1. TypeOK
  <2>1. options \in Options
    BY DEF Init
  <2>2. /\ id \in [Threads -> Threads \cup {NoId}]
        /\ handle \in [Threads -> {"none", "thread", "current"}]
        /\ mutexHeld \in [Threads -> BOOLEAN]
        /\ isIO \in [Threads -> BOOLEAN]
        /\ worker \in [Workers -> WorkerPC]
    BY DEF Init, WorkerPC
  <2>3. fibers \in 0 .. NumThreads /\ next \in Threads
    BY StartupAssumption DEF Init, Threads
  <2>4. /\ runPC \in RunPC /\ code \in ReturnCode
        /\ shuttingDown \in BOOLEAN
        /\ runPC = "returned" => code # "none"
    BY DEF Init, RunPC, ReturnCode
  <2>5. QED
    BY <2>1, <2>2, <2>3, <2>4 DEF TypeOK
<1>2. /\ Held /\ Spawner /\ InOrder /\ Stored /\ Marked /\ NoneWaits
      /\ OwnTLS /\ NoneLeftBehind
  BY DEF Init, Held, Spawner, InOrder, Stored, Marked, LoopedOver, NoneWaits, OwnTLS, NoneLeftBehind
<1>3. QED
  BY <1>1, <1>2 DEF Inv

\* Every step keeps the types.
LEMMA NextType ==
  ASSUME Inv, [Next]_vars PROVE TypeOK'
<1> USE StartupAssumption
    DEF Inv, TypeOK, Options, Threads, Workers, IOThread, WorkerPC,
        RunPC, ReturnCode
<1>1. CASE Run
  BY <1>1 DEF Run, Goes, Returns
<1>2. CASE RunAgain
  BY <1>2 DEF RunAgain, Returns
<1>3. CASE Flags
  BY <1>3 DEF Flags, NextThread, Goes
<1>4. CASE Spawn
  BY <1>4 DEF Spawn, Goes
<1>5. CASE CreateThread
  BY <1>5 DEF CreateThread, Goes
<1>6. CASE Spawned
  <2>1. next' \in Threads /\ runPC' \in RunPC /\ runPC' # "returned" /\ code' = code
    BY <1>6 DEF Spawned, SpawnReturns, NextThread, Goes
  <2>2. /\ id' \in [Threads -> Threads \cup {NoId}]
        /\ handle' \in [Threads -> {"none", "thread", "current"}]
        /\ mutexHeld' \in [Threads -> BOOLEAN]
        /\ worker' \in [Workers -> WorkerPC]
    BY <1>6 DEF Spawned
  <2>3. QED
    BY <1>6, <2>1, <2>2 DEF Spawned
<1>7. CASE CreateThreadFails
  BY <1>7 DEF CreateThreadFails, Returns, Goes
<1>8. CASE FindFiber
  BY <1>8 DEF FindFiber, Goes, Returns
<1>9. CASE SpawnThread
  BY <1>9 DEF SpawnThread, Goes
<1>10. CASE Shutdown
  BY <1>10 DEF Shutdown, Goes
<1>11. CASE Join
  BY <1>11 DEF Join, Returns
<1>12. ASSUME NEW i \in Workers, WaitForReady(i) PROVE TypeOK'
  BY <1>12 DEF WaitForReady, WorkerGoes, runVars
<1>13. ASSUME NEW i \in Workers, ThreadCallback(i) PROVE TypeOK'
  BY <1>13 DEF ThreadCallback, WorkerGoes, runVars
<1>14. ASSUME NEW i \in Workers, Exit(i) PROVE TypeOK'
  BY <1>14 DEF Exit, WorkerGoes, runVars
<1>15. ASSUME NEW i \in Workers, SetupThread(i) PROVE TypeOK'
  BY <1>15 DEF SetupThread, runVars
<1>16. ASSUME NEW i \in Workers, SetupFiber(i) PROVE TypeOK'
  BY <1>16 DEF SetupFiber, WorkerGoes, runVars
<1>17. CASE UNCHANGED vars
  BY <1>17 DEF vars
<1>18. QED
  BY <1>1, <1>2, <1>3, <1>4, <1>5, <1>6, <1>7, <1>8, <1>9,
     <1>10, <1>11, <1>12, <1>13, <1>14, <1>15, <1>16, <1>17
     DEF Next, RunStep, WorkerStep

\* The mutex is held around CreateThread, and the threads come in order.
LEMMA NextOrder ==
  ASSUME Inv, [Next]_vars PROVE Held' /\ Spawner' /\ InOrder'
<1> USE StartupAssumption
    DEF Inv, TypeOK, Options, Threads, Workers, IOThread, Held, Spawner,
        InOrder, Later
<1>1. CASE Run
  BY <1>1 DEF Run, Goes, Returns
<1>2. CASE RunAgain
  BY <1>2 DEF RunAgain, Returns
<1>3. CASE Flags
  BY <1>3 DEF Flags, NextThread, Goes
<1>4. CASE Spawn
  BY <1>4 DEF Spawn, Goes
<1>5. CASE CreateThread
  BY <1>5 DEF CreateThread, Goes
<1>6. CASE Spawned
  BY <1>6 DEF Spawned, SpawnReturns, NextThread, Goes
<1>7. CASE CreateThreadFails
  BY <1>7 DEF CreateThreadFails, Returns, Goes
<1>8. CASE FindFiber
  BY <1>8 DEF FindFiber, Goes, Returns
<1>9. CASE SpawnThread
  BY <1>9 DEF SpawnThread, Goes
<1>10. CASE Shutdown
  BY <1>10 DEF Shutdown, Goes
<1>11. CASE Join
  BY <1>11 DEF Join, Returns
<1>12. ASSUME NEW i \in Workers, WaitForReady(i) PROVE Held' /\ Spawner' /\ InOrder'
  BY <1>12 DEF WaitForReady, WorkerGoes, runVars
<1>13. ASSUME NEW i \in Workers, ThreadCallback(i) PROVE Held' /\ Spawner' /\ InOrder'
  BY <1>13 DEF ThreadCallback, WorkerGoes, runVars
<1>14. ASSUME NEW i \in Workers, Exit(i) PROVE Held' /\ Spawner' /\ InOrder'
  BY <1>14 DEF Exit, WorkerGoes, runVars
<1>15. ASSUME NEW i \in Workers, SetupThread(i) PROVE Held' /\ Spawner' /\ InOrder'
  BY <1>15 DEF SetupThread, runVars
<1>16. ASSUME NEW i \in Workers, SetupFiber(i) PROVE Held' /\ Spawner' /\ InOrder'
  BY <1>16 DEF SetupFiber, WorkerGoes, runVars
<1>17. CASE UNCHANGED vars
  BY <1>17 DEF vars
<1>18. QED
  BY <1>1, <1>2, <1>3, <1>4, <1>5, <1>6, <1>7, <1>8, <1>9,
     <1>10, <1>11, <1>12, <1>13, <1>14, <1>15, <1>16, <1>17
     DEF Next, RunStep, WorkerStep

\* A worker gets past WaitForReady only with its id stored.
LEMMA NextStored ==
  ASSUME Inv, [Next]_vars PROVE Stored' /\ NoneWaits' /\ OwnTLS'
<1> USE StartupAssumption
    DEF Inv, TypeOK, Options, Threads, Workers, IOThread, Held, Spawner,
        InOrder, Later, Stored, NoneWaits, OwnTLS
<1>1. CASE Run
  BY <1>1 DEF Run, Goes, Returns
<1>2. CASE RunAgain
  BY <1>2 DEF RunAgain, Returns
<1>3. CASE Flags
  BY <1>3 DEF Flags, NextThread, Goes
<1>4. CASE Spawn
  BY <1>4 DEF Spawn, Goes
<1>5. CASE CreateThread
  BY <1>5 DEF CreateThread, Goes
<1>6. CASE Spawned
  BY <1>6 DEF Spawned, SpawnReturns, NextThread, Goes
<1>7. CASE CreateThreadFails
  BY <1>7 DEF CreateThreadFails, Returns, Goes
<1>8. CASE FindFiber
  BY <1>8 DEF FindFiber, Goes, Returns
<1>9. CASE SpawnThread
  BY <1>9 DEF SpawnThread, Goes
<1>10. CASE Shutdown
  BY <1>10 DEF Shutdown, Goes
<1>11. CASE Join
  BY <1>11 DEF Join, Returns
<1>12. ASSUME NEW i \in Workers, WaitForReady(i) PROVE Stored' /\ NoneWaits' /\ OwnTLS'
  BY <1>12 DEF WaitForReady, WorkerGoes, runVars
<1>13. ASSUME NEW i \in Workers, ThreadCallback(i) PROVE Stored' /\ NoneWaits' /\ OwnTLS'
  BY <1>13 DEF ThreadCallback, WorkerGoes, runVars
<1>14. ASSUME NEW i \in Workers, Exit(i) PROVE Stored' /\ NoneWaits' /\ OwnTLS'
  BY <1>14 DEF Exit, WorkerGoes, runVars
<1>15. ASSUME NEW i \in Workers, SetupThread(i) PROVE Stored' /\ NoneWaits' /\ OwnTLS'
  BY <1>15 DEF SetupThread, runVars
<1>16. ASSUME NEW i \in Workers, SetupFiber(i) PROVE Stored' /\ NoneWaits' /\ OwnTLS'
  BY <1>16 DEF SetupFiber, WorkerGoes, runVars
<1>17. CASE UNCHANGED vars
  BY <1>17 DEF vars
<1>18. QED
  BY <1>1, <1>2, <1>3, <1>4, <1>5, <1>6, <1>7, <1>8, <1>9,
     <1>10, <1>11, <1>12, <1>13, <1>14, <1>15, <1>16, <1>17
     DEF Next, RunStep, WorkerStep

\* No thread is marked once it exists.
LEMMA NextMarked ==
  ASSUME Inv, [Next]_vars PROVE Marked'
<1> USE StartupAssumption
    DEF Inv, TypeOK, Options, Threads, Workers, IOThread, Held, Spawner,
        InOrder, Later, Marked, LoopedOver
<1>1. CASE Run
  BY <1>1 DEF Run, Goes, Returns
<1>2. CASE RunAgain
  BY <1>2 DEF RunAgain, Returns
<1>3. CASE Flags
  BY <1>3 DEF Flags, NextThread, Goes
<1>4. CASE Spawn
  BY <1>4 DEF Spawn, Goes
<1>5. CASE CreateThread
  BY <1>5 DEF CreateThread, Goes
<1>6. CASE Spawned
  BY <1>6 DEF Spawned, SpawnReturns, NextThread, Goes
<1>7. CASE CreateThreadFails
  BY <1>7 DEF CreateThreadFails, Returns, Goes
<1>8. CASE FindFiber
  BY <1>8 DEF FindFiber, Goes, Returns
<1>9. CASE SpawnThread
  BY <1>9 DEF SpawnThread, Goes
<1>10. CASE Shutdown
  BY <1>10 DEF Shutdown, Goes
<1>11. CASE Join
  BY <1>11 DEF Join, Returns
<1>12. ASSUME NEW i \in Workers, WaitForReady(i) PROVE Marked'
  BY <1>12 DEF WaitForReady, WorkerGoes, runVars
<1>13. ASSUME NEW i \in Workers, ThreadCallback(i) PROVE Marked'
  BY <1>13 DEF ThreadCallback, WorkerGoes, runVars
<1>14. ASSUME NEW i \in Workers, Exit(i) PROVE Marked'
  BY <1>14 DEF Exit, WorkerGoes, runVars
<1>15. ASSUME NEW i \in Workers, SetupThread(i) PROVE Marked'
  BY <1>15 DEF SetupThread, runVars
<1>16. ASSUME NEW i \in Workers, SetupFiber(i) PROVE Marked'
  BY <1>16 DEF SetupFiber, WorkerGoes, runVars
<1>17. CASE UNCHANGED vars
  BY <1>17 DEF vars
<1>18. QED
  BY <1>1, <1>2, <1>3, <1>4, <1>5, <1>6, <1>7, <1>8, <1>9,
     <1>10, <1>11, <1>12, <1>13, <1>14, <1>15, <1>16, <1>17
     DEF Next, RunStep, WorkerStep

\* Join passes over no thread that exists.
LEMMA NextNoneLeft ==
  ASSUME Inv, [Next]_vars PROVE NoneLeftBehind'
<1> USE StartupAssumption
    DEF Inv, TypeOK, Options, Threads, Workers, IOThread, Held, Spawner,
        InOrder, Later, Stored, NoneWaits, NoneLeftBehind
<1>1. CASE Run
  BY <1>1 DEF Run, Goes, Returns
<1>2. CASE RunAgain
  BY <1>2 DEF RunAgain, Returns
<1>3. CASE Flags
  BY <1>3 DEF Flags, NextThread, Goes
<1>4. CASE Spawn
  BY <1>4 DEF Spawn, Goes
<1>5. CASE CreateThread
  BY <1>5 DEF CreateThread, Goes
<1>6. CASE Spawned
  BY <1>6 DEF Spawned, SpawnReturns, NextThread, Goes
<1>7. CASE CreateThreadFails
  BY <1>7 DEF CreateThreadFails, Returns, Goes
<1>8. CASE FindFiber
  BY <1>8 DEF FindFiber, Goes, Returns
<1>9. CASE SpawnThread
  BY <1>9 DEF SpawnThread, Goes
<1>10. CASE Shutdown
  BY <1>10 DEF Shutdown, Goes
<1>11. CASE Join
  BY <1>11 DEF Join, Returns
<1>12. ASSUME NEW i \in Workers, WaitForReady(i) PROVE NoneLeftBehind'
  BY <1>12 DEF WaitForReady, WorkerGoes, runVars
<1>13. ASSUME NEW i \in Workers, ThreadCallback(i) PROVE NoneLeftBehind'
  BY <1>13 DEF ThreadCallback, WorkerGoes, runVars
<1>14. ASSUME NEW i \in Workers, Exit(i) PROVE NoneLeftBehind'
  BY <1>14 DEF Exit, WorkerGoes, runVars
<1>15. ASSUME NEW i \in Workers, SetupThread(i) PROVE NoneLeftBehind'
  BY <1>15 DEF SetupThread, runVars
<1>16. ASSUME NEW i \in Workers, SetupFiber(i) PROVE NoneLeftBehind'
  BY <1>16 DEF SetupFiber, WorkerGoes, runVars
<1>17. CASE UNCHANGED vars
  BY <1>17 DEF vars
<1>18. QED
  BY <1>1, <1>2, <1>3, <1>4, <1>5, <1>6, <1>7, <1>8, <1>9,
     <1>10, <1>11, <1>12, <1>13, <1>14, <1>15, <1>16, <1>17
     DEF Next, RunStep, WorkerStep

\* The induction: Inv holds in every state Run and the workers come to.
LEMMA InvHolds == Spec => []Inv
<1>1. Inv /\ [Next]_vars => Inv'
  BY NextType, NextOrder, NextStored, NextMarked, NextNoneLeft DEF Inv
<1>2. QED
  BY InitInv, <1>1, PTL DEF Spec

\* Types, and a return code from the moment Run has returned and no sooner.
THEOREM TypeCorrect == Spec => []TypeOK
<1>1. Inv => TypeOK
  BY DEF Inv
<1>2. QED
  BY InvHolds, <1>1, PTL

\* For any number of threads, whatever the options and whichever CreateThread
\* fails: a worker that runs has its own TLS,
THEOREM FindsItsTLS == Spec => []OwnTLS
<1>1. Inv => OwnTLS
  BY DEF Inv
<1>2. QED
  BY InvHolds, <1>1, PTL

\* it knows whether it does IO,
THEOREM KnowsItsKind == Spec => []FlagsFirst
<1>1. Inv => FlagsFirst
  BY DEF Inv, Marked, LoopedOver, FlagsFirst
<1>2. QED
  BY InvHolds, <1>1, PTL

\* and a Run that succeeded leaves nobody behind.
THEOREM JoinsAll == Spec => []NoneLeftBehind
<1>1. Inv => NoneLeftBehind
  BY DEF Inv
<1>2. QED
  BY InvHolds, <1>1, PTL
=============================================================================

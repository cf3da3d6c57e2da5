------------------------ MODULE SchedulerWaitProofs -------------------------
(***************************************************************************)
(* Waits.  When one code waits for each counter, a fiber is registered     *)
(* once, in a slot or in a ready list, and there is always a slot for it.  *)
(* When that code is also the only one to raise the counter, and no walk   *)
(* for 0 is overtaken, the jobs of the counter are done when its wait ends.*)
(* Where one code does all the waiting, no thread takes another's fiber.   *)
(***************************************************************************)
EXTENDS SchedulerSafetyProofs

----------------------------------------------------------------------------
(* What a step of a fiber is to the waits.                                 *)

\* Where a call is in CheckWaitingFibers; in AddWaitingFiber; where it is there
\* with the fiber registered nowhere.
CheckPC  == {"checkFree", "checkInUse", "checkTarget", "checkAcquire", "checkRelease"}
Absent   == {"addTake", "addStore", "addRelease", "added", "full"}
AddPC    == Absent \cup {"addLoad", "addInUse", "addTarget", "addAcquire", "pending"}

\* A step with nothing to do with a counter, and with no registration.
Aside(t, f) ==
  /\ UNCHANGED counterVars
  /\ \A u \in Threads : tls'[u].ready = tls[u].ready
  /\ \A g \in Fibers : stored[g] # "none" => stored'[g] # "none"
  /\ Alone(f)
  /\ fpc[f] # "adding" /\ fpc'[f] # "adding"
  /\ fpc[f] = "find" => frame'[f] = frame[f]
  /\ fpc[f] \in {"enqueue", "end"} => At(f, "idle") /\ UNCHANGED running

Resumes(t, f) == \E i \in DOMAIN tls[t].ready :
  /\ On(f, "ready")
  /\ stored[tls[t].ready[i]] = "yes"
  /\ ReadyTakes(t, f, i)
  /\ UNCHANGED <<counterVars, idle, running, home, tpc, probe, programVars>>

Counts(t, f) == \E c \in Counters :
  /\ Increment(f, c, 1) \/ Decrement(f, c, 1)
  /\ \/ ScheduleCount(t, f) /\ c = NextOp(f).ctr
     \/ Finish(t, f) /\ c = jobCounter[frame[f].job]
  /\ fpc[f] = "body" /\ \E pc \in {"enqueue", "end"} : fpc' = [fpc EXCEPT ![f] = pc]
  /\ Alone(f)
  /\ UNCHANGED <<stored, threadVars>>

\* A step is one of those of a wait, or it is not.
LEMMA StepKinds ==
  ASSUME TypeInv, NEW t \in Threads, NEW f \in Fibers, running[t] = f, FiberStep(t, f)
  PROVE  \/ InCounter(t, f) \/ Ready(t, f) \/ WaitForCounter(t, f) \/ WaitDone(t, f)
         \/ WaitThrows(t, f) \/ WaitLeaves(t, f) \/ Resumes(t, f) \/ Counts(t, f)
         \/ NewCounter(t, f) \/ Aside(t, f)
<1>0. /\ running \in [Threads -> Fibers \cup {NoFiber}] /\ fpc \in [Fibers -> FiberPC]
      /\ frame \in [Fibers -> Frame] /\ tls \in [Threads -> TLS]
      /\ stored \in [Fibers -> {"none", "no", "yes"}]
  BY DEF TypeInv, TypeOK
<1> USE DEF On, Jump, Starts
<1>1. CASE CleanupStore(t, f) \/ CleanupClear(t, f)
  <2>1. fpc[f] \in DOMAIN AfterCleanup /\ UNCHANGED counterVars
    BY <1>1 DEF CleanupStore, CleanupClear, AfterCleanup
  <2>2. Alone(f)
    BY <1>0, <1>1 DEF CleanupStore, CleanupClear, CleanupEnds, Alone
  <2>3. fpc'[f] # "adding"
    BY <1>0, <1>1 DEF CleanupStore, CleanupClear, CleanupEnds, AfterCleanup, Clearing
  <2>4. \A g \in Fibers : stored[g] # "none" => stored'[g] # "none"
    BY <1>0, <1>1 DEF CleanupStore, CleanupClear
  <2>5. \A u \in Threads : tls'[u].ready = tls[u].ready
    <3>1. CASE CleanupStore(t, f)
      BY <3>1 DEF CleanupStore
    <3>2. CASE CleanupClear(t, f)
      <4>1. PICK w : w = CleanupTLS(t, f)
        OBVIOUS
      <4>2. tls' = [tls EXCEPT ![w].prev = NoFiber, ![w].dest = "none"]
        BY <3>2, <4>1 DEF CleanupClear
      <4>3. QED
        BY <1>0, <4>2 DEF TLS
    <3>3. QED
      BY <1>1, <3>1, <3>2
  <2>6. QED
    BY <2>1, <2>2, <2>3, <2>4, <2>5 DEF Aside, AfterCleanup
<1>2. CASE Loop(t, f)
  <2>1. Alone(f) /\ fpc'[f] # "adding" /\ fpc[f] = "loop"
    BY <1>0, <1>2 DEF Loop, SwitchBack, NextTurn, Alone
  <2>2. QED
    BY <1>2, <2>1 DEF Loop, Aside
<1>3. CASE DequeueIO(t, f) \/ DequeueHigh(t, f) \/ DequeueNormal(t, f) \/ DequeueLow(t, f)
  <2>1. PICK p \in Prio, pc \in {"loop", "ready", "low"} : Dequeue(f, p, pc) /\ fpc[f] = p
    BY <1>3 DEF DequeueIO, DequeueHigh, DequeueNormal, DequeueLow, Prio
  <2>2. Alone(f) /\ fpc'[f] # "adding" /\ UNCHANGED <<counterVars, tls, stored>>
    BY <1>0, <2>1 DEF Dequeue, Alone, threadVars
  <2>3. QED
    BY <2>1, <2>2 DEF Aside, Prio
<1>4. CASE ScanReady(t, f)
  <2>1. PICK n : n = frame[f].scan + 1
    OBVIOUS
  <2>2. /\ fpc[f] = "ready" /\ UNCHANGED <<counterVars, idle, running, home, tpc, probe, programVars>>
        /\ \/ ReadyEnds(f) \/ ReadySkips(f)
           \/ n <= Len(tls[t].ready) /\ stored[tls[t].ready[n]] = "yes" /\ ReadyTakes(t, f, n)
    BY <1>4, <2>1 DEF ScanReady
  <2>3. CASE ReadyEnds(f) \/ ReadySkips(f)
    <3>1. Alone(f) /\ fpc'[f] # "adding" /\ UNCHANGED <<tls, stored>>
      BY <1>0, <2>2, <2>3 DEF ReadyEnds, ReadySkips, Alone
    <3>2. QED
      BY <2>2, <3>1 DEF Aside
  <2>4. CASE n <= Len(tls[t].ready) /\ stored[tls[t].ready[n]] = "yes" /\ ReadyTakes(t, f, n)
    <3>1. tls[t].ready \in Seq(Fibers) /\ frame[f].scan \in Nat
      BY <1>0 DEF TLS, Frame
    <3>2. n \in DOMAIN tls[t].ready
      <4>1. PICK s \in Seq(Fibers) : s = tls[t].ready
        BY <3>1
      <4>2. n \in 1 .. Len(s)
        BY <2>1, <2>4, <3>1, <4>1, LenProperties
      <4>3. QED
        BY <4>1, <4>2, LenProperties
    <3>3. QED
      BY <2>2, <2>4, <3>2 DEF Resumes
  <2>5. QED
    BY <2>2, <2>3, <2>4
<1>5. CASE SwitchToReady(t, f)
  <2>1. fpc'[f] # "adding"
    BY <1>0, <1>5 DEF SwitchToReady
  <2>2. QED
    BY <1>5, <2>1 DEF SwitchToReady, Aside, Alone
<1>6. CASE \/ ScheduleUncounted(t, f) \/ BlockingWaits(t, f) \/ WaitNot(t, f) \/ ChangeQueue(t, f)
           \/ QueueSteps(t, f) \/ Shutdown(t, f)
  <2>1. /\ fpc[f] = "body" /\ UNCHANGED <<counterVars, tls, stored>>
        /\ UNCHANGED fpc \/ \E pc \in {"enqueue", "lookAgain", "joining"} : fpc' = [fpc EXCEPT ![f] = pc]
    BY <1>6 DEF ScheduleUncounted, BlockingWaits, WaitNot, ChangeQueue, QueueSteps, Shutdown, threadVars
  <2>2. Alone(f)
    BY <1>0, <1>6 DEF ScheduleUncounted, BlockingWaits, WaitNot, ChangeQueue, QueueSteps, Shutdown, Begin,
       Skip, Alone
  <2>3. QED
    BY <1>0, <2>1, <2>2 DEF Aside
<1>7. CASE \/ ScheduleJob(t, f) \/ LookAgain(t, f) \/ CvWait(t, f) \/ CvReturns(t, f)
           \/ ShutdownJoins(t, f)
  <2>1. /\ fpc[f] \in {"enqueue", "lookAgain", "cvEnter", "cvWait", "cvWoken", "joining"}
        /\ UNCHANGED <<counterVars, tls, stored, running>>
        /\ UNCHANGED fpc \/ \E pc \in {"body", "cvEnter", "enqueue", "cvWait"} : fpc' = [fpc EXCEPT ![f] = pc]
        /\ UNCHANGED frame \/ End(f)
        /\ fpc[f] = "enqueue" => At(f, "idle")
    BY <1>7 DEF ScheduleJob, LookAgain, CvWait, CvReturns, ShutdownJoins, threadVars
  <2>2. Alone(f)
    BY <1>0, <2>1 DEF End, Alone
  <2>3. QED
    BY <1>0, <2>1, <2>2 DEF Aside
<1>8. CASE WaitSwitches(t, f) \/ MainLeaves(t, f)
  <2>1. /\ fpc[f] \in {"find", "findLast"} /\ UNCHANGED <<counterVars, stored, frame>>
        /\ \E pc \in {"find", "inWait", "findLast", "over"} : fpc' = [fpc EXCEPT ![f] = pc]
    BY <1>8 DEF WaitSwitches, MainLeaves
  <2>2. \A u \in Threads : tls'[u].ready = tls[u].ready
    <3>1. tls' = tls \/ \E h : tls' = [tls EXCEPT ![t].cur = h]
      BY <1>8 DEF WaitSwitches, MainLeaves, FindFreeFiber, NextProbe
    <3>2. ASSUME NEW h, tls' = [tls EXCEPT ![t].cur = h]
          PROVE  \A u \in Threads : tls'[u].ready = tls[u].ready
      BY <1>0, <3>2 DEF TLS
    <3>3. QED
      BY <3>1, <3>2
  <2>3. QED
    BY <1>0, <2>1, <2>2 DEF Aside, Alone
<1>9. CASE Notify(t, f)
  <2>1. fpc[f] = "body" /\ fpc'[f] # "adding" /\ UNCHANGED <<counterVars, tls, stored>>
    BY <1>0, <1>9 DEF Notify, threadVars
  <2>2. Alone(f)
    BY <1>0, <1>9 DEF Notify, Skip, Alone
  <2>3. QED
    BY <2>1, <2>2 DEF Aside
<1>10. CASE Executed(t, f)
  <2>1. Alone(f) /\ fpc'[f] # "adding" /\ fpc[f] = "end"
    BY <1>0, <1>10 DEF Executed, Alone
  <2>2. QED
    BY <1>10, <2>1 DEF Executed, Aside, threadVars
<1>11. CASE MainEnds(t, f)
  <2>1. fpc'[f] # "adding" /\ fpc[f] = "body"
    BY <1>0, <1>11 DEF MainEnds, AtEnd, SwitchBack
  <2>2. QED
    BY <1>11, <2>1 DEF MainEnds, Aside, Alone
<1>12. CASE ScheduleCount(t, f)
  <2>1. NextOp(f).ctr \in Counters
    <3>1. NextOp(f) \in Op /\ NextOp(f).op = "schedule"
      BY <1>12, NextOpTypes DEF ScheduleCount, TypeInv
    <3>2. QED
      BY <1>12, <3>1, OpTypes DEF ScheduleCount
  <2>2. Alone(f)
    BY <1>0, <1>12 DEF ScheduleCount, Begin, Alone
  <2>3. QED
    BY <1>12, <2>1, <2>2 DEF ScheduleCount, Counts
<1>13. CASE Finish(t, f)
  <2>1. frame[f].job \in Jobs
    BY <1>13 DEF Finish, AtEnd, InJob, JobAt, Executing, Code, TypeInv
  <2>2. jobCounter[frame[f].job] \in Counters \cup {NoCounter}
    BY <2>1 DEF TypeOK, TypeInv
  <2>3. fpc[f] = "body" /\ fpc' = [fpc EXCEPT ![f] = "end"] /\ UNCHANGED <<stored, frame, threadVars>>
    BY <1>13 DEF Finish, AtEnd
  <2>4. CASE jobCounter[frame[f].job] = NoCounter
    <3>1. UNCHANGED counterVars
      BY <1>13, <2>4 DEF Finish
    <3>2. QED
      BY <1>0, <2>3, <3>1 DEF Aside, Alone, threadVars
  <2>5. CASE jobCounter[frame[f].job] # NoCounter
    <3>1. Decrement(f, jobCounter[frame[f].job], 1)
      BY <1>13, <2>5 DEF Finish
    <3>2. QED
      BY <1>13, <2>2, <2>3, <2>5, <3>1 DEF Counts, Alone
  <2>6. QED
    BY <2>4, <2>5
<1>14. QED
  BY <1>1, <1>2, <1>3, <1>4, <1>5, <1>6, <1>7, <1>8, <1>9, <1>10, <1>11, <1>12, <1>13 DEF FiberStep
----------------------------------------------------------------------------
(* Where a fiber that waits is registered.                                 *)

Published(s, g) == ~inUse[s] /\ fiberIndex[s] = g
Listed(u, i, g) == i \in DOMAIN tls[u].ready /\ tls[u].ready[i] = g
Registered(g) == \/ \E s \in Slots : Published(s, g)
                 \/ \E u \in Threads : \E i : Listed(u, i, g)

WaitsFor(g, c) == frame[g].op.op = "wait" /\ frame[g].op.ctr = c
OneWaits == \A g, h \in Fibers, c \in Counters : WaitsFor(g, c) /\ WaitsFor(h, c) => g = h

\* A fiber may be named where its flag is allocated and its AddWaitingFiber has
\* published it and not taken it back.
Nameable(g) == g \in Fibers /\ stored[g] # "none" /\ call[g].pc \notin Absent

CallFits(g) ==
  /\ call[g].pc \in CheckPC => fpc[g] \in {"enqueue", "end"}
  /\ call[g].pc \in AddPC => fpc[g] = "adding" /\ WaitsFor(g, call[g].ctr)
  /\ call[g].pc \in {"addTake", "addStore"} => call[g].fiber = g
  /\ call[g].pc # "full"
InCall == \A g \in Fibers : CallFits(g)

PublishedFits == \A s \in Slots : \A g : Published(s, g) => Nameable(g) /\ WaitsFor(g, s[1])
ListedFits == \A u \in Threads : \A i, g : Listed(u, i, g) => Nameable(g)
OneName ==
  /\ \A r, s \in Slots : \A g : Published(r, g) /\ Published(s, g) => r = s
  /\ \A u, v \in Threads : \A i, k, g : Listed(u, i, g) /\ Listed(v, k, g) => u = v /\ i = k
  /\ \A s \in Slots : \A u \in Threads : \A i, g : ~(Published(s, g) /\ Listed(u, i, g))

\* A slot that is not free is published, or in the hands of the call that will
\* publish or free it, or of the one that has just taken the fiber out of it.
Holding(g, s) == call[g].pc \in {"addStore", "addRelease"} /\ Slot(g) = s
Waking(u, s) ==
  /\ running[u] \in Fibers /\ call[running[u]].pc = "checkRelease" /\ Slot(running[u]) = s
  /\ \E i, g : Listed(u, i, g) /\ WaitsFor(g, s[1])
Claimed ==
  \A s \in Slots : ~freeSlot[s] =>
    ~inUse[s] \/ (\E g \in Fibers : Holding(g, s)) \/ (\E u \in Threads : Waking(u, s))

WaitInv == InCall /\ PublishedFits /\ ListedFits /\ OneName /\ Claimed

\* Where a fiber that is on a thread can be registered.
LEMMA RegisteredAt ==
  ASSUME TypeOK, LeftInv, WaitInv, NEW t \in Threads, NEW f \in Fibers, running[t] = f, Registered(f)
  PROVE  fpc[f] \in {"adding", "find"} /\ call[f].pc \notin Absent
<1>1. OnThread(t, f)
  BY OnOne
<1>2. Nameable(f)
  BY DEF Registered, WaitInv, PublishedFits, ListedFits
<1>3. QED
  BY <1>1, <1>2 DEF OnThread, Nameable

\* A step leaves the operations of the registered fibers alone.
LEMMA OpsKept ==
  ASSUME TypeInv, LeftInv, WaitInv, NEW t \in Threads, NEW f \in Fibers, running[t] = f, FiberStep(t, f)
  PROVE  /\ \A g \in Fibers : Registered(g) => frame'[g].op = frame[g].op
         /\ Alone(f)
<1>0. frame \in [Fibers -> Frame] /\ TypeOK
  BY DEF TypeInv, TypeOK
<1>1. CASE \/ InCounter(t, f) \/ Ready(t, f) \/ WaitThrows(t, f) \/ WaitLeaves(t, f)
  BY <1>1 DEF InCounter, Ready, WaitThrows, WaitLeaves, schedVars, fiberVars, Alone
<1>2. CASE WaitForCounter(t, f) \/ NewCounter(t, f)
  <2>1. fpc[f] = "body"
    BY <1>2 DEF WaitForCounter, NewCounter, Starts, On
  <2>2. Alone(f)
    BY <1>0, <1>2 DEF WaitForCounter, NewCounter, Begin, Skip, Alone
  <2>3. QED
    BY <1>0, <2>1, <2>2, RegisteredAt DEF Alone
<1>3. CASE WaitDone(t, f)
  <2>1. call[f].pc = "added" /\ Alone(f)
    BY <1>0, <1>3 DEF WaitDone, At, End, Alone
  <2>2. QED
    BY <1>0, <2>1, RegisteredAt DEF Alone, Absent
<1>4. CASE Resumes(t, f)
  <2>1. frame' = [frame EXCEPT ![f].scan = 0]
    BY <1>4 DEF Resumes, ReadyTakes
  <2>2. QED
    BY <1>0, <2>1 DEF Frame, Alone
<1>5. CASE Counts(t, f)
  <2>1. fpc[f] = "body" /\ Alone(f)
    BY <1>5 DEF Counts
  <2>2. QED
    BY <1>0, <2>1, RegisteredAt DEF Alone
<1>6. CASE Aside(t, f)
  <2>1. Alone(f) /\ fpc[f] # "adding" /\ (fpc[f] = "find" => frame'[f] = frame[f])
    BY <1>6 DEF Aside
  <2>2. QED
    BY <1>0, <2>1, RegisteredAt DEF Alone
<1>7. QED
  BY <1>1, <1>2, <1>3, <1>4, <1>5, <1>6, StepKinds

\* A step that registers nobody anew.
LEMMA NamesKept ==
  ASSUME PublishedFits, ListedFits, OneName,
         \A s \in Slots : \A g : Published(s, g)' => Published(s, g),
         \A u \in Threads : tls'[u].ready = tls[u].ready,
         \A g \in Fibers : Registered(g) => frame'[g].op = frame[g].op,
         \A g \in Fibers : Registered(g) /\ Registered(g)' => stored'[g] # "none" /\ call'[g].pc \notin Absent
  PROVE  PublishedFits' /\ ListedFits' /\ OneName'
<1>1. \A u \in Threads : \A i, g : Listed(u, i, g)' <=> Listed(u, i, g)
  BY DEF Listed
<1>2. PublishedFits'
  <2>1. SUFFICES ASSUME NEW s \in Slots, NEW g, Published(s, g)'
                 PROVE  Nameable(g)' /\ WaitsFor(g, s[1])'
    BY DEF PublishedFits
  <2>2. Published(s, g) /\ Nameable(g) /\ WaitsFor(g, s[1])
    BY <2>1 DEF PublishedFits
  <2>3. g \in Fibers /\ Registered(g) /\ Registered(g)'
    BY <2>1, <2>2 DEF Registered, Nameable
  <2>4. QED
    BY <2>2, <2>3 DEF Nameable, WaitsFor
<1>3. ListedFits'
  <2>1. SUFFICES ASSUME NEW u \in Threads, NEW i, NEW g, Listed(u, i, g)'
                 PROVE  Nameable(g)'
    BY DEF ListedFits
  <2>2. Listed(u, i, g) /\ Nameable(g)
    BY <1>1, <2>1 DEF ListedFits
  <2>3. g \in Fibers /\ Registered(g) /\ Registered(g)'
    BY <2>1, <2>2 DEF Registered, Nameable
  <2>4. QED
    BY <2>3 DEF Nameable
<1>4. OneName'
  BY <1>1 DEF OneName
<1>5. QED
  BY <1>2, <1>3, <1>4

\* A step and the calls of the other fibers.
LEMMA CallsKept ==
  ASSUME InCall, NEW f \in Fibers, Alone(f),
         \A g \in Fibers \ {f} : call'[g] = call[g] /\ (fpc'[g] = fpc[g] \/ Woken(g)),
         CallFits(f)'
  PROVE  InCall'
<1>1. ASSUME NEW g \in Fibers, g # f
      PROVE  CallFits(g)'
  <2>1. call'[g] = call[g] /\ frame'[g] = frame[g] /\ (fpc'[g] = fpc[g] \/ Woken(g)) /\ CallFits(g)
    BY <1>1 DEF Alone, InCall
  <2>2. QED
    BY <2>1 DEF CallFits, Woken, WaitsFor
<1>2. QED
  BY <1>1 DEF InCall

\* A step and the fibers the other threads have woken,
LEMMA WakingKept ==
  ASSUME TypeOK, LeftInv, NEW t \in Threads, NEW f \in Fibers, running[t] = f, Elsewhere(t, f),
         \A g \in Fibers : Registered(g) => frame'[g].op = frame[g].op, ListedFits,
         \A g \in Fibers \ {f} : call'[g] = call[g],
         NEW u \in Threads \ {t}, tls'[u].ready = tls[u].ready, NEW s, Waking(u, s)
  PROVE  Waking(u, s)'
<1>1. running'[u] = running[u] /\ running[u] # f
  <2>1. running[u] # f
    <3>1. SUFFICES ASSUME running[u] = f PROVE FALSE
      OBVIOUS
    <3>2. Has(t, f) /\ Has(u, f)
      BY <3>1 DEF Has
    <3>3. QED
      BY <3>2 DEF LeftInv, OneHas
  <2>2. QED
    BY <2>1 DEF Elsewhere
<1>2. PICK i, g : Listed(u, i, g) /\ WaitsFor(g, s[1])
  BY DEF Waking
<1>3. g \in Fibers /\ Registered(g)
  BY <1>2 DEF ListedFits, Nameable, Registered
<1>4. Listed(u, i, g)' /\ WaitsFor(g, s[1])'
  BY <1>2, <1>3 DEF Listed, WaitsFor
<1>5. call'[running[u]] = call[running[u]]
  BY <1>1 DEF Waking
<1>6. QED
  BY <1>1, <1>4, <1>5 DEF Waking, Slot

\* and the slots.
LEMMA ClaimsKept ==
  ASSUME Claimed, NEW t \in Threads, NEW f \in Fibers,
         \A u \in Threads \ {t} : \A s \in Slots : Waking(u, s) => Waking(u, s)',
         \A g \in Fibers \ {f} : call'[g] = call[g],
         \A s \in Slots : ~freeSlot'[s] /\ (freeSlot[s] \/ ~inUse[s] \/ Holding(f, s) \/ Waking(t, s)) =>
           ~inUse'[s] \/ Holding(f, s)' \/ Waking(t, s)'
  PROVE  Claimed'
<1>1. SUFFICES ASSUME NEW s \in Slots, ~freeSlot'[s]
               PROVE  ~inUse'[s] \/ (\E g \in Fibers : Holding(g, s)') \/ (\E u \in Threads : Waking(u, s)')
  BY DEF Claimed
<1>2. CASE freeSlot[s] \/ ~inUse[s] \/ Holding(f, s) \/ Waking(t, s)
  BY <1>1, <1>2
<1>3. CASE ~(freeSlot[s] \/ ~inUse[s] \/ Holding(f, s) \/ Waking(t, s))
  <2>1. CASE \E g \in Fibers \ {f} : Holding(g, s)
    <3>1. PICK g \in Fibers \ {f} : Holding(g, s)
      BY <2>1
    <3>2. Holding(g, s)'
      BY <3>1 DEF Holding, Slot
    <3>3. QED
      BY <3>2
  <2>2. CASE \E u \in Threads \ {t} : Waking(u, s)
    BY <2>2
  <2>3. QED
    BY <1>3, <2>1, <2>2 DEF Claimed
<1>4. QED
  BY <1>2, <1>3

\* A step that lists nobody and publishes nobody.
LEMMA NothingNew ==
  ASSUME TypeInv, LeftInv, WaitInv, NEW t \in Threads, NEW f \in Fibers, running[t] = f, FiberStep(t, f),
         \A g \in Fibers \ {f} : call'[g] = call[g] /\ (stored[g] # "none" => stored'[g] # "none"),
         \A u \in Threads : tls'[u].ready = tls[u].ready,
         \A s \in Slots : \A g : Published(s, g)' => Published(s, g),
         CallFits(f)',
         Registered(f) /\ Registered(f)' => stored'[f] # "none" /\ call'[f].pc \notin Absent,
         \A s \in Slots : ~freeSlot'[s] /\ (freeSlot[s] \/ ~inUse[s] \/ Holding(f, s) \/ Waking(t, s)) =>
           ~inUse'[s] \/ Holding(f, s)' \/ Waking(t, s)'
  PROVE  WaitInv'
<1>0. TypeOK /\ InCall /\ PublishedFits /\ ListedFits /\ OneName /\ Claimed
  BY DEF TypeInv, WaitInv
<1>1. Alone(f) /\ \A g \in Fibers : Registered(g) => frame'[g].op = frame[g].op
  BY OpsKept
<1>2. Elsewhere(t, f)
  BY <1>0, StepPlaces
<1>3. InCall'
  BY <1>0, <1>1, <1>2, CallsKept DEF Elsewhere
<1>4. PublishedFits' /\ ListedFits' /\ OneName'
  <2>1. \A g \in Fibers : Registered(g) /\ Registered(g)' => stored'[g] # "none" /\ call'[g].pc \notin Absent
    <3>1. SUFFICES ASSUME NEW g \in Fibers, Registered(g), g # f
                   PROVE  stored'[g] # "none" /\ call'[g].pc \notin Absent
      OBVIOUS
    <3>2. Nameable(g)
      BY <1>0, <3>1 DEF Registered, PublishedFits, ListedFits
    <3>3. QED
      BY <3>1, <3>2 DEF Nameable
  <2>2. QED
    BY <1>0, <1>1, <2>1, NamesKept
<1>5. Claimed'
  <2>1. \A u \in Threads \ {t} : \A s \in Slots : Waking(u, s) => Waking(u, s)'
    BY <1>0, <1>1, <1>2, WakingKept
  <2>2. QED
    BY <1>0, <2>1, ClaimsKept
<1>6. QED
  BY <1>3, <1>4, <1>5 DEF WaitInv

\* The steps of a call that only move it.
Quiet(f) ==
  /\ UNCHANGED slotVars
  /\ \A g \in Fibers \ {f} : call'[g] = call[g]
  /\ \/ /\ call[f].pc \in CheckPC \ {"checkRelease"}
        /\ call'[f].pc \in {"idle"} \cup (CheckPC \ {"checkRelease"})
     \/ /\ call[f].pc \in AddPC \ Absent
        /\ call'[f].pc \in AddPC \ {"addTake", "addStore", "addRelease", "added", "full"}
        /\ call'[f].ctr = call[f].ctr

\* What a step of a call is to the slots.
LEMMA CallKinds ==
  ASSUME TypeOK, NEW f \in Fibers, CounterStep(f)
  PROVE  Quiet(f) \/ CheckRelease(f) \/ AddTake(f) \/ AddStore(f) \/ AddAcquire(f) \/ AddRelease(f)
<1>0. /\ call \in [Fibers -> Call] /\ NoCall.pc = "idle"
      /\ \A r \in Call : r = [pc |-> r.pc, ctr |-> r.ctr, i |-> r.i, value |-> r.value,
                              fiber |-> r.fiber, target |-> r.target]
  BY DEF TypeOK, CounterTypeOK, NoCall, Call
<1>1. CASE CheckFree(f) \/ CheckInUse(f) \/ CheckTarget(f) \/ CheckAcquireFails(f)
  <2>1. /\ UNCHANGED slotVars
        /\ call[f].pc \in {"checkFree", "checkInUse", "checkTarget", "checkAcquire"}
        /\ SkipSlot(f) \/ \E pc \in {"checkInUse", "checkTarget", "checkAcquire"} : Goto(f, pc)
    BY <1>1 DEF CheckFree, CheckInUse, CheckTarget, CheckAcquireFails, At, slotVars
  <2>2. CASE SkipSlot(f)
    <3>1. \/ call' = [call EXCEPT ![f].i = @ + 1, ![f].pc = "checkFree"]
          \/ call' = [call EXCEPT ![f] = NoCall]
      BY <2>2 DEF SkipSlot, NextSlot, Return
    <3>2. /\ \A g \in Fibers \ {f} : call'[g] = call[g]
          /\ call'[f].pc \in {"idle", "checkFree"}
      BY <1>0, <3>1 DEF Call
    <3>3. QED
      BY <2>1, <3>2 DEF Quiet, CheckPC
  <2>3. CASE \E pc \in {"checkInUse", "checkTarget", "checkAcquire"} : Goto(f, pc)
    <3>1. PICK pc \in {"checkInUse", "checkTarget", "checkAcquire"} : call' = [call EXCEPT ![f].pc = pc]
      BY <2>3 DEF Goto
    <3>2. /\ \A g \in Fibers \ {f} : call'[g] = call[g]
          /\ call'[f].pc = pc
      BY <1>0, <3>1 DEF Call
    <3>3. QED
      BY <2>1, <3>1, <3>2 DEF Quiet, CheckPC
  <2>4. QED
    BY <2>1, <2>2, <2>3
<1>2. CASE AddLoad(f) \/ AddInUse(f) \/ AddTarget(f)
  <2>1. /\ UNCHANGED slotVars
        /\ call[f].pc \in {"addLoad", "addInUse", "addTarget"}
        /\ \/ \E v : call' = [call EXCEPT ![f].pc = "addInUse", ![f].value = v]
           \/ \E pc \in {"pending", "addTarget", "addAcquire"} : call' = [call EXCEPT ![f].pc = pc]
    BY <1>2 DEF AddLoad, AddInUse, AddTarget, At, Goto, slotVars
  <2>2. ASSUME NEW v, call' = [call EXCEPT ![f].pc = "addInUse", ![f].value = v]
        PROVE  /\ \A g \in Fibers \ {f} : call'[g] = call[g]
               /\ call'[f].pc = "addInUse" /\ call'[f].ctr = call[f].ctr
    BY <1>0, <2>2 DEF Call
  <2>3. ASSUME NEW pc \in {"pending", "addTarget", "addAcquire"}, call' = [call EXCEPT ![f].pc = pc]
        PROVE  /\ \A g \in Fibers \ {f} : call'[g] = call[g]
               /\ call'[f].pc = pc /\ call'[f].ctr = call[f].ctr
    BY <1>0, <2>3 DEF Call
  <2>4. /\ \A g \in Fibers \ {f} : call'[g] = call[g]
        /\ call'[f].pc \in {"addInUse", "pending", "addTarget", "addAcquire"} /\ call'[f].ctr = call[f].ctr
    BY <2>1, <2>2, <2>3
  <2>5. QED
    BY <2>1, <2>4 DEF Quiet, AddPC, Absent
<1>3. QED
  BY <1>1, <1>2 DEF CounterStep

\* The steps that stay in the counter, but for a publication,
LEMMA WaitInCounter ==
  ASSUME TypeInv, LeftInv, WaitInv, OneWaits, NEW t \in Threads, NEW f \in Fibers, running[t] = f,
         FiberStep(t, f), InCounter(t, f), ~AddStore(f)
  PROVE  WaitInv'
<1>0. /\ TypeOK /\ CallFits(f) /\ call \in [Fibers -> Call] /\ CounterTypeOK
      /\ freeSlot \in [Slots -> BOOLEAN] /\ inUse \in [Slots -> BOOLEAN]
      /\ UNCHANGED schedVars /\ CounterStep(f)
      /\ PublishedFits /\ ListedFits /\ OneName /\ Claimed
  BY DEF TypeInv, TypeOK, CounterTypeOK, WaitInv, InCall, InCounter
<1>1. /\ \A u \in Threads : tls'[u].ready = tls[u].ready
      /\ \A g \in Fibers : stored'[g] = stored[g] /\ frame'[g] = frame[g] /\ fpc'[g] = fpc[g]
      /\ running' = running
  BY <1>0 DEF schedVars, threadVars, fiberVars
<1>2. CASE Quiet(f)
  <2>1. CallFits(f)'
    BY <1>0, <1>1, <1>2 DEF Quiet, CallFits, WaitsFor, CheckPC, AddPC, Absent
  <2>2. \A s \in Slots : \A g : Published(s, g)' => Published(s, g)
    BY <1>2 DEF Quiet, slotVars, Published
  <2>3. Registered(f) => stored'[f] # "none" /\ call'[f].pc \notin Absent
    <3>1. Registered(f) => Nameable(f)
      BY <1>0 DEF Registered, PublishedFits, ListedFits
    <3>2. QED
      BY <1>1, <1>2, <3>1 DEF Quiet, Nameable, CheckPC, AddPC, Absent
  <2>4. \A s \in Slots : ~Holding(f, s) /\ ~Waking(t, s)
    BY <1>2 DEF Quiet, Holding, Waking, CheckPC, AddPC, Absent
  <2>5. \A s \in Slots : ~freeSlot'[s] /\ (freeSlot[s] \/ ~inUse[s] \/ Holding(f, s) \/ Waking(t, s)) =>
          ~inUse'[s] \/ Holding(f, s)' \/ Waking(t, s)'
    BY <1>2, <2>4 DEF Quiet, slotVars
  <2>6. QED
    BY <1>1, <1>2, <2>1, <2>2, <2>3, <2>5, NothingNew DEF Quiet
<1>3. CASE ~Quiet(f)
  <2>0. PICK s : s = Slot(f)
    OBVIOUS
  <2>1. call[f].pc # "idle" /\ s \in Slots /\ s[1] = call[f].ctr /\ call[f].ctr \in Counters
    <3>1. call[f].pc # "idle"
      BY <1>0, <1>3, CallKinds DEF CheckRelease, AddTake, AddAcquire, AddRelease, At
    <3>2. QED
      BY <1>0, <2>0, <3>1, CallTypes DEF Slot, CounterTypeOK
  <2>2. \A g \in Fibers : WaitsFor(g, s[1]) /\ call[f].pc \in AddPC => g = f
    BY <1>0, <2>1 DEF CallFits, OneWaits
  <2>3. call[f].pc \in Absent => ~Registered(f)
    BY <1>0, RegisteredAt
  <2>4. CASE CheckRelease(f)
    <3>1. /\ freeSlot' = [freeSlot EXCEPT ![s] = TRUE] /\ UNCHANGED <<inUse, fiberIndex>>
          /\ call[f].pc = "checkRelease"
      BY <2>0, <2>4 DEF CheckRelease, At
    <3>2. /\ \A g \in Fibers \ {f} : call'[g] = call[g]
          /\ call'[f].pc \in {"idle", "checkFree"}
      <4>1. \/ call' = [call EXCEPT ![f].i = @ + 1, ![f].pc = "checkFree"]
            \/ call' = [call EXCEPT ![f] = NoCall]
        BY <2>4 DEF CheckRelease, SkipSlot, NextSlot, Return
      <4>2. QED
        BY <1>0, <4>1 DEF Call, NoCall
    <3>3. CallFits(f)'
      BY <1>0, <1>1, <3>1, <3>2 DEF CallFits, CheckPC, AddPC, Absent
    <3>4. \A r \in Slots : \A g : Published(r, g)' => Published(r, g)
      BY <3>1 DEF Published
    <3>5. ~Registered(f)
      BY <1>0, <3>1, RegisteredAt DEF CallFits, CheckPC
    <3>6. \A r \in Slots : ~freeSlot'[r] /\ (freeSlot[r] \/ ~inUse[r] \/ Holding(f, r) \/ Waking(t, r)) =>
            ~inUse'[r] \/ Holding(f, r)' \/ Waking(t, r)'
      BY <1>0, <2>0, <2>1, <3>1 DEF Holding, Waking
    <3>7. QED
      BY <1>1, <3>2, <3>3, <3>4, <3>5, <3>6, NothingNew
  <2>5. CASE AddRelease(f)
    <3>1. /\ freeSlot' = [freeSlot EXCEPT ![s] = TRUE] /\ UNCHANGED <<inUse, fiberIndex>>
          /\ call[f].pc = "addRelease" /\ call' = [call EXCEPT ![f].pc = "added"]
      BY <2>0, <2>5 DEF AddRelease, At, Goto
    <3>2. /\ \A g \in Fibers \ {f} : call'[g] = call[g]
          /\ call'[f].pc = "added" /\ call'[f].ctr = call[f].ctr
      BY <1>0, <3>1 DEF Call
    <3>3. CallFits(f)'
      BY <1>0, <1>1, <3>1, <3>2 DEF CallFits, WaitsFor, CheckPC, AddPC, Absent
    <3>4. \A r \in Slots : \A g : Published(r, g)' => Published(r, g)
      BY <3>1 DEF Published
    <3>5. \A r \in Slots : ~freeSlot'[r] /\ (freeSlot[r] \/ ~inUse[r] \/ Holding(f, r) \/ Waking(t, r)) =>
            ~inUse'[r] \/ Holding(f, r)' \/ Waking(t, r)'
      BY <1>0, <2>0, <2>1, <3>1 DEF Holding, Waking
    <3>6. QED
      BY <1>1, <2>3, <3>1, <3>2, <3>3, <3>4, <3>5, NothingNew DEF Absent
  <2>6. CASE AddTake(f)
    <3>1. freeSlot[s]
      <4>1. SUFFICES ASSUME ~freeSlot[s] PROVE FALSE
        OBVIOUS
      <4>2. call[f].pc = "addTake"
        BY <2>6 DEF AddTake, At
      <4>3. ~Registered(f)
        BY <2>3, <4>2 DEF Absent
      <4>4. CASE ~inUse[s]
        <5>1. Published(s, fiberIndex[s])
          BY <4>4 DEF Published
        <5>2. fiberIndex[s] = f
          BY <1>0, <2>1, <2>2, <4>2, <5>1 DEF PublishedFits, Nameable, AddPC, Absent
        <5>3. QED
          BY <2>1, <4>3, <5>1, <5>2 DEF Registered
      <4>5. CASE \E g \in Fibers : Holding(g, s)
        <5>1. PICK g \in Fibers : Holding(g, s)
          BY <4>5
        <5>2. call[g].ctr = s[1] /\ CallFits(g)
          BY <5>1 DEF Holding, Slot, WaitInv, InCall
        <5>3. g = f
          BY <2>2, <4>2, <5>1, <5>2 DEF Holding, CallFits, AddPC, Absent
        <5>4. QED
          BY <4>2, <5>1, <5>3 DEF Holding
      <4>6. CASE \E u \in Threads : Waking(u, s)
        <5>1. PICK u \in Threads : \E i, g : Listed(u, i, g) /\ WaitsFor(g, s[1])
          BY <4>6 DEF Waking
        <5>2. PICK i, g : Listed(u, i, g) /\ WaitsFor(g, s[1])
          BY <5>1
        <5>3. g \in Fibers
          BY <1>0, <5>1, <5>2 DEF ListedFits, Nameable
        <5>4. g = f
          BY <2>2, <4>2, <5>2, <5>3 DEF AddPC, Absent
        <5>5. QED
          BY <4>3, <5>1, <5>2, <5>4 DEF Registered
      <4>7. QED
        BY <1>0, <2>1, <4>1, <4>4, <4>5, <4>6 DEF Claimed
    <3>2. /\ freeSlot' = [freeSlot EXCEPT ![s] = FALSE] /\ UNCHANGED <<inUse, fiberIndex>>
          /\ call[f].pc = "addTake" /\ call' = [call EXCEPT ![f].pc = "addStore"]
      BY <2>0, <2>6, <3>1 DEF AddTake, At, Goto
    <3>3. /\ \A g \in Fibers \ {f} : call'[g] = call[g]
          /\ call'[f].pc = "addStore" /\ call'[f].ctr = call[f].ctr /\ call'[f].fiber = call[f].fiber
          /\ call'[f].i = call[f].i
      BY <1>0, <3>2 DEF Call
    <3>4. CallFits(f)'
      BY <1>0, <1>1, <3>2, <3>3 DEF CallFits, WaitsFor, CheckPC, AddPC, Absent
    <3>5. \A r \in Slots : \A g : Published(r, g)' => Published(r, g)
      BY <3>2 DEF Published
    <3>6. Holding(f, s)'
      BY <2>0, <3>3 DEF Holding, Slot
    <3>7. \A r \in Slots : ~Holding(f, r) /\ ~Waking(t, r)
      BY <3>2 DEF Holding, Waking
    <3>8. \A r \in Slots : ~freeSlot'[r] /\ (freeSlot[r] \/ ~inUse[r] \/ Holding(f, r) \/ Waking(t, r)) =>
            ~inUse'[r] \/ Holding(f, r)' \/ Waking(t, r)'
      BY <1>0, <2>1, <3>2, <3>6, <3>7
    <3>9. QED
      BY <1>1, <2>3, <3>2, <3>3, <3>4, <3>5, <3>8, NothingNew DEF Absent
  <2>7. CASE AddAcquire(f)
    <3>1. /\ inUse' = [inUse EXCEPT ![s] = TRUE] /\ UNCHANGED <<freeSlot, fiberIndex>>
          /\ call[f].pc = "addAcquire"
          /\ call' = [call EXCEPT ![f].pc = IF inUse[s] THEN "pending" ELSE "addRelease"]
      BY <2>0, <2>7 DEF AddAcquire, At, Goto
    <3>2. /\ \A g \in Fibers \ {f} : call'[g] = call[g]
          /\ call'[f].pc = (IF inUse[s] THEN "pending" ELSE "addRelease") /\ call'[f].ctr = call[f].ctr
          /\ call'[f].i = call[f].i
      BY <1>0, <3>1 DEF Call
    <3>3. CallFits(f)'
      BY <1>0, <1>1, <3>1, <3>2 DEF CallFits, WaitsFor, CheckPC, AddPC, Absent
    <3>4. \A r \in Slots : \A g : Published(r, g)' => Published(r, g) /\ (r = s => FALSE)
      BY <1>0, <2>1, <3>1 DEF Published
    <3>5. ~inUse[s] => ~Registered(f)'
      <4>1. SUFFICES ASSUME ~inUse[s] PROVE ~Registered(f)'
        OBVIOUS
      <4>2. Published(s, fiberIndex[s])
        BY <4>1 DEF Published
      <4>3. Published(s, f)
        BY <1>0, <2>1, <2>2, <3>1, <4>2 DEF PublishedFits, Nameable, AddPC
      <4>4. \A u \in Threads : \A i : ~Listed(u, i, f)
        BY <1>0, <2>1, <4>3 DEF OneName
      <4>5. \A r \in Slots : Published(r, f) => r = s
        BY <1>0, <2>1, <4>3 DEF OneName
      <4>6. \A u \in Threads : \A i : ~Listed(u, i, f)'
        BY <1>1, <4>4 DEF Listed
      <4>7. \A r \in Slots : ~Published(r, f)'
        BY <3>4, <4>5
      <4>8. QED
        BY <4>6, <4>7 DEF Registered
    <3>6. Registered(f) /\ Registered(f)' => stored'[f] # "none" /\ call'[f].pc \notin Absent
      <4>1. Registered(f) => Nameable(f)
        BY <1>0 DEF Registered, PublishedFits, ListedFits
      <4>2. QED
        BY <1>1, <3>2, <3>5, <4>1 DEF Nameable, Absent
    <3>7. \A r \in Slots : ~Holding(f, r) /\ ~Waking(t, r)
      BY <3>1 DEF Holding, Waking
    <3>8. ~inUse[s] => Holding(f, s)'
      BY <2>0, <3>2 DEF Holding, Slot
    <3>9. \A r \in Slots : ~freeSlot'[r] /\ (freeSlot[r] \/ ~inUse[r] \/ Holding(f, r) \/ Waking(t, r)) =>
            ~inUse'[r] \/ Holding(f, r)' \/ Waking(t, r)'
      BY <1>0, <2>1, <3>1, <3>7, <3>8
    <3>10. QED
      BY <1>1, <3>2, <3>3, <3>4, <3>6, <3>9, NothingNew
  <2>8. QED
    BY <1>0, <1>3, <2>4, <2>5, <2>6, <2>7, CallKinds
<1>4. QED
  BY <1>2, <1>3

\* the publication,
LEMMA WaitStores ==
  ASSUME TypeInv, LeftInv, WaitInv, OneWaits, NEW t \in Threads, NEW f \in Fibers, running[t] = f,
         FiberStep(t, f), InCounter(t, f), AddStore(f)
  PROVE  WaitInv'
<1>0. /\ TypeOK /\ CallFits(f) /\ call \in [Fibers -> Call] /\ CounterTypeOK
      /\ inUse \in [Slots -> BOOLEAN] /\ fiberIndex \in [Slots -> Fibers \cup {NoFiber}]
      /\ UNCHANGED schedVars /\ InCall /\ PublishedFits /\ ListedFits /\ OneName /\ Claimed
  BY DEF TypeInv, TypeOK, CounterTypeOK, WaitInv, InCall, InCounter
<1>1. /\ \A u \in Threads : tls'[u].ready = tls[u].ready
      /\ \A g \in Fibers : stored'[g] = stored[g] /\ frame'[g] = frame[g] /\ fpc'[g] = fpc[g]
      /\ running' = running
  BY <1>0 DEF schedVars, threadVars, fiberVars
<1>2. PICK s : s = Slot(f)
  OBVIOUS
<1>3. call[f].pc = "addStore" /\ s \in Slots /\ s[1] = call[f].ctr /\ call[f].ctr \in Counters
  BY <1>0, <1>2, CallTypes DEF AddStore, At, Slot, CounterTypeOK
<1>4. /\ inUse' = [inUse EXCEPT ![s] = FALSE] /\ fiberIndex' = [fiberIndex EXCEPT ![s] = f]
      /\ UNCHANGED freeSlot /\ call' = [call EXCEPT ![f].pc = "addLoad"]
  BY <1>0, <1>2, <1>3 DEF AddStore, Goto, CallFits
<1>5. /\ \A g \in Fibers \ {f} : call'[g] = call[g]
      /\ call'[f].pc = "addLoad" /\ call'[f].ctr = call[f].ctr
  BY <1>0, <1>4 DEF Call
<1>6. ~Registered(f)
  BY <1>0, <1>3, RegisteredAt DEF Absent
<1>7. WaitsFor(f, s[1]) /\ fpc[f] = "adding" /\ stored[f] = "no"
  <2>1. fpc[f] = "adding" /\ WaitsFor(f, s[1])
    BY <1>0, <1>3 DEF CallFits, AddPC, Absent
  <2>2. QED
    BY <1>0, <2>1, OnOne DEF OnThread
<1>8. \A r \in Slots : \A g : Published(r, g)' => (r = s /\ g = f) \/ (r # s /\ Published(r, g))
  BY <1>0, <1>3, <1>4 DEF Published
<1>9. \A u \in Threads : \A i, g : Listed(u, i, g)' <=> Listed(u, i, g)
  BY <1>1 DEF Listed
<1>10. \A g : Registered(g) => Nameable(g) /\ Nameable(g)' /\ g # f
  <2>1. SUFFICES ASSUME NEW g, Registered(g) PROVE Nameable(g) /\ Nameable(g)' /\ g # f
    OBVIOUS
  <2>2. Nameable(g)
    BY <1>0, <2>1 DEF Registered, PublishedFits, ListedFits
  <2>3. QED
    BY <1>1, <1>5, <1>6, <2>1, <2>2 DEF Nameable
<1>11. InCall'
  <2>1. CallFits(f)'
    BY <1>1, <1>5, <1>7, <1>3 DEF CallFits, WaitsFor, CheckPC, AddPC, Absent
  <2>2. QED
    BY <1>0, <1>1, <1>5, <2>1, CallsKept DEF Alone
<1>12. PublishedFits'
  <2>1. SUFFICES ASSUME NEW r \in Slots, NEW g, Published(r, g)' PROVE Nameable(g)' /\ WaitsFor(g, r[1])'
    BY DEF PublishedFits
  <2>2. CASE r = s /\ g = f
    BY <1>1, <1>5, <1>7, <2>2 DEF Nameable, WaitsFor, Absent
  <2>3. CASE Published(r, g)
    <3>1. Registered(g) /\ WaitsFor(g, r[1])
      BY <1>0, <2>3 DEF Registered, PublishedFits
    <3>2. QED
      BY <1>1, <1>10, <3>1 DEF WaitsFor, Nameable
  <2>4. QED
    BY <1>8, <2>1, <2>2, <2>3
<1>13. ListedFits'
  BY <1>9, <1>10 DEF ListedFits, Registered
<1>14. OneName'
  BY <1>0, <1>6, <1>8, <1>9 DEF OneName, Registered
<1>15. Claimed'
  <2>1. \A u \in Threads \ {t} : \A r \in Slots : Waking(u, r) => Waking(u, r)'
    BY <1>0, <1>1, <1>5, WakingKept, StepPlaces
  <2>2. \A r \in Slots : (~Waking(t, r)) /\ (Holding(f, r) => r = s)
    BY <1>2, <1>3 DEF Waking, Holding
  <2>3. ASSUME NEW r \in Slots, ~freeSlot'[r], freeSlot[r] \/ ~inUse[r] \/ Holding(f, r) \/ Waking(t, r)
        PROVE  ~inUse'[r]
    BY <1>0, <1>3, <1>4, <2>2, <2>3
  <2>4. QED
    BY <1>0, <1>5, <2>1, <2>3, ClaimsKept
<1>16. QED
  BY <1>11, <1>12, <1>13, <1>14, <1>15 DEF WaitInv

\* the exchange that succeeds,
LEMMA WaitReady ==
  ASSUME TypeInv, LeftInv, WaitInv, OneWaits, NEW t \in Threads, NEW f \in Fibers, running[t] = f,
         FiberStep(t, f), Ready(t, f)
  PROVE  WaitInv'
<1>0. /\ TypeOK /\ CallFits(f) /\ call \in [Fibers -> Call] /\ CounterTypeOK
      /\ inUse \in [Slots -> BOOLEAN] /\ fiberIndex \in [Slots -> Fibers \cup {NoFiber}]
      /\ tls \in [Threads -> TLS]
      /\ InCall /\ PublishedFits /\ ListedFits /\ OneName /\ Claimed
  BY DEF TypeInv, TypeOK, CounterTypeOK, WaitInv, InCall
<1>1. /\ \A g \in Fibers : stored'[g] = stored[g] /\ frame'[g] = frame[g] /\ fpc'[g] = fpc[g]
      /\ running' = running
  BY DEF Ready, fiberVars
<1>2. PICK s : s = Slot(f)
  OBVIOUS
<1>3. PICK h : h = fiberIndex[s]
  OBVIOUS
<1>4. call[f].pc = "checkAcquire" /\ s \in Slots /\ ~inUse[s]
  BY <1>0, <1>2, CallTypes DEF Ready, CheckAcquire, At
<1>5. /\ inUse' = [inUse EXCEPT ![s] = TRUE] /\ UNCHANGED <<freeSlot, fiberIndex>>
      /\ call' = [call EXCEPT ![f].pc = "checkRelease"]
      /\ tls' = [tls EXCEPT ![t].ready = Append(@, h)]
  BY <1>2, <1>3 DEF Ready, CheckAcquire, Handed, Goto
<1>6. /\ \A g \in Fibers \ {f} : call'[g] = call[g]
      /\ call'[f].pc = "checkRelease" /\ call'[f].ctr = call[f].ctr /\ call'[f].i = call[f].i
  BY <1>0, <1>5 DEF Call
<1>7. Published(s, h) /\ Nameable(h) /\ WaitsFor(h, s[1]) /\ Registered(h) /\ h # f
  <2>1. Published(s, h)
    BY <1>3, <1>4 DEF Published
  <2>2. ~Registered(f)
    BY <1>0, <1>4, RegisteredAt DEF CallFits, CheckPC
  <2>3. QED
    BY <1>0, <1>4, <2>1, <2>2 DEF PublishedFits, Registered
<1>8. PICK w \in Seq(Fibers) : w = tls[t].ready
  BY <1>0 DEF TLS
<1>9. /\ tls'[t].ready = Append(w, h)
      /\ \A u \in Threads \ {t} : tls'[u].ready = tls[u].ready
  BY <1>0, <1>5, <1>8 DEF TLS
<1>10. h \in Fibers
  BY <1>7 DEF Nameable
<1>11. \A u \in Threads : \A i, g : Listed(u, i, g)' =>
         Listed(u, i, g) \/ (u = t /\ i = Len(w) + 1 /\ g = h)
  <2>1. \A i, g : Listed(t, i, g)' => Listed(t, i, g) \/ (i = Len(w) + 1 /\ g = h)
    BY <1>8, <1>9, <1>10, AppendPlaces DEF Listed
  <2>2. QED
    BY <1>9, <2>1 DEF Listed
<1>12. \A r \in Slots : \A g : Published(r, g)' => r # s /\ Published(r, g)
  BY <1>0, <1>4, <1>5 DEF Published
<1>13. \A g : Registered(g) => Nameable(g) /\ Nameable(g)'
  <2>1. SUFFICES ASSUME NEW g, Registered(g) PROVE Nameable(g) /\ Nameable(g)'
    OBVIOUS
  <2>2. Nameable(g)
    BY <1>0, <2>1 DEF Registered, PublishedFits, ListedFits
  <2>3. QED
    BY <1>1, <1>6, <2>1, <2>2 DEF Nameable, Absent
<1>14. InCall'
  <2>1. CallFits(f)'
    BY <1>0, <1>1, <1>4, <1>6 DEF CallFits, CheckPC, AddPC, Absent
  <2>2. QED
    BY <1>0, <1>1, <1>6, <2>1, CallsKept DEF Alone
<1>15. PublishedFits'
  <2>1. SUFFICES ASSUME NEW r \in Slots, NEW g, Published(r, g)' PROVE Nameable(g)' /\ WaitsFor(g, r[1])'
    BY DEF PublishedFits
  <2>2. Published(r, g) /\ Registered(g) /\ WaitsFor(g, r[1]) /\ g \in Fibers
    BY <1>0, <1>12, <2>1 DEF Registered, PublishedFits, Nameable
  <2>3. QED
    BY <1>1, <1>13, <2>2 DEF WaitsFor
<1>16. ListedFits'
  BY <1>7, <1>11, <1>13 DEF ListedFits, Registered
<1>17. OneName'
  <2>1. \A r, q \in Slots : \A g : Published(r, g)' /\ Published(q, g)' => r = q
    BY <1>0, <1>12 DEF OneName
  <2>2. \A u \in Threads : \A i : ~Listed(u, i, h)
    BY <1>0, <1>4, <1>7 DEF OneName
  <2>3. \A r \in Slots : Published(r, h) => r = s
    BY <1>0, <1>4, <1>7 DEF OneName
  <2>4. \A u, v \in Threads : \A i, k, g : Listed(u, i, g)' /\ Listed(v, k, g)' => u = v /\ i = k
    BY <1>0, <1>11, <2>2 DEF OneName
  <2>5. \A r \in Slots : \A u \in Threads : \A i, g : ~(Published(r, g)' /\ Listed(u, i, g)')
    BY <1>0, <1>11, <1>12, <2>3 DEF OneName
  <2>6. QED
    BY <2>1, <2>4, <2>5 DEF OneName
<1>18. Claimed'
  <2>1. \A u \in Threads \ {t} : \A r \in Slots : Waking(u, r) => Waking(u, r)'
    BY <1>0, <1>1, <1>6, <1>9, WakingKept, StepPlaces
  <2>2. \A r \in Slots : ~Waking(t, r) /\ ~Holding(f, r)
    BY <1>4 DEF Waking, Holding
  <2>3. Waking(t, s)'
    <3>1. Listed(t, Len(w) + 1, h)'
      BY <1>8, <1>9, <1>10, AppendProperties DEF Listed
    <3>2. WaitsFor(h, s[1])'
      BY <1>1, <1>7, <1>10 DEF WaitsFor
    <3>3. running'[t] = f /\ call'[f].pc = "checkRelease" /\ Slot(f)' = s
      BY <1>1, <1>2, <1>6 DEF Slot
    <3>4. QED
      BY <3>1, <3>2, <3>3 DEF Waking
  <2>4. ASSUME NEW r \in Slots, ~freeSlot'[r], freeSlot[r] \/ ~inUse[r] \/ Holding(f, r) \/ Waking(t, r)
        PROVE  ~inUse'[r] \/ Waking(t, r)'
    BY <1>0, <1>4, <1>5, <2>2, <2>3, <2>4
  <2>5. QED
    BY <1>0, <1>6, <2>1, <2>4, ClaimsKept
<1>19. QED
  BY <1>14, <1>15, <1>16, <1>17, <1>18 DEF WaitInv

\* What is left of a list when one entry is erased.
LEMMA RemovePlaces ==
  ASSUME NEW S, NEW s \in Seq(S), NEW i \in DOMAIN s
  PROVE  /\ i \in Nat /\ DOMAIN RemoveAt(s, i) \subseteq Nat
         /\ \A k \in DOMAIN RemoveAt(s, i) :
              /\ k < i => k \in DOMAIN s /\ RemoveAt(s, i)[k] = s[k]
              /\ k >= i => k + 1 \in DOMAIN s /\ RemoveAt(s, i)[k] = s[k + 1]
<1>1. PICK n \in Nat : n = Len(s)
  BY LenProperties
<1>2. i \in 1 .. n /\ DOMAIN s = 1 .. n
  BY <1>1, LenProperties
<1>3. PICK a : a = SubSeq(s, 1, i - 1)
  OBVIOUS
<1>4. PICK b : b = SubSeq(s, i + 1, n)
  OBVIOUS
<1>5. a \in Seq(S) /\ Len(a) = i - 1 /\ \A k \in 1 .. i - 1 : a[k] = s[k]
  <2>1. i - 1 \in Int /\ 1 \in Int /\ \A k \in 1 .. i - 1 : s[k] \in S
    BY <1>1, <1>2
  <2>2. /\ a \in Seq(S)
        /\ Len(a) = IF 1 <= i - 1 THEN (i - 1) - 1 + 1 ELSE 0
        /\ \A k \in 1 .. (i - 1) - 1 + 1 : a[k] = s[1 + k - 1]
    BY <1>3, <2>1, SubSeqProperties
  <2>3. \A k \in 1 .. i - 1 : k \in 1 .. (i - 1) - 1 + 1 /\ 1 + k - 1 = k
    BY <1>1, <1>2
  <2>4. Len(a) = i - 1
    BY <1>1, <1>2, <2>2
  <2>5. QED
    BY <2>2, <2>3, <2>4
<1>6. b \in Seq(S) /\ Len(b) = n - i /\ \A k \in 1 .. n - i : b[k] = s[i + k]
  <2>1. i + 1 \in Int /\ n \in Int /\ \A k \in i + 1 .. n : s[k] \in S
    BY <1>1, <1>2
  <2>2. /\ b \in Seq(S)
        /\ Len(b) = IF i + 1 <= n THEN n - (i + 1) + 1 ELSE 0
        /\ \A k \in 1 .. n - (i + 1) + 1 : b[k] = s[(i + 1) + k - 1]
    BY <1>4, <2>1, SubSeqProperties
  <2>3. \A k \in 1 .. n - i : k \in 1 .. n - (i + 1) + 1 /\ (i + 1) + k - 1 = i + k
    BY <1>1, <1>2
  <2>4. Len(b) = n - i
    BY <1>1, <1>2, <2>2
  <2>5. QED
    BY <2>2, <2>3, <2>4
<1>7. PICK e : e = a \o b
  OBVIOUS
<1>8. RemoveAt(s, i) = e
  BY <1>1, <1>3, <1>4, <1>7 DEF RemoveAt
<1>9. /\ e \in Seq(S) /\ Len(e) = Len(a) + Len(b)
      /\ \A k \in 1 .. Len(a) + Len(b) : e[k] = IF k <= Len(a) THEN a[k] ELSE b[k - Len(a)]
  BY <1>5, <1>6, <1>7, ConcatProperties
<1>10. Len(e) = n - 1 /\ DOMAIN e = 1 .. n - 1
  BY <1>1, <1>2, <1>5, <1>6, <1>9, LenProperties
<1>11. \A k \in 1 .. n - 1 : e[k] = IF k < i THEN s[k] ELSE s[k + 1]
  <2>1. SUFFICES ASSUME NEW k \in 1 .. n - 1 PROVE e[k] = IF k < i THEN s[k] ELSE s[k + 1]
    OBVIOUS
  <2>2. e[k] = IF k <= i - 1 THEN a[k] ELSE b[k - (i - 1)]
    BY <1>1, <1>2, <1>5, <1>6, <1>9
  <2>3. CASE k < i
    BY <1>1, <1>2, <1>5, <2>2, <2>3
  <2>4. CASE ~(k < i)
    <3>1. PICK m \in 1 .. n - i : m = k - (i - 1) /\ i + m = k + 1
      BY <1>1, <1>2, <2>4
    <3>2. b[m] = s[k + 1]
      BY <1>6, <3>1
    <3>3. ~(k <= i - 1)
      BY <1>1, <1>2, <2>4
    <3>4. QED
      BY <2>2, <2>4, <3>1, <3>2, <3>3
  <2>5. QED
    BY <2>3, <2>4
<1>12. QED
  <2>1. \A k \in 1 .. n - 1 : k < i => k \in 1 .. n
    BY <1>1, <1>2
  <2>2. \A k \in 1 .. n - 1 : k >= i => k + 1 \in 1 .. n /\ ~(k < i)
    BY <1>1, <1>2
  <2>3. QED
    BY <1>2, <1>8, <1>10, <1>11, <2>1, <2>2

\* the walk over a ready list,
LEMMA WaitResumes ==
  ASSUME TypeInv, LeftInv, WaitInv, NEW t \in Threads, NEW f \in Fibers, running[t] = f,
         FiberStep(t, f), Resumes(t, f)
  PROVE  WaitInv'
<1>0. /\ TypeOK /\ CallFits(f) /\ call \in [Fibers -> Call]
      /\ tls \in [Threads -> TLS] /\ fpc \in [Fibers -> FiberPC] /\ stored \in [Fibers -> {"none", "no", "yes"}]
      /\ InCall /\ PublishedFits /\ ListedFits /\ OneName /\ Claimed
  BY DEF TypeInv, TypeOK, CounterTypeOK, WaitInv, InCall
<1>1. Alone(f) /\ \A g \in Fibers : Registered(g) => frame'[g].op = frame[g].op
  BY OpsKept
<1>2. PICK i \in DOMAIN tls[t].ready :
        /\ On(f, "ready") /\ ReadyTakes(t, f, i)
        /\ UNCHANGED <<counterVars, running>>
  BY DEF Resumes
<1>3. PICK w \in Seq(Fibers) : w = tls[t].ready
  BY <1>0 DEF TLS
<1>4. PICK h : h = w[i] /\ h \in Fibers /\ Listed(t, i, h)
  BY <1>3 DEF Listed
<1>5. /\ tls'[t].ready = RemoveAt(w, i)
      /\ \A u \in Threads \ {t} : tls'[u].ready = tls[u].ready
      /\ stored' = [stored EXCEPT ![h] = "none"]
      /\ fpc' = [fpc EXCEPT ![f] = "switch"]
      /\ fpc[f] = "ready"
  BY <1>0, <1>2, <1>3, <1>4 DEF ReadyTakes, TLS, On, Jump
<1>6. UNCHANGED <<call, inUse, fiberIndex, freeSlot, running>>
  BY <1>2 DEF counterVars
<1>7. call[f].pc \notin CheckPC \cup AddPC
  BY <1>0, <1>5 DEF CallFits
<1>8. i \in Nat /\ \A k, g : Listed(t, k, g)' =>
        k \in Nat /\ (k < i => Listed(t, k, g)) /\ (k >= i => Listed(t, k + 1, g))
  <2>1. i \in DOMAIN w
    BY <1>2, <1>3
  <2>2. PICK e : e = RemoveAt(w, i)
    OBVIOUS
  <2>3. /\ i \in Nat /\ DOMAIN e \subseteq Nat
        /\ \A k \in DOMAIN e : /\ k < i => k \in DOMAIN w /\ e[k] = w[k]
                               /\ k >= i => k + 1 \in DOMAIN w /\ e[k] = w[k + 1]
    BY <2>1, <2>2, RemovePlaces
  <2>4. tls'[t].ready = e
    BY <1>5, <2>2
  <2>5. QED
    BY <1>3, <2>3, <2>4 DEF Listed
<1>9. \A u \in Threads : \A k, g : Listed(u, k, g)' => \E m : Listed(u, m, g) /\ (u = t => m # i)
  <2>1. ASSUME NEW k, NEW g, Listed(t, k, g)'
        PROVE  \E m : Listed(t, m, g) /\ m # i
    <3>1. k \in Nat /\ i \in Nat
      BY <1>8, <2>1
    <3>2. CASE k < i
      BY <1>8, <2>1, <3>1, <3>2
    <3>3. CASE k >= i
      <4>1. k + 1 # i
        BY <3>1, <3>3
      <4>2. QED
        BY <1>8, <2>1, <3>3, <4>1
    <3>4. QED
      BY <3>1, <3>2, <3>3
  <2>2. QED
    BY <1>5, <2>1 DEF Listed
<1>10. \A u \in Threads : \A k, g : Listed(u, k, g)' => g # h
  BY <1>0, <1>4, <1>9 DEF OneName
<1>11. \A s \in Slots : \A g : Published(s, g)' => Published(s, g) /\ g # h
  BY <1>0, <1>4, <1>6 DEF OneName, Published
<1>12. \A g : Nameable(g) /\ g # h => Nameable(g)'
  BY <1>0, <1>5, <1>6 DEF Nameable
<1>13. InCall'
  <2>1. CallFits(f)'
    BY <1>6, <1>7 DEF CallFits, AddPC, Absent
  <2>2. QED
    BY <1>0, <1>1, <1>5, <1>6, <2>1, CallsKept
<1>14. PublishedFits'
  <2>1. SUFFICES ASSUME NEW s \in Slots, NEW g, Published(s, g)' PROVE Nameable(g)' /\ WaitsFor(g, s[1])'
    BY DEF PublishedFits
  <2>2. Published(s, g) /\ Nameable(g) /\ WaitsFor(g, s[1]) /\ g # h /\ Registered(g) /\ g \in Fibers
    BY <1>0, <1>11, <2>1 DEF PublishedFits, Registered, Nameable
  <2>3. QED
    BY <1>1, <1>12, <2>2 DEF WaitsFor
<1>15. ListedFits'
  BY <1>0, <1>9, <1>10, <1>12 DEF ListedFits
<1>16. OneName'
  <2>1. \A u, v \in Threads : \A k, m, g : Listed(u, k, g)' /\ Listed(v, m, g)' => u = v /\ k = m
    <3>1. SUFFICES ASSUME NEW u \in Threads, NEW v \in Threads, NEW k, NEW m, NEW g,
                          Listed(u, k, g)', Listed(v, m, g)'
                   PROVE  u = v /\ k = m
      OBVIOUS
    <3>2. u = v
      BY <1>0, <1>9, <3>1 DEF OneName
    <3>3. CASE u = t
      <4>1. k \in Nat /\ m \in Nat /\ i \in Nat
        BY <1>8, <3>1, <3>2, <3>3
      <4>2. PICK a \in Nat, b \in Nat :
              /\ Listed(t, a, g) /\ Listed(t, b, g)
              /\ a = (IF k < i THEN k ELSE k + 1) /\ b = (IF m < i THEN m ELSE m + 1)
        BY <1>8, <3>1, <3>2, <3>3, <4>1
      <4>3. a = b
        BY <1>0, <4>2 DEF OneName
      <4>4. k = m
        BY <4>1, <4>2, <4>3
      <4>5. QED
        BY <3>2, <4>4
    <3>4. CASE u # t
      <4>1. Listed(u, k, g) /\ Listed(u, m, g)
        BY <1>5, <3>1, <3>2, <3>4 DEF Listed
      <4>2. QED
        BY <1>0, <3>2, <4>1 DEF OneName
    <3>5. QED
      BY <3>3, <3>4
  <2>2. \A r, s \in Slots : \A g : Published(r, g)' /\ Published(s, g)' => r = s
    BY <1>0, <1>11 DEF OneName
  <2>3. \A s \in Slots : \A u \in Threads : \A k, g : ~(Published(s, g)' /\ Listed(u, k, g)')
    BY <1>0, <1>9, <1>11 DEF OneName
  <2>4. QED
    BY <2>1, <2>2, <2>3 DEF OneName
<1>17. Claimed'
  <2>1. \A u \in Threads \ {t} : \A s \in Slots : Waking(u, s) => Waking(u, s)'
    BY <1>0, <1>1, <1>5, <1>6, WakingKept, StepPlaces
  <2>2. \A s \in Slots : ~Holding(f, s) /\ ~Waking(t, s)
    BY <1>7 DEF Holding, Waking, CheckPC, AddPC, Absent
  <2>3. QED
    BY <1>0, <1>6, <2>1, <2>2, ClaimsKept
<1>18. QED
  BY <1>13, <1>14, <1>15, <1>16, <1>17 DEF WaitInv

\* the two ends of a call of AddWaitingFiber and its start,
LEMMA WaitStarts ==
  ASSUME TypeInv, LeftInv, WaitInv, NEW t \in Threads, NEW f \in Fibers, running[t] = f,
         FiberStep(t, f), WaitForCounter(t, f)
  PROVE  WaitInv'
<1>0. /\ TypeOK /\ call \in [Fibers -> Call] /\ frame \in [Fibers -> Frame] /\ fpc \in [Fibers -> FiberPC]
      /\ stored \in [Fibers -> {"none", "no", "yes"}]
  BY DEF TypeInv, TypeOK, CounterTypeOK
<1>1. fpc[f] = "body" /\ call[f].pc = "idle" /\ NextOp(f).op = "wait" /\ UNCHANGED <<slotVars, tls>>
  BY DEF WaitForCounter, Starts, On, StartAdd, At, threadVars
<1>2. tls[t].cur = f /\ ~Registered(f)
  BY <1>0, <1>1, OnOne, RegisteredAt DEF OnThread
<1>3. /\ call' = [call EXCEPT ![f] = [NoCall EXCEPT !.pc = "addTake", !.ctr = NextOp(f).ctr,
                                                    !.fiber = f, !.target = NextOp(f).target]]
      /\ frame' = [frame EXCEPT ![f].op = NextOp(f), ![f].rest = Tail(@)]
      /\ fpc' = [fpc EXCEPT ![f] = "adding"] /\ stored' = [stored EXCEPT ![f] = "no"]
  BY <1>2 DEF WaitForCounter, StartAdd, Begin, Jump
<1>4. /\ \A g \in Fibers \ {f} : call'[g] = call[g] /\ stored'[g] = stored[g]
      /\ call'[f].pc = "addTake" /\ call'[f].ctr = NextOp(f).ctr /\ call'[f].fiber = f
      /\ frame'[f].op = NextOp(f) /\ fpc'[f] = "adding"
  BY <1>0, <1>3 DEF NoCall, Frame
<1>5. CallFits(f)'
  BY <1>1, <1>4 DEF CallFits, WaitsFor, CheckPC, AddPC, Absent
<1>6. \A s \in Slots : \A g : Published(s, g)' => Published(s, g)
  BY <1>1 DEF Published, slotVars
<1>7. \A s \in Slots : ~Holding(f, s) /\ ~Waking(t, s)
  BY <1>1 DEF Holding, Waking
<1>8. QED
  BY <1>1, <1>2, <1>4, <1>5, <1>6, <1>7, NothingNew DEF slotVars

LEMMA WaitEnded ==
  ASSUME TypeInv, LeftInv, WaitInv, NEW t \in Threads, NEW f \in Fibers, running[t] = f,
         FiberStep(t, f), WaitDone(t, f) \/ WaitThrows(t, f) \/ WaitLeaves(t, f)
  PROVE  WaitInv'
<1>0. /\ TypeOK /\ call \in [Fibers -> Call] /\ tls \in [Threads -> TLS]
      /\ stored \in [Fibers -> {"none", "no", "yes"}] /\ CallFits(f)
  BY DEF TypeInv, TypeOK, CounterTypeOK, WaitInv, InCall
<1>1. ~WaitThrows(t, f)
  BY <1>0 DEF WaitThrows, At, CallFits
<1>2. /\ UNCHANGED slotVars /\ call' = [call EXCEPT ![f] = NoCall]
      /\ \/ call[f].pc = "added" /\ stored' = [stored EXCEPT ![f] = "none"] /\ tls' = tls
         \/ /\ call[f].pc = "pending" /\ stored' = stored
            /\ tls' = [tls EXCEPT ![t].prev = tls[t].cur, ![t].dest = "waiting"]
  BY <1>1 DEF WaitDone, WaitLeaves, Return, At, threadVars
<1>3. /\ \A g \in Fibers \ {f} : call'[g] = call[g] /\ stored'[g] = stored[g]
      /\ call'[f].pc = "idle"
  BY <1>0, <1>2 DEF NoCall
<1>4. \A u \in Threads : tls'[u].ready = tls[u].ready
  <2>1. ASSUME tls' = [tls EXCEPT ![t].prev = tls[t].cur, ![t].dest = "waiting"]
        PROVE  \A u \in Threads : tls'[u].ready = tls[u].ready
    <3>1. tls' = [tls EXCEPT ![t] = [tls[t] EXCEPT !.prev = tls[t].cur, !.dest = "waiting"]]
      BY <1>0, <2>1 DEF TLS
    <3>2. QED
      BY <1>0, <3>1 DEF TLS
  <2>2. QED
    BY <1>2, <2>1
<1>5. CallFits(f)'
  BY <1>3 DEF CallFits, CheckPC, AddPC, Absent
<1>6. \A s \in Slots : \A g : Published(s, g)' => Published(s, g)
  BY <1>2 DEF Published, slotVars
<1>7. \A s \in Slots : ~Holding(f, s) /\ ~Waking(t, s)
  BY <1>2 DEF Holding, Waking
<1>8. Registered(f) => stored'[f] # "none"
  <2>1. Registered(f) => stored[f] # "none" /\ call[f].pc # "added"
    BY <1>0, RegisteredAt DEF Registered, WaitInv, PublishedFits, ListedFits, Nameable, Absent
  <2>2. QED
    BY <1>2, <2>1
<1>9. \A g \in Fibers \ {f} : call'[g] = call[g] /\ (stored[g] # "none" => stored'[g] # "none")
  BY <1>3
<1>10. call'[f].pc \notin Absent
  BY <1>3 DEF Absent
<1>11. \A s \in Slots : ~freeSlot'[s] /\ (freeSlot[s] \/ ~inUse[s] \/ Holding(f, s) \/ Waking(t, s)) => ~inUse'[s]
  BY <1>2, <1>7 DEF slotVars
<1>12. QED
  BY <1>4, <1>5, <1>6, <1>8, <1>9, <1>10, <1>11, NothingNew

\* a step that starts to look through the slots,
LEMMA WaitCounts ==
  ASSUME TypeInv, LeftInv, WaitInv, NEW t \in Threads, NEW f \in Fibers, running[t] = f,
         FiberStep(t, f), Counts(t, f)
  PROVE  WaitInv'
<1>0. TypeOK /\ call \in [Fibers -> Call] /\ fpc \in [Fibers -> FiberPC]
  BY DEF TypeInv, TypeOK, CounterTypeOK
<1>1. PICK c \in Counters :
        /\ Increment(f, c, 1) \/ Decrement(f, c, 1)
        /\ fpc[f] = "body" /\ \E pc \in {"enqueue", "end"} : fpc' = [fpc EXCEPT ![f] = pc]
        /\ UNCHANGED <<stored, threadVars>>
  BY DEF Counts
<1>2. /\ call[f].pc = "idle" /\ UNCHANGED slotVars
      /\ \E v : call' = [call EXCEPT ![f].pc = "checkFree", ![f].ctr = c, ![f].value = v]
  BY <1>1 DEF Increment, Decrement, StartCheck, At
<1>3. /\ \A g \in Fibers \ {f} : call'[g] = call[g]
      /\ call'[f].pc = "checkFree"
  <2>1. ASSUME NEW v, call' = [call EXCEPT ![f].pc = "checkFree", ![f].ctr = c, ![f].value = v]
        PROVE  /\ \A g \in Fibers \ {f} : call'[g] = call[g]
               /\ call'[f].pc = "checkFree"
    BY <1>0, <2>1 DEF Call
  <2>2. QED
    BY <1>2, <2>1
<1>4. fpc'[f] \in {"enqueue", "end"}
  BY <1>0, <1>1
<1>5. CallFits(f)'
  BY <1>3, <1>4 DEF CallFits, AddPC, Absent
<1>6. \A s \in Slots : \A g : Published(s, g)' => Published(s, g)
  BY <1>2 DEF Published, slotVars
<1>7. \A s \in Slots : ~Holding(f, s) /\ ~Waking(t, s)
  BY <1>2 DEF Holding, Waking
<1>8. ~Registered(f)
  BY <1>0, <1>1, RegisteredAt
<1>9. QED
  BY <1>1, <1>2, <1>3, <1>5, <1>6, <1>7, <1>8, NothingNew DEF slotVars, threadVars

\* the constructor of a counter, which empties its slots,
LEMMA WaitNews ==
  ASSUME TypeInv, LeftInv, WaitInv, NEW t \in Threads, NEW f \in Fibers, running[t] = f,
         FiberStep(t, f), NewCounter(t, f)
  PROVE  WaitInv'
<1>0. /\ TypeOK /\ freeSlot \in [Slots -> BOOLEAN] /\ inUse \in [Slots -> BOOLEAN] /\ CallFits(f)
  BY DEF TypeInv, TypeOK, CounterTypeOK, WaitInv, InCall
<1>1. PICK new : new = NextOp(f).ctr
  OBVIOUS
<1>2. /\ fpc[f] = "body" /\ UNCHANGED <<call, stored, tls, fpc>>
      /\ freeSlot' = [s \in Slots |-> IF s[1] = new THEN TRUE ELSE freeSlot[s]]
      /\ inUse'    = [s \in Slots |-> IF s[1] = new THEN TRUE ELSE inUse[s]]
      /\ fiberIndex' = [s \in Slots |-> IF s[1] = new THEN NoFiber ELSE fiberIndex[s]]
  BY <1>1 DEF NewCounter, Starts, On, threadVars
<1>3. call[f].pc \notin CheckPC \cup AddPC
  BY <1>0, <1>2 DEF CallFits
<1>4. CallFits(f)'
  BY <1>2, <1>3 DEF CallFits, AddPC, Absent
<1>5. \A s \in Slots : \A g : Published(s, g)' => Published(s, g)
  BY <1>2 DEF Published
<1>6. \A s \in Slots : ~Holding(f, s) /\ ~Waking(t, s)
  BY <1>3 DEF Holding, Waking, CheckPC, AddPC, Absent
<1>7. \A s \in Slots : ~freeSlot'[s] => freeSlot'[s] = freeSlot[s] /\ inUse'[s] = inUse[s]
  BY <1>2
<1>8. ~Registered(f)
  BY <1>0, <1>2, RegisteredAt
<1>9. QED
  BY <1>2, <1>4, <1>5, <1>6, <1>7, <1>8, NothingNew

\* and any other step.
LEMMA WaitAside ==
  ASSUME TypeInv, LeftInv, WaitInv, NEW t \in Threads, NEW f \in Fibers, running[t] = f,
         FiberStep(t, f), Aside(t, f)
  PROVE  WaitInv'
<1>0. TypeOK /\ CallFits(f)
  BY DEF TypeInv, WaitInv, InCall
<1>1. /\ UNCHANGED counterVars /\ \A u \in Threads : tls'[u].ready = tls[u].ready
      /\ \A g \in Fibers : stored[g] # "none" => stored'[g] # "none"
      /\ fpc[f] # "adding" /\ (fpc[f] \in {"enqueue", "end"} => At(f, "idle"))
  BY DEF Aside
<1>2. call[f].pc \notin CheckPC \cup AddPC /\ UNCHANGED <<call, slotVars>>
  BY <1>0, <1>1 DEF CallFits, At, CheckPC, AddPC, Absent, counterVars, slotVars
<1>3. CallFits(f)'
  BY <1>2 DEF CallFits, AddPC, Absent
<1>4. \A s \in Slots : \A g : Published(s, g)' => Published(s, g)
  BY <1>2 DEF Published, slotVars
<1>5. \A s \in Slots : ~Holding(f, s) /\ ~Waking(t, s)
  BY <1>2 DEF Holding, Waking, CheckPC, AddPC, Absent
<1>6. Registered(f) => stored'[f] # "none" /\ call'[f].pc \notin Absent
  <2>1. Registered(f) => stored[f] # "none" /\ call[f].pc \notin Absent
    BY <1>0, RegisteredAt DEF Registered, WaitInv, PublishedFits, ListedFits, Nameable
  <2>2. QED
    BY <1>1, <1>2, <2>1
<1>7. QED
  BY <1>1, <1>2, <1>3, <1>4, <1>5, <1>6, NothingNew DEF slotVars

\* A step of a fiber keeps the registrations right.
LEMMA WaitStep ==
  ASSUME TypeInv, LeftInv, WaitInv, OneWaits, NEW t \in Threads, NEW f \in Fibers, running[t] = f,
         FiberStep(t, f)
  PROVE  WaitInv'
BY StepKinds, WaitInCounter, WaitStores, WaitReady, WaitResumes, WaitStarts, WaitEnded, WaitCounts,
   WaitNews, WaitAside

----------------------------------------------------------------------------
(* Who waits for what is in the program.                                   *)

\* A condition on the program: one code waits for each counter.  Two that wait for one
\* are the subject of a finding.
OneWaiter == \A x, y \in Code, c \in Counters : WaitsOn(x, c) /\ WaitsOn(y, c) => x = y

\* A code that has such an operation on c, of its own or of a Step.
OnCounter == {"schedule", "wait", "blockingWait", "new", "add", "step", "execute"}
Uses(x, c) ==
  \E i \in DOMAIN program.body[x] :
    LET op == program.body[x][i] IN op.op \in OnCounter /\ op.ctr = c
OfCode(x, op) ==
  /\ op.op \in MayLeave => WaitsOn(x, op.ctr)
  /\ op.op \in OnCounter => Uses(x, op.ctr)

\* What a fiber has left to do with a counter, its code does with it.
FromCode == \A f \in Fibers : \A i \in DOMAIN Remaining(f) : OfCode(frame[f].job, Remaining(f)[i])

LEMMA FromCodeStep ==
  ASSUME TypeOK, FramesOK, JobInv, FromCode, NEW f \in Fibers, Moves(f)
  PROVE  FromCode'
<1>0. /\ UNCHANGED program
      /\ \A g \in Fibers : g # f => Remaining(g)' = Remaining(g) /\ frame'[g].job = frame[g].job
  BY OthersKeep
<1>1. \A x, op : OfCode(x, op)' <=> OfCode(x, op)
  BY <1>0 DEF OfCode, WaitsOn, Uses
<1>2. ASSUME NEW x, NEW k \in DOMAIN program.body[x]
      PROVE  OfCode(x, program.body[x][k])
  BY DEF OfCode, WaitsOn, Uses, MayLeave
<1>3. ASSUME NEW op, Unfolded(f, op)
      PROVE  OfCode(frame[f].job, op)
  <2>1. PICK c \in Counters : WaitsOn(frame[f].job, c) /\ Uses(frame[f].job, c) /\ StepOp(op, c)
    BY <1>3 DEF Unfolded, FromCode, OfCode, MayLeave, OnCounter
  <2>2. op.op = "erase" \/ op.ctr = c
    BY <2>1 DEF StepOp, Schedule, Wait
  <2>3. op.op = "erase" => op.op \notin MayLeave \cup OnCounter
    BY DEF MayLeave, OnCounter
  <2>4. QED
    BY <2>1, <2>2, <2>3 DEF OfCode
<1>4. ASSUME NEW i \in DOMAIN Remaining(f)'
      PROVE  OfCode(frame'[f].job, Remaining(f)'[i])
  <2>1. CASE /\ frame'[f].job = frame[f].job
             /\ \E k \in DOMAIN Remaining(f) : Remaining(f)'[i] = Remaining(f)[k]
    BY <2>1 DEF FromCode
  <2>2. CASE frame'[f].job = frame[f].job /\ Unfolded(f, Remaining(f)'[i])
    BY <1>3, <2>2
  <2>3. CASE /\ i \in DOMAIN program.body[frame'[f].job]
             /\ Remaining(f)'[i] = program.body[frame'[f].job][i]
    BY <1>2, <2>3
  <2>4. QED
    BY <2>1, <2>2, <2>3, OpsFrom
<1>5. ASSUME NEW g \in Fibers, NEW i \in DOMAIN Remaining(g)'
      PROVE  OfCode(frame'[g].job, Remaining(g)'[i])
  <2>1. CASE g = f
    BY <1>4, <1>5, <2>1
  <2>2. CASE g # f
    BY <1>0, <1>5, <2>2 DEF FromCode
  <2>3. QED
    BY <2>1, <2>2
<1>6. QED
  BY <1>1, <1>5 DEF FromCode

\* So the fibers that wait for a counter are one.
LEMMA OneCode ==
  ASSUME FramesOK, JobInv, FromCode, OneWaiter
  PROVE  OneWaits
<1>1. ASSUME NEW f \in Fibers, NEW c, WaitsFor(f, c)
      PROVE  WaitsOn(frame[f].job, c) /\ frame[f].job \in Code
  <2>1. frame[f].op # NoOp
    BY <1>1, NoOpIsNone DEF WaitsFor
  <2>2. Faces(f, {"wait"}) /\ Head(Remaining(f)) = frame[f].op
    BY <1>1, <2>1, RemainingIs DEF Faces, WaitsFor
  <2>3. 1 \in DOMAIN Remaining(f) /\ Remaining(f)[1] = frame[f].op /\ frame[f].job \in Code
    BY <2>2, FacesTypes
  <2>4. OfCode(frame[f].job, frame[f].op)
    BY <2>3 DEF FromCode
  <2>5. QED
    BY <1>1, <2>3, <2>4 DEF OfCode, WaitsFor, MayLeave
<1>2. \A f, g \in Fibers : frame[f].job \in Code /\ frame[f].job = frame[g].job => f = g
  BY SchedulerAssumption DEF JobInv, OneRun
<1>3. QED
  BY <1>1, <1>2 DEF OneWaits, OneWaiter

\* A step that no fiber makes changes no registration.
LEMMA WaitSame ==
  ASSUME WaitInv, UNCHANGED <<counterVars, fiberVars>>,
         \A u \in Threads : tls'[u].ready = tls[u].ready,
         \A u \in Threads : running[u] \in Fibers => running'[u] = running[u]
  PROVE  WaitInv'
<1>1. UNCHANGED <<freeSlot, inUse, fiberIndex, call, stored, fpc, frame>>
  BY DEF counterVars, fiberVars
<1>2. /\ \A s \in Slots : \A g : Published(s, g)' <=> Published(s, g)
      /\ \A u \in Threads : \A i, g : Listed(u, i, g)' <=> Listed(u, i, g)
      /\ \A g, c : WaitsFor(g, c)' <=> WaitsFor(g, c)
      /\ \A g : Nameable(g)' <=> Nameable(g)
      /\ \A g \in Fibers, s \in Slots : Holding(g, s)' <=> Holding(g, s)
  BY <1>1 DEF Published, Listed, WaitsFor, Nameable, Holding, Slot
<1>3. InCall' /\ PublishedFits' /\ ListedFits' /\ OneName'
  BY <1>1, <1>2 DEF WaitInv, InCall, CallFits, PublishedFits, ListedFits, OneName
<1>4. \A u \in Threads, s \in Slots : Waking(u, s) => Waking(u, s)'
  BY <1>1, <1>2 DEF Waking, Slot
<1>5. Claimed'
  BY <1>1, <1>2, <1>4 DEF WaitInv, Claimed
<1>6. QED
  BY <1>3, <1>5 DEF WaitInv

\* Every step of the Manager keeps the registrations right.
LEMMA WaitNext ==
  ASSUME SchedInv, LeftInv, WaitInv, FromCode, OneWaiter, [Next]_vars
  PROVE  WaitInv' /\ FromCode' /\ OneWaiter'
<1>0. TypeOK /\ FramesOK /\ JobInv /\ TypeInv
  BY DEF SchedInv, TypeInv, TypeOK, FramesOK
<1>1. ASSUME UNCHANGED <<fiberVars, programVars>>
      PROVE  FromCode' /\ OneWaiter'
  <2>1. UNCHANGED <<program, frame>> /\ \A g \in Fibers : Remaining(g)' = Remaining(g)
    BY <1>1 DEF fiberVars, programVars, Remaining
  <2>2. QED
    BY <2>1 DEF FromCode, OfCode, OneWaiter, WaitsOn, Uses
<1>2. CASE UNCHANGED vars
  BY <1>1, <1>2, WaitSame DEF vars, schedVars, threadVars
<1>3. ASSUME NEW t \in Threads, StartThread(t)
      PROVE  WaitInv' /\ FromCode' /\ OneWaiter'
  <2>1. FindFreeFiber(t) /\ UNCHANGED <<counterVars, fiberVars, programVars>> /\ tpc[t] = "find"
    BY <1>3 DEF StartThread
  <2>2. running[t] = NoFiber /\ NoFiber \notin Fibers
    BY <2>1, CounterAssumption DEF LeftInv, Finding
  <2>3. \A u \in Threads : tls'[u].ready = tls[u].ready
    <3>1. tls' = tls \/ \E h : tls' = [tls EXCEPT ![t].cur = h]
      BY <2>1 DEF FindFreeFiber, NextProbe
    <3>2. ASSUME NEW h, tls' = [tls EXCEPT ![t].cur = h]
          PROVE  \A u \in Threads : tls'[u].ready = tls[u].ready
      BY <1>0, <3>2 DEF TypeOK, TLS
    <3>3. QED
      BY <3>1, <3>2
  <2>4. \A u \in Threads : running[u] \in Fibers => running'[u] = running[u]
    BY <1>0, <2>1, <2>2 DEF FindFreeFiber, NextProbe, SwitchTo, TypeOK
  <2>5. QED
    BY <1>1, <2>1, <2>3, <2>4, WaitSame
<1>4. ASSUME NEW t \in Threads, Run(t)
      PROVE  WaitInv' /\ FromCode' /\ OneWaiter'
  BY <1>1, <1>4, WaitSame DEF Run
<1>5. ASSUME NEW t \in Threads, running[t] # NoFiber, FiberStep(t, running[t])
      PROVE  WaitInv' /\ FromCode' /\ OneWaiter'
  <2>1. PICK f \in Fibers : f = running[t]
    BY <1>0, <1>5 DEF TypeOK
  <2>2. Moves(f)
    BY <1>0, <1>5, <2>1, StepMoves
  <2>3. FromCode'
    BY <1>0, <2>2, FromCodeStep
  <2>4. OneWaiter'
    BY <2>2, OthersKeep DEF OneWaiter, WaitsOn
  <2>5. OneWaits
    BY <1>0, OneCode
  <2>6. WaitInv'
    BY <1>0, <1>5, <2>1, <2>5, WaitStep
  <2>7. QED
    BY <2>3, <2>4, <2>6
<1>6. QED
  BY <1>2, <1>3, <1>4, <1>5 DEF Next, ThreadStep, Terminated

\* At the start nobody waits.
LEMMA WaitInit ==
  ASSUME Init
  PROVE  WaitInv /\ FromCode
<1>0. TypeOK /\ FramesOK
  BY InitTypes DEF TypeInv, TypeOK, FramesOK
<1>1. /\ inUse = [s \in Slots |-> TRUE] /\ freeSlot = [s \in Slots |-> TRUE]
      /\ call = [f \in Fibers |-> NoCall]
      /\ \A u \in Threads : tls[u].ready = <<>>
  BY DEF Init, CounterInit
<1>2. \A s \in Slots : \A g : ~Published(s, g)
  BY <1>1 DEF Published
<1>3. \A u \in Threads : \A i, g : ~Listed(u, i, g)
  BY <1>1, EmptySeq DEF Listed
<1>4. InCall
  BY <1>1 DEF InCall, CallFits, NoCall, CheckPC, AddPC, Absent
<1>5. WaitInv
  BY <1>1, <1>2, <1>3, <1>4 DEF WaitInv, PublishedFits, ListedFits, OneName, Claimed
<1>6. ASSUME NEW f \in Fibers, NEW i \in DOMAIN Remaining(f)
      PROVE  OfCode(frame[f].job, Remaining(f)[i])
  <2>1. /\ frame[f].op = NoOp
        /\ frame[f].job = IF f = running[MainThread] THEN MainJob ELSE NoJob
        /\ frame[f].rest = IF f = running[MainThread] THEN program.body[MainJob] ELSE <<>>
    BY DEF Init
  <2>2. Remaining(f) = frame[f].rest
    BY <1>0, <2>1, RemainingIs
  <2>3. CASE f = running[MainThread]
    BY <1>6, <2>1, <2>2, <2>3 DEF OfCode, WaitsOn, Uses, MayLeave
  <2>4. CASE f # running[MainThread]
    BY <1>6, <2>1, <2>2, <2>4
  <2>5. QED
    BY <2>3, <2>4
<1>7. QED
  BY <1>5, <1>6 DEF FromCode

\* A fiber is in one entry, with its flag, and in no slot.
LEMMA WaitImplies ==
  ASSUME TypeOK, WaitInv
  PROVE  ReadyOnce
<1>1. \A t \in Threads : \A i \in DOMAIN tls[t].ready : Listed(t, i, tls[t].ready[i])
  BY DEF Listed
<1>2. ASSUME NEW t \in Threads, NEW u \in Threads, NEW i \in DOMAIN tls[t].ready,
             NEW k \in DOMAIN tls[u].ready, tls[t].ready[i] = tls[u].ready[k]
      PROVE  t = u /\ i = k
  BY <1>1, <1>2 DEF WaitInv, OneName
<1>3. ASSUME NEW t \in Threads, NEW i \in DOMAIN tls[t].ready
      PROVE  /\ stored[tls[t].ready[i]] # "none"
             /\ \A s \in Slots : ~inUse[s] => fiberIndex[s] # tls[t].ready[i]
  <2>1. PICK g : g = tls[t].ready[i] /\ Listed(t, i, g)
    BY <1>1, <1>3
  <2>2. stored[g] # "none" /\ \A s \in Slots : ~Published(s, g)
    BY <2>1 DEF WaitInv, ListedFits, OneName, Nameable
  <2>3. QED
    BY <2>1, <2>2 DEF Published
<1>4. QED
  BY <1>2, <1>3 DEF ReadyOnce

\* ManagerJobs.cpp:58-69, Counter.cpp:121-127: where one code waits for each counter and
\* each cleanup uses the TLS of its own thread, a fiber that is ready is in one entry
\* of one list, with its flag, and can be handed over by no counter again.
THEOREM FibersReadyOnce == Spec /\ OneWaiter /\ []SameThread => []ReadyOnce
<1>1. Init /\ TypeOK => LeftInv /\ WaitInv /\ FromCode
  BY InitLeft, WaitInit
<1>2. /\ SchedInv /\ SchedInv' /\ SameThread /\ [Next]_vars
      /\ LeftInv /\ WaitInv /\ FromCode /\ OneWaiter
      => LeftInv' /\ WaitInv' /\ FromCode' /\ OneWaiter'
  BY NextLeft, WaitNext DEF SchedInv, TypeInv
<1>3. TypeOK /\ WaitInv => ReadyOnce
  BY WaitImplies
<1>4. SchedInv => TypeOK
  BY DEF SchedInv, TypeInv
<1>5. QED
  BY <1>1, <1>2, <1>3, <1>4, SchedulerInvariant, PTL DEF Spec

----------------------------------------------------------------------------
(* Room in the queues and in the counters.                                 *)

\* A job that is submitted is in no queue, and all those that are in one with its
\* priority are asked for with it: there is room when all of them have room.
LEMMA EnoughRoom ==
  ASSUME SchedInv, AsksInv, Enough, NEW f \in Fibers, On(f, "enqueue")
  PROVE  Len(queue[Submitted(f).prio]) < QueueSize[Submitted(f).prio]
<1>0. TypeOK /\ FramesOK /\ JobInv /\ queue \in [Prio -> Seq(Jobs)]
  BY DEF SchedInv, TypeInv, TypeOK, FramesOK
<1>1. PICK op \in Op : /\ op = frame[f].op /\ op = Head(Remaining(f)) /\ op = Remaining(f)[1]
                       /\ 1 \in DOMAIN Remaining(f)
                       /\ op.op \in {"schedule", "blockingWait"}
                       /\ Faces(f, {"schedule", "blockingWait", "add"})
  <2>1. frame[f].op # NoOp /\ frame[f].op.op \in {"schedule", "blockingWait"}
    BY <1>0, FrameFields DEF On, JobAt, OpAt, Within
  <2>2. Faces(f, {"schedule", "blockingWait"}) /\ Head(Remaining(f)) = frame[f].op
    BY <1>0, <2>1, RemainingIs DEF Faces
  <2>3. QED
    BY <1>0, <2>1, <2>2, FacesTypes DEF Faces
<1>2. PICK p \in Prio, j \in Jobs : /\ p = Submitted(f).prio
                                    /\ Submission(op) = {[prio |-> p, job |-> j]}
  <2>1. CASE op.op = "schedule"
    BY <1>1, <2>1, OpTypes DEF Submitted, CurOp, Submission
  <2>2. CASE op.op = "blockingWait"
    BY <1>1, <2>2, OpTypes DEF Submitted, CurOp, Submission, Schedule, Prio
  <2>3. QED
    BY <1>1, <2>1, <2>2
<1>3. [prio |-> p, job |-> j] \in Submissions
  BY <1>1, <1>2 DEF AsksInv, AsksListed
<1>4. status[j] = "new"
  <2>1. AsksFor(op, j)
    BY <1>2 DEF AsksFor
  <2>2. Phase(f) = "on"
    BY DEF Phase, On
  <2>3. QED
    BY <1>0, <1>1, <2>1, <2>2, FirstIsNew DEF JobInv
<1> DEFINE S == {s \in Submissions : s.prio = p}
<1>5. PICK q \in Seq(Jobs) : q = queue[p]
  BY <1>0
<1>6. PICK n \in Nat : n = Len(q) /\ DOMAIN q = 1 .. n
  BY LenProperties
<1>7. /\ \A i \in 1 .. n : q[i] \in Jobs /\ q[i] # j /\ [prio |-> p, job |-> q[i]] \in Submissions
      /\ \A i, k \in 1 .. n : q[i] = q[k] => i = k
  <2>1. \A i \in 1 .. n : q[i] \in Jobs
    BY <1>6, ElementOfSeq
  <2>2. \A i \in 1 .. n : status[q[i]] = "queued" /\ [prio |-> p, job |-> q[i]] \in Submissions
    BY <1>0, <1>5, <1>6 DEF JobInv, InQueue, AsksInv, QueuesSorted
  <2>3. \A i, k \in 1 .. n : q[i] = q[k] => i = k
    BY <1>0, <1>5, <1>6 DEF JobInv, InQueue
  <2>4. QED
    BY <1>4, <2>1, <2>2, <2>3
<1>8. IsFiniteSet(S)
  <2>1. IsFiniteSet({p}) /\ IsFiniteSet(Jobs)
    BY FS_Singleton, SchedulerAssumption
  <2> DEFINE h == [s \in S |-> s.job]
  <2>2. \A s \in S : s = [prio |-> p, job |-> s.job] /\ s.job \in Jobs
    <3>1. SUFFICES ASSUME NEW s \in Submissions, s.prio = p
                   PROVE  s = [prio |-> p, job |-> s.job] /\ s.job \in Jobs
      OBVIOUS
    <3>2. PICK a \in Op : s \in Submission(a)
      BY <1>0, ProgramOps DEF Submissions
    <3>3. s \in [prio : Prio, job : Jobs]
      BY <3>2, OpTypes DEF Submission, Entry, Prio
    <3>4. QED
      BY <3>1, <3>3
  <2>3. h \in [S -> Jobs]
    BY <2>2
  <2>4. \A r, s \in S : h[r] = h[s] => r = s
    <3>1. SUFFICES ASSUME NEW r \in S, NEW s \in S, h[r] = h[s] PROVE r = s
      OBVIOUS
    <3>2. r.job = s.job
      BY <3>1
    <3>3. QED
      BY <2>2, <3>2
  <2> HIDE DEF h, S
  <2>5. h \in Injection(S, Jobs)
    BY <2>3, <2>4 DEF Injection, IsInjective
  <2>6. QED
    BY <2>1, <2>5, FS_Injection
<1>9. n + 1 <= Cardinality(S)
  <2> DEFINE T == 1 .. n + 1
             h == [i \in T |-> [prio |-> p, job |-> IF i = n + 1 THEN j ELSE q[i]]]
  <2>1. IsFiniteSet(T) /\ Cardinality(T) = n + 1
    BY <1>6, FS_Interval
  <2>2. h \in [T -> S]
    <3>1. \A i \in T : i # n + 1 => i \in 1 .. n
      BY <1>6
    <3>2. \A i \in T : [prio |-> p, job |-> IF i = n + 1 THEN j ELSE q[i]] \in Submissions
      BY <1>3, <1>7, <3>1
    <3>3. QED
      BY <3>2
  <2>3. \A i, k \in T : h[i] = h[k] => i = k
    <3>1. \A i \in T : i # n + 1 => i \in 1 .. n
      BY <1>6
    <3>2. ASSUME NEW i \in T, NEW k \in T, h[i] = h[k]
          PROVE  (IF i = n + 1 THEN j ELSE q[i]) = (IF k = n + 1 THEN j ELSE q[k])
      BY <3>2
    <3>3. QED
      BY <1>7, <3>1, <3>2
  <2> HIDE DEF h, S, T
  <2>4. h \in Injection(T, S)
    BY <2>2, <2>3 DEF Injection, IsInjective
  <2>5. Cardinality(T) <= Cardinality(S)
    BY <1>8, <2>4, FS_Injection
  <2>6. QED
    BY <2>1, <2>5
<1>10. Cardinality(S) <= QueueSize[p] /\ Cardinality(S) \in Nat /\ QueueSize[p] \in Nat
  BY <1>8, FS_CardinalityType, SchedulerAssumption DEF Enough
<1> HIDE DEF S
<1>11. n < QueueSize[p]
  BY <1>6, <1>9, <1>10
<1>12. QED
  BY <1>2, <1>5, <1>6, <1>11

\* So no exception leaves a fiber.
LEMMA NotFull ==
  ASSUME SchedInv, AsksInv, WaitInv, Enough, ~failed, NEW t \in Threads, NEW f \in Fibers, FiberStep(t, f)
  PROVE  ~failed'
<1>1. CASE \/ CleanupStore(t, f) \/ CleanupClear(t, f)
           \/ Loop(t, f) \/ DequeueIO(t, f) \/ DequeueHigh(t, f) \/ ScanReady(t, f)
           \/ SwitchToReady(t, f) \/ DequeueNormal(t, f) \/ DequeueLow(t, f)
  BY <1>1 DEF CleanupStore, CleanupClear, Loop, DequeueIO, DequeueHigh, ScanReady,
     SwitchToReady, DequeueNormal, DequeueLow, Dequeue, programVars
<1>2. CASE \/ ScheduleCount(t, f) \/ ScheduleUncounted(t, f)
           \/ WaitNot(t, f) \/ WaitForCounter(t, f) \/ WaitDone(t, f)
           \/ WaitLeaves(t, f) \/ WaitSwitches(t, f)
  BY <1>2 DEF ScheduleCount, ScheduleUncounted, WaitNot, WaitForCounter, WaitDone, WaitLeaves,
     WaitSwitches, programVars
<1>3. CASE \/ BlockingWaits(t, f) \/ LookAgain(t, f) \/ CvWait(t, f) \/ Notify(t, f) \/ CvReturns(t, f)
           \/ NewCounter(t, f) \/ ChangeQueue(t, f) \/ QueueSteps(t, f)
  BY <1>3 DEF BlockingWaits, LookAgain, CvWait, Notify, CvReturns, NewCounter, ChangeQueue,
     QueueSteps, programVars
<1>4. CASE \/ Shutdown(t, f) \/ ShutdownJoins(t, f)
           \/ Finish(t, f) \/ Executed(t, f) \/ MainEnds(t, f) \/ MainLeaves(t, f)
           \/ Ready(t, f) \/ InCounter(t, f)
  BY <1>4 DEF Shutdown, ShutdownJoins, Finish, Executed, MainEnds, MainLeaves, Ready,
     InCounter, programVars, schedVars
<1>5. CASE ScheduleJob(t, f)
  <2>1. On(f, "enqueue")
    BY <1>5 DEF ScheduleJob
  <2>2. Len(queue[Submitted(f).prio]) < QueueSize[Submitted(f).prio]
    BY <2>1, EnoughRoom
  <2>3. QED
    BY <1>5, <2>2 DEF ScheduleJob
<1>6. ~WaitThrows(t, f)
  BY DEF WaitThrows, At, WaitInv, InCall, CallFits
<1>7. QED
  BY <1>1, <1>2, <1>3, <1>4, <1>5, <1>6 DEF FiberStep

LEMMA NeverFullNext ==
  ASSUME SchedInv, AsksInv, WaitInv, NeverFull, [Next]_vars
  PROVE  AsksInv' /\ NeverFull'
<1>0. TypeOK /\ FramesOK /\ JobInv /\ TypeInv
  BY DEF SchedInv, TypeInv, TypeOK, FramesOK
<1>1. ASSUME UNCHANGED <<fiberVars, programVars>>
      PROVE  AsksInv' /\ NeverFull'
  <2>1. UNCHANGED <<program, failed>>
    BY <1>1 DEF programVars
  <2>2. NeverFull'
    <3>1. Enough' <=> Enough
      BY <2>1 DEF Enough, Submissions, AllOps, WaitsOn
    <3>2. QED
      BY <2>1, <3>1 DEF NeverFull
  <2>3. QED
    BY <1>1, <2>2, AsksStays
<1>2. CASE UNCHANGED vars
  BY <1>1, <1>2 DEF vars, schedVars
<1>3. ASSUME NEW t \in Threads, StartThread(t) \/ Run(t)
      PROVE  AsksInv' /\ NeverFull'
  BY <1>1, <1>3 DEF StartThread, Run
<1>4. ASSUME NEW t \in Threads, ~failed, running[t] # NoFiber, FiberStep(t, running[t])
      PROVE  AsksInv' /\ NeverFull'
  <2>1. PICK f \in Fibers : f = running[t]
    BY <1>0, <1>4 DEF TypeOK
  <2>2. Moves(f)
    BY <1>0, <1>4, <2>1, StepMoves
  <2>3. UNCHANGED program
    BY <2>2, OthersKeep
  <2>4. Enough' <=> Enough
    BY <2>3 DEF Enough, Submissions, AllOps, WaitsOn
  <2>5. NeverFull'
    BY <1>4, <2>1, <2>4, NotFull DEF NeverFull
  <2>6. QED
    BY <1>0, <2>2, <2>5, AsksStep
<1>5. QED
  BY <1>2, <1>3, <1>4 DEF Next, ThreadStep, Terminated

\* ManagerJobs.cpp:93-95, Counter.cpp:68-103,127: where one code waits for each counter and
\* each cleanup uses the TLS of its own thread, no exception is thrown as long as the
\* queues hold what is scheduled with their priority: a wait always finds a slot.
THEOREM RoomForAll == Spec /\ OneWaiter /\ []SameThread => []NeverFull
<1>1. Init /\ TypeOK => LeftInv /\ WaitInv /\ FromCode /\ AsksInv /\ NeverFull
  BY InitLeft, WaitInit, AsksInit DEF Init, NeverFull
<1>2. /\ SchedInv /\ SchedInv' /\ SameThread /\ [Next]_vars
      /\ LeftInv /\ WaitInv /\ FromCode /\ OneWaiter /\ AsksInv /\ NeverFull
      => LeftInv' /\ WaitInv' /\ FromCode' /\ OneWaiter' /\ AsksInv' /\ NeverFull'
  BY NextLeft, WaitNext, NeverFullNext DEF SchedInv, TypeInv
<1>3. SchedInv => TypeOK
  BY DEF SchedInv, TypeInv
<1>4. QED
  BY <1>1, <1>2, <1>3, SchedulerInvariant, PTL DEF Spec

\* With main's thread as the only worker the same holds where the IO thread has started
\* before a fiber is left in GetNextJob.
THEOREM OneWorkerWaits ==
  Spec /\ OnlyMainWorks /\ IOJobsStay /\ OneWaiter /\ []StartedFirst => [](ReadyOnce /\ NeverFull)
<1>1. Spec /\ OnlyMainWorks /\ IOJobsStay /\ []StartedFirst => []SameThread
  BY OneWorkerIsSafe, PTL
<1>2. QED
  BY <1>1, FibersReadyOnce, RoomForAll, PTL
----------------------------------------------------------------------------
(* What a wait for 0 waits for.                                            *)

\* Conditions on the program.  Each counter is used by one code; all waits are for 0 and
\* leave their fiber; the code that constructs a counter again has waited for it since it
\* raised it; and the numbers of a counter are enough to count the jobs.
Raises(op, c) == op.op \in {"schedule", "step", "execute"} /\ op.ctr = c
Unraised(r, i) == \A k \in 1 .. i - 1 : ~Raises(r[k], r[i].ctr)
Cleared(r, i) ==
  \E m \in 1 .. i - 1 :
    /\ r[m].op = "wait" /\ r[m].ctr = r[i].ctr
    /\ \A k \in m + 1 .. i - 1 : ~Raises(r[k], r[i].ctr)

CountersOwned == \A x, y \in Code, c \in Counters : Uses(x, c) /\ Uses(y, c) => x = y
PlainWaits == \A op \in AllOps : op.op # "blockingWait" /\ (op.op = "wait" => op.target = 0)
NewsSettled ==
  \A x \in Code : \A i \in DOMAIN program.body[x] :
    program.body[x][i].op = "new" => Cleared(program.body[x], i) \/ Unraised(program.body[x], i)
CountersKept == CountersOwned /\ PlainWaits /\ NewsSettled /\ Cardinality(Jobs) < UnitMod

\* The jobs that have raised c and not lowered it: those that are with the Manager, and
\* the one whose ScheduleJob is between the increment and the queue.
Held(f, c, j) ==
  /\ fpc[f] = "enqueue" /\ frame[f].op.op = "schedule"
  /\ frame[f].op.ctr = c /\ frame[f].op.job = j
Live(c) ==
  {j \in Jobs : jobCounter[j] = c /\ status[j] \in {"queued", "started"}}
    \cup {j \in Jobs : \E f \in Fibers : Held(f, c, j)}
Counted == \A c \in Counters : counter[c] = Cardinality(Live(c))

\* A step with nothing to do with them.
HeldSame(f) == \A c \in Counters : \A j : Held(f, c, j)' <=> Held(f, c, j)
Takes1(f) == \E p \in Prio :
  /\ queue[p] # <<>> /\ status' = [status EXCEPT ![Head(queue[p])] = "started"]
  /\ UNCHANGED <<counter, jobCounter>> /\ HeldSame(f)
LeavesLive(f) == UNCHANGED <<counter, jobCounter, status>> /\ HeldSame(f)

\* What a step is to the jobs a counter counts.
LEMMA LiveKinds ==
  ASSUME TypeInv, NEW t \in Threads, NEW f \in Fibers, running[t] = f, FiberStep(t, f)
  PROVE  \/ ScheduleCount(t, f) \/ ScheduleJob(t, f) \/ Finish(t, f) \/ NewCounter(t, f)
         \/ Takes1(f) \/ LeavesLive(f)
<1>0. /\ fpc \in [Fibers -> FiberPC] /\ frame \in [Fibers -> Frame] /\ FramesOK
      /\ NoCounter \notin Counters
  BY CounterAssumption DEF TypeInv, TypeOK, FramesOK
<1>1. ASSUME fpc[f] # "enqueue", fpc'[f] # "enqueue"
      PROVE  HeldSame(f)
  BY <1>1 DEF HeldSame, Held
<1> USE DEF On, Jump, Starts
<1>2. CASE CleanupStore(t, f) \/ CleanupClear(t, f)
  <2>1. fpc[f] # "enqueue" /\ fpc'[f] # "enqueue" /\ UNCHANGED <<counter, jobCounter, status>>
    BY <1>0, <1>2 DEF CleanupStore, CleanupClear, CleanupEnds, AfterCleanup, Clearing, counterVars, programVars
  <2>2. QED
    BY <1>1, <2>1 DEF LeavesLive
<1>3. CASE Loop(t, f) \/ ScanReady(t, f) \/ SwitchToReady(t, f)
  <2>1. fpc[f] # "enqueue" /\ fpc'[f] # "enqueue"
    BY <1>0, <1>3 DEF Loop, SwitchBack, NextTurn, ScanReady, ReadyEnds, ReadySkips, ReadyTakes, SwitchToReady
  <2>2. UNCHANGED <<counter, jobCounter, status>>
    BY <1>3 DEF Loop, ScanReady, SwitchToReady, counterVars, programVars
  <2>3. QED
    BY <1>1, <2>1, <2>2 DEF LeavesLive
<1>4. CASE DequeueIO(t, f) \/ DequeueHigh(t, f) \/ DequeueNormal(t, f) \/ DequeueLow(t, f)
  <2>1. PICK p \in Prio, pc \in {"loop", "ready", "low"} : Dequeue(f, p, pc) /\ fpc[f] = p
    BY <1>4 DEF DequeueIO, DequeueHigh, DequeueNormal, DequeueLow, Prio
  <2>2. fpc[f] # "enqueue" /\ fpc'[f] # "enqueue" /\ UNCHANGED <<counter, jobCounter>>
    BY <1>0, <2>1 DEF Dequeue, Prio, counterVars
  <2>3. \/ queue[p] # <<>> /\ status' = [status EXCEPT ![Head(queue[p])] = "started"]
        \/ UNCHANGED status
    BY <2>1 DEF Dequeue
  <2>4. QED
    BY <1>1, <2>2, <2>3 DEF Takes1, LeavesLive
<1>5. CASE ScheduleUncounted(t, f)
  <2>1. /\ UNCHANGED <<counter, jobCounter, status>> /\ fpc[f] = "body"
        /\ NextOp(f).ctr = NoCounter /\ frame' = [frame EXCEPT ![f].op = NextOp(f), ![f].rest = Tail(@)]
    BY <1>5 DEF ScheduleUncounted, Begin, counterVars, programVars
  <2>2. frame'[f].op = NextOp(f)
    BY <1>0, <2>1
  <2>3. QED
    BY <1>0, <2>1, <2>2 DEF LeavesLive, HeldSame, Held
<1>6. CASE LookAgain(t, f)
  <2>1. frame[f].op.op = "blockingWait" /\ fpc[f] = "lookAgain"
    BY <1>0, <1>6, FrameFields DEF LookAgain, JobAt, OpAt
  <2>2. UNCHANGED <<counter, jobCounter, status>> /\ (fpc'[f] = "enqueue" => frame' = frame)
    BY <1>0, <1>6 DEF LookAgain, counterVars, programVars
  <2>3. QED
    BY <2>1, <2>2 DEF LeavesLive, HeldSame, Held
<1>7. CASE \/ WaitNot(t, f) \/ WaitForCounter(t, f) \/ WaitDone(t, f) \/ WaitThrows(t, f)
           \/ WaitLeaves(t, f) \/ WaitSwitches(t, f)
  <2>1. fpc[f] # "enqueue" /\ fpc'[f] # "enqueue"
    BY <1>0, <1>7 DEF WaitNot, WaitForCounter, WaitDone, WaitThrows, WaitLeaves, WaitSwitches, fiberVars
  <2>2. UNCHANGED <<counter, jobCounter, status>>
    BY <1>7 DEF WaitNot, WaitForCounter, StartAdd, WaitDone, WaitThrows, WaitLeaves, WaitSwitches,
       counterVars, programVars
  <2>3. QED
    BY <1>1, <2>1, <2>2 DEF LeavesLive
<1>8. CASE \/ BlockingWaits(t, f) \/ CvWait(t, f) \/ Notify(t, f) \/ CvReturns(t, f)
           \/ ChangeQueue(t, f) \/ QueueSteps(t, f) \/ Shutdown(t, f) \/ ShutdownJoins(t, f)
  <2>1. fpc[f] # "enqueue" /\ fpc'[f] # "enqueue"
    BY <1>0, <1>8 DEF BlockingWaits, CvWait, Notify, CvReturns, ChangeQueue, QueueSteps, Shutdown, ShutdownJoins
  <2>2. UNCHANGED <<counter, jobCounter, status>>
    BY <1>8 DEF BlockingWaits, CvWait, Notify, CvReturns, ChangeQueue, QueueSteps, Shutdown, ShutdownJoins,
       counterVars, programVars
  <2>3. QED
    BY <1>1, <2>1, <2>2 DEF LeavesLive
<1>9. CASE Executed(t, f) \/ MainEnds(t, f) \/ MainLeaves(t, f)
  <2>1. fpc[f] # "enqueue" /\ fpc'[f] # "enqueue"
    BY <1>0, <1>9 DEF Executed, MainEnds, AtEnd, SwitchBack, MainLeaves
  <2>2. UNCHANGED <<counter, jobCounter, status>>
    BY <1>9 DEF Executed, MainEnds, MainLeaves, counterVars, programVars
  <2>3. QED
    BY <1>1, <2>1, <2>2 DEF LeavesLive
<1>10. CASE Ready(t, f) \/ InCounter(t, f)
  <2>1. UNCHANGED <<fpc, frame, jobCounter, status>>
    BY <1>10 DEF Ready, InCounter, fiberVars, programVars, schedVars
  <2>2. UNCHANGED counter
    BY <1>10 DEF Ready, CheckAcquire, InCounter, CounterStep, CheckFree, CheckInUse, CheckTarget,
       CheckAcquireFails, CheckRelease, AddTake, AddStore, AddLoad, AddInUse, AddTarget, AddAcquire,
       AddRelease
  <2>3. QED
    BY <2>1, <2>2 DEF LeavesLive, HeldSame, Held
<1>11. QED
  BY <1>2, <1>3, <1>4, <1>5, <1>6, <1>7, <1>8, <1>9, <1>10 DEF FiberStep

\* What the other fibers hold stays theirs.
LEMMA HeldElse ==
  ASSUME TypeInv, LeftInv, WaitInv, NEW t \in Threads, NEW f \in Fibers, running[t] = f, FiberStep(t, f),
         NEW g \in Fibers, g # f, NEW c, NEW j
  PROVE  Held(g, c, j)' <=> Held(g, c, j)
<1>1. Elsewhere(t, f) /\ Alone(f) /\ TypeOK
  BY StepPlaces, OpsKept DEF TypeInv
<1>2. frame'[g] = frame[g] /\ (fpc'[g] = fpc[g] \/ Woken(g))
  BY <1>1 DEF Elsewhere, Alone
<1>3. QED
  BY <1>2 DEF Held, Woken

\* A job that is held is new, and nobody else asks for it.
LEMMA HeldNew ==
  ASSUME FramesOK, Once, NEW f \in Fibers, NEW c, NEW j, Held(f, c, j)
  PROVE  /\ j \in Jobs /\ status[j] = "new"
         /\ [in |-> "fiber", of |-> f, at |-> 1] \in Places
         /\ Asks([in |-> "fiber", of |-> f, at |-> 1], j)
<1>1. /\ frame[f].op # NoOp /\ frame[f].op \in Op /\ frame[f].op.op = "schedule"
      /\ frame[f].op.job = j
  BY FrameFields, NoOpIsNone DEF Held, JobAt, Within
<1>2. j \in Jobs /\ AsksFor(frame[f].op, j)
  BY <1>1, OpTypes, AsksWhat
<1>3. Faces(f, {"schedule", "blockingWait", "add"}) /\ Head(Remaining(f)) = frame[f].op
  BY <1>1, RemainingIs DEF Faces
<1>4. Phase(f) = "on"
  BY DEF Phase, Held
<1>5. QED
  BY <1>2, <1>3, <1>4, FirstIsNew

LEMMA HeldOnce ==
  ASSUME FramesOK, Once, NEW f \in Fibers, NEW g \in Fibers, NEW c, NEW j, Held(g, c, j),
         [in |-> "fiber", of |-> f, at |-> 1] \in Places,
         Asks([in |-> "fiber", of |-> f, at |-> 1], j)
  PROVE  f = g
<1>1. /\ j \in Jobs /\ [in |-> "fiber", of |-> g, at |-> 1] \in Places
      /\ Asks([in |-> "fiber", of |-> g, at |-> 1], j)
  BY HeldNew
<1>2. [in |-> "fiber", of |-> f, at |-> 1] = [in |-> "fiber", of |-> g, at |-> 1]
  BY <1>1 DEF Once
<1>3. QED
  BY <1>2

\* The jobs that are counted are finitely many.
LEMMA LiveFinite ==
  ASSUME NEW c, \A f \in Fibers : \A j : Held(f, c, j) => j \in Jobs
  PROVE  /\ IsFiniteSet(Live(c)) /\ Cardinality(Live(c)) \in Nat
         /\ Cardinality(Live(c)) <= Cardinality(Jobs) /\ Cardinality(Jobs) \in Nat
<1>1. Live(c) \subseteq Jobs
  BY DEF Live
<1>2. QED
  BY <1>1, SchedulerAssumption, FS_Subset, FS_CardinalityType

LEMMA LiveSame ==
  ASSUME TypeInv, LeftInv, WaitInv, NEW t \in Threads, NEW f \in Fibers, running[t] = f, FiberStep(t, f),
         HeldSame(f), UNCHANGED <<jobCounter, counter>>,
         \A j \in Jobs : status'[j] \in {"queued", "started"} <=> status[j] \in {"queued", "started"},
         Counted
  PROVE  Counted'
<1>1. \A g \in Fibers, c \in Counters : \A j : Held(g, c, j)' <=> Held(g, c, j)
  BY HeldElse DEF HeldSame
<1>2. ASSUME NEW c \in Counters PROVE Live(c)' = Live(c)
  BY <1>1, <1>2 DEF Live
<1>3. QED
  BY <1>2 DEF Counted

\* A job is counted when its counter goes up,
LEMMA CountedUp ==
  ASSUME SchedInv, LeftInv, WaitInv, NEW t \in Threads, NEW f \in Fibers, running[t] = f,
         ScheduleCount(t, f), Counted, Cardinality(Jobs) < UnitMod
  PROVE  /\ Counted'
         /\ \A c \in Counters : c # NextOp(f).ctr => counter'[c] = counter[c]
         /\ NextOp(f).ctr \in Counters
         /\ counter'[NextOp(f).ctr] = counter[NextOp(f).ctr] + 1
<1>0. /\ TypeInv /\ TypeOK /\ FramesOK /\ JobInv /\ Once
      /\ fpc \in [Fibers -> FiberPC] /\ frame \in [Fibers -> Frame] /\ counter \in [Counters -> Unit]
  BY DEF SchedInv, TypeInv, TypeOK, FramesOK, CounterTypeOK, JobInv
<1>1. PICK op : op = NextOp(f)
  OBVIOUS
<1>2. /\ fpc[f] = "body" /\ frame[f].rest # <<>> /\ op.op = "schedule" /\ op.ctr # NoCounter
      /\ counter' = [counter EXCEPT ![op.ctr] = (counter[op.ctr] + 1) % UnitMod]
      /\ frame' = [frame EXCEPT ![f].op = op, ![f].rest = Tail(@)]
      /\ fpc' = [fpc EXCEPT ![f] = "enqueue"]
      /\ UNCHANGED <<jobCounter, status>>
  BY <1>1 DEF ScheduleCount, Starts, On, Increment, StartCheck, Begin, Jump, programVars
<1>3. op \in Op /\ op.ctr \in Counters /\ op.job \in Jobs
  BY <1>0, <1>1, <1>2, NextOpTypes, OpTypes
<1>4. /\ fpc'[f] = "enqueue" /\ frame'[f].op = op
  BY <1>0, <1>2
<1>5. FiberStep(t, f)
  BY DEF FiberStep
<1>6. \A g \in Fibers, c \in Counters : \A j :
        Held(g, c, j)' <=> IF g = f THEN c = op.ctr /\ j = op.job ELSE Held(g, c, j)
  <2>1. \A c, j : Held(f, c, j)' <=> c = op.ctr /\ j = op.job
    BY <1>2, <1>4 DEF Held
  <2>2. QED
    BY <1>0, <1>5, <2>1, HeldElse
<1>7. \A c, j : ~Held(f, c, j)
  BY <1>2 DEF Held
<1>8. ASSUME NEW c \in Counters
      PROVE  Live(c)' = IF c = op.ctr THEN Live(c) \cup {op.job} ELSE Live(c)
  BY <1>2, <1>3, <1>6, <1>7, <1>8 DEF Live
<1>9. op.job \notin Live(op.ctr)
  <2>1. frame[f].op = NoOp
    BY <1>0, <1>2, FrameFields DEF JobAt, Within
  <2>2. /\ Faces(f, {"schedule", "blockingWait", "add"}) /\ Phase(f) = "on"
        /\ Head(Remaining(f)) = op
    BY <1>0, <1>1, <1>2, <2>1, RemainingIs DEF Faces, Phase, NextOp
  <2>3. AsksFor(Head(Remaining(f)), op.job)
    BY <1>2, <1>3, <2>2, AsksWhat
  <2>4. /\ status[op.job] = "new"
        /\ [in |-> "fiber", of |-> f, at |-> 1] \in Places
        /\ Asks([in |-> "fiber", of |-> f, at |-> 1], op.job)
    BY <1>0, <1>3, <2>2, <2>3, FirstIsNew
  <2>5. \A g \in Fibers : ~Held(g, op.ctr, op.job)
    BY <1>0, <1>7, <2>4, HeldOnce
  <2>6. QED
    BY <2>4, <2>5 DEF Live
<1>10. /\ IsFiniteSet(Live(op.ctr)) /\ Cardinality(Live(op.ctr)) \in Nat
       /\ Cardinality(Live(op.ctr) \cup {op.job}) = Cardinality(Live(op.ctr)) + 1
       /\ Cardinality(Live(op.ctr) \cup {op.job}) <= Cardinality(Jobs)
       /\ Cardinality(Jobs) \in Nat
  <2>1. Live(op.ctr) \cup {op.job} \subseteq Jobs
    BY <1>3 DEF Live
  <2>2. IsFiniteSet(Live(op.ctr)) /\ Cardinality(Live(op.ctr)) \in Nat
    BY <1>0, HeldNew, LiveFinite
  <2>3. QED
    BY <1>9, <2>1, <2>2, SchedulerAssumption, FS_AddElement, FS_Subset, FS_CardinalityType
<1>11. counter'[op.ctr] = counter[op.ctr] + 1
  <2>0. /\ counter[op.ctr] = Cardinality(Live(op.ctr)) /\ counter[op.ctr] \in Nat
        /\ counter[op.ctr] + 1 <= Cardinality(Jobs)
    BY <1>3, <1>10 DEF Counted
  <2>1. PICK n \in Nat : n = counter[op.ctr] + 1 /\ n < UnitMod
    BY <1>10, <2>0, CounterAssumption
  <2>2. n % UnitMod = n
    BY <2>1, CounterAssumption
  <2>3. QED
    BY <1>0, <1>2, <1>3, <2>1, <2>2
<1>12. \A c \in Counters : c # op.ctr => counter'[c] = counter[c]
  BY <1>0, <1>2
<1>13. Counted'
  BY <1>3, <1>8, <1>10, <1>11, <1>12 DEF Counted
<1>14. QED
  BY <1>1, <1>3, <1>11, <1>12, <1>13

\* stays so while it is put in its queue,
LEMMA CountedQueued ==
  ASSUME SchedInv, LeftInv, WaitInv, NEW t \in Threads, NEW f \in Fibers, running[t] = f,
         ScheduleJob(t, f), Counted
  PROVE  Counted' /\ UNCHANGED counter
<1>0. /\ TypeInv /\ TypeOK /\ FramesOK /\ JobInv /\ Once
      /\ fpc \in [Fibers -> FiberPC] /\ frame \in [Fibers -> Frame] /\ counter \in [Counters -> Unit]
      /\ jobCounter \in [Jobs -> Counters \cup {NoCounter}]
      /\ status \in [Jobs -> {"new", "queued", "started", "done"}]
      /\ NoCounter \notin Counters
  BY CounterAssumption DEF SchedInv, TypeInv, TypeOK, FramesOK, CounterTypeOK, JobInv
<1>1. PICK s : s = Submitted(f)
  OBVIOUS
<1>2. UNCHANGED counter /\ FiberStep(t, f) /\ fpc[f] = "enqueue"
  BY DEF ScheduleJob, FiberStep, counterVars, On
<1>3. CASE UNCHANGED <<jobCounter, status, fpc, frame>>
  <2>1. HeldSame(f)
    BY <1>3 DEF HeldSame, Held
  <2>2. QED
    BY <1>0, <1>2, <1>3, <2>1, LiveSame
<1>4. CASE /\ jobCounter' = [jobCounter EXCEPT ![s.job] = s.ctr]
           /\ status' = [status EXCEPT ![s.job] = "queued"]
           /\ IF s = frame[f].op THEN End(f) /\ Jump(f, "body")
                                 ELSE Jump(f, "cvEnter") /\ UNCHANGED frame
  <2>1. fpc'[f] # "enqueue"
    BY <1>0, <1>4 DEF Jump
  <2>2. /\ frame[f].op \in Op /\ frame[f].op.op \in {"schedule", "blockingWait"}
        /\ Faces(f, {"schedule", "blockingWait", "add"}) /\ Head(Remaining(f)) = frame[f].op
        /\ Phase(f) = "on"
    BY <1>0, <1>2, FrameFields, RemainingIs DEF JobAt, OpAt, Within, Faces, Phase
  <2>3. /\ s.job \in Jobs /\ s.ctr \in Counters \cup {NoCounter}
        /\ AsksFor(frame[f].op, s.job)
        /\ \A c \in Counters : \A j : Held(f, c, j) <=> c = s.ctr /\ j = s.job
    <3>1. CASE frame[f].op.op = "schedule"
      <4>1. s = frame[f].op
        BY <1>1, <3>1 DEF Submitted, CurOp
      <4>2. QED
        BY <1>2, <2>2, <3>1, <4>1, OpTypes, AsksWhat DEF Held
    <3>2. CASE frame[f].op.op = "blockingWait"
      <4>1. s.job = frame[f].op.proxy /\ s.ctr = NoCounter
        BY <1>1, <3>2 DEF Submitted, CurOp, Schedule
      <4>2. QED
        BY <1>0, <2>2, <3>2, <4>1, OpTypes, AsksWhat DEF Held
    <3>3. QED
      BY <2>2, <3>1, <3>2
  <2>4. /\ status[s.job] = "new"
        /\ [in |-> "fiber", of |-> f, at |-> 1] \in Places
        /\ Asks([in |-> "fiber", of |-> f, at |-> 1], s.job)
    BY <1>0, <2>2, <2>3, FirstIsNew
  <2>5. \A g \in Fibers, c \in Counters : Held(g, c, s.job) => g = f
    BY <1>0, <2>4, HeldOnce
  <2>6. \A g \in Fibers, c \in Counters : \A j : Held(g, c, j)' <=> g # f /\ Held(g, c, j)
    <3>1. \A c, j : ~Held(f, c, j)'
      BY <2>1 DEF Held
    <3>2. QED
      BY <1>0, <1>2, <3>1, HeldElse
  <2>7. \A j \in Jobs : /\ jobCounter'[j] = IF j = s.job THEN s.ctr ELSE jobCounter[j]
                        /\ status'[j] = IF j = s.job THEN "queued" ELSE status[j]
    BY <1>0, <1>4, <2>3
  <2>8. ASSUME NEW c \in Counters PROVE Live(c)' = Live(c)
    <3>1. ASSUME NEW j \in Jobs
          PROVE  (\/ jobCounter'[j] = c /\ status'[j] \in {"queued", "started"}
                  \/ \E g \in Fibers : Held(g, c, j)')
             <=> (\/ jobCounter[j] = c /\ status[j] \in {"queued", "started"}
                  \/ \E g \in Fibers : Held(g, c, j))
      <4>1. CASE j = s.job
        <5>1. status[j] = "new" /\ jobCounter'[j] = s.ctr /\ status'[j] = "queued"
          BY <2>4, <2>7, <4>1
        <5>2. (\E g \in Fibers : Held(g, c, j)) <=> c = s.ctr
          BY <2>3, <2>5, <4>1
        <5>3. ~\E g \in Fibers : Held(g, c, j)'
          BY <2>5, <2>6, <4>1
        <5>4. QED
          BY <5>1, <5>2, <5>3
      <4>2. CASE j # s.job
        <5>1. status'[j] = status[j] /\ jobCounter'[j] = jobCounter[j]
          BY <2>7, <4>2
        <5>2. \A g \in Fibers : Held(g, c, j)' <=> Held(g, c, j)
          BY <2>3, <2>6, <4>2
        <5>3. QED
          BY <5>1, <5>2
      <4>3. QED
        BY <4>1, <4>2
    <3>2. QED
      BY <3>1 DEF Live
  <2>9. QED
    BY <1>2, <2>8 DEF Counted
<1>5. QED
  BY <1>1, <1>3, <1>4 DEF ScheduleJob, CurOp

\* and is counted no more when its counter goes down.
LEMMA CountedDown ==
  ASSUME SchedInv, LeftInv, WaitInv, NEW t \in Threads, NEW f \in Fibers, running[t] = f,
         Finish(t, f), Counted, Cardinality(Jobs) < UnitMod
  PROVE  /\ Counted' /\ frame[f].job \in Jobs
         /\ \A c \in Counters : counter'[c] # counter[c] =>
              c = jobCounter[frame[f].job] /\ counter[c] # 0 /\ counter'[c] = counter[c] - 1
<1>0. /\ TypeInv /\ TypeOK /\ FramesOK /\ JobInv /\ Once /\ RunStatus
      /\ fpc \in [Fibers -> FiberPC] /\ frame \in [Fibers -> Frame] /\ counter \in [Counters -> Unit]
      /\ jobCounter \in [Jobs -> Counters \cup {NoCounter}]
      /\ status \in [Jobs -> {"new", "queued", "started", "done"}]
      /\ NoCounter \notin Counters
  BY CounterAssumption DEF SchedInv, TypeInv, TypeOK, FramesOK, CounterTypeOK, JobInv
<1>1. PICK j \in Jobs : j = frame[f].job
  BY <1>0, FrameFields DEF Finish, AtEnd, On, JobAt, Executing, Code
<1>2. /\ FiberStep(t, f) /\ fpc[f] = "body" /\ fpc' = [fpc EXCEPT ![f] = "end"]
      /\ status' = [status EXCEPT ![j] = "done"] /\ UNCHANGED <<jobCounter, frame>>
      /\ IF jobCounter[j] = NoCounter THEN UNCHANGED counter
         ELSE counter' = [counter EXCEPT ![jobCounter[j]] = (counter[jobCounter[j]] - 1) % UnitMod]
  BY <1>1 DEF Finish, FiberStep, AtEnd, On, Jump, Decrement, StartCheck, counterVars
<1>3. status[j] = "started"
  BY <1>0, <1>1, <1>2 DEF RunStatus, Phase
<1>4. HeldSame(f)
  BY <1>0, <1>2 DEF HeldSame, Held
<1>5. \A g \in Fibers, c \in Counters : \A k : Held(g, c, k)' <=> Held(g, c, k)
  BY <1>0, <1>2, <1>4, HeldElse DEF HeldSame
<1>6. \A g \in Fibers : \A c : ~Held(g, c, j)
  BY <1>0, <1>3, HeldNew
<1>7. ASSUME NEW c \in Counters
      PROVE  Live(c)' = IF c = jobCounter[j] THEN Live(c) \ {j} ELSE Live(c)
  <2>1. \A k \in Jobs : status'[k] = IF k = j THEN "done" ELSE status[k]
    BY <1>0, <1>2
  <2>2. QED
    BY <1>2, <1>5, <1>6, <2>1 DEF Live
<1>8. ASSUME NEW c \in Counters
      PROVE  IsFiniteSet(Live(c)) /\ counter[c] = Cardinality(Live(c)) /\ counter[c] \in Nat
             /\ counter[c] <= Cardinality(Jobs) /\ Cardinality(Jobs) \in Nat
  BY <1>0, HeldNew, LiveFinite DEF Counted
<1>9. CASE jobCounter[j] = NoCounter
  BY <1>0, <1>1, <1>2, <1>7, <1>9 DEF Counted
<1>10. CASE jobCounter[j] # NoCounter
  <2>1. PICK c \in Counters : c = jobCounter[j]
    BY <1>0, <1>10
  <2>2. j \in Live(c)
    BY <1>3, <2>1 DEF Live
  <2>3. Cardinality(Live(c) \ {j}) = counter[c] - 1 /\ counter[c] # 0
    <3>1. Cardinality(Live(c) \ {j}) = Cardinality(Live(c)) - 1
      BY <1>8, <2>2, FS_RemoveElement
    <3>2. Cardinality(Live(c) \ {j}) \in Nat
      BY <1>8, FS_RemoveElement, FS_CardinalityType
    <3>3. QED
      BY <1>8, <3>1, <3>2
  <2>4. counter'[c] = counter[c] - 1
    <3>1. PICK n \in Nat : n = counter[c] - 1 /\ n < UnitMod
      BY <1>8, <2>3, CounterAssumption
    <3>2. n % UnitMod = n
      BY <3>1, CounterAssumption
    <3>3. counter'[c] = (counter[c] - 1) % UnitMod
      BY <1>0, <1>2, <1>10, <2>1
    <3>4. QED
      BY <3>1, <3>2, <3>3
  <2>5. \A d \in Counters : d # c => counter'[d] = counter[d]
    BY <1>0, <1>2, <1>10, <2>1
  <2>6. Counted'
    <3>1. ASSUME NEW d \in Counters PROVE counter'[d] = Cardinality(Live(d)')
      <4>1. CASE d = c
        BY <1>7, <2>1, <2>3, <2>4, <4>1
      <4>2. CASE d # c
        BY <1>7, <1>8, <2>1, <2>5, <4>2
      <4>3. QED
        BY <4>1, <4>2
    <3>2. QED
      BY <3>1 DEF Counted
  <2>7. QED
    BY <1>1, <2>1, <2>3, <2>4, <2>5, <2>6
<1>11. QED
  BY <1>9, <1>10

\* A counter that is to be constructed again is 0, or will have been waited for.
NewFits(r, i) == r[i].op = "new" => Cleared(r, i) \/ (Unraised(r, i) /\ counter[r[i].ctr] = 0)
NewSafe == \A f \in Fibers : \A i \in DOMAIN Remaining(f) : NewFits(Remaining(f), i)

LEMMA NewIsZero ==
  ASSUME FramesOK, NewSafe, NEW f \in Fibers, Starts(f, "new")
  PROVE  counter[NextOp(f).ctr] = 0
<1>1. frame[f].op = NoOp /\ frame[f].rest # <<>> /\ NextOp(f).op = "new" /\ NextOp(f) = Head(frame[f].rest)
  BY FrameFields DEF Starts, On, JobAt, Within, NextOp
<1>2. PICK r \in Seq(Op) : r = Remaining(f) /\ r # <<>> /\ Head(r) = NextOp(f) /\ r[1] = NextOp(f) /\ 1 \in DOMAIN r
  BY <1>1, RemainingIs, TailPlaces
<1>3. NewFits(r, 1)
  BY <1>2 DEF NewSafe
<1>4. ~Cleared(r, 1)
  BY DEF Cleared
<1>5. QED
  BY <1>1, <1>2, <1>3, <1>4 DEF NewFits

\* A counter counts its jobs, and leaves 0 only when a job is scheduled with it.
LEMMA CountedStep ==
  ASSUME SchedInv, LeftInv, WaitInv, NEW t \in Threads, NEW f \in Fibers, running[t] = f,
         FiberStep(t, f), Counted, NewSafe, Cardinality(Jobs) < UnitMod
  PROVE  /\ Counted'
         /\ \A c \in Counters : counter[c] = 0 /\ counter'[c] # 0 =>
              ScheduleCount(t, f) /\ c = NextOp(f).ctr
<1>0. /\ TypeInv /\ TypeOK /\ FramesOK /\ JobInv
      /\ fpc \in [Fibers -> FiberPC] /\ frame \in [Fibers -> Frame] /\ counter \in [Counters -> Unit]
      /\ status \in [Jobs -> {"new", "queued", "started", "done"}]
  BY DEF SchedInv, TypeInv, TypeOK, FramesOK, CounterTypeOK
<1>1. CASE ScheduleCount(t, f)
  BY <1>1, CountedUp
<1>2. CASE ScheduleJob(t, f)
  BY <1>2, CountedQueued
<1>3. CASE Finish(t, f)
  BY <1>3, CountedDown
<1>4. CASE NewCounter(t, f)
  <2>1. counter' = [counter EXCEPT ![NextOp(f).ctr] = 0] /\ UNCHANGED <<fpc, jobCounter, status>>
        /\ Starts(f, "new") /\ fpc[f] = "body"
    BY <1>4 DEF NewCounter, Starts, On, programVars
  <2>2. counter' = counter
    BY <1>0, <2>1, NewIsZero
  <2>3. HeldSame(f)
    BY <2>1 DEF HeldSame, Held
  <2>4. QED
    BY <1>0, <2>1, <2>2, <2>3, LiveSame
<1>5. CASE Takes1(f)
  <2>1. PICK p \in Prio : /\ queue[p] # <<>> /\ status' = [status EXCEPT ![Head(queue[p])] = "started"]
                          /\ UNCHANGED <<counter, jobCounter>> /\ HeldSame(f)
    BY <1>5 DEF Takes1
  <2>2. status[Head(queue[p])] = "queued"
    BY <1>0, <2>1, TakenQueued DEF JobInv
  <2>3. \A j \in Jobs : status'[j] \in {"queued", "started"} <=> status[j] \in {"queued", "started"}
    BY <1>0, <2>1, <2>2
  <2>4. QED
    BY <1>0, <2>1, <2>3, LiveSame
<1>6. CASE LeavesLive(f)
  BY <1>0, <1>6, LiveSame DEF LeavesLive
<1>7. QED
  BY <1>0, <1>1, <1>2, <1>3, <1>4, <1>5, <1>6, LiveKinds

\* A counter is used by the fiber of one code,
LEMMA OneUser ==
  ASSUME FramesOK, JobInv, FromCode, CountersOwned, NEW f \in Fibers, NEW g \in Fibers,
         NEW i \in DOMAIN Remaining(f), NEW k \in DOMAIN Remaining(g), NEW c \in Counters,
         Remaining(f)[i].op \in OnCounter, Remaining(f)[i].ctr = c,
         Remaining(g)[k].op \in OnCounter, Remaining(g)[k].ctr = c
  PROVE  f = g
<1>1. Uses(frame[f].job, c) /\ Uses(frame[g].job, c)
  BY DEF FromCode, OfCode
<1>2. ASSUME NEW h \in Fibers, NEW n \in DOMAIN Remaining(h)
      PROVE  frame[h].job \in Code
  <2>1. Remaining(h) # <<>>
    BY <1>2
  <2>2. QED
    BY <2>1, FacesTypes DEF Faces
<1>3. frame[f].job \in Code /\ frame[g].job \in Code
  BY <1>2
<1>4. frame[f].job = frame[g].job
  BY <1>1, <1>3 DEF CountersOwned
<1>5. QED
  BY <1>3, <1>4, SchedulerAssumption DEF JobInv, OneRun

\* by the one that waits for it
LEMMA WaitsUses ==
  ASSUME FramesOK, NEW f \in Fibers, frame[f].op.op = "wait"
  PROVE  /\ 1 \in DOMAIN Remaining(f) /\ Remaining(f)[1] = frame[f].op
         /\ frame[f].op.ctr \in Counters /\ frame[f].op.op \in OnCounter
         /\ frame[f].op \in Op /\ frame[f].op # NoOp
         /\ fpc[f] \in {"adding", "find", "inWait", "inWaitClear"}
<1>1. frame[f].op # NoOp
  BY NoOpIsNone
<1>2. Faces(f, {"wait"}) /\ Head(Remaining(f)) = frame[f].op
  BY <1>1, RemainingIs DEF Faces
<1>3. 1 \in DOMAIN Remaining(f) /\ Remaining(f)[1] = frame[f].op /\ frame[f].op \in Op
  BY <1>2, FacesTypes
<1>4. JobAt(fpc[f], frame[f])
  BY FrameFields
<1>5. fpc[f] \in {"adding", "find", "inWait", "inWaitClear"}
  BY <1>1, <1>4 DEF JobAt, OpAt, Within
<1>6. QED
  BY <1>1, <1>3, <1>5, OpTypes DEF OnCounter, Waits

\* and by the one that is about to do something with it.
LEMMA NextUses ==
  ASSUME TypeOK, FramesOK, NEW f \in Fibers, On(f, "body"), frame[f].rest # <<>>
  PROVE  /\ 1 \in DOMAIN Remaining(f) /\ Remaining(f)[1] = NextOp(f) /\ NextOp(f) \in Op
         /\ frame[f].op = NoOp /\ Remaining(f) = frame[f].rest /\ Remaining(f) # <<>>
         /\ Head(Remaining(f)) = NextOp(f)
<1>1. frame[f].op = NoOp
  BY FrameFields DEF On, JobAt, Within
<1>2. Remaining(f) = frame[f].rest
  BY <1>1, RemainingIs
<1>3. Remaining(f) \in Seq(Op) /\ Remaining(f) # <<>> /\ Head(Remaining(f)) = NextOp(f)
  BY <1>2, RemainingIs DEF NextOp
<1>4. QED
  BY <1>1, <1>2, <1>3, NextOpTypes, TailPlaces

\* A counter that is 0 while a fiber waits for it stays 0.
LEMMA ZeroStays ==
  ASSUME SchedInv, LeftInv, WaitInv, FromCode, CountersOwned, NEW t \in Threads, NEW f \in Fibers,
         running[t] = f, FiberStep(t, f), Counted, NewSafe, Cardinality(Jobs) < UnitMod,
         NEW g \in Fibers, frame[g].op.op = "wait", counter[frame[g].op.ctr] = 0
  PROVE  counter'[frame[g].op.ctr] = 0
<1>0. TypeOK /\ FramesOK /\ JobInv
  BY DEF SchedInv, TypeInv, TypeOK, FramesOK
<1>1. PICK c \in Counters : c = frame[g].op.ctr
  BY <1>0, WaitsUses
<1>2. SUFFICES ASSUME counter'[c] # 0 PROVE FALSE
  BY <1>1
<1>3. ScheduleCount(t, f) /\ NextOp(f).ctr = c
  BY <1>1, <1>2, CountedStep
<1>4. On(f, "body") /\ frame[f].rest # <<>> /\ NextOp(f).op \in OnCounter
  BY <1>3 DEF ScheduleCount, Starts, On, OnCounter
<1>5. f = g
  BY <1>0, <1>1, <1>3, <1>4, NextUses, WaitsUses, OneUser
<1>6. QED
  BY <1>0, <1>4, <1>5, WaitsUses DEF On

\* The counters of a job that has not been started are 0.
Untouched == \A x \in Jobs, c \in Counters : status[x] \in {"new", "queued"} /\ Uses(x, c) => counter[c] = 0

\* The counters of a job that has not started stay at 0: only its own code raises them.
LEMMA UntouchedStep ==
  ASSUME SchedInv, LeftInv, WaitInv, FromCode, CountersOwned, NEW t \in Threads, NEW f \in Fibers,
         running[t] = f, FiberStep(t, f), Counted, NewSafe, Cardinality(Jobs) < UnitMod, Untouched
  PROVE  Untouched'
<1>0. TypeOK /\ FramesOK /\ JobInv /\ TypeInv
  BY DEF SchedInv, TypeInv, TypeOK, FramesOK
<1>1. Moves(f)
  BY <1>0, StepMoves
<1>2. UNCHANGED program
  BY <1>1, OthersKeep
<1>3. ASSUME NEW x \in Jobs, NEW c \in Counters, status'[x] \in {"new", "queued"}, Uses(x, c)
      PROVE  counter'[c] = 0
  <2>1. status[x] \in {"new", "queued"} /\ counter[c] = 0
    BY <1>0, <1>1, <1>3, StatusKept DEF Untouched
  <2>2. SUFFICES ASSUME counter'[c] # 0 PROVE FALSE
    OBVIOUS
  <2>3. ScheduleCount(t, f) /\ NextOp(f).ctr = c
    BY <2>1, <2>2, CountedStep
  <2>4. On(f, "body") /\ frame[f].rest # <<>> /\ NextOp(f).op \in OnCounter
    BY <2>3 DEF ScheduleCount, Starts, On, OnCounter
  <2>5. 1 \in DOMAIN Remaining(f) /\ Remaining(f)[1] = NextOp(f) /\ frame[f].job \in Code
    BY <1>0, <2>4, NextUses, FrameFields DEF On, JobAt, Executing
  <2>6. Uses(frame[f].job, c)
    BY <2>3, <2>4, <2>5 DEF FromCode, OfCode
  <2>7. frame[f].job = x
    BY <1>3, <2>5, <2>6 DEF CountersOwned, Code
  <2>8. status[x] \in {"started", "done"}
    BY <1>0, <2>7 DEF JobInv, RunStatus
  <2>9. QED
    BY <2>1, <2>8
<1>4. QED
  BY <1>2, <1>3 DEF Untouched, Uses

\* What a fiber has left to wait for, it waits for to be 0.
PlainLeft == \A f \in Fibers : \A i \in DOMAIN Remaining(f) :
  Remaining(f)[i].op # "blockingWait" /\ (Remaining(f)[i].op = "wait" => Remaining(f)[i].target = 0)

\* A fiber is left with plain waits only.
LEMMA PlainStep ==
  ASSUME TypeOK, FramesOK, JobInv, PlainWaits, PlainLeft, NEW f \in Fibers, Moves(f)
  PROVE  PlainLeft'
<1>0. /\ UNCHANGED program
      /\ \A g \in Fibers : g # f => Remaining(g)' = Remaining(g)
  BY OthersKeep
<1>1. ASSUME NEW op, Unfolded(f, op)
      PROVE  op.op # "blockingWait" /\ (op.op = "wait" => op.target = 0)
  BY <1>1 DEF Unfolded, StepOp, Schedule, Wait
<1>2. ASSUME NEW x \in Code, NEW i \in DOMAIN program.body[x]
      PROVE  /\ program.body[x][i].op # "blockingWait"
             /\ program.body[x][i].op = "wait" => program.body[x][i].target = 0
  BY ProgramOps DEF PlainWaits
<1>3. ASSUME NEW i \in DOMAIN Remaining(f)'
      PROVE  /\ Remaining(f)'[i].op # "blockingWait"
             /\ Remaining(f)'[i].op = "wait" => Remaining(f)'[i].target = 0
  <2>1. CASE \E k \in DOMAIN Remaining(f) : Remaining(f)'[i] = Remaining(f)[k]
    BY <2>1 DEF PlainLeft
  <2>2. CASE Unfolded(f, Remaining(f)'[i])
    BY <1>1, <2>2
  <2>3. CASE /\ frame'[f].job \in Code /\ i \in DOMAIN program.body[frame'[f].job]
             /\ Remaining(f)'[i] = program.body[frame'[f].job][i]
    BY <1>2, <2>3
  <2>4. QED
    BY <2>1, <2>2, <2>3, OpsFrom
<1>4. ASSUME NEW g \in Fibers, NEW i \in DOMAIN Remaining(g)'
      PROVE  /\ Remaining(g)'[i].op # "blockingWait"
             /\ Remaining(g)'[i].op = "wait" => Remaining(g)'[i].target = 0
  <2>1. CASE g = f
    BY <1>3, <1>4, <2>1
  <2>2. CASE g # f
    BY <1>0, <1>4, <2>2 DEF PlainLeft
  <2>3. QED
    BY <2>1, <2>2
<1>5. QED
  BY <1>4 DEF PlainLeft

\* What a step does to the calls: those of the other fibers stay as they are.
Loading == {"addInUse", "addTarget", "addAcquire"}

LEMMA CallMoves ==
  ASSUME TypeInv, NEW t \in Threads, NEW f \in Fibers, running[t] = f, FiberStep(t, f)
  PROVE  /\ \A g \in Fibers : g # f => call'[g] = call[g]
         /\ \/ call'[f].pc \notin Loading
            \/ call'[f] = call[f]
            \/ (AddLoad(f) \/ AddInUse(f) \/ AddTarget(f)) /\ UNCHANGED counter
<1>0. TypeOK /\ call \in [Fibers -> Call]
  BY DEF TypeInv, TypeOK, CounterTypeOK
<1>1. CASE InCounter(t, f)
  <2>1. CASE \/ CheckFree(f) \/ CheckInUse(f) \/ CheckTarget(f) \/ CheckAcquireFails(f) \/ CheckRelease(f)
    BY <1>0, <2>1 DEF CheckFree, CheckInUse, CheckTarget, CheckAcquireFails, CheckRelease, SkipSlot,
       NextSlot, Return, NoCall, Goto, At, Loading, Call
  <2>2. CASE AddTake(f) \/ AddStore(f) \/ AddAcquire(f) \/ AddRelease(f)
    BY <1>0, <2>2 DEF AddTake, AddStore, AddAcquire, AddRelease, NextSlot, Goto, At, Loading, Call
  <2>3. CASE AddLoad(f) \/ AddInUse(f) \/ AddTarget(f)
    BY <1>0, <2>3 DEF AddLoad, AddInUse, AddTarget, Goto, At, Call
  <2>4. QED
    BY <1>1, <2>1, <2>2, <2>3 DEF InCounter, CounterStep
<1>2. CASE Ready(t, f)
  BY <1>0, <1>2 DEF Ready, CheckAcquire, Goto, Call, Loading
<1>3. CASE WaitForCounter(t, f)
  BY <1>0, <1>3 DEF WaitForCounter, StartAdd, NoCall, Call, Loading
<1>4. CASE WaitDone(t, f) \/ WaitThrows(t, f) \/ WaitLeaves(t, f)
  BY <1>0, <1>4 DEF WaitDone, WaitThrows, WaitLeaves, Return, NoCall, Loading
<1>5. CASE Counts(t, f)
  BY <1>0, <1>5 DEF Counts, Increment, Decrement, StartCheck, Call, Loading
<1>6. CASE NewCounter(t, f) \/ Aside(t, f) \/ Resumes(t, f)
  BY <1>6 DEF NewCounter, Aside, Resumes, counterVars
<1>7. QED
  BY <1>1, <1>2, <1>3, <1>4, <1>5, <1>6, StepKinds

\* All targets are 0, and so is the value that has been found to be one.
ZeroTargets ==
  /\ \A s \in Slots : targetValue[s] = 0
  /\ \A f \in Fibers : call[f].target = 0 /\ (call[f].pc = "checkAcquire" => call[f].value = 0)

\* All slots have the target 0, as all waits have.
LEMMA TargetsStep ==
  ASSUME TypeInv, PlainLeft, NEW t \in Threads, NEW f \in Fibers, running[t] = f, FiberStep(t, f), ZeroTargets
  PROVE  ZeroTargets'
<1>0. /\ TypeOK /\ FramesOK /\ call \in [Fibers -> Call] /\ targetValue \in [Slots -> Unit]
      /\ \A g \in Fibers : g # f => call'[g] = call[g]
  BY CallMoves DEF TypeInv, TypeOK, CounterTypeOK, FramesOK
<1>1. SUFFICES /\ \A s \in Slots : targetValue'[s] = 0
               /\ call'[f].target = 0 /\ (call'[f].pc = "checkAcquire" => call'[f].value = 0)
  BY <1>0 DEF ZeroTargets
<1>2. CASE InCounter(t, f)
  <2>1. CASE \/ CheckFree(f) \/ CheckInUse(f) \/ CheckAcquireFails(f) \/ CheckRelease(f)
    BY <1>0, <2>1 DEF CheckFree, CheckInUse, CheckAcquireFails, CheckRelease, SkipSlot,
       NextSlot, Return, NoCall, Goto, At, Call, ZeroTargets, slotVars
  <2>2. CASE AddTake(f) \/ AddAcquire(f) \/ AddRelease(f) \/ AddLoad(f) \/ AddInUse(f) \/ AddTarget(f)
    BY <1>0, <2>2 DEF AddTake, AddAcquire, AddRelease, AddLoad, AddInUse, AddTarget, NextSlot, Goto, At,
       Call, ZeroTargets, slotVars
  <2>3. CASE CheckTarget(f)
    <3>1. call[f].pc = "checkTarget" /\ UNCHANGED targetValue /\ Slot(f) \in Slots
      BY <1>0, <2>3 DEF CheckTarget, At, slotVars, TypeOK, CounterTypeOK, Slots, Slot, Call
    <3>2. targetValue[Slot(f)] = 0
      BY <3>1 DEF ZeroTargets
    <3>3. QED
      BY <1>0, <2>3, <3>1, <3>2 DEF CheckTarget, SkipSlot, NextSlot, Return, NoCall, Goto, Call, ZeroTargets
  <2>4. CASE AddStore(f)
    BY <1>0, <2>4 DEF AddStore, Goto, Call, ZeroTargets
  <2>5. QED
    BY <1>2, <2>1, <2>2, <2>3, <2>4 DEF InCounter, CounterStep
<1>3. CASE Ready(t, f)
  BY <1>0, <1>3 DEF Ready, CheckAcquire, Goto, Call, ZeroTargets
<1>4. CASE WaitForCounter(t, f)
  <2>1. On(f, "body") /\ frame[f].rest # <<>> /\ NextOp(f).op = "wait"
    BY <1>4 DEF WaitForCounter, Starts
  <2>2. NextOp(f).target = 0
    BY <1>0, <2>1, NextUses DEF PlainLeft
  <2>3. QED
    BY <1>0, <1>4, <2>2 DEF WaitForCounter, StartAdd, NoCall, Call, ZeroTargets, slotVars
<1>5. CASE WaitDone(t, f) \/ WaitThrows(t, f) \/ WaitLeaves(t, f)
  BY <1>0, <1>5 DEF WaitDone, WaitThrows, WaitLeaves, Return, NoCall, ZeroTargets, slotVars
<1>6. CASE Counts(t, f)
  BY <1>0, <1>6 DEF Counts, Increment, Decrement, StartCheck, Call, ZeroTargets, slotVars
<1>7. CASE NewCounter(t, f)
  <2>1. UNCHANGED call
    BY <1>7 DEF NewCounter
  <2>2. \A s \in Slots : targetValue'[s] = 0
    BY <1>0, <1>7 DEF NewCounter, ZeroTargets
  <2>3. QED
    BY <2>1, <2>2 DEF ZeroTargets
<1>8. CASE Aside(t, f) \/ Resumes(t, f)
  BY <1>8 DEF Aside, Resumes, counterVars, ZeroTargets
<1>9. QED
  BY <1>2, <1>3, <1>4, <1>5, <1>6, <1>7, <1>8, StepKinds

\* The value an AddWaitingFiber has loaded, if it is the target, is still in the counter.
Loaded == \A f \in Fibers :
  /\ call[f].pc \in {"addInUse", "addTarget"} /\ call[f].value = 0 => counter[call[f].ctr] = 0
  /\ call[f].pc = "addAcquire" => counter[call[f].ctr] = 0

\* What a wait has loaded and found to be 0 is still 0.
LEMMA LoadedStep ==
  ASSUME SchedInv, LeftInv, WaitInv, FromCode, CountersOwned, NEW t \in Threads, NEW f \in Fibers,
         running[t] = f, FiberStep(t, f), Counted, NewSafe, Cardinality(Jobs) < UnitMod,
         ZeroTargets, Loaded
  PROVE  Loaded'
<1>0. TypeInv /\ TypeOK /\ call \in [Fibers -> Call]
  BY DEF SchedInv, TypeInv, TypeOK, CounterTypeOK
<1>1. ASSUME NEW g \in Fibers, call'[g] = call[g], call[g].pc \in Loading, counter[call[g].ctr] = 0
      PROVE  counter'[call[g].ctr] = 0
  <2>1. frame[g].op.op = "wait" /\ frame[g].op.ctr = call[g].ctr
    BY <1>1 DEF WaitInv, InCall, CallFits, AddPC, Loading, WaitsFor
  <2>2. QED
    BY <1>1, <2>1, ZeroStays
<1>2. ASSUME NEW g \in Fibers, call'[g] = call[g]
      PROVE  /\ call'[g].pc \in {"addInUse", "addTarget"} /\ call'[g].value = 0 => counter'[call'[g].ctr] = 0
             /\ call'[g].pc = "addAcquire" => counter'[call'[g].ctr] = 0
  BY <1>1, <1>2 DEF Loaded, Loading
<1>3. ASSUME call'[f] # call[f]
      PROVE  /\ call'[f].pc \in {"addInUse", "addTarget"} /\ call'[f].value = 0 => counter'[call'[f].ctr] = 0
             /\ call'[f].pc = "addAcquire" => counter'[call'[f].ctr] = 0
  <2>1. CASE call'[f].pc \notin Loading
    BY <2>1 DEF Loading
  <2>2. CASE UNCHANGED counter /\ AddLoad(f)
    BY <1>0, <2>2 DEF AddLoad, Call
  <2>3. CASE UNCHANGED counter /\ AddInUse(f)
    BY <1>0, <2>3 DEF AddInUse, Goto, At, Call, Loaded
  <2>4. CASE UNCHANGED counter /\ AddTarget(f)
    <3>1. call[f].pc = "addTarget" /\ Slot(f) \in Slots
      BY <1>0, <2>4 DEF AddTarget, At, TypeOK, CounterTypeOK, Slots, Slot, Call
    <3>2. targetValue[Slot(f)] = 0
      BY <3>1 DEF ZeroTargets
    <3>3. QED
      BY <1>0, <2>4, <3>1, <3>2 DEF AddTarget, Goto, Call, Loaded
  <2>5. QED
    BY <1>0, <1>3, <2>1, <2>2, <2>3, <2>4, CallMoves
<1>4. \A g \in Fibers : g # f => call'[g] = call[g]
  BY <1>0, CallMoves
<1>5. QED
  BY <1>2, <1>3, <1>4 DEF Loaded

\* How a registration comes to its end,
LEMMA PublicationEnds ==
  ASSUME TypeInv, NEW t \in Threads, NEW f \in Fibers, running[t] = f, FiberStep(t, f),
         NEW s \in Slots, NEW g, Published(s, g), ~Published(s, g)'
  PROVE  \/ call[f].pc \in {"checkAcquire", "addAcquire", "addStore"} /\ Slot(f) = s
         \/ NewCounter(t, f) /\ s[1] = NextOp(f).ctr
<1>0. inUse \in [Slots -> BOOLEAN] /\ fiberIndex \in [Slots -> Fibers \cup {NoFiber}]
  BY DEF TypeInv, TypeOK, CounterTypeOK
<1>1. inUse'[s] # inUse[s] \/ fiberIndex'[s] # fiberIndex[s]
  BY DEF Published
<1>2. CASE InCounter(t, f)
  <2>1. CASE \/ CheckFree(f) \/ CheckInUse(f) \/ CheckTarget(f) \/ CheckAcquireFails(f) \/ CheckRelease(f)
             \/ AddTake(f) \/ AddRelease(f) \/ AddLoad(f) \/ AddInUse(f) \/ AddTarget(f)
    BY <1>1, <2>1 DEF CheckFree, CheckInUse, CheckTarget, CheckAcquireFails, CheckRelease, AddTake,
       AddRelease, AddLoad, AddInUse, AddTarget, slotVars
  <2>2. CASE AddStore(f) \/ AddAcquire(f)
    BY <1>0, <1>1, <2>2 DEF AddStore, AddAcquire, At
  <2>3. QED
    BY <1>2, <2>1, <2>2 DEF InCounter, CounterStep
<1>3. CASE Ready(t, f)
  BY <1>0, <1>1, <1>3 DEF Ready, CheckAcquire, At
<1>4. CASE NewCounter(t, f)
  BY <1>0, <1>1, <1>4 DEF NewCounter
<1>5. CASE \/ WaitForCounter(t, f) \/ WaitDone(t, f) \/ WaitThrows(t, f) \/ WaitLeaves(t, f)
           \/ Counts(t, f)
  BY <1>1, <1>5 DEF WaitForCounter, StartAdd, WaitDone, WaitThrows, WaitLeaves, Counts, Increment,
     Decrement, StartCheck, slotVars
<1>6. CASE Aside(t, f) \/ Resumes(t, f)
  BY <1>1, <1>6 DEF Aside, Resumes, counterVars
<1>7. QED
  BY <1>2, <1>3, <1>4, <1>5, <1>6, StepKinds

\* and what becomes of the operation a fiber is in.
LEMMA OpAfter ==
  ASSUME TypeOK, NEW f \in Fibers
  PROVE  /\ Begin(f) => frame'[f].op = NextOp(f)
         /\ End(f) => frame'[f].op = NoOp
         /\ Skip(f) => frame'[f].op = frame[f].op
         /\ \A j, r : frame' = [frame EXCEPT ![f].job = j, ![f].rest = r] => frame'[f].op = frame[f].op
         /\ \A j : frame' = [frame EXCEPT ![f].job = j] => frame'[f].op = frame[f].op
         /\ \A r : frame' = [frame EXCEPT ![f].rest = r] => frame'[f].op = frame[f].op
         /\ \A n : frame' = [frame EXCEPT ![f].scan = n] => frame'[f].op = frame[f].op
         /\ \A u : frame' = [frame EXCEPT ![f].tls = u] => frame'[f].op = frame[f].op
<1>1. frame \in [Fibers -> Frame]
  BY DEF TypeOK
<1>2. PICK fr \in Frame : fr = frame[f]
  BY <1>1
<1>3. Begin(f) => frame'[f].op = NextOp(f)
  BY <1>1, <1>2 DEF Begin, Frame
<1>4. End(f) => frame'[f].op = NoOp
  BY <1>1, <1>2 DEF End, Frame
<1>5. Skip(f) => frame'[f].op = fr.op
  BY <1>1, <1>2 DEF Skip, Frame
<1>6. ASSUME NEW j, NEW r, frame' = [frame EXCEPT ![f].job = j, ![f].rest = r]
      PROVE  frame'[f].op = fr.op
  BY <1>1, <1>2, <1>6 DEF Frame
<1>7. ASSUME NEW j, frame' = [frame EXCEPT ![f].job = j]
      PROVE  frame'[f].op = fr.op
  BY <1>1, <1>2, <1>7 DEF Frame
<1>8. ASSUME NEW r, frame' = [frame EXCEPT ![f].rest = r]
      PROVE  frame'[f].op = fr.op
  BY <1>1, <1>2, <1>8 DEF Frame
<1>9. ASSUME NEW n, frame' = [frame EXCEPT ![f].scan = n]
      PROVE  frame'[f].op = fr.op
  BY <1>1, <1>2, <1>9 DEF Frame
<1>10. ASSUME NEW u, frame' = [frame EXCEPT ![f].tls = u]
       PROVE  frame'[f].op = fr.op
  BY <1>1, <1>2, <1>10 DEF Frame
<1>11. QED
  BY <1>2, <1>3, <1>4, <1>5, <1>6, <1>7, <1>8, <1>9, <1>10

\* How a wait begins.
LEMMA WaitBegins ==
  ASSUME TypeInv, NEW t \in Threads, NEW f \in Fibers, running[t] = f, FiberStep(t, f),
         frame'[f].op.op = "wait", frame'[f].op # frame[f].op
  PROVE  WaitForCounter(t, f)
<1>0. TypeOK
  BY DEF TypeInv
<1>1. ~End(f) /\ ~UNCHANGED frame
  BY <1>0, OpAfter, NoOpIsNone
<1>2. /\ \A r : frame' # [frame EXCEPT ![f].rest = r]
      /\ \A j, r : frame' # [frame EXCEPT ![f].job = j, ![f].rest = r]
      /\ \A j : frame' # [frame EXCEPT ![f].job = j]
      /\ \A n : frame' # [frame EXCEPT ![f].scan = n]
      /\ \A u : frame' # [frame EXCEPT ![f].tls = u]
  BY <1>0, OpAfter
<1>3. CASE CleanupStore(t, f) \/ CleanupClear(t, f)
  <2>1. UNCHANGED frame \/ End(f)
    BY <1>3 DEF CleanupStore, CleanupClear, CleanupEnds, End
  <2>2. QED
    BY <1>1, <2>1
<1>4. CASE Loop(t, f) \/ SwitchToReady(t, f) \/ ScanReady(t, f)
  BY <1>1, <1>2, <1>4 DEF Loop, NextTurn, SwitchToReady, ScanReady, ReadyEnds, ReadySkips, ReadyTakes
<1>5. CASE DequeueIO(t, f) \/ DequeueHigh(t, f) \/ DequeueNormal(t, f) \/ DequeueLow(t, f)
  BY <1>1, <1>2, <1>5 DEF DequeueIO, DequeueHigh, DequeueNormal, DequeueLow, Dequeue
<1>6. CASE ScheduleCount(t, f) \/ ScheduleUncounted(t, f) \/ BlockingWaits(t, f) \/ Shutdown(t, f)
  <2>1. Begin(f) \/ Skip(f)
    BY <1>6 DEF ScheduleCount, ScheduleUncounted, BlockingWaits, Shutdown
  <2>2. NextOp(f).op # "wait"
    BY <1>6 DEF ScheduleCount, ScheduleUncounted, BlockingWaits, Shutdown, Starts
  <2>3. QED
    BY <1>0, <2>1, <2>2, OpAfter
<1>7. CASE \/ ScheduleJob(t, f) \/ WaitDone(t, f) \/ WaitThrows(t, f) \/ WaitLeaves(t, f)
           \/ WaitSwitches(t, f) \/ LookAgain(t, f) \/ CvWait(t, f) \/ CvReturns(t, f)
           \/ ShutdownJoins(t, f)
  <2>1. UNCHANGED frame \/ End(f)
    BY <1>7 DEF ScheduleJob, WaitDone, WaitThrows, WaitLeaves, WaitSwitches, LookAgain, CvWait,
       CvReturns, ShutdownJoins, fiberVars
  <2>2. QED
    BY <1>1, <2>1
<1>8. CASE WaitNot(t, f) \/ Notify(t, f) \/ NewCounter(t, f) \/ ChangeQueue(t, f) \/ QueueSteps(t, f)
  <2>1. Skip(f) \/ \E r : frame' = [frame EXCEPT ![f].rest = r]
    BY <1>8 DEF WaitNot, Notify, NewCounter, ChangeQueue, QueueSteps
  <2>2. QED
    BY <1>0, <1>2, <2>1, OpAfter
<1>9. CASE Executed(t, f)
  BY <1>2, <1>9 DEF Executed
<1>10. CASE Finish(t, f) \/ MainEnds(t, f) \/ MainLeaves(t, f) \/ Ready(t, f) \/ InCounter(t, f)
  BY <1>1, <1>10 DEF Finish, MainEnds, MainLeaves, Ready, InCounter, fiberVars, schedVars
<1>11. QED
  BY <1>3, <1>4, <1>5, <1>6, <1>7, <1>8, <1>9, <1>10 DEF FiberStep

\* A fiber that waits is about to be registered, is registered, or its counter is 0.
Awaits == \A f \in Fibers : frame[f].op.op = "wait" =>
  \/ call[f].pc \in {"addTake", "addStore"}
  \/ \E s \in Slots : Published(s, f)
  \/ counter[frame[f].op.ctr] = 0

\* No call on the way through the slots for the value 0 is overtaken by an Increment.
ChecksAreFresh ==
  \A g \in Fibers : call[g].pc \in CheckPC /\ call[g].value = 0 => counter[call[g].ctr] = 0

\* A registration is taken back only where the counter is 0.
LEMMA StaysAwaited ==
  ASSUME SchedInv, LeftInv, WaitInv, FromCode, CountersOwned, NEW t \in Threads, NEW f \in Fibers,
         running[t] = f, FiberStep(t, f), OneWaits, ZeroTargets, Loaded, ChecksAreFresh,
         NEW s \in Slots, NEW g \in Fibers, Published(s, g)
  PROVE  Published(s, g)' \/ counter[frame[g].op.ctr] = 0
<1>0. TypeInv /\ TypeOK /\ FramesOK /\ JobInv /\ call \in [Fibers -> Call]
  BY DEF SchedInv, TypeInv, TypeOK, CounterTypeOK, FramesOK
<1>1. SUFFICES ASSUME ~Published(s, g)'
               PROVE  counter[frame[g].op.ctr] = 0
  OBVIOUS
<1>2. Nameable(g) /\ WaitsFor(g, s[1]) /\ frame[g].op.op = "wait" /\ frame[g].op.ctr = s[1]
  BY DEF WaitInv, PublishedFits, WaitsFor
<1>3. CASE call[f].pc = "checkAcquire" /\ Slot(f) = s
  <2>1. call[f].value = 0 /\ call[f].pc \in CheckPC /\ call[f].ctr = s[1]
    BY <1>3 DEF ZeroTargets, CheckPC, Slot
  <2>2. QED
    BY <1>2, <2>1 DEF ChecksAreFresh
<1>4. CASE call[f].pc \in {"addAcquire", "addStore"} /\ Slot(f) = s
  <2>1. WaitsFor(f, s[1]) /\ call[f].ctr = s[1]
    BY <1>4 DEF WaitInv, InCall, CallFits, AddPC, Absent, Slot
  <2>2. s[1] \in Counters
    BY DEF Slots
  <2>3. f = g
    BY <1>2, <2>1, <2>2 DEF OneWaits
  <2>4. call[f].pc = "addAcquire"
    BY <1>2, <1>4, <2>3 DEF Nameable, Absent
  <2>5. QED
    BY <1>2, <2>1, <2>4 DEF Loaded
<1>5. CASE NewCounter(t, f) /\ s[1] = NextOp(f).ctr
  <2>1. On(f, "body") /\ frame[f].rest # <<>> /\ NextOp(f).op \in OnCounter
    BY <1>5 DEF NewCounter, Starts, OnCounter
  <2>2. s[1] \in Counters
    BY DEF Slots
  <2>3. f = g
    BY <1>0, <1>2, <1>5, <2>1, <2>2, NextUses, WaitsUses, OneUser
  <2>4. QED
    BY <1>0, <1>2, <2>1, <2>3, WaitsUses DEF On
<1>6. \/ call[f].pc \in {"checkAcquire", "addAcquire", "addStore"} /\ Slot(f) = s
      \/ NewCounter(t, f) /\ s[1] = NextOp(f).ctr
  BY <1>0, <1>1, PublicationEnds
<1>7. QED
  BY <1>3, <1>4, <1>5, <1>6

\* A wait that has not registered its fiber yet goes on to do so.
LEMMA AddsOn ==
  ASSUME TypeInv, WaitInv, NEW t \in Threads, NEW f \in Fibers, running[t] = f, FiberStep(t, f), WaitInv',
         call[f].pc \in {"addTake", "addStore"}
  PROVE  call'[f].pc \in {"addTake", "addStore"} \/ \E s \in Slots : Published(s, f)'
<1>0. /\ call \in [Fibers -> Call] /\ inUse \in [Slots -> BOOLEAN]
      /\ fiberIndex \in [Slots -> Fibers \cup {NoFiber}] /\ call[f].ctr \in Counters
  BY DEF TypeInv, TypeOK, CounterTypeOK
<1>1. CASE UNCHANGED call
  BY <1>1
<1>2. CASE AddTake(f)
  <2>1. call'[f].pc \in {"addTake", "addStore", "full"}
    BY <1>0, <1>2 DEF AddTake, At, NextSlot, Goto, Call
  <2>2. call'[f].pc # "full"
    BY DEF WaitInv, InCall, CallFits
  <2>3. QED
    BY <2>1, <2>2
<1>3. CASE AddStore(f)
  <2>1. call[f].pc = "addStore" /\ call[f].fiber = f /\ Slot(f) \in Slots
    BY <1>0, <1>3 DEF AddStore, At, WaitInv, InCall, CallFits, Slots, Slot, Call
  <2>2. ~inUse'[Slot(f)] /\ fiberIndex'[Slot(f)] = f
    BY <1>0, <1>3, <2>1 DEF AddStore
  <2>3. PICK s \in Slots : s = Slot(f)
    BY <2>1
  <2>4. Published(s, f)'
    BY <2>2, <2>3 DEF Published
  <2>5. QED
    BY <2>4
<1>4. AddTake(f) \/ AddStore(f) \/ UNCHANGED call
  <2>1. CASE InCounter(t, f)
    BY <2>1 DEF InCounter, CounterStep, CheckFree, CheckInUse, CheckTarget, CheckAcquireFails,
       CheckRelease, AddLoad, AddInUse, AddTarget, AddAcquire, AddRelease, At
  <2>2. CASE \/ Ready(t, f) \/ WaitForCounter(t, f) \/ WaitDone(t, f) \/ WaitThrows(t, f)
             \/ WaitLeaves(t, f) \/ Counts(t, f)
    BY <2>2 DEF Ready, CheckAcquire, WaitForCounter, StartAdd, WaitDone, WaitThrows, WaitLeaves,
       Counts, Increment, Decrement, StartCheck, At
  <2>3. CASE NewCounter(t, f) \/ Aside(t, f) \/ Resumes(t, f)
    BY <2>3 DEF NewCounter, Aside, Resumes, counterVars
  <2>4. QED
    BY <2>1, <2>2, <2>3, StepKinds
<1>5. QED
  BY <1>1, <1>2, <1>3, <1>4

\* A fiber that waits is still to be registered, is registered, or has its counter at 0.
LEMMA AwaitsStep ==
  ASSUME SchedInv, LeftInv, WaitInv, WaitInv', FromCode, CountersOwned, NEW t \in Threads, NEW f \in Fibers,
         running[t] = f, FiberStep(t, f), Counted, NewSafe, Cardinality(Jobs) < UnitMod,
         OneWaits, ZeroTargets, Loaded, ChecksAreFresh, Awaits
  PROVE  Awaits'
<1>0. TypeInv /\ TypeOK /\ Alone(f)
  BY OpsKept DEF SchedInv, TypeInv
<1>1. ASSUME NEW g \in Fibers, frame[g].op.op = "wait"
      PROVE  \/ call'[g].pc \in {"addTake", "addStore"}
             \/ \E s \in Slots : Published(s, g)'
             \/ counter'[frame[g].op.ctr] = 0
  <2>1. CASE counter[frame[g].op.ctr] = 0
    BY <1>1, <2>1, ZeroStays
  <2>2. CASE \E s \in Slots : Published(s, g)
    <3>1. PICK s \in Slots : Published(s, g)
      BY <2>2
    <3>2. Published(s, g)' \/ counter[frame[g].op.ctr] = 0
      BY <3>1, StaysAwaited
    <3>3. QED
      BY <2>1, <3>2
  <2>3. CASE call[g].pc \in {"addTake", "addStore"}
    <3>1. CASE g = f
      BY <1>0, <2>3, <3>1, AddsOn
    <3>2. CASE g # f
      BY <1>0, <2>3, <3>2, CallMoves
    <3>3. QED
      BY <3>1, <3>2
  <2>4. QED
    BY <1>1, <2>1, <2>2, <2>3 DEF Awaits
<1>2. ASSUME NEW g \in Fibers, frame'[g].op.op = "wait"
      PROVE  \/ call'[g].pc \in {"addTake", "addStore"}
             \/ \E s \in Slots : Published(s, g)'
             \/ counter'[frame'[g].op.ctr] = 0
  <2>1. CASE frame'[g].op = frame[g].op
    BY <1>1, <1>2, <2>1
  <2>2. CASE frame'[g].op # frame[g].op
    <3>1. g = f
      BY <1>0, <2>2 DEF Alone
    <3>2. WaitForCounter(t, f)
      BY <1>0, <1>2, <2>2, <3>1, WaitBegins
    <3>3. call'[f].pc = "addTake"
      BY <1>0, <3>2 DEF WaitForCounter, StartAdd, NoCall, TypeOK, CounterTypeOK
    <3>4. QED
      BY <3>1, <3>3
  <2>3. QED
    BY <2>1, <2>2
<1>3. QED
  BY <1>2 DEF Awaits

\* A sequence is not its own tail.
LEMMA TailDiffers ==
  ASSUME NEW S, NEW s \in Seq(S), s # <<>>
  PROVE  Tail(s) # s
<1>1. PICK n \in Nat : n = Len(s)
  OBVIOUS
<1>2. Len(Tail(s)) = n - 1
  BY <1>1
<1>3. QED
  BY <1>1, <1>2

\* The steps that end a wait or find nothing to wait for.
LEMMA WaitPasses ==
  ASSUME TypeInv, NEW t \in Threads, NEW f \in Fibers, running[t] = f, FiberStep(t, f),
         Faces(f, {"wait"}), Remaining(f)' = Tail(Remaining(f))
  PROVE  \/ WaitNot(t, f)
         \/ /\ frame[f].op = Head(Remaining(f))
            /\ WaitDone(t, f) \/ fpc[f] \in {"inWait", "inWaitClear"}
<1>0. /\ TypeOK /\ FramesOK /\ Remaining(f) \in Seq(Op) /\ Remaining(f) # <<>>
      /\ Head(Remaining(f)).op = "wait"
  BY RemainingIs DEF TypeInv, TypeOK, FramesOK, Faces
<1>1. Remaining(f)' # Remaining(f)
  BY <1>0, TailDiffers
<1>2. ~UNCHANGED frame
  BY <1>1 DEF Remaining
<1>3. CASE frame[f].op # NoOp
  <2>1. frame[f].op = Head(Remaining(f)) /\ frame[f].op.op = "wait"
    BY <1>0, <1>3, RemainingIs
  <2>2. fpc[f] \in {"adding", "find", "inWait", "inWaitClear"}
    BY <1>0, <2>1, WaitsUses
  <2>3. ASSUME fpc[f] \in {"adding", "find"} PROVE WaitDone(t, f)
    <3>1. \/ WaitThrows(t, f) \/ WaitLeaves(t, f) \/ WaitSwitches(t, f) \/ WaitDone(t, f)
          \/ Ready(t, f) \/ InCounter(t, f)
      BY <2>3 DEF FiberStep, CleanupStore, CleanupClear, Loop, DequeueIO, DequeueHigh, ScanReady,
         SwitchToReady, DequeueNormal, DequeueLow, ScheduleCount, ScheduleUncounted, ScheduleJob,
         WaitNot, WaitForCounter, BlockingWaits, LookAgain, CvWait, Notify, CvReturns, NewCounter,
         ChangeQueue, QueueSteps, Shutdown, ShutdownJoins, Finish, AtEnd, Executed, MainEnds,
         MainLeaves, Starts, On
    <3>2. QED
      BY <1>2, <3>1 DEF WaitThrows, WaitLeaves, WaitSwitches, Ready, InCounter, fiberVars, schedVars
  <2>4. QED
    BY <2>1, <2>2, <2>3
<1>4. CASE frame[f].op = NoOp
  <2>1. Remaining(f) = frame[f].rest /\ frame[f].rest # <<>>
    BY <1>0, <1>4, RemainingIs
  <2>2. On(f, "body") /\ NextOp(f).op = "wait"
    BY <1>0, <1>4, <2>1, FrameFields DEF On, JobAt, Executing, NextOp
  <2>3. \/ WaitNot(t, f) \/ WaitForCounter(t, f) \/ Ready(t, f) \/ InCounter(t, f)
    BY <2>1, <2>2 DEF FiberStep, CleanupStore, CleanupClear, Loop, DequeueIO, DequeueHigh, ScanReady,
         SwitchToReady, DequeueNormal, DequeueLow, ScheduleCount, ScheduleUncounted, ScheduleJob,
         WaitDone, WaitThrows, WaitLeaves, WaitSwitches, BlockingWaits, LookAgain, CvWait, Notify,
         CvReturns, NewCounter, ChangeQueue, QueueSteps, Shutdown, ShutdownJoins, Finish, AtEnd,
         Executed, MainEnds, MainLeaves, Starts, On
  <2>4. ~WaitForCounter(t, f)
    <3>1. ASSUME WaitForCounter(t, f) PROVE Remaining(f)' = Remaining(f)
      <4>1. fpc' = [fpc EXCEPT ![f] = "adding"] /\ Begin(f)
        BY <3>1 DEF WaitForCounter, Jump
      <4>2. After(f, frame[f].job, Remaining(f), Phase(f))
        BY <1>0, <2>1, <2>2, <4>1, BeginMoves DEF On
      <4>3. QED
        BY <4>2 DEF After
    <3>2. QED
      BY <1>1, <3>1
  <2>5. QED
    BY <1>2, <2>3, <2>4 DEF Ready, InCounter, fiberVars, schedVars
<1>5. QED
  BY <1>3, <1>4

\* A wait ends with its counter at 0.
LEMMA EndsAtZero ==
  ASSUME SchedInv, LeftInv, WaitInv, PlainLeft, Awaits,
         NEW t \in Threads, NEW f \in Fibers, running[t] = f, FiberStep(t, f),
         Faces(f, {"wait"}), Remaining(f)' = Tail(Remaining(f))
  PROVE  counter[Head(Remaining(f)).ctr] = 0
<1>0. TypeInv /\ TypeOK /\ FramesOK
  BY DEF SchedInv, TypeInv, TypeOK, FramesOK
<1>1. CASE WaitNot(t, f)
  <2>1. On(f, "body") /\ frame[f].rest # <<>> /\ counter[NextOp(f).ctr] = NextOp(f).target
    BY <1>1 DEF WaitNot, Starts
  <2>2. 1 \in DOMAIN Remaining(f) /\ Remaining(f)[1] = NextOp(f) /\ Head(Remaining(f)) = NextOp(f)
    BY <1>0, <2>1, NextUses
  <2>3. NextOp(f).target = 0
    BY <2>2 DEF PlainLeft, Faces
  <2>4. QED
    BY <2>1, <2>2, <2>3
<1>2. ASSUME frame[f].op = Head(Remaining(f)), WaitDone(t, f) \/ fpc[f] \in {"inWait", "inWaitClear"}
      PROVE  counter[Head(Remaining(f)).ctr] = 0
  <2>1. frame[f].op.op = "wait"
    BY <1>2 DEF Faces
  <2>2. call[f].pc \notin {"addTake", "addStore"}
    BY <1>2 DEF WaitDone, At, WaitInv, InCall, CallFits, AddPC, Absent
  <2>3. ~Registered(f)
    <3>1. call[f].pc = "added" \/ fpc[f] \notin {"adding", "find"}
      BY <1>2 DEF WaitDone, At
    <3>2. QED
      BY <1>0, <3>1, RegisteredAt DEF Absent
  <2>4. QED
    BY <1>2, <2>1, <2>2, <2>3 DEF Awaits, Registered
<1>3. QED
  BY <1>0, <1>1, <1>2, WaitPasses

\* What becomes of the place of a "new" when the first operation is over,
LEMMA NewTail ==
  ASSUME NEW r \in Seq(Op), r # <<>>, NEW i \in DOMAIN Tail(r)
  PROVE  /\ i + 1 \in DOMAIN r /\ Tail(r)[i] = r[i + 1]
         /\ Unraised(r, i + 1) => Unraised(Tail(r), i)
         /\ Cleared(r, i + 1) =>
              \/ Cleared(Tail(r), i)
              \/ r[1].op = "wait" /\ r[1].ctr = r[i + 1].ctr /\ Unraised(Tail(r), i)
<1>0. /\ i \in Nat /\ i >= 1 /\ i + 1 \in DOMAIN r /\ Tail(r)[i] = r[i + 1]
      /\ Len(r) \in Nat /\ Len(Tail(r)) = Len(r) - 1 /\ DOMAIN Tail(r) = 1 .. Len(r) - 1
  BY TailPlaces
<1>1. \A k \in 1 .. i : k \in DOMAIN Tail(r) /\ Tail(r)[k] = r[k + 1]
  BY <1>0, TailPlaces
<1>2. Unraised(r, i + 1) => Unraised(Tail(r), i)
  BY <1>0, <1>1 DEF Unraised
<1>3. ASSUME Cleared(r, i + 1)
      PROVE  \/ Cleared(Tail(r), i)
             \/ r[1].op = "wait" /\ r[1].ctr = r[i + 1].ctr /\ Unraised(Tail(r), i)
  <2>1. PICK m \in 1 .. i : /\ r[m].op = "wait" /\ r[m].ctr = r[i + 1].ctr
                            /\ \A k \in m + 1 .. i : ~Raises(r[k], r[i + 1].ctr)
    BY <1>0, <1>3 DEF Cleared
  <2>2. CASE m = 1
    <3>1. \A k \in 1 .. i - 1 : ~Raises(Tail(r)[k], Tail(r)[i].ctr)
      BY <1>0, <1>1, <2>1, <2>2
    <3>2. QED
      BY <2>1, <2>2, <3>1 DEF Unraised
  <2>3. CASE m # 1
    <3>1. PICK n \in 1 .. i - 1 : n = m - 1
      BY <1>0, <2>1, <2>3
    <3>2. Tail(r)[n].op = "wait" /\ Tail(r)[n].ctr = Tail(r)[i].ctr
      BY <1>0, <1>1, <2>1, <3>1
    <3>3. \A k \in n + 1 .. i - 1 : ~Raises(Tail(r)[k], Tail(r)[i].ctr)
      BY <1>0, <1>1, <2>1, <3>1
    <3>4. QED
      BY <3>2, <3>3 DEF Cleared
  <2>4. QED
    BY <2>2, <2>3
<1>4. QED
  BY <1>0, <1>2, <1>3

\* and when a Step is begun.
LEMMA NewUnfolded ==
  ASSUME NEW r \in Seq(Op), r # <<>>, Head(r).op \in {"step", "execute"},
         NEW es \in Seq(Entry), es # <<>>,
         NEW i \in DOMAIN Unfold(r, es), Unfold(r, es)[i].op = "new"
  PROVE  /\ Unfold(r, es) # r
         /\ \E b \in DOMAIN r :
              /\ r[b] = Unfold(r, es)[i]
              /\ Cleared(r, b) => Cleared(Unfold(r, es), i)
              /\ Unraised(r, b) => Unraised(Unfold(r, es), i)
<1>1. PICK u \in Seq(Op) : u = Unfold(r, es)
  BY UnfoldPlaces
<1>2. PICK d \in {2, 3} : d = IF Head(r).op = "execute" THEN 3 ELSE 2
  OBVIOUS
<1>3. /\ u[1].op = "schedule" /\ u[1].ctr = Head(r).ctr /\ u[2].op = "wait" /\ u[3].op = "erase"
      /\ Head(r) = r[1] /\ DOMAIN u = 1 .. Len(u) /\ Len(u) \in Nat
  <2>1. u[1].op = "schedule" /\ u[1].ctr = Head(r).ctr /\ u[2].op = "wait" /\ u[3].op = "erase"
    <3>1. /\ u[1] = Schedule(Head(es).prio, Head(es).job, Head(r).ctr)
          /\ u[2] = Wait(Head(r).ctr, 0) /\ u[3] = [op |-> "erase", ctr |-> Head(r).ctr]
      BY <1>1, UnfoldPlaces
    <3>2. QED
      BY <3>1 DEF Schedule, Wait
  <2>2. Head(r) = r[1]
    BY TailPlaces
  <2>3. DOMAIN u = 1 .. Len(u) /\ Len(u) \in Nat
    OBVIOUS
  <2>4. QED
    BY <2>1, <2>2, <2>3
<1>4. \A k \in DOMAIN u : k > 3 => k - d \in DOMAIN r /\ u[k] = r[k - d]
  BY <1>1, <1>2, UnfoldPlaces
<1>5. i \in Nat /\ i > 3
  BY <1>1, <1>3
<1>6. PICK b \in DOMAIN r : b = i - d /\ u[i] = r[b]
  BY <1>1, <1>4, <1>5
<1>7. b \in Nat /\ b >= 2
  BY <1>1, <1>2, <1>3, <1>5, <1>6
<1>8. \A k \in 4 .. i : k - d \in DOMAIN r /\ u[k] = r[k - d]
  <2>1. i <= Len(u)
    BY <1>1, <1>3
  <2>2. \A k \in 4 .. i : k \in DOMAIN u /\ k > 3
    BY <1>3, <1>5, <2>1
  <2>3. QED
    BY <1>4, <2>2
<1>9. ASSUME Cleared(r, b) PROVE Cleared(u, i)
  <2>1. PICK m \in 1 .. b - 1 : /\ r[m].op = "wait" /\ r[m].ctr = r[b].ctr
                                /\ \A k \in m + 1 .. b - 1 : ~Raises(r[k], r[b].ctr)
    BY <1>9 DEF Cleared
  <2>2. m # 1
    BY <1>3, <2>1
  <2>3. PICK n \in 4 .. i - 1 : n = m + d
    BY <1>2, <1>5, <1>6, <1>7, <2>1, <2>2
  <2>4. n \in 1 .. i - 1 /\ u[n] = r[m]
    <3>1. n \in 4 .. i /\ n - d = m /\ n \in 1 .. i - 1
      BY <1>2, <1>5, <1>7, <2>1, <2>3
    <3>2. QED
      BY <1>8, <3>1
  <2>5. \A k \in n + 1 .. i - 1 : k - d \in m + 1 .. b - 1 /\ u[k] = r[k - d]
    <3>1. \A k \in n + 1 .. i - 1 : k \in 4 .. i /\ k - d \in m + 1 .. b - 1
      BY <1>2, <1>5, <1>6, <1>7, <2>1, <2>3
    <3>2. QED
      BY <1>8, <3>1
  <2>6. QED
    BY <1>6, <2>1, <2>4, <2>5 DEF Cleared
<1>10. ASSUME Unraised(r, b) PROVE Unraised(u, i)
  <2>1. ASSUME NEW k \in 1 .. i - 1 PROVE ~Raises(u[k], u[i].ctr)
    <3>1. CASE k = 1
      <4>1. ~Raises(r[1], r[b].ctr)
        BY <1>7, <1>10 DEF Unraised
      <4>2. QED
        BY <1>3, <1>6, <3>1, <4>1 DEF Raises
    <3>2. CASE k \in {2, 3}
      BY <1>3, <3>2 DEF Raises
    <3>3. CASE k > 3
      <4>1. k - d \in 1 .. b - 1 /\ u[k] = r[k - d]
        BY <1>2, <1>5, <1>6, <1>8, <2>1, <3>3
      <4>2. QED
        BY <1>6, <1>10, <4>1 DEF Unraised
    <3>4. QED
      BY <1>5, <2>1, <3>1, <3>2, <3>3
  <2>2. QED
    BY <2>1 DEF Unraised
<1>11. u # r
  BY <1>3
<1>12. QED
  BY <1>1, <1>6, <1>9, <1>10, <1>11

\* A counter that is constructed again stays one that has been waited for.
LEMMA NewSafeStep ==
  ASSUME SchedInv, LeftInv, WaitInv, FromCode, CountersOwned, NewsSettled, NEW t \in Threads,
         NEW f \in Fibers, running[t] = f, FiberStep(t, f), Counted, NewSafe,
         Cardinality(Jobs) < UnitMod, Untouched, PlainLeft, Awaits
  PROVE  NewSafe'
<1>0. /\ TypeInv /\ TypeOK /\ FramesOK /\ JobInv /\ InQueue
      /\ entries \in [Counters -> Seq(Entry)]
  BY DEF SchedInv, TypeInv, TypeOK, FramesOK, JobInv
<1>1. Moves(f) /\ UNCHANGED program
  BY <1>0, StepMoves, OthersKeep
<1>2. \A c \in Counters : counter[c] = 0 /\ counter'[c] # 0 => ScheduleCount(t, f) /\ c = NextOp(f).ctr
  BY CountedStep
<1>3. ASSUME ScheduleCount(t, f)
      PROVE  /\ On(f, "body") /\ 1 \in DOMAIN Remaining(f) /\ Remaining(f)[1] = NextOp(f)
             /\ NextOp(f).op = "schedule" /\ Remaining(f)' = Remaining(f)
  <2>1. On(f, "body") /\ frame[f].rest # <<>> /\ NextOp(f).op = "schedule" /\ Begin(f)
        /\ fpc' = [fpc EXCEPT ![f] = "enqueue"]
    BY <1>3 DEF ScheduleCount, Starts, Jump
  <2>2. After(f, frame[f].job, Remaining(f), Phase(f))
    BY <1>0, <2>1, BeginMoves DEF On
  <2>3. QED
    BY <1>0, <2>1, <2>2, NextUses DEF After
<1>4. ASSUME NEW g \in Fibers, Remaining(g)' = Remaining(g), NEW i \in DOMAIN Remaining(g)
      PROVE  NewFits(Remaining(g), i)'
  <2>1. PICK r \in Seq(Op) : r = Remaining(g)
    BY <1>0, RemainingIs
  <2>2. NewFits(r, i)
    BY <2>1 DEF NewSafe
  <2>3. SUFFICES ASSUME r[i].op = "new", ~Cleared(r, i)
                 PROVE  counter'[r[i].ctr] = 0 /\ Unraised(r, i)
    BY <1>4, <2>1 DEF NewFits
  <2>4. Unraised(r, i) /\ counter[r[i].ctr] = 0
    BY <2>2, <2>3 DEF NewFits
  <2>5. r[i] \in Op /\ r[i].op \in OnCounter /\ r[i].ctr \in Counters
    BY <1>4, <2>1, <2>3, OpTypes DEF OnCounter
  <2>6. SUFFICES ASSUME counter'[r[i].ctr] # 0 PROVE FALSE
    BY <2>4
  <2>7. ScheduleCount(t, f) /\ r[i].ctr = NextOp(f).ctr
    BY <1>2, <2>4, <2>5, <2>6
  <2>8. f = g
    BY <1>0, <1>3, <1>4, <2>1, <2>5, <2>7, OneUser DEF OnCounter
  <2>9. r[1].op = "schedule" /\ r[1].ctr = r[i].ctr
    BY <1>3, <2>1, <2>7, <2>8
  <2>10. i \in Nat /\ i >= 1 /\ i # 1
    <3>1. i \in DOMAIN r
      BY <1>4, <2>1
    <3>2. i \in Nat /\ i >= 1
      BY <3>1
    <3>3. QED
      BY <2>3, <2>9, <3>2
  <2>11. ~Raises(r[1], r[i].ctr)
    BY <2>4, <2>10 DEF Unraised
  <2>12. QED
    BY <2>9, <2>11 DEF Raises
<1>5. ASSUME Remaining(f)' # Remaining(f) PROVE \A c \in Counters : counter[c] = 0 => counter'[c] = 0
  BY <1>2, <1>3, <1>5
<1>6. ASSUME Remaining(f) # <<>>, Remaining(f)' = Tail(Remaining(f)), NEW i \in DOMAIN Remaining(f)'
      PROVE  NewFits(Remaining(f), i)'
  <2>1. PICK r \in Seq(Op) : r = Remaining(f) /\ r # <<>>
    BY <1>0, <1>6, RemainingIs
  <2>2. PICK q \in Seq(Op) : q = Tail(r) /\ q = Remaining(f)' /\ i \in DOMAIN q /\ q # r
    BY <1>6, <2>1, TailPlaces, TailDiffers
  <2>3. /\ i + 1 \in DOMAIN r /\ q[i] = r[i + 1]
        /\ Unraised(r, i + 1) => Unraised(q, i)
        /\ Cleared(r, i + 1) =>
             Cleared(q, i) \/ (r[1].op = "wait" /\ r[1].ctr = r[i + 1].ctr /\ Unraised(q, i))
    BY <2>1, <2>2, NewTail
  <2>4. NewFits(r, i + 1)
    BY <2>1, <2>3 DEF NewSafe
  <2>5. SUFFICES ASSUME q[i].op = "new", ~Cleared(q, i)
                 PROVE  counter'[q[i].ctr] = 0 /\ Unraised(q, i)
    BY <2>2 DEF NewFits
  <2>6. q[i].ctr \in Counters
    BY <2>2, <2>5, OpTypes
  <2>7. counter[q[i].ctr] = 0 => counter'[q[i].ctr] = 0
    BY <1>5, <2>1, <2>2, <2>6
  <2>8. CASE Unraised(r, i + 1) /\ counter[r[i + 1].ctr] = 0
    BY <2>3, <2>7, <2>8
  <2>9. CASE Cleared(r, i + 1)
    <3>1. r[1].op = "wait" /\ r[1].ctr = q[i].ctr /\ Unraised(q, i)
      BY <2>3, <2>5, <2>9
    <3>2. Faces(f, {"wait"}) /\ Head(Remaining(f)) = r[1]
      BY <2>1, <3>1, TailPlaces DEF Faces
    <3>3. counter[q[i].ctr] = 0
      BY <1>6, <3>1, <3>2, EndsAtZero
    <3>4. QED
      BY <2>7, <3>1, <3>3
  <2>10. QED
    BY <2>3, <2>4, <2>5, <2>8, <2>9 DEF NewFits
<1>7. ASSUME Unfolds(f), NEW i \in DOMAIN Remaining(f)'
      PROVE  NewFits(Remaining(f), i)'
  <2>1. PICK r \in Seq(Op) : r = Remaining(f) /\ r # <<>> /\ Head(r) \in Op /\ Head(r).op \in {"step", "execute"}
    BY <1>0, <1>7, FacesTypes DEF Unfolds
  <2>2. PICK es \in Seq(Entry) : es = entries[Head(r).ctr]
    BY <1>0, <2>1, OpTypes
  <2>3. Remaining(f)' = Unfold(r, es)
    BY <1>7, <2>1, <2>2 DEF Unfolds, After
  <2>4. CASE es = <<>>
    <3>1. Remaining(f)' = Tail(Remaining(f)) /\ Remaining(f) # <<>>
      BY <2>1, <2>3, <2>4 DEF Unfold
    <3>2. QED
      BY <1>6, <1>7, <3>1
  <2>5. CASE es # <<>>
    <3>1. PICK q \in Seq(Op) : q = Unfold(r, es) /\ q = Remaining(f)' /\ i \in DOMAIN q
      BY <1>7, <2>1, <2>3, <2>5, UnfoldPlaces
    <3>2. SUFFICES ASSUME q[i].op = "new", ~Cleared(q, i)
                   PROVE  counter'[q[i].ctr] = 0 /\ Unraised(q, i)
      BY <3>1 DEF NewFits
    <3>3. /\ Unfold(r, es) # r
          /\ \E b \in DOMAIN r :
               /\ r[b] = Unfold(r, es)[i]
               /\ Cleared(r, b) => Cleared(Unfold(r, es), i)
               /\ Unraised(r, b) => Unraised(Unfold(r, es), i)
      <4>1. i \in DOMAIN Unfold(r, es) /\ Unfold(r, es)[i].op = "new"
        BY <3>1, <3>2
      <4>2. r # <<>> /\ Head(r).op \in {"step", "execute"}
        BY <2>1
      <4>3. QED
        BY <2>5, <4>1, <4>2, NewUnfolded
    <3>4. PICK b \in DOMAIN r : /\ r[b] = q[i]
                                /\ Cleared(r, b) => Cleared(q, i)
                                /\ Unraised(r, b) => Unraised(q, i)
      BY <3>1, <3>3
    <3>5. NewFits(r, b)
      BY <2>1 DEF NewSafe
    <3>6. Unraised(q, i) /\ counter[q[i].ctr] = 0 /\ q[i].ctr \in Counters
      BY <3>1, <3>2, <3>4, <3>5, OpTypes DEF NewFits
    <3>7. Remaining(f)' # Remaining(f)
      BY <2>1, <3>1, <3>3
    <3>8. QED
      BY <1>5, <3>6, <3>7
  <2>6. QED
    BY <2>4, <2>5
<1>8. ASSUME NEW p \in Prio, Takes(f, p), NEW i \in DOMAIN Remaining(f)'
      PROVE  NewFits(Remaining(f), i)'
  <2>1. PICK x \in Jobs : x = Head(queue[p]) /\ status[x] = "queued" /\ x \in Code
    BY <1>0, <1>8, TakenQueued DEF Takes
  <2>2. PICK r \in Seq(Op) : r = program.body[x] /\ r = Remaining(f)' /\ i \in DOMAIN r
    BY <1>0, <1>8, <2>1, BodyTypes DEF Takes, After
  <2>3. SUFFICES ASSUME r[i].op = "new", ~Cleared(r, i)
                 PROVE  counter'[r[i].ctr] = 0 /\ Unraised(r, i)
    BY <2>2 DEF NewFits
  <2>4. Unraised(r, i) /\ r[i].ctr \in Counters /\ r[i].op \in OnCounter
    <3>1. Cleared(r, i) \/ Unraised(r, i)
      BY <2>1, <2>2, <2>3 DEF NewsSettled
    <3>2. r[i] \in Op
      BY <2>2
    <3>3. QED
      BY <2>3, <3>1, <3>2, OpTypes DEF OnCounter
  <2>5. Uses(x, r[i].ctr)
    BY <2>2, <2>4 DEF Uses
  <2>6. counter[r[i].ctr] = 0
    BY <2>1, <2>4, <2>5 DEF Untouched
  <2>7. Remaining(f)' # Remaining(f)
    BY <1>8, <2>2 DEF Takes
  <2>8. QED
    BY <1>5, <2>4, <2>6, <2>7
<1>9. ASSUME NEW i \in DOMAIN Remaining(f)'
      PROVE  NewFits(Remaining(f), i)'
  <2>1. CASE Idles(f) \/ SubmitsProxy(f)
    BY <1>4, <1>9, <2>1 DEF Idles, SubmitsProxy, After
  <2>2. CASE Passes(f) \/ Submits(f) \/ Changes(f)
    BY <1>6, <1>9, <2>2 DEF Passes, Submits, Changes, After, Faces
  <2>3. CASE Finishes(f) \/ Drops(f)
    <3>1. Remaining(f)' = <<>>
      BY <2>3 DEF Finishes, Drops, After
    <3>2. QED
      BY <1>9, <3>1
  <2>4. QED
    BY <1>1, <1>7, <1>8, <1>9, <2>1, <2>2, <2>3 DEF Moves
<1>10. ASSUME NEW g \in Fibers, NEW i \in DOMAIN Remaining(g)'
       PROVE  NewFits(Remaining(g), i)'
  <2>1. CASE g = f
    BY <1>9, <1>10, <2>1
  <2>2. CASE g # f
    <3>1. Remaining(g)' = Remaining(g)
      BY <1>1, <2>2, OthersKeep
    <3>2. QED
      BY <1>4, <1>10, <3>1
  <2>3. QED
    BY <2>1, <2>2
<1>11. QED
  BY <1>10 DEF NewSafe

\* What a wait for 0 relies on, and how it is kept.
EndInv == Counted /\ NewSafe /\ Untouched /\ PlainLeft /\ ZeroTargets /\ Loaded /\ Awaits

\* A counter of one code has one code that waits for it.
LEMMA OwnedWaits ==
  ASSUME CountersOwned
  PROVE  OneWaiter
<1>1. \A x, c : WaitsOn(x, c) => Uses(x, c)
  BY DEF WaitsOn, Uses, OnCounter
<1>2. QED
  BY <1>1 DEF CountersOwned, OneWaiter

\* EndInv holds at the start,
LEMMA EndInit ==
  ASSUME Init, CountersKept
  PROVE  EndInv
<1>0. /\ TypeOK /\ FramesOK /\ program \in Programs
      /\ counter = [c \in Counters |-> 0] /\ targetValue = [s \in Slots |-> 0]
      /\ call = [f \in Fibers |-> NoCall] /\ status = [j \in Jobs |-> "new"]
      /\ \A f \in Fibers : frame[f].op = NoOp /\ fpc[f] \in {"body", "fresh"}
  BY InitTypes DEF Init, CounterInit, TypeInv, TypeOK, FramesOK
<1>1. ASSUME NEW f \in Fibers
      PROVE  Remaining(f) = IF f = running[MainThread] THEN program.body[MainJob] ELSE <<>>
  <2>1. frame[f].rest = IF f = running[MainThread] THEN program.body[MainJob] ELSE <<>>
    BY DEF Init
  <2>2. QED
    BY <1>0, <2>1, RemainingIs
<1>2. Counted
  <2>1. \A c : Live(c) = {}
    BY <1>0 DEF Live, Held
  <2>2. QED
    BY <1>0, <2>1, FS_EmptySet DEF Counted
<1>3. ASSUME NEW f \in Fibers, NEW i \in DOMAIN Remaining(f)
      PROVE  NewFits(Remaining(f), i)
  <2>1. PICK r \in Seq(Op) : r = Remaining(f) /\ r = program.body[MainJob] /\ i \in DOMAIN r
    BY <1>0, <1>1, <1>3, RemainingIs
  <2>2. SUFFICES ASSUME r[i].op = "new"
                 PROVE  Cleared(r, i) \/ (Unraised(r, i) /\ counter[r[i].ctr] = 0)
    BY <2>1 DEF NewFits
  <2>3. Cleared(r, i) \/ Unraised(r, i)
    BY <2>1, <2>2 DEF CountersKept, NewsSettled, Code
  <2>4. r[i].ctr \in Counters
    BY <2>1, <2>2, OpTypes
  <2>5. QED
    BY <1>0, <2>3, <2>4
<1>4. ASSUME NEW f \in Fibers, NEW i \in DOMAIN Remaining(f)
      PROVE  /\ Remaining(f)[i].op # "blockingWait"
             /\ Remaining(f)[i].op = "wait" => Remaining(f)[i].target = 0
  BY <1>0, <1>1, <1>4, ProgramOps DEF CountersKept, PlainWaits, Code
<1>5. Untouched /\ ZeroTargets /\ Loaded /\ Awaits
  BY <1>0, NoOpIsNone DEF Untouched, ZeroTargets, Loaded, Awaits, NoCall
<1>6. QED
  BY <1>2, <1>3, <1>4, <1>5 DEF EndInv, NewSafe, PlainLeft

\* is kept by what changes neither counters, fibers nor jobs,
LEMMA EndSame ==
  ASSUME EndInv, UNCHANGED <<counterVars, fiberVars, programVars>>
  PROVE  EndInv'
<1>1. UNCHANGED <<counter, inUse, fiberIndex, targetValue, call, fpc, frame, jobCounter, status, program>>
  BY DEF counterVars, fiberVars, programVars
<1>2. \A f \in Fibers : Remaining(f)' = Remaining(f)
  BY <1>1 DEF Remaining
<1>3. \A c : Live(c)' = Live(c)
  BY <1>1 DEF Live, Held
<1>4. Counted'
  BY <1>1, <1>3 DEF EndInv, Counted
<1>5. NewSafe' /\ PlainLeft'
  BY <1>1, <1>2 DEF EndInv, NewSafe, NewFits, PlainLeft
<1>6. Untouched' /\ ZeroTargets' /\ Loaded' /\ Awaits'
  BY <1>1 DEF EndInv, Untouched, Uses, ZeroTargets, Loaded, Awaits, Published
<1>7. QED
  BY <1>4, <1>5, <1>6 DEF EndInv

\* by every step of a fiber,
LEMMA EndKept ==
  ASSUME SchedInv, LeftInv, WaitInv, WaitInv', FromCode, CountersKept, EndInv, ChecksAreFresh,
         NEW t \in Threads, NEW f \in Fibers, running[t] = f, FiberStep(t, f)
  PROVE  EndInv'
<1>0. /\ TypeInv /\ TypeOK /\ FramesOK /\ JobInv /\ Moves(f)
      /\ CountersOwned /\ PlainWaits /\ NewsSettled /\ Cardinality(Jobs) < UnitMod
      /\ Counted /\ NewSafe /\ Untouched /\ PlainLeft /\ ZeroTargets /\ Loaded /\ Awaits
  BY StepMoves DEF SchedInv, TypeInv, TypeOK, FramesOK, CountersKept, EndInv
<1>1. OneWaits
  BY <1>0, OneCode, OwnedWaits
<1>2. Counted' /\ NewSafe' /\ Untouched'
  BY <1>0, CountedStep, NewSafeStep, UntouchedStep
<1>3. PlainLeft' /\ ZeroTargets'
  BY <1>0, PlainStep, TargetsStep
<1>4. Loaded' /\ Awaits'
  BY <1>0, <1>1, LoadedStep, AwaitsStep
<1>5. QED
  BY <1>2, <1>3, <1>4 DEF EndInv

\* and by every step.
LEMMA EndNext ==
  ASSUME SchedInv, LeftInv, WaitInv, FromCode, CountersKept, EndInv, ChecksAreFresh, [Next]_vars
  PROVE  WaitInv' /\ FromCode' /\ CountersKept' /\ EndInv'
<1>0. TypeOK /\ TypeInv
  BY DEF SchedInv, TypeInv
<1>1. WaitInv' /\ FromCode'
  BY OwnedWaits, WaitNext DEF CountersKept
<1>2. UNCHANGED program => CountersKept'
  BY DEF CountersKept, CountersOwned, PlainWaits, NewsSettled, AllOps, Uses
<1>3. ASSUME UNCHANGED <<counterVars, fiberVars, programVars>>
      PROVE  CountersKept' /\ EndInv'
  BY <1>2, <1>3, EndSame DEF programVars
<1>4. CASE UNCHANGED vars
  BY <1>1, <1>3, <1>4 DEF vars, schedVars
<1>5. ASSUME NEW t \in Threads, StartThread(t) \/ Run(t)
      PROVE  CountersKept' /\ EndInv'
  BY <1>3, <1>5 DEF StartThread, Run
<1>6. ASSUME NEW t \in Threads, running[t] # NoFiber, FiberStep(t, running[t])
      PROVE  CountersKept' /\ EndInv'
  <2>1. PICK f \in Fibers : f = running[t]
    BY <1>0, <1>6 DEF TypeOK
  <2>2. UNCHANGED program
    BY <1>0, <1>6, <2>1, StepMoves, OthersKeep
  <2>3. QED
    BY <1>1, <1>2, <1>6, <2>1, <2>2, EndKept
<1>7. QED
  BY <1>1, <1>4, <1>5, <1>6 DEF Next, ThreadStep, Terminated

\* When a wait ends none of the jobs its counter counts is left.
LEMMA EndsClear ==
  ASSUME SchedInv, LeftInv, WaitInv, EndInv, [Next]_vars, NEW g \in Fibers
  PROVE  EndsDone(g)
<1>0. TypeOK /\ TypeInv /\ FramesOK /\ JobInv /\ Once
  BY DEF SchedInv, TypeInv, TypeOK, FramesOK, JobInv
<1>1. SUFFICES ASSUME WaitEnds(g)
               PROVE  \A j \in Jobs : jobCounter[j] = Head(Remaining(g)).ctr =>
                        status[j] \notin {"queued", "started"}
  BY DEF EndsDone
<1>2. /\ Remaining(g) # <<>> /\ Head(Remaining(g)).op \in Waits
      /\ Remaining(g)' = Tail(Remaining(g)) /\ Remaining(g) \in Seq(Op)
  BY <1>0, <1>1, RemainingIs DEF WaitEnds
<1>3. Remaining(g)' # Remaining(g)
  BY <1>2, TailDiffers
<1>4. ~UNCHANGED frame
  BY <1>3 DEF Remaining
<1>5. PICK t \in Threads : running[t] # NoFiber /\ FiberStep(t, running[t])
  BY <1>4 DEF Next, ThreadStep, Terminated, vars, schedVars, StartThread, Run, fiberVars
<1>6. PICK f \in Fibers : f = running[t]
  BY <1>0, <1>5 DEF TypeOK
<1>7. f = g
  BY <1>0, <1>3, <1>5, <1>6, StepMoves, OthersKeep
<1>8. Faces(g, {"wait"})
  <2>1. 1 \in DOMAIN Remaining(g) /\ Head(Remaining(g)) = Remaining(g)[1]
    BY <1>2, TailPlaces
  <2>2. QED
    BY <1>2, <2>1 DEF Faces, EndInv, PlainLeft, Waits
<1>9. PICK c \in Counters : c = Head(Remaining(g)).ctr
  BY <1>0, <1>8, FacesTypes, OpTypes DEF Waits
<1>10. counter[c] = 0
  BY <1>2, <1>5, <1>6, <1>7, <1>8, <1>9, EndsAtZero DEF EndInv
<1>11. Live(c) = {}
  <2>1. IsFiniteSet(Live(c)) /\ Cardinality(Live(c)) = 0
    BY <1>0, <1>9, <1>10, HeldNew, LiveFinite DEF EndInv, Counted
  <2>2. QED
    BY <2>1, FS_EmptySet
<1>12. QED
  BY <1>9, <1>11 DEF Live

\* That is what WaitMeansDone says.
LEMMA DoneIsMeant == [][\A f \in Fibers : EndsDone(f)]_vars => WaitMeansDone
<1>1. [\A f \in Fibers : EndsDone(f)]_vars =>
        [\A f \in Fibers : WaitEnds(f) /\ fpc[f] # "cvWait" =>
           LET op == Head(Remaining(f)) IN
             op.target = 0 =>
               \A j \in Jobs :
                 jobCounter[j] = op.ctr => status[j] \notin {"queued", "started"}]_vars
  BY DEF EndsDone
<1>2. QED
  BY <1>1, PTL DEF WaitMeansDone

\* README.md:2.  Where each counter is used by one code, whose waits are for 0 and leave
\* their fiber, where each cleanup uses the TLS of its own thread and no walk through the
\* slots for the value 0 is overtaken by an Increment, no job that was scheduled with a
\* counter is still to be executed when a wait for it is over.
THEOREM WaitsMeanDone == Spec /\ CountersKept /\ []SameThread /\ []ChecksAreFresh => WaitMeansDone
<1>1. Init /\ TypeOK /\ CountersKept => LeftInv /\ WaitInv /\ FromCode /\ EndInv
  BY InitLeft, WaitInit, EndInit
<1>2. /\ SchedInv /\ SchedInv' /\ SameThread /\ ChecksAreFresh /\ [Next]_vars
      /\ LeftInv /\ WaitInv /\ FromCode /\ CountersKept /\ EndInv
      => LeftInv' /\ WaitInv' /\ FromCode' /\ CountersKept' /\ EndInv'
  BY NextLeft, EndNext DEF SchedInv, TypeInv
<1>3. SchedInv => TypeOK
  BY DEF SchedInv, TypeInv
<1>4. /\ SchedInv /\ LeftInv /\ WaitInv /\ EndInv /\ [Next]_vars
      => [\A f \in Fibers : EndsDone(f)]_vars
  BY EndsClear
<1>5. [][\A f \in Fibers : EndsDone(f)]_vars => WaitMeansDone
  BY DoneIsMeant
<1>6. QED
  BY <1>1, <1>2, <1>3, <1>4, <1>5, SchedulerInvariant, PTL DEF Spec

----------------------------------------------------------------------------
(* Walks through the slots that nothing overtakes.                         *)

\* A step of f begins a walk for the value it gives c.
BeginsWalk(t, f, c) ==
  /\ \/ ScheduleCount(t, f) /\ c = NextOp(f).ctr
     \/ Finish(t, f) /\ c = jobCounter[frame[f].job]
  /\ counter'[c] = call'[f].value /\ call'[f].ctr = c
  /\ UNCHANGED running

GoesOn(f) == call[f].pc \in CheckPC /\ call'[f].ctr = call[f].ctr /\ call'[f].value = call[f].value

\* A walk begins where a counter is changed, with its new value; while its fiber walks,
\* a step of it changes no counter and leaves it on its thread.
LEMMA WalkMoves ==
  ASSUME TypeInv, InCall, NEW t \in Threads, NEW f \in Fibers, running[t] = f, FiberStep(t, f)
  PROVE  /\ call[f].pc \in CheckPC => UNCHANGED <<counter, running>>
         /\ \/ \E c \in Counters : BeginsWalk(t, f, c)
            \/ NewCounter(t, f) /\ UNCHANGED call
            \/ UNCHANGED counter /\ (call'[f].pc \in CheckPC => GoesOn(f))
<1>0. /\ call \in [Fibers -> Call] /\ counter \in [Counters -> Unit] /\ fpc \in [Fibers -> FiberPC]
      /\ CallFits(f)
  BY DEF TypeInv, TypeOK, CounterTypeOK, InCall
<1>1. call[f].pc \in CheckPC => fpc[f] \in {"enqueue", "end"} /\ call[f].pc # "idle"
  BY <1>0 DEF CallFits, CheckPC
<1>2. CASE InCounter(t, f)
  <2>1. UNCHANGED <<counter, running>>
    BY <1>2 DEF InCounter, CounterStep, CheckFree, CheckInUse, CheckTarget, CheckAcquireFails, CheckRelease,
       AddTake, AddStore, AddLoad, AddInUse, AddTarget, AddAcquire, AddRelease, schedVars, threadVars
  <2>2. CASE \/ CheckFree(f) \/ CheckInUse(f) \/ CheckTarget(f) \/ CheckAcquireFails(f) \/ CheckRelease(f)
    BY <1>0, <2>1, <2>2 DEF CheckFree, CheckInUse, CheckTarget, CheckAcquireFails, CheckRelease, SkipSlot,
       NextSlot, Return, NoCall, Goto, At, CheckPC, Call, GoesOn
  <2>3. CASE \/ AddTake(f) \/ AddStore(f) \/ AddLoad(f) \/ AddInUse(f) \/ AddTarget(f)
             \/ AddAcquire(f) \/ AddRelease(f)
    BY <1>0, <2>1, <2>3 DEF AddTake, AddStore, AddLoad, AddInUse, AddTarget, AddAcquire, AddRelease,
       NextSlot, Goto, At, CheckPC, Call
  <2>4. QED
    BY <1>2, <2>1, <2>2, <2>3 DEF InCounter, CounterStep
<1>3. CASE Ready(t, f)
  BY <1>0, <1>3 DEF Ready, CheckAcquire, Goto, At, Call, CheckPC, GoesOn
<1>4. CASE WaitForCounter(t, f)
  <2>1. fpc[f] = "body" /\ UNCHANGED counter
    BY <1>4 DEF WaitForCounter, Starts, On, StartAdd
  <2>2. call'[f].pc = "addTake"
    BY <1>0, <1>4 DEF WaitForCounter, StartAdd, NoCall
  <2>3. QED
    BY <1>1, <2>1, <2>2 DEF CheckPC
<1>5. CASE WaitDone(t, f) \/ WaitThrows(t, f) \/ WaitLeaves(t, f)
  <2>1. fpc[f] = "adding" /\ UNCHANGED counter
    BY <1>5 DEF WaitDone, WaitThrows, WaitLeaves, On
  <2>2. call'[f].pc = "idle"
    BY <1>0, <1>5 DEF WaitDone, WaitThrows, WaitLeaves, Return, NoCall
  <2>3. QED
    BY <1>1, <2>1, <2>2 DEF CheckPC
<1>6. CASE Resumes(t, f)
  <2>1. fpc[f] = "ready" /\ UNCHANGED counter /\ UNCHANGED call
    BY <1>6 DEF Resumes, On, counterVars
  <2>2. QED
    BY <1>1, <2>1 DEF GoesOn
<1>7. CASE Counts(t, f)
  <2>1. PICK c \in Counters :
          /\ fpc[f] = "body" /\ UNCHANGED running
          /\ \/ ScheduleCount(t, f) /\ c = NextOp(f).ctr
             \/ Finish(t, f) /\ c = jobCounter[frame[f].job]
          /\ \E v : StartCheck(f, c, v)
    BY <1>7 DEF Counts, Increment, Decrement, threadVars
  <2>2. PICK v : StartCheck(f, c, v)
    BY <2>1
  <2>3. counter'[c] = v /\ call'[f].ctr = c /\ call'[f].value = v
    BY <1>0, <2>2 DEF StartCheck, Call
  <2>4. QED
    BY <1>1, <2>1, <2>3 DEF BeginsWalk
<1>8. CASE NewCounter(t, f)
  <2>1. fpc[f] = "body" /\ UNCHANGED call
    BY <1>8 DEF NewCounter, Starts, On
  <2>2. QED
    BY <1>1, <1>8, <2>1
<1>9. CASE Aside(t, f)
  BY <1>1, <1>9 DEF Aside, counterVars, At, GoesOn
<1>10. QED
  BY <1>2, <1>3, <1>4, <1>5, <1>6, <1>7, <1>8, <1>9, StepKinds

\* A condition on the program: the jobs of IO have nothing to do with counters.  They
\* are scheduled without one, added to no Queue, and use none.
IOUncounted ==
  /\ \A op \in AllOps : op.op = "schedule" /\ op.prio = "io" => op.ctr = NoCounter
  /\ \A op \in AllOps : op.op = "add" => op.entry.prio # "io"
  /\ \A j \in Jobs, c \in Counters : IsIO(j) => ~Uses(j, c)

\* Then no step of the IO thread changes a counter or begins a walk,
IOFree == \A j \in Jobs : IsIO(j) => jobCounter[j] = NoCounter

LEMMA IOFreeStep ==
  ASSUME TypeOK, FramesOK, JobInv, AsksInv, FromProgram, Added, IOUncounted, IOFree, NEW f \in Fibers, Moves(f)
  PROVE  IOFree'
<1>0. /\ \A j : IsIO(j)' <=> IsIO(j)
      /\ jobCounter \in [Jobs -> Counters \cup {NoCounter}]
  BY OthersKeep DEF TypeOK
<1>1. CASE UNCHANGED jobCounter
  BY <1>0, <1>1 DEF IOFree
<1>2. CASE SubmitsProxy(f)
  BY <1>0, <1>2 DEF SubmitsProxy, Enqueues, IOFree
<1>3. CASE Submits(f)
  <2>1. PICK a \in Op : /\ a = Head(Remaining(f)) /\ a = Remaining(f)[1] /\ 1 \in DOMAIN Remaining(f)
                        /\ a.op = "schedule" /\ a.job \in Jobs
                        /\ jobCounter' = [jobCounter EXCEPT ![a.job] = a.ctr]
    <3>1. Faces(f, {"schedule"})
          /\ jobCounter' = [jobCounter EXCEPT ![Head(Remaining(f)).job] = Head(Remaining(f)).ctr]
      BY <1>3 DEF Submits, Enqueues
    <3>2. PICK a \in Op : a = Head(Remaining(f)) /\ a = Remaining(f)[1] /\ 1 \in DOMAIN Remaining(f)
                          /\ a.op = "schedule"
      BY <3>1, FacesTypes
    <3>3. a.job \in Jobs
      BY <3>2, OpTypes
    <3>4. QED
      BY <3>1, <3>2, <3>3
  <2>2. ASSUME IsIO(a.job) PROVE a.ctr = NoCounter
    <3>1. [prio |-> a.prio, job |-> a.job] \in Submissions
      BY <2>1 DEF AsksInv, AsksListed, Submission
    <3>2. [prio |-> "io", job |-> a.job] = [prio |-> a.prio, job |-> a.job]
      BY <2>2, <3>1, OnePrio DEF IsIO
    <3>3. a.prio = "io"
      BY <3>2
    <3>4. CASE a \in AllOps
      BY <2>1, <3>3, <3>4 DEF IOUncounted
    <3>5. CASE a \notin AllOps
      <4>1. PICK k \in DOMAIN Remaining(f) : EraseAt(f, k)
        BY <2>1, <3>5 DEF FromProgram, From
      <4>2. PICK c \in Counters : c = Remaining(f)[k].ctr
        BY <4>1, StepFirst DEF JobInv
      <4>3. /\ k \in {1, 2, 3} /\ entries[c] # <<>>
            /\ k = 1 => a.op = "erase"
            /\ k = 2 => a = Wait(c, 0)
            /\ k = 3 => a = Schedule(Head(entries[c]).prio, Head(entries[c]).job, c)
        BY <2>1, <4>1, <4>2, StepFirst DEF JobInv
      <4>4. a = Schedule(Head(entries[c]).prio, Head(entries[c]).job, c)
        BY <2>1, <4>3 DEF Wait
      <4>5. Head(entries[c]).prio = "io"
        BY <3>3, <4>4 DEF Schedule
      <4>6. PICK b \in AllOps : b = [op |-> "add", ctr |-> c, entry |-> Head(entries[c])]
        BY <4>2, <4>3, HeadTypes DEF Added
      <4>7. b.op = "add" /\ b.entry.prio = "io"
        BY <4>5, <4>6
      <4>8. QED
        BY <4>7 DEF IOUncounted
    <3>6. QED
      BY <3>4, <3>5
  <2>3. QED
    BY <1>0, <2>1, <2>2 DEF IOFree
<1>4. QED
  BY <1>1, <1>2, <1>3 DEF Moves, Idles, Passes, Changes, Unfolds, Takes, Finishes, Drops

\* so that with one worker only the worker walks, and the counter it walks for keeps its
\* value meanwhile.
WalkSees ==
  \A g \in Fibers : call[g].pc \in CheckPC =>
    running[MainThread] = g /\ counter[call[g].ctr] = call[g].value

\* Each step of a fiber keeps it so,
LEMMA WalkSeesStep ==
  ASSUME SchedInv, LeftInv, IOInv, TwoThreads, WaitInv, FromCode, IOUncounted, IOFree, WalkSees,
         NEW t \in Threads, NEW f \in Fibers, running[t] = f, FiberStep(t, f)
  PROVE  WalkSees'
<1>0. /\ TypeInv /\ TypeOK /\ FramesOK /\ InCall /\ NoFiber \notin Fibers /\ NoCounter \notin Counters
      /\ MainThread \in Threads /\ IOThread \in Threads /\ MainThread # IOThread
  BY SchedulerAssumption, CounterAssumption
     DEF SchedInv, TypeInv, TypeOK, FramesOK, WaitInv, Threads, MainThread, IOThread
<1>1. /\ \A g \in Fibers : g # f => call'[g] = call[g]
      /\ \A u \in Threads : u # t => running'[u] = running[u]
  BY <1>0, CallMoves, StepPlaces DEF Elsewhere
<1>2. /\ call[f].pc \in CheckPC => UNCHANGED <<counter, running>>
      /\ \/ \E c \in Counters : BeginsWalk(t, f, c)
         \/ NewCounter(t, f) /\ UNCHANGED call
         \/ UNCHANGED counter /\ (call'[f].pc \in CheckPC => GoesOn(f))
  BY <1>0, WalkMoves
<1>3. t = MainThread \/ t = IOThread
  BY <1>0 DEF TwoThreads
<1>4. CASE t = MainThread
  <2>1. \A g \in Fibers : g # f => call'[g].pc \notin CheckPC
    BY <1>1, <1>4 DEF WalkSees
  <2>2. SUFFICES ASSUME call'[f].pc \in CheckPC
                 PROVE  running'[t] = f /\ counter'[call'[f].ctr] = call'[f].value
    BY <1>4, <2>1 DEF WalkSees
  <2>3. ASSUME NEW c \in Counters, BeginsWalk(t, f, c)
        PROVE  running'[t] = f /\ counter'[call'[f].ctr] = call'[f].value
    BY <2>3 DEF BeginsWalk
  <2>4. ASSUME NewCounter(t, f) /\ UNCHANGED call
        PROVE  FALSE
    <3>1. fpc[f] = "body"
      BY <2>4 DEF NewCounter, Starts, On
    <3>2. fpc[f] \in {"enqueue", "end"}
      BY <1>0, <2>2, <2>4 DEF InCall, CallFits
    <3>3. QED
      BY <3>1, <3>2
  <2>5. ASSUME UNCHANGED counter, GoesOn(f)
        PROVE  running'[t] = f /\ counter'[call'[f].ctr] = call'[f].value
    BY <1>2, <1>4, <2>5 DEF WalkSees, GoesOn
  <2>6. QED
    BY <1>2, <2>2, <2>3, <2>4, <2>5
<1>5. CASE t = IOThread
  <2>1. running[MainThread] # f /\ running'[MainThread] = running[MainThread]
    BY <1>0, <1>1, <1>5 DEF LeftInv, OneHas, Has
  <2>2. call[f].pc \notin CheckPC
    BY <2>1 DEF WalkSees
  <2>3. IOHas(frame[f].job) \/ frame[f].job = NoJob
    BY <1>5 DEF IOInv, IOOnly
  <2>4. ASSUME On(f, "body") PROVE IOHas(frame[f].job)
    BY <1>0, <2>3, <2>4, FrameFields, SchedulerAssumption DEF On, JobAt, Executing
  <2>5. ASSUME On(f, "body"), frame[f].rest # <<>>, NextOp(f).op \in OnCounter, NextOp(f).ctr \in Counters
        PROVE  FALSE
    <3>1. PICK j \in Jobs : j = frame[f].job /\ IsIO(j)
      BY <2>4, <2>5 DEF IOHas
    <3>2. PICK c \in Counters : c = NextOp(f).ctr
      BY <2>5
    <3>3. Uses(j, c)
      BY <1>0, <2>5, <3>1, <3>2, NextUses DEF FromCode, OfCode
    <3>4. QED
      BY <3>1, <3>3 DEF IOUncounted
  <2>6. ASSUME NEW c \in Counters, BeginsWalk(t, f, c)
        PROVE  FALSE
    <3>1. CASE ScheduleCount(t, f) /\ c = NextOp(f).ctr
      BY <2>5, <3>1 DEF ScheduleCount, Starts, OnCounter
    <3>2. CASE Finish(t, f) /\ c = jobCounter[frame[f].job]
      <4>1. IOHas(frame[f].job)
        BY <2>4, <3>2 DEF Finish, AtEnd
      <4>2. QED
        BY <1>0, <3>2, <4>1 DEF IOFree, IOHas
    <3>3. QED
      BY <2>6, <3>1, <3>2 DEF BeginsWalk
  <2>7. ~NewCounter(t, f)
    <3>1. SUFFICES ASSUME Starts(f, "new") PROVE FALSE
      BY DEF NewCounter
    <3>2. On(f, "body") /\ frame[f].rest # <<>> /\ NextOp(f).op = "new"
      BY <3>1 DEF Starts
    <3>3. NextOp(f).ctr \in Counters
      BY <1>0, <3>2, NextOpTypes, OpTypes
    <3>4. QED
      BY <2>5, <3>2, <3>3 DEF OnCounter
  <2>8. UNCHANGED counter /\ call'[f].pc \notin CheckPC
    BY <1>2, <2>2, <2>6, <2>7 DEF GoesOn
  <2>9. QED
    BY <1>1, <2>1, <2>8 DEF WalkSees
<1>6. QED
  BY <1>3, <1>4, <1>5

\* The invariant of one worker.
AloneInv == FromProgram /\ Added /\ IOUncounted /\ IOFree /\ WalkSees

\* Every step keeps the invariant of one worker,
LEMMA AloneNext ==
  ASSUME SchedInv, LeftInv, SortInv, IOInv, TwoThreads, WaitInv, FromCode, AloneInv, [Next]_vars
  PROVE  AloneInv'
<1>0. TypeOK /\ TypeInv /\ FramesOK /\ JobInv
  BY DEF SchedInv, TypeInv, TypeOK, FramesOK
<1>1. ASSUME UNCHANGED <<fiberVars, programVars>>
      PROVE  FromProgram' /\ Added' /\ IOUncounted' /\ IOFree'
  <2>1. /\ UNCHANGED <<program, frame, entries, jobCounter>>
        /\ \A g \in Fibers : Remaining(g)' = Remaining(g)
    BY <1>1 DEF fiberVars, programVars, Remaining
  <2>2. AllOps' = AllOps /\ Submissions' = Submissions
    BY <2>1 DEF AllOps, Submissions
  <2>3. \A g \in Fibers : \A i : EraseAt(g, i)' <=> EraseAt(g, i)
    BY <2>1 DEF EraseAt
  <2>4. FromProgram' /\ Added'
    BY <2>1, <2>2, <2>3 DEF AloneInv, FromProgram, From, Added
  <2>5. IOUncounted' /\ IOFree'
    BY <2>1, <2>2 DEF AloneInv, IOUncounted, IOFree, IsIO, Uses
  <2>6. QED
    BY <2>4, <2>5
<1>2. CASE UNCHANGED vars
  <2>1. WalkSees'
    BY <1>2 DEF vars, counterVars, schedVars, threadVars, AloneInv, WalkSees
  <2>2. QED
    BY <1>1, <1>2, <2>1 DEF vars, schedVars, AloneInv
<1>3. ASSUME NEW t \in Threads, StartThread(t) \/ Run(t)
      PROVE  AloneInv'
  <2>1. UNCHANGED counterVars /\ UNCHANGED <<fiberVars, programVars>>
    BY <1>3 DEF StartThread, Run
  <2>2. running'[MainThread] = running[MainThread]
    <3>1. CASE Run(t)
      BY <3>1 DEF Run
    <3>2. CASE StartThread(t)
      <4>1. t # MainThread /\ FindFreeFiber(t)
        BY <3>2 DEF TwoThreads, StartThread
      <4>2. UNCHANGED running \/ running' = [running EXCEPT ![t] = probe[t]]
        BY <4>1 DEF FindFreeFiber, NextProbe, SwitchTo
      <4>3. running \in [Threads -> Fibers \cup {NoFiber}] /\ MainThread \in Threads
        BY <1>0, SchedulerAssumption DEF TypeOK, Threads, MainThread
      <4>4. QED
        BY <4>1, <4>2, <4>3
    <3>3. QED
      BY <1>3, <3>1, <3>2
  <2>3. WalkSees'
    BY <2>1, <2>2 DEF counterVars, AloneInv, WalkSees
  <2>4. QED
    BY <1>1, <2>1, <2>3 DEF AloneInv
<1>4. ASSUME NEW t \in Threads, running[t] # NoFiber, FiberStep(t, running[t])
      PROVE  AloneInv'
  <2>1. PICK f \in Fibers : f = running[t]
    BY <1>0, <1>4 DEF TypeOK
  <2>2. Moves(f)
    BY <1>0, <1>4, <2>1, StepMoves
  <2>3. FromProgram' /\ Added'
    BY <1>0, <2>2, FromStep, AddedStep DEF AloneInv
  <2>4. IOFree'
    BY <1>0, <2>2, IOFreeStep DEF AloneInv, SortInv
  <2>5. WalkSees'
    BY <1>4, <2>1, WalkSeesStep DEF AloneInv
  <2>6. IOUncounted'
    <3>1. UNCHANGED program /\ AllOps' = AllOps /\ \A j : IsIO(j)' <=> IsIO(j)
      BY <2>2, OthersKeep
    <3>2. QED
      BY <3>1 DEF AloneInv, IOUncounted, Uses
  <2>7. QED
    BY <2>3, <2>4, <2>5, <2>6 DEF AloneInv
<1>5. QED
  BY <1>2, <1>3, <1>4 DEF Next, ThreadStep, Terminated

\* which holds at the start.
LEMMA AloneInit ==
  ASSUME Init, IOUncounted
  PROVE  AloneInv /\ IOJobsStay
<1>0. TypeOK
  BY InitTypes DEF TypeInv
<1>1. FromProgram /\ Added
  BY QueueInvInit DEF QueueInv
<1>2. IOFree /\ WalkSees
  BY DEF Init, CounterInit, IOFree, WalkSees, NoCall, CheckPC
<1>3. IOJobsStay
  <2>1. SUFFICES ASSUME NEW j \in Jobs, IsIO(j), NEW i \in DOMAIN program.body[j],
                        program.body[j][i].op \in MayLeave
                 PROVE  FALSE
    BY DEF IOJobsStay
  <2>2. j \in Code /\ program.body[j][i] \in Op
    BY <1>0, ProgramOps DEF Code
  <2>3. PICK c \in Counters : c = program.body[j][i].ctr
    BY <2>1, <2>2, OpTypes DEF MayLeave, Waits
  <2>4. Uses(j, c)
    BY <2>1, <2>3 DEF Uses, OnCounter, MayLeave
  <2>5. QED
    BY <2>1, <2>4 DEF IOUncounted
<1>4. QED
  BY <1>1, <1>2, <1>3 DEF AloneInv

\* README.md:2, ManagerJobs.cpp:82-91.  With main's thread as the only worker, IO jobs that
\* have nothing to do with counters, and a program that keeps to CountersKept, no job
\* scheduled with a counter is still to be executed when a wait for it is over; where the
\* IO thread has started before a fiber is left in GetNextJob.
THEOREM OneWorkerIsDone ==
  Spec /\ OnlyMainWorks /\ IOUncounted /\ CountersKept /\ []StartedFirst => WaitMeansDone
<1>1. Init /\ OnlyMainWorks /\ IOUncounted /\ CountersKept /\ TypeOK
        => LeftInv /\ SortInv /\ IOInv /\ TwoThreads /\ WaitInv /\ FromCode /\ AloneInv /\ OneWaiter
  BY InitLeft, AloneInit, IOInit, TwoThreadsInit, WaitInit, OwnedWaits DEF CountersKept
<1>2. /\ SchedInv /\ SchedInv' /\ StartedFirst /\ [Next]_vars
      /\ LeftInv /\ SortInv /\ IOInv /\ TwoThreads
      /\ WaitInv /\ FromCode /\ AloneInv /\ OneWaiter
      => /\ LeftInv' /\ SortInv' /\ IOInv' /\ TwoThreads'
         /\ WaitInv' /\ FromCode' /\ AloneInv' /\ OneWaiter'
  <2>1. SUFFICES ASSUME SchedInv, SchedInv', StartedFirst, [Next]_vars,
                        LeftInv, SortInv, IOInv, TwoThreads,
                        WaitInv, FromCode, AloneInv, OneWaiter
                 PROVE  /\ LeftInv' /\ SortInv' /\ IOInv' /\ TwoThreads'
                        /\ WaitInv' /\ FromCode' /\ AloneInv' /\ OneWaiter'
    OBVIOUS
  <2>2. TypeOK /\ TypeOK' /\ IOThread \in Threads
    BY <2>1, SchedulerAssumption DEF SchedInv, TypeInv, IOThread, Threads
  <2>3. SameThread /\ TwoThreads' /\ IOStartsFresh
    BY <2>1, <2>2, TwoThreadsSame, TwoThreadsNext, StartsFresh DEF IOStartsFresh
  <2>4. LeftInv'
    BY <2>1, <2>2, <2>3, NextLeft
  <2>5. SortInv' /\ IOInv'
    BY <2>1, <2>3, IONext
  <2>6. WaitInv' /\ FromCode' /\ OneWaiter'
    BY <2>1, WaitNext
  <2>7. AloneInv'
    BY <2>1, AloneNext
  <2>8. QED
    BY <2>3, <2>4, <2>5, <2>6, <2>7
<1>3. SchedInv => TypeOK
  BY DEF SchedInv, TypeInv
<1>4. TypeOK /\ IOInv /\ TwoThreads /\ AloneInv => SameThread /\ ChecksAreFresh
  <2>1. AloneInv => ChecksAreFresh
    BY DEF AloneInv, WalkSees, ChecksAreFresh
  <2>2. QED
    BY <2>1, TwoThreadsSame
<1>5. Spec /\ OnlyMainWorks /\ IOUncounted /\ CountersKept /\ []StartedFirst
        => []SameThread /\ []ChecksAreFresh
  BY <1>1, <1>2, <1>3, <1>4, SchedulerInvariant, PTL DEF Spec
<1>6. QED
  BY <1>5, WaitsMeanDone, PTL

\* Manager.h:116-126, README.md:66.  Then the Manager is a job service, and the jobs of a
\* Queue are executed one after the other.
THEOREM OneWorkerServes ==
  Spec /\ OnlyMainWorks /\ IOUncounted /\ CountersKept /\ []StartedFirst
    => IsJobService /\ []Consecutive
<1>1. QED
  BY OneWorkerIsDone, ServicePromised, ExecutesConsecutively, PTL

\* Manager.h:116-126, README.md:66.  With main's thread alone, which has the jobs of IO of no
\* use, nothing has to be assumed of what happens.
THEOREM OneThreadServes ==
  Spec /\ OnlyMain /\ IOUncounted /\ CountersKept => WaitMeansDone /\ IsJobService /\ []Consecutive
<1>1. OnlyMain => OnlyMainWorks
  BY DEF OnlyMain, OnlyMainWorks
<1>2. QED
  BY <1>1, OnlyMainStarted, OneWorkerIsDone, OneWorkerServes, PTL

----------------------------------------------------------------------------
(* Counters of one job.                                                    *)

\* A condition on the program: each counter is raised once, by one ScheduleJob, as that of
\* WaitForSingle is while no other counter is constructed at its address.
OneJobEach ==
  \A a, b \in AllOps, c \in Counters :
    Raises(a, c) => a.op = "schedule" /\ (Raises(b, c) => a = b)

\* What is left to do is in the program, and so is what a job was scheduled with.
OpsListed == \A f \in Fibers : \A i \in DOMAIN Remaining(f) : Remaining(f)[i] \in AllOps
Booked ==
  \A j \in Jobs : jobCounter[j] # NoCounter =>
    \E a \in AllOps : a.op = "schedule" /\ a.ctr = jobCounter[j] /\ a.job = j
\* A walk for 0 is that of a job that is done.
WalkDone ==
  \A g \in Fibers : call[g].pc \in CheckPC /\ call[g].value = 0 =>
    \E j \in Jobs : jobCounter[j] = call[g].ctr /\ status[j] = "done"

SingleInv == OneJobEach /\ OpsListed /\ Booked /\ WalkDone

\* No operation of a Queue raises a counter.
LEMMA ListedStep ==
  ASSUME TypeOK, FramesOK, JobInv, OneJobEach, OpsListed, NEW f \in Fibers, Moves(f)
  PROVE  OneJobEach' /\ OpsListed'
<1>0. /\ AllOps' = AllOps /\ UNCHANGED program
      /\ \A g \in Fibers : g # f => Remaining(g)' = Remaining(g)
  BY OthersKeep
<1>1. \A op : ~Unfolded(f, op)
  BY DEF Unfolded, OneJobEach, OpsListed, Raises
<1>2. \A x \in Code : \A i \in DOMAIN program.body[x] : program.body[x][i] \in AllOps
  BY ProgramOps
<1>3. \A i \in DOMAIN Remaining(f)' : Remaining(f)'[i] \in AllOps
  <2>1. SUFFICES ASSUME NEW i \in DOMAIN Remaining(f)' PROVE Remaining(f)'[i] \in AllOps
    OBVIOUS
  <2>2. CASE \E k \in DOMAIN Remaining(f) : Remaining(f)'[i] = Remaining(f)[k]
    BY <2>2 DEF OpsListed
  <2>3. CASE /\ frame'[f].job \in Code /\ i \in DOMAIN program.body[frame'[f].job]
             /\ Remaining(f)'[i] = program.body[frame'[f].job][i]
    BY <1>2, <2>3
  <2>4. QED
    BY <1>1, <2>2, <2>3, OpsFrom
<1>4. ASSUME NEW g \in Fibers PROVE \A i \in DOMAIN Remaining(g)' : Remaining(g)'[i] \in AllOps
  <2>1. CASE g = f
    BY <1>3, <2>1
  <2>2. CASE g # f
    BY <1>0, <2>2 DEF OpsListed
  <2>3. QED
    BY <2>1, <2>2
<1>5. QED
  BY <1>0, <1>4 DEF OneJobEach, OpsListed

\* A job is booked when it is submitted, and one that is done stays done.
LEMMA BookedStep ==
  ASSUME TypeOK, FramesOK, JobInv, OpsListed, Booked, NEW f \in Fibers, Moves(f)
  PROVE  /\ Booked'
         /\ \A j \in Jobs : status[j] = "done" => status'[j] = "done" /\ jobCounter'[j] = jobCounter[j]
<1>0. /\ AllOps' = AllOps /\ Once /\ InQueue
      /\ jobCounter \in [Jobs -> Counters \cup {NoCounter}]
      /\ status \in [Jobs -> {"new", "queued", "started", "done"}]
  BY OthersKeep DEF TypeOK, JobInv
<1>1. CASE Submits(f)
  <2>1. Faces(f, {"schedule"}) /\ Phase(f) = "on"
        /\ Enqueues(Head(Remaining(f)).prio, Head(Remaining(f)).job, Head(Remaining(f)).ctr)
    BY <1>1 DEF Submits
  <2>2. PICK a \in Op : a = Head(Remaining(f)) /\ a \in AllOps /\ a.op = "schedule"
    BY <2>1, FacesTypes DEF OpsListed
  <2>3. a.job \in Jobs /\ AsksFor(a, a.job)
    BY <2>2, OpTypes, AsksWhat
  <2>4. Faces(f, {"schedule", "blockingWait", "add"})
    BY <2>1 DEF Faces
  <2>5. status[a.job] = "new"
    BY <1>0, <2>1, <2>2, <2>3, <2>4, FirstIsNew
  <2>6. /\ jobCounter' = [jobCounter EXCEPT ![a.job] = a.ctr]
        /\ status' = [status EXCEPT ![a.job] = "queued"]
    BY <2>1, <2>2 DEF Enqueues
  <2>7. QED
    BY <1>0, <2>2, <2>3, <2>5, <2>6 DEF Booked
<1>2. CASE SubmitsProxy(f)
  <2>1. Faces(f, {"blockingWait"}) /\ Phase(f) = "on"
        /\ Enqueues("high", Head(Remaining(f)).proxy, NoCounter)
    BY <1>2 DEF SubmitsProxy
  <2>2. PICK a \in Op : a = Head(Remaining(f)) /\ a.op = "blockingWait"
    BY <2>1, FacesTypes
  <2>3. a.proxy \in Jobs /\ AsksFor(a, a.proxy)
    BY <2>2, OpTypes, AsksWhat
  <2>4. Faces(f, {"schedule", "blockingWait", "add"})
    BY <2>1 DEF Faces
  <2>5. status[a.proxy] = "new"
    BY <1>0, <2>1, <2>2, <2>3, <2>4, FirstIsNew
  <2>6. /\ jobCounter' = [jobCounter EXCEPT ![a.proxy] = NoCounter]
        /\ status' = [status EXCEPT ![a.proxy] = "queued"]
    BY <2>1, <2>2 DEF Enqueues
  <2>7. QED
    BY <1>0, <2>3, <2>5, <2>6 DEF Booked
<1>3. ASSUME UNCHANGED jobCounter PROVE Booked'
  BY <1>0, <1>3 DEF Booked
<1>4. ASSUME NEW p \in Prio, Takes(f, p)
      PROVE  /\ UNCHANGED jobCounter
             /\ \A j \in Jobs : status[j] = "done" => status'[j] = "done"
  <2>1. queue[p] # <<>> /\ status' = [status EXCEPT ![Head(queue[p])] = "started"] /\ UNCHANGED jobCounter
    BY <1>4 DEF Takes
  <2>2. status[Head(queue[p])] = "queued"
    BY <1>0, <2>1, TakenQueued
  <2>3. QED
    BY <1>0, <2>1, <2>2
<1>5. CASE Finishes(f)
  <2>1. status' = [status EXCEPT ![frame[f].job] = "done"] /\ UNCHANGED jobCounter
    BY <1>5 DEF Finishes
  <2>2. QED
    BY <1>0, <1>3, <2>1
<1>6. CASE Idles(f) \/ Passes(f) \/ Changes(f) \/ Unfolds(f) \/ Drops(f)
  BY <1>3, <1>6 DEF Idles, Passes, Changes, Unfolds, Drops
<1>7. QED
  BY <1>1, <1>2, <1>3, <1>4, <1>5, <1>6 DEF Moves

\* A counter whose job is done has no job left: it is 0.
LEMMA SinglesAreFresh ==
  ASSUME SchedInv, Counted, SingleInv
  PROVE  ChecksAreFresh
<1>0. TypeOK /\ FramesOK /\ JobInv /\ NoCounter \notin Counters
  BY CounterAssumption DEF SchedInv, TypeInv, TypeOK, FramesOK
<1>1. SUFFICES ASSUME NEW g \in Fibers, call[g].pc \in CheckPC, call[g].value = 0
               PROVE  counter[call[g].ctr] = 0
  BY DEF ChecksAreFresh
<1>2. PICK c \in Counters : c = call[g].ctr
  BY <1>0, <1>1 DEF TypeOK, CounterTypeOK, CheckPC
<1>3. PICK j \in Jobs : jobCounter[j] = c /\ status[j] = "done"
  BY <1>1, <1>2 DEF SingleInv, WalkDone
<1>4. PICK a \in AllOps : a.op = "schedule" /\ a.ctr = c /\ a.job = j
  BY <1>0, <1>3 DEF SingleInv, Booked
<1>5. ASSUME NEW b \in AllOps, b.op = "schedule", b.ctr = c PROVE b.job = j
  BY <1>4, <1>5 DEF SingleInv, OneJobEach, Raises
<1>6. Live(c) = {}
  <2>1. ASSUME NEW k \in Jobs, jobCounter[k] = c PROVE k = j
    BY <1>0, <1>5, <2>1 DEF SingleInv, Booked
  <2>2. ASSUME NEW k \in Jobs, NEW f \in Fibers, Held(f, c, k) PROVE FALSE
    <3>1. /\ 1 \in DOMAIN Remaining(f) /\ Remaining(f)[1].op = "schedule"
          /\ Remaining(f)[1].ctr = c /\ Remaining(f)[1].job = k
      <4>1. frame[f].op # NoOp
        BY <2>2, NoOpIsNone DEF Held
      <4>2. Faces(f, {"schedule"}) /\ Head(Remaining(f)) = frame[f].op
        BY <1>0, <2>2, <4>1, RemainingIs DEF Faces, Held
      <4>3. QED
        BY <1>0, <2>2, <4>2, FacesTypes DEF Held
    <3>2. k = j
      BY <1>5, <3>1 DEF SingleInv, OpsListed
    <3>3. status[k] = "new"
      BY <1>0, <2>2, HeldNew DEF JobInv
    <3>4. QED
      BY <1>3, <3>2, <3>3
  <2>3. QED
    BY <1>3, <2>1, <2>2 DEF Live
<1>7. QED
  BY <1>2, <1>6, FS_EmptySet DEF Counted

\* A walk for 0 begins at the end of the job its counter was raised for.
LEMMA SingleStep ==
  ASSUME SchedInv, LeftInv, WaitInv, Counted, Cardinality(Jobs) < UnitMod, SingleInv,
         NEW t \in Threads, NEW f \in Fibers, running[t] = f, FiberStep(t, f)
  PROVE  SingleInv'
<1>0. /\ TypeInv /\ TypeOK /\ FramesOK /\ JobInv /\ InCall /\ Moves(f)
      /\ OneJobEach /\ OpsListed /\ Booked /\ WalkDone
      /\ counter \in [Counters -> Unit] /\ status \in [Jobs -> {"new", "queued", "started", "done"}]
  BY StepMoves DEF SchedInv, TypeInv, TypeOK, FramesOK, CounterTypeOK, WaitInv, SingleInv
<1>1. OneJobEach' /\ OpsListed'
  BY <1>0, ListedStep
<1>2. /\ Booked'
      /\ \A j \in Jobs : status[j] = "done" => status'[j] = "done" /\ jobCounter'[j] = jobCounter[j]
  BY <1>0, BookedStep
<1>3. ASSUME NEW g \in Fibers, call[g].pc \in CheckPC, call[g].value = 0,
             call'[g].ctr = call[g].ctr
      PROVE  \E j \in Jobs : jobCounter'[j] = call'[g].ctr /\ status'[j] = "done"
  <2>1. PICK j \in Jobs : jobCounter[j] = call[g].ctr /\ status[j] = "done"
    BY <1>0, <1>3 DEF WalkDone
  <2>2. QED
    BY <1>2, <1>3, <2>1
<1>4. ASSUME NEW c \in Counters, BeginsWalk(t, f, c), call'[f].value = 0
      PROVE  \E j \in Jobs : jobCounter'[j] = call'[f].ctr /\ status'[j] = "done"
  <2>1. counter'[c] = 0 /\ call'[f].ctr = c
    BY <1>4 DEF BeginsWalk
  <2>2. CASE ScheduleCount(t, f) /\ c = NextOp(f).ctr
    <3>1. counter'[c] = counter[c] + 1
      BY <1>0, <2>2, CountedUp
    <3>2. counter[c] \in Nat
      BY <1>0 DEF Unit
    <3>3. QED
      BY <2>1, <3>1, <3>2
  <2>3. CASE Finish(t, f) /\ c = jobCounter[frame[f].job]
    <3>1. PICK j \in Jobs : j = frame[f].job
      BY <1>0, <2>3, CountedDown
    <3>2. status'[j] = "done" /\ jobCounter'[j] = c
      BY <1>0, <2>3, <3>1 DEF Finish
    <3>3. QED
      BY <2>1, <3>2
  <2>4. QED
    BY <1>4, <2>2, <2>3 DEF BeginsWalk
<1>5. ASSUME NEW g \in Fibers, call'[g].pc \in CheckPC, call'[g].value = 0
      PROVE  \E j \in Jobs : jobCounter'[j] = call'[g].ctr /\ status'[j] = "done"
  <2>1. CASE call'[g] = call[g]
    BY <1>3, <1>5, <2>1
  <2>2. CASE g # f
    BY <1>0, <2>1, <2>2, CallMoves
  <2>3. CASE g = f
    <3>1. \/ \E c \in Counters : BeginsWalk(t, f, c)
          \/ NewCounter(t, f) /\ UNCHANGED call
          \/ UNCHANGED counter /\ (call'[f].pc \in CheckPC => GoesOn(f))
      BY <1>0, WalkMoves
    <3>2. CASE GoesOn(f)
      BY <1>3, <1>5, <2>3, <3>2 DEF GoesOn
    <3>3. QED
      BY <1>4, <1>5, <2>1, <2>3, <3>1, <3>2
  <2>4. QED
    BY <2>2, <2>3
<1>6. WalkDone'
  BY <1>5 DEF WalkDone
<1>7. QED
  BY <1>1, <1>2, <1>6 DEF SingleInv

\* Every step keeps it so,
LEMMA SingleNext ==
  ASSUME SchedInv, LeftInv, WaitInv, EndInv, CountersKept, SingleInv, [Next]_vars
  PROVE  SingleInv'
<1>0. TypeOK
  BY DEF SchedInv, TypeInv
<1>1. ASSUME UNCHANGED <<counterVars, fiberVars, programVars>>
      PROVE  SingleInv'
  <2>1. /\ UNCHANGED <<program, frame, call, jobCounter, status>>
        /\ \A g \in Fibers : Remaining(g)' = Remaining(g)
    BY <1>1 DEF counterVars, fiberVars, programVars, Remaining
  <2>2. AllOps' = AllOps
    BY <2>1 DEF AllOps
  <2>3. OneJobEach' /\ OpsListed'
    BY <2>1, <2>2 DEF SingleInv, OneJobEach, OpsListed
  <2>4. Booked' /\ WalkDone'
    BY <2>1, <2>2 DEF SingleInv, Booked, WalkDone
  <2>5. QED
    BY <2>3, <2>4 DEF SingleInv
<1>2. CASE UNCHANGED vars
  BY <1>1, <1>2 DEF vars, schedVars
<1>3. ASSUME NEW t \in Threads, StartThread(t) \/ Run(t)
      PROVE  SingleInv'
  BY <1>1, <1>3 DEF StartThread, Run
<1>4. ASSUME NEW t \in Threads, running[t] # NoFiber, FiberStep(t, running[t])
      PROVE  SingleInv'
  <2>1. PICK f \in Fibers : f = running[t]
    BY <1>0, <1>4 DEF TypeOK
  <2>2. QED
    BY <1>4, <2>1, SingleStep DEF EndInv, CountersKept
<1>5. QED
  BY <1>2, <1>3, <1>4 DEF Next, ThreadStep, Terminated

\* and it is so at the start.
LEMMA SingleInit ==
  ASSUME Init, OneJobEach
  PROVE  SingleInv
<1>0. /\ TypeOK /\ FramesOK
      /\ jobCounter = [j \in Jobs |-> NoCounter] /\ call = [f \in Fibers |-> NoCall]
      /\ \A f \in Fibers : frame[f].op = NoOp /\ fpc[f] \in {"body", "fresh"}
  BY InitTypes DEF Init, CounterInit, TypeInv, TypeOK, FramesOK
<1>1. ASSUME NEW f \in Fibers
      PROVE  Remaining(f) = IF f = running[MainThread] THEN program.body[MainJob] ELSE <<>>
  <2>1. frame[f].rest = IF f = running[MainThread] THEN program.body[MainJob] ELSE <<>>
    BY DEF Init
  <2>2. QED
    BY <1>0, <2>1, RemainingIs
<1>2. OpsListed
  BY <1>0, <1>1, ProgramOps DEF OpsListed, Code
<1>3. Booked /\ WalkDone
  BY <1>0 DEF Booked, WalkDone, NoCall, CheckPC
<1>4. QED
  BY <1>2, <1>3 DEF SingleInv

\* README.md:2, Counter.cpp:105-130.  Where each counter is raised by one ScheduleJob, no
\* walk for 0 is overtaken: it comes after the only Increment.  Then, however many workers
\* there are, the job of the counter is done when the wait for it is over.
THEOREM OneJobWaits == Spec /\ CountersKept /\ OneJobEach /\ []SameThread => WaitMeansDone
<1>1. Init /\ TypeOK /\ CountersKept /\ OneJobEach => LeftInv /\ WaitInv /\ FromCode /\ EndInv /\ SingleInv
  BY InitLeft, WaitInit, EndInit, SingleInit
<1>2. SchedInv /\ EndInv /\ SingleInv => ChecksAreFresh
  BY SinglesAreFresh DEF EndInv
<1>3. /\ SchedInv /\ SchedInv' /\ SameThread /\ ChecksAreFresh /\ [Next]_vars
      /\ LeftInv /\ WaitInv /\ FromCode /\ CountersKept /\ EndInv /\ SingleInv
      => LeftInv' /\ WaitInv' /\ FromCode' /\ CountersKept' /\ EndInv' /\ SingleInv'
  <2>1. SUFFICES ASSUME SchedInv, SchedInv', SameThread, ChecksAreFresh, [Next]_vars,
                        LeftInv, WaitInv, FromCode, CountersKept, EndInv, SingleInv
                 PROVE  /\ LeftInv' /\ WaitInv' /\ FromCode' /\ CountersKept'
                        /\ EndInv' /\ SingleInv'
    OBVIOUS
  <2>2. LeftInv'
    BY <2>1, NextLeft DEF SchedInv, TypeInv
  <2>3. WaitInv' /\ FromCode' /\ CountersKept' /\ EndInv'
    BY <2>1, EndNext
  <2>4. SingleInv'
    BY <2>1, SingleNext
  <2>5. QED
    BY <2>2, <2>3, <2>4
<1>4. SchedInv => TypeOK
  BY DEF SchedInv, TypeInv
<1>5. Spec /\ CountersKept /\ OneJobEach /\ []SameThread => []ChecksAreFresh
  BY <1>1, <1>2, <1>3, <1>4, SchedulerInvariant, PTL DEF Spec
<1>6. QED
  BY <1>5, WaitsMeanDone, PTL

\* With main's thread as the only worker, the jobs of IO may then be waited for as well,
\* where the IO thread has started before a fiber is left in GetNextJob.
THEOREM OneWorkerJobs ==
  Spec /\ OnlyMainWorks /\ IOJobsStay /\ CountersKept /\ OneJobEach /\ []StartedFirst => WaitMeansDone
<1>1. Spec /\ OnlyMainWorks /\ IOJobsStay /\ []StartedFirst => []SameThread
  BY OneWorkerIsSafe, PTL
<1>2. QED
  BY <1>1, OneJobWaits, PTL

----------------------------------------------------------------------------
(* Several workers and one code that waits.                                *)

\* Conditions on the program: w is the only code whose waits leave a fiber, and main's fiber
\* is not left for good unless w is main.
Leaver(w) ==
  /\ \A x \in Code, c \in Counters : WaitsOn(x, c) => x = w
  /\ program.shutdownAfterMain \/ w = MainJob
OneLeaver == \E w \in Code : Leaver(w)

\* A fiber that was never used.
Spare(g) == idle[g] /\ fpc[g] = "fresh"

\* A thread is on w's fiber, or that is over.
WorksFor(w, t) == \A h \in Fibers : frame[h].job = w => running[t] = h \/ fpc[h] = "over"

\* A thread looks for a fiber: its first one, or the next one for a fiber it leaves.
Looks(t) == tpc[t] = "find" \/ (running[t] \in Fibers /\ fpc[running[t]] \in {"find", "findLast"})

\* A thread on a fiber in GetNextJob is the one it holds the TLS of.  There is one fiber at
\* most that this thread was taken off, and then it is on w's fiber.  Spare fibers come
\* after all others, and a thread that looks for a fiber has passed no idle one: the first
\* that is found is the one that was left.
TurnsOwn == \A t \in Threads, f \in Fibers : running[t] = f /\ fpc[f] \in Turning => frame[f].tls = t
GivesWay(w) == \A g \in Fibers : Displaced(g) =>
  /\ idle[g] \/ Left(frame[g].tls, g)
  /\ w \in Jobs => status[w] \in {"started", "done"}
  /\ WorksFor(w, frame[g].tls)
  /\ \A k \in Fibers : Displaced(k) => k = g
SparesLast == \A g, k \in Fibers : Spare(k) /\ ~Spare(g) => g < k
Probed == \A t \in Threads :
  /\ \A g \in Fibers : g < probe[t] => ~idle[g]
  /\ probe[t] # 0 => Looks(t)
LastOut(w) == \A f \in Fibers : fpc[f] = "findLast" => w = MainJob /\ frame[f].job = w

TurnsInv(w) ==
  Leaver(w) /\ TurnsOwn /\ GivesWay(w) /\ SparesLast /\ Probed /\ LastOut(w)
TurnInv == \E w \in Code : TurnsInv(w)

\* Who leaves a fiber is w.
LEMMA LeaverLeaves ==
  ASSUME FramesOK, FromCode, NEW w, Leaver(w), NEW f \in Fibers,
         fpc[f] \in {"adding", "find", "inWait", "inWaitClear"}
  PROVE  frame[f].job = w
<1>1. frame[f].op.op = "wait" /\ frame[f].op # NoOp /\ frame[f].op \in Op
  BY FrameFields, NoOpIsNone DEF JobAt, OpAt, Within
<1>2. Faces(f, {"wait"}) /\ Head(Remaining(f)) = frame[f].op
  BY <1>1, RemainingIs DEF Faces
<1>3. 1 \in DOMAIN Remaining(f) /\ Remaining(f)[1] = frame[f].op /\ frame[f].job \in Code
  BY <1>2, FacesTypes
<1>4. OfCode(frame[f].job, frame[f].op)
  BY <1>3 DEF FromCode
<1>5. WaitsOn(frame[f].job, frame[f].op.ctr)
  BY <1>1, <1>4 DEF OfCode, MayLeave
<1>6. frame[f].op.ctr \in Counters
  BY <1>1, OpTypes DEF Waits
<1>7. QED
  BY <1>3, <1>5, <1>6 DEF Leaver

LEMMA TurnsSame ==
  ASSUME TypeOK, SchedInv, TurnInv PROVE SameThread
<1>1. SUFFICES ASSUME NEW t \in Threads, running[t] # NoFiber PROVE CleanupTLS(t, running[t]) = t
  BY DEF SameThread
<1>2. PICK f \in Fibers : f = running[t]
  BY <1>1 DEF TypeOK
<1>3. QED
  BY <1>2 DEF CleanupTLS, TurnInv, TurnsInv, TurnsOwn, Turning

\* What a step of a fiber is to this: one that leaves it alone, or leaves alone threads, flags
\* and the other threads' TLS, or one of those that do not.
Still == UNCHANGED <<idle, running, probe, fpc, frame>> /\ \A u \in Threads : SameTLS(u)
Mild(t, f) ==
  /\ UNCHANGED <<idle, running, probe>>
  /\ \A u \in Threads \ {t} : SameTLS(u)
  /\ fpc[f] \notin Resumed \cup {"find", "findLast"}
  /\ fpc'[f] = "findLast" => frame[f].job = MainJob /\ ~program.shutdownAfterMain /\ UNCHANGED frame
Backs(t, f) ==
  /\ fpc[f] \in {"loop", "body"}
  /\ SwitchBack(t, f)
  /\ UNCHANGED <<idle, tls, probe>>

LEMMA TurnKinds ==
  ASSUME TypeOK, NEW t \in Threads, NEW f \in Fibers, running[t] = f, CleanupTLS(t, f) = t, FiberStep(t, f)
  PROVE  \/ Still \/ Mild(t, f) \/ Backs(t, f) \/ CleanupStore(t, f) \/ SwitchToReady(t, f)
         \/ WaitSwitches(t, f) \/ MainLeaves(t, f)
<1>0. ThreadsTyped
  BY TypesOfThreads
<1>1. ASSUME fpc[f] \in Plain \ {"findLast"}, UNCHANGED <<idle, running, probe>>,
             \A u \in Threads \ {t} : SameTLS(u),
             UNCHANGED fpc \/ \E pc \in FiberPC \ {"findLast"} : Jump(f, pc)
      PROVE  Mild(t, f)
  BY <1>0, <1>1 DEF Mild, Plain, Resumed, Jump, ThreadsTyped
<1>2. ASSUME fpc[f] \in Plain \ {"findLast"}, UNCHANGED threadVars,
             UNCHANGED fpc \/ \E pc \in FiberPC \ {"findLast"} : Jump(f, pc)
      PROVE  Mild(t, f)
  BY <1>1, <1>2 DEF threadVars, SameTLS
<1> USE DEF On, Starts
<1>3. CASE CleanupClear(t, f)
  <2>1. /\ fpc[f] \in {"freshClear", "inGetClear", "inWaitClear"} /\ UNCHANGED <<idle, running, probe>>
        /\ tls' = [tls EXCEPT ![t].prev = NoFiber, ![t].dest = "none"]
        /\ fpc' = [fpc EXCEPT ![f] = AfterCleanup[fpc[f]]]
    BY <1>3 DEF CleanupClear, CleanupEnds, Jump
  <2>2. fpc'[f] # "findLast"
    BY <1>0, <2>1 DEF AfterCleanup, ThreadsTyped
  <2>3. \A u \in Threads \ {t} : SameTLS(u)
    BY <1>0, <2>1 DEF SameTLS, ThreadsTyped
  <2>4. QED
    BY <2>1, <2>2, <2>3 DEF Mild, Resumed
<1>4. CASE Loop(t, f)
  <2>1. CASE SwitchBack(t, f)
    BY <1>4, <2>1 DEF Loop, Backs
  <2>2. CASE NextTurn(t, f, IF t = IOThread THEN "io" ELSE "high")
    BY <1>1, <1>4, <2>2 DEF Loop, NextTurn, Plain, FiberPC, SameTLS
  <2>3. QED
    BY <1>4, <2>1, <2>2 DEF Loop
<1>5. CASE DequeueIO(t, f) \/ DequeueHigh(t, f) \/ DequeueNormal(t, f) \/ DequeueLow(t, f)
  BY <1>2, <1>5 DEF DequeueIO, DequeueHigh, DequeueNormal, DequeueLow, Dequeue, Plain, FiberPC
<1>6. CASE ScanReady(t, f)
  <2>1. fpc[f] = "ready" /\ UNCHANGED <<idle, running, probe>>
    BY <1>6 DEF ScanReady
  <2>2. CASE ReadyEnds(f) \/ ReadySkips(f)
    BY <1>1, <2>1, <2>2 DEF ReadyEnds, ReadySkips, Plain, FiberPC, SameTLS
  <2>3. ASSUME NEW i, ReadyTakes(t, f, i)
        PROVE  Mild(t, f)
    <3>1. \A u \in Threads \ {t} : SameTLS(u)
      BY <1>0, <2>3 DEF ReadyTakes, SameTLS, ThreadsTyped
    <3>2. QED
      BY <1>1, <2>1, <2>3, <3>1 DEF ReadyTakes, Plain, FiberPC
  <2>4. QED
    BY <1>6, <2>2, <2>3 DEF ScanReady
<1>7. CASE ScheduleCount(t, f) \/ ScheduleUncounted(t, f) \/ ScheduleJob(t, f)
  BY <1>2, <1>7 DEF ScheduleCount, ScheduleUncounted, ScheduleJob, Plain, FiberPC
<1>8. CASE WaitNot(t, f) \/ BlockingWaits(t, f) \/ LookAgain(t, f) \/ CvWait(t, f) \/ CvReturns(t, f)
  BY <1>2, <1>8 DEF WaitNot, BlockingWaits, LookAgain, CvWait, CvReturns, Plain, FiberPC
<1>9. CASE WaitForCounter(t, f)
  BY <1>2, <1>9 DEF WaitForCounter, Plain, FiberPC
<1>10. CASE WaitDone(t, f) \/ WaitThrows(t, f) \/ WaitLeaves(t, f)
  <2>1. /\ fpc[f] = "adding" /\ UNCHANGED <<idle, running, probe>>
        /\ UNCHANGED fpc \/ Jump(f, "body") \/ Jump(f, "find")
        /\ UNCHANGED tls \/ tls' = [tls EXCEPT ![t].prev = tls[t].cur, ![t].dest = "waiting"]
    BY <1>10 DEF WaitDone, WaitThrows, WaitLeaves, threadVars, fiberVars
  <2>2. \A u \in Threads \ {t} : SameTLS(u)
    BY <1>0, <2>1 DEF SameTLS, ThreadsTyped
  <2>3. QED
    BY <1>0, <2>1, <2>2 DEF Mild, Resumed, Jump, ThreadsTyped
<1>11. CASE Notify(t, f)
  <2>1. fpc[f] = "body" /\ UNCHANGED threadVars /\ fpc'[f] = "body"
    BY <1>0, <1>11 DEF Notify, ThreadsTyped
  <2>2. QED
    BY <2>1 DEF Mild, Resumed, threadVars, SameTLS
<1>12. CASE NewCounter(t, f) \/ ChangeQueue(t, f) \/ QueueSteps(t, f)
  BY <1>2, <1>12 DEF NewCounter, ChangeQueue, QueueSteps, Plain, FiberPC
<1>13. CASE Shutdown(t, f) \/ ShutdownJoins(t, f) \/ Finish(t, f) \/ Executed(t, f)
  BY <1>2, <1>13 DEF Shutdown, ShutdownJoins, Finish, Executed, AtEnd, Plain, FiberPC
<1>14. CASE MainEnds(t, f)
  <2>1. CASE program.shutdownAfterMain
    BY <1>14, <2>1 DEF MainEnds, AtEnd, Backs
  <2>2. CASE ~program.shutdownAfterMain
    <3>1. /\ fpc[f] = "body" /\ UNCHANGED <<idle, running, tls, probe>> /\ frame[f].job = MainJob
      BY <1>14, <2>2 DEF MainEnds, AtEnd
    <3>2. QED
      BY <1>14, <2>2, <3>1 DEF MainEnds, Mild, Resumed, SameTLS
  <2>3. QED
    BY <2>1, <2>2
<1>15. CASE Ready(t, f) \/ InCounter(t, f)
  <2>1. CASE Ready(t, f)
    <3>1. /\ UNCHANGED <<idle, running, probe, fpc, frame>>
          /\ tls' = [tls EXCEPT ![t].ready = Append(@, Handed(f))]
      BY <2>1 DEF Ready, fiberVars
    <3>2. \A u \in Threads : SameTLS(u)
      BY <1>0, <3>1 DEF SameTLS, ThreadsTyped, TLS
    <3>3. QED
      BY <3>1, <3>2 DEF Still
  <2>2. CASE InCounter(t, f)
    BY <2>2 DEF InCounter, schedVars, threadVars, fiberVars, SameTLS, Still
  <2>3. QED
    BY <1>15, <2>1, <2>2
<1>16. QED
  BY <1>3, <1>4, <1>5, <1>6, <1>7, <1>8, <1>9, <1>10, <1>11, <1>12, <1>13, <1>14, <1>15 DEF FiberStep

\* What each step leaves as it was: the program, that w has started, and, but for the step that
\* takes it from a queue, which fiber w is on.
Keeps(w) ==
  /\ Leaver(w)'
  /\ \A u \in Threads : tpc[u] = "find" => tpc'[u] = "find"
  /\ w \in Jobs /\ status[w] \in {"started", "done"} => status'[w] \in {"started", "done"}
  /\ \A h \in Fibers : frame'[h].job = w => frame[h].job = w \/ (w \in Jobs /\ status[w] = "queued")

LEMMA LeaverKept == ASSUME NEW w, Leaver(w), UNCHANGED program PROVE Leaver(w)'
BY DEF Leaver, WaitsOn

LEMMA StepKeeps ==
  ASSUME SchedInv, LeftInv, NEW w \in Code, Leaver(w), NEW t \in Threads, NEW f \in Fibers,
         running[t] = f, FiberStep(t, f)
  PROVE  /\ Keeps(w) /\ Elsewhere(t, f) /\ Turns(t, f)
         /\ \A g \in Fibers : g # f => frame'[g].job = frame[g].job
<1>0. TypeInv /\ TypeOK /\ FramesOK /\ JobInv /\ InQueue
  BY DEF SchedInv, TypeInv, TypeOK, FramesOK, JobInv
<1>1. Moves(f)
  BY <1>0, StepMoves
<1>2. /\ UNCHANGED program /\ Elsewhere(t, f) /\ Turns(t, f)
      /\ \A g \in Fibers : g # f => frame'[g].job = frame[g].job
  BY <1>0, <1>1, OthersKeep, StepPlaces
<1>3. Leaver(w)' /\ \A u \in Threads : tpc[u] = "find" => tpc'[u] = "find"
  <2>1. UNCHANGED tpc \/ SwitchBack(t, f)
    BY <1>0, TpcMoves
  <2>2. home[f] = t /\ tpc[t] # "find" /\ tpc \in [Threads -> ThreadPC]
    BY <1>0, OnOne DEF OnThread, TypeOK
  <2>3. \A u \in Threads : tpc[u] = "find" => tpc'[u] = "find"
    BY <2>1, <2>2 DEF SwitchBack
  <2>4. QED
    BY <1>2, <2>3, LeaverKept
<1>4. w \in Jobs /\ status[w] \in {"started", "done"} => status'[w] \in {"started", "done"}
  <2>1. status \in [Jobs -> {"new", "queued", "started", "done"}]
    BY <1>0 DEF TypeOK
  <2>2. status' \in [Jobs -> {"new", "queued", "started", "done"}]
    BY FiberInv DEF SchedInv, TypeInv, TypeOK
  <2>3. QED
    BY <1>0, <1>1, <2>1, <2>2, StatusKept
<1>5. frame'[f].job = w => frame[f].job = w \/ (w \in Jobs /\ status[w] = "queued")
  <2>1. CASE frame'[f].job \in {frame[f].job, NoJob}
    BY <2>1, SchedulerAssumption DEF Code
  <2>2. CASE fpc[f] \in Prio /\ queue[fpc[f]] # <<>> /\ frame'[f].job = Head(queue[fpc[f]])
    <3>1. PICK p \in Prio : p = fpc[f]
      BY <2>2
    <3>2. Head(queue[p]) \in Jobs /\ status[Head(queue[p])] = "queued"
      BY <1>0, <2>2, <3>1, TakenQueued
    <3>3. QED
      BY <2>2, <3>1, <3>2
  <2>3. QED
    BY <1>0, <2>1, <2>2, StepTakes
<1>6. QED
  BY <1>2, <1>3, <1>4, <1>5 DEF Keeps

\* A thread stays where it is, or goes back to its own fiber: nobody is taken off one.
LEMMA WayKept ==
  ASSUME TypeOK, LeftInv, NEW w \in Code, GivesWay(w), Keeps(w), NEW t \in Threads, NEW f \in Fibers,
         running[t] = f, Elsewhere(t, f), \A g \in Fibers : g # f => frame'[g].job = frame[g].job,
         UNCHANGED running \/ (running'[t] = NoFiber /\ fpc'[f] = "over"),
         \A u \in Threads \ {t} : SameTLS(u),
         \A g \in Fibers : /\ idle[g] => idle'[g]
                           /\ Displaced(g) /\ Left(t, g) => idle'[g]
  PROVE  GivesWay(w)'
<1>0. ThreadsTyped /\ NoFiber \notin Fibers
  BY TypesOfThreads, CounterAssumption
<1>1. OnThread(t, f) /\ fpc[f] # "over" /\ \A u \in Threads : running[u] = f => u = t
  BY <1>0, OnOne DEF OnThread, LeftInv, OneHas, Has
<1>2. ASSUME NEW g \in Fibers, Displaced(g)'
      PROVE  Displaced(g) /\ g # f /\ frame'[g].tls = frame[g].tls
  <2>1. g # f
    BY <1>0, <1>2 DEF Displaced
  <2>2. fpc[g] = "inGet" /\ frame'[g].tls = frame[g].tls
    BY <1>2, <2>1 DEF Displaced, Elsewhere, Woken
  <2>3. \A u \in Threads : running[u] # g
    BY <1>2, <2>1 DEF Displaced, Elsewhere
  <2>4. QED
    BY <2>1, <2>2, <2>3 DEF Displaced
<1>3. ASSUME NEW g \in Fibers, Displaced(g), NEW u \in Threads \ {t}, Left(u, g)
      PROVE  Left(u, g)'
  <2>1. PICK k \in Fibers : k = running[u]
    BY <1>0, <1>3 DEF Left, ThreadsTyped
  <2>2. k # f /\ running'[u] = k
    BY <1>1, <2>1 DEF Elsewhere
  <2>3. fpc'[k] = fpc[k]
    BY <1>3, <2>1, <2>2 DEF Left, Elsewhere, Woken, Resumed
  <2>4. QED
    BY <1>0, <1>3, <2>1, <2>2, <2>3 DEF Left, SameTLS
<1>4. SUFFICES ASSUME NEW g \in Fibers, Displaced(g)'
               PROVE  /\ idle'[g] \/ Left(frame[g].tls, g)'
                      /\ w \in Jobs => status'[w] \in {"started", "done"}
                      /\ WorksFor(w, frame[g].tls)'
                      /\ \A k \in Fibers : Displaced(k)' => k = g
  BY DEF GivesWay
<1>5. PICK v \in Threads : v = frame[g].tls /\ frame'[g].tls = v
  BY <1>2, <1>4 DEF TypeOK, Frame
<1>6. /\ idle[g] \/ Left(v, g)
      /\ w \in Jobs => status[w] \in {"started", "done"}
      /\ WorksFor(w, v)
      /\ \A k \in Fibers : Displaced(k) => k = g
  BY <1>2, <1>4, <1>5 DEF GivesWay
<1>7. idle'[g] \/ Left(v, g)'
  BY <1>2, <1>3, <1>4, <1>6
<1>8. w \in Jobs => status'[w] \in {"started", "done"}
  BY <1>6 DEF Keeps
<1>9. WorksFor(w, v)'
  <2>1. SUFFICES ASSUME NEW h \in Fibers, frame'[h].job = w
                 PROVE  running'[v] = h \/ fpc'[h] = "over"
    BY DEF WorksFor
  <2>2. frame[h].job = w
    BY <1>6, <2>1 DEF Keeps
  <2>3. running[v] = h \/ fpc[h] = "over"
    BY <1>6, <2>2 DEF WorksFor
  <2>4. QED
    BY <1>0, <1>1, <2>3 DEF Elsewhere, Woken
<1>10. QED
  BY <1>2, <1>5, <1>6, <1>7, <1>8, <1>9

LEMMA OwnKept ==
  ASSUME TypeOK, LeftInv, TurnsOwn, NEW t \in Threads, NEW f \in Fibers, running[t] = f,
         Elsewhere(t, f), Turns(t, f), running'[t] \in {f, NoFiber}
  PROVE  TurnsOwn'
<1>0. NoFiber \notin Fibers /\ \A u \in Threads : running[u] = f => u = t
  BY OnOne, CounterAssumption DEF LeftInv, OneHas, Has
<1>1. SUFFICES ASSUME NEW u \in Threads, NEW g \in Fibers, running'[u] = g, fpc'[g] \in Turning
               PROVE  frame'[g].tls = u
  BY DEF TurnsOwn
<1>2. CASE u = t
  BY <1>0, <1>1, <1>2 DEF Turns, TurnsOwn
<1>3. CASE u # t
  <2>1. running[u] = g /\ g # f
    BY <1>0, <1>1, <1>3 DEF Elsewhere
  <2>2. fpc[g] \in Turning /\ frame'[g].tls = frame[g].tls
    BY <1>1, <2>1 DEF Elsewhere, Woken, Turning
  <2>3. QED
    BY <2>1, <2>2 DEF TurnsOwn
<1>4. QED
  BY <1>2, <1>3

\* What becomes idle again was used.
LEMMA SparesKept ==
  ASSUME TypeOK, LeftInv, SparesLast, NEW t \in Threads, NEW f \in Fibers, running[t] = f, Elsewhere(t, f),
         \A g \in Fibers : idle'[g] = idle[g] \/ (g # f /\ fpc[g] = "inGet")
  PROVE  SparesLast'
<1>1. \A g \in Fibers : Spare(g)' <=> Spare(g)
  <2>1. ~idle[f]
    BY OnOne
  <2>2. QED
    BY <2>1 DEF Spare, Elsewhere, Woken
<1>2. QED
  BY <1>1 DEF SparesLast

LEMMA ProbedKept ==
  ASSUME TypeOK, Probed, NEW t \in Threads, NEW f \in Fibers, running[t] = f, Elsewhere(t, f),
         fpc[f] \notin {"find", "findLast"}, UNCHANGED probe,
         \A u \in Threads : tpc[u] = "find" => tpc'[u] = "find",
         \A g \in Fibers : idle'[g] = idle[g] \/ \A u \in Threads : probe[u] = 0
  PROVE  Probed'
<1>0. NumFibers \in Nat \ {0} /\ Fibers = 0 .. NumFibers - 1
  BY SchedulerAssumption
<1>1. SUFFICES ASSUME NEW u \in Threads
               PROVE  /\ \A g \in Fibers : g < probe[u] => ~idle'[g]
                      /\ probe[u] # 0 => Looks(u)'
  BY DEF Probed
<1>2. \A g \in Fibers : g < probe[u] => ~idle'[g]
  BY <1>0 DEF Probed
<1>3. ASSUME probe[u] # 0
      PROVE  Looks(u)'
  <2>1. CASE tpc[u] = "find"
    BY <2>1 DEF Looks
  <2>2. CASE running[u] \in Fibers /\ fpc[running[u]] \in {"find", "findLast"}
    <3>1. PICK k \in Fibers : k = running[u] /\ fpc[k] \in {"find", "findLast"}
      BY <2>2
    <3>2. k # f /\ u # t
      BY <3>1
    <3>3. running'[u] = k /\ fpc'[k] = fpc[k]
      BY <3>1, <3>2 DEF Elsewhere, Woken
    <3>4. QED
      BY <3>1, <3>3 DEF Looks
  <2>3. QED
    BY <1>3, <2>1, <2>2 DEF Probed, Looks
<1>4. QED
  BY <1>2, <1>3

LEMMA LastKept ==
  ASSUME NEW w \in Code, Leaver(w), LastOut(w), NEW t \in Threads, NEW f \in Fibers, Elsewhere(t, f),
         \A g \in Fibers : g # f => frame'[g].job = frame[g].job,
         fpc'[f] = "findLast" =>
           /\ frame'[f].job = frame[f].job
           /\ fpc[f] = "findLast" \/ (frame[f].job = MainJob /\ ~program.shutdownAfterMain)
  PROVE  LastOut(w)'
BY DEF LastOut, Leaver, Elsewhere, Woken

LEMMA TurnMild ==
  ASSUME SchedInv, LeftInv, FromCode, NEW w \in Code, TurnsInv(w), NEW t \in Threads, NEW f \in Fibers,
         running[t] = f, FiberStep(t, f), Mild(t, f)
  PROVE  TurnsInv(w)'
<1>0. TypeOK /\ Leaver(w) /\ TurnsOwn /\ GivesWay(w) /\ SparesLast /\ Probed /\ LastOut(w)
  BY DEF SchedInv, TypeInv, TurnsInv
<1>1. /\ Keeps(w) /\ Elsewhere(t, f) /\ Turns(t, f)
      /\ \A g \in Fibers : g # f => frame'[g].job = frame[g].job
  BY <1>0, StepKeeps
<1>2. /\ UNCHANGED <<idle, running, probe>> /\ \A u \in Threads \ {t} : SameTLS(u)
      /\ fpc[f] \notin Resumed \cup {"find", "findLast"}
      /\ fpc'[f] = "findLast" => frame[f].job = MainJob /\ ~program.shutdownAfterMain /\ UNCHANGED frame
  BY DEF Mild
<1>3. \A g \in Fibers : ~Left(t, g)
  BY <1>2 DEF Left
<1>4. GivesWay(w)'
  BY <1>0, <1>1, <1>2, <1>3, WayKept
<1>5. TurnsOwn' /\ SparesLast' /\ Probed' /\ LastOut(w)'
  BY <1>0, <1>1, <1>2, OwnKept, SparesKept, ProbedKept, LastKept DEF Keeps
<1>6. QED
  BY <1>1, <1>4, <1>5 DEF TurnsInv, Keeps

LEMMA TurnBacks ==
  ASSUME SchedInv, LeftInv, FromCode, NEW w \in Code, TurnsInv(w), NEW t \in Threads, NEW f \in Fibers,
         running[t] = f, FiberStep(t, f), Backs(t, f)
  PROVE  TurnsInv(w)'
<1>0. TypeOK /\ Leaver(w) /\ TurnsOwn /\ GivesWay(w) /\ SparesLast /\ Probed /\ LastOut(w)
  BY DEF SchedInv, TypeInv, TurnsInv
<1>1. /\ Keeps(w) /\ Elsewhere(t, f) /\ Turns(t, f)
      /\ \A g \in Fibers : g # f => frame'[g].job = frame[g].job
  BY <1>0, StepKeeps
<1>2. /\ running'[t] = NoFiber /\ fpc'[f] = "over" /\ UNCHANGED <<idle, tls, probe>>
      /\ fpc[f] \in {"loop", "body"}
  BY <1>0, TypesOfThreads DEF Backs, SwitchBack, Jump, ThreadsTyped
<1>3. \A g \in Fibers : ~Left(t, g)
  BY <1>2 DEF Left, Resumed
<1>4. GivesWay(w)'
  BY <1>0, <1>1, <1>2, <1>3, WayKept DEF SameTLS
<1>5. TurnsOwn' /\ SparesLast' /\ Probed' /\ LastOut(w)'
  BY <1>0, <1>1, <1>2, OwnKept, SparesKept, ProbedKept, LastKept DEF Keeps
<1>6. QED
  BY <1>1, <1>4, <1>5 DEF TurnsInv, Keeps

\* Nobody looks for a fiber while another thread has one to give back.
LEMMA NoneProbes ==
  ASSUME SchedInv, LeftInv, FromCode, StartedFirst, NEW w \in Code, TurnsInv(w),
         NEW t \in Threads, NEW f \in Fibers,
         running[t] = f, fpc[f] \in Resumed, NEW q \in Fibers, Left(t, q), tls[t].dest = "pool"
  PROVE  Displaced(q) /\ \A u \in Threads : probe[u] = 0
<1>0. /\ TypeOK /\ FramesOK /\ Leaver(w) /\ GivesWay(w) /\ Probed /\ LastOut(w)
      /\ NoFiber \notin Fibers /\ frame \in [Fibers -> Frame]
  BY CounterAssumption DEF SchedInv, TypeInv, TypeOK, FramesOK, TurnsInv
<1>1. fpc[q] = "inGet" /\ ~idle[q] /\ Has(t, q)
  BY DEF LeftInv, Sleeping, Busy, Has
<1>2. \A u \in Threads : running[u] # q
  <2>1. ASSUME NEW u \in Threads, running[u] = q PROVE FALSE
    <3>1. u = t
      BY <1>1, <2>1 DEF LeftInv, OneHas, Has
    <3>2. QED
      BY <2>1, <3>1 DEF LeftInv, Moving
  <2>2. QED
    BY <2>1
<1>3. Displaced(q)
  BY <1>1, <1>2 DEF Displaced
<1>4. PICK v \in Threads : v = frame[q].tls
  BY <1>0 DEF Frame
<1>5. Left(v, q) /\ WorksFor(w, v)
  BY <1>0, <1>1, <1>3, <1>4 DEF GivesWay
<1>6. v = t
  BY <1>1, <1>5 DEF LeftInv, OneHas, Has
<1>7. ASSUME NEW u \in Threads, probe[u] # 0 PROVE FALSE
  <2>1. PICK k \in Fibers : k = running[u] /\ fpc[k] \in {"find", "findLast"}
    BY <1>0, <1>3, <1>7 DEF Probed, Looks, StartedFirst
  <2>2. frame[k].job = w
    BY <1>0, <2>1, LeaverLeaves DEF LastOut
  <2>3. running[t] = k
    BY <1>5, <1>6, <2>1, <2>2 DEF WorksFor
  <2>4. QED
    BY <2>1, <2>3 DEF Resumed
<1>8. QED
  BY <1>3, <1>7

LEMMA TurnStore ==
  ASSUME SchedInv, LeftInv, FromCode, StartedFirst, NEW w \in Code, TurnsInv(w), NEW t \in Threads, NEW f \in Fibers,
         running[t] = f, FiberStep(t, f), CleanupTLS(t, f) = t, CleanupStore(t, f)
  PROVE  TurnsInv(w)'
<1>0. TypeOK /\ Leaver(w) /\ TurnsOwn /\ GivesWay(w) /\ SparesLast /\ Probed /\ LastOut(w)
  BY DEF SchedInv, TypeInv, TurnsInv
<1>1. /\ Keeps(w) /\ Elsewhere(t, f) /\ Turns(t, f)
      /\ \A g \in Fibers : g # f => frame'[g].job = frame[g].job
  BY <1>0, StepKeeps
<1>2. ThreadsTyped /\ NoFiber \notin Fibers
  BY <1>0, TypesOfThreads, CounterAssumption
<1>3. PICK p, d : p = tls[t].prev /\ d = tls[t].dest
  OBVIOUS
<1>4. /\ UNCHANGED <<tls, running, probe>> /\ fpc[f] \in Resumed
      /\ idle' = IF d = "pool" THEN [idle EXCEPT ![p] = TRUE] ELSE idle
  BY <1>3 DEF CleanupStore, Resumed
<1>5. fpc'[f] # "findLast"
  <2>1. fpc' = [fpc EXCEPT ![f] = AfterCleanup[fpc[f]]] \/ fpc' = [fpc EXCEPT ![f] = Clearing[fpc[f]]]
    BY DEF CleanupStore, CleanupEnds, Jump
  <2>2. QED
    BY <1>2, <1>4, <2>1 DEF AfterCleanup, Clearing, Resumed, ThreadsTyped
<1>6. ASSUME d = "pool", NEW q \in Fibers, q = p
      PROVE  Displaced(q) /\ \A u \in Threads : probe[u] = 0
  <2>1. Left(t, q)
    BY <1>2, <1>3, <1>4, <1>6 DEF Left
  <2>2. QED
    BY <1>3, <1>4, <1>6, <2>1, NoneProbes
<1>7. \A g \in Fibers : idle'[g] = idle[g] \/ (g = p /\ d = "pool" /\ idle'[g])
  BY <1>2, <1>4 DEF ThreadsTyped
<1>8. \A g \in Fibers : /\ idle'[g] = idle[g] \/ (g # f /\ fpc[g] = "inGet")
                        /\ idle'[g] = idle[g] \/ \A u \in Threads : probe[u] = 0
  BY <1>6, <1>7 DEF Displaced
<1>9. ASSUME NEW g \in Fibers, Displaced(g), Left(t, g)
      PROVE  idle'[g]
  <2>1. d = "pool"
    BY <1>3, <1>9 DEF LeftInv, Sleeping, Displaced
  <2>2. g = p
    BY <1>3, <1>9 DEF Left
  <2>3. QED
    BY <1>2, <1>4, <2>1, <2>2 DEF ThreadsTyped
<1>10. GivesWay(w)'
  BY <1>0, <1>1, <1>4, <1>7, <1>9, WayKept DEF SameTLS
<1>11. TurnsOwn' /\ SparesLast' /\ LastOut(w)'
  BY <1>0, <1>1, <1>4, <1>5, <1>8, OwnKept, SparesKept, LastKept
<1>12. Probed'
  BY <1>0, <1>1, <1>4, <1>8, ProbedKept DEF Resumed, Keeps
<1>13. QED
  BY <1>1, <1>10, <1>11, <1>12 DEF TurnsInv, Keeps

\* The fiber that was chosen is w's, which was asleep: no fiber was taken off a thread, and now
\* the one that chose it is.
LEMMA TurnSwitch ==
  ASSUME SchedInv, LeftInv, FromCode, NEW w \in Code, TurnsInv(w), NEW t \in Threads, NEW f \in Fibers,
         running[t] = f, FiberStep(t, f), SwitchToReady(t, f)
  PROVE  TurnsInv(w)'
<1>0. /\ TypeOK /\ FramesOK /\ Leaver(w) /\ TurnsOwn /\ GivesWay(w) /\ SparesLast /\ Probed
      /\ LastOut(w) /\ OneRun /\ RunStatus
      /\ ThreadsTyped /\ NoFiber \notin Fibers /\ frame \in [Fibers -> Frame]
  BY TypesOfThreads, CounterAssumption DEF SchedInv, TypeInv, TypeOK, FramesOK, JobInv, TurnsInv
<1>1. /\ Keeps(w) /\ Elsewhere(t, f) /\ Turns(t, f)
      /\ \A g \in Fibers : g # f => frame'[g].job = frame[g].job
  BY <1>0, StepKeeps
<1>2. OnThread(t, f) /\ fpc[f] = "switch"
  BY <1>0, OnOne DEF On, SwitchToReady
<1>3. PICK h \in Fibers : h = tls[t].cur
  BY <1>2 DEF OnThread
<1>4. tls[t].dest = "pool" /\ tls[t].prev = f
  BY <1>2 DEF OnThread
<1>5. Chosen(t, h) /\ Has(t, h) /\ fpc[h] = "inWait" /\ h # f
  BY <1>0, <1>2, <1>3 DEF Chosen, Has, LeftInv, Sleeping
<1>6. frame[h].job = w
  BY <1>0, <1>5, LeaverLeaves
<1>7. /\ UNCHANGED <<idle, tls, probe, frame>>
      /\ \A g \in Fibers : fpc'[g] = IF g = f THEN "inGet" ELSE fpc[g]
      /\ \A u \in Threads : running'[u] = IF u = t THEN h ELSE running[u]
  BY <1>0, <1>3 DEF SwitchToReady, SwitchTo, Jump, ThreadsTyped
<1>8. ASSUME NEW g \in Fibers, Displaced(g) PROVE FALSE
  <2>1. PICK v \in Threads : v = frame[g].tls
    BY <1>0 DEF Frame
  <2>2. running[v] = h \/ fpc[h] = "over"
    BY <1>0, <1>6, <1>8, <2>1 DEF GivesWay, WorksFor
  <2>3. running[v] = h
    BY <1>5, <2>2
  <2>4. v = t
    BY <1>5, <2>3 DEF LeftInv, OneHas, Has
  <2>5. QED
    BY <1>5, <2>3, <2>4
<1>9. \A g \in Fibers : Displaced(g)' => g = f
  <2>1. ASSUME NEW g \in Fibers, Displaced(g)', g # f PROVE Displaced(g)
    BY <1>7, <2>1 DEF Displaced
  <2>2. QED
    BY <1>8, <2>1
<1>10. frame'[f].tls = t
  BY <1>0, <1>2, <1>7 DEF TurnsOwn, Turning
<1>11. Left(t, f)'
  BY <1>0, <1>4, <1>5, <1>7 DEF Left, Resumed
<1>12. w \in Jobs => status'[w] \in {"started", "done"}
  BY <1>0, <1>1, <1>6 DEF Keeps, RunStatus
<1>13. WorksFor(w, t)'
  <2>1. \A k \in Fibers : frame[k].job = w => k = h
    BY <1>0, <1>6, SchedulerAssumption DEF OneRun, Code
  <2>2. QED
    BY <1>7, <2>1 DEF WorksFor
<1>14. GivesWay(w)'
  BY <1>9, <1>10, <1>11, <1>12, <1>13 DEF GivesWay
<1>15. TurnsOwn'
  BY <1>0, <1>5, <1>7, <1>2 DEF TurnsOwn, Turning, LeftInv, OneHas, Has
<1>16. SparesLast' /\ LastOut(w)'
  BY <1>0, <1>1, <1>2, <1>7, SparesKept, LastKept
<1>17. Probed'
  BY <1>0, <1>1, <1>2, <1>7, ProbedKept DEF Keeps
<1>18. QED
  BY <1>1, <1>14, <1>15, <1>16, <1>17 DEF TurnsInv, Keeps

\* Nothing moves.
LEMMA TurnStill ==
  ASSUME TypeOK, NEW w \in Code, TurnsInv(w), Keeps(w), Still
  PROVE  TurnsInv(w)'
<1>1. UNCHANGED <<idle, running, probe, fpc, frame>> /\ \A u \in Threads : SameTLS(u)
  BY DEF Still
<1>2. /\ \A g : Displaced(g)' <=> Displaced(g)
      /\ \A g : Spare(g)' <=> Spare(g)
      /\ \A u \in Threads, g \in Fibers : Left(u, g)' <=> Left(u, g)
      /\ \A u : WorksFor(w, u)' <=> WorksFor(w, u)
  BY <1>1 DEF Displaced, Spare, Left, WorksFor, SameTLS
<1>3. \A g \in Fibers : frame[g].tls \in Threads
  BY DEF TypeOK, Frame
<1>4. GivesWay(w)'
  BY <1>1, <1>2, <1>3 DEF TurnsInv, GivesWay, Keeps
<1>5. TurnsOwn' /\ SparesLast' /\ Probed' /\ LastOut(w)'
  BY <1>1, <1>2 DEF TurnsInv, TurnsOwn, SparesLast, Probed, Looks, LastOut, Keeps
<1>6. QED
  BY <1>4, <1>5 DEF TurnsInv, Keeps

\* A thread looks at the next flag.
LEMMA TurnLooks ==
  ASSUME TypeOK, NEW w \in Code, TurnsInv(w), Keeps(w), NEW t \in Threads, Looks(t),
         NextProbe(t), ~idle[probe[t]], UNCHANGED <<fpc, frame>>
  PROVE  TurnsInv(w)'
<1>0. /\ NumFibers \in Nat \ {0} /\ Fibers = 0 .. NumFibers - 1
      /\ probe \in [Threads -> Fibers]
  BY SchedulerAssumption DEF TypeOK
<1>1. UNCHANGED <<idle, running, fpc, frame, tls>>
  BY DEF NextProbe
<1>2. /\ \A g : Displaced(g)' <=> Displaced(g)
      /\ \A g : Spare(g)' <=> Spare(g)
      /\ \A u, g : Left(u, g)' <=> Left(u, g)
      /\ \A u : WorksFor(w, u)' <=> WorksFor(w, u)
  BY <1>1 DEF Displaced, Spare, Left, WorksFor
<1>3. GivesWay(w)'
  BY <1>1, <1>2 DEF TurnsInv, GivesWay, Keeps
<1>4. PICK n \in Fibers : n = probe[t]
  BY <1>0
<1>5. /\ \A u \in Threads : u # t => probe'[u] = probe[u]
      /\ probe'[t] = (n + 1) % NumFibers
  BY <1>0, <1>4 DEF NextProbe
<1>6. probe'[t] = 0 \/ probe'[t] = n + 1
  <2>1. CASE n + 1 = NumFibers
    BY <1>0, <1>5, <2>1
  <2>2. CASE n + 1 # NumFibers
    <3>1. n + 1 \in 0 .. NumFibers - 1
      BY <1>0, <2>2
    <3>2. (n + 1) % NumFibers = n + 1
      BY <1>0, <3>1
    <3>3. QED
      BY <1>5, <3>2
  <2>3. QED
    BY <2>1, <2>2
<1>7. \A g \in Fibers : g < probe'[t] => ~idle'[g]
  <2>1. ASSUME NEW g \in Fibers, g < probe'[t] PROVE ~idle[g]
    <3>1. g < n + 1
      BY <1>0, <1>6, <2>1
    <3>2. g < n \/ g = n
      BY <1>0, <3>1
    <3>3. QED
      BY <1>4, <3>2 DEF TurnsInv, Probed
  <2>2. QED
    BY <1>1, <2>1
<1>8. Probed'
  BY <1>1, <1>5, <1>7 DEF TurnsInv, Probed, Looks, Keeps
<1>9. TurnsOwn' /\ SparesLast' /\ LastOut(w)'
  BY <1>1, <1>2 DEF TurnsInv, TurnsOwn, SparesLast, LastOut
<1>10. QED
  BY <1>3, <1>8, <1>9 DEF TurnsInv, Keeps

\* The thread of w finds a fiber: the one that was taken off it, if there is one.
LEMMA TurnFinds ==
  ASSUME SchedInv, LeftInv, FromCode, NEW w \in Code, TurnsInv(w), NEW t \in Threads, NEW f \in Fibers,
         running[t] = f, FiberStep(t, f), fpc[f] \in {"find", "findLast"}, FindFreeFiber(t), idle[probe[t]],
         UNCHANGED frame, Jump(f, "inWait") \/ Jump(f, "over")
  PROVE  TurnsInv(w)'
<1>0. /\ TypeOK /\ FramesOK /\ Leaver(w) /\ TurnsOwn /\ GivesWay(w) /\ SparesLast /\ Probed
      /\ LastOut(w) /\ ThreadsTyped /\ NoFiber \notin Fibers /\ frame \in [Fibers -> Frame]
      /\ probe \in [Threads -> Fibers] /\ NumFibers \in Nat \ {0} /\ Fibers = 0 .. NumFibers - 1
  BY TypesOfThreads, CounterAssumption, SchedulerAssumption DEF SchedInv, TypeInv, TypeOK, FramesOK, TurnsInv
<1>1. /\ Keeps(w) /\ Elsewhere(t, f) /\ Turns(t, f)
      /\ \A g \in Fibers : g # f => frame'[g].job = frame[g].job
  BY <1>0, StepKeeps
<1>2. frame[f].job = w
  BY <1>0, LeaverLeaves DEF LastOut
<1>3. PICK p \in Fibers : p = probe[t]
  BY <1>0
<1>4. /\ \A g \in Fibers : idle'[g] = IF g = p THEN FALSE ELSE idle[g]
      /\ \A u \in Threads : running'[u] = IF u = t THEN p ELSE running[u]
      /\ \A u \in Threads : probe'[u] = IF u = t THEN 0 ELSE probe[u]
      /\ fpc'[f] \in {"inWait", "over"} /\ \A g \in Fibers : g # f => fpc'[g] = fpc[g]
  <2>1. /\ idle' = [idle EXCEPT ![p] = FALSE] /\ running' = [running EXCEPT ![t] = p]
        /\ probe' = [probe EXCEPT ![t] = 0]
        /\ fpc' = [fpc EXCEPT ![f] = "inWait"] \/ fpc' = [fpc EXCEPT ![f] = "over"]
    BY <1>3 DEF FindFreeFiber, SwitchTo, Jump
  <2>2. /\ idle \in [Fibers -> BOOLEAN] /\ running \in [Threads -> Fibers \cup {NoFiber}]
        /\ fpc \in [Fibers -> FiberPC] /\ probe \in [Threads -> Fibers]
    BY <1>0 DEF ThreadsTyped
  <2>3. QED
    BY <2>1, <2>2
<1>5. /\ idle[p] /\ ~idle[f] /\ fpc[p] \in {"fresh", "inGet"} /\ p # f
      /\ \A u \in Threads : running[u] # p
  BY <1>0, <1>3, OnOne, FreeHasNone DEF Has
<1>6. \A g \in Fibers : g < p => ~idle[g]
  BY <1>0, <1>3 DEF Probed
<1>7. ASSUME NEW g \in Fibers, Displaced(g) PROVE g = p /\ frame[g].tls = t
  <2>1. PICK v \in Threads : v = frame[g].tls
    BY <1>0 DEF Frame
  <2>2. /\ idle[g] \/ Left(v, g)
        /\ running[v] = f \/ fpc[f] = "over"
        /\ \A k \in Fibers : Displaced(k) => k = g
    BY <1>0, <1>2, <1>7, <2>1 DEF GivesWay, WorksFor
  <2>3. v = t
    BY <2>2 DEF LeftInv, OneHas, Has
  <2>4. idle[g]
    BY <2>2, <2>3 DEF Left, Resumed
  <2>5. CASE fpc[p] = "inGet"
    BY <1>5, <2>1, <2>2, <2>3, <2>5 DEF Displaced
  <2>6. CASE fpc[p] = "fresh"
    <3>1. Spare(p) /\ ~Spare(g)
      BY <1>5, <1>7, <2>6 DEF Spare, Displaced
    <3>2. QED
      BY <1>0, <1>6, <2>4, <3>1 DEF SparesLast
  <2>7. QED
    BY <1>5, <2>5, <2>6
<1>8. \A g \in Fibers : ~Displaced(g)'
  <2>1. ASSUME NEW g \in Fibers, Displaced(g)' PROVE FALSE
    <3>1. g # f /\ g # p
      BY <1>4, <2>1 DEF Displaced
    <3>2. Displaced(g)
      BY <1>4, <2>1, <3>1 DEF Displaced
    <3>3. QED
      BY <1>7, <3>1, <3>2
  <2>2. QED
    BY <2>1
<1>9. GivesWay(w)'
  BY <1>8 DEF GivesWay
<1>10. TurnsOwn'
  <2>1. SUFFICES ASSUME NEW u \in Threads, NEW g \in Fibers, running'[u] = g, fpc'[g] \in Turning
                 PROVE  frame'[g].tls = u
    BY DEF TurnsOwn
  <2>2. CASE u = t
    <3>1. g = p /\ fpc[p] \in Turning
      BY <1>4, <1>5, <2>1, <2>2
    <3>2. Displaced(p)
      BY <1>5, <3>1 DEF Displaced, Turning
    <3>3. QED
      BY <1>7, <2>2, <3>1, <3>2
  <2>3. CASE u # t
    BY <1>0, <1>4, <2>1, <2>3 DEF TurnsOwn, Turning
  <2>4. QED
    BY <2>2, <2>3
<1>11. SparesLast'
  <2>1. SUFFICES ASSUME NEW g \in Fibers, NEW k \in Fibers, Spare(k)', ~Spare(g)' PROVE g < k
    BY DEF SparesLast
  <2>2. Spare(k) /\ k # p
    BY <1>4, <2>1 DEF Spare
  <2>3. ~Spare(g) \/ g = p
    BY <1>4, <1>5, <2>1 DEF Spare
  <2>4. CASE g = p
    BY <1>0, <1>6, <2>2, <2>4 DEF Spare
  <2>5. CASE g # p
    BY <1>0, <2>2, <2>3, <2>5 DEF SparesLast
  <2>6. QED
    BY <2>4, <2>5
<1>12. Probed'
  <2>1. SUFFICES ASSUME NEW u \in Threads
                 PROVE  /\ \A g \in Fibers : g < probe'[u] => ~idle'[g]
                        /\ probe'[u] # 0 => Looks(u)'
    BY DEF Probed
  <2>2. CASE u = t
    BY <1>0, <1>4, <2>2
  <2>3. CASE u # t
    <3>1. running[u] # f
      BY <2>3 DEF LeftInv, OneHas, Has
    <3>2. running'[u] = running[u] /\ probe'[u] = probe[u]
      BY <1>4, <2>3
    <3>3. \A g \in Fibers : idle'[g] => idle[g]
      BY <1>4
    <3>4. \A g \in Fibers : g < probe'[u] => ~idle'[g]
      BY <1>0, <3>2, <3>3 DEF Probed
    <3>5. probe'[u] # 0 => Looks(u)'
      BY <1>0, <1>1, <1>4, <3>1, <3>2 DEF Probed, Looks, Keeps
    <3>6. QED
      BY <3>2, <3>4, <3>5
  <2>4. QED
    BY <2>2, <2>3
<1>13. LastOut(w)'
  BY <1>0, <1>4 DEF LastOut
<1>14. QED
  BY <1>1, <1>9, <1>10, <1>11, <1>12, <1>13 DEF TurnsInv, Keeps

\* A thread that starts takes a spare fiber, the first: no other is idle then.
LEMMA TurnStarts ==
  ASSUME TypeOK, LeftInv, StartedFirst, NEW w \in Code, TurnsInv(w), NEW t \in Threads, StartThread(t)
  PROVE  TurnsInv(w)'
<1>0. /\ Leaver(w) /\ TurnsOwn /\ GivesWay(w) /\ SparesLast /\ Probed /\ LastOut(w)
      /\ ThreadsTyped /\ NoFiber \notin Fibers
      /\ probe \in [Threads -> Fibers] /\ NumFibers \in Nat \ {0} /\ Fibers = 0 .. NumFibers - 1
  BY TypesOfThreads, CounterAssumption, SchedulerAssumption DEF TypeOK, TurnsInv
<1>1. /\ tpc[t] = "find" /\ FindFreeFiber(t) /\ UNCHANGED <<fpc, frame, program, status>>
      /\ tpc' = [tpc EXCEPT ![t] = IF idle[probe[t]] THEN "fibers" ELSE @]
  BY DEF StartThread, fiberVars, programVars
<1>2. Leaver(w)'
  BY <1>0, <1>1, LeaverKept
<1>3. CASE ~idle[probe[t]]
  <2>1. NextProbe(t)
    BY <1>1, <1>3 DEF FindFreeFiber
  <2>2. \A u \in Threads : tpc'[u] = tpc[u]
    BY <1>0, <1>1, <1>3 DEF ThreadsTyped
  <2>3. Keeps(w)
    BY <1>1, <1>2, <2>2 DEF Keeps
  <2>4. QED
    BY <1>1, <1>3, <2>1, <2>3, TurnLooks DEF Looks
<1>4. CASE idle[probe[t]]
  <2>1. PICK p \in Fibers : p = probe[t]
    BY <1>0
  <2>2. /\ \A g \in Fibers : idle'[g] = IF g = p THEN FALSE ELSE idle[g]
        /\ \A u \in Threads : running'[u] = IF u = t THEN p ELSE running[u]
        /\ \A u \in Threads : probe'[u] = IF u = t THEN 0 ELSE probe[u]
        /\ \A u \in Threads : u # t => tpc'[u] = tpc[u]
    <3>1. /\ idle' = [idle EXCEPT ![p] = FALSE] /\ running' = [running EXCEPT ![t] = p]
          /\ probe' = [probe EXCEPT ![t] = 0] /\ tpc' = [tpc EXCEPT ![t] = "fibers"]
      BY <1>1, <1>4, <2>1 DEF FindFreeFiber, SwitchTo
    <3>2. /\ idle \in [Fibers -> BOOLEAN] /\ running \in [Threads -> Fibers \cup {NoFiber}]
          /\ tpc \in [Threads -> ThreadPC]
      BY <1>0 DEF ThreadsTyped
    <3>3. \A g \in Fibers : idle'[g] = IF g = p THEN FALSE ELSE idle[g]
      BY <3>1, <3>2
    <3>4. \A u \in Threads : running'[u] = IF u = t THEN p ELSE running[u]
      BY <3>1, <3>2
    <3>5. \A u \in Threads : probe'[u] = IF u = t THEN 0 ELSE probe[u]
      BY <1>0, <3>1
    <3>6. \A u \in Threads : u # t => tpc'[u] = tpc[u]
      BY <3>1, <3>2
    <3>7. QED
      BY <3>3, <3>4, <3>5, <3>6
  <2>3. fpc[p] = "fresh"
    BY <1>1, <1>4, <2>1, StartsFresh
  <2>4. \A g \in Fibers : g < p => ~idle[g]
    BY <1>0, <2>1 DEF Probed
  <2>5. \A g \in Fibers : ~Displaced(g)'
    <3>1. \A g \in Fibers : ~Displaced(g)
      BY <1>1 DEF StartedFirst
    <3>2. running[t] = NoFiber
      BY <1>1 DEF LeftInv, Finding
    <3>3. QED
      BY <1>0, <1>1, <2>2, <3>1, <3>2 DEF Displaced
  <2>6. GivesWay(w)'
    BY <2>5 DEF GivesWay
  <2>7. TurnsOwn' /\ LastOut(w)'
    BY <1>0, <1>1, <2>2, <2>3 DEF TurnsOwn, Turning, LastOut
  <2>8. SparesLast'
    <3>1. SUFFICES ASSUME NEW g \in Fibers, NEW k \in Fibers, Spare(k)', ~Spare(g)' PROVE g < k
      BY DEF SparesLast
    <3>2. Spare(k) /\ k # p
      BY <1>1, <2>2, <3>1 DEF Spare
    <3>3. CASE g = p
      BY <1>0, <2>4, <3>2, <3>3 DEF Spare
    <3>4. CASE g # p
      BY <1>0, <1>1, <2>2, <3>1, <3>2, <3>4 DEF Spare, SparesLast
    <3>5. QED
      BY <3>3, <3>4
  <2>9. Probed'
    <3>1. SUFFICES ASSUME NEW u \in Threads
                   PROVE  /\ \A g \in Fibers : g < probe'[u] => ~idle'[g]
                          /\ probe'[u] # 0 => Looks(u)'
      BY DEF Probed
    <3>2. CASE u = t
      BY <1>0, <2>2, <3>2
    <3>3. CASE u # t
      <4>1. running'[u] = running[u] /\ probe'[u] = probe[u] /\ tpc'[u] = tpc[u]
        BY <2>2, <3>3
      <4>2. \A g \in Fibers : g < probe'[u] => ~idle'[g]
        BY <1>0, <2>2, <4>1 DEF Probed
      <4>3. probe'[u] # 0 => Looks(u)'
        BY <1>0, <1>1, <4>1 DEF Probed, Looks
      <4>4. QED
        BY <4>2, <4>3
    <3>4. QED
      BY <3>2, <3>3
  <2>10. QED
    BY <1>2, <2>6, <2>7, <2>8, <2>9 DEF TurnsInv
<1>5. QED
  BY <1>3, <1>4

LEMMA TurnStep ==
  ASSUME SchedInv, LeftInv, FromCode, StartedFirst, NEW w \in Code, TurnsInv(w),
         NEW t \in Threads, NEW f \in Fibers,
         running[t] = f, CleanupTLS(t, f) = t, FiberStep(t, f)
  PROVE  TurnsInv(w)'
<1>0. TypeOK /\ Leaver(w)
  BY DEF SchedInv, TypeInv, TurnsInv
<1>1. Keeps(w)
  BY <1>0, StepKeeps
<1>2. CASE Still
  BY <1>0, <1>1, <1>2, TurnStill
<1>3. CASE WaitSwitches(t, f) \/ MainLeaves(t, f)
  <2>1. fpc[f] \in {"find", "findLast"} /\ FindFreeFiber(t) /\ UNCHANGED frame
    BY <1>3 DEF WaitSwitches, MainLeaves, On
  <2>2. CASE idle[probe[t]]
    <3>1. Jump(f, "inWait") \/ Jump(f, "over")
      BY <1>3, <2>2 DEF WaitSwitches, MainLeaves
    <3>2. QED
      BY <2>1, <2>2, <3>1, TurnFinds
  <2>3. CASE ~idle[probe[t]]
    <3>1. NextProbe(t) /\ UNCHANGED fpc
      BY <1>0, <1>3, <2>1, <2>3 DEF FindFreeFiber, WaitSwitches, MainLeaves, Jump, On, TypeOK
    <3>2. Looks(t)
      BY <2>1 DEF Looks
    <3>3. QED
      BY <1>0, <1>1, <2>1, <2>3, <3>1, <3>2, TurnLooks
  <2>4. QED
    BY <2>2, <2>3
<1>4. QED
  BY <1>0, <1>2, <1>3, TurnKinds, TurnMild, TurnBacks, TurnStore, TurnSwitch

LEMMA TurnNext ==
  ASSUME SchedInv, LeftInv, FromCode, StartedFirst, TurnInv, [Next]_vars
  PROVE  TurnInv'
<1>0. TypeOK /\ ThreadsTyped
  BY TypesOfThreads DEF SchedInv, TypeInv
<1>1. PICK w \in Code : TurnsInv(w)
  BY DEF TurnInv
<1>2. Leaver(w)
  BY <1>1 DEF TurnsInv
<1>3. ASSUME UNCHANGED <<idle, running, probe, fpc, frame, tls, status, program>>,
             \A u \in Threads : tpc[u] = "find" => tpc'[u] = "find"
      PROVE  TurnsInv(w)'
  <2>1. Keeps(w) /\ Still
    BY <1>2, <1>3, LeaverKept DEF Keeps, Still, SameTLS
  <2>2. QED
    BY <1>0, <1>1, <2>1, TurnStill
<1>4. ASSUME UNCHANGED vars PROVE TurnsInv(w)'
  <2>1. UNCHANGED <<idle, running, probe, fpc, frame, tls, status, program>> /\ UNCHANGED tpc
    BY <1>4 DEF vars, schedVars, threadVars, fiberVars, programVars
  <2>2. QED
    BY <1>3, <2>1
<1>5. ASSUME NEW t \in Threads, Run(t)
      PROVE  TurnsInv(w)'
  <2>1. \A u \in Threads : tpc[u] = "find" => tpc'[u] = "find"
    BY <1>0, <1>5 DEF Run, ThreadsTyped
  <2>2. QED
    BY <1>3, <1>5, <2>1 DEF Run, fiberVars, programVars
<1>6. ASSUME NEW t \in Threads, running[t] # NoFiber, FiberStep(t, running[t])
      PROVE  TurnsInv(w)'
  <2>1. PICK f \in Fibers : f = running[t]
    BY <1>0, <1>6 DEF ThreadsTyped
  <2>2. SameThread
    BY <1>0, TurnsSame
  <2>3. CleanupTLS(t, f) = t
    BY <1>6, <2>1, <2>2 DEF SameThread
  <2>4. QED
    BY <1>1, <1>6, <2>1, <2>3, TurnStep
<1>7. ASSUME NEW t \in Threads, StartThread(t)
      PROVE  TurnsInv(w)'
  BY <1>0, <1>1, <1>7, TurnStarts
<1>8. ASSUME NEW t \in Threads, ThreadStep(t) PROVE TurnsInv(w)'
  BY <1>5, <1>6, <1>7, <1>8 DEF ThreadStep
<1>9. TurnsInv(w)'
  BY <1>4, <1>8 DEF Next, Terminated
<1>10. QED
  BY <1>9 DEF TurnInv

\* At the start the fibers that are taken are the first ones.
LEMMA TurnInit ==
  ASSUME Init, TypeOK, OneLeaver
  PROVE  TurnInv
<1>0. NumFibers \in Nat \ {0} /\ Fibers = 0 .. NumFibers - 1
  BY SchedulerAssumption
<1>1. PICK w \in Code : Leaver(w)
  BY DEF OneLeaver
<1>2. PICK m \in Fibers : m = running[MainThread]
  BY FirstOnes
<1>3. \A f \in Fibers : /\ fpc[f] = IF f = m THEN "body" ELSE "fresh"
                        /\ idle[f] = (f > m)
  BY <1>2 DEF Init
<1>4. GivesWay(w) /\ TurnsOwn /\ LastOut(w)
  BY <1>3 DEF GivesWay, Displaced, TurnsOwn, Turning, LastOut
<1>5. Probed
  BY <1>0 DEF Init, Probed
<1>6. SparesLast
  <2>0. \A f \in Fibers : f > m => f # m
    BY <1>0
  <2>1. \A f \in Fibers : Spare(f) <=> f > m
    BY <1>3, <2>0, Zenon DEF Spare
  <2>2. QED
    BY <1>0, <2>1 DEF SparesLast
<1>7. QED
  BY <1>1, <1>4, <1>5, <1>6 DEF TurnInv, TurnsInv

LEMMA OneWaitsToo == ASSUME OneLeaver PROVE OneWaiter
BY DEF OneLeaver, Leaver, OneWaiter

\* ManagerJobs.cpp:22, 73, Manager.cpp:168-187.  For any number of workers: where one code of
\* the program waits, however often, and the threads have started before a fiber is left in
\* GetNextJob, which Run does not see to, a thread cleans up with its own TLS, and so fibers
\* are left before they are used, registered once, and find room.
THEOREM OneLeaverIsSafe ==
  Spec /\ OneLeaver /\ []StartedFirst => [](SameThread /\ FiberIsLeft /\ ReadyOnce /\ NeverFull)
<1>1. Init /\ TypeOK /\ OneLeaver => LeftInv /\ WaitInv /\ FromCode /\ OneWaiter /\ TurnInv
  BY InitLeft, WaitInit, TurnInit, OneWaitsToo
<1>2. /\ SchedInv /\ SchedInv' /\ StartedFirst /\ [Next]_vars
      /\ LeftInv /\ WaitInv /\ FromCode /\ OneWaiter /\ TurnInv
      => LeftInv' /\ WaitInv' /\ FromCode' /\ OneWaiter' /\ TurnInv'
  <2>1. SUFFICES ASSUME SchedInv, SchedInv', StartedFirst, [Next]_vars,
                        LeftInv, WaitInv, FromCode, OneWaiter, TurnInv
                 PROVE  LeftInv' /\ WaitInv' /\ FromCode' /\ OneWaiter' /\ TurnInv'
    OBVIOUS
  <2>2. TypeOK /\ TypeOK' /\ SameThread
    BY <2>1, TurnsSame DEF SchedInv, TypeInv
  <2>3. QED
    BY <2>1, <2>2, NextLeft, WaitNext, TurnNext
<1>3. SchedInv => TypeOK
  BY DEF SchedInv, TypeInv
<1>4. SchedInv /\ TurnInv => SameThread
  BY <1>3, TurnsSame
<1>5. Spec /\ OneLeaver /\ []StartedFirst => OneWaiter /\ []SameThread
  BY <1>1, <1>2, <1>3, <1>4, SchedulerInvariant, PTL DEF Spec
<1>6. QED
  BY <1>5, FibersAreLeft, FibersReadyOnce, RoomForAll, PTL

\* README.md:2, Manager.h:116-126 and the fork and join of the examples: for any number of
\* workers, where one code waits, each counter is raised once, and the threads have started
\* before a fiber is left in GetNextJob, the job is done when the wait for it is over, the
\* Manager is a job service, and a Queue keeps its order.
THEOREM OneLeaverServes ==
  Spec /\ OneLeaver /\ CountersKept /\ OneJobEach /\ []StartedFirst
    => WaitMeansDone /\ IsJobService /\ []Consecutive
<1>1. Spec /\ OneLeaver /\ CountersKept /\ OneJobEach /\ []StartedFirst => WaitMeansDone
  BY OneLeaverIsSafe, OneJobWaits, PTL
<1>2. QED
  BY <1>1, ServicePromised, ExecutesConsecutively, PTL

\* ManagerJobs.cpp:44-46.  Where in addition no IO job waits, IO jobs are apart.
THEOREM OneLeaverIOApart == Spec /\ OneLeaver /\ IOJobsStay /\ []StartedFirst => []IOApart
BY OneLeaverIsSafe, IOStaysApart, PTL
=============================================================================

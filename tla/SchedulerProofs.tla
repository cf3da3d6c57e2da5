--------------------------- MODULE SchedulerProofs ---------------------------
(***************************************************************************)
(* The invariant of the scheduler, for any numbers of threads, fibers,     *)
(* slots and places in the queues, and any programs: the types; what a     *)
(* step of a fiber is to the jobs, one of nine moves; and where each job   *)
(* that is still to be asked for is asked for, so that a job is scheduled  *)
(* once.                                                                   *)
(***************************************************************************)
EXTENDS Scheduler, BaseCounterProofs, SequenceTheorems, FiniteSetTheorems

\* Where a fiber is while a job, or main, is in execution on it; and where while
\* it is in an operation.
Within == { "enqueue", "adding", "find", "inWait", "inWaitClear",
            "lookAgain", "cvEnter", "cvWait", "cvWoken", "joining" }
Executing == Within \cup {"body"}

\* A fiber that executes has what it executes, and is in an operation where it
\* should be; one that does not has nothing to do.
OpAt(pc, op) ==
  /\ pc = "enqueue" => op.op \in {"schedule", "blockingWait"}
  /\ pc \in {"adding", "find", "inWait", "inWaitClear"} => op.op = "wait"
  /\ pc \in {"lookAgain", "cvEnter", "cvWait", "cvWoken"} => op.op = "blockingWait"
  /\ pc = "joining" => op.op = "shutdown"

JobAt(pc, fr) ==
  /\ pc \in Executing \cup {"end", "findLast"} => fr.job \in Code
  /\ pc \notin Executing \cup {"end", "findLast", "over"} => fr.job = NoJob
  /\ pc \notin Executing => fr.rest = <<>>
  /\ fr.op # NoOp <=> pc \in Within
  /\ OpAt(pc, fr.op)

InJob == \A f \in Fibers : JobAt(fpc[f], frame[f])

\* A thread that is on a fiber has a fiber in its TLS.
KnowsFiber == \A t \in Threads : running[t] # NoFiber => tls[t].cur \in Fibers

\* A registration that can be taken names a fiber.
Named == \A s \in Slots : ~inUse[s] => fiberIndex[s] \in Fibers

\* Nothing is erased from an empty vector.
ErasesOne == \A f \in Fibers : Starts(f, "erase") => entries[NextOp(f).ctr] # <<>>

TypeInv == TypeOK /\ InJob /\ KnowsFiber /\ Named

----------------------------------------------------------------------------
(* Operations.                                                             *)

\* What an operation has, by its name.
LEMMA OpTypes ==
  ASSUME NEW op \in Op
  PROVE  /\ op.op \in {"schedule", "wait", "blockingWait", "notify", "new", "add",
                       "step", "execute", "erase", "shutdown"}
         /\ op.op = "schedule" =>
              op.prio \in Prio /\ op.job \in Jobs /\ op.ctr \in Counters \cup {NoCounter}
         /\ op.op \in Waits => op.ctr \in Counters /\ op.target \in Unit
         /\ op.op \in {"blockingWait", "notify"} => op.proxy \in Jobs
         /\ op.op \in {"new", "add", "step", "execute", "erase"} => op.ctr \in Counters
         /\ op.op = "add" => op.entry \in Entry
         /\ op.op = "shutdown" => op.blocking \in BOOLEAN
BY DEF Op, Waits

\* "none" is the name of no operation of a program.
LEMMA NoOpIsNone == NoOp.op = "none"
BY DEF NoOp

\* The operation that is next, and those after it.
LEMMA NextOpTypes ==
  ASSUME TypeOK, NEW f \in Fibers, frame[f].rest # <<>>
  PROVE  /\ NextOp(f) \in Op
         /\ Tail(frame[f].rest) \in Seq(Op)
<1>1. frame[f].rest \in Seq(Op)
  BY DEF TypeOK, Frame
<1>2. QED
  BY <1>1, HeadTailProperties DEF NextOp

\* A step or an execute unfolds to operations.
LEMMA UnfoldTypes ==
  ASSUME NEW rest \in Seq(Op), rest # <<>>, Head(rest).op \in {"step", "execute"},
         NEW es \in Seq(Entry)
  PROVE  Unfold(rest, es) \in Seq(Op)
<1>1. Head(rest) \in Op /\ Tail(rest) \in Seq(Op)
  BY HeadTailProperties
<1>2. Head(rest).ctr \in Counters
  BY <1>1, OpTypes
<1>3. CASE es = <<>>
  BY <1>1, <1>3 DEF Unfold
<1>4. CASE es # <<>>
  <2>1. Head(es) \in Entry
    BY <1>4, HeadTailProperties
  <2>2. Schedule(Head(es).prio, Head(es).job, Head(rest).ctr) \in Op
    BY <1>2, <2>1 DEF Entry, Schedule, Op
  <2>3. Wait(Head(rest).ctr, 0) \in Op
    <3>1. 0 \in Unit
      BY CounterAssumption DEF Unit
    <3>2. QED
      BY <1>2, <3>1 DEF Wait, Op
  <2>4. [op |-> "erase", ctr |-> Head(rest).ctr] \in Op
    BY <1>2 DEF Op
  <2>5. StepOn(Head(rest).ctr, es) \in Seq(Op)
    BY <2>2, <2>3, <2>4 DEF StepOn
  <2>6. QED
    BY <1>1, <1>4, <2>5, ConcatProperties DEF Unfold
<1>5. QED
  BY <1>3, <1>4

\* The vector of a Queue keeps its type.
LEMMA ChangedTypes ==
  ASSUME NEW op \in Op, op.op \in {"add", "erase"}, NEW es \in Seq(Entry),
         op.op = "erase" => es # <<>>
  PROVE  Changed(op, es) \in Seq(Entry)
BY OpTypes, AppendProperties, HeadTailProperties DEF Changed

----------------------------------------------------------------------------
(* The steps of a fiber and the counters.                                  *)

\* A step of a fiber is a step of its call on a counter, or constructs one, or
\* leaves them alone.
LEMMA StepUsesCounter ==
  ASSUME TypeOK, InJob, KnowsFiber,
         NEW t \in Threads, NEW f \in Fibers, running[t] = f, FiberStep(t, f)
  PROVE  CounterNext(f) \/ NewCounter(t, f) \/ UNCHANGED counterVars
<1>1. CASE ScheduleCount(t, f)
  <2>1. NextOp(f) \in Op /\ NextOp(f).ctr \in Counters
    BY <1>1, NextOpTypes, OpTypes DEF ScheduleCount, Starts
  <2>2. Increment(f, NextOp(f).ctr, 1) /\ 1 \in Nat
    BY <1>1 DEF ScheduleCount
  <2>3. QED
    BY <2>1, <2>2 DEF CounterNext
<1>2. CASE WaitForCounter(t, f)
  <2>1. NextOp(f) \in Op /\ NextOp(f).ctr \in Counters /\ NextOp(f).target \in Unit
    BY <1>2, NextOpTypes, OpTypes DEF WaitForCounter, Starts, Waits
  <2>2. tls[t].cur \in Fibers
    BY CounterAssumption DEF KnowsFiber
  <2>3. StartAdd(f, NextOp(f).ctr, tls[t].cur, NextOp(f).target)
    BY <1>2 DEF WaitForCounter
  <2>4. QED
    BY <2>1, <2>2, <2>3 DEF CounterNext
<1>3. CASE WaitDone(t, f) \/ WaitThrows(t, f) \/ WaitLeaves(t, f)
  BY <1>3 DEF WaitDone, WaitThrows, WaitLeaves, CounterNext, At, slotVars
<1>4. CASE Finish(t, f)
  <2>1. frame[f].job \in Jobs
    BY <1>4 DEF Finish, AtEnd, On, InJob, JobAt, Executing, Code
  <2>2. jobCounter[frame[f].job] \in Counters \cup {NoCounter}
    BY <2>1 DEF TypeOK
  <2>3. UNCHANGED counterVars \/ (Decrement(f, jobCounter[frame[f].job], 1) /\ jobCounter[frame[f].job] # NoCounter)
    BY <1>4 DEF Finish
  <2>4. 1 \in Nat
    OBVIOUS
  <2>5. QED
    BY <2>2, <2>3, <2>4 DEF CounterNext
<1>5. CASE Ready(t, f) \/ InCounter(t, f)
  BY <1>5 DEF Ready, InCounter, CounterNext
<1>6. CASE \/ CleanupStore(t, f) \/ CleanupClear(t, f)
           \/ Loop(t, f) \/ DequeueIO(t, f) \/ DequeueHigh(t, f) \/ ScanReady(t, f)
           \/ SwitchToReady(t, f) \/ DequeueNormal(t, f) \/ DequeueLow(t, f)
           \/ ScheduleUncounted(t, f) \/ ScheduleJob(t, f) \/ WaitNot(t, f) \/ WaitSwitches(t, f)
           \/ BlockingWaits(t, f) \/ LookAgain(t, f) \/ CvWait(t, f) \/ Notify(t, f) \/ CvReturns(t, f)
           \/ ChangeQueue(t, f) \/ QueueSteps(t, f)
           \/ Shutdown(t, f) \/ ShutdownJoins(t, f)
           \/ Executed(t, f) \/ MainEnds(t, f) \/ MainLeaves(t, f)
  BY <1>6 DEF CleanupStore, CleanupClear, Loop, DequeueIO, DequeueHigh, ScanReady, SwitchToReady,
      DequeueNormal, DequeueLow, Dequeue, ScheduleUncounted, ScheduleJob, WaitNot, WaitSwitches,
      BlockingWaits, LookAgain, CvWait, Notify, CvReturns, ChangeQueue, QueueSteps, Shutdown,
      ShutdownJoins, Executed, MainEnds, MainLeaves
<1>7. QED
  BY <1>1, <1>2, <1>3, <1>4, <1>5, <1>6 DEF FiberStep

\* A step of a call keeps the fibers in the slots.
LEMMA CounterNextNamed ==
  ASSUME CounterTypeOK, Named, NEW f \in Fibers, CounterNext(f)
  PROVE  Named'
<1>1. CASE AddStore(f)
  <2>1. Slot(f) \in Slots /\ call[f].fiber \in Fibers
    BY <1>1, CallTypes DEF AddStore, At, CounterTypeOK
  <2>2. QED
    BY <1>1, <2>1 DEF AddStore, Named, CounterTypeOK
<1>2. CASE ~AddStore(f)
  <2>1. /\ fiberIndex' = fiberIndex
        /\ inUse' = inUse \/ \E s : inUse' = [inUse EXCEPT ![s] = TRUE]
    BY <1>2 DEF CounterNext, Increment, Decrement, StartCheck, StartAdd, CounterStep, CheckAcquire,
       CheckFree, CheckInUse, CheckTarget, CheckAcquireFails, CheckRelease,
       AddTake, AddLoad, AddInUse, AddTarget, AddAcquire, AddRelease, slotVars
  <2>2. QED
    BY <2>1 DEF Named, CounterTypeOK
<1>3. QED
  BY <1>1, <1>2

\* So counters keep their types, whatever a fiber does.
LEMMA StepCounterTypes ==
  ASSUME TypeInv, NEW t \in Threads, NEW f \in Fibers, running[t] = f, FiberStep(t, f)
  PROVE  CounterTypeOK' /\ Named'
<1>1. CounterTypeOK
  BY DEF TypeInv, TypeOK
<1>2. CASE CounterNext(f)
  BY <1>1, <1>2, CounterNextType, CounterNextNamed DEF TypeInv
<1>3. CASE UNCHANGED counterVars
  BY <1>1, <1>3 DEF TypeInv, counterVars, CounterTypeOK, Named
<1>4. CASE NewCounter(t, f)
  <2>1. NextOp(f).ctr \in Counters
    BY <1>4, NextOpTypes, OpTypes DEF NewCounter, Starts, TypeInv
  <2>2. 0 \in Unit
    BY CounterAssumption DEF Unit
  <2>3. QED
    BY <1>1, <1>4, <2>1, <2>2 DEF NewCounter, TypeInv, CounterTypeOK, Named
<1>5. QED
  BY <1>2, <1>3, <1>4, StepUsesCounter DEF TypeInv

----------------------------------------------------------------------------
(* Types.                                                                  *)

\* What FindFreeFiber does keeps the types.
LEMMA FindTypes ==
  ASSUME TypeOK, KnowsFiber, NEW t \in Threads, FindFreeFiber(t)
  PROVE  /\ idle' \in [Fibers -> BOOLEAN]
         /\ tls' \in [Threads -> TLS]
         /\ running' \in [Threads -> Fibers \cup {NoFiber}]
         /\ home' \in [Fibers -> Threads \cup {NoThread}]
         /\ probe' \in [Threads -> Fibers]
         /\ KnowsFiber'
<1>0. /\ idle \in [Fibers -> BOOLEAN]
      /\ tls \in [Threads -> TLS]
      /\ running \in [Threads -> Fibers \cup {NoFiber}]
      /\ home \in [Fibers -> Threads \cup {NoThread}]
      /\ probe \in [Threads -> Fibers]
  BY DEF TypeOK
<1>1. probe[t] \in Fibers /\ 0 \in Fibers /\ (probe[t] + 1) % NumFibers \in Fibers
  <2>1. probe[t] \in 0 .. NumFibers - 1 /\ NumFibers \in Nat \ {0}
    BY <1>0, SchedulerAssumption
  <2>2. QED
    BY <2>1, SchedulerAssumption
<1>2. CASE idle[probe[t]]
  <2>1. [tls[t] EXCEPT !.cur = probe[t]] \in TLS
    BY <1>0, <1>1 DEF TLS
  <2>2. /\ idle'    = [idle EXCEPT ![probe[t]] = FALSE]
        /\ tls'     = [tls EXCEPT ![t] = [tls[t] EXCEPT !.cur = probe[t]]]
        /\ running' = [running EXCEPT ![t] = probe[t]]
        /\ home'    = [home EXCEPT ![probe[t]] = t]
        /\ probe'   = [probe EXCEPT ![t] = 0]
    BY <1>2 DEF FindFreeFiber, SwitchTo
  <2>3. tls' \in [Threads -> TLS] /\ tls'[t].cur = probe[t] /\ \A u \in Threads \ {t} : tls'[u] = tls[u]
    BY <1>0, <2>1, <2>2 DEF TLS
  <2>4. QED
    BY <1>0, <1>1, <2>2, <2>3 DEF KnowsFiber
<1>3. CASE ~idle[probe[t]]
  BY <1>0, <1>1, <1>3 DEF FindFreeFiber, NextProbe, KnowsFiber
<1>4. QED
  BY <1>2, <1>3

\* What a cleanup, and a fiber that is left to wait, make of a TLS.
LEMMA TLSFields ==
  ASSUME NEW r \in TLS
  PROVE  /\ [r EXCEPT !.prev = NoFiber, !.dest = "none"] \in TLS
         /\ [r EXCEPT !.prev = r.cur, !.dest = "waiting"] \in TLS
BY DEF TLS

\* The types of what concerns threads,
LEMMA ThreadTypes ==
  ASSUME TypeInv, NEW t \in Threads, NEW f \in Fibers, running[t] = f, FiberStep(t, f)
  PROVE  /\ idle' \in [Fibers -> BOOLEAN]
         /\ tls' \in [Threads -> TLS]
         /\ stored' \in [Fibers -> {"none", "no", "yes"}]
         /\ running' \in [Threads -> Fibers \cup {NoFiber}]
         /\ home' \in [Fibers -> Threads \cup {NoThread}]
         /\ tpc' \in [Threads -> ThreadPC]
         /\ probe' \in [Threads -> Fibers]
         /\ KnowsFiber'
<1>0. /\ idle \in [Fibers -> BOOLEAN]
      /\ tls \in [Threads -> TLS]
      /\ stored \in [Fibers -> {"none", "no", "yes"}]
      /\ running \in [Threads -> Fibers \cup {NoFiber}]
      /\ home \in [Fibers -> Threads \cup {NoThread}]
      /\ tpc \in [Threads -> ThreadPC]
      /\ probe \in [Threads -> Fibers]
      /\ frame[f].tls \in Threads /\ frame[f].scan \in Nat
      /\ KnowsFiber
  BY DEF TypeInv, TypeOK, Frame
<1> USE <1>0
<1>1. CASE CleanupStore(t, f)
  BY <1>1 DEF CleanupStore, KnowsFiber
<1>2. CASE CleanupClear(t, f)
  <2>1. CleanupTLS(t, f) \in Threads
    BY DEF CleanupTLS
  <2>2. PICK u \in Threads : u = CleanupTLS(t, f)
    BY <2>1
  <2>3. tls' = [tls EXCEPT ![u] = [tls[u] EXCEPT !.prev = NoFiber, !.dest = "none"]]
    BY <1>2, <2>2 DEF CleanupClear, TLS
  <2>4. [tls[u] EXCEPT !.prev = NoFiber, !.dest = "none"] \in TLS
    BY TLSFields
  <2>5. tls' \in [Threads -> TLS] /\ \A v \in Threads : tls'[v].cur = tls[v].cur
    BY <2>3, <2>4 DEF TLS
  <2>6. QED
    BY <1>2, <2>5 DEF CleanupClear, KnowsFiber
<1>3. CASE Loop(t, f)
  BY <1>3 DEF Loop, SwitchBack, NextTurn, KnowsFiber, ThreadPC
<1>4. CASE ScanReady(t, f)
  <2>1. CASE UNCHANGED <<tls, stored>>
    BY <1>4, <2>1 DEF ScanReady, KnowsFiber
  <2>2. ASSUME NEW i \in 1 .. Len(tls[t].ready), ReadyTakes(t, f, i)
        PROVE  /\ tls' \in [Threads -> TLS]
               /\ stored' \in [Fibers -> {"none", "no", "yes"}]
               /\ \A u \in Threads : tls'[u].cur \in Fibers \/ tls'[u] = tls[u]
    <3>1. tls[t].ready \in Seq(Fibers) /\ tls[t].ready[i] \in Fibers
      BY DEF TLS
    <3>2. RemoveAt(tls[t].ready, i) \in Seq(Fibers)
      BY <3>1, SubSeqProperties, ConcatProperties DEF RemoveAt
    <3>3. [cur |-> tls[t].ready[i], prev |-> tls[t].cur, dest |-> "pool",
           ready |-> RemoveAt(tls[t].ready, i)] \in TLS
      BY <3>1, <3>2 DEF TLS
    <3>4. QED
      BY <2>2, <3>1, <3>3 DEF ReadyTakes
  <2>3. Len(tls[t].ready) \in Nat /\ frame[f].scan + 1 \in Nat \ {0}
    BY DEF TLS
  <2>4. QED
    BY <1>4, <2>1, <2>2, <2>3 DEF ScanReady, ReadyEnds, ReadySkips, ReadyTakes, KnowsFiber
<1>5. CASE SwitchToReady(t, f)
  <2>1. tls[t].cur \in Fibers
    BY CounterAssumption DEF KnowsFiber
  <2>2. QED
    BY <1>5, <2>1 DEF SwitchToReady, SwitchTo, KnowsFiber
<1>6. CASE WaitSwitches(t, f) \/ MainLeaves(t, f)
  BY <1>6, FindTypes DEF TypeInv, WaitSwitches, MainLeaves
<1>7. CASE WaitForCounter(t, f) \/ WaitDone(t, f)
  BY <1>7 DEF WaitForCounter, WaitDone, KnowsFiber, threadVars
<1>8. CASE WaitLeaves(t, f)
  <2>1. [tls[t] EXCEPT !.prev = tls[t].cur, !.dest = "waiting"] \in TLS
    BY TLSFields
  <2>2. tls' = [tls EXCEPT ![t] = [tls[t] EXCEPT !.prev = tls[t].cur, !.dest = "waiting"]]
    BY <1>8 DEF WaitLeaves, TLS
  <2>3. tls' \in [Threads -> TLS] /\ \A v \in Threads : tls'[v].cur = tls[v].cur
    BY <2>1, <2>2 DEF TLS
  <2>4. QED
    BY <1>8, <2>3 DEF WaitLeaves, KnowsFiber
<1>9. CASE MainEnds(t, f)
  BY <1>9 DEF MainEnds, SwitchBack, KnowsFiber, ThreadPC
<1>10. CASE Ready(t, f)
  <2>1. Handed(f) \in Fibers
    BY <1>10, CallTypes DEF Ready, CheckAcquire, Handed, Named, At, TypeInv, TypeOK
  <2>2. PICK r \in Seq(Fibers) : r = Append(tls[t].ready, Handed(f))
    <3>1. tls[t].ready \in Seq(Fibers)
      BY DEF TLS
    <3>2. QED
      BY <2>1, <3>1, AppendProperties
  <2>3. [tls[t] EXCEPT !.ready = r] \in TLS
    BY DEF TLS
  <2>4. tls' = [tls EXCEPT ![t] = [tls[t] EXCEPT !.ready = r]]
    BY <1>10, <2>2 DEF Ready, TLS
  <2>5. tls' \in [Threads -> TLS] /\ \A v \in Threads : tls'[v].cur = tls[v].cur
    BY <2>3, <2>4 DEF TLS
  <2>6. QED
    BY <1>10, <2>5 DEF Ready, KnowsFiber, fiberVars
<1>11. CASE \/ DequeueIO(t, f) \/ DequeueHigh(t, f) \/ DequeueNormal(t, f) \/ DequeueLow(t, f)
            \/ ScheduleCount(t, f) \/ ScheduleUncounted(t, f) \/ ScheduleJob(t, f)
            \/ WaitNot(t, f) \/ WaitThrows(t, f)
            \/ BlockingWaits(t, f) \/ LookAgain(t, f) \/ CvWait(t, f) \/ Notify(t, f) \/ CvReturns(t, f)
            \/ NewCounter(t, f) \/ ChangeQueue(t, f) \/ QueueSteps(t, f)
            \/ Shutdown(t, f) \/ ShutdownJoins(t, f)
            \/ Finish(t, f) \/ Executed(t, f) \/ InCounter(t, f)
  <2>1. UNCHANGED <<threadVars, stored>>
    BY <1>11 DEF DequeueIO, DequeueHigh, DequeueNormal, DequeueLow, Dequeue, ScheduleCount,
       ScheduleUncounted, ScheduleJob, WaitNot, WaitThrows, BlockingWaits, LookAgain, CvWait,
       Notify, CvReturns, NewCounter, ChangeQueue, QueueSteps, Shutdown, ShutdownJoins, Finish,
       Executed, InCounter, fiberVars, schedVars, threadVars
  <2>2. QED
    BY <2>1 DEF threadVars, KnowsFiber
<1>12. QED
  BY <1>1, <1>2, <1>3, <1>4, <1>5, <1>6, <1>7, <1>8, <1>9, <1>10, <1>11 DEF FiberStep

\* what each fiber does,
FramesOK == fpc \in [Fibers -> FiberPC] /\ frame \in [Fibers -> Frame] /\ InJob

\* The fields of a frame.
LEMMA FrameFields ==
  ASSUME FramesOK, NEW f \in Fibers
  PROVE  /\ frame[f].job \in Code \cup {NoJob} /\ frame[f].op \in Op \cup {NoOp}
         /\ frame[f].rest \in Seq(Op) /\ frame[f].tls \in Threads /\ frame[f].scan \in Nat
         /\ JobAt(fpc[f], frame[f])
         /\ fpc[f] \in FiberPC
BY DEF FramesOK, Frame, InJob

\* Only f goes on.
Alone(f) == \A g \in Fibers : g # f => frame'[g] = frame[g]

\* A step that puts a good frame and place in for f keeps all of them good,
LEMMA FrameStep ==
  ASSUME FramesOK, NEW f \in Fibers, NEW pc \in FiberPC,
         fpc' = [fpc EXCEPT ![f] = pc], frame' \in [Fibers -> Frame], Alone(f),
         JobAt(pc, frame'[f])
  PROVE  FramesOK'
BY DEF FramesOK, InJob, Alone

\* The place changes and nothing else,
LEMMA PlaceStep ==
  ASSUME FramesOK, NEW f \in Fibers, NEW pc \in FiberPC,
         fpc' = [fpc EXCEPT ![f] = pc], frame' = frame, JobAt(pc, frame[f])
  PROVE  FramesOK'
BY DEF FramesOK, InJob

\* or the operation begins,
LEMMA BeginStep ==
  ASSUME FramesOK, NEW f \in Fibers, NEW pc \in Within,
         fpc' = [fpc EXCEPT ![f] = pc], fpc[f] = "body",
         frame[f].rest # <<>>, Begin(f), OpAt(pc, NextOp(f))
  PROVE  FramesOK'
<1>0. /\ frame[f].job \in Code /\ frame \in [Fibers -> Frame]
      /\ frame[f].rest \in Seq(Op)
  BY FrameFields DEF JobAt, Executing, FramesOK
<1>1. NextOp(f) \in Op /\ Tail(frame[f].rest) \in Seq(Op)
  BY <1>0, HeadTailProperties DEF NextOp
<1>2. frame' \in [Fibers -> Frame] /\ Alone(f)
  BY <1>0, <1>1 DEF Begin, Frame, Alone
<1>3. frame'[f].op = NextOp(f) /\ frame'[f].job = frame[f].job
  BY <1>0 DEF Begin
<1>4. NextOp(f) # NoOp
  BY <1>1, OpTypes, NoOpIsNone
<1>5. JobAt(pc, frame'[f])
  BY <1>0, <1>3, <1>4 DEF JobAt, Executing
<1>6. pc \in FiberPC
  BY DEF Within, FiberPC
<1>7. QED
  BY <1>2, <1>5, <1>6, FrameStep

\* is over,
LEMMA EndStep ==
  ASSUME FramesOK, NEW f \in Fibers, fpc' = [fpc EXCEPT ![f] = "body"], fpc[f] \in Within, End(f)
  PROVE  FramesOK'
<1>0. frame[f].job \in Code /\ frame \in [Fibers -> Frame]
  BY FrameFields DEF JobAt, Executing, FramesOK
<1>1. frame' \in [Fibers -> Frame] /\ Alone(f)
  BY <1>0 DEF End, Frame, Alone
<1>2. frame'[f].op = NoOp /\ frame'[f].job = frame[f].job
  BY <1>0 DEF End
<1>3. JobAt("body", frame'[f])
  BY <1>0, <1>2 DEF JobAt, OpAt, Executing, Within
<1>4. QED
  BY <1>1, <1>3, FrameStep DEF FiberPC

\* or was done at once.
LEMMA RestStep ==
  ASSUME FramesOK, NEW f \in Fibers, NEW rest \in Seq(Op), fpc' = fpc, fpc[f] = "body",
         frame' = [frame EXCEPT ![f].rest = rest]
  PROVE  FramesOK'
<1>0. frame[f].job \in Code /\ frame \in [Fibers -> Frame] /\ JobAt("body", frame[f])
  BY FrameFields DEF JobAt, Executing, FramesOK
<1>1. frame' \in [Fibers -> Frame] /\ Alone(f)
  BY <1>0 DEF Frame, Alone
<1>2. frame'[f].op = frame[f].op /\ frame'[f].job = frame[f].job
  BY <1>0
<1>3. JobAt("body", frame'[f])
  BY <1>0, <1>2 DEF JobAt, OpAt, Executing, Within
<1>4. fpc' = [fpc EXCEPT ![f] = "body"]
  BY DEF FramesOK
<1>5. QED
  BY <1>1, <1>3, <1>4, FrameStep DEF FiberPC

\* The code of the program.
LEMMA BodyTypes ==
  ASSUME TypeOK
  PROVE  /\ program.body \in [Code -> Seq(Op)]
         /\ ScheduledOnce(program.body) /\ QueuesOwned(program.body)
BY SchedulerAssumption DEF TypeOK, ProgramType

\* Every step of a fiber keeps the frames.
LEMMA FrameTypes ==
  ASSUME TypeInv, NEW t \in Threads, NEW f \in Fibers, running[t] = f, FiberStep(t, f)
  PROVE  FramesOK'
<1>0. /\ TypeOK /\ FramesOK
      /\ fpc \in [Fibers -> FiberPC]
      /\ frame \in [Fibers -> Frame]
      /\ frame[f].job \in Code \cup {NoJob} /\ frame[f].op \in Op \cup {NoOp}
      /\ frame[f].rest \in Seq(Op) /\ frame[f].tls \in Threads /\ frame[f].scan \in Nat
      /\ JobAt(fpc[f], frame[f])
  BY FrameFields DEF TypeInv, TypeOK, FramesOK
<1> USE DEF Jump, On, Starts
<1>1. CASE CleanupStore(t, f) \/ CleanupClear(t, f)
  <2>0. fpc[f] \in {"fresh", "inGet", "inWait", "freshClear", "inGetClear", "inWaitClear"}
    BY <1>1 DEF CleanupStore, CleanupClear
  <2>1. CASE CleanupEnds(f)
    <3>1. CASE AfterCleanup[fpc[f]] = "body"
      <4>1. fpc[f] \in {"inWait", "inWaitClear"}
        BY <2>0, <3>1 DEF AfterCleanup
      <4>2. End(f) /\ fpc' = [fpc EXCEPT ![f] = "body"]
        BY <2>1, <3>1 DEF CleanupEnds, End
      <4>3. QED
        BY <1>0, <4>1, <4>2, EndStep DEF Within
    <3>2. CASE AfterCleanup[fpc[f]] # "body"
      <4>0. fpc[f] \in {"fresh", "inGet", "freshClear", "inGetClear"}
            /\ AfterCleanup[fpc[f]] \in {"loop", "normal"}
        BY <2>0, <3>2 DEF AfterCleanup
      <4>1. PICK pc \in {"loop", "normal"} : fpc' = [fpc EXCEPT ![f] = pc]
        BY <4>0, <2>1 DEF CleanupEnds
      <4>2. frame' = frame /\ fpc[f] \in {"fresh", "inGet", "freshClear", "inGetClear"}
        BY <4>0, <2>1, <3>2 DEF CleanupEnds
      <4>3. pc \in FiberPC /\ JobAt(pc, frame[f])
        BY <1>0, <4>2 DEF JobAt, OpAt, Executing, Within, FiberPC
      <4>4. QED
        BY <1>0, <4>1, <4>2, <4>3, PlaceStep
    <3>3. QED
      BY <3>1, <3>2
  <2>2. CASE ~CleanupEnds(f)
    <3>1. fpc[f] \in {"fresh", "inGet", "inWait"} /\ fpc' = [fpc EXCEPT ![f] = Clearing[fpc[f]]] /\ frame' = frame
      BY <1>1, <2>2 DEF CleanupStore, CleanupClear
    <3>2. Clearing[fpc[f]] \in FiberPC /\ JobAt(Clearing[fpc[f]], frame[f])
      BY <1>0, <3>1 DEF JobAt, OpAt, Executing, Within, FiberPC, Clearing
    <3>3. QED
      BY <1>0, <3>1, <3>2, PlaceStep
  <2>3. QED
    BY <2>1, <2>2
<1>2. CASE Loop(t, f)
  <2>1. CASE shuttingDown
    <3>1. fpc' = [fpc EXCEPT ![f] = "over"] /\ frame' = frame /\ fpc[f] = "loop"
      BY <1>2, <2>1 DEF Loop, SwitchBack
    <3>2. "over" \in FiberPC /\ JobAt("over", frame[f])
      BY <1>0, <3>1 DEF JobAt, OpAt, Executing, Within, FiberPC
    <3>3. QED
      BY <1>0, <3>1, <3>2, PlaceStep
  <2>2. CASE ~shuttingDown
    <3>1. PICK pc \in {"io", "high"} : fpc' = [fpc EXCEPT ![f] = pc]
      BY <1>2, <2>2 DEF Loop, NextTurn
    <3>2. /\ fpc[f] = "loop" /\ frame' \in [Fibers -> Frame] /\ Alone(f)
          /\ frame'[f].job = frame[f].job /\ frame'[f].op = frame[f].op /\ frame'[f].rest = frame[f].rest
      <4>1. fpc[f] = "loop" /\ frame' = [frame EXCEPT ![f].tls = t]
        BY <1>2, <2>2 DEF Loop, NextTurn
      <4>2. QED
        BY <1>0, <4>1 DEF Frame, Alone
    <3>3. pc \in FiberPC /\ JobAt(pc, frame'[f])
      BY <1>0, <3>2 DEF JobAt, OpAt, Executing, Within, FiberPC
    <3>4. QED
      BY <1>0, <3>1, <3>2, <3>3, FrameStep
  <2>3. QED
    BY <2>1, <2>2
<1>3. ASSUME NEW p \in Prio, NEW pc \in {"loop", "ready", "low"}, Dequeue(f, p, pc),
             fpc[f] \in {"io", "high", "normal", "low"}
      PROVE  FramesOK'
  <2>1. CASE queue[p] # <<>>
    <3>1. Head(queue[p]) \in Jobs
      BY <2>1, HeadTailProperties DEF TypeInv, TypeOK
    <3>2. PICK j \in Jobs : j = Head(queue[p])
      BY <3>1
    <3>3. program.body[j] \in Seq(Op) /\ j \in Code
      BY <1>0, BodyTypes DEF Code
    <3>4. /\ fpc' = [fpc EXCEPT ![f] = "body"]
          /\ frame' \in [Fibers -> Frame] /\ Alone(f)
          /\ frame'[f].job = j /\ frame'[f].op = frame[f].op
      <4>1. /\ fpc' = [fpc EXCEPT ![f] = "body"]
            /\ frame' = [frame EXCEPT ![f].job = Head(queue[p]),
                                      ![f].rest = program.body[Head(queue[p])]]
        BY <1>3, <2>1 DEF Dequeue
      <4>2. Head(queue[p]) \in Code /\ program.body[Head(queue[p])] \in Seq(Op)
        BY <3>2, <3>3
      <4>3. frame' \in [Fibers -> Frame]
        <5>1. [frame[f] EXCEPT !.job = Head(queue[p]), !.rest = program.body[Head(queue[p])]] \in Frame
          BY <1>0, <4>2 DEF Frame
        <5>2. QED
          BY <1>0, <4>1, <5>1
      <4>4. Alone(f) /\ frame'[f].job = Head(queue[p]) /\ frame'[f].op = frame[f].op
        BY <1>0, <4>1 DEF Alone
      <4>5. QED
        BY <3>2, <4>1, <4>3, <4>4
    <3>5. JobAt("body", frame'[f])
      BY <1>0, <1>3, <3>3, <3>4 DEF JobAt, OpAt, Executing, Within
    <3>6. QED
      BY <1>0, <3>3, <3>4, <3>5, FrameStep DEF FiberPC
  <2>2. CASE queue[p] = <<>>
    <3>1. fpc' = [fpc EXCEPT ![f] = pc] /\ frame' = frame
      BY <1>3, <2>2 DEF Dequeue
    <3>2. pc \in FiberPC /\ JobAt(pc, frame[f])
      BY <1>0, <1>3 DEF JobAt, OpAt, Executing, Within, FiberPC
    <3>3. QED
      BY <1>0, <3>1, <3>2, PlaceStep
  <2>3. QED
    BY <2>1, <2>2
<1>4. CASE DequeueIO(t, f) \/ DequeueHigh(t, f) \/ DequeueNormal(t, f) \/ DequeueLow(t, f)
  BY <1>3, <1>4 DEF DequeueIO, DequeueHigh, DequeueNormal, DequeueLow, Prio
<1>5. CASE ScanReady(t, f)
  <2>1. fpc[f] = "ready"
    BY <1>5 DEF ScanReady
  <2>2. PICK pc \in {"normal", "switch", "ready"} : fpc' = [fpc EXCEPT ![f] = pc]
    BY <1>0, <1>5, <2>1 DEF ScanReady, ReadyEnds, ReadySkips, ReadyTakes
  <2>3. PICK scan \in Nat : frame' = [frame EXCEPT ![f].scan = scan]
    <3>1. frame[f].scan + 1 \in Nat /\ 0 \in Nat
      BY <1>0
    <3>2. QED
      BY <1>5, <3>1 DEF ScanReady, ReadyEnds, ReadySkips, ReadyTakes
  <2>4. /\ frame' \in [Fibers -> Frame] /\ Alone(f)
        /\ frame'[f].job = frame[f].job /\ frame'[f].op = frame[f].op /\ frame'[f].rest = frame[f].rest
    BY <1>0, <2>3 DEF Frame, Alone
  <2>5. pc \in FiberPC /\ JobAt(pc, frame'[f])
    BY <1>0, <2>1, <2>4 DEF JobAt, OpAt, Executing, Within, FiberPC
  <2>6. QED
    BY <1>0, <2>2, <2>4, <2>5, FrameStep
<1>6. CASE SwitchToReady(t, f)
  <2>1. fpc[f] = "switch" /\ fpc' = [fpc EXCEPT ![f] = "inGet"] /\ frame' = frame
    BY <1>6 DEF SwitchToReady
  <2>2. "inGet" \in FiberPC /\ JobAt("inGet", frame[f])
    BY <1>0, <2>1 DEF JobAt, OpAt, Executing, Within, FiberPC
  <2>3. QED
    BY <1>0, <2>1, <2>2, PlaceStep
<1>7. CASE ScheduleCount(t, f) \/ ScheduleUncounted(t, f)
  <2>1. /\ fpc' = [fpc EXCEPT ![f] = "enqueue"] /\ fpc[f] = "body" /\ frame[f].rest # <<>>
        /\ Begin(f) /\ NextOp(f).op = "schedule"
    BY <1>7 DEF ScheduleCount, ScheduleUncounted
  <2>2. "enqueue" \in Within /\ OpAt("enqueue", NextOp(f))
    BY <2>1 DEF OpAt, Within
  <2>3. QED
    BY <1>0, <2>1, <2>2, BeginStep
<1>8. CASE WaitForCounter(t, f)
  <2>1. /\ fpc' = [fpc EXCEPT ![f] = "adding"] /\ fpc[f] = "body" /\ frame[f].rest # <<>>
        /\ Begin(f) /\ NextOp(f).op = "wait"
    BY <1>8 DEF WaitForCounter
  <2>2. "adding" \in Within /\ OpAt("adding", NextOp(f))
    BY <2>1 DEF OpAt, Within
  <2>3. QED
    BY <1>0, <2>1, <2>2, BeginStep
<1>9. CASE BlockingWaits(t, f)
  <2>1. /\ fpc' = [fpc EXCEPT ![f] = "lookAgain"] /\ fpc[f] = "body" /\ frame[f].rest # <<>>
        /\ Begin(f) /\ NextOp(f).op = "blockingWait"
    BY <1>9 DEF BlockingWaits
  <2>2. "lookAgain" \in Within /\ OpAt("lookAgain", NextOp(f))
    BY <2>1 DEF OpAt, Within
  <2>3. QED
    BY <1>0, <2>1, <2>2, BeginStep
<1>10. CASE Shutdown(t, f)
  <2>1. CASE NextOp(f).blocking
    <3>1. /\ fpc' = [fpc EXCEPT ![f] = "joining"] /\ fpc[f] = "body" /\ frame[f].rest # <<>>
          /\ Begin(f) /\ NextOp(f).op = "shutdown"
      BY <1>10, <2>1 DEF Shutdown
    <3>2. "joining" \in Within /\ OpAt("joining", NextOp(f))
      BY <3>1 DEF OpAt, Within
    <3>3. QED
      BY <1>0, <3>1, <3>2, BeginStep
  <2>2. CASE ~NextOp(f).blocking
    <3>1. /\ fpc' = fpc /\ fpc[f] = "body" /\ frame[f].rest # <<>>
          /\ frame' = [frame EXCEPT ![f].rest = Tail(frame[f].rest)]
      BY <1>10, <2>2 DEF Shutdown, Skip
    <3>2. Tail(frame[f].rest) \in Seq(Op)
      BY <1>0, <3>1, NextOpTypes
    <3>3. QED
      BY <1>0, <3>1, <3>2, RestStep
  <2>3. QED
    BY <2>1, <2>2
<1>11. CASE WaitDone(t, f) \/ CvReturns(t, f) \/ ShutdownJoins(t, f)
  <2>1. fpc[f] \in Within /\ End(f) /\ fpc' = [fpc EXCEPT ![f] = "body"]
    BY <1>11 DEF WaitDone, CvReturns, ShutdownJoins, Within
  <2>2. QED
    BY <1>0, <2>1, EndStep
<1>12. CASE LookAgain(t, f) \/ ScheduleJob(t, f)
  <2>1. CASE End(f) /\ fpc' = [fpc EXCEPT ![f] = "body"]
    <3>1. fpc[f] \in Within
      BY <1>12 DEF LookAgain, ScheduleJob, Within
    <3>2. QED
      BY <1>0, <2>1, <3>1, EndStep
  <2>2. CASE UNCHANGED <<fpc, frame>>
    BY <1>0, <2>2 DEF FramesOK, InJob
  <2>3. CASE /\ frame' = frame
             /\ \/ fpc[f] = "lookAgain" /\ fpc' = [fpc EXCEPT ![f] = "enqueue"]
                \/ fpc[f] = "enqueue" /\ frame[f].op.op # "schedule" /\ fpc' = [fpc EXCEPT ![f] = "cvEnter"]
    <3>1. PICK pc \in {"enqueue", "cvEnter"} : fpc' = [fpc EXCEPT ![f] = pc] /\ JobAt(pc, frame[f])
      BY <1>0, <2>3 DEF JobAt, OpAt, Executing, Within
    <3>2. pc \in FiberPC
      BY DEF FiberPC
    <3>3. QED
      BY <1>0, <2>3, <3>1, <3>2, PlaceStep
  <2>4. QED
    BY <1>12, <2>1, <2>2, <2>3 DEF LookAgain, ScheduleJob, Submitted, CurOp
<1>13. CASE WaitNot(t, f) \/ NewCounter(t, f) \/ ChangeQueue(t, f)
  <2>1. /\ fpc' = fpc /\ fpc[f] = "body" /\ frame[f].rest # <<>>
        /\ frame' = [frame EXCEPT ![f].rest = Tail(frame[f].rest)]
    BY <1>13 DEF WaitNot, NewCounter, ChangeQueue, Skip
  <2>2. Tail(frame[f].rest) \in Seq(Op)
    BY <1>0, <2>1, NextOpTypes
  <2>3. QED
    BY <1>0, <2>1, <2>2, RestStep
<1>14. CASE QueueSteps(t, f)
  <2>1. /\ fpc' = fpc /\ fpc[f] = "body" /\ frame[f].rest # <<>>
        /\ Head(frame[f].rest).op \in {"step", "execute"}
        /\ frame' = [frame EXCEPT ![f].rest = Unfold(frame[f].rest, entries[NextOp(f).ctr])]
    BY <1>14 DEF QueueSteps, NextOp
  <2>2. entries[NextOp(f).ctr] \in Seq(Entry)
    <3>1. NextOp(f).ctr \in Counters
      BY <1>0, <2>1, NextOpTypes, OpTypes DEF NextOp
    <3>2. QED
      BY <1>0, <3>1 DEF TypeOK
  <2>3. Unfold(frame[f].rest, entries[NextOp(f).ctr]) \in Seq(Op)
    BY <1>0, <2>1, <2>2, UnfoldTypes
  <2>4. QED
    BY <1>0, <2>1, <2>3, RestStep
<1>15. CASE Notify(t, f)
  <2>1. fpc[f] = "body" /\ frame[f].rest # <<>>
        /\ frame' = [frame EXCEPT ![f].rest = Tail(frame[f].rest)]
    BY <1>15 DEF Notify, Skip
  <2>2. Tail(frame[f].rest) \in Seq(Op)
    BY <1>0, <2>1, NextOpTypes
  <2>3. fpc' \in [Fibers -> FiberPC]
    BY <1>0, <1>15 DEF Notify, FiberPC
  <2>4. [frame[f] EXCEPT !.rest = Tail(frame[f].rest)] \in Frame
    BY <1>0, <2>2 DEF Frame
  <2>5. frame' \in [Fibers -> Frame] /\ frame'[f] = [frame[f] EXCEPT !.rest = Tail(frame[f].rest)]
        /\ \A g \in Fibers \ {f} : frame'[g] = frame[g]
    BY <1>0, <2>1, <2>4
  <2>6. JobAt(fpc'[f], frame'[f])
    <3>1. fpc'[f] = "body"
      BY <1>0, <1>15, <2>1 DEF Notify
    <3>2. QED
      BY <1>0, <2>1, <2>5, <3>1 DEF JobAt, OpAt, Executing, Within
  <2>7. ASSUME NEW g \in Fibers \ {f}
        PROVE  JobAt(fpc'[g], frame'[g])
    <3>1. JobAt(fpc[g], frame[g]) /\ frame'[g] = frame[g]
      BY <1>0, <2>5 DEF FramesOK, InJob
    <3>2. fpc'[g] = fpc[g] \/ (fpc[g] = "cvWait" /\ fpc'[g] = "cvWoken")
      BY <1>0, <1>15 DEF Notify
    <3>3. QED
      BY <3>1, <3>2 DEF JobAt, OpAt, Executing, Within
  <2>8. QED
    BY <2>3, <2>5, <2>6, <2>7 DEF FramesOK, InJob
<1>16. CASE WaitLeaves(t, f) \/ WaitSwitches(t, f) \/ CvWait(t, f)
  <2>1. frame' = frame
    BY <1>16 DEF WaitLeaves, WaitSwitches, CvWait
  <2>2. PICK pc \in {"find", "inWait", "cvWait"} :
          /\ fpc' = [fpc EXCEPT ![f] = pc]
          /\ IF pc = "cvWait" THEN fpc[f] = "cvEnter" ELSE fpc[f] \in {"adding", "find"}
    BY <1>16 DEF WaitLeaves, WaitSwitches, CvWait
  <2>3. pc \in FiberPC /\ JobAt(pc, frame[f])
    BY <1>0, <2>2 DEF JobAt, OpAt, Executing, Within, FiberPC
  <2>4. QED
    BY <1>0, <2>1, <2>2, <2>3, PlaceStep
<1>17. CASE Finish(t, f) \/ MainEnds(t, f) \/ MainLeaves(t, f)
  <2>1. frame' = frame
    BY <1>17 DEF Finish, MainEnds, MainLeaves
  <2>2. PICK pc \in {"end", "over", "findLast"} :
          /\ fpc' = [fpc EXCEPT ![f] = pc]
          /\ (fpc[f] = "body" /\ frame[f].rest = <<>>) \/ fpc[f] = "findLast"
    BY <1>17 DEF Finish, MainEnds, MainLeaves, SwitchBack, AtEnd
  <2>3. pc \in FiberPC /\ JobAt(pc, frame[f])
    BY <1>0, <2>2 DEF JobAt, OpAt, Executing, Within, FiberPC
  <2>4. QED
    BY <1>0, <2>1, <2>2, <2>3, PlaceStep
<1>18. CASE Executed(t, f)
  <2>1. /\ fpc[f] = "end" /\ fpc' = [fpc EXCEPT ![f] = "loop"]
        /\ frame' \in [Fibers -> Frame] /\ Alone(f)
        /\ frame'[f].job = NoJob /\ frame'[f].op = frame[f].op /\ frame'[f].rest = frame[f].rest
    BY <1>0, <1>18 DEF Executed, Frame, Alone
  <2>2. "loop" \in FiberPC /\ JobAt("loop", frame'[f])
    BY <1>0, <2>1 DEF JobAt, OpAt, Executing, Within, FiberPC
  <2>3. QED
    BY <1>0, <2>1, <2>2, FrameStep
<1>19. CASE WaitThrows(t, f) \/ Ready(t, f) \/ InCounter(t, f)
  <2>1. UNCHANGED <<fpc, frame>>
    BY <1>19 DEF WaitThrows, Ready, InCounter, fiberVars, schedVars
  <2>2. QED
    BY <1>0, <2>1 DEF FramesOK, InJob
<1>20. QED
  BY <1>1, <1>2, <1>4, <1>5, <1>6, <1>7, <1>8, <1>9, <1>10, <1>11, <1>12, <1>13, <1>14,
     <1>15, <1>16, <1>17, <1>18, <1>19 DEF FiberStep

----------------------------------------------------------------------------
(* What a step of a fiber is to the jobs.                                  *)

\* Whether f has scheduled the proxy of its blocking wait, or is done with its job.
Phase(f) ==
  IF fpc[f] \in {"cvEnter", "cvWait", "cvWoken"} THEN "proxied"
  ELSE IF fpc[f] = "end" THEN "ended" ELSE "on"

\* f comes to have this job, this left to do, and this phase; nothing changes for
\* the others.
After(f, job, left, phase) ==
  /\ \A g \in Fibers : g # f =>
       frame'[g].job = frame[g].job /\ Remaining(g)' = Remaining(g) /\ Phase(g)' = Phase(g)
  /\ frame'[f].job = job
  /\ Remaining(f)' = left
  /\ Phase(f)' = phase

\* The next operation of f is one of ops.
Faces(f, ops) == Remaining(f) # <<>> /\ Head(Remaining(f)).op \in ops

Idles(f) ==
  /\ After(f, frame[f].job, Remaining(f), Phase(f))
  /\ UNCHANGED <<program, queue, jobCounter, entries, status>>

Passes(f) ==
  /\ Faces(f, Waits \cup {"new", "notify", "shutdown"})
  /\ Phase(f) # "ended"
  /\ After(f, frame[f].job, Tail(Remaining(f)), "on")
  /\ UNCHANGED <<program, queue, jobCounter, entries, status>>

Enqueues(prio, job, ctr) ==
  /\ queue' = [queue EXCEPT ![prio] = Append(@, job)]
  /\ jobCounter' = [jobCounter EXCEPT ![job] = ctr]
  /\ status' = [status EXCEPT ![job] = "queued"]
  /\ UNCHANGED <<program, entries>>

Submits(f) ==
  /\ Faces(f, {"schedule"})
  /\ Phase(f) = "on"
  /\ Enqueues(Head(Remaining(f)).prio, Head(Remaining(f)).job, Head(Remaining(f)).ctr)
  /\ After(f, frame[f].job, Tail(Remaining(f)), "on")

SubmitsProxy(f) ==
  /\ Faces(f, {"blockingWait"})
  /\ Phase(f) = "on"
  /\ Enqueues("high", Head(Remaining(f)).proxy, NoCounter)
  /\ After(f, frame[f].job, Remaining(f), "proxied")

Changes(f) ==
  /\ Faces(f, {"add", "erase"})
  /\ Phase(f) = "on"
  /\ entries' = [entries EXCEPT ![Head(Remaining(f)).ctr] = Changed(Head(Remaining(f)), @)]
  /\ After(f, frame[f].job, Tail(Remaining(f)), "on")
  /\ UNCHANGED <<program, queue, jobCounter, status>>

Unfolds(f) ==
  /\ Faces(f, {"step", "execute"})
  /\ Phase(f) = "on"
  /\ After(f, frame[f].job, Unfold(Remaining(f), entries[Head(Remaining(f)).ctr]), "on")
  /\ UNCHANGED <<program, queue, jobCounter, entries, status>>

Takes(f, p) ==
  /\ frame[f].job = NoJob /\ Remaining(f) = <<>>
  /\ queue[p] # <<>>
  /\ queue' = [queue EXCEPT ![p] = Tail(@)]
  /\ status' = [status EXCEPT ![Head(queue[p])] = "started"]
  /\ After(f, Head(queue[p]), program.body[Head(queue[p])], "on")
  /\ UNCHANGED <<program, jobCounter, entries>>

Finishes(f) ==
  /\ frame[f].job \in Jobs /\ Remaining(f) = <<>>
  /\ Phase(f) = "on"
  /\ status' = [status EXCEPT ![frame[f].job] = "done"]
  /\ After(f, frame[f].job, <<>>, "ended")
  /\ UNCHANGED <<program, queue, jobCounter, entries>>

Drops(f) ==
  /\ Phase(f) = "ended" /\ Remaining(f) = <<>>
  /\ After(f, NoJob, <<>>, "on")
  /\ UNCHANGED <<program, queue, jobCounter, entries, status>>

Moves(f) ==
  \/ Idles(f) \/ Passes(f) \/ Submits(f) \/ SubmitsProxy(f) \/ Changes(f) \/ Unfolds(f)
  \/ (\E p \in Prio : Takes(f, p)) \/ Finishes(f) \/ Drops(f)

\* What is left to do, by whether an operation has begun.
LEMMA RemainingIs ==
  ASSUME FramesOK, NEW f \in Fibers
  PROVE  /\ Remaining(f) \in Seq(Op)
         /\ frame[f].op = NoOp => Remaining(f) = frame[f].rest
         /\ frame[f].op # NoOp =>
              Remaining(f) # <<>> /\ Head(Remaining(f)) = frame[f].op
                /\ Tail(Remaining(f)) = frame[f].rest
<1>1. frame[f].op \in Op \cup {NoOp} /\ frame[f].rest \in Seq(Op)
  BY FrameFields
<1>2. CASE frame[f].op = NoOp
  BY <1>1, <1>2, ConcatEmptySeq, EmptySeq DEF Remaining
<1>3. CASE frame[f].op # NoOp
  <2>1. frame[f].op \in Op /\ Remaining(f) = <<frame[f].op>> \o frame[f].rest
    BY <1>1, <1>3 DEF Remaining
  <2>2. <<frame[f].op>> \in Seq(Op)
    BY <2>1
  <2>3. /\ Remaining(f) \in Seq(Op) /\ Len(Remaining(f)) = 1 + Len(frame[f].rest)
        /\ \A i \in 1 .. 1 + Len(frame[f].rest) :
             Remaining(f)[i] = IF i <= 1 THEN frame[f].op ELSE frame[f].rest[i - 1]
    BY <1>1, <2>1, <2>2, ConcatProperties
  <2>4. Len(frame[f].rest) \in Nat
    BY <1>1, LenProperties
  <2>5. Remaining(f) # <<>> /\ Head(Remaining(f)) = frame[f].op
    BY <2>3, <2>4, EmptySeq
  <2>6. Tail(Remaining(f)) = frame[f].rest
    <3>1. /\ Tail(Remaining(f)) \in Seq(Op) /\ Len(Tail(Remaining(f))) = Len(frame[f].rest)
          /\ \A i \in 1 .. Len(frame[f].rest) : Tail(Remaining(f))[i] = Remaining(f)[i + 1]
      BY <2>3, <2>4, <2>5, HeadTailProperties
    <3>2. \A i \in 1 .. Len(frame[f].rest) : Tail(Remaining(f))[i] = frame[f].rest[i]
      BY <2>3, <2>4, <3>1
    <3>3. QED
      BY <1>1, <3>1, <3>2, SeqEqual
  <2>7. QED
    BY <1>3, <2>3, <2>5, <2>6
<1>4. QED
  BY <1>2, <1>3

\* An operation that begins is still to be done,
LEMMA BeginKeeps ==
  ASSUME NEW op \in Op, NEW rest \in Seq(Op), rest # <<>>, op = Head(rest)
  PROVE  <<op>> \o Tail(rest) = rest
<1>1. Tail(rest) \in Seq(Op) /\ Len(Tail(rest)) = Len(rest) - 1 /\ Len(rest) \in Nat \ {0}
      /\ \A i \in 1 .. Len(Tail(rest)) : Tail(rest)[i] = rest[i + 1]
  BY HeadTailProperties, EmptySeq
<1>2. <<op>> \in Seq(Op)
  OBVIOUS
<1>3. /\ <<op>> \o Tail(rest) \in Seq(Op) /\ Len(<<op>> \o Tail(rest)) = Len(rest)
      /\ \A i \in 1 .. Len(rest) :
           (<<op>> \o Tail(rest))[i] = IF i <= 1 THEN op ELSE Tail(rest)[i - 1]
  BY <1>1, <1>2, ConcatProperties
<1>4. \A i \in 1 .. Len(rest) : (<<op>> \o Tail(rest))[i] = rest[i]
  BY <1>1, <1>3
<1>5. QED
  BY <1>3, <1>4, SeqEqual

\* A fiber that begins its next operation and stays in it idles.
LEMMA BeginMoves ==
  ASSUME FramesOK, NEW f \in Fibers, NEW pc \in {"enqueue", "adding", "lookAgain", "joining"},
         fpc' = [fpc EXCEPT ![f] = pc], fpc[f] = "body", frame[f].rest # <<>>, Begin(f)
  PROVE  After(f, frame[f].job, Remaining(f), Phase(f))
<1>1. /\ frame[f].op = NoOp /\ frame[f].rest \in Seq(Op) /\ NextOp(f) \in Op
      /\ frame \in [Fibers -> Frame] /\ fpc \in [Fibers -> FiberPC]
  BY FrameFields, HeadTailProperties DEF JobAt, Within, FramesOK, NextOp
<1>2. /\ \A g \in Fibers : g # f => frame'[g] = frame[g]
      /\ frame'[f].op = NextOp(f) /\ frame'[f].rest = Tail(frame[f].rest)
      /\ frame'[f].job = frame[f].job
  BY <1>1 DEF Begin
<1>3. NextOp(f) # NoOp
  BY <1>1, OpTypes, NoOpIsNone
<1>4. Remaining(f)' = <<NextOp(f)>> \o Tail(frame[f].rest)
  BY <1>2, <1>3 DEF Remaining
<1>5. Remaining(f)' = Remaining(f)
  BY <1>1, <1>4, RemainingIs, BeginKeeps DEF NextOp
<1>6. \A g \in Fibers : g # f => fpc'[g] = fpc[g]
  BY <1>1
<1>7. Phase(f)' = Phase(f)
  BY <1>1 DEF Phase
<1>8. QED
  BY <1>2, <1>5, <1>6, <1>7 DEF After, Remaining, Phase

\* one that ends is not,
LEMMA EndMoves ==
  ASSUME FramesOK, NEW f \in Fibers, fpc' = [fpc EXCEPT ![f] = "body"], fpc[f] \in Within, End(f)
  PROVE  /\ Remaining(f) # <<>> /\ Head(Remaining(f)) = frame[f].op
         /\ Phase(f) # "ended"
         /\ After(f, frame[f].job, Tail(Remaining(f)), "on")
<1>1. /\ frame[f].op # NoOp /\ frame[f].rest \in Seq(Op)
      /\ frame \in [Fibers -> Frame] /\ fpc \in [Fibers -> FiberPC]
  BY FrameFields DEF JobAt, FramesOK
<1>2. /\ \A g \in Fibers : g # f => frame'[g] = frame[g]
      /\ frame'[f].op = NoOp /\ frame'[f].rest = frame[f].rest
      /\ frame'[f].job = frame[f].job
  BY <1>1 DEF End
<1>3. Remaining(f)' = frame[f].rest
  BY <1>1, <1>2, ConcatEmptySeq DEF Remaining
<1>4. Remaining(f)' = Tail(Remaining(f))
  BY <1>1, <1>3, RemainingIs
<1>5. \A g \in Fibers : g # f => fpc'[g] = fpc[g]
  BY <1>1
<1>6. Phase(f)' = "on" /\ Phase(f) # "ended"
  BY <1>1 DEF Phase, Within
<1>7. QED
  BY <1>1, <1>2, <1>4, <1>5, <1>6, RemainingIs DEF After, Remaining, Phase

\* and one that is done at once is not either.
LEMMA RestMoves ==
  ASSUME FramesOK, NEW f \in Fibers, NEW rest \in Seq(Op), fpc[f] = "body", fpc'[f] = "body",
         \A g \in Fibers : Phase(g)' = Phase(g),
         frame' = [frame EXCEPT ![f].rest = rest]
  PROVE  /\ Remaining(f) = frame[f].rest
         /\ Phase(f) = "on"
         /\ After(f, frame[f].job, rest, "on")
<1>1. /\ frame[f].op = NoOp /\ frame[f].rest \in Seq(Op)
      /\ frame \in [Fibers -> Frame] /\ fpc \in [Fibers -> FiberPC]
  BY FrameFields DEF JobAt, Within, FramesOK
<1>2. /\ \A g \in Fibers : g # f => frame'[g] = frame[g]
      /\ frame'[f].op = NoOp /\ frame'[f].rest = rest
      /\ frame'[f].job = frame[f].job
  BY <1>1
<1>3. Remaining(f)' = rest
  BY <1>2, ConcatEmptySeq DEF Remaining
<1>4. Phase(f)' = "on" /\ Phase(f) = "on"
  BY DEF Phase
<1>5. QED
  BY <1>1, <1>2, <1>3, <1>4, RemainingIs DEF After, Remaining

\* A fiber that moves on without a change of its frame.
LEMMA PlaceMoves ==
  ASSUME FramesOK, NEW f \in Fibers, frame' = frame,
         \A g \in Fibers : g # f => Phase(g)' = Phase(g),
         NEW phase, Phase(f)' = phase
  PROVE  After(f, frame[f].job, Remaining(f), phase)
BY DEF After, Remaining

\* A fiber whose job, operation and phase stay what they are does nothing.
OnPC == FiberPC \ {"cvEnter", "cvWait", "cvWoken", "end"}

\* So does one that changes neither its frame nor its phase.
LEMMA QuietMoves ==
  ASSUME FramesOK, NEW f \in Fibers, NEW pc \in OnPC, fpc[f] \in OnPC,
         fpc' = [fpc EXCEPT ![f] = pc],
         \/ frame' = frame
         \/ \E u \in Threads : frame' = [frame EXCEPT ![f].tls = u]
         \/ \E n \in Nat : frame' = [frame EXCEPT ![f].scan = n]
  PROVE  After(f, frame[f].job, Remaining(f), Phase(f))
<1>1. /\ frame \in [Fibers -> Frame] /\ fpc \in [Fibers -> FiberPC]
  BY DEF FramesOK
<1>2. /\ \A g \in Fibers : g # f => frame'[g] = frame[g]
      /\ frame'[f].job = frame[f].job /\ frame'[f].op = frame[f].op
      /\ frame'[f].rest = frame[f].rest
  BY <1>1 DEF Frame
<1>3. \A g \in Fibers : Phase(g)' = Phase(g)
  BY <1>1 DEF Phase, OnPC
<1>4. QED
  BY <1>2, <1>3 DEF After, Remaining

\* A dequeue takes a job or does nothing.
LEMMA DequeueMoves ==
  ASSUME TypeInv, NEW f \in Fibers, NEW p \in Prio, NEW pc \in {"loop", "ready", "low"},
         Dequeue(f, p, pc), fpc[f] \in {"io", "high", "normal", "low"}
  PROVE  Idles(f) \/ Takes(f, p)
<1>0. /\ FramesOK /\ TypeOK
      /\ fpc \in [Fibers -> FiberPC] /\ frame \in [Fibers -> Frame]
      /\ frame[f].op = NoOp /\ frame[f].rest = <<>> /\ frame[f].job = NoJob
  BY FrameFields DEF TypeInv, TypeOK, FramesOK, JobAt, Executing, Within
<1>1. CASE queue[p] # <<>>
  <2>1. Head(queue[p]) \in Jobs
    BY <1>1, HeadTailProperties DEF TypeInv, TypeOK
  <2>2. program.body[Head(queue[p])] \in Seq(Op)
    BY <1>0, <2>1, BodyTypes DEF Code
  <2>3. /\ fpc' = [fpc EXCEPT ![f] = "body"]
        /\ frame' = [frame EXCEPT ![f].job = Head(queue[p]),
                                  ![f].rest = program.body[Head(queue[p])]]
        /\ queue' = [queue EXCEPT ![p] = Tail(@)]
        /\ status' = [status EXCEPT ![Head(queue[p])] = "started"]
        /\ UNCHANGED <<program, jobCounter, entries>>
    BY <1>1 DEF Dequeue, Jump
  <2>4. /\ \A g \in Fibers : g # f => frame'[g] = frame[g]
        /\ frame'[f].job = Head(queue[p]) /\ frame'[f].op = frame[f].op
        /\ frame'[f].rest = program.body[Head(queue[p])]
    BY <1>0, <2>3
  <2>5. Remaining(f)' = program.body[Head(queue[p])]
    BY <1>0, <2>2, <2>4, ConcatEmptySeq DEF Remaining
  <2>6. Phase(f)' = "on" /\ \A g \in Fibers : g # f => Phase(g)' = Phase(g)
    BY <1>0, <2>3 DEF Phase
  <2>7. Remaining(f) = <<>>
    BY <1>0, RemainingIs
  <2>8. QED
    BY <1>0, <1>1, <2>3, <2>4, <2>5, <2>6, <2>7 DEF Takes, After, Remaining
<1>2. CASE queue[p] = <<>>
  <2>1. /\ fpc' = [fpc EXCEPT ![f] = pc] /\ frame' = frame
        /\ UNCHANGED <<program, queue, jobCounter, entries, status>>
    BY <1>2 DEF Dequeue, Jump
  <2>2. pc \in OnPC /\ fpc[f] \in OnPC
    BY DEF OnPC, FiberPC
  <2>3. QED
    BY <1>0, <2>1, <2>2, QuietMoves DEF Idles
<1>3. QED
  BY <1>1, <1>2

\* An operation that ends submits a job or was a wait or a shutdown.
LEMMA ScheduleJobMoves ==
  ASSUME TypeInv, NEW t \in Threads, NEW f \in Fibers, ScheduleJob(t, f)
  PROVE  Idles(f) \/ Submits(f) \/ SubmitsProxy(f)
<1>0. /\ FramesOK /\ TypeOK
      /\ fpc \in [Fibers -> FiberPC] /\ frame \in [Fibers -> Frame]
      /\ fpc[f] = "enqueue" /\ frame[f].op.op \in {"schedule", "blockingWait"}
      /\ frame[f].op # NoOp
  BY FrameFields DEF TypeInv, TypeOK, FramesOK, JobAt, OpAt, Within, ScheduleJob, On
<1>1. Remaining(f) # <<>> /\ Head(Remaining(f)) = frame[f].op
  BY <1>0, RemainingIs
<1>2. CASE Len(queue[Submitted(f).prio]) < QueueSize[Submitted(f).prio]
  <2>1. CASE frame[f].op.op = "schedule"
    <3>1. Submitted(f) = frame[f].op
      BY <2>1 DEF Submitted, CurOp
    <3>2. /\ Enqueues(frame[f].op.prio, frame[f].op.job, frame[f].op.ctr)
          /\ End(f) /\ fpc' = [fpc EXCEPT ![f] = "body"]
      BY <1>2, <3>1 DEF ScheduleJob, Enqueues, CurOp, Jump
    <3>3. After(f, frame[f].job, Tail(Remaining(f)), "on")
      BY <1>0, <3>2, EndMoves DEF Within
    <3>4. Phase(f) = "on"
      BY <1>0 DEF Phase
    <3>5. QED
      BY <1>1, <2>1, <3>2, <3>3, <3>4 DEF Submits, Faces
  <2>2. CASE frame[f].op.op = "blockingWait"
    <3>1. Submitted(f) = Schedule("high", frame[f].op.proxy, NoCounter)
      BY <2>2 DEF Submitted, CurOp
    <3>2. /\ Submitted(f).op = "schedule" /\ Submitted(f).prio = "high"
          /\ Submitted(f).job = frame[f].op.proxy /\ Submitted(f).ctr = NoCounter
      BY <3>1 DEF Schedule
    <3>3. Submitted(f) # CurOp(f)
      BY <2>2, <3>2 DEF CurOp
    <3>4. /\ Enqueues("high", frame[f].op.proxy, NoCounter)
          /\ frame' = frame /\ fpc' = [fpc EXCEPT ![f] = "cvEnter"]
      BY <1>2, <3>2, <3>3 DEF ScheduleJob, Enqueues, Jump
    <3>5. Phase(f) = "on" /\ Phase(f)' = "proxied" /\ \A g \in Fibers : g # f => Phase(g)' = Phase(g)
      BY <1>0, <3>4 DEF Phase
    <3>6. QED
      BY <1>0, <1>1, <2>2, <3>4, <3>5, PlaceMoves DEF SubmitsProxy, Faces
  <2>3. QED
    BY <1>0, <2>1, <2>2
<1>3. CASE ~(Len(queue[Submitted(f).prio]) < QueueSize[Submitted(f).prio])
  <2>1. UNCHANGED <<fpc, frame, program, queue, jobCounter, entries, status>>
    BY <1>3 DEF ScheduleJob
  <2>2. \A g \in Fibers : Phase(g)' = Phase(g)
    BY <2>1 DEF Phase
  <2>3. QED
    BY <1>0, <2>1, <2>2, PlaceMoves DEF Idles
<1>4. QED
  BY <1>2, <1>3

\* Every step of a fiber is one of the moves.
LEMMA StepMoves ==
  ASSUME TypeInv, NEW t \in Threads, NEW f \in Fibers, running[t] = f, FiberStep(t, f)
  PROVE  Moves(f)
<1>0. /\ TypeOK /\ FramesOK
      /\ fpc \in [Fibers -> FiberPC]
      /\ frame \in [Fibers -> Frame]
      /\ frame[f].job \in Code \cup {NoJob} /\ frame[f].op \in Op \cup {NoOp}
      /\ frame[f].rest \in Seq(Op) /\ frame[f].tls \in Threads /\ frame[f].scan \in Nat
      /\ JobAt(fpc[f], frame[f])
  BY FrameFields DEF TypeInv, TypeOK, FramesOK
<1> DEFINE Kept == UNCHANGED <<program, queue, jobCounter, entries, status>>
<1> USE DEF Jump, On, Starts
<1>1. CASE CleanupStore(t, f) \/ CleanupClear(t, f)
  <2>0. fpc[f] \in {"fresh", "inGet", "inWait", "freshClear", "inGetClear", "inWaitClear"} /\ Kept
    BY <1>1 DEF CleanupStore, CleanupClear, programVars
  <2>1. CASE CleanupEnds(f) /\ AfterCleanup[fpc[f]] = "body"
    <3>1. fpc[f] \in {"inWait", "inWaitClear"}
      BY <2>0, <2>1 DEF AfterCleanup
    <3>2. End(f) /\ fpc' = [fpc EXCEPT ![f] = "body"] /\ fpc[f] \in Within
      BY <2>1, <3>1 DEF CleanupEnds, End, Within
    <3>3. frame[f].op.op = "wait"
      BY <1>0, <3>1 DEF JobAt, OpAt
    <3>4. Passes(f)
      BY <1>0, <2>0, <3>2, <3>3, EndMoves DEF Passes, Faces, Waits
    <3>5. QED
      BY <3>4 DEF Moves
  <2>2. CASE ~(CleanupEnds(f) /\ AfterCleanup[fpc[f]] = "body")
    <3>1. frame' = frame
      BY <1>1, <2>2 DEF CleanupStore, CleanupClear, CleanupEnds
    <3>2. fpc' = [fpc EXCEPT ![f] = AfterCleanup[fpc[f]]]
            \/ (fpc[f] \in {"fresh", "inGet", "inWait"} /\ fpc' = [fpc EXCEPT ![f] = Clearing[fpc[f]]])
      BY <1>1 DEF CleanupStore, CleanupClear, CleanupEnds
    <3>3. AfterCleanup[fpc[f]] \in OnPC /\ (fpc[f] \in {"fresh", "inGet", "inWait"} => Clearing[fpc[f]] \in OnPC)
      BY <2>0 DEF AfterCleanup, Clearing, OnPC, FiberPC
    <3>4. PICK pc \in OnPC : fpc' = [fpc EXCEPT ![f] = pc]
      BY <3>2, <3>3
    <3>5. fpc[f] \in OnPC
      BY <2>0 DEF OnPC, FiberPC
    <3>6. QED
      BY <1>0, <2>0, <3>1, <3>4, <3>5, QuietMoves DEF Moves, Idles
  <2>3. QED
    BY <2>1, <2>2
<1>2. CASE Loop(t, f)
  <2>1. Kept /\ fpc[f] = "loop"
    BY <1>2 DEF Loop, programVars
  <2>2. PICK pc \in {"over", "io", "high"} : fpc' = [fpc EXCEPT ![f] = pc]
    BY <1>2 DEF Loop, SwitchBack, NextTurn
  <2>3. frame' = frame \/ frame' = [frame EXCEPT ![f].tls = t]
    BY <1>2 DEF Loop, NextTurn
  <2>4. pc \in OnPC /\ fpc[f] \in OnPC
    BY <2>1 DEF OnPC, FiberPC
  <2>5. QED
    BY <1>0, <2>1, <2>2, <2>3, <2>4, QuietMoves DEF Moves, Idles
<1>3. CASE DequeueIO(t, f) \/ DequeueHigh(t, f) \/ DequeueNormal(t, f) \/ DequeueLow(t, f)
  BY <1>3, DequeueMoves DEF DequeueIO, DequeueHigh, DequeueNormal, DequeueLow, Prio, Moves
<1>4. CASE ScanReady(t, f)
  <2>1. fpc[f] = "ready" /\ Kept
    BY <1>4 DEF ScanReady, programVars
  <2>2. PICK pc \in {"normal", "switch", "ready"} : fpc' = [fpc EXCEPT ![f] = pc]
    BY <1>0, <1>4, <2>1 DEF ScanReady, ReadyEnds, ReadySkips, ReadyTakes
  <2>3. \E n \in Nat : frame' = [frame EXCEPT ![f].scan = n]
    <3>1. frame[f].scan + 1 \in Nat /\ 0 \in Nat
      BY <1>0
    <3>2. QED
      BY <1>4, <3>1 DEF ScanReady, ReadyEnds, ReadySkips, ReadyTakes
  <2>4. pc \in OnPC /\ fpc[f] \in OnPC
    BY <2>1 DEF OnPC, FiberPC
  <2>5. QED
    BY <1>0, <2>1, <2>2, <2>3, <2>4, QuietMoves DEF Moves, Idles
<1>5. CASE SwitchToReady(t, f) \/ WaitLeaves(t, f) \/ WaitSwitches(t, f) \/ MainEnds(t, f) \/ MainLeaves(t, f)
  <2>1. frame' = frame /\ Kept
    BY <1>5 DEF SwitchToReady, WaitLeaves, WaitSwitches, MainEnds, MainLeaves, programVars
  <2>2. fpc[f] \in OnPC
    BY <1>5 DEF SwitchToReady, WaitLeaves, WaitSwitches, MainEnds, MainLeaves, AtEnd, OnPC, FiberPC
  <2>3. PICK pc \in {"inGet", "find", "inWait", "over", "findLast"} : fpc' = [fpc EXCEPT ![f] = pc]
    BY <1>5 DEF SwitchToReady, WaitLeaves, WaitSwitches, MainEnds, MainLeaves, SwitchBack
  <2>4. pc \in OnPC
    BY DEF OnPC, FiberPC
  <2>5. QED
    BY <1>0, <2>1, <2>2, <2>3, <2>4, QuietMoves DEF Moves, Idles
<1>6. CASE ScheduleCount(t, f) \/ ScheduleUncounted(t, f) \/ WaitForCounter(t, f) \/ BlockingWaits(t, f)
  <2>1. Kept /\ fpc[f] = "body" /\ frame[f].rest # <<>> /\ Begin(f)
    BY <1>6 DEF ScheduleCount, ScheduleUncounted, WaitForCounter, BlockingWaits, programVars
  <2>2. PICK pc \in {"enqueue", "adding", "lookAgain"} : fpc' = [fpc EXCEPT ![f] = pc]
    BY <1>6 DEF ScheduleCount, ScheduleUncounted, WaitForCounter, BlockingWaits
  <2>3. QED
    BY <1>0, <2>1, <2>2, BeginMoves DEF Moves, Idles
<1>7. CASE ScheduleJob(t, f)
  BY <1>7, ScheduleJobMoves DEF Moves
<1>8. CASE WaitDone(t, f) \/ CvReturns(t, f) \/ ShutdownJoins(t, f)
  <2>1. Kept /\ fpc[f] \in {"adding", "cvWait", "cvWoken", "joining"} /\ End(f) /\ fpc' = [fpc EXCEPT ![f] = "body"]
    BY <1>8 DEF WaitDone, CvReturns, ShutdownJoins, programVars
  <2>2. fpc[f] \in Within /\ frame[f].op.op \in {"wait", "blockingWait", "shutdown"}
    BY <1>0, <2>1 DEF JobAt, OpAt, Within
  <2>3. Passes(f)
    BY <1>0, <2>1, <2>2, EndMoves DEF Passes, Faces, Waits
  <2>4. QED
    BY <2>3 DEF Moves
<1>9. CASE LookAgain(t, f)
  <2>1. Kept /\ fpc[f] = "lookAgain"
    BY <1>9 DEF LookAgain, programVars
  <2>2. CASE End(f) /\ fpc' = [fpc EXCEPT ![f] = "body"]
    <3>1. fpc[f] \in Within /\ frame[f].op.op = "blockingWait"
      BY <1>0, <2>1 DEF JobAt, OpAt, Within
    <3>2. Passes(f)
      BY <1>0, <2>1, <2>2, <3>1, EndMoves DEF Passes, Faces, Waits
    <3>3. QED
      BY <3>2 DEF Moves
  <2>3. CASE frame' = frame /\ fpc' = [fpc EXCEPT ![f] = "enqueue"]
    <3>1. "enqueue" \in OnPC /\ fpc[f] \in OnPC
      BY <2>1 DEF OnPC, FiberPC
    <3>2. QED
      BY <1>0, <2>1, <2>3, <3>1, QuietMoves DEF Moves, Idles
  <2>4. QED
    BY <1>9, <2>2, <2>3 DEF LookAgain
<1>10. CASE CvWait(t, f)
  <2>1. Kept /\ fpc[f] = "cvEnter" /\ fpc' = [fpc EXCEPT ![f] = "cvWait"] /\ frame' = frame
    BY <1>10 DEF CvWait, programVars
  <2>2. \A g \in Fibers : Phase(g)' = Phase(g)
    BY <1>0, <2>1 DEF Phase
  <2>3. QED
    BY <1>0, <2>1, <2>2, PlaceMoves DEF Moves, Idles
<1>11. CASE WaitThrows(t, f) \/ Ready(t, f) \/ InCounter(t, f)
  <2>1. Kept /\ UNCHANGED <<fpc, frame>>
    BY <1>11 DEF WaitThrows, Ready, InCounter, schedVars, fiberVars, programVars
  <2>2. \A g \in Fibers : Phase(g)' = Phase(g)
    BY <2>1 DEF Phase
  <2>3. QED
    BY <1>0, <2>1, <2>2, PlaceMoves DEF Moves, Idles
<1>12. CASE WaitNot(t, f) \/ NewCounter(t, f) \/ Notify(t, f) \/ (Shutdown(t, f) /\ ~NextOp(f).blocking)
  <2>1. /\ Kept /\ fpc[f] = "body" /\ frame[f].rest # <<>>
        /\ NextOp(f).op \in Waits \cup {"new", "notify", "shutdown"}
        /\ frame' = [frame EXCEPT ![f].rest = Tail(frame[f].rest)]
    BY <1>12 DEF WaitNot, NewCounter, Notify, Shutdown, Skip, programVars
  <2>2. fpc'[f] = "body" /\ \A g \in Fibers : Phase(g)' = Phase(g)
    BY <1>0, <1>12, <2>1 DEF WaitNot, NewCounter, Notify, Shutdown, Phase
  <2>3. Tail(frame[f].rest) \in Seq(Op)
    BY <1>0, <2>1, NextOpTypes
  <2>4. Passes(f)
    BY <1>0, <2>1, <2>2, <2>3, RestMoves DEF Passes, Faces, NextOp
  <2>5. QED
    BY <2>4 DEF Moves
<1>13. CASE Shutdown(t, f) /\ NextOp(f).blocking
  <2>1. /\ Kept /\ fpc[f] = "body" /\ frame[f].rest # <<>> /\ Begin(f)
        /\ fpc' = [fpc EXCEPT ![f] = "joining"]
    BY <1>13 DEF Shutdown
  <2>2. QED
    BY <1>0, <2>1, BeginMoves DEF Moves, Idles
<1>14. CASE ChangeQueue(t, f)
  <2>1. /\ fpc[f] = "body" /\ frame[f].rest # <<>> /\ fpc' = fpc
        /\ NextOp(f).op \in {"add", "erase"}
        /\ entries' = [entries EXCEPT ![NextOp(f).ctr] = Changed(NextOp(f), @)]
        /\ frame' = [frame EXCEPT ![f].rest = Tail(frame[f].rest)]
        /\ UNCHANGED <<program, queue, jobCounter, status>>
    BY <1>14 DEF ChangeQueue, Skip
  <2>2. \A g \in Fibers : Phase(g)' = Phase(g)
    BY <2>1 DEF Phase
  <2>3. Tail(frame[f].rest) \in Seq(Op)
    BY <1>0, <2>1, NextOpTypes
  <2>4. Changes(f)
    BY <1>0, <2>1, <2>2, <2>3, RestMoves DEF Changes, Faces, NextOp
  <2>5. QED
    BY <2>4 DEF Moves
<1>15. CASE QueueSteps(t, f)
  <2>1. /\ fpc[f] = "body" /\ frame[f].rest # <<>> /\ fpc' = fpc
        /\ NextOp(f).op \in {"step", "execute"}
        /\ frame' = [frame EXCEPT ![f].rest = Unfold(frame[f].rest, entries[NextOp(f).ctr])]
        /\ Kept
    BY <1>15 DEF QueueSteps, programVars
  <2>2. \A g \in Fibers : Phase(g)' = Phase(g)
    BY <2>1 DEF Phase
  <2>3. Unfold(frame[f].rest, entries[NextOp(f).ctr]) \in Seq(Op)
    <3>1. entries[NextOp(f).ctr] \in Seq(Entry)
      BY <1>0, <2>1, NextOpTypes, OpTypes DEF TypeOK
    <3>2. QED
      BY <1>0, <2>1, <3>1, UnfoldTypes DEF NextOp
  <2>4. Unfolds(f)
    BY <1>0, <2>1, <2>2, <2>3, RestMoves DEF Unfolds, Faces, NextOp
  <2>5. QED
    BY <2>4 DEF Moves
<1>16. CASE Finish(t, f)
  <2>1. /\ fpc[f] = "body" /\ frame[f].rest = <<>> /\ frame[f].job # MainJob
        /\ status' = [status EXCEPT ![frame[f].job] = "done"]
        /\ fpc' = [fpc EXCEPT ![f] = "end"] /\ frame' = frame
        /\ UNCHANGED <<program, queue, jobCounter, entries>>
    BY <1>16 DEF Finish, AtEnd
  <2>2. frame[f].job \in Jobs /\ frame[f].op = NoOp
    BY <1>0, <2>1 DEF JobAt, Executing, Within, Code
  <2>3. Remaining(f) = <<>>
    BY <1>0, <2>1, <2>2, RemainingIs
  <2>4. Phase(f) = "on" /\ Phase(f)' = "ended" /\ \A g \in Fibers : g # f => Phase(g)' = Phase(g)
    BY <1>0, <2>1 DEF Phase
  <2>5. Finishes(f)
    BY <1>0, <2>1, <2>2, <2>3, <2>4, PlaceMoves DEF Finishes
  <2>6. QED
    BY <2>5 DEF Moves
<1>17. CASE Executed(t, f)
  <2>1. /\ fpc[f] = "end" /\ frame' = [frame EXCEPT ![f].job = NoJob]
        /\ fpc' = [fpc EXCEPT ![f] = "loop"] /\ Kept
    BY <1>17 DEF Executed, programVars
  <2>2. frame[f].op = NoOp /\ frame[f].rest = <<>>
    BY <1>0, <2>1 DEF JobAt, Executing, Within
  <2>3. /\ \A g \in Fibers : g # f => frame'[g] = frame[g]
        /\ frame'[f].job = NoJob /\ frame'[f].op = NoOp /\ frame'[f].rest = <<>>
    BY <1>0, <2>1, <2>2
  <2>4. Remaining(f) = <<>> /\ Remaining(f)' = <<>>
    BY <2>2, <2>3, EmptySeq, ConcatEmptySeq DEF Remaining
  <2>5. Phase(f) = "ended" /\ Phase(f)' = "on" /\ \A g \in Fibers : g # f => Phase(g)' = Phase(g)
    BY <1>0, <2>1 DEF Phase
  <2>6. \A g \in Fibers : g # f => Remaining(g)' = Remaining(g)
    BY <2>3 DEF Remaining
  <2>7. Drops(f)
    BY <2>1, <2>3, <2>4, <2>5, <2>6 DEF Drops, After
  <2>8. QED
    BY <2>7 DEF Moves
<1>18. QED
  BY <1>1, <1>2, <1>3, <1>4, <1>5, <1>6, <1>7, <1>8, <1>9, <1>10, <1>11, <1>12, <1>13, <1>14,
     <1>15, <1>16, <1>17 DEF FiberStep

----------------------------------------------------------------------------
(* The jobs.                                                               *)

\* A code runs on one fiber, and its job has started, and is done at the end.
OneRun ==
  \A f, g \in Fibers : frame[f].job = frame[g].job => f = g \/ frame[f].job = NoJob
RunStatus ==
  \A f \in Fibers : frame[f].job \in Jobs =>
    status[frame[f].job] = (IF Phase(f) = "ended" THEN "done" ELSE "started")

\* A queue has the jobs that are queued, each in one place.
InQueue ==
  /\ \A p \in Prio : \A i \in DOMAIN queue[p] : status[queue[p][i]] = "queued"
  /\ \A p, q \in Prio : \A i \in DOMAIN queue[p], k \in DOMAIN queue[q] :
       queue[p][i] = queue[q][k] => p = q /\ i = k

\* x uses the Queue of counter c.
Owns(x, c) ==
  /\ x \in Code
  /\ \E k \in DOMAIN program.body[x] :
       program.body[x][k].op \in OnQueue /\ program.body[x][k].ctr = c

\* An erase belongs to the Step in progress: what is before it is what is left of
\* StepOn, and the vector has the entry it erases.
EraseAt(f, i) == i \in DOMAIN Remaining(f) /\ Remaining(f)[i].op = "erase"
ShapeOf(f, i) ==
  LET op == Remaining(f)[i] IN
    /\ op.op \in OnQueue \cup {"erase"} => Owns(frame[f].job, op.ctr)
    /\ op.op = "erase" =>
         /\ i <= 3
         /\ \A k \in DOMAIN Remaining(f) : EraseAt(f, k) => k = i
         /\ entries[op.ctr] # <<>>
         /\ i > 1 => Remaining(f)[i - 1] = Wait(op.ctr, 0)
         /\ i = 3 => Remaining(f)[1] =
              Schedule(Head(entries[op.ctr]).prio, Head(entries[op.ctr]).job, op.ctr)
Shape == \A f \in Fibers : \A i \in DOMAIN Remaining(f) : ShapeOf(f, i)

\* The operations that are still to ask for job j: in what a fiber has left to do,
\* in the vector of a Queue - but not the entry whose Step is in progress - or in
\* a job that has not started.
AsksFor(op, j) == \E s \in Submission(op) : s.job = j
Stepping(c) == \E f \in Fibers : \E i \in DOMAIN Remaining(f) :
                 EraseAt(f, i) /\ Remaining(f)[i].ctr = c
InFiber(f, i, j) ==
  /\ i \in DOMAIN Remaining(f)
  /\ ~(i = 1 /\ Phase(f) = "proxied")
  /\ AsksFor(Remaining(f)[i], j)
InEntries(c, i, j) ==
  /\ i \in DOMAIN entries[c]
  /\ ~(i = 1 /\ Stepping(c))
  /\ entries[c][i].job = j
InBody(x, i, j) ==
  /\ status[x] \in {"new", "queued"}
  /\ i \in DOMAIN program.body[x]
  /\ AsksFor(program.body[x][i], j)

Places == [in : {"fiber"}, of : Fibers, at : Nat] \cup [in : {"entries"}, of : Counters, at : Nat]
            \cup [in : {"body"}, of : Jobs, at : Nat]
Asks(pl, j) ==
  \/ pl.in = "fiber" /\ InFiber(pl.of, pl.at, j)
  \/ pl.in = "entries" /\ InEntries(pl.of, pl.at, j)
  \/ pl.in = "body" /\ InBody(pl.of, pl.at, j)

\* A job that is still asked for is new, and is asked for in one place.
Once ==
  \A j \in Jobs : \A pl \in Places : Asks(pl, j) =>
    status[j] = "new" /\ \A pm \in Places : Asks(pm, j) => pl = pm

JobInv == OneRun /\ RunStatus /\ InQueue /\ Shape /\ Once

\* What an operation asks for.
LEMMA AsksWhat ==
  ASSUME NEW op \in Op, NEW j
  PROVE  AsksFor(op, j) <=> \/ op.op = "schedule" /\ op.job = j
                            \/ op.op = "blockingWait" /\ op.proxy = j
                            \/ op.op = "add" /\ op.entry.job = j
<1>1. CASE op.op = "schedule"
  <2>1. Submission(op) = {[prio |-> op.prio, job |-> op.job]}
    BY <1>1 DEF Submission
  <2>2. QED
    BY <1>1, <2>1 DEF AsksFor
<1>2. CASE op.op = "blockingWait"
  <2>1. Submission(op) = {[prio |-> "high", job |-> op.proxy]}
    BY <1>2 DEF Submission
  <2>2. QED
    BY <1>2, <2>1 DEF AsksFor
<1>3. CASE op.op = "add"
  <2>1. Submission(op) = {op.entry}
    BY <1>3 DEF Submission
  <2>2. QED
    BY <1>3, <2>1 DEF AsksFor
<1>4. CASE op.op \notin {"schedule", "blockingWait", "add"}
  <2>1. Submission(op) = {}
    BY <1>4 DEF Submission
  <2>2. QED
    BY <1>4, <2>1 DEF AsksFor
<1>5. QED
  BY <1>1, <1>2, <1>3, <1>4

\* The places of a sequence and of its tail.
LEMMA TailPlaces ==
  ASSUME NEW S, NEW s \in Seq(S), s # <<>>
  PROVE  /\ 1 \in DOMAIN s /\ Head(s) = s[1]
         /\ Tail(s) \in Seq(S)
         /\ \A i \in DOMAIN Tail(s) : i \in Nat /\ i >= 1 /\ i + 1 \in DOMAIN s /\ Tail(s)[i] = s[i + 1]
         /\ \A i \in DOMAIN s : i \in Nat /\ i >= 1 /\ (i # 1 => i - 1 \in DOMAIN Tail(s) /\ Tail(s)[i - 1] = s[i])
<1>1. /\ Tail(s) \in Seq(S) /\ Len(Tail(s)) = Len(s) - 1 /\ Len(s) \in Nat \ {0}
      /\ \A i \in 1 .. Len(Tail(s)) : Tail(s)[i] = s[i + 1]
  BY HeadTailProperties, EmptySeq
<1>2. DOMAIN s = 1 .. Len(s) /\ DOMAIN Tail(s) = 1 .. Len(s) - 1
  BY <1>1, LenProperties
<1>3. QED
  BY <1>1, <1>2

\* Nobody else erases from a Queue that f uses.
LEMMA OwnErase ==
  ASSUME Shape, OneRun, QueuesOwned(program.body),
         NEW f \in Fibers, NEW g \in Fibers, NEW c, NEW n,
         Owns(frame[f].job, c), EraseAt(g, n), Remaining(g)[n].ctr = c
  PROVE  g = f
<1>1. Owns(frame[g].job, c)
  BY DEF Shape, ShapeOf, EraseAt
<1>2. frame[f].job \in Code /\ frame[g].job \in Code
  BY <1>1 DEF Owns
<1>3. frame[f].job = frame[g].job
  <2>1. PICK i \in DOMAIN program.body[frame[f].job] :
          program.body[frame[f].job][i].op \in OnQueue /\ program.body[frame[f].job][i].ctr = c
    BY DEF Owns
  <2>2. PICK k \in DOMAIN program.body[frame[g].job] :
          program.body[frame[g].job][k].op \in OnQueue /\ program.body[frame[g].job][k].ctr = c
    BY <1>1 DEF Owns
  <2>3. QED
    BY <1>2, <2>1, <2>2 DEF QueuesOwned
<1>4. QED
  BY <1>2, <1>3, SchedulerAssumption DEF OneRun

\* A fiber that is to begin an operation on a Queue is in no Step.
LEMMA NoStepYet ==
  ASSUME FramesOK, Shape, NEW f \in Fibers, Faces(f, OnQueue), NEW i \in DOMAIN Remaining(f)
  PROVE  ~EraseAt(f, i)
<1>0. Remaining(f) \in Seq(Op) /\ Remaining(f) # <<>>
  BY RemainingIs DEF Faces
<1>1. /\ 1 \in DOMAIN Remaining(f) /\ Head(Remaining(f)) = Remaining(f)[1]
      /\ i \in Nat /\ i >= 1
  BY <1>0, TailPlaces
<1>2. Remaining(f)[1].op \in {"add", "step", "execute"}
  BY <1>1 DEF Faces, OnQueue
<1>3. SUFFICES ASSUME EraseAt(f, i)
               PROVE  FALSE
  OBVIOUS
<1>4. /\ i <= 3
      /\ i > 1 => Remaining(f)[i - 1].op = "wait"
      /\ i = 3 => Remaining(f)[1].op = "schedule"
  <2>1. ShapeOf(f, i) /\ Remaining(f)[i].op = "erase"
    BY <1>3 DEF Shape, EraseAt
  <2>2. /\ i <= 3
        /\ i > 1 => Remaining(f)[i - 1] = Wait(Remaining(f)[i].ctr, 0)
        /\ i = 3 => Remaining(f)[1] = Schedule(Head(entries[Remaining(f)[i].ctr]).prio,
                                              Head(entries[Remaining(f)[i].ctr]).job,
                                              Remaining(f)[i].ctr)
    BY <2>1 DEF ShapeOf
  <2>3. QED
    BY <2>2 DEF Wait, Schedule
<1>5. i # 1
  BY <1>2, <1>3 DEF EraseAt
<1>6. i # 3
  BY <1>2, <1>4
<1>7. i = 2
  BY <1>1, <1>4, <1>5, <1>6
<1>8. QED
  BY <1>2, <1>4, <1>7

\* Once is kept by a step that moves what asks for a job from one place to another,
\* or takes it away: came says where it was before.
LEMMA OnceStep ==
  ASSUME Once, NEW came,
         \A j \in Jobs : \A pl \in Places : Asks(pl, j)' =>
           came[pl] \in Places /\ Asks(came[pl], j) /\ (status[j] = "new" => status'[j] = "new"),
         \A j \in Jobs : \A pl, pm \in Places :
           Asks(pl, j)' /\ Asks(pm, j)' /\ came[pl] = came[pm] => pl = pm
  PROVE  Once'
<1>1. SUFFICES ASSUME NEW j \in Jobs, NEW pl \in Places, Asks(pl, j)'
               PROVE  status'[j] = "new" /\ \A pm \in Places : Asks(pm, j)' => pl = pm
  BY DEF Once
<1>2. came[pl] \in Places /\ Asks(came[pl], j) /\ status'[j] = "new"
  BY <1>1 DEF Once
<1>3. ASSUME NEW pm \in Places, Asks(pm, j)'
      PROVE  pl = pm
  <2>1. came[pm] \in Places /\ Asks(came[pm], j)
    BY <1>3
  <2>2. came[pl] = came[pm]
    BY <1>2, <2>1 DEF Once
  <2>3. QED
    BY <1>1, <1>3, <2>2
<1>4. QED
  BY <1>2, <1>3

\* A place, by what it is a place of.
LEMMA PlaceKinds ==
  ASSUME NEW pl \in Places
  PROVE  /\ pl.at \in Nat
         /\ \/ pl.in = "fiber" /\ pl.of \in Fibers /\ pl = [in |-> "fiber", of |-> pl.of, at |-> pl.at]
            \/ pl.in = "entries" /\ pl.of \in Counters /\ pl = [in |-> "entries", of |-> pl.of, at |-> pl.at]
            \/ pl.in = "body" /\ pl.of \in Jobs /\ pl = [in |-> "body", of |-> pl.of, at |-> pl.at]
BY DEF Places

\* What the moves of f leave alone.
LEMMA OthersAsk ==
  ASSUME NEW f \in Fibers, NEW job, NEW left, NEW phase, After(f, job, left, phase),
         NEW g \in Fibers, g # f
  PROVE  /\ Remaining(g)' = Remaining(g) /\ Phase(g)' = Phase(g) /\ frame'[g].job = frame[g].job
         /\ \A i, j : InFiber(g, i, j)' <=> InFiber(g, i, j)
         /\ \A i : EraseAt(g, i)' <=> EraseAt(g, i)
<1>1. Remaining(g)' = Remaining(g) /\ Phase(g)' = Phase(g) /\ frame'[g].job = frame[g].job
  BY DEF After
<1>2. QED
  BY <1>1 DEF InFiber, EraseAt

\* Bodies ask less when jobs start.
LEMMA BodiesAsk ==
  ASSUME UNCHANGED program, NEW x, status'[x] \in {"new", "queued"} => status[x] \in {"new", "queued"},
         NEW i, NEW j, InBody(x, i, j)'
  PROVE  InBody(x, i, j)
BY DEF InBody

\* What f comes to run, and who runs what.
LEMMA JobsAfter ==
  ASSUME NEW f \in Fibers, NEW job, NEW left, NEW phase, After(f, job, left, phase)
  PROVE  \A g \in Fibers :
           /\ frame'[g].job = IF g = f THEN job ELSE frame[g].job
           /\ Phase(g)' = IF g = f THEN phase ELSE Phase(g)
           /\ Remaining(g)' = IF g = f THEN left ELSE Remaining(g)
BY DEF After

\* The next operation of a fiber that has one.
LEMMA FacesTypes ==
  ASSUME FramesOK, NEW f \in Fibers, NEW ops, Faces(f, ops)
  PROVE  /\ Remaining(f) \in Seq(Op) /\ Remaining(f) # <<>>
         /\ 1 \in DOMAIN Remaining(f) /\ Head(Remaining(f)) = Remaining(f)[1]
         /\ Head(Remaining(f)) \in Op /\ Head(Remaining(f)).op \in ops
         /\ Tail(Remaining(f)) \in Seq(Op)
         /\ fpc[f] # "end" /\ frame[f].job \in Code
<1>1. Remaining(f) \in Seq(Op) /\ Remaining(f) # <<>> /\ Head(Remaining(f)).op \in ops
  BY RemainingIs DEF Faces
<1>2. fpc[f] \in Executing
  BY <1>1, FrameFields, RemainingIs DEF JobAt, Executing
<1>3. fpc[f] # "end" /\ frame[f].job \in Code
  BY <1>2, FrameFields DEF JobAt, Executing, Within
<1>4. QED
  BY <1>1, <1>3, TailPlaces, HeadTailProperties

\* What a fiber asks for first is new.
LEMMA FirstIsNew ==
  ASSUME FramesOK, Once, NEW f \in Fibers, NEW j \in Jobs, Faces(f, {"schedule", "blockingWait", "add"}),
         Phase(f) = "on", AsksFor(Head(Remaining(f)), j)
  PROVE  /\ [in |-> "fiber", of |-> f, at |-> 1] \in Places
         /\ Asks([in |-> "fiber", of |-> f, at |-> 1], j)
         /\ status[j] = "new"
<1>1. [in |-> "fiber", of |-> f, at |-> 1] \in Places
  BY DEF Places
<1>2. InFiber(f, 1, j)
  BY FacesTypes DEF InFiber
<1>3. Asks([in |-> "fiber", of |-> f, at |-> 1], j)
  BY <1>2 DEF Asks
<1>4. QED
  BY <1>1, <1>3 DEF Once

\* So a job that is submitted is.
LEMMA SubmitNew ==
  ASSUME TypeOK, FramesOK, Once, NEW f \in Fibers, Submits(f) \/ SubmitsProxy(f)
  PROVE  \E prio \in Prio, job \in Jobs, ctr \in Counters \cup {NoCounter} :
           /\ Enqueues(prio, job, ctr)
           /\ AsksFor(Head(Remaining(f)), job)
           /\ \A j : AsksFor(Head(Remaining(f)), j) => j = job
           /\ status[job] = "new"
           /\ [in |-> "fiber", of |-> f, at |-> 1] \in Places
           /\ Asks([in |-> "fiber", of |-> f, at |-> 1], job)
<1>1. CASE Submits(f)
  <2>1. /\ Faces(f, {"schedule"}) /\ Phase(f) = "on"
        /\ Enqueues(Head(Remaining(f)).prio, Head(Remaining(f)).job, Head(Remaining(f)).ctr)
    BY <1>1 DEF Submits
  <2>2. /\ Head(Remaining(f)) \in Op /\ Head(Remaining(f)).op = "schedule"
        /\ Faces(f, {"schedule", "blockingWait", "add"})
    BY <2>1, FacesTypes DEF Faces
  <2>3. /\ Head(Remaining(f)).prio \in Prio /\ Head(Remaining(f)).job \in Jobs
        /\ Head(Remaining(f)).ctr \in Counters \cup {NoCounter}
    BY <2>2, OpTypes
  <2>4. /\ AsksFor(Head(Remaining(f)), Head(Remaining(f)).job)
        /\ \A j : AsksFor(Head(Remaining(f)), j) => j = Head(Remaining(f)).job
    BY <2>2, AsksWhat
  <2>5. QED
    BY <2>1, <2>2, <2>3, <2>4, FirstIsNew
<1>2. CASE SubmitsProxy(f)
  <2>1. /\ Faces(f, {"blockingWait"}) /\ Phase(f) = "on"
        /\ Enqueues("high", Head(Remaining(f)).proxy, NoCounter)
    BY <1>2 DEF SubmitsProxy
  <2>2. /\ Head(Remaining(f)) \in Op /\ Head(Remaining(f)).op = "blockingWait"
        /\ Faces(f, {"schedule", "blockingWait", "add"})
    BY <2>1, FacesTypes DEF Faces
  <2>3. "high" \in Prio /\ Head(Remaining(f)).proxy \in Jobs /\ NoCounter \in Counters \cup {NoCounter}
    BY <2>2, OpTypes DEF Prio
  <2>4. /\ AsksFor(Head(Remaining(f)), Head(Remaining(f)).proxy)
        /\ \A j : AsksFor(Head(Remaining(f)), j) => j = Head(Remaining(f)).proxy
    BY <2>2, AsksWhat
  <2>5. QED
    BY <2>1, <2>2, <2>3, <2>4, FirstIsNew
<1>3. QED
  BY <1>1, <1>2

\* The job taken from a queue was queued.
LEMMA TakenQueued ==
  ASSUME TypeOK, InQueue, NEW p \in Prio, queue[p] # <<>>
  PROVE  /\ queue[p] \in Seq(Jobs) /\ Head(queue[p]) \in Jobs /\ Head(queue[p]) \in Code
         /\ Head(queue[p]) = queue[p][1] /\ 1 \in DOMAIN queue[p]
         /\ status[Head(queue[p])] = "queued"
<1>1. queue[p] \in Seq(Jobs)
  BY DEF TypeOK
<1>2. QED
  BY <1>1, TailPlaces, HeadTailProperties DEF InQueue, Code

\* A job that is taken out of a queue runs nowhere yet.
LEMMA OneRunStep ==
  ASSUME TypeOK, FramesOK, JobInv, NEW f \in Fibers, Moves(f)
  PROVE  OneRun'
<1>1. CASE \E left, phase : After(f, frame[f].job, left, phase)
  <2>1. \A g \in Fibers : frame'[g].job = frame[g].job
    BY <1>1, JobsAfter
  <2>2. QED
    BY <2>1 DEF JobInv, OneRun
<1>2. CASE Drops(f)
  <2>1. \A g \in Fibers : frame'[g].job = IF g = f THEN NoJob ELSE frame[g].job
    BY <1>2, JobsAfter DEF Drops
  <2>2. QED
    BY <2>1 DEF JobInv, OneRun
<1>3. ASSUME NEW p \in Prio, Takes(f, p)
      PROVE  OneRun'
  <2>1. \A g \in Fibers : frame'[g].job = IF g = f THEN Head(queue[p]) ELSE frame[g].job
    BY <1>3, JobsAfter DEF Takes
  <2>2. Head(queue[p]) \in Jobs /\ status[Head(queue[p])] = "queued"
    BY <1>3, TakenQueued DEF Takes, JobInv
  <2>3. \A g \in Fibers : frame[g].job # Head(queue[p])
    BY <2>2 DEF JobInv, RunStatus
  <2>4. QED
    BY <2>1, <2>3 DEF JobInv, OneRun
<1>4. QED
  BY <1>1, <1>2, <1>3 DEF Moves, Idles, Passes, Submits, SubmitsProxy, Changes, Unfolds, Finishes

\* The status of a job goes with what its fiber does.
LEMMA RunStatusStep ==
  ASSUME TypeOK, FramesOK, JobInv, NEW f \in Fibers, Moves(f)
  PROVE  RunStatus'
<1>0. RunStatus /\ OneRun /\ Once /\ InQueue
      /\ \A j \in Jobs : status[j] \in {"new", "queued", "started", "done"}
      /\ status \in [Jobs -> {"new", "queued", "started", "done"}]
  BY DEF JobInv, TypeOK
<1>1. CASE \/ Idles(f) \/ Passes(f) \/ Changes(f) \/ Unfolds(f)
  <2>1. status' = status
    BY <1>1 DEF Idles, Passes, Changes, Unfolds
  <2>2. \A g \in Fibers : frame'[g].job = frame[g].job /\ (Phase(g)' = "ended" <=> Phase(g) = "ended")
    BY <1>1, JobsAfter DEF Idles, Passes, Changes, Unfolds
  <2>3. QED
    BY <1>0, <2>1, <2>2 DEF RunStatus
<1>2. CASE Submits(f) \/ SubmitsProxy(f)
  <2>1. PICK prio \in Prio, job \in Jobs, ctr \in Counters \cup {NoCounter} :
          Enqueues(prio, job, ctr) /\ status[job] = "new"
    BY <1>0, <1>2, SubmitNew
  <2>2. \A g \in Fibers : frame'[g].job = frame[g].job /\ (Phase(g)' = "ended" <=> Phase(g) = "ended")
    BY <1>2, JobsAfter DEF Submits, SubmitsProxy
  <2>3. \A g \in Fibers : frame[g].job # job
    BY <1>0, <2>1 DEF RunStatus
  <2>4. \A j \in Jobs : j # job => status'[j] = status[j]
    BY <1>0, <2>1 DEF Enqueues
  <2>5. QED
    BY <1>0, <2>2, <2>3, <2>4 DEF RunStatus
<1>3. ASSUME NEW p \in Prio, Takes(f, p)
      PROVE  RunStatus'
  <2>1. Head(queue[p]) \in Jobs /\ status[Head(queue[p])] = "queued"
    BY <1>0, <1>3, TakenQueued DEF Takes
  <2>2. \A g \in Fibers : /\ frame'[g].job = IF g = f THEN Head(queue[p]) ELSE frame[g].job
                          /\ Phase(g)' = IF g = f THEN "on" ELSE Phase(g)
    BY <1>3, JobsAfter DEF Takes
  <2>3. \A g \in Fibers : frame[g].job # Head(queue[p])
    BY <1>0, <2>1 DEF RunStatus
  <2>4. \A j \in Jobs : status'[j] = IF j = Head(queue[p]) THEN "started" ELSE status[j]
    BY <1>0, <1>3 DEF Takes
  <2>5. QED
    BY <1>0, <2>1, <2>2, <2>3, <2>4 DEF RunStatus
<1>4. CASE Finishes(f)
  <2>1. \A g \in Fibers : /\ frame'[g].job = frame[g].job
                          /\ Phase(g)' = IF g = f THEN "ended" ELSE Phase(g)
    BY <1>4, JobsAfter DEF Finishes
  <2>2. \A j \in Jobs : status'[j] = IF j = frame[f].job THEN "done" ELSE status[j]
    BY <1>0, <1>4 DEF Finishes
  <2>3. \A g \in Fibers : g # f => frame[g].job # frame[f].job
    BY <1>0, <1>4, SchedulerAssumption DEF OneRun, Finishes, Code
  <2>4. QED
    BY <1>0, <1>4, <2>1, <2>2, <2>3 DEF RunStatus, Finishes
<1>5. CASE Drops(f)
  <2>1. \A g \in Fibers : /\ frame'[g].job = IF g = f THEN NoJob ELSE frame[g].job
                          /\ Phase(g)' = IF g = f THEN "on" ELSE Phase(g)
    BY <1>5, JobsAfter DEF Drops
  <2>2. status' = status /\ NoJob \notin Jobs
    BY <1>5, SchedulerAssumption DEF Drops, Code
  <2>3. QED
    BY <1>0, <2>1, <2>2 DEF RunStatus
<1>6. QED
  BY <1>1, <1>2, <1>3, <1>4, <1>5 DEF Moves

\* The places of a sequence that has grown by one.
LEMMA AppendPlaces ==
  ASSUME NEW S, NEW s \in Seq(S), NEW e \in S
  PROVE  /\ Append(s, e) \in Seq(S) /\ Append(s, e) # <<>>
         /\ Len(s) \in Nat /\ DOMAIN s = 1 .. Len(s)
         /\ \A i \in DOMAIN Append(s, e) :
              /\ i \in Nat
              /\ \/ i \in DOMAIN s /\ Append(s, e)[i] = s[i]
                 \/ i = Len(s) + 1 /\ Append(s, e)[i] = e
         /\ s # <<>> => Head(Append(s, e)) = Head(s)
<1>1. /\ Append(s, e) \in Seq(S) /\ Len(Append(s, e)) = Len(s) + 1 /\ Len(s) \in Nat
      /\ \A i \in 1 .. Len(s) : Append(s, e)[i] = s[i]
      /\ Append(s, e)[Len(s) + 1] = e
  BY AppendProperties, LenProperties
<1>2. DOMAIN s = 1 .. Len(s) /\ DOMAIN Append(s, e) = 1 .. Len(s) + 1
  BY <1>1, LenProperties
<1>3. Append(s, e) # <<>>
  BY <1>1, EmptySeq
<1>4. ASSUME s # <<>>
      PROVE  Head(Append(s, e)) = Head(s)
  <2>1. Head(s) = s[1] /\ Head(Append(s, e)) = Append(s, e)[1] /\ 1 \in DOMAIN s
    BY <1>1, <1>3, <1>4, TailPlaces
  <2>2. QED
    BY <1>1, <1>2, <2>1
<1>5. QED
  BY <1>1, <1>2, <1>3, <1>4

\* A job that enters a queue was new, so it is in none.
LEMMA InQueueStep ==
  ASSUME TypeOK, FramesOK, JobInv, NEW f \in Fibers, Moves(f)
  PROVE  InQueue'
<1>0. /\ RunStatus /\ OneRun /\ Once /\ InQueue
      /\ status \in [Jobs -> {"new", "queued", "started", "done"}]
      /\ queue \in [Prio -> Seq(Jobs)]
      /\ \A p \in Prio : \A i \in DOMAIN queue[p] : queue[p][i] \in Jobs /\ status[queue[p][i]] = "queued"
  <2>1. queue \in [Prio -> Seq(Jobs)] /\ InQueue
    BY DEF JobInv, TypeOK
  <2>2. ASSUME NEW p \in Prio, NEW i \in DOMAIN queue[p]
        PROVE  queue[p][i] \in Jobs
    <3>1. queue[p] \in Seq(Jobs)
      BY <2>1
    <3>2. QED
      BY <2>2, <3>1, LenProperties, ElementOfSeq
  <2>3. \A p \in Prio : \A i \in DOMAIN queue[p] : status[queue[p][i]] = "queued"
    BY <2>1 DEF InQueue
  <2>4. RunStatus /\ OneRun /\ Once /\ status \in [Jobs -> {"new", "queued", "started", "done"}]
    BY DEF JobInv, TypeOK
  <2>5. QED
    BY <2>1, <2>2, <2>3, <2>4
<1>1. CASE \/ Idles(f) \/ Passes(f) \/ Changes(f) \/ Unfolds(f) \/ Drops(f)
  <2>1. queue' = queue /\ status' = status
    BY <1>1 DEF Idles, Passes, Changes, Unfolds, Drops
  <2>2. QED
    BY <1>0, <2>1 DEF InQueue
<1>2. CASE Submits(f) \/ SubmitsProxy(f)
  <2>1. PICK prio \in Prio, job \in Jobs, ctr \in Counters \cup {NoCounter} :
          Enqueues(prio, job, ctr) /\ status[job] = "new"
    BY <1>0, <1>2, SubmitNew
  <2>2. /\ \A p \in Prio : queue'[p] = IF p = prio THEN Append(queue[prio], job) ELSE queue[p]
        /\ \A j \in Jobs : status'[j] = IF j = job THEN "queued" ELSE status[j]
    BY <1>0, <2>1 DEF Enqueues
  <2>3. ASSUME NEW p \in Prio, NEW i \in DOMAIN queue'[p]
        PROVE  \/ i \in DOMAIN queue[p] /\ queue'[p][i] = queue[p][i] /\ queue'[p][i] # job
               \/ p = prio /\ i = Len(queue[prio]) + 1 /\ queue'[p][i] = job
    <3>1. CASE p # prio
      BY <1>0, <2>1, <2>2, <2>3, <3>1
    <3>2. CASE p = prio
      <4>1. queue[prio] \in Seq(Jobs) /\ queue'[p] = Append(queue[prio], job)
        BY <1>0, <2>2, <3>2
      <4>2. \/ i \in DOMAIN queue[prio] /\ Append(queue[prio], job)[i] = queue[prio][i]
            \/ i = Len(queue[prio]) + 1 /\ Append(queue[prio], job)[i] = job
        BY <2>3, <4>1, AppendPlaces
      <4>3. QED
        BY <1>0, <2>1, <3>2, <4>1, <4>2
    <3>3. QED
      BY <3>1, <3>2
  <2>4. \A p \in Prio : \A i \in DOMAIN queue'[p] : status'[queue'[p][i]] = "queued"
    BY <1>0, <2>2, <2>3
  <2>5. ASSUME NEW p \in Prio, NEW q \in Prio, NEW i \in DOMAIN queue'[p], NEW k \in DOMAIN queue'[q],
               queue'[p][i] = queue'[q][k]
        PROVE  p = q /\ i = k
    BY <1>0, <2>3, <2>5 DEF InQueue
  <2>6. QED
    BY <2>4, <2>5 DEF InQueue
<1>3. ASSUME NEW p \in Prio, Takes(f, p)
      PROVE  InQueue'
  <2>1. /\ queue[p] # <<>> /\ queue[p] \in Seq(Jobs)
        /\ Head(queue[p]) \in Jobs /\ Head(queue[p]) = queue[p][1] /\ 1 \in DOMAIN queue[p]
    BY <1>0, <1>3, TakenQueued DEF Takes
  <2>2. /\ \A q \in Prio : queue'[q] = IF q = p THEN Tail(queue[p]) ELSE queue[q]
        /\ \A j \in Jobs : status'[j] = IF j = Head(queue[p]) THEN "started" ELSE status[j]
    BY <1>0, <1>3 DEF Takes
  <2>3. \A i \in DOMAIN Tail(queue[p]) :
          i \in Nat /\ i >= 1 /\ i + 1 \in DOMAIN queue[p] /\ Tail(queue[p])[i] = queue[p][i + 1]
    BY <2>1, TailPlaces
  <2>4. ASSUME NEW q \in Prio, NEW i \in DOMAIN queue'[q]
        PROVE  \E n \in DOMAIN queue[q] :
                 /\ queue'[q][i] = queue[q][n] /\ queue'[q][i] # Head(queue[p])
                 /\ i \in Int /\ n \in Int /\ n = IF q = p THEN i + 1 ELSE i
    <3>1. CASE q # p
      <4>1. queue'[q] = queue[q] /\ i \in DOMAIN queue[q]
        BY <2>2, <2>4, <3>1
      <4>2. i \in Int
        BY <1>0, <4>1, LenProperties
      <4>3. queue[q][i] # Head(queue[p])
        BY <1>0, <2>1, <3>1, <4>1 DEF InQueue
      <4>4. QED
        BY <3>1, <4>1, <4>2, <4>3
    <3>2. CASE q = p
      <4>1. queue'[q] = Tail(queue[p]) /\ i + 1 \in DOMAIN queue[p] /\ i \in Nat /\ i >= 1
            /\ queue'[q][i] = queue[p][i + 1]
        BY <2>2, <2>3, <2>4, <3>2
      <4>2. queue[p][i + 1] # Head(queue[p])
        <5>1. i + 1 # 1
          BY <4>1
        <5>2. QED
          BY <1>0, <2>1, <4>1, <5>1 DEF InQueue
      <4>3. QED
        BY <3>2, <4>1, <4>2
    <3>3. QED
      BY <3>1, <3>2
  <2>5. \A q \in Prio : \A i \in DOMAIN queue'[q] : status'[queue'[q][i]] = "queued"
    BY <1>0, <2>2, <2>4
  <2>6. ASSUME NEW q \in Prio, NEW r \in Prio, NEW i \in DOMAIN queue'[q], NEW k \in DOMAIN queue'[r],
               queue'[q][i] = queue'[r][k]
        PROVE  q = r /\ i = k
    <3>1. PICK n \in DOMAIN queue[q] : queue'[q][i] = queue[q][n] /\ i \in Int /\ n \in Int /\ n = IF q = p THEN i + 1 ELSE i
      BY <2>4
    <3>2. PICK m \in DOMAIN queue[r] : queue'[r][k] = queue[r][m] /\ k \in Int /\ m \in Int /\ m = IF r = p THEN k + 1 ELSE k
      BY <2>4
    <3>3. queue[q][n] = queue[r][m]
      BY <2>6, <3>1, <3>2
    <3>a. q = r /\ n = m
      BY <1>0, <3>3 DEF InQueue
    <3>4. QED
      BY <3>1, <3>2, <3>a
  <2>7. QED
    BY <2>5, <2>6 DEF InQueue
<1>4. CASE Finishes(f)
  <2>1. /\ queue' = queue /\ frame[f].job \in Jobs /\ status[frame[f].job] = "started"
        /\ \A j \in Jobs : status'[j] = IF j = frame[f].job THEN "done" ELSE status[j]
    BY <1>0, <1>4 DEF Finishes, RunStatus
  <2>2. \A p \in Prio : \A i \in DOMAIN queue[p] : queue[p][i] # frame[f].job
    BY <1>0, <2>1
  <2>3. \A p \in Prio : \A i \in DOMAIN queue[p] : status'[queue[p][i]] = "queued"
    BY <1>0, <2>1, <2>2
  <2>4. QED
    BY <1>0, <2>1, <2>3 DEF InQueue
<1>5. QED
  BY <1>1, <1>2, <1>3, <1>4 DEF Moves

\* What a Step of a Queue with entries unfolds to.
LEMMA UnfoldPlaces ==
  ASSUME NEW r \in Seq(Op), r # <<>>, Head(r).op \in {"step", "execute"},
         NEW es \in Seq(Entry), es # <<>>
  PROVE  /\ Unfold(r, es) \in Seq(Op)
         /\ Unfold(r, es)[1] = Schedule(Head(es).prio, Head(es).job, Head(r).ctr)
         /\ Unfold(r, es)[2] = Wait(Head(r).ctr, 0)
         /\ Unfold(r, es)[3] = [op |-> "erase", ctr |-> Head(r).ctr]
         /\ {1, 2, 3} \subseteq DOMAIN Unfold(r, es)
         /\ \A i \in DOMAIN Unfold(r, es) :
              /\ i \in Nat /\ i >= 1
              /\ i > 3 => LET b == IF Head(r).op = "execute" THEN i - 3 ELSE i - 2 IN
                            b \in Nat /\ b \in DOMAIN r /\ Unfold(r, es)[i] = r[b]
<1>1. /\ Head(r) \in Op /\ Tail(r) \in Seq(Op) /\ Head(r).ctr \in Counters
      /\ Len(r) \in Nat /\ Len(Tail(r)) = Len(r) - 1 /\ Len(r) >= 1 /\ DOMAIN r = 1 .. Len(r)
      /\ \A i \in 1 .. Len(Tail(r)) : Tail(r)[i] = r[i + 1]
  <2>1. Head(r) \in Op /\ Tail(r) \in Seq(Op) /\ Len(Tail(r)) = Len(r) - 1
        /\ \A i \in 1 .. Len(Tail(r)) : Tail(r)[i] = r[i + 1]
    BY HeadTailProperties
  <2>2. Len(r) \in Nat /\ Len(r) >= 1 /\ DOMAIN r = 1 .. Len(r)
    BY LenProperties, EmptySeq
  <2>3. QED
    BY <2>1, <2>2, OpTypes
<1>2. PICK a \in Op : a = Schedule(Head(es).prio, Head(es).job, Head(r).ctr)
  <2>1. Head(es) \in Entry
    BY HeadTailProperties
  <2>2. QED
    BY <1>1, <2>1 DEF Entry, Schedule, Op
<1>3. PICK w \in Op : w = Wait(Head(r).ctr, 0)
  <2>1. 0 \in Unit
    BY CounterAssumption DEF Unit
  <2>2. QED
    BY <1>1, <2>1 DEF Wait, Op
<1>4. PICK e \in Op : e = [op |-> "erase", ctr |-> Head(r).ctr]
  BY <1>1 DEF Op
<1>5. PICK rest \in Seq(Op) : rest = IF Head(r).op = "execute" THEN r ELSE Tail(r)
  BY <1>1
<1>6. Unfold(r, es) = <<a, w, e>> \o rest
  BY <1>2, <1>3, <1>4, <1>5 DEF Unfold, StepOn
<1>7. /\ <<a, w, e>> \in Seq(Op) /\ Len(<<a, w, e>>) = 3
      /\ <<a, w, e>>[1] = a /\ <<a, w, e>>[2] = w /\ <<a, w, e>>[3] = e
  OBVIOUS
<1>8. PICK u \in Seq(Op) : u = Unfold(r, es) /\ Len(u) = 3 + Len(rest)
        /\ \A i \in 1 .. 3 + Len(rest) : u[i] = IF i <= 3 THEN <<a, w, e>>[i] ELSE rest[i - 3]
  <2>1. PICK h \in Seq(Op) : h = <<a, w, e>>
    BY <1>7
  <2>2. /\ h \o rest \in Seq(Op) /\ Len(h \o rest) = Len(h) + Len(rest)
        /\ \A i \in 1 .. Len(h) + Len(rest) :
             (h \o rest)[i] = IF i <= Len(h) THEN h[i] ELSE rest[i - Len(h)]
    BY ConcatProperties
  <2>3. Len(h) = 3
    BY <1>7, <2>1
  <2>4. QED
    BY <1>6, <2>1, <2>2, <2>3
<1>9. Len(rest) \in Nat /\ DOMAIN u = 1 .. 3 + Len(rest)
  BY <1>8, LenProperties
<1>10. u[1] = a /\ u[2] = w /\ u[3] = e /\ {1, 2, 3} \subseteq DOMAIN u
  BY <1>7, <1>8, <1>9
<1>11. ASSUME NEW i \in DOMAIN u
       PROVE  /\ i \in Nat /\ i >= 1
              /\ i > 3 => LET b == IF Head(r).op = "execute" THEN i - 3 ELSE i - 2 IN
                            b \in Nat /\ b \in DOMAIN r /\ u[i] = r[b]
  <2>1. i \in Nat /\ i >= 1 /\ i <= 3 + Len(rest)
    BY <1>9
  <2>2. ASSUME i > 3
        PROVE  u[i] = rest[i - 3] /\ i - 3 \in 1 .. Len(rest)
    BY <1>8, <1>9, <2>1, <2>2
  <2>3. CASE Head(r).op = "execute"
    BY <1>1, <1>5, <2>1, <2>2, <2>3
  <2>4. CASE Head(r).op # "execute"
    <3>1. rest = Tail(r) /\ Len(rest) = Len(r) - 1
      BY <1>1, <1>5, <2>4
    <3>2. ASSUME i > 3
          PROVE  /\ i - 2 \in Nat /\ i - 2 \in DOMAIN r /\ u[i] = r[i - 2]
      <4>1. rest[i - 3] = r[(i - 3) + 1] /\ (i - 3) + 1 = i - 2
        BY <1>1, <2>1, <2>2, <3>1, <3>2
      <4>2. QED
        BY <1>1, <2>1, <2>2, <3>1, <3>2, <4>1
    <3>3. QED
      BY <2>1, <2>4, <3>2
  <2>5. QED
    BY <2>3, <2>4
<1>12. QED
  BY <1>2, <1>3, <1>4, <1>8, <1>10, <1>11

\* Owns does not change,
LEMMA OwnsKept ==
  ASSUME UNCHANGED program, NEW x, NEW c
  PROVE  Owns(x, c)' <=> Owns(x, c)
BY DEF Owns

\* and the shape of what is left to f is that of what was left, without the first
\* of it.
LEMMA ShapeTail ==
  ASSUME FramesOK, Shape, NEW f \in Fibers, Remaining(f) # <<>>,
         UNCHANGED program, frame'[f].job = frame[f].job, Remaining(f)' = Tail(Remaining(f)),
         entries' = entries \/ \A k \in DOMAIN Tail(Remaining(f)) : Tail(Remaining(f))[k].op # "erase",
         NEW i \in DOMAIN Remaining(f)'
  PROVE  ShapeOf(f, i)'
<1>1. PICK r \in Seq(Op) : r = Remaining(f)
  BY RemainingIs
<1>2. /\ i \in Nat /\ i >= 1 /\ i + 1 \in DOMAIN r /\ Tail(r)[i] = r[i + 1]
      /\ \A k \in DOMAIN Tail(r) : k \in Nat /\ k >= 1 /\ k + 1 \in DOMAIN r /\ Tail(r)[k] = r[k + 1]
      /\ i > 1 => i - 1 \in DOMAIN Tail(r) /\ i - 1 + 1 = i
      /\ 1 \in DOMAIN r
  <2>1. /\ i \in DOMAIN Tail(r) /\ 1 \in DOMAIN r
        /\ \A k \in DOMAIN Tail(r) : k \in Nat /\ k >= 1 /\ k + 1 \in DOMAIN r /\ Tail(r)[k] = r[k + 1]
        /\ \A k \in DOMAIN r : k # 1 => k - 1 \in DOMAIN Tail(r)
    BY <1>1, TailPlaces
  <2>2. i > 1 => i - 1 \in DOMAIN Tail(r)
    <3>1. Tail(r) \in Seq(Op)
      BY <1>1, TailPlaces
    <3>2. DOMAIN Tail(r) = 1 .. Len(Tail(r)) /\ Len(Tail(r)) \in Nat
      BY <3>1, LenProperties
    <3>3. QED
      BY <2>1, <3>2
  <2>3. QED
    BY <2>1, <2>2
<1>3. ShapeOf(f, i + 1)
  BY <1>1, <1>2 DEF Shape
<1>4. Tail(r)[i].op \in OnQueue \cup {"erase"} => Owns(frame[f].job, Tail(r)[i].ctr)
  BY <1>1, <1>2, <1>3 DEF ShapeOf
<1>5. ASSUME Tail(r)[i].op = "erase"
      PROVE  /\ i <= 3
             /\ \A k \in DOMAIN Tail(r) : Tail(r)[k].op = "erase" => k = i
             /\ entries'[Tail(r)[i].ctr] # <<>>
             /\ i > 1 => Tail(r)[i - 1] = Wait(Tail(r)[i].ctr, 0)
             /\ i # 3
  <2>1. /\ i + 1 <= 3
        /\ \A k \in DOMAIN r : EraseAt(f, k) => k = i + 1
        /\ entries[Tail(r)[i].ctr] # <<>>
        /\ r[i + 1 - 1] = Wait(Tail(r)[i].ctr, 0)
    BY <1>1, <1>2, <1>3, <1>5 DEF ShapeOf
  <2>2. entries' = entries
    BY <1>1, <1>2, <1>5
  <2>3. i > 1 => Tail(r)[i - 1] = r[i + 1 - 1]
    BY <1>2
  <2>4. ASSUME NEW k \in DOMAIN Tail(r), Tail(r)[k].op = "erase"
        PROVE  k = i
    <3>1. k + 1 \in DOMAIN r /\ r[k + 1].op = "erase" /\ k \in Nat
      BY <1>2, <2>4
    <3>2. EraseAt(f, k + 1)
      BY <1>1, <3>1 DEF EraseAt
    <3>3. QED
      BY <1>2, <2>1, <3>1, <3>2
  <2>5. QED
    BY <1>2, <2>1, <2>2, <2>3, <2>4
<1>6. Owns(frame[f].job, Tail(r)[i].ctr)' <=> Owns(frame[f].job, Tail(r)[i].ctr)
  BY DEF Owns
<1>7. Remaining(f)' = Tail(r)
  BY <1>1
<1>8. QED
  BY <1>2, <1>4, <1>5, <1>6, <1>7 DEF ShapeOf, EraseAt

\* What does not change keeps its shape.
LEMMA ShapeKept ==
  ASSUME Shape, UNCHANGED program, NEW g \in Fibers,
         Remaining(g)' = Remaining(g) /\ frame'[g].job = frame[g].job,
         NEW i \in DOMAIN Remaining(g)',
         EraseAt(g, i) => entries'[Remaining(g)[i].ctr] = entries[Remaining(g)[i].ctr]
  PROVE  ShapeOf(g, i)'
<1>1. Remaining(g)' = Remaining(g) /\ frame'[g].job = frame[g].job
  OBVIOUS
<1>2. ShapeOf(g, i) /\ i \in DOMAIN Remaining(g)
  BY <1>1 DEF Shape
<1>3. PICK r : r = Remaining(g)
  OBVIOUS
<1>4. Owns(frame[g].job, r[i].ctr)' <=> Owns(frame[g].job, r[i].ctr)
  BY <1>1 DEF Owns
<1>5. r[i].op = "erase" => entries'[r[i].ctr] = entries[r[i].ctr]
  BY <1>2, <1>3 DEF EraseAt
<1>6. QED
  BY <1>1, <1>2, <1>3, <1>4, <1>5 DEF ShapeOf, EraseAt

\* Every move keeps the shape of a Step in progress.
LEMMA ShapeStep ==
  ASSUME TypeOK, FramesOK, JobInv, NEW f \in Fibers, Moves(f)
  PROVE  Shape'
<1>0. /\ Shape /\ OneRun /\ QueuesOwned(program.body) /\ ScheduledOnce(program.body)
      /\ program.body \in [Code -> Seq(Op)] /\ entries \in [Counters -> Seq(Entry)]
  BY BodyTypes DEF JobInv, TypeOK
<1>1. program' = program
  BY DEF Moves, Idles, Passes, Submits, SubmitsProxy, Enqueues, Changes, Unfolds, Takes, Finishes, Drops
<1>2. SUFFICES ASSUME NEW g \in Fibers, NEW i \in DOMAIN Remaining(g)'
               PROVE  ShapeOf(g, i)'
  BY DEF Shape
<1>3. PICK job, left, phase : After(f, job, left, phase)
  BY DEF Moves, Idles, Passes, Submits, SubmitsProxy, Changes, Unfolds, Takes, Finishes, Drops
<1>4. CASE ~Changes(f)
  <2>1. entries' = entries
    BY <1>4 DEF Moves, Idles, Passes, Submits, SubmitsProxy, Enqueues, Unfolds, Takes, Finishes, Drops
  <2>2. CASE g # f
    BY <1>0, <1>1, <1>2, <1>3, <2>1, <2>2, OthersAsk, ShapeKept
  <2>3. CASE g = f /\ (Idles(f) \/ SubmitsProxy(f))
    <3>1. Remaining(f)' = Remaining(f) /\ frame'[f].job = frame[f].job
      BY <2>3, JobsAfter DEF Idles, SubmitsProxy
    <3>2. QED
      BY <1>0, <1>1, <1>2, <2>1, <2>3, <3>1, ShapeKept
  <2>4. CASE g = f /\ (Passes(f) \/ Submits(f))
    <3>1. /\ Remaining(f)' = Tail(Remaining(f)) /\ frame'[f].job = frame[f].job
          /\ Remaining(f) # <<>>
      BY <2>4, JobsAfter DEF Passes, Submits, Faces
    <3>2. QED
      BY <1>0, <1>1, <1>2, <2>1, <2>4, <3>1, ShapeTail
  <2>5. CASE g = f /\ Unfolds(f)
    <3>1. /\ Faces(f, OnQueue)
          /\ Remaining(f)' = Unfold(Remaining(f), entries[Head(Remaining(f)).ctr])
          /\ frame'[f].job = frame[f].job /\ Faces(f, {"step", "execute"})
      BY <2>5, JobsAfter DEF Unfolds, Faces, OnQueue
    <3>2. \A k \in DOMAIN Remaining(f) : ~EraseAt(f, k)
      BY <1>0, <3>1, NoStepYet
    <3>3. PICK r \in Seq(Op) : r = Remaining(f)
      BY RemainingIs
    <3>4. /\ r # <<>> /\ Head(r).op \in {"step", "execute"} /\ Head(r) = r[1] /\ 1 \in DOMAIN r
          /\ Head(r) \in Op
      BY <3>1, <3>3, FacesTypes
    <3>5. PICK c \in Counters : c = Head(r).ctr
      BY <3>4, OpTypes
    <3>6. PICK es \in Seq(Entry) : es = entries[c]
      BY <1>0
    <3>7. Owns(frame[f].job, c)
      <4>1. ShapeOf(f, 1)
        BY <1>0, <3>3, <3>4 DEF Shape
      <4>2. QED
        BY <3>3, <3>4, <3>5, <4>1 DEF ShapeOf, OnQueue
    <3>8. CASE es = <<>>
      <4>1. Remaining(f)' = Tail(Remaining(f)) /\ Remaining(f) # <<>>
        BY <3>1, <3>3, <3>4, <3>5, <3>6, <3>8 DEF Unfold
      <4>2. QED
        BY <1>0, <1>1, <1>2, <2>1, <2>5, <3>1, <4>1, ShapeTail
    <3>9. CASE es # <<>>
      <4>1. PICK u : u = Unfold(r, es) /\ u = Remaining(f)'
        BY <3>1, <3>3, <3>5, <3>6
      <4>2. /\ u[1] = Schedule(Head(es).prio, Head(es).job, c)
            /\ u[2] = Wait(c, 0)
            /\ u[3] = [op |-> "erase", ctr |-> c]
            /\ {1, 2, 3} \subseteq DOMAIN u
            /\ \A k \in DOMAIN u :
                 /\ k \in Nat /\ k >= 1
                 /\ k > 3 => \E b \in DOMAIN r : u[k] = r[b]
        <5>1. /\ u[1] = Schedule(Head(es).prio, Head(es).job, c)
              /\ u[2] = Wait(c, 0)
              /\ u[3] = [op |-> "erase", ctr |-> c]
              /\ {1, 2, 3} \subseteq DOMAIN u
              /\ \A k \in DOMAIN u :
                   /\ k \in Nat /\ k >= 1
                   /\ k > 3 => LET b == IF Head(r).op = "execute" THEN k - 3 ELSE k - 2 IN
                                 b \in Nat /\ b \in DOMAIN r /\ u[k] = r[b]
          <6>1. PICK v : v = Unfold(r, es)
            OBVIOUS
          <6>2. /\ v[1] = Schedule(Head(es).prio, Head(es).job, Head(r).ctr)
                /\ v[2] = Wait(Head(r).ctr, 0)
                /\ v[3] = [op |-> "erase", ctr |-> Head(r).ctr]
                /\ {1, 2, 3} \subseteq DOMAIN v
                /\ \A k \in DOMAIN v :
                     /\ k \in Nat /\ k >= 1
                     /\ k > 3 => LET b == IF Head(r).op = "execute" THEN k - 3 ELSE k - 2 IN
                                   b \in Nat /\ b \in DOMAIN r /\ v[k] = r[b]
            BY <3>4, <3>9, <6>1, UnfoldPlaces, Zenon
          <6>3. v = u
            BY <4>1, <6>1
          <6>4. QED
            BY <3>5, <6>2, <6>3
        <5>2. ASSUME NEW k \in DOMAIN u, k > 3
              PROVE  \E b \in DOMAIN r : u[k] = r[b]
          <6>1. PICK b : b = IF Head(r).op = "execute" THEN k - 3 ELSE k - 2
            OBVIOUS
          <6>2. b \in DOMAIN r /\ u[k] = r[b]
            BY <5>1, <5>2, <6>1
          <6>3. QED
            BY <6>2
        <5>3. QED
          BY <5>1, <5>2
      <4>3. \A b \in DOMAIN r : /\ r[b].op # "erase"
                                /\ r[b].op \in OnQueue \cup {"erase"} => Owns(frame[f].job, r[b].ctr)
        BY <1>0, <3>2, <3>3 DEF Shape, ShapeOf, EraseAt
      <4>4. u[1].op = "schedule" /\ u[2].op = "wait" /\ u[3].op = "erase" /\ u[3].ctr = c
        BY <4>2 DEF Schedule, Wait
      <4>5. ASSUME NEW k \in DOMAIN u
            PROVE  /\ u[k].op = "erase" <=> k = 3
                   /\ u[k].op \in OnQueue \cup {"erase"} => Owns(frame[f].job, u[k].ctr)
        <5>1. CASE k > 3
          BY <4>2, <4>3, <4>5, <5>1
        <5>2. CASE k \in {1, 2, 3}
          BY <3>7, <4>4, <5>2 DEF OnQueue
        <5>3. QED
          BY <4>2, <4>5, <5>1, <5>2
      <4>6. i \in DOMAIN u
        BY <1>2, <2>5, <4>1
      <4>7. Owns(frame[f].job, u[i].ctr)' <=> Owns(frame[f].job, u[i].ctr)
        BY <1>1, <3>1 DEF Owns
      <4>8. entries'[c] = es /\ entries'[c] # <<>>
        BY <2>1, <3>6, <3>9
      <4>9. u[i].op = "erase" =>
              /\ i <= 3
              /\ \A k \in DOMAIN u : u[k].op = "erase" => k = i
              /\ entries'[u[i].ctr] # <<>>
              /\ i > 1 => u[i - 1] = Wait(u[i].ctr, 0)
              /\ i = 3 => u[1] = Schedule(Head(entries'[u[i].ctr]).prio, Head(entries'[u[i].ctr]).job, u[i].ctr)
        BY <4>2, <4>4, <4>5, <4>6, <4>8
      <4>10. QED
        BY <2>5, <4>1, <4>5, <4>6, <4>7, <4>9 DEF ShapeOf, EraseAt
    <3>10. QED
      BY <3>8, <3>9
  <2>6. ASSUME g = f, NEW p \in Prio, Takes(f, p)
        PROVE  ShapeOf(g, i)'
    <3>1. Head(queue[p]) \in Code
      BY <2>6, TakenQueued DEF Takes, JobInv
    <3>2. PICK x \in Code : x = Head(queue[p])
      BY <3>1
    <3>3. Remaining(f)' = program.body[x] /\ frame'[f].job = x
      BY <2>6, <3>2, JobsAfter DEF Takes
    <3>4. PICK b \in Seq(Op) : b = program.body[x]
      BY <1>0
    <3>5. i \in DOMAIN b /\ b[i].op # "erase"
      BY <1>0, <1>2, <2>6, <3>3, <3>4 DEF QueuesOwned
    <3>6. b[i].op \in OnQueue => Owns(x, b[i].ctr)
      BY <3>4, <3>5 DEF Owns
    <3>7. Owns(frame[f].job, b[i].ctr)' <=> Owns(x, b[i].ctr)
      BY <1>1, <3>3 DEF Owns
    <3>8. QED
      BY <2>6, <3>3, <3>4, <3>5, <3>6, <3>7 DEF ShapeOf
  <2>7. CASE g = f /\ (Finishes(f) \/ Drops(f))
    <3>1. Remaining(f)' = <<>>
      BY <2>7, JobsAfter DEF Finishes, Drops
    <3>2. QED
      BY <1>2, <2>7, <3>1, EmptySeq
  <2>8. QED
    BY <1>4, <2>2, <2>3, <2>4, <2>5, <2>6, <2>7 DEF Moves
<1>5. CASE Changes(f)
  <2>1. /\ Faces(f, {"add", "erase"}) /\ frame'[f].job = frame[f].job
        /\ Remaining(f)' = Tail(Remaining(f))
        /\ entries' = [entries EXCEPT ![Head(Remaining(f)).ctr] = Changed(Head(Remaining(f)), @)]
    BY <1>5, JobsAfter DEF Changes
  <2>2. PICK r \in Seq(Op) : r = Remaining(f)
    BY RemainingIs
  <2>3. /\ r # <<>> /\ Head(r).op \in {"add", "erase"} /\ Head(r) = r[1] /\ 1 \in DOMAIN r
        /\ Head(r) \in Op
    BY <2>1, <2>2, FacesTypes
  <2>4. PICK c \in Counters : c = Head(r).ctr
    BY <2>3, OpTypes
  <2>5. Owns(frame[f].job, c)
    <3>1. ShapeOf(f, 1)
      BY <1>0, <2>2, <2>3 DEF Shape
    <3>2. QED
      BY <2>2, <2>3, <2>4, <3>1 DEF ShapeOf, OnQueue
  <2>6. CASE g # f
    <3>1. Remaining(g)' = Remaining(g) /\ frame'[g].job = frame[g].job
      BY <1>3, <2>6, OthersAsk
    <3>2. ASSUME EraseAt(g, i)
          PROVE  entries'[Remaining(g)[i].ctr] = entries[Remaining(g)[i].ctr]
      <4>1. Remaining(g)[i].ctr # c
        BY <1>0, <2>5, <2>6, <3>2, OwnErase
      <4>2. Remaining(g)[i].ctr \in Counters
        <5>1. Remaining(g) \in Seq(Op)
          BY RemainingIs
        <5>2. Remaining(g)[i] \in Op /\ Remaining(g)[i].op = "erase"
          BY <3>2, <5>1, LenProperties, ElementOfSeq DEF EraseAt
        <5>3. QED
          BY <5>2, OpTypes
      <4>3. QED
        BY <2>1, <2>2, <2>4, <4>1, <4>2, <1>0
    <3>3. QED
      BY <1>0, <1>1, <1>2, <3>1, <3>2, ShapeKept
  <2>7. CASE g = f
    <3>1. \A k \in DOMAIN Tail(r) : Tail(r)[k].op # "erase"
      <4>1. SUFFICES ASSUME NEW k \in DOMAIN Tail(r), Tail(r)[k].op = "erase"
                     PROVE  FALSE
        OBVIOUS
      <4>2. k \in Nat /\ k >= 1 /\ k + 1 \in DOMAIN r /\ r[k + 1].op = "erase"
        BY <2>3, <4>1, TailPlaces
      <4>3. EraseAt(f, k + 1)
        BY <2>2, <4>2 DEF EraseAt
      <4>4. CASE Head(r).op = "add"
        <5>1. Faces(f, OnQueue)
          BY <2>2, <2>3, <4>4 DEF Faces, OnQueue
        <5>2. QED
          BY <1>0, <2>2, <4>2, <4>3, <5>1, NoStepYet
      <4>5. CASE Head(r).op = "erase"
        <5>1. EraseAt(f, 1) /\ ShapeOf(f, 1)
          BY <1>0, <2>2, <2>3, <4>5 DEF EraseAt, Shape
        <5>2. k + 1 = 1
          BY <2>2, <4>2, <4>3, <5>1 DEF ShapeOf, EraseAt
        <5>3. QED
          BY <4>2, <5>2
      <4>6. QED
        BY <2>3, <4>4, <4>5
    <3>2. QED
      BY <1>0, <1>1, <1>2, <2>1, <2>2, <2>3, <2>7, <3>1, ShapeTail
  <2>8. QED
    BY <2>6, <2>7
<1>6. QED
  BY <1>4, <1>5

\* What has left the set of jobs that are not started does not come back, and a
\* job that is not submitted stays new.
LEMMA StatusKept ==
  ASSUME TypeOK, FramesOK, JobInv, NEW f \in Fibers, Moves(f)
  PROVE  /\ \A x \in Jobs : status'[x] \in {"new", "queued"} => status[x] \in {"new", "queued"}
         /\ \A j \in Jobs : status[j] = "new" /\ ~Submits(f) /\ ~SubmitsProxy(f) => status'[j] = "new"
         /\ UNCHANGED program
<1>0. status \in [Jobs -> {"new", "queued", "started", "done"}] /\ Once /\ InQueue /\ RunStatus
  BY DEF TypeOK, JobInv
<1>1. CASE \/ Idles(f) \/ Passes(f) \/ Changes(f) \/ Unfolds(f) \/ Drops(f)
  BY <1>1 DEF Idles, Passes, Changes, Unfolds, Drops
<1>2. CASE Submits(f) \/ SubmitsProxy(f)
  <2>1. PICK prio \in Prio, job \in Jobs, ctr \in Counters \cup {NoCounter} :
          Enqueues(prio, job, ctr) /\ status[job] = "new"
    BY <1>0, <1>2, SubmitNew
  <2>2. \A j \in Jobs : status'[j] = IF j = job THEN "queued" ELSE status[j]
    BY <1>0, <2>1 DEF Enqueues
  <2>3. QED
    BY <1>2, <2>1, <2>2 DEF Enqueues
<1>3. ASSUME NEW p \in Prio, Takes(f, p)
      PROVE  /\ \A x \in Jobs : status'[x] \in {"new", "queued"} => status[x] \in {"new", "queued"}
             /\ \A j \in Jobs : status[j] = "new" => status'[j] = "new"
             /\ UNCHANGED program
  <2>1. Head(queue[p]) \in Jobs /\ status[Head(queue[p])] = "queued"
    BY <1>0, <1>3, TakenQueued DEF Takes
  <2>2. \A j \in Jobs : status'[j] = IF j = Head(queue[p]) THEN "started" ELSE status[j]
    BY <1>0, <1>3 DEF Takes
  <2>3. QED
    BY <1>3, <2>1, <2>2 DEF Takes
<1>4. CASE Finishes(f)
  <2>1. frame[f].job \in Jobs /\ status[frame[f].job] = "started"
    BY <1>0, <1>4 DEF Finishes, RunStatus
  <2>2. \A j \in Jobs : status'[j] = IF j = frame[f].job THEN "done" ELSE status[j]
    BY <1>0, <1>4 DEF Finishes
  <2>3. QED
    BY <1>4, <2>1, <2>2 DEF Finishes
<1>5. QED
  BY <1>1, <1>2, <1>3, <1>4 DEF Moves

\* A Step in progress stays in progress, unless its erase is what f does.
LEMMA SteppingKept ==
  ASSUME NEW f \in Fibers, NEW job, NEW left, NEW phase, After(f, job, left, phase), NEW c,
         \A n : EraseAt(f, n) /\ Remaining(f)[n].ctr = c =>
           \E m : EraseAt(f, m)' /\ Remaining(f)'[m].ctr = c,
         Stepping(c)
  PROVE  Stepping(c)'
<1>0. PICK g \in Fibers : \E i \in DOMAIN Remaining(g) : EraseAt(g, i) /\ Remaining(g)[i].ctr = c
  BY DEF Stepping
<1>1. PICK n \in DOMAIN Remaining(g) : EraseAt(g, n) /\ Remaining(g)[n].ctr = c
  BY <1>0
<1>2. CASE g = f
  <2>1. PICK m : EraseAt(f, m)' /\ Remaining(f)'[m].ctr = c
    BY <1>1, <1>2
  <2>2. m \in DOMAIN Remaining(f)'
    BY <2>1 DEF EraseAt
  <2>3. QED
    BY <2>1, <2>2 DEF Stepping
<1>3. CASE g # f
  <2>1. Remaining(g)' = Remaining(g) /\ EraseAt(g, n)'
    BY <1>1, <1>3, OthersAsk
  <2>2. QED
    BY <1>1, <2>1 DEF Stepping
<1>4. QED
  BY <1>2, <1>3

\* A place that the move of f is not about.
LEMMA OtherPlaces ==
  ASSUME UNCHANGED program,
         \A x \in Jobs : status'[x] \in {"new", "queued"} => status[x] \in {"new", "queued"},
         NEW f \in Fibers, NEW job, NEW left, NEW phase, After(f, job, left, phase),
         NEW pl \in Places, NEW j, Asks(pl, j)',
         ~(pl.in = "fiber" /\ pl.of = f),
         pl.in = "entries" => /\ entries'[pl.of] = entries[pl.of]
                              /\ Stepping(pl.of) => Stepping(pl.of)'
  PROVE  Asks(pl, j)
<1>1. CASE pl.in = "fiber"
  <2>1. pl.of \in Fibers /\ pl.of # f /\ InFiber(pl.of, pl.at, j)'
    BY <1>1, PlaceKinds DEF Asks
  <2>2. InFiber(pl.of, pl.at, j)
    BY <2>1, OthersAsk
  <2>3. QED
    BY <1>1, <2>2 DEF Asks
<1>2. CASE pl.in = "entries"
  BY <1>2 DEF Asks, InEntries
<1>3. CASE pl.in = "body"
  <2>1. pl.of \in Jobs /\ InBody(pl.of, pl.at, j)'
    BY <1>3, PlaceKinds DEF Asks
  <2>2. InBody(pl.of, pl.at, j)
    BY <2>1, BodiesAsk
  <2>3. QED
    BY <1>3, <2>2 DEF Asks
<1>4. QED
  BY <1>1, <1>2, <1>3, PlaceKinds

\* What is left to f after its first operation was left before.
LEMMA TailAsks ==
  ASSUME FramesOK, NEW f \in Fibers, Remaining(f) # <<>>,
         Remaining(f)' = Tail(Remaining(f)), NEW i, NEW j, InFiber(f, i, j)'
  PROVE  i \in Nat /\ i >= 1 /\ InFiber(f, i + 1, j)
<1>1. PICK r \in Seq(Op) : r = Remaining(f)
  BY RemainingIs
<1>2. i \in DOMAIN Tail(r) /\ AsksFor(Tail(r)[i], j)
  BY <1>1 DEF InFiber, AsksFor
<1>3. i \in Nat /\ i >= 1 /\ i + 1 \in DOMAIN r /\ Tail(r)[i] = r[i + 1]
  BY <1>1, <1>2, TailPlaces
<1>4. i + 1 # 1
  BY <1>3
<1>5. QED
  BY <1>1, <1>2, <1>3, <1>4 DEF InFiber

\* An erase comes nearer by one,
LEMMA TailErases ==
  ASSUME FramesOK, NEW f \in Fibers, Remaining(f) # <<>>,
         Remaining(f)' = Tail(Remaining(f)), NEW n, EraseAt(f, n), n # 1
  PROVE  EraseAt(f, n - 1)' /\ Remaining(f)'[n - 1] = Remaining(f)[n]
<1>1. PICK r \in Seq(Op) : r = Remaining(f)
  BY RemainingIs
<1>2. n \in DOMAIN r /\ r[n].op = "erase"
  BY <1>1 DEF EraseAt
<1>3. n \in Nat /\ n >= 1 /\ n - 1 \in DOMAIN Tail(r) /\ Tail(r)[n - 1] = r[n]
  BY <1>1, <1>2, TailPlaces
<1>4. QED
  BY <1>1, <1>2, <1>3 DEF EraseAt

\* Where nothing is moved,
LEMMA OnceStays ==
  ASSUME TypeOK, FramesOK, JobInv, NEW f \in Fibers, Moves(f),
         Idles(f) \/ SubmitsProxy(f) \/ Finishes(f) \/ Drops(f)
  PROVE  Once'
<1>0. Once /\ status \in [Jobs -> {"new", "queued", "started", "done"}]
  BY DEF JobInv, TypeOK
<1>1. PICK job, phase : /\ After(f, job, Remaining(f), phase)
                        /\ phase = "proxied" \/ Phase(f) # "proxied"
  BY DEF Idles, SubmitsProxy, Finishes, Drops
<1>2. entries' = entries
  BY DEF Idles, SubmitsProxy, Enqueues, Finishes, Drops
<1>3. Remaining(f)' = Remaining(f) /\ Phase(f)' = phase
  BY <1>1 DEF After
<1>4. ASSUME NEW j \in Jobs, NEW pl \in Places, Asks(pl, j)'
      PROVE  Asks(pl, j)
  <2>1. CASE pl.in = "fiber" /\ pl.of = f
    <3>1. InFiber(f, pl.at, j)'
      BY <1>4, <2>1 DEF Asks
    <3>2. InFiber(f, pl.at, j)
      BY <1>1, <1>3, <3>1 DEF InFiber
    <3>3. QED
      BY <2>1, <3>2 DEF Asks
  <2>2. CASE ~(pl.in = "fiber" /\ pl.of = f)
    <3>1. \A n : EraseAt(f, n) => EraseAt(f, n)'
      BY <1>3 DEF EraseAt
    <3>2. ASSUME Stepping(pl.of)
          PROVE  Stepping(pl.of)'
      BY <1>1, <1>3, <3>1, <3>2, SteppingKept
    <3>3. QED
      BY <1>1, <1>2, <1>4, <2>2, <3>2, StatusKept, OtherPlaces
  <2>3. QED
    BY <2>1, <2>2
<1>5. ASSUME NEW j \in Jobs, NEW pl \in Places, Asks(pl, j)', status[j] = "new"
      PROVE  status'[j] = "new"
  <2>1. CASE ~SubmitsProxy(f)
    <3>1. ~Submits(f)
      <4>1. status' = status \/ (\E x \in Jobs : status' = [status EXCEPT ![x] = "done"])
        BY <2>1 DEF Idles, Finishes, Drops
      <4>2. SUFFICES ASSUME Submits(f)
                     PROVE  FALSE
        OBVIOUS
      <4>3. PICK k \in Jobs : status' = [status EXCEPT ![k] = "queued"] /\ status[k] = "new"
        BY <1>0, <4>2, SubmitNew DEF Enqueues
      <4>4. status'[k] = "queued"
        BY <1>0, <4>3
      <4>5. QED
        BY <1>0, <4>1, <4>3, <4>4
    <3>2. QED
      BY <1>5, <2>1, <3>1, StatusKept
  <2>2. CASE SubmitsProxy(f)
    <3>1. PICK prio \in Prio, k \in Jobs, ctr \in Counters \cup {NoCounter} :
            /\ Enqueues(prio, k, ctr)
            /\ [in |-> "fiber", of |-> f, at |-> 1] \in Places
            /\ Asks([in |-> "fiber", of |-> f, at |-> 1], k)
      BY <1>0, <2>2, SubmitNew
    <3>2. ASSUME j = k
          PROVE  FALSE
      <4>1. pl = [in |-> "fiber", of |-> f, at |-> 1]
        BY <1>0, <1>4, <1>5, <3>1, <3>2 DEF Once
      <4>2. InFiber(f, 1, j)'
        BY <1>5, <4>1 DEF Asks
      <4>3. Phase(f)' = "proxied"
        BY <2>2, JobsAfter DEF SubmitsProxy
      <4>4. QED
        BY <4>2, <4>3 DEF InFiber
    <3>3. QED
      BY <1>0, <1>5, <3>1, <3>2 DEF Enqueues
  <2>3. QED
    BY <2>1, <2>2
<1>6. PICK came : came = [pl \in Places |-> pl]
  OBVIOUS
<1>7. \A j \in Jobs : \A pl \in Places : Asks(pl, j)' =>
        came[pl] \in Places /\ Asks(came[pl], j) /\ (status[j] = "new" => status'[j] = "new")
  <2>1. SUFFICES ASSUME NEW j \in Jobs, NEW pl \in Places, Asks(pl, j)'
                 PROVE  came[pl] \in Places /\ Asks(came[pl], j) /\ (status[j] = "new" => status'[j] = "new")
    OBVIOUS
  <2>2. came[pl] = pl
    BY <1>6
  <2>3. Asks(pl, j) /\ (status[j] = "new" => status'[j] = "new")
    BY <1>4, <1>5, <2>1
  <2>4. QED
    BY <2>2, <2>3
<1>8. \A j \in Jobs : \A pl, pm \in Places :
        Asks(pl, j)' /\ Asks(pm, j)' /\ came[pl] = came[pm] => pl = pm
  BY <1>6
<1>9. QED
  BY <1>0, <1>7, <1>8, OnceStep

\* where an operation is done with,
LEMMA OnceTail ==
  ASSUME TypeOK, FramesOK, JobInv, NEW f \in Fibers, Moves(f), ~SubmitsProxy(f),
         NEW phase, After(f, frame[f].job, Tail(Remaining(f)), phase),
         Remaining(f) # <<>>, Head(Remaining(f)).op # "erase", UNCHANGED entries
  PROVE  Once'
<1>0. Once /\ status \in [Jobs -> {"new", "queued", "started", "done"}]
  BY DEF JobInv, TypeOK
<1>1. Remaining(f)' = Tail(Remaining(f)) /\ Remaining(f) \in Seq(Op) /\ Head(Remaining(f)) = Remaining(f)[1]
  BY RemainingIs, TailPlaces DEF After
<1>2. PICK came : came = [pl \in Places |-> IF pl.in = "fiber" /\ pl.of = f
                                              THEN [in |-> "fiber", of |-> f, at |-> pl.at + 1] ELSE pl]
  OBVIOUS
<1>3. ASSUME NEW j \in Jobs, NEW pl \in Places, Asks(pl, j)'
      PROVE  /\ came[pl] \in Places /\ Asks(came[pl], j)
             /\ came[pl] # [in |-> "fiber", of |-> f, at |-> 1]
  <2>1. CASE pl.in = "fiber" /\ pl.of = f
    <3>1. InFiber(f, pl.at, j)'
      BY <1>3, <2>1 DEF Asks
    <3>2. pl.at \in Nat /\ pl.at >= 1 /\ InFiber(f, pl.at + 1, j)
      BY <1>1, <3>1, TailAsks
    <3>3. came[pl] = [in |-> "fiber", of |-> f, at |-> pl.at + 1]
      BY <1>2, <2>1
    <3>4. pl.at + 1 \in Nat /\ pl.at + 1 # 1
      BY <3>2
    <3>5. came[pl] \in Places /\ came[pl].at # 1
      BY <3>3, <3>4 DEF Places
    <3>6. QED
      BY <3>2, <3>3, <3>5 DEF Asks
  <2>2. CASE ~(pl.in = "fiber" /\ pl.of = f)
    <3>1. ASSUME NEW n, EraseAt(f, n)
          PROVE  EraseAt(f, n - 1)' /\ Remaining(f)'[n - 1] = Remaining(f)[n]
      <4>1. n # 1
        BY <1>1, <3>1 DEF EraseAt
      <4>2. QED
        BY <1>1, <3>1, <4>1, TailErases
    <3>2. ASSUME Stepping(pl.of)
          PROVE  Stepping(pl.of)'
      BY <3>1, <3>2, SteppingKept
    <3>3. Asks(pl, j)
      BY <1>3, <2>2, <3>2, StatusKept, OtherPlaces
    <3>4. came[pl] = pl
      BY <1>2, <2>2
    <3>5. QED
      BY <2>2, <3>3, <3>4
  <2>3. QED
    BY <2>1, <2>2
<1>4. ASSUME NEW j \in Jobs, NEW pl \in Places, Asks(pl, j)', status[j] = "new"
      PROVE  status'[j] = "new"
  <2>1. CASE ~Submits(f)
    BY <1>4, <2>1, StatusKept
  <2>2. CASE Submits(f)
    <3>1. PICK prio \in Prio, k \in Jobs, ctr \in Counters \cup {NoCounter} :
            /\ Enqueues(prio, k, ctr)
            /\ [in |-> "fiber", of |-> f, at |-> 1] \in Places
            /\ Asks([in |-> "fiber", of |-> f, at |-> 1], k)
      BY <1>0, <2>2, SubmitNew
    <3>2. j # k
      BY <1>0, <1>3, <1>4, <3>1 DEF Once
    <3>3. QED
      BY <1>0, <1>4, <3>1, <3>2 DEF Enqueues
  <2>3. QED
    BY <2>1, <2>2
<1>5. ASSUME NEW j \in Jobs, NEW pl \in Places, NEW pm \in Places,
             Asks(pl, j)', Asks(pm, j)', came[pl] = came[pm]
      PROVE  pl = pm
  <2>1. CASE (pl.in = "fiber" /\ pl.of = f) /\ (pm.in = "fiber" /\ pm.of = f)
    <3>1. pl.at + 1 = pm.at + 1 /\ pl.at \in Nat /\ pm.at \in Nat
      BY <1>2, <1>5, <2>1, PlaceKinds
    <3>2. QED
      BY <2>1, <3>1, PlaceKinds
  <2>2. CASE ~(pl.in = "fiber" /\ pl.of = f) \/ ~(pm.in = "fiber" /\ pm.of = f)
    <3>1. \A p \in Places : came[p].in = p.in /\ came[p].of = p.of
      BY <1>2
    <3>2. QED
      BY <1>2, <1>5, <2>2, <3>1
  <2>3. QED
    BY <2>1, <2>2
<1>6. QED
  BY <1>0, <1>3, <1>4, <1>5, OnceStep

\* where a job starts,
LEMMA OnceTakes ==
  ASSUME TypeOK, FramesOK, JobInv, NEW f \in Fibers, Moves(f), NEW p \in Prio, Takes(f, p)
  PROVE  Once'
<1>0. /\ Once /\ status \in [Jobs -> {"new", "queued", "started", "done"}]
      /\ program.body \in [Code -> Seq(Op)]
  BY BodyTypes DEF JobInv, TypeOK
<1>1. PICK x \in Jobs : x = Head(queue[p]) /\ status[x] = "queued"
  BY TakenQueued DEF Takes, JobInv
<1>2. /\ After(f, x, program.body[x], "on") /\ Remaining(f) = <<>>
      /\ UNCHANGED <<program, entries>>
      /\ status'[x] = "started"
      /\ Remaining(f)' = program.body[x]
  BY <1>0, <1>1, JobsAfter DEF Takes
<1>3. PICK came : came = [pl \in Places |-> IF pl.in = "fiber" /\ pl.of = f
                                              THEN [in |-> "body", of |-> x, at |-> pl.at] ELSE pl]
  OBVIOUS
<1>4. ASSUME NEW j \in Jobs, NEW pl \in Places, Asks(pl, j)'
      PROVE  /\ came[pl] \in Places /\ Asks(came[pl], j)
             /\ status[j] = "new" => status'[j] = "new"
             /\ pl # [in |-> "body", of |-> x, at |-> pl.at]
  <2>1. CASE pl.in = "fiber" /\ pl.of = f
    <3>1. InFiber(f, pl.at, j)'
      BY <1>4, <2>1 DEF Asks
    <3>2. pl.at \in DOMAIN program.body[x] /\ AsksFor(program.body[x][pl.at], j)
      BY <1>2, <3>1 DEF InFiber, AsksFor
    <3>3. InBody(x, pl.at, j)
      BY <1>1, <3>2 DEF InBody
    <3>4. came[pl] = [in |-> "body", of |-> x, at |-> pl.at] /\ pl.at \in Nat
      BY <1>3, <2>1, PlaceKinds
    <3>5. came[pl] \in Places
      BY <3>4 DEF Places
    <3>6. status[j] = "new" => status'[j] = "new"
      BY StatusKept DEF Takes, Submits, SubmitsProxy, Faces
    <3>7. QED
      BY <2>1, <3>3, <3>4, <3>5, <3>6 DEF Asks
  <2>2. CASE ~(pl.in = "fiber" /\ pl.of = f)
    <3>1. \A n : ~EraseAt(f, n)
      BY <1>2, EmptySeq DEF EraseAt
    <3>2. ASSUME Stepping(pl.of)
          PROVE  Stepping(pl.of)'
      BY <1>2, <3>1, <3>2, SteppingKept
    <3>3. Asks(pl, j)
      BY <1>2, <1>4, <2>2, <3>2, StatusKept, OtherPlaces
    <3>4. came[pl] = pl
      BY <1>3, <2>2
    <3>5. status[j] = "new" => status'[j] = "new"
      BY StatusKept DEF Takes, Submits, SubmitsProxy, Faces
    <3>6. pl # [in |-> "body", of |-> x, at |-> pl.at]
      BY <1>2, <1>4 DEF Asks, InBody
    <3>7. QED
      BY <3>3, <3>4, <3>5, <3>6
  <2>3. QED
    BY <2>1, <2>2
<1>5. ASSUME NEW j \in Jobs, NEW pl \in Places, NEW pm \in Places,
             Asks(pl, j)', Asks(pm, j)', came[pl] = came[pm]
      PROVE  pl = pm
  <2>1. CASE (pl.in = "fiber" /\ pl.of = f) /\ (pm.in = "fiber" /\ pm.of = f)
    <3>1. pl.at = pm.at
      BY <1>3, <1>5, <2>1
    <3>2. QED
      BY <2>1, <3>1, PlaceKinds
  <2>2. CASE ~(pl.in = "fiber" /\ pl.of = f) /\ ~(pm.in = "fiber" /\ pm.of = f)
    BY <1>3, <1>5, <2>2
  <2>3. CASE (pl.in = "fiber" /\ pl.of = f) /\ ~(pm.in = "fiber" /\ pm.of = f)
    <3>1. pm = [in |-> "body", of |-> x, at |-> pl.at]
      BY <1>3, <1>5, <2>3
    <3>2. QED
      BY <1>4, <1>5, <3>1
  <2>4. CASE ~(pl.in = "fiber" /\ pl.of = f) /\ (pm.in = "fiber" /\ pm.of = f)
    <3>1. pl = [in |-> "body", of |-> x, at |-> pm.at]
      BY <1>3, <1>5, <2>4
    <3>2. QED
      BY <1>4, <1>5, <3>1
  <2>5. QED
    BY <2>1, <2>2, <2>3, <2>4
<1>6. QED
  BY <1>0, <1>4, <1>5, OnceStep

\* where a Step of a Queue begins,
LEMMA OnceUnfolds ==
  ASSUME TypeOK, FramesOK, JobInv, NEW f \in Fibers, Moves(f), Unfolds(f)
  PROVE  Once'
<1>0. /\ Once /\ Shape /\ OneRun /\ QueuesOwned(program.body)
      /\ status \in [Jobs -> {"new", "queued", "started", "done"}]
      /\ entries \in [Counters -> Seq(Entry)]
  BY BodyTypes DEF JobInv, TypeOK
<1>1. /\ Faces(f, {"step", "execute"}) /\ Faces(f, OnQueue) /\ Phase(f) = "on"
      /\ After(f, frame[f].job, Unfold(Remaining(f), entries[Head(Remaining(f)).ctr]), "on")
      /\ Remaining(f)' = Unfold(Remaining(f), entries[Head(Remaining(f)).ctr])
      /\ UNCHANGED <<program, entries, status>>
  BY JobsAfter DEF Unfolds, Faces, OnQueue
<1>2. PICK r \in Seq(Op) : r = Remaining(f)
  BY RemainingIs
<1>3. /\ r # <<>> /\ Head(r).op \in {"step", "execute"} /\ Head(r) = r[1] /\ 1 \in DOMAIN r
      /\ Head(r) \in Op
  BY <1>1, <1>2, FacesTypes
<1>4. PICK c \in Counters : c = Head(r).ctr
  BY <1>3, OpTypes
<1>5. PICK es \in Seq(Entry) : es = entries[c]
  BY <1>0
<1>6. CASE es = <<>>
  <2>1. Unfold(Remaining(f), entries[Head(Remaining(f)).ctr]) = Tail(Remaining(f))
    BY <1>2, <1>4, <1>5, <1>6 DEF Unfold
  <2>2. /\ After(f, frame[f].job, Tail(Remaining(f)), "on")
        /\ Remaining(f) # <<>> /\ Head(Remaining(f)).op # "erase"
        /\ ~SubmitsProxy(f)
    BY <1>1, <1>2, <1>3, <2>1 DEF SubmitsProxy, Faces
  <2>3. QED
    BY <1>1, <2>2, OnceTail
<1>7. CASE es # <<>>
  <2>1. \A k : ~EraseAt(f, k)
    BY <1>0, <1>1, NoStepYet DEF EraseAt
  <2>2. Owns(frame[f].job, c)
    <3>1. ShapeOf(f, 1)
      BY <1>0, <1>2, <1>3 DEF Shape
    <3>2. QED
      BY <1>2, <1>3, <1>4, <3>1 DEF ShapeOf, OnQueue
  <2>3. ~Stepping(c)
    <3>1. SUFFICES ASSUME NEW g \in Fibers, NEW n \in DOMAIN Remaining(g),
                          EraseAt(g, n), Remaining(g)[n].ctr = c
                   PROVE  FALSE
      BY DEF Stepping
    <3>2. g = f
      BY <1>0, <2>2, <3>1, OwnErase
    <3>3. QED
      BY <2>1, <3>1, <3>2
  <2>4. PICK d \in {2, 3} : d = IF Head(r).op = "execute" THEN 3 ELSE 2
    OBVIOUS
  <2>5. PICK u \in Seq(Op) :
          /\ u = Remaining(f)'
          /\ u[1] = Schedule(Head(es).prio, Head(es).job, c)
          /\ u[2] = Wait(c, 0)
          /\ u[3] = [op |-> "erase", ctr |-> c]
          /\ {1, 2, 3} \subseteq DOMAIN u
          /\ \A k \in DOMAIN u :
               /\ k \in Nat /\ k >= 1
               /\ k > 3 => k - d \in Nat /\ k - d \in DOMAIN r /\ u[k] = r[k - d]
    <3>1. PICK v \in Seq(Op) : v = Unfold(r, es)
      BY <1>3, UnfoldTypes
    <3>2. /\ v[1] = Schedule(Head(es).prio, Head(es).job, Head(r).ctr)
          /\ v[2] = Wait(Head(r).ctr, 0)
          /\ v[3] = [op |-> "erase", ctr |-> Head(r).ctr]
          /\ {1, 2, 3} \subseteq DOMAIN v
          /\ \A k \in DOMAIN v :
               /\ k \in Nat /\ k >= 1
               /\ k > 3 => LET b == IF Head(r).op = "execute" THEN k - 3 ELSE k - 2 IN
                             b \in Nat /\ b \in DOMAIN r /\ v[k] = r[b]
      BY <1>3, <1>7, <3>1, UnfoldPlaces, Zenon
    <3>3. v = Remaining(f)'
      BY <1>1, <1>2, <1>4, <1>5, <3>1
    <3>4. ASSUME NEW k \in DOMAIN v, k > 3
          PROVE  k - d \in Nat /\ k - d \in DOMAIN r /\ v[k] = r[k - d]
      BY <2>4, <3>2, <3>4
    <3>5. QED
      BY <1>4, <3>1, <3>2, <3>3, <3>4
  <2>6. /\ \A j : AsksFor(u[1], j) => j = Head(es).job
        /\ \A j : ~AsksFor(u[2], j) /\ ~AsksFor(u[3], j)
        /\ u[3].op = "erase" /\ u[3].ctr = c
    <3>1. u[1] \in Op /\ u[2] \in Op /\ u[3] \in Op
      BY <2>5, LenProperties, ElementOfSeq
    <3>2. u[1].op = "schedule" /\ u[1].job = Head(es).job /\ u[2].op = "wait" /\ u[3].op = "erase"
          /\ u[3].ctr = c
      BY <2>5 DEF Schedule, Wait
    <3>3. QED
      BY <3>1, <3>2, AsksWhat
  <2>7. Stepping(c)'
    <3>1. EraseAt(f, 3)'
      BY <2>5, <2>6 DEF EraseAt
    <3>2. QED
      BY <2>5, <2>6, <3>1 DEF Stepping
  <2>8. PICK came : came = [pl \in Places |->
          IF pl.in = "fiber" /\ pl.of = f
            THEN IF pl.at = 1 THEN [in |-> "entries", of |-> c, at |-> 1]
                              ELSE [in |-> "fiber", of |-> f, at |-> pl.at - d]
            ELSE pl]
    OBVIOUS
  <2>9. ASSUME NEW j \in Jobs, NEW pl \in Places, Asks(pl, j)', pl.in = "fiber" /\ pl.of = f
        PROVE  /\ came[pl] \in Places /\ Asks(came[pl], j)
               /\ pl.at \in Nat
               /\ pl.at # 1 => came[pl] = [in |-> "fiber", of |-> f, at |-> pl.at - d]
               /\ pl.at = 1 => came[pl] = [in |-> "entries", of |-> c, at |-> 1]
    <3>1. InFiber(f, pl.at, j)'
      BY <2>9 DEF Asks
    <3>2. pl.at \in DOMAIN u /\ AsksFor(u[pl.at], j) /\ pl.at \in Nat
      BY <2>5, <2>9, <3>1, PlaceKinds DEF InFiber, AsksFor
    <3>3. CASE pl.at = 1
      <4>1. came[pl] = [in |-> "entries", of |-> c, at |-> 1]
        BY <2>8, <2>9, <3>3
      <4>2. j = Head(es).job
        BY <2>6, <3>2, <3>3
      <4>3. 1 \in DOMAIN es /\ es[1].job = j
        BY <1>7, <4>2, TailPlaces
      <4>4. InEntries(c, 1, j)
        BY <1>5, <2>3, <4>3 DEF InEntries
      <4>5. came[pl] \in Places
        BY <4>1 DEF Places
      <4>6. QED
        BY <3>2, <3>3, <4>1, <4>4, <4>5 DEF Asks
    <3>4. CASE pl.at # 1
      <4>1. came[pl] = [in |-> "fiber", of |-> f, at |-> pl.at - d]
        BY <2>8, <2>9, <3>4
      <4>2. pl.at > 3
        <5>1. pl.at # 2 /\ pl.at # 3 /\ pl.at >= 1
          BY <2>5, <2>6, <3>2
        <5>2. QED
          BY <3>2, <3>4, <5>1
      <4>3. pl.at - d \in Nat /\ pl.at - d \in DOMAIN r /\ AsksFor(r[pl.at - d], j)
        BY <2>5, <3>2, <4>2
      <4>4. InFiber(f, pl.at - d, j)
        BY <1>1, <1>2, <4>3 DEF InFiber
      <4>5. came[pl] \in Places
        BY <4>1, <4>3 DEF Places
      <4>6. QED
        BY <3>2, <3>4, <4>1, <4>4, <4>5 DEF Asks
    <3>5. QED
      BY <3>3, <3>4
  <2>10. ASSUME NEW j \in Jobs, NEW pl \in Places, Asks(pl, j)', ~(pl.in = "fiber" /\ pl.of = f)
         PROVE  /\ came[pl] = pl /\ Asks(pl, j)
                /\ pl # [in |-> "entries", of |-> c, at |-> 1]
    <3>1. ASSUME Stepping(pl.of)
          PROVE  Stepping(pl.of)'
      BY <1>1, <2>1, <3>1, SteppingKept
    <3>2. Asks(pl, j)
      BY <1>1, <2>10, <3>1, OtherPlaces
    <3>3. pl # [in |-> "entries", of |-> c, at |-> 1]
      BY <2>7, <2>10 DEF Asks, InEntries
    <3>4. QED
      BY <2>8, <2>10, <3>2, <3>3
  <2>11. ASSUME NEW j \in Jobs, NEW pl \in Places, Asks(pl, j)'
         PROVE  /\ came[pl] \in Places /\ Asks(came[pl], j)
                /\ status[j] = "new" => status'[j] = "new"
    BY <1>1, <2>9, <2>10, <2>11
  <2>12. ASSUME NEW j \in Jobs, NEW pl \in Places, NEW pm \in Places,
                Asks(pl, j)', Asks(pm, j)', came[pl] = came[pm]
         PROVE  pl = pm
    <3>1. CASE (pl.in = "fiber" /\ pl.of = f) /\ (pm.in = "fiber" /\ pm.of = f)
      <4>1. pl.at = pm.at
        <5>1. CASE pl.at = 1 /\ pm.at = 1
          BY <5>1
        <5>2. CASE pl.at # 1 /\ pm.at # 1
          <6>1. came[pl].at = pl.at - d /\ came[pm].at = pm.at - d /\ pl.at \in Nat /\ pm.at \in Nat
            BY <2>8, <2>12, <3>1, <5>2, PlaceKinds
          <6>2. QED
            BY <2>12, <6>1
        <5>3. CASE (pl.at = 1 /\ pm.at # 1) \/ (pl.at # 1 /\ pm.at = 1)
          <6>1. came[pl].in # came[pm].in
            BY <2>8, <2>12, <3>1, <5>3
          <6>2. QED
            BY <2>12, <6>1
        <5>4. QED
          BY <5>1, <5>2, <5>3
      <4>2. QED
        BY <3>1, <4>1, PlaceKinds
    <3>2. CASE ~(pl.in = "fiber" /\ pl.of = f) /\ ~(pm.in = "fiber" /\ pm.of = f)
      BY <2>10, <2>12, <3>2
    <3>3. ASSUME NEW p \in Places, NEW q \in Places, Asks(p, j)', Asks(q, j)', came[p] = came[q],
                 p.in = "fiber" /\ p.of = f, ~(q.in = "fiber" /\ q.of = f)
          PROVE  FALSE
      <4>1. came[q] = q /\ q # [in |-> "entries", of |-> c, at |-> 1]
        BY <2>10, <3>3
      <4>2. p.at # 1
        BY <2>9, <3>3, <4>1
      <4>3. came[p].in = "fiber" /\ came[p].of = f
        BY <2>8, <3>3, <4>2
      <4>4. QED
        BY <3>3, <4>1, <4>3
    <3>4. QED
      BY <2>12, <3>1, <3>2, <3>3
  <2>13. QED
    BY <1>0, <2>11, <2>12, OnceStep
<1>8. QED
  BY <1>6, <1>7

\* and where the vector of a Queue changes.
LEMMA OnceAdds ==
  ASSUME TypeOK, FramesOK, JobInv, NEW f \in Fibers, Moves(f), Changes(f),
         Head(Remaining(f)).op = "add"
  PROVE  Once'
<1>0. /\ Once /\ Shape /\ entries \in [Counters -> Seq(Entry)]
  BY DEF JobInv, TypeOK
<1>1. /\ Faces(f, OnQueue) /\ Faces(f, {"add", "erase"}) /\ Phase(f) = "on"
      /\ After(f, frame[f].job, Tail(Remaining(f)), "on")
      /\ Remaining(f)' = Tail(Remaining(f))
      /\ entries' = [entries EXCEPT ![Head(Remaining(f)).ctr] = Changed(Head(Remaining(f)), @)]
      /\ UNCHANGED <<program, status>>
  BY JobsAfter DEF Changes, Faces, OnQueue
<1>2. PICK r \in Seq(Op) : r = Remaining(f)
  BY RemainingIs
<1>3. /\ r # <<>> /\ Head(r).op = "add" /\ Head(r) = r[1] /\ 1 \in DOMAIN r
      /\ Head(r) \in Op
  BY <1>1, <1>2, FacesTypes
<1>4. PICK c \in Counters, e \in Entry : c = Head(r).ctr /\ e = Head(r).entry
  BY <1>3, OpTypes
<1>5. PICK es \in Seq(Entry) : es = entries[c]
  BY <1>0
<1>6. /\ entries'[c] = Append(es, e)
      /\ \A d \in Counters : d # c => entries'[d] = entries[d]
  BY <1>0, <1>1, <1>2, <1>3, <1>4, <1>5 DEF Changed
<1>7. /\ Len(es) \in Nat /\ DOMAIN es = 1 .. Len(es)
      /\ \A i \in DOMAIN Append(es, e) :
           /\ i \in Nat
           /\ \/ i \in DOMAIN es /\ Append(es, e)[i] = es[i]
              \/ i = Len(es) + 1 /\ Append(es, e)[i] = e
  BY AppendPlaces
<1>8. \A n : ~EraseAt(f, n)
  BY <1>0, <1>1, NoStepYet DEF EraseAt
<1>9. ASSUME NEW d, Stepping(d)
      PROVE  Stepping(d)'
  BY <1>1, <1>8, <1>9, SteppingKept
<1>10. PICK new : new = [in |-> "entries", of |-> c, at |-> Len(es) + 1]
  OBVIOUS
<1>11. PICK came : came = [pl \in Places |->
         IF pl.in = "fiber" /\ pl.of = f
           THEN [in |-> "fiber", of |-> f, at |-> pl.at + 1]
           ELSE IF pl = new THEN [in |-> "fiber", of |-> f, at |-> 1] ELSE pl]
  OBVIOUS
<1>12. ASSUME NEW j \in Jobs, NEW pl \in Places, Asks(pl, j)'
       PROVE  /\ came[pl] \in Places /\ Asks(came[pl], j)
              /\ pl.in = "fiber" /\ pl.of = f => pl.at \in Nat /\ pl.at + 1 # 1
  <2>1. CASE pl.in = "fiber" /\ pl.of = f
    <3>1. InFiber(f, pl.at, j)'
      BY <1>12, <2>1 DEF Asks
    <3>2. pl.at \in Nat /\ pl.at >= 1 /\ InFiber(f, pl.at + 1, j)
      BY <1>1, <1>2, <1>3, <3>1, TailAsks
    <3>3. came[pl] = [in |-> "fiber", of |-> f, at |-> pl.at + 1]
      BY <1>11, <2>1
    <3>4. pl.at + 1 \in Nat /\ pl.at + 1 # 1
      BY <3>2
    <3>5. came[pl] \in Places
      BY <3>3, <3>4 DEF Places
    <3>6. QED
      BY <3>2, <3>3, <3>4, <3>5 DEF Asks
  <2>2. CASE pl = new
    <3>1. InEntries(c, Len(es) + 1, j)'
      BY <1>10, <1>12, <2>2 DEF Asks
    <3>2. e.job = j
      <4>1. Len(es) + 1 \in DOMAIN Append(es, e) /\ Append(es, e)[Len(es) + 1].job = j
        BY <1>6, <3>1 DEF InEntries
      <4>2. Len(es) + 1 \notin DOMAIN es
        BY <1>7
      <4>3. QED
        BY <1>7, <4>1, <4>2
    <3>3. AsksFor(r[1], j)
      BY <1>3, <1>4, <3>2, AsksWhat
    <3>4. InFiber(f, 1, j)
      BY <1>1, <1>2, <1>3, <3>3 DEF InFiber
    <3>5. came[pl] = [in |-> "fiber", of |-> f, at |-> 1]
      BY <1>10, <1>11, <2>2
    <3>6. came[pl] \in Places
      BY <3>5 DEF Places
    <3>7. pl.in # "fiber"
      BY <1>10, <2>2
    <3>8. QED
      BY <3>4, <3>5, <3>6, <3>7 DEF Asks
  <2>3. CASE pl.in = "entries" /\ pl.of = c /\ pl # new
    <3>1. InEntries(c, pl.at, j)'
      BY <1>12, <2>3 DEF Asks
    <3>2. pl.at # Len(es) + 1
      BY <1>10, <2>3, PlaceKinds
    <3>3. pl.at \in DOMAIN es /\ Append(es, e)[pl.at] = es[pl.at]
      <4>1. pl.at \in DOMAIN Append(es, e)
        BY <1>6, <3>1 DEF InEntries
      <4>2. QED
        BY <1>7, <3>2, <4>1
    <3>4. InEntries(c, pl.at, j)
      BY <1>5, <1>6, <1>9, <3>1, <3>3 DEF InEntries
    <3>5. came[pl] = pl
      BY <1>11, <2>3
    <3>6. QED
      BY <2>3, <3>4, <3>5 DEF Asks
  <2>4. CASE ~(pl.in = "fiber" /\ pl.of = f) /\ ~(pl.in = "entries" /\ pl.of = c)
    <3>1. pl # new
      BY <1>10, <2>4
    <3>2. came[pl] = pl
      BY <1>11, <2>4, <3>1
    <3>3. pl.in = "entries" => entries'[pl.of] = entries[pl.of]
      BY <1>6, <2>4, PlaceKinds
    <3>4. Asks(pl, j)
      BY <1>1, <1>9, <1>12, <2>4, <3>3, OtherPlaces
    <3>5. QED
      BY <2>4, <3>2, <3>4
  <2>5. QED
    BY <2>1, <2>2, <2>3, <2>4
<1>13. ASSUME NEW j \in Jobs, NEW pl \in Places, NEW pm \in Places,
              Asks(pl, j)', Asks(pm, j)', came[pl] = came[pm]
       PROVE  pl = pm
  <2>1. CASE (pl.in = "fiber" /\ pl.of = f) /\ (pm.in = "fiber" /\ pm.of = f)
    <3>1. came[pl].at = pl.at + 1 /\ came[pm].at = pm.at + 1 /\ pl.at \in Nat /\ pm.at \in Nat
      BY <1>11, <2>1, PlaceKinds
    <3>2. pl.at = pm.at
      BY <1>13, <3>1
    <3>3. QED
      BY <2>1, <3>2, PlaceKinds
  <2>2. CASE ~(pl.in = "fiber" /\ pl.of = f) /\ ~(pm.in = "fiber" /\ pm.of = f)
    <3>1. \A p \in Places : ~(p.in = "fiber" /\ p.of = f) =>
            came[p] = IF p = new THEN [in |-> "fiber", of |-> f, at |-> 1] ELSE p
      BY <1>11
    <3>2. QED
      BY <1>13, <2>2, <3>1
  <2>3. ASSUME NEW p \in Places, NEW q \in Places, Asks(p, j)', came[p] = came[q],
               p.in = "fiber" /\ p.of = f, ~(q.in = "fiber" /\ q.of = f)
        PROVE  FALSE
    <3>1. came[p] = [in |-> "fiber", of |-> f, at |-> p.at + 1] /\ p.at + 1 # 1
      BY <1>11, <1>12, <2>3
    <3>2. came[q] = IF q = new THEN [in |-> "fiber", of |-> f, at |-> 1] ELSE q
      BY <1>11, <2>3
    <3>3. came[p].in = "fiber" /\ came[p].of = f /\ came[p].at # 1
      BY <3>1
    <3>4. QED
      BY <2>3, <3>2, <3>3
  <2>4. QED
    BY <1>13, <2>1, <2>2, <2>3
<1>14. QED
  BY <1>0, <1>1, <1>12, <1>13, OnceStep

\* where an entry is erased,
LEMMA OnceErases ==
  ASSUME TypeOK, FramesOK, JobInv, NEW f \in Fibers, Moves(f), Changes(f),
         Head(Remaining(f)).op = "erase"
  PROVE  Once'
<1>0. /\ Once /\ Shape /\ entries \in [Counters -> Seq(Entry)]
  BY DEF JobInv, TypeOK
<1>1. /\ Faces(f, {"add", "erase"}) /\ Phase(f) = "on"
      /\ After(f, frame[f].job, Tail(Remaining(f)), "on")
      /\ Remaining(f)' = Tail(Remaining(f))
      /\ entries' = [entries EXCEPT ![Head(Remaining(f)).ctr] = Changed(Head(Remaining(f)), @)]
      /\ UNCHANGED <<program, status>>
  BY JobsAfter DEF Changes
<1>2. PICK r \in Seq(Op) : r = Remaining(f)
  BY RemainingIs
<1>3. /\ r # <<>> /\ Head(r).op = "erase" /\ Head(r) = r[1] /\ 1 \in DOMAIN r
      /\ Head(r) \in Op
  BY <1>1, <1>2, FacesTypes
<1>4. PICK c \in Counters : c = Head(r).ctr
  BY <1>3, OpTypes
<1>5. PICK es \in Seq(Entry) : es = entries[c]
  BY <1>0
<1>6. /\ entries'[c] = Tail(es)
      /\ \A d \in Counters : d # c => entries'[d] = entries[d]
  BY <1>0, <1>1, <1>2, <1>3, <1>4, <1>5 DEF Changed
<1>7. EraseAt(f, 1) /\ ShapeOf(f, 1)
  BY <1>0, <1>2, <1>3 DEF EraseAt, Shape
<1>8. /\ es # <<>>
      /\ \A n : EraseAt(f, n) => n = 1
  BY <1>2, <1>3, <1>4, <1>5, <1>7 DEF ShapeOf, EraseAt
<1>9. ASSUME NEW d, Stepping(d), d # c
      PROVE  Stepping(d)'
  <2>1. \A n : ~(EraseAt(f, n) /\ Remaining(f)[n].ctr = d)
    BY <1>2, <1>3, <1>4, <1>8, <1>9
  <2>2. QED
    BY <1>1, <1>9, <2>1, SteppingKept
<1>10. PICK came : came = [pl \in Places |->
         IF (pl.in = "fiber" /\ pl.of = f) \/ (pl.in = "entries" /\ pl.of = c)
           THEN [in |-> pl.in, of |-> pl.of, at |-> pl.at + 1] ELSE pl]
  OBVIOUS
<1>11. ASSUME NEW j \in Jobs, NEW pl \in Places, Asks(pl, j)'
       PROVE  came[pl] \in Places /\ Asks(came[pl], j)
  <2>1. CASE pl.in = "fiber" /\ pl.of = f
    <3>1. InFiber(f, pl.at, j)'
      BY <1>11, <2>1 DEF Asks
    <3>2. pl.at \in Nat /\ pl.at >= 1 /\ InFiber(f, pl.at + 1, j)
      BY <1>1, <1>2, <1>3, <3>1, TailAsks
    <3>3. came[pl] = [in |-> "fiber", of |-> f, at |-> pl.at + 1]
      BY <1>10, <2>1
    <3>4. came[pl] \in Places
      BY <3>2, <3>3 DEF Places
    <3>5. QED
      BY <3>2, <3>3, <3>4 DEF Asks
  <2>2. CASE pl.in = "entries" /\ pl.of = c
    <3>1. InEntries(c, pl.at, j)'
      BY <1>11, <2>2 DEF Asks
    <3>2. pl.at \in DOMAIN Tail(es) /\ Tail(es)[pl.at].job = j
      BY <1>6, <3>1 DEF InEntries
    <3>3. pl.at \in Nat /\ pl.at >= 1 /\ pl.at + 1 \in DOMAIN es /\ es[pl.at + 1].job = j
      BY <1>8, <3>2, TailPlaces
    <3>4. pl.at + 1 # 1 /\ pl.at + 1 \in Nat
      BY <3>3
    <3>5. InEntries(c, pl.at + 1, j)
      BY <1>5, <3>3, <3>4 DEF InEntries
    <3>6. came[pl] = [in |-> "entries", of |-> c, at |-> pl.at + 1]
      BY <1>10, <2>2
    <3>7. came[pl] \in Places
      BY <3>4, <3>6 DEF Places
    <3>8. QED
      BY <3>5, <3>6, <3>7 DEF Asks
  <2>3. CASE ~(pl.in = "fiber" /\ pl.of = f) /\ ~(pl.in = "entries" /\ pl.of = c)
    <3>1. came[pl] = pl
      BY <1>10, <2>3
    <3>2. pl.in = "entries" => /\ entries'[pl.of] = entries[pl.of]
                               /\ Stepping(pl.of) => Stepping(pl.of)'
      BY <1>6, <1>9, <2>3, PlaceKinds
    <3>3. Asks(pl, j)
      BY <1>1, <1>11, <2>3, <3>2, OtherPlaces
    <3>4. QED
      BY <3>1, <3>3
  <2>4. QED
    BY <2>1, <2>2, <2>3
<1>12. ASSUME NEW pl \in Places, NEW pm \in Places, came[pl] = came[pm]
       PROVE  pl = pm
  <2>1. pl.at \in Nat /\ pm.at \in Nat
    BY PlaceKinds
  <2>2. /\ came[pl].in = pl.in /\ came[pl].of = pl.of
        /\ came[pm].in = pm.in /\ came[pm].of = pm.of
        /\ came[pl].at = IF (pl.in = "fiber" /\ pl.of = f) \/ (pl.in = "entries" /\ pl.of = c)
                           THEN pl.at + 1 ELSE pl.at
        /\ came[pm].at = IF (pm.in = "fiber" /\ pm.of = f) \/ (pm.in = "entries" /\ pm.of = c)
                           THEN pm.at + 1 ELSE pm.at
    BY <1>10
  <2>3. pl.in = pm.in /\ pl.of = pm.of
    BY <1>12, <2>2
  <2>4. pl.at = pm.at
    BY <1>12, <2>1, <2>2, <2>3
  <2>5. QED
    BY <2>3, <2>4, PlaceKinds
<1>13. QED
  BY <1>0, <1>1, <1>11, <1>12, OnceStep

\* So every move keeps the invariant of the jobs.
LEMMA JobInvStep ==
  ASSUME TypeOK, FramesOK, JobInv, NEW f \in Fibers, Moves(f)
  PROVE  JobInv'
<1>1. OneRun' /\ RunStatus' /\ InQueue' /\ Shape'
  BY OneRunStep, RunStatusStep, InQueueStep, ShapeStep
<1>2. CASE Passes(f) \/ Submits(f)
  <2>1. /\ After(f, frame[f].job, Tail(Remaining(f)), "on") /\ UNCHANGED entries
        /\ Faces(f, Waits \cup {"new", "notify", "shutdown", "schedule"})
    BY <1>2 DEF Passes, Submits, Enqueues, Faces
  <2>2. Remaining(f) # <<>> /\ Head(Remaining(f)).op # "erase"
    BY <2>1 DEF Faces, Waits
  <2>3. ~SubmitsProxy(f)
    <3>1. SUFFICES ASSUME SubmitsProxy(f)
                   PROVE  FALSE
      OBVIOUS
    <3>2. Phase(f)' = "on" /\ Phase(f)' = "proxied"
      BY <1>2, <3>1, JobsAfter DEF Passes, Submits, SubmitsProxy
    <3>3. QED
      BY <3>2
  <2>4. QED
    BY <1>1, <2>1, <2>2, <2>3, OnceTail DEF JobInv
<1>3. CASE Changes(f)
  <2>1. Head(Remaining(f)).op \in {"add", "erase"}
    BY <1>3 DEF Changes, Faces
  <2>2. QED
    BY <1>1, <1>3, <2>1, OnceAdds, OnceErases DEF JobInv
<1>4. QED
  BY <1>1, <1>2, <1>3, OnceStays, OnceTakes, OnceUnfolds DEF Moves, JobInv

----------------------------------------------------------------------------
(* Types.                                                                  *)

\* The types of what the program sees,
LEMMA ProgramTypes ==
  ASSUME TypeOK, FramesOK, JobInv, NEW f \in Fibers, Moves(f)
  PROVE  /\ program' \in Programs
         /\ queue' \in [Prio -> Seq(Jobs)]
         /\ jobCounter' \in [Jobs -> Counters \cup {NoCounter}]
         /\ entries' \in [Counters -> Seq(Entry)]
         /\ status' \in [Jobs -> {"new", "queued", "started", "done"}]
<1>0. /\ program \in Programs
      /\ queue \in [Prio -> Seq(Jobs)]
      /\ jobCounter \in [Jobs -> Counters \cup {NoCounter}]
      /\ entries \in [Counters -> Seq(Entry)]
      /\ status \in [Jobs -> {"new", "queued", "started", "done"}]
      /\ Once /\ Shape /\ InQueue
  BY DEF TypeOK, JobInv
<1>1. CASE Idles(f) \/ Passes(f) \/ Unfolds(f) \/ Drops(f)
  BY <1>0, <1>1 DEF Idles, Passes, Unfolds, Drops
<1>2. CASE Submits(f) \/ SubmitsProxy(f)
  <2>1. PICK prio \in Prio, job \in Jobs, ctr \in Counters \cup {NoCounter} : Enqueues(prio, job, ctr)
    BY <1>0, <1>2, SubmitNew
  <2>2. PICK s \in Seq(Jobs) : s = Append(queue[prio], job)
    <3>1. queue[prio] \in Seq(Jobs)
      BY <1>0
    <3>2. QED
      BY <3>1, AppendProperties
  <2>3. queue' = [queue EXCEPT ![prio] = s]
    BY <2>1, <2>2 DEF Enqueues
  <2>4. QED
    BY <1>0, <2>1, <2>3 DEF Enqueues
<1>3. CASE Changes(f)
  <2>1. /\ Faces(f, {"add", "erase"})
        /\ entries' = [entries EXCEPT ![Head(Remaining(f)).ctr] = Changed(Head(Remaining(f)), @)]
        /\ UNCHANGED <<program, queue, jobCounter, status>>
    BY <1>3 DEF Changes
  <2>2. PICK op \in Op : /\ op = Head(Remaining(f)) /\ op = Remaining(f)[1] /\ 1 \in DOMAIN Remaining(f)
                         /\ op.op \in {"add", "erase"}
    BY <2>1, FacesTypes
  <2>3. PICK c \in Counters : c = op.ctr
    BY <2>2, OpTypes
  <2>4. op.op = "erase" => entries[c] # <<>>
    <3>1. ShapeOf(f, 1)
      BY <1>0, <2>2 DEF Shape
    <3>2. QED
      BY <2>2, <2>3, <3>1 DEF ShapeOf
  <2>5. entries[c] \in Seq(Entry)
    BY <1>0
  <2>6. PICK s \in Seq(Entry) : s = Changed(op, entries[c])
    BY <2>2, <2>4, <2>5, ChangedTypes
  <2>7. entries' = [entries EXCEPT ![c] = s]
    BY <2>1, <2>2, <2>3, <2>6
  <2>8. QED
    BY <1>0, <2>1, <2>7
<1>4. ASSUME NEW p \in Prio, Takes(f, p)
      PROVE  /\ program' = program /\ jobCounter' = jobCounter /\ entries' = entries
             /\ queue' \in [Prio -> Seq(Jobs)]
             /\ status' \in [Jobs -> {"new", "queued", "started", "done"}]
  <2>1. queue[p] \in Seq(Jobs) /\ queue[p] # <<>>
    BY <1>0, <1>4 DEF Takes
  <2>2. PICK s \in Seq(Jobs) : s = Tail(queue[p])
    BY <2>1, HeadTailProperties
  <2>3. queue' = [queue EXCEPT ![p] = s]
    BY <1>4, <2>2 DEF Takes
  <2>4. QED
    BY <1>0, <1>4, <2>3 DEF Takes
<1>5. CASE Finishes(f)
  BY <1>0, <1>5 DEF Finishes
<1>6. QED
  BY <1>0, <1>1, <1>2, <1>3, <1>4, <1>5 DEF Moves

\* and the flags.
LEMMA FlagTypes ==
  ASSUME TypeOK, NEW t \in Threads, NEW f \in Fibers, FiberStep(t, f)
  PROVE  shuttingDown' \in BOOLEAN /\ failed' \in BOOLEAN
<1>0. shuttingDown \in BOOLEAN /\ failed \in BOOLEAN
  BY DEF TypeOK
<1>1. CASE \/ CleanupStore(t, f) \/ CleanupClear(t, f)
           \/ Loop(t, f) \/ DequeueIO(t, f) \/ DequeueHigh(t, f) \/ ScanReady(t, f)
           \/ SwitchToReady(t, f) \/ DequeueNormal(t, f) \/ DequeueLow(t, f)
  BY <1>0, <1>1 DEF CleanupStore, CleanupClear, Loop, DequeueIO, DequeueHigh, ScanReady,
     SwitchToReady, DequeueNormal, DequeueLow, Dequeue, programVars
<1>2. CASE \/ ScheduleCount(t, f) \/ ScheduleUncounted(t, f) \/ ScheduleJob(t, f)
           \/ WaitNot(t, f) \/ WaitForCounter(t, f) \/ WaitDone(t, f) \/ WaitThrows(t, f)
           \/ WaitLeaves(t, f) \/ WaitSwitches(t, f)
  BY <1>0, <1>2 DEF ScheduleCount, ScheduleUncounted, ScheduleJob, WaitNot, WaitForCounter,
     WaitDone, WaitThrows, WaitLeaves, WaitSwitches, programVars
<1>3. CASE \/ BlockingWaits(t, f) \/ LookAgain(t, f) \/ CvWait(t, f) \/ Notify(t, f) \/ CvReturns(t, f)
           \/ NewCounter(t, f) \/ ChangeQueue(t, f) \/ QueueSteps(t, f)
  BY <1>0, <1>3 DEF BlockingWaits, LookAgain, CvWait, Notify, CvReturns, NewCounter, ChangeQueue,
     QueueSteps, programVars
<1>4. CASE \/ Shutdown(t, f) \/ ShutdownJoins(t, f)
           \/ Finish(t, f) \/ Executed(t, f) \/ MainEnds(t, f) \/ MainLeaves(t, f)
           \/ Ready(t, f) \/ InCounter(t, f)
  BY <1>0, <1>4 DEF Shutdown, ShutdownJoins, Finish, Executed, MainEnds, MainLeaves, Ready,
     InCounter, programVars, schedVars
<1>5. QED
  BY <1>1, <1>2, <1>3, <1>4 DEF FiberStep

\* What a step that is not a fiber's leaves alone.
LEMMA JobsSame ==
  ASSUME JobInv, UNCHANGED <<fpc, frame, program, queue, jobCounter, entries, status>>
  PROVE  JobInv'
<1>1. \A g \in Fibers : /\ Remaining(g)' = Remaining(g) /\ Phase(g)' = Phase(g)
                         /\ frame'[g].job = frame[g].job
  BY DEF Remaining, Phase
<1>2. \A g \in Fibers : \A i : EraseAt(g, i)' <=> EraseAt(g, i)
  BY <1>1 DEF EraseAt
<1>3. OneRun' /\ RunStatus' /\ InQueue'
  BY <1>1 DEF JobInv, OneRun, RunStatus, InQueue
<1>4. ASSUME NEW g \in Fibers, NEW i \in DOMAIN Remaining(g)'
      PROVE  ShapeOf(g, i)'
  BY <1>1, <1>4, ShapeKept DEF JobInv
<1>5. \A c : Stepping(c)' <=> Stepping(c)
  BY <1>1, <1>2 DEF Stepping
<1>6. \A g \in Fibers : \A i, j : InFiber(g, i, j)' <=> InFiber(g, i, j)
  BY <1>1 DEF InFiber, AsksFor
<1>7. \A c, i, j : InEntries(c, i, j)' <=> InEntries(c, i, j)
  BY <1>5 DEF InEntries
<1>8. \A x, i, j : InBody(x, i, j)' <=> InBody(x, i, j)
  BY DEF InBody
<1>9. \A pl \in Places : \A j : Asks(pl, j)' <=> Asks(pl, j)
  <2>1. SUFFICES ASSUME NEW pl \in Places, NEW j
                 PROVE  Asks(pl, j)' <=> Asks(pl, j)
    OBVIOUS
  <2>2. pl.in = "fiber" => (InFiber(pl.of, pl.at, j)' <=> InFiber(pl.of, pl.at, j))
    BY <1>6, PlaceKinds
  <2>3. /\ InEntries(pl.of, pl.at, j)' <=> InEntries(pl.of, pl.at, j)
        /\ InBody(pl.of, pl.at, j)' <=> InBody(pl.of, pl.at, j)
    BY <1>7, <1>8
  <2>4. QED
    BY <2>2, <2>3 DEF Asks
<1>10. Once'
  BY <1>9 DEF JobInv, Once
<1>11. QED
  BY <1>3, <1>4, <1>10 DEF JobInv, Shape

SchedInv == TypeInv /\ JobInv

\* The steps of the threads: a step of a fiber,
LEMMA FiberInv ==
  ASSUME SchedInv, NEW t \in Threads, NEW f \in Fibers, running[t] = f, FiberStep(t, f)
  PROVE  SchedInv'
<1>0. TypeInv /\ JobInv /\ TypeOK /\ FramesOK
  BY DEF SchedInv, TypeInv, TypeOK, FramesOK
<1>1. CounterTypeOK' /\ Named'
  BY <1>0, StepCounterTypes
<1>2. FramesOK'
  BY <1>0, FrameTypes
<1>3. Moves(f)
  BY <1>0, StepMoves
<1>4. JobInv'
  BY <1>0, <1>3, JobInvStep
<1>5. /\ program' \in Programs
      /\ queue' \in [Prio -> Seq(Jobs)]
      /\ jobCounter' \in [Jobs -> Counters \cup {NoCounter}]
      /\ entries' \in [Counters -> Seq(Entry)]
      /\ status' \in [Jobs -> {"new", "queued", "started", "done"}]
  BY <1>0, <1>3, ProgramTypes
<1>6. /\ idle' \in [Fibers -> BOOLEAN]
      /\ tls' \in [Threads -> TLS]
      /\ stored' \in [Fibers -> {"none", "no", "yes"}]
      /\ running' \in [Threads -> Fibers \cup {NoFiber}]
      /\ home' \in [Fibers -> Threads \cup {NoThread}]
      /\ tpc' \in [Threads -> ThreadPC]
      /\ probe' \in [Threads -> Fibers]
      /\ KnowsFiber'
  BY <1>0, ThreadTypes
<1>7. shuttingDown' \in BOOLEAN /\ failed' \in BOOLEAN
  BY <1>0, FlagTypes
<1>8. TypeOK'
  BY <1>1, <1>2, <1>5, <1>6, <1>7 DEF TypeOK, FramesOK
<1>9. QED
  BY <1>1, <1>2, <1>4, <1>6, <1>8 DEF SchedInv, TypeInv, FramesOK

\* a thread that starts,
LEMMA StartInv ==
  ASSUME SchedInv, NEW t \in Threads, StartThread(t)
  PROVE  SchedInv'
<1>0. TypeOK /\ KnowsFiber /\ InJob /\ Named /\ JobInv
  BY DEF SchedInv, TypeInv
<1>1. FindFreeFiber(t) /\ UNCHANGED <<counterVars, fiberVars, programVars>>
  BY DEF StartThread
<1>2. tpc' \in [Threads -> ThreadPC]
  BY <1>0 DEF TypeOK, StartThread, ThreadPC
<1>3. TypeOK'
  BY <1>0, <1>1, <1>2, FindTypes DEF TypeOK, CounterTypeOK, counterVars, slotVars, fiberVars, programVars
<1>4. InJob' /\ Named'
  BY <1>0, <1>1 DEF InJob, Named, counterVars, slotVars, fiberVars
<1>5. JobInv'
  BY <1>0, <1>1, JobsSame DEF fiberVars, programVars
<1>6. QED
  BY <1>0, <1>1, <1>3, <1>4, <1>5, FindTypes DEF SchedInv, TypeInv

\* Run that returns,
LEMMA RunInv ==
  ASSUME SchedInv, NEW t \in Threads, Run(t)
  PROVE  SchedInv'
<1>0. TypeOK /\ KnowsFiber /\ InJob /\ Named /\ JobInv
  BY DEF SchedInv, TypeInv
<1>1. UNCHANGED <<counterVars, idle, tls, running, home, probe, fiberVars, programVars>>
      /\ tpc' \in [Threads -> ThreadPC]
  BY <1>0 DEF Run, TypeOK, ThreadPC
<1>2. TypeOK'
  BY <1>0, <1>1 DEF TypeOK, CounterTypeOK, counterVars, slotVars, fiberVars, programVars
<1>3. InJob' /\ Named' /\ KnowsFiber'
  BY <1>0, <1>1 DEF InJob, Named, KnowsFiber, counterVars, slotVars, fiberVars
<1>4. JobInv'
  BY <1>0, <1>1, JobsSame DEF fiberVars, programVars
<1>5. QED
  BY <1>2, <1>3, <1>4 DEF SchedInv, TypeInv

\* and nothing at all.
LEMMA StutterInv ==
  ASSUME SchedInv, UNCHANGED vars
  PROVE  SchedInv'
<1>0. TypeOK /\ KnowsFiber /\ InJob /\ Named /\ JobInv
  BY DEF SchedInv, TypeInv
<1>1. UNCHANGED <<counterVars, threadVars, fiberVars, programVars>>
  BY DEF vars, schedVars
<1>2. TypeOK'
  BY <1>0, <1>1 DEF TypeOK, CounterTypeOK, counterVars, slotVars, fiberVars, programVars, threadVars
<1>3. InJob' /\ Named' /\ KnowsFiber'
  BY <1>0, <1>1 DEF InJob, Named, KnowsFiber, counterVars, slotVars, fiberVars, threadVars
<1>4. JobInv'
  BY <1>0, <1>1, JobsSame DEF fiberVars, programVars
<1>5. QED
  BY <1>2, <1>3, <1>4 DEF SchedInv, TypeInv

\* Every step keeps the invariant,
LEMMA NextInv ==
  ASSUME SchedInv, [Next]_vars
  PROVE  SchedInv'
<1>1. ASSUME NEW t \in Threads, ThreadStep(t)
      PROVE  SchedInv'
  <2>1. CASE running[t] # NoFiber /\ FiberStep(t, running[t])
    <3>1. PICK f \in Fibers : running[t] = f
      BY <2>1 DEF SchedInv, TypeInv, TypeOK
    <3>2. QED
      BY <2>1, <3>1, FiberInv
  <2>2. QED
    BY <1>1, <2>1, StartInv, RunInv DEF ThreadStep
<1>2. QED
  BY <1>1, StutterInv DEF Next, Terminated

\* Main has a fiber at the start, and each thread one of its own or none.
LEMMA FirstOnes ==
  ASSUME Init
  PROVE  /\ running \in [Threads -> Fibers \cup {NoFiber}] /\ running[MainThread] \in Fibers
         /\ MainThread \in Threads
         /\ \A f \in Fibers : ~idle[f] => \E t \in Threads : running[t] = f
         /\ \A t, u \in Threads : running[t] = running[u] => t = u \/ running[t] = NoFiber
<1>1. /\ NumFibers \in Nat \ {0} /\ Fibers = 0 .. NumFibers - 1 /\ NumThreads \in Nat
      /\ NoFiber \notin Fibers
  BY SchedulerAssumption, CounterAssumption
<1>2. MainThread \in Threads
  BY <1>1 DEF MainThread, Threads
<1>3. PICK first \in FirstFibers(program.threads) : running = first
  BY DEF Init
<1>4. /\ first \in [Threads -> Fibers \cup {NoFiber}] /\ first[MainThread] # NoFiber
      /\ \A f \in 0 .. first[MainThread] : \E t \in program.threads : first[t] = f
      /\ \A t, u \in Threads : first[t] = first[u] => t = u \/ first[t] = NoFiber
  BY <1>3 DEF FirstFibers
<1>5. PICK m \in Fibers : m = first[MainThread]
  BY <1>2, <1>4
<1>6. program.threads \subseteq Threads
  BY SchedulerAssumption DEF Init, ProgramType
<1>7. idle = [f \in Fibers |-> f > m]
  BY <1>3, <1>5 DEF Init
<1>8. ASSUME NEW f \in Fibers, ~idle[f]
      PROVE  f \in 0 .. m
  <2>1. ~(f > m)
    BY <1>7, <1>8
  <2>2. QED
    BY <1>1, <1>5, <2>1
<1>9. QED
  BY <1>2, <1>3, <1>4, <1>5, <1>6, <1>8

\* and it holds at the start: the types,
LEMMA InitTypes ==
  ASSUME Init
  PROVE  TypeInv
<1>0. /\ CounterInit /\ program \in Programs
      /\ queue   = [p \in Prio |-> <<>>]
      /\ jobCounter = [j \in Jobs |-> NoCounter]
      /\ entries = [c \in Counters |-> <<>>]
      /\ shuttingDown = FALSE /\ failed = FALSE
      /\ status = [j \in Jobs |-> "new"]
      /\ stored  = [f \in Fibers |-> "none"]
      /\ probe   = [t \in Threads |-> 0]
      /\ running \in [Threads -> Fibers \cup {NoFiber}] /\ running[MainThread] \in Fibers
      /\ tls = [t \in Threads |->
                  [cur |-> running[t], prev |-> NoFiber, dest |-> "none", ready |-> <<>>]]
  BY FirstOnes DEF Init
<1>1. /\ program.body[MainJob] \in Seq(Op) /\ MainJob \in Code /\ 0 \in Fibers
      /\ NoFiber \notin Fibers /\ MainThread \in Threads
  <2>1. ProgramType(program)
    BY <1>0, SchedulerAssumption
  <2>2. NumFibers \in Nat \ {0} /\ Fibers = 0 .. NumFibers - 1 /\ NumThreads \in Nat
    BY SchedulerAssumption
  <2>3. 0 \in Fibers /\ MainThread \in Threads
    BY <2>2 DEF MainThread, Threads
  <2>4. QED
    BY <1>0, <2>1, <2>3, CounterAssumption DEF ProgramType, Code
<1>2. tls \in [Threads -> TLS]
  <2>1. <<>> \in Seq(Fibers)
    BY EmptySeq
  <2>2. QED
    BY <1>0, <2>1 DEF TLS
<1>3. idle \in [Fibers -> BOOLEAN] /\ tpc \in [Threads -> ThreadPC]
  <2>1. PICK m \in Fibers : m = running[MainThread]
    BY <1>0
  <2>2. m \in Int /\ Fibers \subseteq Int
    BY SchedulerAssumption
  <2>3. idle \in [Fibers -> BOOLEAN]
    BY <2>1, <2>2 DEF Init
  <2>4. tpc \in [Threads -> ThreadPC]
    BY DEF Init, ThreadPC
  <2>5. QED
    BY <2>3, <2>4
<1>4. home \in [Fibers -> Threads \cup {NoThread}]
  <2>1. ASSUME NEW f \in Fibers, ~idle[f]
        PROVE  (CHOOSE t \in Threads : running[t] = f) \in Threads
    BY <2>1, FirstOnes
  <2>2. QED
    BY <2>1 DEF Init
<1>5. PICK main \in Fibers : main = running[MainThread]
  BY <1>0
<1>6. /\ fpc = [f \in Fibers |-> IF f = main THEN "body" ELSE "fresh"]
      /\ frame = [f \in Fibers |->
                   [job |-> IF f = main THEN MainJob ELSE NoJob,
                    op |-> NoOp,
                    rest |-> IF f = main THEN program.body[MainJob] ELSE <<>>,
                    tls |-> MainThread, scan |-> 0]]
  BY <1>5 DEF Init
<1>7. fpc \in [Fibers -> FiberPC] /\ frame \in [Fibers -> Frame]
  <2>1. ASSUME NEW f \in Fibers
        PROVE  frame[f] \in Frame
    <3>1. <<>> \in Seq(Op)
      BY EmptySeq
    <3>2. QED
      BY <1>1, <1>6, <3>1 DEF Frame
  <2>2. QED
    BY <1>6, <2>1 DEF FiberPC
<1>8. InJob
  BY <1>1, <1>6 DEF InJob, JobAt, OpAt, Within, Executing, NoOp
<1>9. \A t \in Threads : running[t] = tls[t].cur /\ tls[t].cur \in Fibers \cup {NoFiber}
  BY <1>0, <1>2 DEF TLS
<1>10. running \in [Threads -> Fibers \cup {NoFiber}] /\ KnowsFiber
  BY <1>0, <1>9 DEF KnowsFiber
<1>11. Named
  BY <1>0 DEF CounterInit, Named
<1>12. CounterTypeOK
  BY <1>0, CounterInitType
<1>13. TypeOK
  <2>1. queue \in [Prio -> Seq(Jobs)] /\ entries \in [Counters -> Seq(Entry)]
    <3>1. <<>> \in Seq(Jobs) /\ <<>> \in Seq(Entry)
      BY EmptySeq
    <3>2. QED
      BY <1>0, <3>1
  <2>2. QED
    BY <1>0, <1>1, <1>2, <1>3, <1>4, <1>7, <1>10, <1>12, <2>1 DEF TypeOK
<1>14. QED
  BY <1>8, <1>10, <1>11, <1>13 DEF TypeInv

\* and the jobs.
LEMMA InitJobs ==
  ASSUME Init
  PROVE  JobInv
<1>0. /\ queue   = [p \in Prio |-> <<>>]
      /\ entries = [c \in Counters |-> <<>>]
      /\ status = [j \in Jobs |-> "new"]
      /\ TypeInv /\ TypeOK /\ FramesOK
  BY InitTypes DEF Init, TypeInv, TypeOK, FramesOK
<1>1. /\ program.body \in [Code -> Seq(Op)] /\ MainJob \in Code /\ MainJob \notin Jobs
      /\ NoJob \notin Code /\ ScheduledOnce(program.body) /\ QueuesOwned(program.body)
  BY <1>0, BodyTypes, SchedulerAssumption DEF Code
<1>2. PICK main : main = running[MainThread]
  OBVIOUS
<1>3. \A f \in Fibers :
        /\ frame[f].job = IF f = main THEN MainJob ELSE NoJob
        /\ frame[f].op = NoOp
        /\ frame[f].rest = IF f = main THEN program.body[MainJob] ELSE <<>>
        /\ fpc[f] # "end" /\ fpc[f] \notin {"cvEnter", "cvWait", "cvWoken"}
  BY <1>2 DEF Init
<1>4. \A f \in Fibers : Remaining(f) = IF f = main THEN program.body[MainJob] ELSE <<>>
  BY <1>0, <1>3, RemainingIs
<1>5. OneRun /\ RunStatus
  BY <1>1, <1>3 DEF OneRun, RunStatus, Code
<1>6. InQueue
  BY <1>0, EmptySeq DEF InQueue
<1>7. \A f \in Fibers : \A i \in DOMAIN Remaining(f) :
        f = main /\ i \in DOMAIN program.body[MainJob] /\ Remaining(f)[i] = program.body[MainJob][i]
  BY <1>4, EmptySeq
<1>8. Shape
  <2>1. SUFFICES ASSUME NEW f \in Fibers, NEW i \in DOMAIN Remaining(f)
                 PROVE  ShapeOf(f, i)
    BY DEF Shape
  <2>2. PICK b \in Seq(Op) : b = program.body[MainJob]
    BY <1>1
  <2>3. frame[f].job = MainJob /\ i \in DOMAIN b /\ Remaining(f)[i] = b[i]
    BY <1>3, <1>7, <2>1, <2>2
  <2>4. b[i].op # "erase"
    BY <1>1, <2>2, <2>3 DEF QueuesOwned
  <2>5. b[i].op \in OnQueue => Owns(MainJob, b[i].ctr)
    BY <1>1, <2>2, <2>3 DEF Owns
  <2>6. QED
    BY <2>3, <2>4, <2>5 DEF ShapeOf
<1>9. Once
  <2>1. ASSUME NEW pl \in Places, NEW j, Asks(pl, j)
        PROVE  \E x \in Code : /\ x = IF pl.in = "fiber" THEN MainJob ELSE pl.of
                               /\ pl.at \in DOMAIN program.body[x] /\ AsksFor(program.body[x][pl.at], j)
                               /\ pl.in = "fiber" => pl.of = main
                               /\ pl.in # "fiber" => pl.of \in Jobs /\ pl.in = "body"
    <3>1. CASE pl.in = "fiber"
      <4>1. InFiber(pl.of, pl.at, j) /\ pl.of \in Fibers
        BY <2>1, <3>1, PlaceKinds DEF Asks
      <4>2. /\ pl.at \in DOMAIN Remaining(pl.of) /\ AsksFor(Remaining(pl.of)[pl.at], j)
        BY <4>1 DEF InFiber
      <4>3. pl.of = main /\ pl.at \in DOMAIN program.body[MainJob]
            /\ AsksFor(program.body[MainJob][pl.at], j)
        BY <1>7, <4>1, <4>2
      <4>4. QED
        BY <1>1, <3>1, <4>3
    <3>2. CASE pl.in = "entries"
      <4>1. pl.of \in Counters /\ pl.at \in DOMAIN entries[pl.of]
        BY <2>1, <3>2, PlaceKinds DEF Asks, InEntries
      <4>2. QED
        BY <1>0, <4>1, EmptySeq
    <3>3. CASE pl.in = "body"
      <4>1. pl.of \in Jobs /\ InBody(pl.of, pl.at, j)
        BY <2>1, <3>3, PlaceKinds DEF Asks
      <4>2. QED
        BY <3>3, <4>1 DEF InBody, Code
    <3>4. QED
      BY <3>1, <3>2, <3>3, PlaceKinds
  <2>2. ASSUME NEW j, NEW pl \in Places, NEW pm \in Places, Asks(pl, j), Asks(pm, j)
        PROVE  pl = pm
    <3>1. PICK x \in Code : /\ x = IF pl.in = "fiber" THEN MainJob ELSE pl.of
                            /\ pl.at \in DOMAIN program.body[x] /\ AsksFor(program.body[x][pl.at], j)
                            /\ pl.in = "fiber" => pl.of = main
                            /\ pl.in # "fiber" => pl.of \in Jobs /\ pl.in = "body"
      BY <2>1, <2>2
    <3>2. PICK y \in Code : /\ y = IF pm.in = "fiber" THEN MainJob ELSE pm.of
                            /\ pm.at \in DOMAIN program.body[y] /\ AsksFor(program.body[y][pm.at], j)
                            /\ pm.in = "fiber" => pm.of = main
                            /\ pm.in # "fiber" => pm.of \in Jobs /\ pm.in = "body"
      BY <2>1, <2>2
    <3>3. x = y /\ pl.at = pm.at
      <4>1. PICK i \in DOMAIN program.body[x], k \in DOMAIN program.body[y] : i = pl.at /\ k = pm.at
        BY <3>1, <3>2
      <4>2. PICK r \in Submission(program.body[x][i]), s \in Submission(program.body[y][k]) :
              r.job = j /\ s.job = j
        BY <3>1, <3>2, <4>1 DEF AsksFor
      <4>3. QED
        BY <1>1, <4>1, <4>2 DEF ScheduledOnce
    <3>4. pl.in = pm.in /\ pl.of = pm.of
      BY <1>1, <3>1, <3>2, <3>3
    <3>5. QED
      BY <3>3, <3>4, PlaceKinds
  <2>3. QED
    BY <1>0, <2>2 DEF Once
<1>10. QED
  BY <1>5, <1>6, <1>8, <1>9 DEF JobInv

\* ManagerJobs.cpp:16-98, JobInfo::Execute, Queue.cpp: a job is on one fiber at most
\* and in one queue at most, is taken once, and is asked for in one place until
\* somebody submits it.
THEOREM SchedulerInvariant == Spec => []SchedInv
<1>1. Init => SchedInv
  BY InitTypes, InitJobs DEF SchedInv
<1>2. SchedInv /\ [Next]_vars => SchedInv'
  BY NextInv
<1>3. QED
  BY <1>1, <1>2, PTL DEF Spec

\* Scheduler.TypeOK, with all of Manager*.cpp: whatever the programs and however many
\* threads, fibers, slots and places in the queues, every variable keeps its type:
\* no step reads the front of an empty queue or vector, the TLS of no thread, or the
\* fiber of an empty slot.
THEOREM TypeCorrect == Spec => []TypeOK
<1>1. SchedInv => TypeOK
  BY DEF SchedInv, TypeInv
<1>2. QED
  BY <1>1, SchedulerInvariant, PTL
==============================================================================

-------------------------- MODULE CounterUseProofs ---------------------------
(***************************************************************************)
(* What holds of fibers using counters for any number of fibers, counters  *)
(* and slots, any scripts, and any number of values of Unit_t.             *)
(***************************************************************************)
EXTENDS CounterUse, BaseCounterProofs

\* The operation that starts next has the type of its name.
LEMMA HeadTypes ==
  ASSUME TypeOK, NEW f \in Fibers, todo[f] # <<>>
  PROVE  /\ Head(todo[f]) \in Op
         /\ Head(todo[f]).ctr \in Counters
         /\ Head(todo[f]).op \in {"increment", "decrement"} => Head(todo[f]).by \in Unit
         /\ Head(todo[f]).op = "wait" => Head(todo[f]).target \in Unit
         /\ Tail(todo[f]) \in Seq(Op)
<1>1. todo[f] \in Seq(Op)
  BY DEF TypeOK
<1>2. Head(todo[f]) \in Op /\ Tail(todo[f]) \in Seq(Op)
  BY <1>1
<1>3. QED
  BY <1>2 DEF Op

\* A step of a fiber is a step of its call on a counter, or leaves them alone.
LEMMA StepUsesCounter ==
  ASSUME TypeOK, NEW f \in Fibers, Step(f)
  PROVE  CounterNext(f) \/ UNCHANGED counterVars
<1>1. CASE Schedule(f) \/ Finish(f)
  <2>1. Head(todo[f]).ctr \in Counters
    BY <1>1, HeadTypes DEF Schedule, Finish, Start
  <2>2. QED
    BY <1>1, <2>1 DEF Schedule, Finish, CounterNext
<1>2. CASE Change(f)
  <2>1. Head(todo[f]).ctr \in Counters /\ Head(todo[f]).by \in Nat
    BY <1>2, HeadTypes, CounterAssumption DEF Change, Start, Unit
  <2>2. QED
    BY <1>2, <2>1 DEF Change, CounterNext
<1>3. CASE Wait(f)
  <2>1. Head(todo[f]).ctr \in Counters /\ Head(todo[f]).target \in Unit
    BY <1>3, HeadTypes DEF Wait, Start
  <2>2. QED
    BY <1>3, <2>1 DEF Wait, CounterNext
<1>4. CASE WaitDone(f) \/ WaitThrows(f) \/ Park(f)
  BY <1>4 DEF WaitDone, WaitThrows, Park, CounterNext, At, slotVars
<1>5. CASE Take(f) \/ InCounter(f)
  BY <1>5 DEF Take, InCounter, CounterNext
<1>6. CASE Enqueue(f) \/ Submit(f) \/ Finished(f) \/ WaitNot(f) \/ Resume(f)
  BY <1>6 DEF Enqueue, Submit, Finished, WaitNot, Resume
<1>7. QED
  BY <1>1, <1>2, <1>3, <1>4, <1>5, <1>6 DEF Step

\* So a step of the system keeps what every step of a call keeps.
LEMMA NextCounterType ==
  ASSUME TypeOK, [Next]_vars
  PROVE  CounterTypeOK'
<1>1. CounterTypeOK
  BY DEF TypeOK
<1>2. CASE UNCHANGED counterVars
  BY <1>1, <1>2 DEF CounterTypeOK, counterVars
<1>3. ASSUME NEW f \in Fibers, Step(f)
      PROVE  CounterTypeOK'
  BY <1>1, <1>2, <1>3, StepUsesCounter, CounterNextType
<1>4. QED
  BY <1>2, <1>3 DEF Next, Terminated, vars

\* Every step of a fiber keeps SlotInv.
LEMMA NextSlots ==
  ASSUME TypeOK, SlotInv, [Next]_vars
  PROVE  SlotInv'
<1>1. CounterTypeOK
  BY DEF TypeOK
<1>2. CASE UNCHANGED counterVars
  BY <1>2 DEF counterVars, SlotInv, SlotExclusive, NoSlotLeak, PublishedIsClaimed, Holds, Slot
<1>3. ASSUME NEW f \in Fibers, Step(f)
      PROVE  SlotInv'
  BY <1>1, <1>2, <1>3, StepUsesCounter, CounterNextSlots
<1>4. QED
  BY <1>2, <1>3 DEF Next, Terminated, vars

\* Every variable keeps its type: no value leaves Unit_t, no index its array,
\* and the fiber put in a slot is one of the pool.
THEOREM TypeCorrect == Spec => []TypeOK
<1>1. ASSUME Init
      PROVE  TypeOK
  <2>1. CounterTypeOK
    BY <1>1, CounterInitType DEF Init
  <2>2. QED
    BY <1>1, <2>1, ScriptAssumption DEF Init, TypeOK
<1>2. ASSUME TypeOK, [Next]_vars
      PROVE  TypeOK'
  <2>1. CounterTypeOK'
    BY <1>2, NextCounterType
  <2>2. CASE UNCHANGED vars
    BY <1>2, <2>1, <2>2 DEF TypeOK, vars, useVars
  <2>3. ASSUME NEW f \in Fibers, Step(f), Observe
        PROVE  TypeOK'
    <3>0. reached' \in [Fibers -> BOOLEAN] /\ script' = script
      BY <2>3 DEF Observe
    <3> USE <1>2, <2>1, <2>3, <3>0 DEF TypeOK, useVars, Start, Begin, End
    <3>1. CASE Schedule(f)
      BY <3>1, HeadTypes DEF Schedule
    <3>2. CASE Enqueue(f)
      <4>1. doing[f] \in Op /\ doing[f].ctr \in Counters
        BY <3>2 DEF Enqueue, Doing, Op, NoOp
      <4>2. QED
        BY <3>2, <4>1 DEF Enqueue
    <3>3. CASE Submit(f)
      BY <3>3, HeadTypes DEF Submit
    <3>4. CASE Change(f)
      BY <3>4, HeadTypes DEF Change
    <3>5. CASE Finish(f)
      BY <3>5, HeadTypes DEF Finish
    <3>6. CASE Finished(f)
      BY <3>6 DEF Finished
    <3>7. CASE WaitNot(f)
      BY <3>7, HeadTypes DEF WaitNot
    <3>8. CASE Wait(f)
      BY <3>8, HeadTypes DEF Wait
    <3>9. CASE WaitDone(f)
      BY <3>9 DEF WaitDone
    <3>10. CASE WaitThrows(f)
      BY <3>10 DEF WaitThrows
    <3>11. CASE Park(f)
      BY <3>11 DEF Park
    <3>12. CASE Resume(f)
      BY <3>12 DEF Resume
    <3>13. CASE Take(f)
      <4>1. ready' \in [Fibers -> Nat]
        <5>1. ready' = [ready EXCEPT ![Handed(f)] = @ + 1] /\ ready \in [Fibers -> Nat]
          BY <3>13 DEF Take
        <5>2. SUFFICES ASSUME NEW g \in Fibers
                       PROVE  ready'[g] \in Nat
          BY <5>1
        <5>3. ready[g] \in Nat /\ ready'[g] = IF g = Handed(f) THEN ready[g] + 1 ELSE ready[g]
          BY <5>1
        <5>4. QED
          BY <5>3
      <4>2. QED
        BY <3>13, <4>1 DEF Take
    <3>14. CASE InCounter(f)
      BY <3>14 DEF InCounter
    <3>15. QED
      BY <3>1, <3>2, <3>3, <3>4, <3>5, <3>6, <3>7, <3>8, <3>9, <3>10, <3>11, <3>12, <3>13, <3>14
         DEF Step
  <2>4. QED
    BY <1>2, <2>2, <2>3 DEF Next, Terminated
<1>3. QED
  BY <1>1, <1>2, PTL DEF Spec

\* Whatever the fibers do with their counters, a slot goes through free,
\* claimed, published, taken and free again, in the hands of one call at a time
\* where it is in any, and none is lost on the way.
THEOREM SlotLife == Spec => [](SlotExclusive /\ NoSlotLeak /\ PublishedIsClaimed)
<1>1. Init => SlotInv
  BY CounterInitSlots DEF Init
<1>2. TypeOK /\ SlotInv /\ [Next]_vars => SlotInv'
  BY NextSlots
<1>3. SlotInv => SlotExclusive /\ NoSlotLeak /\ PublishedIsClaimed
  BY DEF SlotInv
<1>4. QED
  BY <1>1, <1>2, <1>3, TypeCorrect, PTL DEF Spec

\* In particular no slot is lost,
COROLLARY SlotsReturn == Spec => []NoSlotLeak
<1>1. SlotExclusive /\ NoSlotLeak /\ PublishedIsClaimed => NoSlotLeak
  OBVIOUS
<1>2. QED
  BY <1>1, SlotLife, PTL

\* and every registration that can be taken names a fiber.
COROLLARY RegistrationsName == Spec => []PublishedIsClaimed
<1>1. SlotExclusive /\ NoSlotLeak /\ PublishedIsClaimed => PublishedIsClaimed
  OBVIOUS
<1>2. QED
  BY <1>1, SlotLife, PTL

----------------------------------------------------------------------------
(* Scripts in which every wait is alone on its counter: no waiter is lost, *)
(* and none is woken twice, for any number of fibers, counters and slots.  *)

\* The call of f on the way from its registration to the end of the wait, and in
\* all of AddWaitingFiber.
Registering == {"addLoad", "addInUse", "addTarget", "addAcquire", "pending"}
Adding == Registering \cup {"addTake", "addStore", "addRelease", "added", "full"}

\* f has published a registration and has not learned yet what became of it.
Out(f) == f \in parked \/ call[f].pc \in Registering

Registered(f, s) == ~inUse[s] /\ fiberIndex[s] = f

\* What a fiber has to do, and the wait it is in, are in its script.
InScript ==
  \A f \in Fibers :
    /\ \A i \in DOMAIN todo[f] : \E k \in DOMAIN script[f] : todo[f][i] = script[f][k]
    /\ Doing(f, "wait") => \E k \in WaitsOf(f) : doing[f] = script[f][k]

\* A fiber in AddWaitingFiber, or asleep, is in a wait for that counter.
InCall ==
  \A f \in Fibers :
    /\ call[f].pc \in Adding => Doing(f, "wait") /\ call[f].ctr = doing[f].ctr
    /\ call[f].pc \in {"addTake", "addStore"} => call[f].fiber = f
    /\ f \in parked => Doing(f, "wait") /\ At(f, "idle")

\* A registration is in one slot or has become one entry of a ready list, and
\* its fiber waits for it.
OneRegistration ==
  /\ \A s \in Slots : ~inUse[s] =>
       /\ Out(fiberIndex[s])
       /\ doing[fiberIndex[s]].ctr = s[1]
       /\ ready[fiberIndex[s]] = 0
  /\ \A r, s \in Slots : ~inUse[r] /\ ~inUse[s] /\ fiberIndex[r] = fiberIndex[s] => r = s
  /\ \A f \in Fibers : ready[f] > 0 => ready[f] = 1 /\ Out(f)
  /\ \A f \in Fibers : Out(f) => ready[f] > 0 \/ \E s \in Slots : Registered(f, s)

\* No two fibers wait for one counter.
Alone ==
  \A f, g \in Fibers :
    Doing(f, "wait") /\ Doing(g, "wait") /\ doing[f].ctr = doing[g].ctr => f = g

----------------------------------------------------------------------------
\* The waits of a script that are alone are never under way together.
LEMMA WaitsAreAlone ==
  ASSUME InScript, WaitsAlone
  PROVE  Alone
BY DEF InScript, WaitsAlone, Alone

\* The first operation of what is left to do is one of the script, as are those
\* after it.
LEMMA HeadInScript ==
  ASSUME TypeOK, InScript, NEW f \in Fibers, todo[f] # <<>>
  PROVE  /\ \E k \in DOMAIN script[f] : Head(todo[f]) = script[f][k]
         /\ \A i \in DOMAIN Tail(todo[f]) :
              \E k \in DOMAIN script[f] : Tail(todo[f])[i] = script[f][k]
<1>1. todo[f] \in Seq(Op)
  BY DEF TypeOK
<1>2. 1 \in DOMAIN todo[f] /\ Head(todo[f]) = todo[f][1]
  BY <1>1
<1>3. \A i \in DOMAIN Tail(todo[f]) :
        i + 1 \in DOMAIN todo[f] /\ Tail(todo[f])[i] = todo[f][i + 1]
  BY <1>1
<1>4. QED
  BY <1>2, <1>3 DEF InScript

\* A step of f that begins an operation, or ends one, stays in the script.
LEMMA StepInScript ==
  ASSUME TypeOK, InScript, NEW f \in Fibers,
         script' = script,
         \/ todo' = todo
         \/ todo[f] # <<>> /\ todo' = [todo EXCEPT ![f] = Tail(@)]
         \/ todo' = [todo EXCEPT ![f] = <<>>],
         \/ doing' = doing
         \/ doing' = [doing EXCEPT ![f] = NoOp]
         \/ todo[f] # <<>> /\ doing' = [doing EXCEPT ![f] = Head(todo[f])]
  PROVE  InScript'
<1>1. todo \in [Fibers -> Seq(Op)] /\ doing \in [Fibers -> Op \cup {NoOp}]
  BY DEF TypeOK
<1> SUFFICES ASSUME NEW g \in Fibers
             PROVE  /\ \A i \in DOMAIN todo'[g] :
                         \E k \in DOMAIN script[g] : todo'[g][i] = script[g][k]
                    /\ doing'[g].op = "wait" => \E k \in WaitsOf(g) : doing'[g] = script[g][k]
  BY DEF InScript, Doing, WaitsOf
<1>2. /\ \A i \in DOMAIN todo[g] : \E k \in DOMAIN script[g] : todo[g][i] = script[g][k]
      /\ doing[g].op = "wait" => \E k \in WaitsOf(g) : doing[g] = script[g][k]
  BY DEF InScript, Doing
<1>3. ASSUME NEW i \in DOMAIN todo'[g]
      PROVE  \E k \in DOMAIN script[g] : todo'[g][i] = script[g][k]
  <2>1. CASE todo' = todo
    BY <1>2, <1>3, <2>1
  <2>2. CASE todo[f] # <<>> /\ todo' = [todo EXCEPT ![f] = Tail(@)]
    BY <1>1, <1>2, <1>3, <2>2, HeadInScript
  <2>3. CASE todo' = [todo EXCEPT ![f] = <<>>]
    BY <1>1, <1>2, <1>3, <2>3
  <2>4. QED
    BY <2>1, <2>2, <2>3
<1>4. ASSUME doing'[g].op = "wait"
      PROVE  \E k \in WaitsOf(g) : doing'[g] = script[g][k]
  <2>1. CASE doing'[g] = doing[g]
    BY <1>2, <1>4, <2>1
  <2>2. CASE doing' = [doing EXCEPT ![f] = NoOp]
    BY <1>1, <1>2, <1>4, <2>2 DEF NoOp
  <2>3. CASE todo[f] # <<>> /\ doing' = [doing EXCEPT ![f] = Head(todo[f])] /\ g = f
    BY <1>1, <1>4, <2>3, HeadInScript DEF WaitsOf
  <2>4. QED
    BY <1>1, <2>1, <2>2, <2>3
<1>5. QED
  BY <1>3, <1>4

----------------------------------------------------------------------------
(* The four ways in which a step of f can touch a registration.            *)

\* The step moves no other fiber.
OthersStay(f) ==
  \A g \in Fibers \ {f} :
    /\ call'[g] = call[g]
    /\ doing'[g] = doing[g]
    /\ g \in parked' <=> g \in parked

\* None: f is out before and after, in the same wait, or neither.
LEMMA NoneTouched ==
  ASSUME TypeOK, SlotInv, OneRegistration, NEW f \in Fibers, OthersStay(f),
         UNCHANGED <<inUse, fiberIndex, ready>>,
         Out(f)' <=> Out(f),
         Out(f) => doing'[f] = doing[f]
  PROVE  OneRegistration'
<1>1. \A g \in Fibers : (Out(g)' <=> Out(g)) /\ (Out(g) => doing'[g] = doing[g])
  BY DEF OthersStay, Out
<1>2. \A s \in Slots : ~inUse[s] => fiberIndex[s] \in Fibers
  BY DEF SlotInv, PublishedIsClaimed
<1>3. QED
  BY <1>1, <1>2 DEF OneRegistration, Registered

\* f publishes its registration.
LEMMA Published ==
  ASSUME TypeOK, SlotInv, OneRegistration, NEW f \in Fibers, NEW t \in Slots, OthersStay(f),
         inUse[t],
         inUse' = [inUse EXCEPT ![t] = FALSE],
         fiberIndex' = [fiberIndex EXCEPT ![t] = f],
         ready' = ready, doing' = doing, doing[f].ctr = t[1],
         ~Out(f), Out(f)'
  PROVE  OneRegistration'
<1>1. inUse \in [Slots -> BOOLEAN] /\ fiberIndex \in [Slots -> Fibers \cup {NoFiber}]
      /\ ready \in [Fibers -> Nat]
  BY DEF TypeOK, CounterTypeOK
<1>2. \A g \in Fibers \ {f} : Out(g)' <=> Out(g)
  BY DEF OthersStay, Out
<1>3. \A s \in Slots : ~inUse[s] => fiberIndex[s] \in Fibers /\ fiberIndex[s] # f
  BY DEF SlotInv, PublishedIsClaimed, OneRegistration
<1>4. ready[f] = 0
  BY <1>1 DEF OneRegistration
<1>5. QED
  BY <1>1, <1>2, <1>3, <1>4 DEF OneRegistration, Registered

\* A registration becomes an entry of a ready list.
LEMMA HandedOver ==
  ASSUME TypeOK, SlotInv, OneRegistration, NEW f \in Fibers, NEW t \in Slots, OthersStay(f),
         ~inUse[t],
         inUse' = [inUse EXCEPT ![t] = TRUE],
         fiberIndex' = fiberIndex,
         ready' = [ready EXCEPT ![fiberIndex[t]] = @ + 1],
         doing' = doing, Out(f)' <=> Out(f)
  PROVE  OneRegistration'
<1>1. inUse \in [Slots -> BOOLEAN] /\ ready \in [Fibers -> Nat]
  BY DEF TypeOK, CounterTypeOK
<1>2. \A g \in Fibers : Out(g)' <=> Out(g)
  BY DEF OthersStay, Out
<1>3. \A s \in Slots : ~inUse[s] => fiberIndex[s] \in Fibers
  BY DEF SlotInv, PublishedIsClaimed
<1>4. \A s \in Slots : ~inUse'[s] => ~inUse[s] /\ fiberIndex[s] # fiberIndex[t]
  BY <1>1 DEF OneRegistration
<1>5. ready'[fiberIndex[t]] = 1 /\ Out(fiberIndex[t])
  BY <1>1, <1>3 DEF OneRegistration
<1>6. \A g \in Fibers : g # fiberIndex[t] => ready'[g] = ready[g]
  BY <1>1
<1>7. QED
  BY <1>1, <1>2, <1>3, <1>4, <1>5, <1>6 DEF OneRegistration, Registered

\* f calls its wait off and takes the registration, which is its own, back.
LEMMA CalledOff ==
  ASSUME TypeOK, SlotInv, OneRegistration, NEW f \in Fibers, NEW t \in Slots, OthersStay(f),
         ~inUse[t], fiberIndex[t] = f,
         inUse' = [inUse EXCEPT ![t] = TRUE],
         UNCHANGED <<fiberIndex, ready, doing>>,
         ~Out(f)'
  PROVE  OneRegistration'
<1>1. inUse \in [Slots -> BOOLEAN] /\ ready \in [Fibers -> Nat]
  BY DEF TypeOK, CounterTypeOK
<1>2. \A g \in Fibers \ {f} : Out(g)' <=> Out(g)
  BY DEF OthersStay, Out
<1>3. \A s \in Slots : ~inUse[s] => fiberIndex[s] \in Fibers
  BY DEF SlotInv, PublishedIsClaimed
<1>4. \A s \in Slots : ~inUse'[s] => ~inUse[s] /\ fiberIndex[s] # f
  BY <1>1 DEF OneRegistration
<1>5. ready[f] = 0
  BY DEF OneRegistration
<1>6. QED
  BY <1>1, <1>2, <1>3, <1>4, <1>5 DEF OneRegistration, Registered

\* f is resumed by its entry.
LEMMA Resumed ==
  ASSUME TypeOK, SlotInv, OneRegistration, NEW f \in Fibers, OthersStay(f),
         UNCHANGED <<inUse, fiberIndex>>,
         ready[f] > 0, ready' = [ready EXCEPT ![f] = @ - 1],
         ~Out(f)'
  PROVE  OneRegistration'
<1>1. ready \in [Fibers -> Nat]
  BY DEF TypeOK
<1>2. \A g \in Fibers \ {f} :
        (Out(g)' <=> Out(g)) /\ doing'[g] = doing[g] /\ ready'[g] = ready[g]
  BY <1>1 DEF OthersStay, Out
<1>3. \A s \in Slots : ~inUse[s] => fiberIndex[s] \in Fibers /\ fiberIndex[s] # f
  BY <1>1 DEF SlotInv, PublishedIsClaimed, OneRegistration
<1>4. ready'[f] = 0
  BY <1>1 DEF OneRegistration
<1>5. QED
  BY <1>1, <1>2, <1>3, <1>4 DEF OneRegistration, Registered

----------------------------------------------------------------------------
(* The steps of the system.                                                *)

\* What a fiber does next, as the script says it.
LEMMA StepKeepsScript ==
  ASSUME TypeOK, InScript, NEW f \in Fibers, Step(f), Observe
  PROVE  InScript'
<1>1. script' = script
  BY DEF Observe
<1>2. \/ todo' = todo
      \/ todo[f] # <<>> /\ todo' = [todo EXCEPT ![f] = Tail(@)]
      \/ todo' = [todo EXCEPT ![f] = <<>>]
  BY DEF Step, Schedule, Enqueue, Submit, Change, Finish, Finished, WaitNot, Wait, WaitDone,
         WaitThrows, Park, Resume, Take, InCounter, Start, useVars
<1>3. \/ doing' = doing
      \/ doing' = [doing EXCEPT ![f] = NoOp]
      \/ todo[f] # <<>> /\ doing' = [doing EXCEPT ![f] = Head(todo[f])]
  BY DEF Step, Schedule, Enqueue, Submit, Change, Finish, Finished, WaitNot, Wait, WaitDone,
         WaitThrows, Park, Resume, Take, InCounter, Start, Begin, End, useVars
<1>4. QED
  BY <1>1, <1>2, <1>3, StepInScript

\* A step of f is a step of f only.
LEMMA StepIsOwn ==
  ASSUME TypeOK, NEW f \in Fibers, Step(f)
  PROVE  OthersStay(f)
<1>1. /\ call \in [Fibers -> Call]
      /\ doing \in [Fibers -> Op \cup {NoOp}]
  BY DEF TypeOK, CounterTypeOK
<1> SUFFICES ASSUME NEW g \in Fibers, g # f
             PROVE  call'[g] = call[g] /\ doing'[g] = doing[g] /\ (g \in parked' <=> g \in parked)
  BY DEF OthersStay
<1>2. doing'[g] = doing[g]
  BY <1>1 DEF Step, Schedule, Enqueue, Submit, Change, Finish, Finished, WaitNot, Wait, WaitDone,
         WaitThrows, Park, Resume, Take, InCounter, Begin, End, useVars
<1>3. g \in parked' <=> g \in parked
  BY DEF Step, Schedule, Enqueue, Submit, Change, Finish, Finished, WaitNot, Wait, WaitDone,
         WaitThrows, Park, Resume, Take, InCounter, useVars
<1>4. call'[g] = call[g]
  <2>1. CASE CounterStep(f)
    BY <1>1, <2>1 DEF CounterStep, CheckFree, CheckInUse, CheckTarget, CheckAcquireFails,
         CheckRelease, AddTake, AddStore, AddLoad, AddInUse, AddTarget, AddAcquire, AddRelease,
         SkipSlot, NextSlot, Return, Goto
  <2>2. CASE ~CounterStep(f)
    BY <1>1, <2>2 DEF Step, Schedule, Enqueue, Submit, Change, Finish, Finished, WaitNot, Wait,
         WaitDone, WaitThrows, Park, Resume, Take, InCounter, Increment, Decrement, StartCheck,
         StartAdd, CheckAcquire, Return, Goto, counterVars
  <2>3. QED
    BY <2>1, <2>2
<1>5. QED
  BY <1>2, <1>3, <1>4

\* A fiber that is in a wait is in its AddWaitingFiber, or asleep.
LEMMA StepKeepsCalls ==
  ASSUME TypeOK, InCall, NEW f \in Fibers, Step(f)
  PROVE  InCall'
<1>1. /\ call \in [Fibers -> Call]
      /\ call[f] \in Call
      /\ doing \in [Fibers -> Op \cup {NoOp}]
  BY DEF TypeOK, CounterTypeOK
<1>2. OthersStay(f)
  BY StepIsOwn
<1>3. /\ call[f].pc \in Adding => Doing(f, "wait") /\ call[f].ctr = doing[f].ctr
      /\ call[f].pc \in {"addTake", "addStore"} => call[f].fiber = f
      /\ f \in parked => Doing(f, "wait") /\ At(f, "idle")
  BY DEF InCall
<1>4. /\ call'[f].pc \in Adding => doing'[f].op = "wait" /\ call'[f].ctr = doing'[f].ctr
      /\ call'[f].pc \in {"addTake", "addStore"} => call'[f].fiber = f
      /\ f \in parked' => doing'[f].op = "wait" /\ call'[f].pc = "idle"
  <2> USE <1>1, <1>3 DEF Adding, Registering, Doing, At, NoOp, NoCall, Return, Goto, Begin, End
  <2>1. CASE Schedule(f) \/ Change(f) \/ Finish(f)
    <3>1. doing[f].op = "none" /\ parked' = parked
      BY <2>1 DEF Schedule, Change, Finish, Start
    <3>2. \E c, v : StartCheck(f, c, v)
      BY <2>1 DEF Schedule, Change, Finish, Increment, Decrement
    <3>3. call'[f].pc = "checkFree"
      BY <3>2 DEF StartCheck, Call
    <3>4. QED
      BY <3>1, <3>3
  <2>2. CASE Enqueue(f) \/ Finished(f) \/ Submit(f) \/ WaitNot(f)
    BY <2>2 DEF Enqueue, Finished, Submit, WaitNot, Start, counterVars
  <2>3. CASE Wait(f)
    BY <2>3 DEF Wait, StartAdd, Start
  <2>4. CASE WaitDone(f) \/ WaitThrows(f) \/ Park(f)
    BY <2>4 DEF WaitDone, WaitThrows, Park
  <2>5. CASE Resume(f)
    BY <2>5 DEF Resume, counterVars
  <2>6. CASE Take(f)
    BY <2>6 DEF Take, CheckAcquire
  <2>7. CASE InCounter(f)
    <3>1. doing' = doing /\ parked' = parked
      BY <2>7 DEF InCounter, useVars
    <3>2. CASE CheckFree(f) \/ CheckInUse(f) \/ CheckTarget(f) \/ CheckAcquireFails(f)
               \/ CheckRelease(f)
      BY <3>1, <3>2 DEF CheckFree, CheckInUse, CheckTarget, CheckAcquireFails, CheckRelease,
           SkipSlot, NextSlot, Call
    <3>3. CASE AddTake(f)
      BY <3>1, <3>3 DEF AddTake, NextSlot, Call
    <3>4. CASE AddStore(f) \/ AddLoad(f) \/ AddInUse(f) \/ AddTarget(f) \/ AddAcquire(f)
               \/ AddRelease(f)
      BY <3>1, <3>4 DEF AddStore, AddLoad, AddInUse, AddTarget, AddAcquire, AddRelease, Call
    <3>5. QED
      BY <2>7, <3>2, <3>3, <3>4 DEF InCounter, CounterStep
  <2>8. QED
    BY <2>1, <2>2, <2>3, <2>4, <2>5, <2>6, <2>7 DEF Step
<1>5. QED
  BY <1>2, <1>4 DEF InCall, OthersStay, Doing, At

\* A step of f leaves the registrations alone, or touches one in one of the ways
\* above.
LEMMA StepKeepsRegistrations ==
  ASSUME TypeOK, SlotInv, InCall, Alone, OneRegistration, NEW f \in Fibers, Step(f), InCall'
  PROVE  OneRegistration'
<1>1. /\ call \in [Fibers -> Call] /\ call[f] \in Call
      /\ call[f].pc # "idle" => Slot(f) \in Slots
      /\ doing \in [Fibers -> Op \cup {NoOp}]
      /\ inUse \in [Slots -> BOOLEAN]
  BY CallTypes DEF TypeOK, CounterTypeOK
<1>2. OthersStay(f)
  BY StepIsOwn
<1>3. /\ call[f].pc \in Adding => Doing(f, "wait") /\ call[f].ctr = doing[f].ctr
      /\ call[f].pc \in {"addTake", "addStore"} => call[f].fiber = f
      /\ f \in parked => Doing(f, "wait") /\ At(f, "idle")
  BY DEF InCall
<1>4. CASE Schedule(f) \/ Change(f) \/ Finish(f)
  <2>1. \E c, v : StartCheck(f, c, v)
    BY <1>4 DEF Schedule, Change, Finish, Increment, Decrement
  <2>2. /\ call[f].pc = "idle" /\ call'[f].pc = "checkFree"
        /\ UNCHANGED <<inUse, fiberIndex>>
    BY <1>1, <2>1 DEF StartCheck, Call, At, slotVars
  <2>3. doing[f].op = "none" /\ UNCHANGED <<parked, ready>>
    BY <1>4 DEF Schedule, Change, Finish, Start, Doing
  <2>4. ~Out(f) /\ ~Out(f)'
    BY <1>3, <2>2, <2>3 DEF Out, Registering, Doing
  <2>5. QED
    BY <1>2, <2>2, <2>3, <2>4, NoneTouched
<1>5. CASE Wait(f)
  <2>1. /\ call[f].pc = "idle" /\ call'[f].pc = "addTake"
        /\ UNCHANGED <<inUse, fiberIndex, parked, ready>>
        /\ doing[f].op = "none"
    BY <1>1, <1>5 DEF Wait, StartAdd, Start, Doing, At, NoCall, slotVars
  <2>2. ~Out(f) /\ ~Out(f)'
    BY <1>3, <2>1 DEF Out, Registering, Doing
  <2>3. QED
    BY <1>2, <2>1, <2>2, NoneTouched
<1>6. CASE Enqueue(f) \/ Finished(f) \/ Submit(f) \/ WaitNot(f)
  <2>1. /\ doing[f].op # "wait"
        /\ UNCHANGED <<call, inUse, fiberIndex, parked, ready>>
    BY <1>6 DEF Enqueue, Finished, Submit, WaitNot, Start, Doing, counterVars
  <2>2. ~Out(f) /\ ~Out(f)'
    BY <1>3, <2>1 DEF Out, Registering, Adding, Doing
  <2>3. QED
    BY <1>2, <2>1, <2>2, NoneTouched
<1>7. CASE WaitDone(f) \/ WaitThrows(f)
  <2>1. /\ call[f].pc \in {"added", "full"} /\ call'[f].pc = "idle"
        /\ UNCHANGED <<inUse, fiberIndex, parked, ready>>
    BY <1>1, <1>7 DEF WaitDone, WaitThrows, At, Return, NoCall, slotVars
  <2>2. ~Out(f) /\ ~Out(f)'
    BY <1>3, <2>1 DEF Out, Registering, At
  <2>3. QED
    BY <1>2, <2>1, <2>2, NoneTouched
<1>8. CASE Park(f)
  <2>1. /\ call[f].pc = "pending" /\ f \in parked'
        /\ UNCHANGED <<inUse, fiberIndex, doing, ready>>
    BY <1>8 DEF Park, At, slotVars
  <2>2. Out(f) /\ Out(f)'
    BY <2>1 DEF Out, Registering
  <2>3. QED
    BY <1>2, <2>1, <2>2, NoneTouched
<1>9. CASE Resume(f)
  <2>1. /\ call[f].pc = "idle" /\ call' = call
        /\ UNCHANGED <<inUse, fiberIndex>>
        /\ ready[f] > 0 /\ ready' = [ready EXCEPT ![f] = @ - 1]
        /\ f \notin parked'
    BY <1>3, <1>9 DEF Resume, At, counterVars
  <2>2. ~Out(f)'
    BY <2>1 DEF Out, Registering
  <2>3. QED
    BY <1>2, <2>1, <2>2, Resumed
<1>10. CASE Take(f)
  <2>1. /\ call[f].pc = "checkAcquire" /\ call'[f].pc = "checkRelease"
        /\ ~inUse[Slot(f)] /\ inUse' = [inUse EXCEPT ![Slot(f)] = TRUE]
        /\ UNCHANGED <<fiberIndex, doing, parked>>
        /\ ready' = [ready EXCEPT ![fiberIndex[Slot(f)]] = @ + 1]
    BY <1>1, <1>10 DEF Take, CheckAcquire, Handed, At, Goto, Call
  <2>2. Out(f)' <=> Out(f)
    BY <2>1 DEF Out, Registering
  <2>3. QED
    BY <1>1, <1>2, <2>1, <2>2, HandedOver
<1>11. CASE InCounter(f)
  <2>0. UNCHANGED <<doing, parked, ready>>
    BY <1>11 DEF InCounter, useVars
  <2>1. CASE AddStore(f)
    <3>1. /\ call[f].pc = "addStore" /\ call'[f].pc = "addLoad"
          /\ inUse' = [inUse EXCEPT ![Slot(f)] = FALSE]
          /\ fiberIndex' = [fiberIndex EXCEPT ![Slot(f)] = call[f].fiber]
      BY <1>1, <2>1 DEF AddStore, At, Goto, Call
    <3>2. call[f].fiber = f /\ Slot(f) \in Slots /\ doing[f].ctr = Slot(f)[1]
      BY <1>1, <1>3, <3>1 DEF Adding, Slot
    <3>3. inUse[Slot(f)]
      BY <3>1, <3>2 DEF SlotInv, SlotExclusive, Holds
    <3>4. ~Out(f) /\ Out(f)'
      BY <1>3, <3>1 DEF Out, Registering, At
    <3>5. QED
      BY <1>2, <2>0, <3>1, <3>2, <3>3, <3>4, Published
  <2>2. CASE AddAcquire(f) /\ ~inUse[Slot(f)]
    <3>1. /\ call[f].pc = "addAcquire" /\ call'[f].pc = "addRelease"
          /\ inUse' = [inUse EXCEPT ![Slot(f)] = TRUE]
          /\ fiberIndex' = fiberIndex
      BY <1>1, <2>2 DEF AddAcquire, At, Goto, Call
    <3>2. /\ Slot(f) \in Slots /\ Doing(f, "wait") /\ doing[f].ctr = Slot(f)[1]
          /\ f \notin parked
      BY <1>1, <1>3, <3>1 DEF Adding, Registering, Slot, At
    <3>3. fiberIndex[Slot(f)] = f
      <4>1. /\ fiberIndex[Slot(f)] \in Fibers
            /\ Out(fiberIndex[Slot(f)]) /\ doing[fiberIndex[Slot(f)]].ctr = Slot(f)[1]
        BY <2>2, <3>2 DEF SlotInv, PublishedIsClaimed, OneRegistration
      <4>2. Doing(fiberIndex[Slot(f)], "wait")
        BY <4>1 DEF Out, InCall, Adding
      <4>3. QED
        BY <3>2, <4>1, <4>2 DEF Alone
    <3>4. ~Out(f)'
      BY <2>0, <3>1, <3>2 DEF Out, Registering
    <3>5. QED
      BY <1>2, <2>0, <2>2, <3>1, <3>2, <3>3, <3>4, CalledOff
  <2>3. CASE CheckFree(f) \/ CheckInUse(f) \/ CheckTarget(f) \/ CheckAcquireFails(f)
             \/ CheckRelease(f)
    <3>1. /\ call[f].pc \notin Registering /\ call'[f].pc \notin Registering
          /\ UNCHANGED <<inUse, fiberIndex>>
      BY <1>1, <2>3 DEF CheckFree, CheckInUse, CheckTarget, CheckAcquireFails, CheckRelease,
           SkipSlot, NextSlot, Return, NoCall, Goto, At, Registering, slotVars, Call
    <3>2. QED
      BY <1>2, <2>0, <3>1, NoneTouched DEF Out
  <2>4. CASE AddTake(f) \/ AddRelease(f)
    <3>1. /\ call[f].pc \notin Registering /\ call'[f].pc \notin Registering
          /\ UNCHANGED <<inUse, fiberIndex>>
      BY <1>1, <2>4 DEF AddTake, AddRelease, NextSlot, Goto, At, Registering, Call
    <3>2. QED
      BY <1>2, <2>0, <3>1, NoneTouched DEF Out
  <2>5. CASE AddLoad(f) \/ AddInUse(f) \/ AddTarget(f) \/ (AddAcquire(f) /\ inUse[Slot(f)])
    <3>1. /\ call[f].pc \in Registering /\ call'[f].pc \in Registering
          /\ UNCHANGED <<inUse, fiberIndex>>
      <4> USE <1>1 DEF Goto, At, Registering, slotVars, Call
      <4>1. CASE AddLoad(f) \/ AddInUse(f)
        BY <4>1 DEF AddLoad, AddInUse
      <4>2. CASE AddTarget(f)
        BY <4>2 DEF AddTarget
      <4>3. CASE AddAcquire(f) /\ inUse[Slot(f)]
        BY <4>3 DEF AddAcquire
      <4>4. QED
        BY <2>5, <4>1, <4>2, <4>3
    <3>2. QED
      BY <1>2, <2>0, <3>1, NoneTouched DEF Out
  <2>6. QED
    BY <1>11, <2>1, <2>2, <2>3, <2>4, <2>5 DEF InCounter, CounterStep
<1>12. QED
  BY <1>4, <1>5, <1>6, <1>7, <1>8, <1>9, <1>10, <1>11 DEF Step

----------------------------------------------------------------------------
WaitInv == InScript /\ InCall /\ (WaitsAlone => OneRegistration)

\* Nobody waits at first, and every step keeps the invariant.
LEMMA InitWaits == Init => WaitInv
<1> SUFFICES ASSUME Init PROVE WaitInv
  OBVIOUS
<1>1. /\ \A f \in Fibers : call[f].pc = "idle" /\ doing[f].op = "none" /\ ready[f] = 0
      /\ parked = {} /\ todo = script
      /\ \A s \in Slots : inUse[s]
  BY DEF Init, CounterInit, NoCall, NoOp
<1>2. InScript
  BY <1>1 DEF InScript, Doing
<1>3. InCall
  BY <1>1 DEF InCall, Adding, Registering
<1>4. OneRegistration
  BY <1>1 DEF OneRegistration, Out, Registering
<1>5. QED
  BY <1>2, <1>3, <1>4 DEF WaitInv

\* Every step of a fiber keeps WaitInv.
LEMMA NextWaits ==
  ASSUME TypeOK, SlotInv, WaitInv, [Next]_vars
  PROVE  WaitInv'
<1>1. CASE UNCHANGED vars
  BY <1>1 DEF WaitInv, InScript, InCall, OneRegistration, Registered, WaitsAlone, WaitsOf, Out,
       Doing, At, vars, useVars, counterVars
<1>2. ASSUME NEW f \in Fibers, Step(f), Observe
      PROVE  WaitInv'
  <2>1. InScript' /\ InCall'
    BY <1>2, StepKeepsScript, StepKeepsCalls DEF WaitInv
  <2>2. WaitsAlone' <=> WaitsAlone
    BY <1>2 DEF Observe, WaitsAlone, WaitsOf
  <2>3. WaitsAlone => OneRegistration'
    BY <1>2, <2>1, WaitsAreAlone, StepKeepsRegistrations DEF WaitInv
  <2>4. QED
    BY <2>1, <2>2, <2>3 DEF WaitInv
<1>3. QED
  BY <1>1, <1>2 DEF Next, Terminated

\* The invariant holds of every behaviour.
LEMMA WaitsKept == Spec => [](TypeOK /\ WaitInv)
<1>1. Init => SlotInv /\ WaitInv
  BY InitWaits, CounterInitSlots DEF Init
<1>2. TypeOK /\ SlotInv /\ WaitInv /\ [Next]_vars => SlotInv' /\ WaitInv'
  BY NextSlots, NextWaits
<1>3. QED
  BY <1>1, <1>2, TypeCorrect, PTL DEF Spec

\* A wait that is alone on its counter is handed over once: not to two ready
\* lists, nor to one whose entry outlives the wait's flag.
THEOREM LoneWaiterWokenOnce == Spec => []WokenOnce
<1>1. TypeOK /\ WaitInv => WokenOnce
  BY DEF WaitInv, OneRegistration, WokenOnce, Out, Registering
<1>2. QED
  BY <1>1, WaitsKept, PTL

\* And while its fiber sleeps it is registered, or its wake-up is under way.
THEOREM LoneWaiterNotLost == Spec => []NoLostWaiter
<1>1. TypeOK /\ WaitInv => NoLostWaiter
  <2> SUFFICES ASSUME TypeOK, OneRegistration, NEW f \in parked
               PROVE  ready[f] > 0 \/ \E s \in Slots : Registered(f, s)
    BY DEF WaitInv, NoLostWaiter, Registered
  <2>1. f \in Fibers
    BY DEF TypeOK
  <2>2. QED
    BY <2>1 DEF OneRegistration, Out
<1>2. QED
  BY <1>1, WaitsKept, PTL

----------------------------------------------------------------------------
(* A wait that is alone on its counter ends only for its target: what the  *)
(* walk of a Decrement compares is the target of the wait it wakes, not    *)
(* that of an earlier one in the same slot, because there is none.         *)

\* How many operations of its script f has begun.
Begun(f) == Len(script[f]) - Len(todo[f])

\* A fiber goes through its script in order.
InOrder ==
  \A f \in Fibers :
    /\ Len(todo[f]) <= Len(script[f])
    /\ \A i \in DOMAIN todo[f] : todo[f][i] = script[f][Begun(f) + i]
    /\ Doing(f, "wait") => Begun(f) \in WaitsOf(f) /\ doing[f] = script[f][Begun(f)]

Unpublished == {"addTake", "addStore"}

\* A wait for c is to come, or has not been published.
ToCome(c) ==
  \E f \in Fibers :
    \/ \E i \in DOMAIN todo[f] : todo[f][i].op = "wait" /\ todo[f][i].ctr = c
    \/ call[f].pc \in Unpublished /\ doing[f].ctr = c

\* Nothing was ever registered with c, so no walk has come past _inUse.
Unused(c) ==
  /\ \A s \in Slots : s[1] = c => inUse[s]
  /\ \A g \in Fibers : call[g].pc \in {"checkTarget", "checkAcquire"} => call[g].ctr # c

\* A walk that is about to take a registration has its target as its value.
Matched ==
  \A g \in Fibers : call[g].pc = "checkAcquire" => call[g].value = targetValue[Slot(g)]

\* The target in a slot is that of the wait it was published for.
TargetKept ==
  /\ \A s \in Slots : ~inUse[s] => targetValue[s] = doing[fiberIndex[s]].target
  /\ \A f \in Fibers : call[f].pc \in Registering => targetValue[Slot(f)] = doing[f].target
  /\ \A f \in Fibers : call[f].pc \in Unpublished => call[f].target = doing[f].target

\* Whoever finds out that the target was reached, it was in effect by then.
Seen ==
  \A f \in Fibers : Doing(f, "wait") =>
    /\ InEffect(f) => reached[f]
    /\ call[f].pc \in {"addInUse", "addTarget"} /\ call[f].value = doing[f].target => reached[f]
    /\ call[f].pc \in {"addAcquire", "addRelease", "added"} => reached[f]
    /\ ready[f] > 0 => reached[f]

----------------------------------------------------------------------------
\* The first operation of what is left of a script is the next one of the script.
LEMMA TailInOrder ==
  ASSUME NEW s \in Seq(Op), NEW t \in Seq(Op), t # <<>>, Len(t) <= Len(s),
         \A i \in DOMAIN t : t[i] = s[Len(s) - Len(t) + i]
  PROVE  /\ Len(Tail(t)) <= Len(s)
         /\ \A i \in DOMAIN Tail(t) : Tail(t)[i] = s[Len(s) - Len(Tail(t)) + i]
         /\ Len(s) - Len(Tail(t)) \in DOMAIN s
         /\ Head(t) = s[Len(s) - Len(Tail(t))]
<1> DEFINE m == Len(t)
           n == Len(s)
<1>1. /\ m \in Nat \ {0} /\ Len(Tail(t)) = m - 1 /\ n \in Nat /\ m <= n
      /\ DOMAIN t = 1 .. m /\ DOMAIN Tail(t) = 1 .. (m - 1) /\ DOMAIN s = 1 .. n
      /\ Head(t) = t[1]
      /\ \A i \in 1 .. (m - 1) : Tail(t)[i] = t[i + 1]
  OBVIOUS
<1>2. \A i \in 1 .. m : t[i] = s[n - m + i]
  BY <1>1
<1> HIDE DEF m, n
<1>3. \A i \in 1 .. (m - 1) : Tail(t)[i] = s[n - (m - 1) + i]
  <2> SUFFICES ASSUME NEW i \in 1 .. (m - 1)
               PROVE  Tail(t)[i] = s[n - (m - 1) + i]
    OBVIOUS
  <2>1. i + 1 \in 1 .. m /\ n - m + (i + 1) = n - (m - 1) + i
    BY <1>1
  <2>2. t[i + 1] = s[n - m + (i + 1)]
    BY <1>2, <2>1
  <2>3. QED
    BY <1>1, <2>1, <2>2
<1>4. 1 \in 1 .. m /\ n - m + 1 = n - (m - 1) /\ n - (m - 1) \in 1 .. n
  BY <1>1
<1>5. t[1] = s[n - (m - 1)]
  BY <1>2, <1>4
<1>6. QED
  BY <1>1, <1>3, <1>4, <1>5 DEF n

\* What a step does to the script: f begins its next operation, or skips it, or
\* goes on, or ends it.
LEMMA StepMoves ==
  ASSUME TypeOK, NEW f \in Fibers, Step(f)
  PROVE  \/ todo' = todo /\ doing' = doing
         \/ todo' = todo /\ doing' = [doing EXCEPT ![f] = NoOp]
         \/ /\ todo[f] # <<>> /\ todo' = [todo EXCEPT ![f] = Tail(@)]
            /\ doing' = doing /\ doing[f].op = "none"
         \/ /\ todo[f] # <<>> /\ todo' = [todo EXCEPT ![f] = Tail(@)]
            /\ doing' = [doing EXCEPT ![f] = Head(todo[f])]
         \/ todo' = [todo EXCEPT ![f] = <<>>] /\ doing' = [doing EXCEPT ![f] = NoOp]
BY DEF Step, Schedule, Enqueue, Submit, Change, Finish, Finished, WaitNot, Wait, WaitDone,
       WaitThrows, Park, Resume, Take, InCounter, Start, Begin, End, Doing, useVars

\* So every fiber goes on in its order.
LEMMA StepKeepsOrder ==
  ASSUME TypeOK, InOrder, NEW f \in Fibers, Step(f), Observe
  PROVE  InOrder'
<1>0. /\ todo \in [Fibers -> Seq(Op)] /\ doing \in [Fibers -> Op \cup {NoOp}]
      /\ script \in [Fibers -> Seq(Op)] /\ script' = script
  BY DEF TypeOK, Observe
<1> SUFFICES ASSUME NEW g \in Fibers
             PROVE  /\ Len(todo'[g]) <= Len(script[g])
                    /\ \A i \in DOMAIN todo'[g] :
                         todo'[g][i] = script[g][Len(script[g]) - Len(todo'[g]) + i]
                    /\ doing'[g].op = "wait" =>
                         /\ Len(script[g]) - Len(todo'[g]) \in DOMAIN script[g]
                         /\ doing'[g] = script[g][Len(script[g]) - Len(todo'[g])]
  BY <1>0 DEF InOrder, Begun, Doing, WaitsOf
<1>1. \/ todo'[g] = todo[g] /\ (doing'[g] = doing[g] \/ doing'[g] = NoOp)
      \/ todo'[g] = <<>> /\ doing'[g] = NoOp
      \/ /\ todo[g] # <<>> /\ todo'[g] = Tail(todo[g])
         /\ doing'[g].op # "wait" \/ doing'[g] = Head(todo[g])
  BY <1>0, StepMoves
<1>2. /\ Len(todo[g]) <= Len(script[g])
      /\ \A i \in DOMAIN todo[g] : todo[g][i] = script[g][Len(script[g]) - Len(todo[g]) + i]
      /\ doing[g].op = "wait" =>
           /\ Len(script[g]) - Len(todo[g]) \in DOMAIN script[g]
           /\ doing[g] = script[g][Len(script[g]) - Len(todo[g])]
      /\ todo[g] \in Seq(Op) /\ script[g] \in Seq(Op)
  BY <1>0 DEF InOrder, Begun, Doing, WaitsOf
<1>3. NoOp.op = "none"
  BY DEF NoOp
<1>4. CASE todo'[g] = todo[g] /\ (doing'[g] = doing[g] \/ doing'[g] = NoOp)
  BY <1>2, <1>3, <1>4, Zenon
<1>5. CASE todo'[g] = <<>> /\ doing'[g] = NoOp
  BY <1>2, <1>3, <1>5
<1>6. CASE /\ todo[g] # <<>> /\ todo'[g] = Tail(todo[g])
           /\ doing'[g].op # "wait" \/ doing'[g] = Head(todo[g])
  <2>1. /\ Len(Tail(todo[g])) <= Len(script[g])
        /\ \A i \in DOMAIN Tail(todo[g]) :
             Tail(todo[g])[i] = script[g][Len(script[g]) - Len(Tail(todo[g])) + i]
        /\ Len(script[g]) - Len(Tail(todo[g])) \in DOMAIN script[g]
        /\ Head(todo[g]) = script[g][Len(script[g]) - Len(Tail(todo[g]))]
    BY <1>2, <1>6, TailInOrder
  <2>2. QED
    BY <1>6, <2>1, Zenon
<1>7. QED
  BY <1>1, <1>4, <1>5, <1>6

----------------------------------------------------------------------------
(* What a step changes of what the lemmas below are about.                 *)

\* Only AddStore publishes, and only it writes the plain fields of a slot.
LEMMA SlotsStay ==
  ASSUME TypeOK, NEW f \in Fibers, Step(f), ~AddStore(f)
  PROVE  /\ UNCHANGED <<targetValue, fiberIndex>>
         /\ \A s \in Slots : ~inUse'[s] => ~inUse[s]
<1>1. inUse \in [Slots -> BOOLEAN]
  BY DEF TypeOK, CounterTypeOK
<1>2. CASE CounterStep(f)
  BY <1>1, <1>2 DEF CounterStep, CheckFree, CheckInUse, CheckTarget, CheckAcquireFails,
       CheckRelease, AddTake, AddLoad, AddInUse, AddTarget, AddAcquire, AddRelease, slotVars
<1>3. CASE ~CounterStep(f)
  BY <1>1, <1>3 DEF Step, Schedule, Enqueue, Submit, Change, Finish, Finished, WaitNot, Wait,
       WaitDone, WaitThrows, Park, Resume, Take, InCounter, Increment, Decrement, StartCheck,
       StartAdd, CheckAcquire, counterVars, slotVars
<1>4. QED
  BY <1>2, <1>3

\* Where a call can come from, for the places that matter here.
LEMMA CallMoves ==
  ASSUME TypeOK, InCall, NEW f \in Fibers, Step(f)
  PROVE  /\ call'[f].pc \in Unpublished =>
              \/ Wait(f)
              \/ /\ call[f].pc \in Unpublished /\ doing'[f] = doing[f]
                 /\ call'[f].ctr = call[f].ctr /\ call'[f].target = call[f].target
         /\ call'[f].pc \in Registering =>
              /\ call[f].pc \in Registering \cup {"addStore"}
              /\ call[f].pc = "addStore" => AddStore(f)
              /\ Slot(f)' = Slot(f) /\ doing'[f] = doing[f]
         /\ call'[f].pc = "addInUse" =>
              /\ call[f].pc = "addLoad" /\ counter' = counter
              /\ call'[f].value = counter[call[f].ctr] /\ call'[f].ctr = call[f].ctr
         /\ call'[f].pc = "addTarget" =>
              call[f].pc = "addInUse" /\ call'[f].value = call[f].value
         /\ call'[f].pc = "addAcquire" =>
              call[f].pc = "addTarget" /\ call[f].value = targetValue[Slot(f)]
         /\ call'[f].pc = "addRelease" => call[f].pc = "addAcquire"
         /\ call'[f].pc = "added" => call[f].pc = "addRelease"
         /\ call'[f].pc = "checkTarget" =>
              call'[f] = call[f] \/ (~inUse[Slot(f)] /\ Slot(f)' = Slot(f) /\ Slot(f) \in Slots)
         /\ call'[f].pc = "checkAcquire" =>
              \/ call'[f] = call[f]
              \/ /\ call[f].pc = "checkTarget" /\ Slot(f)' = Slot(f)
                 /\ call'[f].value = targetValue[Slot(f)]
<1>1. /\ call \in [Fibers -> Call] /\ call[f] \in Call
      /\ call[f].pc # "idle" => Slot(f) \in Slots
      /\ doing \in [Fibers -> Op \cup {NoOp}]
  BY CallTypes DEF TypeOK, CounterTypeOK
<1>2. /\ call[f].pc \in Adding => doing[f].op = "wait"
      /\ f \in parked => doing[f].op = "wait" /\ call[f].pc = "idle"
  BY DEF InCall, Doing, At
<1> USE <1>1, <1>2 DEF Adding, Registering, Unpublished, Slot, At, NoOp, NoCall, Return, Goto
<1>3. CASE Schedule(f) \/ Change(f) \/ Finish(f)
  <2>1. \E c, v : StartCheck(f, c, v)
    BY <1>3 DEF Schedule, Change, Finish, Increment, Decrement
  <2>2. call'[f].pc = "checkFree"
    BY <2>1 DEF StartCheck, Call
  <2>3. QED
    BY <2>2
<1>4. CASE Enqueue(f) \/ Finished(f) \/ Submit(f) \/ WaitNot(f)
  BY <1>4 DEF Enqueue, Finished, Submit, WaitNot, Start, Doing, counterVars
<1>5. CASE Wait(f)
  BY <1>5 DEF Wait, StartAdd
<1>6. CASE WaitDone(f) \/ WaitThrows(f) \/ Park(f)
  BY <1>6 DEF WaitDone, WaitThrows, Park
<1>7. CASE Resume(f)
  BY <1>7 DEF Resume, counterVars
<1>8. CASE Take(f)
  BY <1>8 DEF Take, CheckAcquire, Call
<1>9. CASE InCounter(f)
  <2>1. doing' = doing
    BY <1>9 DEF InCounter, useVars
  <2> USE <2>1
  <2>2. CASE CheckFree(f) \/ CheckRelease(f) \/ CheckAcquireFails(f)
    <3>1. call'[f].pc \in {"checkFree", "checkInUse", "idle"}
      BY <2>2 DEF CheckFree, CheckRelease, CheckAcquireFails, SkipSlot, NextSlot, Call
    <3>2. QED
      BY <3>1
  <2>3. CASE CheckInUse(f)
    BY <2>3 DEF CheckInUse, SkipSlot, NextSlot, Call
  <2>4. CASE CheckTarget(f)
    BY <2>4 DEF CheckTarget, SkipSlot, NextSlot, Call
  <2>5. CASE AddTake(f)
    BY <2>5 DEF AddTake, NextSlot, Call
  <2>6. CASE AddStore(f)
    BY <2>6 DEF AddStore, Call
  <2>7. CASE AddLoad(f)
    BY <2>7 DEF AddLoad, Call
  <2>8. CASE AddInUse(f)
    BY <2>8 DEF AddInUse, Call
  <2>9. CASE AddTarget(f)
    BY <2>9 DEF AddTarget, Call
  <2>10. CASE AddAcquire(f)
    BY <2>10 DEF AddAcquire, Call
  <2>11. CASE AddRelease(f)
    BY <2>11 DEF AddRelease, Call
  <2>12. QED
    BY <1>9, <2>2, <2>3, <2>4, <2>5, <2>6, <2>7, <2>8, <2>9, <2>10, <2>11
       DEF InCounter, CounterStep
<1>10. QED
  BY <1>3, <1>4, <1>5, <1>6, <1>7, <1>8, <1>9 DEF Step

\* A wait ends in one of three places.
LEMMA WaitsGoOn ==
  ASSUME TypeOK, InCall, NEW f \in Fibers, Step(f), Doing(f, "wait")
  PROVE  \/ doing'[f] = doing[f]
         \/ /\ call[f].pc \in {"added", "full"} \/ (f \in parked /\ ready[f] > 0)
            /\ doing'[f] = NoOp
BY DEF TypeOK, Step, Schedule, Enqueue, Submit, Change, Finish, Finished, WaitNot, Wait, WaitDone,
       WaitThrows, Park, Resume, Take, InCounter, Start, End, Doing, At, useVars

\* An entry of a ready list is the work of a walk.
LEMMA ReadyGrows ==
  ASSUME TypeOK, SlotInv, NEW f \in Fibers, Step(f), NEW g \in Fibers, ready'[g] > 0
  PROVE  \/ ready[g] > 0
         \/ Take(f) /\ ~inUse[Slot(f)] /\ g = fiberIndex[Slot(f)] /\ call[f].pc = "checkAcquire"
<1>1. ready \in [Fibers -> Nat]
  BY DEF TypeOK
<1>2. CASE Take(f)
  BY <1>1, <1>2 DEF Take, CheckAcquire, Handed, At
<1>3. CASE Resume(f)
  BY <1>1, <1>3 DEF Resume
<1>4. CASE ~Take(f) /\ ~Resume(f)
  BY <1>4 DEF Step, Schedule, Enqueue, Submit, Change, Finish, Finished, WaitNot, Wait, WaitDone,
       WaitThrows, Park, InCounter, useVars
<1>5. QED
  BY <1>2, <1>3, <1>4

----------------------------------------------------------------------------
(* Nothing happens to a counter's slots before its only wait.              *)

\* In its wait for c a fiber knows that no other wait for c is to come.
LEMMA NoOtherWait ==
  ASSUME TypeOK, InOrder, WaitsAlone, NEW f \in Fibers, Doing(f, "wait"),
         NEW g \in Fibers, NEW i \in DOMAIN todo[g],
         todo[g][i].op = "wait", todo[g][i].ctr = doing[f].ctr
  PROVE  FALSE
<1>1. /\ todo[g] \in Seq(Op) /\ script[g] \in Seq(Op)
      /\ todo[f] \in Seq(Op) /\ script[f] \in Seq(Op)
  BY DEF TypeOK
<1>2. /\ i \in 1 .. Len(todo[g]) /\ Len(todo[g]) \in Nat /\ Len(script[g]) \in Nat
      /\ Len(todo[g]) <= Len(script[g])
      /\ DOMAIN script[g] = 1 .. Len(script[g])
  BY <1>1 DEF InOrder
<1>3. Begun(g) + i \in DOMAIN script[g] /\ Begun(g) + i # Begun(g)
  <2> DEFINE m == Len(todo[g])
             n == Len(script[g])
  <2>1. m \in Nat /\ n \in Nat /\ m <= n /\ i \in 1 .. m /\ DOMAIN script[g] = 1 .. n
    BY <1>2
  <2> HIDE DEF m, n
  <2>2. n - m + i \in 1 .. n /\ n - m + i # n - m
    BY <2>1
  <2>3. QED
    BY <2>1, <2>2 DEF Begun, m, n
<1>4. todo[g][i] = script[g][Begun(g) + i]
  BY DEF InOrder
<1>5. Begun(g) + i \in WaitsOf(g)
  BY <1>3, <1>4, Zenon DEF WaitsOf
<1>6. Begun(f) \in WaitsOf(f) /\ doing[f] = script[f][Begun(f)]
  BY DEF InOrder
<1>7. script[f][Begun(f)].ctr = script[g][Begun(g) + i].ctr
  BY <1>4, <1>6
<1>8. f = g /\ Begun(f) = Begun(g) + i
  BY <1>5, <1>6, <1>7 DEF WaitsAlone
<1>9. QED
  BY <1>3, <1>8

\* The registration of c is the last that c is to have.
LEMMA StoredIsLast ==
  ASSUME TypeOK, InOrder, WaitsAlone, InCall, Alone,
         NEW f \in Fibers, AddStore(f), InCounter(f), NEW c \in Counters, c = call[f].ctr
  PROVE  ~ToCome(c)'
<1>1. /\ call \in [Fibers -> Call] /\ UNCHANGED <<todo, doing>>
      /\ call[f].pc = "addStore" /\ call'[f].pc = "addLoad" /\ call'[f].ctr = call[f].ctr
      /\ Doing(f, "wait") /\ call[f].ctr = doing[f].ctr
  BY DEF TypeOK, CounterTypeOK, AddStore, InCounter, useVars, InCall, Adding, At, Goto, Call
<1>2. \A g \in Fibers : \A i \in DOMAIN todo[g] :
        ~(todo[g][i].op = "wait" /\ todo[g][i].ctr = doing[f].ctr)
  BY <1>1, NoOtherWait
<1>3. \A g \in Fibers : ~(call'[g].pc \in Unpublished /\ doing[g].ctr = doing[f].ctr)
  <2> SUFFICES ASSUME NEW g \in Fibers, call'[g].pc \in Unpublished, doing[g].ctr = doing[f].ctr
               PROVE  FALSE
    OBVIOUS
  <2>1. g # f
    BY <1>1 DEF Unpublished
  <2>2. OthersStay(f)
    BY StepIsOwn DEF Step
  <2>3. call[g].pc \in Unpublished
    BY <2>1, <2>2 DEF OthersStay
  <2>4. Doing(g, "wait")
    BY <2>3 DEF InCall, Adding, Unpublished
  <2>5. QED
    BY <1>1, <2>1, <2>4 DEF Alone
<1>4. QED
  BY <1>1, <1>2, <1>3, Zenon DEF ToCome

\* What is to come after a step was to come before it.
LEMMA NothingNewToCome ==
  ASSUME TypeOK, InCall, NEW f \in Fibers, Step(f), NEW c \in Counters, ToCome(c)'
  PROVE  ToCome(c)
<1>1. todo \in [Fibers -> Seq(Op)] /\ doing \in [Fibers -> Op \cup {NoOp}]
  BY DEF TypeOK
<1>2. ASSUME NEW g \in Fibers, NEW i \in DOMAIN todo'[g],
             todo'[g][i].op = "wait", todo'[g][i].ctr = c
      PROVE  ToCome(c)
  <2>1. todo'[g] = todo[g] \/ (todo[g] # <<>> /\ todo'[g] = Tail(todo[g])) \/ todo'[g] = <<>>
    BY <1>1, StepMoves
  <2>2. \E j \in DOMAIN todo[g] : todo[g][j] = todo'[g][i]
    <3>1. CASE todo'[g] = todo[g]
      BY <3>1
    <3>2. CASE todo[g] # <<>> /\ todo'[g] = Tail(todo[g])
      <4>1. todo[g] \in Seq(Op) /\ i \in DOMAIN Tail(todo[g])
        BY <1>1, <3>2
      <4>2. i + 1 \in DOMAIN todo[g] /\ Tail(todo[g])[i] = todo[g][i + 1]
        BY <3>2, <4>1
      <4>3. QED
        BY <3>2, <4>2
    <3>3. CASE todo'[g] = <<>>
      BY <3>3
    <3>4. QED
      BY <2>1, <3>1, <3>2, <3>3
  <2>3. QED
    BY <1>2, <2>2 DEF ToCome
<1>3. ASSUME NEW g \in Fibers, call'[g].pc \in Unpublished, doing'[g].ctr = c
      PROVE  ToCome(c)
  <2>1. CASE g # f
    BY <1>3, <2>1, StepIsOwn DEF ToCome, OthersStay
  <2>2. CASE g = f /\ Wait(f)
    <3>1. /\ todo[f] \in Seq(Op) /\ todo[f] # <<>>
          /\ Head(todo[f]).op = "wait" /\ doing'[f] = Head(todo[f])
      BY <1>1, <2>2 DEF Wait, Start, Begin
    <3>2. 1 \in DOMAIN todo[f] /\ Head(todo[f]) = todo[f][1]
      BY <3>1
    <3>3. QED
      BY <1>3, <2>2, <3>1, <3>2 DEF ToCome
  <2>3. CASE g = f /\ call[f].pc \in Unpublished /\ doing'[f] = doing[f]
    BY <1>3, <2>3 DEF ToCome
  <2>4. QED
    BY <1>3, <2>1, <2>2, <2>3, CallMoves
<1>4. QED
  BY <1>2, <1>3 DEF ToCome

\* So the slots of c stay unused until the last registration of c.
LEMMA StepKeepsUnused ==
  ASSUME TypeOK, InOrder, WaitsAlone, InCall, Alone, NEW f \in Fibers, Step(f),
         NEW c \in Counters, Unused(c), ToCome(c)'
  PROVE  Unused(c)'
<1>1. /\ call \in [Fibers -> Call] /\ call[f] \in Call
      /\ inUse \in [Slots -> BOOLEAN]
  BY CallTypes DEF TypeOK, CounterTypeOK
<1>2. ASSUME NEW s \in Slots, s[1] = c
      PROVE  inUse'[s]
  <2>1. CASE AddStore(f)
    <3>1. call[f].pc = "addStore"
      BY <2>1 DEF AddStore, At
    <3>2. doing[f].op = "wait" /\ f \notin parked
      BY <3>1 DEF InCall, Adding, Doing, At
    <3>3. InCounter(f)
      <4>1. ~(Schedule(f) \/ Submit(f) \/ Change(f) \/ Finish(f) \/ WaitNot(f) \/ Wait(f))
        BY <3>2 DEF Schedule, Submit, Change, Finish, WaitNot, Wait, Start, Doing
      <4>2. ~(Enqueue(f) \/ Finished(f) \/ WaitDone(f) \/ WaitThrows(f) \/ Park(f))
        BY <3>1 DEF Enqueue, Finished, WaitDone, WaitThrows, Park, At
      <4>3. ~(Resume(f) \/ Take(f))
        BY <3>1, <3>2 DEF Resume, Take, CheckAcquire, At
      <4>4. QED
        BY <4>1, <4>2, <4>3 DEF Step
    <3>4. c # call[f].ctr
      BY <2>1, <3>3, StoredIsLast
    <3>5. inUse' = [inUse EXCEPT ![Slot(f)] = FALSE] /\ Slot(f)[1] = call[f].ctr
      BY <2>1 DEF AddStore, Slot
    <3>6. inUse'[s] = inUse[s]
      BY <1>1, <1>2, <3>4, <3>5
    <3>7. QED
      BY <1>2, <3>6 DEF Unused
  <2>2. CASE ~AddStore(f)
    BY <1>2, <2>2, SlotsStay DEF Unused
  <2>3. QED
    BY <2>1, <2>2
<1>3. ASSUME NEW g \in Fibers, call'[g].pc \in {"checkTarget", "checkAcquire"}
      PROVE  call'[g].ctr # c
  <2>1. CASE g # f
    BY <1>3, <2>1, StepIsOwn DEF Unused, OthersStay
  <2>2. CASE g = f /\ call'[f].pc = "checkTarget"
    <3>1. call'[f] = call[f] \/ (~inUse[Slot(f)] /\ Slot(f)' = Slot(f) /\ Slot(f) \in Slots)
      BY <2>2, CallMoves
    <3>2. CASE call'[f] = call[f]
      BY <1>3, <2>2, <3>2 DEF Unused
    <3>3. CASE ~inUse[Slot(f)] /\ Slot(f)' = Slot(f) /\ Slot(f) \in Slots
      <4>1. Slot(f)[1] # c
        BY <3>3 DEF Unused
      <4>2. QED
        BY <2>2, <3>3, <4>1 DEF Slot
    <3>4. QED
      BY <3>1, <3>2, <3>3
  <2>3. CASE g = f /\ call'[f].pc = "checkAcquire"
    <3>1. call'[f] = call[f] \/ (call[f].pc = "checkTarget" /\ Slot(f)' = Slot(f))
      BY <2>3, CallMoves
    <3>2. call'[f].ctr = call[f].ctr /\ call[f].pc \in {"checkTarget", "checkAcquire"}
      BY <2>3, <3>1 DEF Slot
    <3>3. QED
      BY <2>3, <3>2 DEF Unused
  <2>4. QED
    BY <1>3, <2>1, <2>2, <2>3
<1>4. QED
  BY <1>2, <1>3 DEF Unused

----------------------------------------------------------------------------
(* The target that a walk compares is that of the wait it wakes.           *)

\* A slot is filled in by the only fiber that has a wait for its counter.
LEMMA StoreFits ==
  ASSUME TypeOK, InCall, NEW f \in Fibers, AddStore(f)
  PROVE  /\ Slot(f) \in Slots /\ Slot(f)[1] = call[f].ctr /\ call[f].ctr \in Counters
         /\ call[f].fiber = f /\ Doing(f, "wait") /\ doing[f].ctr = call[f].ctr
         /\ fiberIndex' = [fiberIndex EXCEPT ![Slot(f)] = f]
         /\ targetValue' = [targetValue EXCEPT ![Slot(f)] = call[f].target]
         /\ inUse' = [inUse EXCEPT ![Slot(f)] = FALSE]
         /\ call[f].pc = "addStore"
<1>1. call[f].pc = "addStore"
  BY DEF AddStore, At
<1>2. Slot(f) \in Slots /\ call[f].ctr \in Counters
  BY <1>1, CallTypes DEF TypeOK, CounterTypeOK
<1>3. Doing(f, "wait") /\ call[f].ctr = doing[f].ctr /\ call[f].fiber = f
  BY <1>1 DEF InCall, Adding
<1>4. QED
  BY <1>1, <1>2, <1>3 DEF AddStore, Slot

\* A walk that has compared the target of a slot finds it unchanged.
LEMMA StepKeepsMatched ==
  ASSUME TypeOK, InCall, NEW f \in Fibers, Step(f), Matched,
         \A c \in Counters : ToCome(c) => Unused(c)
  PROVE  Matched'
<1>1. /\ call \in [Fibers -> Call]
      /\ targetValue \in [Slots -> Unit]
  BY DEF TypeOK, CounterTypeOK
<1>2. CASE AddStore(f)
  <2>1. Unused(call[f].ctr)
    BY <1>2, StoreFits DEF ToCome, Unpublished
  <2>2. call' = [call EXCEPT ![f].pc = "addLoad"]
    BY <1>2 DEF AddStore, Goto
  <2> SUFFICES ASSUME NEW g \in Fibers, call'[g].pc = "checkAcquire"
               PROVE  call'[g].value = targetValue'[Slot(g)']
    BY DEF Matched
  <2>3. g # f /\ call'[g] = call[g]
    BY <1>1, <2>2
  <2>4. call[g].ctr # call[f].ctr
    BY <2>1, <2>3 DEF Unused
  <2>5. Slot(g)' = Slot(g) /\ Slot(g) # Slot(f)
    BY <2>3, <2>4 DEF Slot
  <2>6. targetValue'[Slot(g)] = targetValue[Slot(g)]
    BY <1>1, <1>2, <2>3, <2>5, StoreFits, CallTypes DEF TypeOK
  <2>7. QED
    BY <2>3, <2>5, <2>6 DEF Matched
<1>3. CASE ~AddStore(f)
  <2>1. targetValue' = targetValue
    BY <1>3, SlotsStay
  <2> SUFFICES ASSUME NEW g \in Fibers, call'[g].pc = "checkAcquire"
               PROVE  call'[g].value = targetValue[Slot(g)']
    BY <2>1 DEF Matched
  <2>2. CASE call'[g] = call[g]
    BY <2>2 DEF Matched, Slot
  <2>3. CASE g = f /\ Slot(f)' = Slot(f) /\ call'[f].value = targetValue[Slot(f)]
    BY <2>3
  <2>4. QED
    BY <2>2, <2>3, StepIsOwn, CallMoves DEF OthersStay
<1>4. QED
  BY <1>2, <1>3

\* A published registration has the target of the wait its fiber is in.
LEMMA StepKeepsTarget ==
  ASSUME TypeOK, SlotInv, InCall, Alone, OneRegistration, NEW f \in Fibers, Step(f),
         TargetKept
  PROVE  TargetKept'
<1>1. /\ call \in [Fibers -> Call]
      /\ targetValue \in [Slots -> Unit]
      /\ fiberIndex \in [Slots -> Fibers \cup {NoFiber}]
      /\ inUse \in [Slots -> BOOLEAN]
      /\ doing \in [Fibers -> Op \cup {NoOp}]
  BY DEF TypeOK, CounterTypeOK
<1>2. OthersStay(f)
  BY StepIsOwn
<1>3. ASSUME NEW s \in Slots, ~inUse[s]
      PROVE  doing'[fiberIndex[s]] = doing[fiberIndex[s]]
  <2>1. /\ fiberIndex[s] \in Fibers /\ Out(fiberIndex[s])
        /\ ready[fiberIndex[s]] = 0
    BY <1>3 DEF SlotInv, PublishedIsClaimed, OneRegistration
  <2>2. CASE fiberIndex[s] # f
    BY <1>2, <2>1, <2>2 DEF OthersStay
  <2>3. CASE fiberIndex[s] = f
    <3>1. Doing(f, "wait") /\ ~(f \in parked /\ ready[f] > 0)
          /\ call[f].pc \notin {"added", "full"}
      BY <2>1, <2>3 DEF Out, InCall, Adding, Registering, At
    <3>2. QED
      BY <2>3, <3>1, WaitsGoOn
  <2>4. QED
    BY <2>2, <2>3
<1>4. ASSUME NEW s \in Slots, ~inUse'[s]
      PROVE  targetValue'[s] = doing'[fiberIndex'[s]].target
  <2>1. CASE AddStore(f) /\ s = Slot(f)
    <3>1. fiberIndex'[s] = f /\ targetValue'[s] = call[f].target
      BY <1>1, <2>1, StoreFits
    <3>2. call[f].pc = "addStore" /\ call[f].target = doing[f].target
      BY <2>1, StoreFits DEF TargetKept, Unpublished
    <3>3. doing'[f] = doing[f]
      <4>1. call'[f].pc = "addLoad"
        BY <1>1, <2>1 DEF AddStore, Goto, Call
      <4>2. QED
        BY <4>1, CallMoves DEF Registering
    <3>4. QED
      BY <3>1, <3>2, <3>3
  <2>2. CASE AddStore(f) /\ s # Slot(f)
    <3>1. fiberIndex'[s] = fiberIndex[s] /\ targetValue'[s] = targetValue[s] /\ ~inUse[s]
      BY <1>1, <1>4, <2>2, StoreFits
    <3>2. QED
      BY <1>3, <3>1 DEF TargetKept
  <2>3. CASE ~AddStore(f)
    <3>1. fiberIndex' = fiberIndex /\ targetValue' = targetValue /\ ~inUse[s]
      BY <1>4, <2>3, SlotsStay
    <3>2. QED
      BY <1>3, <3>1 DEF TargetKept
  <2>4. QED
    BY <2>1, <2>2, <2>3
<1>5. ASSUME NEW g \in Fibers, call'[g].pc \in Registering
      PROVE  targetValue'[Slot(g)'] = doing'[g].target
  <2>1. /\ call[g].pc \in Registering \cup {"addStore"}
        /\ Slot(g)' = Slot(g) /\ doing'[g] = doing[g]
        /\ call[g].pc = "addStore" => g = f /\ AddStore(f)
    BY <1>2, <1>5, CallMoves DEF OthersStay, Slot, Registering
  <2>2. Doing(g, "wait") /\ call[g].ctr = doing[g].ctr /\ Slot(g) \in Slots
    BY <2>1, CallTypes DEF InCall, Adding, Registering, TypeOK
  <2>3. CASE AddStore(f) /\ g = f
    <3>1. targetValue'[Slot(f)] = call[f].target /\ call[f].target = doing[f].target
      BY <1>1, <2>3, StoreFits DEF TargetKept, Unpublished
    <3>2. QED
      BY <2>1, <2>3, <3>1
  <2>4. CASE AddStore(f) /\ g # f
    <3>1. doing[g].ctr # doing[f].ctr
      BY <2>2, <2>4, StoreFits DEF Alone
    <3>2. Slot(g) # Slot(f)
      BY <2>2, <2>4, <3>1, StoreFits DEF Slot
    <3>3. targetValue'[Slot(g)] = targetValue[Slot(g)]
      BY <1>1, <2>2, <2>4, <3>2, StoreFits
    <3>4. QED
      BY <2>1, <2>4, <3>3 DEF TargetKept
  <2>5. CASE ~AddStore(f)
    BY <2>1, <2>5, SlotsStay DEF TargetKept
  <2>6. QED
    BY <2>3, <2>4, <2>5
<1>6. ASSUME NEW g \in Fibers, call'[g].pc \in Unpublished
      PROVE  call'[g].target = doing'[g].target
  <2>1. CASE g # f
    BY <1>2, <1>6, <2>1 DEF OthersStay, TargetKept
  <2>2. CASE g = f /\ Wait(f)
    BY <1>1, <2>2 DEF Wait, StartAdd, Start, Begin, NoCall
  <2>3. CASE g = f /\ ~Wait(f)
    BY <1>6, <2>3, CallMoves DEF TargetKept
  <2>4. QED
    BY <2>1, <2>2, <2>3
<1>7. QED
  BY <1>4, <1>5, <1>6 DEF TargetKept

----------------------------------------------------------------------------
(* Whoever finds out that the target was reached, it was.                  *)

\* The history forgets nothing during a wait.
LEMMA ReachedStays ==
  ASSUME Observe, NEW g \in Fibers, Doing(g, "wait")', reached[g] \/ InEffect(g)'
  PROVE  reached'[g]
BY DEF Observe, Doing

\* Every step keeps Seen, with what Observe records of it.
LEMMA StepKeepsSeen ==
  ASSUME TypeOK, SlotInv, InCall, OneRegistration, InCall', Matched, TargetKept, Seen,
         NEW f \in Fibers, Step(f), Observe
  PROVE  Seen'
<1>1. /\ call \in [Fibers -> Call]
      /\ doing \in [Fibers -> Op \cup {NoOp}]
      /\ ready \in [Fibers -> Nat]
  BY DEF TypeOK, CounterTypeOK
<1>2. OthersStay(f)
  BY StepIsOwn
<1> SUFFICES ASSUME NEW g \in Fibers, Doing(g, "wait")'
             PROVE  /\ InEffect(g)' => reached'[g]
                    /\ call'[g].pc \in {"addInUse", "addTarget"}
                         /\ call'[g].value = doing'[g].target => reached'[g]
                    /\ call'[g].pc \in {"addAcquire", "addRelease", "added"} => reached'[g]
                    /\ ready'[g] > 0 => reached'[g]
  BY DEF Seen
<1>3. InEffect(g)' => reached'[g]
  BY ReachedStays
<1>4. reached[g] => reached'[g]
  BY ReachedStays
\* Where the wait was under way before the step, it is the same wait.
<1>5. Doing(g, "wait") => doing'[g] = doing[g]
  <2>1. CASE g = f
    BY <2>1, WaitsGoOn DEF Doing, NoOp
  <2>2. CASE g # f
    BY <1>2, <2>2 DEF OthersStay
  <2>3. QED
    BY <2>1, <2>2
<1>6. ASSUME call'[g].pc \in {"addInUse", "addTarget"}, call'[g].value = doing'[g].target
      PROVE  reached'[g]
  <2>1. CASE g = f /\ call'[f].pc = "addInUse"
    <3>1. /\ call[f].pc = "addLoad" /\ counter' = counter
          /\ call'[f].value = counter[call[f].ctr] /\ call'[f].ctr = call[f].ctr
      BY <2>1, CallMoves
    <3>2. call'[f].ctr = doing'[f].ctr
      BY <2>1 DEF InCall, Adding, Registering
    <3>3. InEffect(g)'
      BY <1>6, <2>1, <3>1, <3>2 DEF InEffect
    <3>4. QED
      BY <1>3, <3>3
  <2>2. CASE g = f /\ call'[f].pc = "addTarget"
    <3>1. call[f].pc = "addInUse" /\ call'[f].value = call[f].value
      BY <2>2, CallMoves
    <3>2. Doing(f, "wait") /\ doing'[f] = doing[f]
      BY <1>5, <2>2, <3>1 DEF InCall, Adding, Registering
    <3>3. reached[f]
      BY <1>6, <2>2, <3>1, <3>2 DEF Seen
    <3>4. QED
      BY <1>4, <2>2, <3>3
  <2>3. CASE g # f
    <3>1. call'[g] = call[g] /\ doing'[g] = doing[g]
      BY <1>2, <2>3 DEF OthersStay
    <3>2. Doing(g, "wait")
      BY <3>1 DEF Doing
    <3>3. reached[g]
      BY <1>6, <3>1, <3>2 DEF Seen
    <3>4. QED
      BY <1>4, <3>3
  <2>4. QED
    BY <1>6, <2>1, <2>2, <2>3
<1>7. ASSUME call'[g].pc \in {"addAcquire", "addRelease", "added"}
      PROVE  reached'[g]
  <2>1. CASE g = f /\ call'[f].pc = "addAcquire"
    <3>1. call[f].pc = "addTarget" /\ call[f].value = targetValue[Slot(f)]
      BY <2>1, CallMoves
    <3>2. Doing(f, "wait") /\ targetValue[Slot(f)] = doing[f].target
      BY <3>1 DEF InCall, Adding, Registering, TargetKept
    <3>3. reached[f]
      BY <3>1, <3>2 DEF Seen
    <3>4. QED
      BY <1>4, <2>1, <3>3
  <2>2. CASE g = f /\ call'[f].pc \in {"addRelease", "added"}
    <3>1. call[f].pc \in {"addAcquire", "addRelease"}
      BY <2>2, CallMoves
    <3>2. Doing(f, "wait")
      BY <3>1 DEF InCall, Adding, Registering
    <3>3. reached[f]
      BY <3>1, <3>2 DEF Seen
    <3>4. QED
      BY <1>4, <2>2, <3>3
  <2>3. CASE g # f
    <3>1. call'[g] = call[g] /\ doing'[g] = doing[g]
      BY <1>2, <2>3 DEF OthersStay
    <3>2. Doing(g, "wait")
      BY <3>1 DEF Doing
    <3>3. reached[g]
      BY <1>7, <3>1, <3>2 DEF Seen
    <3>4. QED
      BY <1>4, <3>3
  <2>4. QED
    BY <1>7, <2>1, <2>2, <2>3
<1>8. ASSUME ready'[g] > 0
      PROVE  reached'[g]
  <2>1. CASE ready[g] > 0
    <3>1. Doing(g, "wait")
      BY <2>1 DEF OneRegistration, Out, InCall, Adding
    <3>2. reached[g]
      BY <2>1, <3>1 DEF Seen
    <3>3. QED
      BY <1>4, <3>2
  <2>2. CASE ~inUse[Slot(f)] /\ g = fiberIndex[Slot(f)] /\ call[f].pc = "checkAcquire"
    <3>1. Slot(f) \in Slots /\ Slot(f)[1] = call[f].ctr
      BY <2>2, CallTypes DEF TypeOK, Slot
    <3>2. /\ Out(g) /\ doing[g].ctr = call[f].ctr
          /\ doing[g].target = targetValue[Slot(f)]
      BY <2>2, <3>1 DEF OneRegistration, TargetKept
    <3>3. Doing(g, "wait")
      BY <3>2 DEF Out, InCall, Adding
    <3>4. InEffect(g)
      BY <2>2, <3>2 DEF Matched, InEffect
    <3>5. reached[g]
      BY <3>3, <3>4 DEF Seen
    <3>6. QED
      BY <1>4, <3>5
  <2>3. QED
    BY <1>8, <2>1, <2>2, ReadyGrows
<1>9. QED
  BY <1>3, <1>6, <1>7, <1>8

----------------------------------------------------------------------------
TargetInv ==
  /\ InOrder
  /\ WaitsAlone =>
       /\ \A c \in Counters : ToCome(c) => Unused(c)
       /\ Matched
       /\ TargetKept
       /\ Seen

\* Nothing is registered at first, and every step keeps the invariant.
LEMMA InitTargets == Init => TargetInv
<1> SUFFICES ASSUME Init PROVE TargetInv
  OBVIOUS
<1>1. /\ \A f \in Fibers : call[f].pc = "idle" /\ doing[f].op = "none"
      /\ todo = script /\ script \in [Fibers -> Seq(Op)]
      /\ \A s \in Slots : inUse[s]
  BY ScriptAssumption DEF Init, CounterInit, NoCall, NoOp
<1>2. InOrder
  <2> SUFFICES ASSUME NEW f \in Fibers
               PROVE  /\ Len(script[f]) <= Len(script[f])
                      /\ \A i \in DOMAIN script[f] :
                           script[f][i] = script[f][Len(script[f]) - Len(script[f]) + i]
    BY <1>1 DEF InOrder, Begun, Doing
  <2>1. Len(script[f]) \in Nat /\ DOMAIN script[f] = 1 .. Len(script[f])
    BY <1>1
  <2>2. \A i \in DOMAIN script[f] : Len(script[f]) - Len(script[f]) + i = i
    BY <2>1
  <2>3. QED
    BY <2>1, <2>2
<1>3. \A c \in Counters : Unused(c)
  BY <1>1 DEF Unused
<1>4. Matched /\ TargetKept /\ Seen
  BY <1>1 DEF Matched, TargetKept, Seen, Registering, Unpublished, Doing
<1>5. QED
  BY <1>2, <1>3, <1>4 DEF TargetInv

\* Every step of a fiber keeps TargetInv.
LEMMA NextTargets ==
  ASSUME TypeOK, SlotInv, WaitInv, WaitInv', TargetInv, [Next]_vars
  PROVE  TargetInv'
<1>1. CASE UNCHANGED vars
  <2>1. UNCHANGED <<script, todo, doing, ready, reached, counter, inUse, fiberIndex,
                    targetValue, call>>
    BY <1>1 DEF vars, useVars, counterVars
  <2>2. InOrder' <=> InOrder
    BY <2>1 DEF InOrder, Begun, WaitsOf, Doing
  <2>3. WaitsAlone' <=> WaitsAlone
    BY <2>1 DEF WaitsAlone, WaitsOf
  <2>4. \A c \in Counters : (ToCome(c)' <=> ToCome(c)) /\ (Unused(c)' <=> Unused(c))
    BY <2>1 DEF ToCome, Unused
  <2>5. (Matched' <=> Matched) /\ (TargetKept' <=> TargetKept)
    BY <2>1 DEF Matched, TargetKept, Slot
  <2>6. Seen' <=> Seen
    BY <2>1 DEF Seen, InEffect, Doing
  <2>7. QED
    BY <2>2, <2>3, <2>4, <2>5, <2>6 DEF TargetInv
<1>2. ASSUME NEW f \in Fibers, Step(f), Observe
      PROVE  TargetInv'
  <2>1. InOrder' /\ InCall /\ InCall' /\ InOrder
    BY <1>2, StepKeepsOrder DEF TargetInv, WaitInv
  <2>2. WaitsAlone' <=> WaitsAlone
    BY <1>2 DEF Observe, WaitsAlone, WaitsOf
  <2> SUFFICES ASSUME WaitsAlone
               PROVE  /\ \A c \in Counters : ToCome(c)' => Unused(c)'
                      /\ Matched' /\ TargetKept' /\ Seen'
    BY <2>1, <2>2 DEF TargetInv
  <2>3. /\ \A c \in Counters : ToCome(c) => Unused(c)
        /\ Matched /\ TargetKept /\ Seen /\ OneRegistration
    BY DEF TargetInv, WaitInv
  <2>4. Alone
    BY WaitsAreAlone DEF WaitInv
  <2>5. \A c \in Counters : ToCome(c)' => Unused(c)'
    BY <1>2, <2>1, <2>3, <2>4, NothingNewToCome, StepKeepsUnused
  <2>6. Matched' /\ TargetKept' /\ Seen'
    BY <1>2, <2>1, <2>3, <2>4, StepKeepsMatched, StepKeepsTarget, StepKeepsSeen
  <2>7. QED
    BY <2>5, <2>6
<1>3. QED
  BY <1>1, <1>2 DEF Next, Terminated

\* A wait that is alone on its counter ends only when the counter has had the
\* target since it began, or a call that gave it this value was not over then.
THEOREM LoneWaiterEndsAtTarget == Spec => WaitEndsAtTarget
<1>1. Init => SlotInv /\ WaitInv /\ TargetInv
  BY InitWaits, InitTargets, CounterInitSlots DEF Init
<1>2. TypeOK /\ SlotInv /\ WaitInv /\ TargetInv /\ [Next]_vars =>
        SlotInv' /\ WaitInv' /\ TargetInv'
  BY NextSlots, NextWaits, NextTargets
<1>3. TypeOK /\ WaitInv /\ TargetInv /\ [Next]_vars =>
        [WaitsAlone => \A f \in Fibers :
           Doing(f, "wait") /\ doing'[f].op = "none" /\ ~At(f, "full") => reached[f]]_vars
  <2> SUFFICES ASSUME TypeOK, WaitInv, TargetInv, WaitsAlone, NEW f \in Fibers, Step(f),
                      NEW g \in Fibers, Doing(g, "wait"), doing'[g].op = "none", ~At(g, "full")
               PROVE  reached[g]
    BY DEF Next, Terminated
  <2>1. g = f
    BY StepIsOwn DEF OthersStay, Doing
  <2>2. call[f].pc = "added" \/ (f \in parked /\ ready[f] > 0)
    BY <2>1, WaitsGoOn DEF WaitInv, Doing, At
  <2>3. QED
    BY <2>1, <2>2 DEF TargetInv, Seen
<1>4. QED
  BY <1>1, <1>2, <1>3, TypeCorrect, PTL DEF Spec, WaitEndsAtTarget
==============================================================================

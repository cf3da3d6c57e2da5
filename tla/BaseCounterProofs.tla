------------------------- MODULE BaseCounterProofs -------------------------
(***************************************************************************)
(* What the steps of a BaseCounter call preserve, whatever program makes   *)
(* the calls: the types, and the life of a slot.                           *)
(***************************************************************************)
EXTENDS BaseCounter, TLAPS

\* The operations that start a call, and the steps inside it.
CounterNext(f) ==
  \/ \E c \in Counters, n \in Nat : Increment(f, c, n) \/ Decrement(f, c, n)
  \/ \E c \in Counters, g \in Fibers, v \in Unit : StartAdd(f, c, g, v)
  \/ CounterStep(f)
  \/ CheckAcquire(f)
  \/ call[f].pc \in {"added", "pending", "full"} /\ Return(f) /\ UNCHANGED <<counter, slotVars>>

SlotInv == SlotExclusive /\ NoSlotLeak /\ PublishedIsClaimed

----------------------------------------------------------------------------
(* Types.                                                                  *)

\* Unit_t wraps around: the remainder is a value of Unit_t.
LEMMA UnitWraps ==
  ASSUME NEW n \in Int
  PROVE  n % UnitMod \in Unit
BY CounterAssumption DEF Unit

LEMMA CallTypes ==
  ASSUME CounterTypeOK, NEW f \in Fibers
  PROVE  /\ call[f] \in Call
         /\ call[f].pc # "idle" => Slot(f) \in Slots
         /\ NoCall \in Call
         /\ 0 \in SlotIndex
BY CounterAssumption DEF CounterTypeOK, Call, NoCall, Slot, Slots, SlotIndex, Unit, CallPC

\* A constructed counter has the right types.
LEMMA CounterInitType ==
  ASSUME CounterInit
  PROVE  CounterTypeOK
BY CounterAssumption
   DEF CounterInit, CounterTypeOK, Call, NoCall, Unit, SlotIndex, CallPC

\* Every step of a call keeps the types.
LEMMA CounterNextType ==
  ASSUME CounterTypeOK, NEW f \in Fibers, CounterNext(f)
  PROVE  CounterTypeOK'
<1>0. /\ call[f] \in Call
      /\ call[f].pc # "idle" => Slot(f) \in Slots
      /\ NoCall \in Call
      /\ 0 \in SlotIndex
  BY CallTypes
<1> USE CounterAssumption DEF CounterTypeOK
<1>1. ASSUME NEW c \in Counters, NEW n \in Nat, Increment(f, c, n) \/ Decrement(f, c, n)
      PROVE  CounterTypeOK'
  <2>1. PICK v \in Unit : StartCheck(f, c, v)
    <3>1. counter[c] \in Int /\ n \in Int
      BY DEF Unit
    <3>2. (counter[c] + n) % UnitMod \in Unit /\ (counter[c] - n) % UnitMod \in Unit
      BY <3>1, UnitWraps
    <3>3. QED
      BY <1>1, <3>2 DEF Increment, Decrement
  <2>2. QED
    BY <1>0, <2>1 DEF StartCheck, slotVars, Call, CallPC
<1>2. ASSUME NEW c \in Counters, NEW g \in Fibers, NEW v \in Unit, StartAdd(f, c, g, v)
      PROVE  CounterTypeOK'
  BY <1>0, <1>2 DEF StartAdd, slotVars, NoCall, Call, CallPC
<1>3. ASSUME CounterStep(f)
      PROVE  CounterTypeOK'
  <2> USE <1>0 DEF At, Goto, Return, NextSlot, SkipSlot, slotVars, Call, CallPC, NoCall
  <2>1. CASE CheckFree(f)         BY <2>1 DEF CheckFree
  <2>2. CASE CheckInUse(f)        BY <2>2 DEF CheckInUse
  <2>3. CASE CheckTarget(f)       BY <2>3 DEF CheckTarget
  <2>4. CASE CheckAcquireFails(f) BY <2>4 DEF CheckAcquireFails
  <2>5. CASE CheckRelease(f)      BY <2>5 DEF CheckRelease
  <2>6. CASE AddTake(f)
    <3>1. CASE freeSlot[Slot(f)]
      <4>1. /\ call[f].pc = "addTake"
            /\ freeSlot' = [freeSlot EXCEPT ![Slot(f)] = FALSE]
            /\ call' = [call EXCEPT ![f].pc = "addStore"]
            /\ UNCHANGED <<counter, inUse, fiberIndex, targetValue>>
        BY <2>6, <3>1 DEF AddTake
      <4>2. call' \in [Fibers -> Call] /\ freeSlot' \in [Slots -> BOOLEAN]
        BY <4>1
      <4>3. QED
        BY <4>1, <4>2
    <3>2. CASE ~freeSlot[Slot(f)]
      <4>1. /\ freeSlot' = freeSlot
            /\ \/ call' = [call EXCEPT ![f].i = @ + 1, ![f].pc = "addTake"] /\ call[f].i + 1 \in SlotIndex
               \/ call' = [call EXCEPT ![f].pc = "full"]
        BY <2>6, <3>2 DEF AddTake
      <4>2. call' \in [Fibers -> Call]
        BY <4>1
      <4>3. QED
        BY <2>6, <3>2, <4>1, <4>2 DEF AddTake
    <3>3. QED
      BY <3>1, <3>2
  <2>7. CASE AddStore(f)          BY <2>7 DEF AddStore
  <2>8. CASE AddLoad(f)           BY <2>8 DEF AddLoad
  <2>9. CASE AddInUse(f)          BY <2>9 DEF AddInUse
  <2>10. CASE AddTarget(f)        BY <2>10 DEF AddTarget
  <2>11. CASE AddAcquire(f)       BY <2>11 DEF AddAcquire
  <2>12. CASE AddRelease(f)       BY <2>12 DEF AddRelease
  <2>13. QED
    BY <1>3, <2>1, <2>2, <2>3, <2>4, <2>5, <2>6, <2>7, <2>8, <2>9, <2>10, <2>11, <2>12
       DEF CounterStep
<1>4. ASSUME CheckAcquire(f)
      PROVE  CounterTypeOK'
  BY <1>0, <1>4 DEF CheckAcquire, At, Goto, Call, CallPC
<1>5. ASSUME call[f].pc \in {"added", "pending", "full"}, Return(f), UNCHANGED <<counter, slotVars>>
      PROVE  CounterTypeOK'
  BY <1>0, <1>5 DEF Return, NoCall, Call, CallPC, slotVars
<1>6. QED
  BY <1>1, <1>2, <1>3, <1>4, <1>5 DEF CounterNext

----------------------------------------------------------------------------
(* The life of a slot.                                                     *)

\* In a constructed counter every slot is free.
LEMMA CounterInitSlots ==
  ASSUME CounterInit
  PROVE  SlotInv
BY DEF CounterInit, NoCall, SlotInv, SlotExclusive, NoSlotLeak, PublishedIsClaimed, Holds

Exclusive == {"addStore", "addRelease", "checkRelease"}

\* A step that leaves the slots alone and moves its call between two places
\* outside Exclusive changes nothing.
LEMMA QuietStep ==
  ASSUME CounterTypeOK, SlotInv, NEW f \in Fibers, UNCHANGED slotVars,
         call' = [call EXCEPT ![f] = call'[f]],
         call[f].pc \notin Exclusive, call'[f].pc \notin Exclusive
  PROVE  SlotInv'
<1>1. \A g \in Fibers, s \in Slots : Holds(g, s)' <=> Holds(g, s)
  BY DEF Holds, Slot, Exclusive, CounterTypeOK
<1>2. QED
  BY <1>1 DEF SlotInv, SlotExclusive, NoSlotLeak, PublishedIsClaimed, slotVars, CounterTypeOK

\* A call comes to hold a slot that was free or published, and takes it.
LEMMA TakingStep ==
  ASSUME CounterTypeOK, SlotInv, NEW f \in Fibers, NEW t \in Slots,
         freeSlot[t] \/ ~inUse[t],
         freeSlot' = [freeSlot EXCEPT ![t] = FALSE],
         inUse' = [inUse EXCEPT ![t] = TRUE],
         UNCHANGED fiberIndex,
         call' = [call EXCEPT ![f] = call'[f]],
         call[f].pc \notin Exclusive, call'[f].pc \in Exclusive, Slot(f)' = t
  PROVE  SlotInv'
<1>1. \A g \in Fibers, s \in Slots : Holds(g, s)' <=> (Holds(g, s) \/ (g = f /\ s = t))
  BY DEF Holds, Slot, Exclusive, CounterTypeOK
<1>2. \A g \in Fibers : ~Holds(g, t)
  BY DEF SlotInv, SlotExclusive
<1>3. QED
  BY <1>1, <1>2 DEF SlotInv, SlotExclusive, NoSlotLeak, PublishedIsClaimed, CounterTypeOK

\* A call gives up the slot it holds: the slot is now free, or published with
\* a fiber in it.
LEMMA GivingStep ==
  ASSUME CounterTypeOK, SlotInv, NEW f \in Fibers, NEW t \in Slots, Holds(f, t),
         \/ /\ freeSlot' = [freeSlot EXCEPT ![t] = TRUE]
            /\ UNCHANGED <<inUse, fiberIndex>>
         \/ /\ inUse' = [inUse EXCEPT ![t] = FALSE]
            /\ \E g \in Fibers : fiberIndex' = [fiberIndex EXCEPT ![t] = g]
            /\ UNCHANGED freeSlot,
         call' = [call EXCEPT ![f] = call'[f]],
         call'[f].pc \notin Exclusive
  PROVE  SlotInv'
<1>1. \A g \in Fibers, s \in Slots : Holds(g, s)' <=> (Holds(g, s) /\ g # f)
  BY DEF Holds, Slot, Exclusive, CounterTypeOK
<1>2. /\ \A g \in Fibers : Holds(g, t) => g = f
      /\ \A s \in Slots : Holds(f, s) => s = t
      /\ ~freeSlot[t] /\ inUse[t]
  BY DEF SlotInv, SlotExclusive, Holds, CounterTypeOK
<1>3. QED
  BY <1>1, <1>2 DEF SlotInv, SlotExclusive, NoSlotLeak, PublishedIsClaimed, CounterTypeOK

\* Every step of a call keeps the invariant.
LEMMA CounterNextSlots ==
  ASSUME CounterTypeOK, SlotInv, NEW f \in Fibers, CounterNext(f)
  PROVE  SlotInv'
<1>0. /\ call[f] \in Call
      /\ call[f].pc # "idle" => Slot(f) \in Slots
      /\ call \in [Fibers -> Call]
  BY CallTypes DEF CounterTypeOK
<1>1. CASE \E c \in Counters, n \in Nat : Increment(f, c, n) \/ Decrement(f, c, n)
  <2>1. PICK c, v : StartCheck(f, c, v)
    BY <1>1 DEF Increment, Decrement
  <2>2. /\ call' = [call EXCEPT ![f] = call'[f]]
        /\ call[f].pc = "idle" /\ call'[f].pc = "checkFree"
    BY <1>0, <2>1 DEF StartCheck, At, Call
  <2>3. QED
    BY <2>1, <2>2, QuietStep DEF StartCheck, Exclusive
<1>2. CASE \E c \in Counters, g \in Fibers, v \in Unit : StartAdd(f, c, g, v)
  <2>1. /\ call' = [call EXCEPT ![f] = call'[f]]
        /\ call[f].pc = "idle" /\ call'[f].pc = "addTake"
        /\ UNCHANGED slotVars
    BY <1>0, <1>2 DEF StartAdd, At, NoCall
  <2>2. QED
    BY <2>1, QuietStep DEF Exclusive
<1>3. CASE CounterStep(f)
  <2> USE <1>0 DEF At, Goto, Return, NextSlot, SkipSlot, slotVars, Call, NoCall, Exclusive
  <2>1. CASE \/ CheckFree(f) \/ CheckInUse(f) \/ CheckTarget(f) \/ CheckAcquireFails(f)
             \/ AddLoad(f) \/ AddInUse(f) \/ AddTarget(f)
    <3>1. /\ UNCHANGED slotVars
          /\ call' = [call EXCEPT ![f] = call'[f]]
          /\ call[f].pc \notin Exclusive /\ call'[f].pc \notin Exclusive
      BY <2>1 DEF CheckFree, CheckInUse, CheckTarget, CheckAcquireFails, AddLoad, AddInUse, AddTarget
    <3>2. QED
      BY <3>1, QuietStep
  <2>2. CASE CheckRelease(f)
    <3>1. /\ call' = [call EXCEPT ![f] = call'[f]]
          /\ call'[f].pc \notin Exclusive
      BY <2>2 DEF CheckRelease
    <3>2. Slot(f) \in Slots /\ Holds(f, Slot(f))
      BY <2>2 DEF CheckRelease, Holds
    <3>3. /\ freeSlot' = [freeSlot EXCEPT ![Slot(f)] = TRUE]
          /\ UNCHANGED <<inUse, fiberIndex>>
      BY <2>2 DEF CheckRelease
    <3>4. QED
      BY <3>1, <3>2, <3>3, GivingStep
  <2>3. CASE AddTake(f) /\ freeSlot[Slot(f)]
    <3>1. /\ Slot(f) \in Slots
          /\ freeSlot' = [freeSlot EXCEPT ![Slot(f)] = FALSE]
          /\ UNCHANGED <<inUse, fiberIndex>>
          /\ call[f].pc \notin Exclusive
          /\ call' = [call EXCEPT ![f].pc = "addStore"]
      BY <2>3 DEF AddTake
    <3>2. inUse' = [inUse EXCEPT ![Slot(f)] = TRUE]
      BY <2>3, <3>1 DEF SlotInv, PublishedIsClaimed, CounterTypeOK
    <3>3. Slot(f)' = Slot(f) /\ call' = [call EXCEPT ![f] = call'[f]] /\ call'[f].pc \in Exclusive
      BY <3>1 DEF Slot
    <3>4. QED
      BY <2>3, <3>1, <3>2, <3>3, TakingStep
  <2>4. CASE AddTake(f) /\ ~freeSlot[Slot(f)]
    <3>1. /\ UNCHANGED slotVars
          /\ call' = [call EXCEPT ![f] = call'[f]]
          /\ call[f].pc \notin Exclusive /\ call'[f].pc \notin Exclusive
      BY <2>4 DEF AddTake
    <3>2. QED
      BY <3>1, QuietStep
  <2>5. CASE AddStore(f)
    <3>1. /\ call' = [call EXCEPT ![f] = call'[f]]
          /\ call'[f].pc \notin Exclusive
          /\ Slot(f) \in Slots /\ Holds(f, Slot(f))
      BY <2>5 DEF AddStore, Holds
    <3>2. /\ inUse' = [inUse EXCEPT ![Slot(f)] = FALSE]
          /\ \E g \in Fibers : fiberIndex' = [fiberIndex EXCEPT ![Slot(f)] = g]
          /\ UNCHANGED freeSlot
      BY <2>5 DEF AddStore, CounterTypeOK
    <3>3. QED
      BY <3>1, <3>2, GivingStep
  <2>8. CASE AddAcquire(f) /\ inUse[Slot(f)]
    <3>1. /\ UNCHANGED slotVars
          /\ call' = [call EXCEPT ![f] = call'[f]]
          /\ call[f].pc \notin Exclusive /\ call'[f].pc \notin Exclusive
      BY <2>8 DEF AddAcquire, CounterTypeOK
    <3>2. QED
      BY <3>1, QuietStep
  <2>9. CASE AddAcquire(f) /\ ~inUse[Slot(f)]
    <3>1. /\ Slot(f) \in Slots
          /\ inUse' = [inUse EXCEPT ![Slot(f)] = TRUE]
          /\ UNCHANGED <<freeSlot, fiberIndex>>
          /\ call[f].pc \notin Exclusive
          /\ call' = [call EXCEPT ![f].pc = "addRelease"]
      BY <2>9 DEF AddAcquire
    <3>2. freeSlot' = [freeSlot EXCEPT ![Slot(f)] = FALSE]
      BY <2>9, <3>1 DEF SlotInv, PublishedIsClaimed, CounterTypeOK
    <3>3. Slot(f)' = Slot(f) /\ call' = [call EXCEPT ![f] = call'[f]] /\ call'[f].pc \in Exclusive
      BY <3>1 DEF Slot
    <3>4. QED
      BY <2>9, <3>1, <3>2, <3>3, TakingStep
  <2>6. CASE AddRelease(f)
    <3>1. /\ call' = [call EXCEPT ![f] = call'[f]]
          /\ call'[f].pc \notin Exclusive
          /\ Slot(f) \in Slots /\ Holds(f, Slot(f))
      BY <2>6 DEF AddRelease, Holds
    <3>2. /\ freeSlot' = [freeSlot EXCEPT ![Slot(f)] = TRUE]
          /\ UNCHANGED <<inUse, fiberIndex>>
      BY <2>6 DEF AddRelease
    <3>3. QED
      BY <3>1, <3>2, GivingStep
  <2>7. QED
    BY <1>3, <2>1, <2>2, <2>3, <2>4, <2>5, <2>6, <2>8, <2>9 DEF CounterStep
<1>4. CASE CheckAcquire(f)
  <2>1. /\ Slot(f) \in Slots /\ ~inUse[Slot(f)]
        /\ inUse' = [inUse EXCEPT ![Slot(f)] = TRUE]
        /\ UNCHANGED <<freeSlot, fiberIndex>>
        /\ call[f].pc \notin Exclusive
        /\ call' = [call EXCEPT ![f].pc = "checkRelease"]
    BY <1>0, <1>4 DEF CheckAcquire, At, Goto, Exclusive
  <2>2. freeSlot' = [freeSlot EXCEPT ![Slot(f)] = FALSE]
    BY <2>1 DEF SlotInv, PublishedIsClaimed, CounterTypeOK
  <2>3. Slot(f)' = Slot(f) /\ call' = [call EXCEPT ![f] = call'[f]] /\ call'[f].pc \in Exclusive
    BY <1>0, <2>1 DEF Slot, Call, Exclusive
  <2>4. QED
    BY <2>1, <2>2, <2>3, TakingStep
<1>5. CASE call[f].pc \in {"added", "pending", "full"} /\ Return(f) /\ UNCHANGED <<counter, slotVars>>
  <2>1. /\ call' = [call EXCEPT ![f] = call'[f]]
        /\ call'[f].pc = "idle"
    BY <1>0, <1>5 DEF Return, NoCall
  <2>2. QED
    BY <1>5, <2>1, QuietStep DEF Exclusive
<1>6. QED
  BY <1>1, <1>2, <1>3, <1>4, <1>5 DEF CounterNext
=============================================================================

---------------------------- MODULE BaseCounter ----------------------------
(***************************************************************************)
(* detail::BaseCounter (code/fiber/Counter.cpp): an atomic counter with a  *)
(* small array of waiting slots.  Increment and Decrement change the value *)
(* and then walk the slots, handing every fiber whose target is the value  *)
(* they produced to the scheduler; AddWaitingFiber puts a fiber in a slot  *)
(* unless the counter already has its target value.                        *)
(*                                                                         *)
(* The calls hold no lock.  An action is one access to an atomic variable, *)
(* with the thread-local work up to the next one.  Plain slot fields are   *)
(* written by the claimer before its store to _inUse and read either after *)
(* a load of _inUse or after a successful exchange on it.  The order is    *)
(* sequentially consistent: the only targets of the build are x86 and x64, *)
(* where the read-modify-writes and the seq_cst store that order the       *)
(* publication before the re-read of the counter are full fences.          *)
(*                                                                         *)
(* The module is open: it has the steps of a call, made by the fiber on    *)
(* whose stack it runs, and leaves to its users when a call starts and     *)
(* what becomes of a fiber that CheckAcquire hands over.                   *)
(***************************************************************************)
EXTENDS Integers

CONSTANTS
  Fibers,      \* the fibers that call
  Counters,    \* the counters in use
  NoFiber,     \* UINT16_MAX, the _fiberIndex of a slot that was never used
  NoCounter,   \* a null BaseCounter*
  NumSlots,    \* _numWaitingFibers: MAX_WAITING for a Counter, 1 for a TinyCounter
  UnitMod      \* 2^32, the number of values of Unit_t (uint32_t)

ASSUME CounterAssumption ==
  /\ NoFiber \notin Fibers
  /\ NoCounter \notin Counters
  /\ NumSlots \in Nat \ {0}
  /\ UnitMod \in Nat \ {0}

VARIABLES
  counter,      \* _counter of every counter
  freeSlot,     \* _freeWaitingSlots[i]
  inUse,        \* _waitingFibers[i]._inUse
  fiberIndex,   \* _waitingFibers[i]._fiberIndex
  targetValue,  \* _waitingFibers[i]._targetValue
  call          \* the registers of the call each fiber is in

counterVars == <<counter, freeSlot, inUse, fiberIndex, targetValue, call>>

Unit  == 0 .. UnitMod - 1
SlotIndex == 0 .. NumSlots - 1
Slots == Counters \X SlotIndex

\* Where a call can be: "idle" outside, check* in CheckWaitingFibers, add* in
\* AddWaitingFiber; added, pending and full are the three ways AddWaitingFiber
\* ends (true, false, exception), left for the caller to look at.
CallPC ==
  { "idle",
    "checkFree", "checkInUse", "checkTarget", "checkAcquire", "checkRelease",
    "addTake", "addStore", "addLoad", "addInUse", "addTarget", "addAcquire", "addRelease",
    "added", "pending", "full" }

\* pc; the counter called; loop index i; the value being checked or the value
\* AddWaitingFiber loaded; the fiber to register and its target.
Call == [pc : CallPC, ctr : Counters \cup {NoCounter}, i : SlotIndex,
         value : Unit, fiber : Fibers \cup {NoFiber}, target : Unit]

NoCall == [pc |-> "idle", ctr |-> NoCounter, i |-> 0, value |-> 0,
           fiber |-> NoFiber, target |-> 0]

Slot(f) == <<call[f].ctr, call[f].i>>

\* A bug: the slots start with _inUse false.
CounterInitPublished ==
  /\ counter     = [c \in Counters |-> 0]
  /\ freeSlot    = [s \in Slots |-> TRUE]
  /\ inUse       = [s \in Slots |-> FALSE]
  /\ fiberIndex  = [s \in Slots |-> NoFiber]
  /\ targetValue = [s \in Slots |-> 0]
  /\ call        = [f \in Fibers |-> NoCall]

\* A constructed Counter: value 0, every slot free (InternalInit) and its
\* _inUse at the default true.
CounterInit ==
  /\ counter     = [c \in Counters |-> 0]
  /\ freeSlot    = [s \in Slots |-> TRUE]
  /\ inUse       = [s \in Slots |-> TRUE]
  /\ fiberIndex  = [s \in Slots |-> NoFiber]
  /\ targetValue = [s \in Slots |-> 0]
  /\ call        = [f \in Fibers |-> NoCall]

----------------------------------------------------------------------------
(* Moving inside a call.                                                   *)

At(f, pc) == call[f].pc = pc
Goto(f, pc) == call' = [call EXCEPT ![f].pc = pc]
Return(f) == call' = [call EXCEPT ![f] = NoCall]

slotVars == <<freeSlot, inUse, fiberIndex, targetValue>>

\* A bug: the loop over the slots runs one turn too far.
NextSlotTooFar(f, pc, after) ==
  IF call[f].i \in SlotIndex
    THEN call' = [call EXCEPT ![f].i = @ + 1, ![f].pc = pc]
    ELSE after

\* Next turn of the loop over the slots, at pc, or after at the end of it.
NextSlot(f, pc, after) ==
  IF call[f].i + 1 \in SlotIndex
    THEN call' = [call EXCEPT ![f].i = @ + 1, ![f].pc = pc]
    ELSE after

----------------------------------------------------------------------------
(* Increment and Decrement: fetch_add or fetch_sub of n, then              *)
(* CheckWaitingFibers on the value that this very call produced.           *)

StartCheck(f, c, v) ==
  /\ At(f, "idle")
  /\ counter' = [counter EXCEPT ![c] = v]
  /\ call' = [call EXCEPT ![f].pc = "checkFree", ![f].ctr = c, ![f].value = v]
  /\ UNCHANGED slotVars

Increment(f, c, n) == StartCheck(f, c, (counter[c] + n) % UnitMod)
Decrement(f, c, n) == StartCheck(f, c, (counter[c] - n) % UnitMod)

SkipSlot(f) == NextSlot(f, "checkFree", Return(f))

CheckFree(f) ==
  /\ At(f, "checkFree")
  /\ IF freeSlot[Slot(f)] THEN SkipSlot(f) ELSE Goto(f, "checkInUse")
  /\ UNCHANGED <<counter, slotVars>>

CheckInUse(f) ==
  /\ At(f, "checkInUse")
  /\ IF inUse[Slot(f)] THEN SkipSlot(f) ELSE Goto(f, "checkTarget")
  /\ UNCHANGED <<counter, slotVars>>

\* A bug: whoever waits is woken, whatever for.
CheckTargetAny(f) ==
  /\ At(f, "checkTarget")
  /\ Goto(f, "checkAcquire")
  /\ UNCHANGED <<counter, slotVars>>

CheckTarget(f) ==
  /\ At(f, "checkTarget")
  /\ IF targetValue[Slot(f)] # call[f].value THEN SkipSlot(f) ELSE Goto(f, "checkAcquire")
  /\ UNCHANGED <<counter, slotVars>>

\* The exchange on _inUse succeeds: the registration is this call's, and
\* Handed(f) goes to the ready list of the thread the call runs on.
CheckAcquire(f) ==
  /\ At(f, "checkAcquire")
  /\ ~inUse[Slot(f)]
  /\ inUse' = [inUse EXCEPT ![Slot(f)] = TRUE]
  /\ Goto(f, "checkRelease")
  /\ UNCHANGED <<counter, freeSlot, fiberIndex, targetValue>>

Handed(f) == fiberIndex[Slot(f)]

CheckAcquireFails(f) ==
  /\ At(f, "checkAcquire")
  /\ inUse[Slot(f)]
  /\ SkipSlot(f)
  /\ UNCHANGED <<counter, slotVars>>

\* A bug: the slot is not given back after a wake-up.
CheckReleaseNot(f) ==
  /\ At(f, "checkRelease")
  /\ SkipSlot(f)
  /\ UNCHANGED <<counter, slotVars>>

CheckRelease(f) ==
  /\ At(f, "checkRelease")
  /\ freeSlot' = [freeSlot EXCEPT ![Slot(f)] = TRUE]
  /\ SkipSlot(f)
  /\ UNCHANGED <<counter, inUse, fiberIndex, targetValue>>

----------------------------------------------------------------------------
(* AddWaitingFiber.                                                        *)

StartAdd(f, c, fiber, target) ==
  /\ At(f, "idle")
  /\ call' = [call EXCEPT ![f] = [NoCall EXCEPT !.pc = "addTake", !.ctr = c,
                                                !.fiber = fiber, !.target = target]]
  /\ UNCHANGED <<counter, slotVars>>

\* A bug: a load where the exchange is, so two calls can find one slot free.
AddTakeLoaded(f) ==
  /\ At(f, "addTake")
  /\ IF freeSlot[Slot(f)] THEN Goto(f, "addStore") ELSE NextSlot(f, "addTake", Goto(f, "full"))
  /\ UNCHANGED <<counter, slotVars>>

\* Acquire a free slot: the exchange on _freeWaitingSlots[i], or the next i;
\* past the last one the call throws EX_COUNTER_WAITINGS_SLOTS_FULL.
AddTake(f) ==
  /\ At(f, "addTake")
  /\ IF freeSlot[Slot(f)]
       THEN /\ freeSlot' = [freeSlot EXCEPT ![Slot(f)] = FALSE]
            /\ Goto(f, "addStore")
       ELSE /\ NextSlot(f, "addTake", Goto(f, "full"))
            /\ UNCHANGED freeSlot
  /\ UNCHANGED <<counter, inUse, fiberIndex, targetValue>>

\* A bug: no second look at the counter after the registration.
AddStoreOnly(f) ==
  /\ At(f, "addStore")
  /\ fiberIndex'  = [fiberIndex EXCEPT ![Slot(f)] = call[f].fiber]
  /\ targetValue' = [targetValue EXCEPT ![Slot(f)] = call[f].target]
  /\ inUse'       = [inUse EXCEPT ![Slot(f)] = FALSE]
  /\ Goto(f, "pending")
  /\ UNCHANGED <<counter, freeSlot>>

\* Fill the slot in and publish it: after the store to _inUse it can be taken.
AddStore(f) ==
  /\ At(f, "addStore")
  /\ fiberIndex'  = [fiberIndex EXCEPT ![Slot(f)] = call[f].fiber]
  /\ targetValue' = [targetValue EXCEPT ![Slot(f)] = call[f].target]
  /\ inUse'       = [inUse EXCEPT ![Slot(f)] = FALSE]
  /\ Goto(f, "addLoad")
  /\ UNCHANGED <<counter, freeSlot>>

AddLoad(f) ==
  /\ At(f, "addLoad")
  /\ call' = [call EXCEPT ![f].pc = "addInUse", ![f].value = counter[call[f].ctr]]
  /\ UNCHANGED <<counter, slotVars>>

AddInUse(f) ==
  /\ At(f, "addInUse")
  /\ Goto(f, IF inUse[Slot(f)] THEN "pending" ELSE "addTarget")
  /\ UNCHANGED <<counter, slotVars>>

\* A bug: the value is not compared before the wait is called off.
AddTargetAny(f) ==
  /\ At(f, "addTarget")
  /\ Goto(f, "addAcquire")
  /\ UNCHANGED <<counter, slotVars>>

AddTarget(f) ==
  /\ At(f, "addTarget")
  /\ Goto(f, IF targetValue[Slot(f)] # call[f].value THEN "pending" ELSE "addAcquire")
  /\ UNCHANGED <<counter, slotVars>>

\* A bug: the outcome of the exchange is ignored.
AddAcquireAnyway(f) ==
  /\ At(f, "addAcquire")
  /\ inUse' = [inUse EXCEPT ![Slot(f)] = TRUE]
  /\ Goto(f, "addRelease")
  /\ UNCHANGED <<counter, freeSlot, fiberIndex, targetValue>>

\* The counter already has the target: take the registration back, unless a
\* CheckWaitingFibers has taken it first.
AddAcquire(f) ==
  /\ At(f, "addAcquire")
  /\ inUse' = [inUse EXCEPT ![Slot(f)] = TRUE]
  /\ Goto(f, IF inUse[Slot(f)] THEN "pending" ELSE "addRelease")
  /\ UNCHANGED <<counter, freeSlot, fiberIndex, targetValue>>

\* A bug: false is returned for a wait that was called off.
AddReleaseFalse(f) ==
  /\ At(f, "addRelease")
  /\ freeSlot' = [freeSlot EXCEPT ![Slot(f)] = TRUE]
  /\ Goto(f, "pending")
  /\ UNCHANGED <<counter, inUse, fiberIndex, targetValue>>

AddRelease(f) ==
  /\ At(f, "addRelease")
  /\ freeSlot' = [freeSlot EXCEPT ![Slot(f)] = TRUE]
  /\ Goto(f, "added")
  /\ UNCHANGED <<counter, inUse, fiberIndex, targetValue>>

----------------------------------------------------------------------------
\* The steps of a call that concern nobody but the counter; the exception is
\* CheckAcquire, which also hands a fiber over.
CounterStep(f) ==
  \/ CheckFree(f) \/ CheckInUse(f) \/ CheckTarget(f)
  \/ CheckAcquireFails(f) \/ CheckRelease(f)
  \/ AddTake(f) \/ AddStore(f) \/ AddLoad(f)
  \/ AddInUse(f) \/ AddTarget(f) \/ AddAcquire(f) \/ AddRelease(f)

CounterTypeOK ==
  /\ counter \in [Counters -> Unit]
  /\ freeSlot \in [Slots -> BOOLEAN]
  /\ inUse \in [Slots -> BOOLEAN]
  /\ fiberIndex \in [Slots -> Fibers \cup {NoFiber}]
  /\ targetValue \in [Slots -> Unit]
  /\ call \in [Fibers -> Call]
  /\ \A f \in Fibers : call[f].pc # "idle" => call[f].ctr \in Counters
  /\ \A f \in Fibers : call[f].pc \in {"addTake", "addStore"} => call[f].fiber \in Fibers

----------------------------------------------------------------------------
(* The life of a slot: free, claimed by one AddWaitingFiber, published,    *)
(* taken by one exchange on _inUse, free again.                            *)

\* f has slot s to itself: it has claimed it and not published it, or it has
\* taken the registration and not freed the slot.
Holds(f, s) ==
  /\ call[f].pc \in {"addStore", "addRelease", "checkRelease"}
  /\ Slot(f) = s

\* Counter.cpp:68-127.  At most one call at a time has a slot to itself, so
\* the plain fields are never written by two fibers, nor read after a take
\* while another writes; a free slot and a published one are nobody's.
SlotExclusive ==
  \A s \in Slots :
    /\ \A f, g \in Fibers : Holds(f, s) /\ Holds(g, s) => f = g
    /\ (freeSlot[s] \/ ~inUse[s]) => \A f \in Fibers : ~Holds(f, s)

\* Counter.cpp:97,127.  No slot leaks: one that is neither free nor published
\* is in the hands of a call that will publish or free it.
NoSlotLeak ==
  \A s \in Slots :
    (~freeSlot[s] /\ inUse[s]) => \E f \in Fibers : Holds(f, s)

\* Counter.cpp:76-80,117-126.  A published slot is not free (so no other fiber
\* can claim it) and names a fiber (so no UINT16_MAX reaches a ready list).
PublishedIsClaimed ==
  \A s \in Slots : ~inUse[s] => ~freeSlot[s] /\ fiberIndex[s] \in Fibers
=============================================================================

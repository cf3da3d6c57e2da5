CONSTANTS
  main = main  w1 = w1  w2 = w2  other = other  c1 = c1
  Fibers = {main, other, w1, w2}
  Counters = {c1}
  NoFiber = NoFiber
  NoCounter = NoCounter
  NumSlots = 2
  UnitMod = 4
  Scripts <- AllScripts
SPECIFICATION Spec
INVARIANTS TypeOK SlotExclusive NoSlotLeak PublishedIsClaimed WokenOnce NoLostWaiter
PROPERTIES WaitEndsAtTarget LoneWaiterReturns
\* Of several waiters one can be left behind, which stops the system.
CHECK_DEADLOCK FALSE

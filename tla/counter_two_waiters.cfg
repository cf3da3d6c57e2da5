CONSTANTS
  main = main  w1 = w1  w2 = w2  other = other  c1 = c1
  Fibers = {main, other, w1, w2}
  Counters = {c1}
  NoFiber = NoFiber
  NoCounter = NoCounter
  NumSlots = 2
  UnitMod = 4
  Scripts <- TwoWaitersOnly
SPECIFICATION Spec
PROPERTIES WaitersReturn
\* The lost waiter stops the system.
CHECK_DEADLOCK FALSE

CONSTANTS
  main = main  a = a  b = b  c = c  d = d  c1 = c1  c2 = c2
  NumThreads = 1
  NumFibers = 5
  Fibers <- AllFibers
  Counters = {c1, c2}
  NoFiber = NoFiber
  NoCounter = NoCounter
  NumSlots = 1
  UnitMod = 4
  Jobs = {a, b, c, d}
  MainJob = main
  NoJob = NoJob
  QueueSize <- Queues2
  Programs <- IOWaitOnly
SPECIFICATION Prompt
PROPERTIES WaitsEnd

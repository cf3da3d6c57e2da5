CONSTANTS
  main = main  a = a  b = b  c = c  d = d  c1 = c1  c2 = c2
  NumThreads = 2
  NumFibers = 6
  Fibers <- AllFibers
  Counters = {c1, c2}
  NoFiber = NoFiber
  NoCounter = NoCounter
  NumSlots = 1
  UnitMod = 8
  Jobs = {a, b, c, d}
  MainJob = main
  NoJob = NoJob
  QueueSize <- Queues2
  Programs <- SoundPrograms
SPECIFICATION Prompt
INVARIANTS TypeOK SameThread FiberIsLeft ReadyOnce Consecutive NeverFull
PROPERTIES WaitMeansDone RunReturns ShutdownEnds WaitsEnd IsJobService

CONSTANTS
  main = main  worker = worker  again = again  later = later  nested = nested
  bad = bad  poll = poll  fails = fails  next = next  early = early
  Threads = {main, worker}
  Jobs = {again, later, nested, bad, poll, fails, next, early}
  NoJob = NoJob
  Body <- Program
  Rounds <- OneRound
  Delayed = {later, early}
  Throwing = {bad, nested, fails}
  Then <- Continuations
  Runners = {main}
SPECIFICATION Spec
INVARIANTS TypeOK ContinuedOnce OneOwner
PROPERTIES JobsEnd

CONSTANTS
  NumThreads = 4
  NoId = NoId
SPECIFICATION Spec
INVARIANTS TypeOK OwnTLS FlagsFirst NoneLeftBehind
PROPERTIES Starts
\* A Run that has returned, or that finds no fiber for a thread, does no more.
CHECK_DEADLOCK FALSE

SPECIFICATION PromptSpec
CHECK_DEADLOCK FALSE
CONSTANTS
  Callers = {c1, c2, c3}
  Prints = {p, q}
  TTL = 2
  ProcessingTimeout = 1
  FailedRetryBackoff = 1
  MaxTime = 2
  NoRecord = NoRecord
SYMMETRY Symmetry
INVARIANT ConcurrentOnce

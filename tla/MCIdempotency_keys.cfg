SPECIFICATION Spec
CHECK_DEADLOCK FALSE
CONSTANTS
  Callers = {c1, c2, c3}
  Prints = {p, q}
  TTL = 3
  ProcessingTimeout = 1
  FailedRetryBackoff = 1
  MaxTime = 4
  NoRecord = NoRecord
SYMMETRY Symmetry
INVARIANT TypeOK
INVARIANT OnceBeforeExpiry
INVARIANT OneAtATime
INVARIANT ReplayIsARealAnswer
PROPERTY AnswerIsFinal

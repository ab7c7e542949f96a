SPECIFICATION FairSpec
CONSTANTS
  q1 = q1
  q2 = q2
  w1 = w1
  a1 = a1
  s1 = s1
  g1 = g1
  k1 = k1
  c1 = c1
  Requests = {q1, q2}
  Workers = {w1}
  Admins = {a1}
  Syncers = {s1}
  Casts <- MCCasts
  Procs = {g1, k1, c1}
  ProcOf <- MCProcOf
  MaxRetries = 2
  MaxGen = 1
  MaxFaults <- MCMaxFaults
  None = None
CHECK_DEADLOCK FALSE
INVARIANTS
  TypeOK
  TokenKept
  NotCondemned
  ServedIsCurrent
PROPERTIES
  TokensGetRefreshed
  SchedulerCatchesUp

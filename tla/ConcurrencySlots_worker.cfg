SPECIFICATION Spec
CONSTANTS
  Requests = {r1, r2, r3}
  MaxConcurrency = 1
  MaxWait = 2
  SlotTTL = 2
  WaitTTL = 2
  MaxStarts = 1
INVARIANT LimitSurvivesWorker

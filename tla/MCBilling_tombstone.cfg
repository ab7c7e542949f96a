SPECIFICATION Spec
CONSTANTS
  c1 = c1  c2 = c2  f1 = f1
  k1 = k1  a1 = a1  fp1 = fp1  fp2 = fp2  w1 = w1  w2 = w2  p1 = p1
  Events <- OneCharge
  KeyOf <- OneChargeKey
  KindOf <- OneChargeKind
  AccountOf <- OneChargeAccount
  PrintOf <- OneChargePrint
  HasLog <- WithLog
  Keys = {k1}
  Accounts = {a1}
  Prints = {fp1, fp2}
  NoPrint = NoPrint
  Readers = {w1}
  Recoverers = {w2}
  Procs = {p1}
  ProcOf <- OneProc
  PublishRetries = 2
  MaxLen = 0
  BatchSize = 1
  MaxRetryCount = 2
  MaxStops = 0
INVARIANTS TombstonedStaysDeleted
CHECK_DEADLOCK FALSE

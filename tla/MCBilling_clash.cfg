SPECIFICATION Spec
CONSTANTS
  c1 = c1  c2 = c2  f1 = f1
  k1 = k1  a1 = a1  fp1 = fp1  fp2 = fp2  w1 = w1  w2 = w2  p1 = p1
  Events <- Clash
  KeyOf <- ClashKey
  KindOf <- ClashKind
  AccountOf <- ClashAccount
  PrintOf <- ClashPrint
  HasLog <- ClashLog
  Keys = {k1}
  Accounts = {a1}
  Prints = {fp1, fp2}
  NoPrint = NoPrint
  Readers = {w1}
  Recoverers = {w2}
  Procs = {p1}
  ProcOf <- OneProc
  PublishRetries = 1
  MaxLen = 1
  BatchSize = 1
  MaxRetryCount = 1
  MaxStops = 0
INVARIANTS LedgerMatchesCharges AckedIsAccountedFor
CHECK_DEADLOCK FALSE

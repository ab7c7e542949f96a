SPECIFICATION CountedSpec
CONSTANTS
  c1 = c1  c2 = c2  f1 = f1  r1 = r1
  k1 = k1  a1 = a1  fp1 = fp1  fp2 = fp2  w1 = w1  w2 = w2  w3 = w3  p1 = p1  p2 = p2
  Events <- OneReserve
  KeyOf <- ReserveKey
  KindOf <- ReserveKind
  AccountOf <- ReserveAccount
  PrintOf <- ReservePrint
  HasLog <- ReserveLog
  Keys = {k1}
  Accounts = {a1}
  Prints = {fp1, fp2}
  NoPrint = NoPrint
  Readers = {w1}
  Recoverers = {w2, w3}
  Procs = {p1, p2}
  ProcOf <- TwoProcs
  PublishRetries = 1
  MaxLen = 0
  BatchSize = 1
  MaxRetryCount = 3
  MaxStops = 1
INVARIANTS HandlerRunsBounded AckedIsAccountedFor
CHECK_DEADLOCK FALSE

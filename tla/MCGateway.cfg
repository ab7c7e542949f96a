SPECIFICATION FairSpec
CONSTANTS
  r1 = r1
  r2 = r2
  r3 = r3
  r4 = r4
  a1 = a1
  a2 = a2
  Requests <- MCRequests
  Accounts <- MCAccounts
  Mixes <- MCMixes
  Primary <- MCPrimary
  Fallback <- MCFallback
  Serialized <- MCSerialized
  MaxSwitches <- MCMaxSwitches
  MaxSame = 1
  NoAccount = NoAccount
  Free = Free
  Orphan = Orphan
CHECK_DEADLOCK FALSE
INVARIANTS
  TypeOK
  NoSplice
  EndIsCharged
  ReservationsSettled
  OneSender
  NothingHeld
  AttemptsBounded
PROPERTIES
  RequestsEnd
  LocksComeBack

----------------------------- MODULE SlotsProofs -----------------------------
(***************************************************************************)
(* The safety properties of ConcurrencySlots for every number of requests, *)
(* every limit, every wait queue and every TTL.  The invariant adds to the *)
(* properties what makes them inductive: how many members the set has,     *)
(* that entitled requests are among them, that the key of the set expires  *)
(* after its members, and where a handler is when it is counted or has     *)
(* released.                                                               *)
(***************************************************************************)
EXTENDS ConcurrencySlots, FiniteSetTheorems, TLAPS

Waiting == {"try", "poll", "acquired", "leave"}

\* The sorted set never has more members than the limit.
BoundedSet == Cardinality(slots) <= MaxConcurrency

\* A request that is entitled to its slot has it.
EntitledHaveSlots == starts = 0 => Entitled \subseteq slots

\* The key of the set is renewed with every member, so it expires after them.
KeyOutlivesMembers ==
  \A r \in slots : keyAge <= age[r]

\* waitCounted is true from the increment to one of the two decrements.
CountedWhileWaiting == \A r \in Requests : r \in counted <=> pc[r] \in Waiting

\* Only a request with a slot releases one.
ReleasedAfterRun == \A r \in Requests : r \in released => pc[r] \in {"run", "end"}

\* The counter is the number of counted requests.
CounterExact == ~disturbed => wait = Cardinality(counted)

SlotsInv ==
  /\ TypeOK
  /\ BoundedSet
  /\ EntitledHaveSlots
  /\ KeyOutlivesMembers
  /\ NoLeak
  /\ CounterExact
  /\ CountedWhileWaiting
  /\ ReleasedAfterRun

-----------------------------------------------------------------------------
\* Subsets of the requests are finite, and their size is a natural number.
LEMMA SubsetsAreFinite ==
  ASSUME NEW S \in SUBSET Requests
  PROVE  IsFiniteSet(S) /\ Cardinality(S) \in Nat
BY SlotsAssumption, FS_Subset, FS_CardinalityType

\* Taking members away does not make the set larger.
LEMMA FewerMembers ==
  ASSUME NEW S \in SUBSET Requests, NEW T \in SUBSET S
  PROVE  Cardinality(T) <= Cardinality(S)
BY SubsetsAreFinite, FS_Subset

\* A new member makes the set larger by one.
LEMMA OneMore ==
  ASSUME NEW S \in SUBSET Requests, NEW r \in Requests, r \notin S
  PROVE  Cardinality(S \cup {r}) = Cardinality(S) + 1
BY SubsetsAreFinite, FS_AddElement

\* Any member makes the set larger by one at most.
LEMMA AtMostOneMore ==
  ASSUME NEW S \in SUBSET Requests, NEW r \in Requests
  PROVE  Cardinality(S \cup {r}) <= Cardinality(S) + 1
<1>1. CASE r \in S
  <2>1. S \cup {r} = S
    BY <1>1
  <2>2. QED
    BY <2>1, SubsetsAreFinite
<1>2. CASE r \notin S
  BY <1>2, OneMore, SubsetsAreFinite
<1>3. QED
  BY <1>1, <1>2

\* A member that leaves makes the set smaller by one.
LEMMA OneLess ==
  ASSUME NEW S \in SUBSET Requests, NEW r \in S
  PROVE  Cardinality(S) > 0 /\ Cardinality(S \ {r}) = Cardinality(S) - 1
<1>1. IsFiniteSet(S) /\ Cardinality(S) \in Nat
  BY SubsetsAreFinite
<1>2. Cardinality(S \ {r}) = Cardinality(S) - 1
  BY <1>1, FS_RemoveElement
<1>3. S \ {r} \in SUBSET Requests
  OBVIOUS
<1>4. Cardinality(S \ {r}) \in Nat
  BY <1>3, SubsetsAreFinite
<1>5. QED
  BY <1>1, <1>2, <1>4

-----------------------------------------------------------------------------
\* At first there is no request and no slot.
LEMMA SlotsInit == Init => SlotsInv
<1> SUFFICES ASSUME Init PROVE SlotsInv
  OBVIOUS
<1>1. Cardinality({}) = 0
  BY FS_EmptySet
<1>2. TypeOK
  <2>1. slots \subseteq Requests /\ counted \subseteq Requests /\ released \subseteq Requests
    BY DEF Init
  <2>2. age \in [Requests -> 0 .. SlotTTL] /\ pc \in [Requests -> Pcs]
    BY SlotsAssumption DEF Init, Pcs
  <2>3. /\ wait \in 0 .. MaxWait /\ waitAge \in 0 .. WaitTTL /\ starts \in 0 .. MaxStarts
        /\ keyAge \in 0 .. SlotTTL
    BY SlotsAssumption DEF Init
  <2>4. disturbed \in BOOLEAN
    BY DEF Init
  <2>5. QED
    BY <2>1, <2>2, <2>3, <2>4 DEF TypeOK
<1>3. BoundedSet
  BY <1>1, SlotsAssumption DEF Init, BoundedSet
<1>4. EntitledHaveSlots /\ NoLeak /\ KeyOutlivesMembers
  BY DEF Init, EntitledHaveSlots, NoLeak, KeyOutlivesMembers, Entitled, InUse
<1>5. CounterExact
  BY <1>1 DEF Init, CounterExact
<1>6. CountedWhileWaiting /\ ReleasedAfterRun
  BY DEF Init, CountedWhileWaiting, ReleasedAfterRun, Waiting
<1>7. QED
  BY <1>2, <1>3, <1>4, <1>5, <1>6 DEF SlotsInv

\* A step that adds no member and lets no time pass.
LEMMA KeyKept ==
  ASSUME SlotsInv, slots' \in SUBSET slots, age' = age, keyAge' \in {keyAge, 0}
  PROVE  KeyOutlivesMembers'
BY DEF SlotsInv, TypeOK, KeyOutlivesMembers

\* A step that leaves the counter and the counted requests alone.
LEMMA CounterKept ==
  ASSUME SlotsInv, wait' = wait, counted' = counted, disturbed => disturbed'
  PROVE  CounterExact'
BY DEF SlotsInv, CounterExact

\* The handler begins (IncrementWaitCount).
LEMMA IncrementKeeps ==
  ASSUME SlotsInv, NEW r \in Requests, IncrementWaitCount(r)
  PROVE  SlotsInv'
<1> USE DEF SlotsInv
<1>1. TypeOK'
  <2>1. slots' \subseteq Requests /\ counted' \subseteq Requests /\ released' \subseteq Requests
    BY DEF TypeOK, IncrementWaitCount
  <2>2. age' \in [Requests -> 0 .. SlotTTL] /\ keyAge' \in 0 .. SlotTTL
    BY SlotsAssumption DEF TypeOK, IncrementWaitCount
  <2>3. wait' \in 0 .. MaxWait /\ waitAge' \in 0 .. WaitTTL
    BY SlotsAssumption DEF TypeOK, IncrementWaitCount, CanCount
  <2>4. pc' \in [Requests -> Pcs]
    BY DEF TypeOK, Pcs, IncrementWaitCount, GoTo
  <2>5. disturbed' \in BOOLEAN /\ starts' \in 0 .. MaxStarts
    BY DEF TypeOK, IncrementWaitCount
  <2>6. QED
    BY <2>1, <2>2, <2>3, <2>4, <2>5 DEF TypeOK
<1>2. BoundedSet'
  BY DEF BoundedSet, IncrementWaitCount
<1>3. InUse' = InUse
  BY DEF TypeOK, InUse, IncrementWaitCount, GoTo
<1>4. EntitledHaveSlots'
  BY <1>3 DEF EntitledHaveSlots, Entitled, IncrementWaitCount
<1>5. NoLeak'
  BY <1>3 DEF NoLeak, TypeOK, IncrementWaitCount
<1>6. CounterExact'
  <2> SUFFICES ASSUME ~disturbed' PROVE wait' = Cardinality(counted')
    BY DEF CounterExact
  <2>1. r \notin counted
    BY DEF CountedWhileWaiting, Waiting, IncrementWaitCount
  <2>2. Cardinality(counted \cup {r}) = Cardinality(counted) + 1
    BY <2>1, OneMore DEF TypeOK
  <2>3. QED
    BY <2>2 DEF CounterExact, IncrementWaitCount, TypeOK
<1>7. CountedWhileWaiting'
  BY DEF CountedWhileWaiting, Waiting, TypeOK, IncrementWaitCount, GoTo
<1>8. ReleasedAfterRun'
  BY DEF ReleasedAfterRun, TypeOK, IncrementWaitCount, GoTo
<1>9. KeyOutlivesMembers'
  BY KeyKept DEF IncrementWaitCount
<1>10. QED
  BY <1>1, <1>2, <1>4, <1>5, <1>6, <1>7, <1>8, <1>9

\* acquireScript, with its answer or without.
LEMMA AcquireKeeps ==
  ASSUME SlotsInv, NEW r \in Requests, Acquire(r)
  PROVE  SlotsInv'
<1> USE DEF SlotsInv
<1>1. TypeOK'
  <2>1. slots' \subseteq Requests /\ counted' \subseteq Requests /\ released' \subseteq Requests
    BY DEF TypeOK, Acquire
  <2>2. age' \in [Requests -> 0 .. SlotTTL] /\ keyAge' \in 0 .. SlotTTL
    BY SlotsAssumption DEF TypeOK, Acquire
  <2>3. wait' \in 0 .. MaxWait /\ waitAge' \in 0 .. WaitTTL
    BY SlotsAssumption DEF TypeOK, Acquire
  <2>4. pc' \in [Requests -> Pcs]
    BY DEF TypeOK, Pcs, Acquire, GoTo
  <2>5. disturbed' \in BOOLEAN /\ starts' \in 0 .. MaxStarts
    BY DEF TypeOK, Acquire
  <2>6. QED
    BY <2>1, <2>2, <2>3, <2>4, <2>5 DEF TypeOK
<1>2. BoundedSet'
  <2> DEFINE S == slots \ Expired
  <2>1. S \in SUBSET Requests /\ S \in SUBSET slots /\ slots \in SUBSET Requests
    BY DEF TypeOK
  <2>2. Cardinality(S) <= Cardinality(slots)
    BY <2>1, FewerMembers
  <2>3. Cardinality(S) \in Nat /\ Cardinality(slots) \in Nat
    BY <2>1, SubsetsAreFinite
  <2>4. CASE slots' = S
    BY <2>2, <2>3, <2>4, SlotsAssumption DEF BoundedSet
  <2>5. CASE slots' = S \cup {r} /\ FreeSlot(S)
    <3>1. Cardinality(S \cup {r}) <= Cardinality(S) + 1
      BY <2>1, AtMostOneMore
    <3>2. S \cup {r} \in SUBSET Requests
      BY <2>1
    <3>3. Cardinality(S \cup {r}) \in Nat
      BY <3>2, SubsetsAreFinite
    <3>4. Cardinality(S) < MaxConcurrency
      BY <2>5 DEF FreeSlot
    <3>5. Cardinality(slots') <= MaxConcurrency
      <4> HIDE DEF S
      <4> QED
        BY <2>3, <2>5, <3>1, <3>3, <3>4, SlotsAssumption
    <3>6. QED
      BY <3>5 DEF BoundedSet
  <2>6. QED
    BY <2>4, <2>5 DEF Acquire
<1>3. r \notin released
  BY DEF ReleasedAfterRun, Acquire
<1>4. EntitledHaveSlots'
  BY SlotsAssumption
  DEF EntitledHaveSlots, Entitled, InUse, Expired, TypeOK, Acquire, GoTo
<1>5. NoLeak'
  BY <1>3 DEF NoLeak, InUse, TypeOK, Acquire, GoTo
<1>6. CounterExact'
  BY CounterKept DEF Acquire
<1>7. CountedWhileWaiting'
  BY DEF CountedWhileWaiting, Waiting, TypeOK, Acquire, GoTo
<1>8. ReleasedAfterRun'
  BY <1>3 DEF ReleasedAfterRun, TypeOK, Acquire, GoTo
<1>9. KeyOutlivesMembers'
  BY SlotsAssumption DEF KeyOutlivesMembers, TypeOK, Acquire
<1>10. QED
  BY <1>1, <1>2, <1>4, <1>5, <1>6, <1>7, <1>8, <1>9

\* The wait ends without a slot.
LEMMA GiveUpKeeps ==
  ASSUME SlotsInv, NEW r \in Requests, GiveUp(r)
  PROVE  SlotsInv'
<1> USE DEF SlotsInv
<1>1. TypeOK'
  BY DEF TypeOK, Pcs, GiveUp, GoTo
<1>2. BoundedSet'
  BY DEF BoundedSet, GiveUp
<1>3. InUse' = InUse
  BY DEF TypeOK, InUse, GiveUp, GoTo
<1>4. EntitledHaveSlots' /\ NoLeak'
  BY <1>3 DEF EntitledHaveSlots, NoLeak, Entitled, GiveUp
<1>5. CounterExact'
  BY CounterKept DEF GiveUp
<1>6. CountedWhileWaiting' /\ ReleasedAfterRun'
  BY DEF CountedWhileWaiting, ReleasedAfterRun, Waiting, TypeOK, GiveUp, GoTo
<1>7. KeyOutlivesMembers'
  BY KeyKept DEF GiveUp
<1>8. QED
  BY <1>1, <1>2, <1>4, <1>5, <1>6, <1>7

\* decrementWaitScript for a request that is counted.
LEMMA DecrementIsExact ==
  ASSUME SlotsInv, NEW r \in counted, DecrementWaitCount, counted' = counted \ {r}
  PROVE  wait' \in 0 .. MaxWait /\ disturbed' \in BOOLEAN /\ CounterExact'
<1> USE DEF SlotsInv
<1>1. wait' \in 0 .. MaxWait /\ disturbed' \in BOOLEAN
  <2>1. wait' \in 0 .. MaxWait
    BY SlotsAssumption DEF DecrementWaitCount, TypeOK
  <2>2. disturbed' \in BOOLEAN
    BY Zenon DEF DecrementWaitCount, TypeOK
  <2>3. QED
    BY <2>1, <2>2
<1>2. Cardinality(counted) > 0 /\ Cardinality(counted \ {r}) = Cardinality(counted) - 1
  BY OneLess DEF TypeOK
<1>3. CounterExact'
  BY <1>2 DEF DecrementWaitCount, CounterExact, TypeOK
<1>4. QED
  BY <1>1, <1>3

\* The deferred decrement.
LEMMA LeaveKeeps ==
  ASSUME SlotsInv, NEW r \in Requests, Leave(r)
  PROVE  SlotsInv'
<1> USE DEF SlotsInv
<1>1. r \in counted
  BY DEF CountedWhileWaiting, Waiting, Leave
<1>2. wait' \in 0 .. MaxWait /\ disturbed' \in BOOLEAN /\ CounterExact'
  BY <1>1, DecrementIsExact DEF Leave
<1>3. TypeOK'
  BY <1>2 DEF TypeOK, Pcs, Leave, GoTo
<1>4. BoundedSet'
  BY DEF BoundedSet, Leave
<1>5. InUse' = InUse
  BY DEF TypeOK, InUse, Leave, GoTo
<1>6. EntitledHaveSlots'
  BY <1>5 DEF EntitledHaveSlots, Entitled, Leave
<1>7. NoLeak'
  BY <1>5 DEF NoLeak, Leave, DecrementWaitCount
<1>8. CountedWhileWaiting' /\ ReleasedAfterRun'
  BY DEF CountedWhileWaiting, ReleasedAfterRun, Waiting, TypeOK, Leave, GoTo
<1>9. KeyOutlivesMembers'
  BY KeyKept DEF Leave
<1>10. QED
  BY <1>2, <1>3, <1>4, <1>6, <1>7, <1>8, <1>9

\* The decrement of a handler that has its slot.
LEMMA StopWaitingKeeps ==
  ASSUME SlotsInv, NEW r \in Requests, StopWaiting(r)
  PROVE  SlotsInv'
<1> USE DEF SlotsInv
<1>1. r \in counted
  BY DEF CountedWhileWaiting, Waiting, StopWaiting
<1>2. wait' \in 0 .. MaxWait /\ disturbed' \in BOOLEAN /\ CounterExact'
  BY <1>1, DecrementIsExact DEF StopWaiting
<1>3. TypeOK'
  BY <1>2 DEF TypeOK, Pcs, StopWaiting, GoTo
<1>4. BoundedSet'
  BY DEF BoundedSet, StopWaiting
<1>5. InUse' = InUse
  BY DEF TypeOK, InUse, StopWaiting, GoTo
<1>6. EntitledHaveSlots'
  BY <1>5 DEF EntitledHaveSlots, Entitled, StopWaiting
<1>7. NoLeak'
  BY <1>5 DEF NoLeak, StopWaiting, DecrementWaitCount
<1>8. CountedWhileWaiting' /\ ReleasedAfterRun'
  BY DEF CountedWhileWaiting, ReleasedAfterRun, Waiting, TypeOK, StopWaiting, GoTo
<1>9. KeyOutlivesMembers'
  BY KeyKept DEF StopWaiting
<1>10. QED
  BY <1>2, <1>3, <1>4, <1>6, <1>7, <1>8, <1>9

\* A step that only takes members away keeps the bound.
LEMMA BoundKept ==
  ASSUME SlotsInv, slots' \in SUBSET slots
  PROVE  BoundedSet'
<1>1. slots \in SUBSET Requests /\ slots' \in SUBSET Requests
  BY DEF SlotsInv, TypeOK
<1>2. Cardinality(slots') <= Cardinality(slots)
  BY <1>1, FewerMembers
<1>3. Cardinality(slots') \in Nat /\ Cardinality(slots) \in Nat
  BY <1>1, SubsetsAreFinite
<1>4. QED
  BY <1>2, <1>3, SlotsAssumption DEF SlotsInv, BoundedSet

\* The release that the end of the client's connection triggers.
LEMMA ReleaseOnDoneKeeps ==
  ASSUME SlotsInv, NEW r \in Requests, ReleaseOnDone(r)
  PROVE  SlotsInv'
<1> USE DEF SlotsInv
<1>1. TypeOK'
  BY DEF TypeOK, ReleaseOnDone, Release
<1>2. BoundedSet'
  BY BoundKept DEF ReleaseOnDone, Release
<1>3. InUse' = InUse \ {r}
  BY DEF InUse, ReleaseOnDone, Release
<1>4. EntitledHaveSlots'
  BY <1>3 DEF EntitledHaveSlots, Entitled, ReleaseOnDone, Release
<1>5. NoLeak'
  BY <1>3 DEF NoLeak, ReleaseOnDone, Release, TypeOK
<1>6. CounterExact'
  BY CounterKept DEF ReleaseOnDone, Release, TypeOK
<1>7. CountedWhileWaiting' /\ ReleasedAfterRun'
  BY DEF CountedWhileWaiting, ReleasedAfterRun, ReleaseOnDone, Release
<1>8. KeyOutlivesMembers'
  BY KeyKept DEF ReleaseOnDone, Release
<1>9. QED
  BY <1>1, <1>2, <1>4, <1>5, <1>6, <1>7, <1>8

\* The handler returns.
LEMMA FinishKeeps ==
  ASSUME SlotsInv, NEW r \in Requests, Finish(r)
  PROVE  SlotsInv'
<1> USE DEF SlotsInv
<1>1. TypeOK'
  BY DEF TypeOK, Pcs, Finish, Release, GoTo
<1>2. BoundedSet'
  BY BoundKept DEF Finish, Release
<1>3. InUse' = InUse \ {r}
  BY DEF TypeOK, InUse, Finish, Release, GoTo
<1>4. EntitledHaveSlots'
  <2>1. r \in released => r \notin InUse
    BY DEF InUse
  <2>2. slots \ {r} \subseteq slots'
    BY DEF Finish, Release
  <2>3. QED
    BY <1>3, <2>1, <2>2 DEF EntitledHaveSlots, Entitled, Finish
<1>5. NoLeak'
  <2>1. CASE r \in released
    <3>1. r \notin InUse
      BY <2>1 DEF InUse
    <3>2. QED
      BY <1>3, <2>1, <3>1 DEF NoLeak, Finish
  <2>2. CASE r \notin released
    BY <1>3, <2>2 DEF NoLeak, Finish, Release, TypeOK
  <2>3. QED
    BY <2>1, <2>2
<1>6. CounterExact'
  BY CounterKept DEF Finish, Release, TypeOK
<1>7. CountedWhileWaiting' /\ ReleasedAfterRun'
  BY DEF CountedWhileWaiting, ReleasedAfterRun, Waiting, TypeOK, Finish, Release, GoTo
<1>8. KeyOutlivesMembers'
  BY KeyKept DEF Finish, Release
<1>9. QED
  BY <1>1, <1>2, <1>4, <1>5, <1>6, <1>7, <1>8

\* A gateway dies.
LEMMA CrashKeeps ==
  ASSUME SlotsInv, NEW r \in Requests, Crash(r)
  PROVE  SlotsInv'
<1> USE DEF SlotsInv
<1>1. TypeOK'
  BY DEF TypeOK, Pcs, Crash, GoTo
<1>2. BoundedSet'
  BY DEF BoundedSet, Crash
<1>3. EntitledHaveSlots'
  BY DEF EntitledHaveSlots, Entitled, InUse, TypeOK, Crash, GoTo
<1>4. NoLeak' /\ CounterExact'
  BY DEF NoLeak, CounterExact, Crash
<1>5. CountedWhileWaiting' /\ ReleasedAfterRun'
  BY DEF CountedWhileWaiting, ReleasedAfterRun, Waiting, TypeOK, Crash, GoTo
<1>6. KeyOutlivesMembers'
  BY KeyKept DEF Crash
<1>7. QED
  BY <1>1, <1>2, <1>3, <1>4, <1>5, <1>6

\* The two cleanups of expired slots.
LEMMA CleanupKeeps ==
  ASSUME SlotsInv, ReadLoad \/ CleanupExpiredSlots
  PROVE  SlotsInv'
<1> USE DEF SlotsInv
<1>1. TypeOK'
  BY SlotsAssumption DEF TypeOK, ReadLoad, CleanupExpiredSlots
<1>2. BoundedSet'
  BY BoundKept DEF ReadLoad, CleanupExpiredSlots
<1>3. EntitledHaveSlots'
  BY SlotsAssumption
  DEF EntitledHaveSlots, Entitled, InUse, Expired, TypeOK, ReadLoad, CleanupExpiredSlots
<1>4. NoLeak' /\ CounterExact'
  BY DEF NoLeak, InUse, CounterExact, ReadLoad, CleanupExpiredSlots
<1>5. CountedWhileWaiting' /\ ReleasedAfterRun'
  BY DEF CountedWhileWaiting, ReleasedAfterRun, ReadLoad, CleanupExpiredSlots
<1>6. KeyOutlivesMembers'
  BY KeyKept DEF ReadLoad, CleanupExpiredSlots
<1>7. QED
  BY <1>1, <1>2, <1>3, <1>4, <1>5, <1>6

\* A worker starts.
LEMMA WorkerKeeps ==
  ASSUME SlotsInv, WorkerStarts
  PROVE  SlotsInv'
<1> USE DEF SlotsInv
<1>1. TypeOK'
  BY SlotsAssumption DEF TypeOK, WorkerStarts
<1>2. BoundedSet'
  BY BoundKept DEF WorkerStarts
<1>3. EntitledHaveSlots'
  BY SlotsAssumption DEF EntitledHaveSlots, TypeOK, WorkerStarts
<1>4. NoLeak' /\ CounterExact'
  BY DEF NoLeak, CounterExact, WorkerStarts
<1>5. CountedWhileWaiting' /\ ReleasedAfterRun'
  BY DEF CountedWhileWaiting, ReleasedAfterRun, WorkerStarts
<1>6. KeyOutlivesMembers'
  BY KeyKept DEF WorkerStarts
<1>7. QED
  BY <1>1, <1>2, <1>3, <1>4, <1>5, <1>6

\* Time passes.
LEMMA TickKeeps ==
  ASSUME SlotsInv, Tick
  PROVE  SlotsInv'
<1> USE DEF SlotsInv
<1>1. \A n \in 0 .. SlotTTL : Older(n, SlotTTL) \in 0 .. SlotTTL /\ n <= Older(n, SlotTTL)
  BY SlotsAssumption DEF Older
<1>2. TypeOK'
  <2>1. age' \in [Requests -> 0 .. SlotTTL] /\ keyAge' \in 0 .. SlotTTL
    BY <1>1, SlotsAssumption DEF TypeOK, Tick
  <2>2. wait' \in 0 .. MaxWait /\ waitAge' \in 0 .. WaitTTL
    BY SlotsAssumption DEF TypeOK, Tick, Older
  <2>3. disturbed' \in BOOLEAN
    BY DEF Tick
  <2>4. slots' \subseteq Requests
    BY DEF TypeOK, Tick
  <2>5. QED
    BY <2>1, <2>2, <2>3, <2>4 DEF TypeOK, Tick
<1>3. slots' \in SUBSET slots
  BY DEF Tick
<1>4. BoundedSet'
  BY <1>3, BoundKept
<1>5. InUse' = InUse
  BY DEF InUse, Tick
<1>6. Entitled' \subseteq Entitled
  BY <1>1, <1>5, SlotsAssumption DEF Entitled, InUse, TypeOK, Tick
<1>7. EntitledHaveSlots'
  <2> SUFFICES ASSUME starts' = 0, NEW r \in Entitled' PROVE r \in slots'
    BY DEF EntitledHaveSlots
  <2>1. r \in slots /\ r \in Requests
    BY <1>6 DEF EntitledHaveSlots, Tick, TypeOK
  <2>2. Older(age[r], SlotTTL) < SlotTTL
    BY <2>1 DEF Entitled, Tick
  <2>3. keyAge <= age[r] /\ keyAge \in 0 .. SlotTTL /\ age[r] \in 0 .. SlotTTL
    BY <2>1 DEF KeyOutlivesMembers, TypeOK
  <2>4. ~KeyExpires
    BY <2>2, <2>3, SlotsAssumption DEF KeyExpires, Older
  <2>5. QED
    BY <2>1, <2>4 DEF Tick
<1>8. KeyOutlivesMembers'
  <2> SUFFICES ASSUME NEW r \in slots' PROVE keyAge' <= age'[r]
    BY DEF KeyOutlivesMembers
  <2>1. r \in slots /\ r \in Requests
    BY <1>3 DEF TypeOK
  <2>2. keyAge <= age[r] /\ keyAge \in 0 .. SlotTTL /\ age[r] \in 0 .. SlotTTL
    BY <2>1 DEF KeyOutlivesMembers, TypeOK
  <2>3. keyAge' = Older(keyAge, SlotTTL) /\ age'[r] = Older(age[r], SlotTTL)
    BY <2>1 DEF Tick
  <2>4. QED
    BY <2>2, <2>3, SlotsAssumption DEF Older
<1>9. ~disturbed' => ~disturbed /\ wait' = wait
  BY DEF Tick
<1>10. NoLeak' /\ CounterExact'
  BY <1>3, <1>5, <1>9 DEF NoLeak, CounterExact, Tick
<1>11. CountedWhileWaiting' /\ ReleasedAfterRun'
  BY DEF CountedWhileWaiting, ReleasedAfterRun, Tick
<1>12. QED
  BY <1>2, <1>4, <1>7, <1>8, <1>10, <1>11

-----------------------------------------------------------------------------
\* Every step keeps the invariant.
LEMMA SlotsStep == SlotsInv /\ [Next]_vars => SlotsInv'
<1> SUFFICES ASSUME SlotsInv, [Next]_vars PROVE SlotsInv'
  OBVIOUS
<1>1. CASE UNCHANGED vars
  BY <1>1
  DEF vars, SlotsInv, TypeOK, BoundedSet, EntitledHaveSlots, KeyOutlivesMembers, NoLeak, CounterExact,
      CountedWhileWaiting, ReleasedAfterRun, Entitled, InUse
<1>2. ASSUME NEW r \in Requests, Handle(r) PROVE SlotsInv'
  BY <1>2, IncrementKeeps, AcquireKeeps, GiveUpKeeps, LeaveKeeps, StopWaitingKeeps,
     ReleaseOnDoneKeeps, FinishKeeps, CrashKeeps DEF Handle
<1>3. CASE ReadLoad \/ CleanupExpiredSlots \/ WorkerStarts \/ Tick
  BY <1>3, CleanupKeeps, WorkerKeeps, TickKeeps
<1>4. QED
  BY <1>1, <1>2, <1>3 DEF Next

\* The invariant holds in every reachable state, for every number of requests,
\* limit, queue and TTL.
THEOREM SlotsInductive == Spec => []SlotsInv
BY SlotsInit, SlotsStep, PTL DEF Spec

\* The slot set, the counter and the handlers keep their types; the counter is
\* never negative and never above maxWait.
THEOREM SlotTypes == Spec => []TypeOK
<1>1. SlotsInv => TypeOK
  BY DEF SlotsInv
<1>2. QED
  BY <1>1, SlotsInductive, PTL

\* Until the worker starts, no more requests than the limit use a slot within its
\* TTL, whatever calls fail and whatever gateways die (acquireScript).
THEOREM LimitHolds == Spec => []WithinLimit
<1>1. SlotsInv => WithinLimit
  <2> SUFFICES ASSUME SlotsInv, starts = 0 PROVE Cardinality(Entitled) <= MaxConcurrency
    BY DEF WithinLimit
  <2>1. slots \in SUBSET Requests /\ Entitled \in SUBSET slots
    BY DEF SlotsInv, TypeOK, EntitledHaveSlots
  <2>2. Entitled \in SUBSET Requests
    BY <2>1
  <2>3. Cardinality(Entitled) <= Cardinality(slots)
    BY <2>1, FewerMembers
  <2>4. Cardinality(Entitled) \in Nat /\ Cardinality(slots) \in Nat
    BY <2>1, <2>2, SubsetsAreFinite
  <2>5. Cardinality(slots) <= MaxConcurrency
    BY DEF SlotsInv, BoundedSet
  <2>6. QED
    BY <2>3, <2>4, <2>5, SlotsAssumption
<1>2. QED
  BY <1>1, SlotsInductive, PTL

\* Unless a call fails, a slot is taken only while its request uses it
\* (wrapReleaseOnDone).
THEOREM NothingLeaks == Spec => []NoLeak
<1>1. SlotsInv => NoLeak
  BY DEF SlotsInv
<1>2. QED
  BY <1>1, SlotsInductive, PTL

\* Unless a call fails, the wait counter is the number of requests that wait
\* (IncrementWaitCount and DecrementWaitCount).
THEOREM CounterIsExact == Spec => []WaitIsExact
<1>1. SlotsInv => WaitIsExact
  BY DEF SlotsInv, WaitIsExact, CounterExact, CountedWhileWaiting, Waiting
<1>2. QED
  BY <1>1, SlotsInductive, PTL
=============================================================================

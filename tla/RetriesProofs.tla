--------------------------- MODULE RetriesProofs ---------------------------
(***************************************************************************)
(* How often the handler runs for an entry, for every number of billing    *)
(* processes, readers and entries and every retry limit.                   *)
(***************************************************************************)
EXTENDS BillingRetries, BillingPipelineProofs, FiniteSetTheorems

\* Thread t has entry i in hand and will still call the handler for it.
Due(t, i) ==
  /\ i \in todo[t] /\ pc[t] \notin {"idle", "claim"}
  /\ Busy(t) => cur[t] # i
  /\ ~Exhausted(t, i)

\* Thread t has a page with i on it, and a count that will let it call.
Waits(t, i) == pc[t] = "claim" /\ i \in todo[t] /\ ~Exhausted(t, i)

MayCall(i) == {t \in Threads : Due(t, i)}
MightCall(i) == {t \in Threads : Due(t, i) \/ Waits(t, i)}

Limit == MaxRetryCount + Cardinality(Recoverers) - 1

\* An entry that was not delivered yet is in nobody's hands.
Undelivered(i) ==
  i > cursor => i \notin pel /\ count[i] = 0 /\ \A t \in Threads : i \notin todo[t]

\* Below the limit every call, made or due, is covered by a delivery.  Once the
\* count has reached it, only pages that were read before still lead to calls.
Covered(i) ==
  IF count[i] < MaxRetryCount
  THEN tries[i] + Cardinality(MayCall(i)) <= count[i]
  ELSE tries[i] + Cardinality(MightCall(i)) <= Limit

RetryInv ==
  /\ tries \in [Entries -> Nat]
  /\ \A t \in Threads : pc[t] = "claim" => t \in Recoverers
  /\ \A i \in Entries : Undelivered(i) /\ Covered(i)

-----------------------------------------------------------------------------
(* The history variable *)

Tally ==
  tries' = [i \in Entries |->
              IF \E t \in Threads : Calls(t, i) THEN tries[i] + 1 ELSE tries[i]]

LEMMA TallyTypes ==
  ASSUME RetryInv, Tally
  PROVE  /\ tries' \in [Entries -> Nat]
         /\ \A i \in Entries :
              /\ tries[i] \in Nat
              /\ tries'[i] = IF \E t \in Threads : Calls(t, i)
                             THEN tries[i] + 1 ELSE tries[i]
BY DEF RetryInv, Tally

\* The sets of threads that may call, and the limit.
LEMMA CallersFinite ==
  /\ \A S : S \subseteq Threads => IsFiniteSet(S) /\ Cardinality(S) \in Nat
  /\ \A S, T : T \subseteq Threads /\ S \subseteq T => Cardinality(S) <= Cardinality(T)
  /\ MaxRetryCount \in Nat \ {0} /\ Cardinality(Recoverers) \in Nat \ {0}
  /\ Limit \in Nat /\ Limit >= MaxRetryCount
<1>1. ASSUME NEW S, S \subseteq Threads PROVE IsFiniteSet(S) /\ Cardinality(S) \in Nat
  BY <1>1, ThreadsAssumption, FS_Subset, FS_CardinalityType
<1>2. ASSUME NEW S, NEW T, T \subseteq Threads, S \subseteq T
      PROVE  Cardinality(S) <= Cardinality(T)
  BY <1>1, <1>2, FS_Subset
<1>3. Recoverers \subseteq Threads
  BY DEF Threads
<1>4. Cardinality(Recoverers) \in Nat \ {0}
  BY <1>1, <1>3, ThreadsAssumption, FS_EmptySet
<1>5. MaxRetryCount \in Nat \ {0}
  BY ConstantsAssumption
<1> QED
  BY <1>1, <1>2, <1>4, <1>5 DEF Limit

\* A thread that takes nothing new, and calls only what it had due.
Tame(t) ==
  /\ todo'[t] \subseteq todo[t]
  /\ pc'[t] = "claim" => pc[t] = "claim" /\ retry'[t] = retry[t]
  /\ \A i \in Entries : /\ Calls(t, i) => Due(t, i) /\ ~Due(t, i)'
                        /\ Due(t, i)' => Due(t, i)

LEMMA TameWaits ==
  ASSUME NEW t \in Threads, NEW i \in Entries, Tame(t)
  PROVE  /\ Waits(t, i)' => Waits(t, i)
         /\ Calls(t, i) => ~Waits(t, i)'
BY DEF Tame, Waits, Exhausted, Calls

\* A call uses up what was due, for either way of counting.
LEMMA TameCounts ==
  ASSUME RetryInv, Tally, NEW i \in Entries, NEW S, S \subseteq Threads,
         NEW T, T \subseteq S, \A t \in Threads : Calls(t, i) => t \in S \ T
  PROVE  tries'[i] + Cardinality(T) <= tries[i] + Cardinality(S)
<1>1. /\ tries[i] \in Nat
      /\ tries'[i] = IF \E t \in Threads : Calls(t, i) THEN tries[i] + 1 ELSE tries[i]
  BY TallyTypes
<1>2. /\ Cardinality(S) \in Nat /\ Cardinality(T) \in Nat
      /\ Cardinality(T) <= Cardinality(S) /\ IsFiniteSet(S)
  BY CallersFinite
<1>3. CASE ~\E t \in Threads : Calls(t, i)
  BY <1>1, <1>2, <1>3
<1>4. ASSUME NEW t \in Threads, Calls(t, i)
      PROVE  tries'[i] + Cardinality(T) <= tries[i] + Cardinality(S)
  <2>1. t \in S /\ T \subseteq S \ {t}
    BY <1>4
  <2>2. Cardinality(S \ {t}) = Cardinality(S) - 1
    BY <1>2, <2>1, FS_RemoveElement
  <2>3. Cardinality(T) <= Cardinality(S \ {t})
    BY <2>1, CallersFinite
  <2>4. tries'[i] = tries[i] + 1
    BY <1>1, <1>4
  <2> QED
    BY <1>1, <1>2, <2>2, <2>3, <2>4
<1> QED
  BY <1>3, <1>4

\* Threads that take nothing new keep the invariant.
LEMMA TameKeeps ==
  ASSUME TypeInv, RetryInv, Tally, \A t \in Threads : Tame(t),
         cursor' = cursor, count' = count, pel' \subseteq pel
  PROVE  RetryInv'
<1>1. tries' \in [Entries -> Nat]
  BY TallyTypes
<1>2. ASSUME NEW t \in Threads, pc'[t] = "claim" PROVE t \in Recoverers
  BY <1>2 DEF Tame, RetryInv
<1>3. ASSUME NEW i \in Entries PROVE (Undelivered(i) /\ Covered(i))'
  <2>1. Undelivered(i) /\ Covered(i) /\ tries[i] \in Nat /\ tries'[i] \in Nat
    BY <1>1 DEF RetryInv
  <2>2. Undelivered(i)'
    BY <2>1 DEF Undelivered, Tame
  <2>3. /\ MayCall(i)' \subseteq MayCall(i) /\ MayCall(i) \subseteq Threads
        /\ \A t \in Threads : Calls(t, i) => t \in MayCall(i) \ MayCall(i)'
    BY DEF MayCall, Tame
  <2>4. /\ MightCall(i)' \subseteq MightCall(i) /\ MightCall(i) \subseteq Threads
        /\ \A t \in Threads : Calls(t, i) => t \in MightCall(i) \ MightCall(i)'
    <3>1. \A t \in Threads : /\ Waits(t, i)' => Waits(t, i)
                             /\ Calls(t, i) => ~Waits(t, i)'
      BY TameWaits
    <3> QED
      BY <3>1 DEF MightCall, Tame
  <2>5. /\ tries'[i] + Cardinality(MayCall(i))' <= tries[i] + Cardinality(MayCall(i))
        /\ tries'[i] + Cardinality(MightCall(i))' <= tries[i] + Cardinality(MightCall(i))
    BY <2>3, <2>4, TameCounts
  <2>6. /\ Cardinality(MayCall(i)) \in Nat /\ Cardinality(MayCall(i))' \in Nat
        /\ Cardinality(MightCall(i)) \in Nat /\ Cardinality(MightCall(i))' \in Nat
        /\ count[i] \in Nat /\ Limit \in Nat /\ MaxRetryCount \in Nat
    <3>1. MayCall(i)' \subseteq Threads /\ MightCall(i)' \subseteq Threads
      BY <2>3, <2>4
    <3>2. count[i] \in Nat /\ Limit \in Nat /\ MaxRetryCount \in Nat
      BY CallersFinite DEF TypeInv, TypeOK, GroupTypeOK
    <3> QED
      BY <2>3, <2>4, <3>1, <3>2, CallersFinite
  <2>7. Covered(i)'
    BY <2>1, <2>5, <2>6 DEF Covered, Limit
  <2> QED
    BY <2>2, <2>7
<1> QED
  BY <1>1, <1>2, <1>3 DEF RetryInv

\* A thread that does not move is tame.
LEMMA StillTame ==
  ASSUME NEW t \in Threads, pc'[t] = pc[t], todo'[t] = todo[t], retry'[t] = retry[t],
         cur'[t] = cur[t]
  PROVE  Tame(t)
BY DEF Tame, Calls, Due, Busy, Exhausted

\* A thread that gives up its batch is tame.
LEMMA DropTame ==
  ASSUME NEW t \in Threads, pc'[t] = "idle", todo'[t] \subseteq todo[t]
  PROVE  Tame(t)
BY DEF Tame, Calls, Due

-----------------------------------------------------------------------------
(* The steps *)

LEMMA RetryFinish ==
  ASSUME TypeInv, NEW t \in Threads, Finish(t), Busy(t)
  PROVE  \A u \in Threads : Tame(u)
<1> USE DEF TypeInv, TypeOK, ThreadTypeOK
<1>1. ASSUME NEW u \in Threads, u # t PROVE Tame(u)
  <2>1. pc'[u] = pc[u] /\ todo'[u] = todo[u] /\ retry'[u] = retry[u] /\ cur'[u] = cur[u]
    BY <1>1 DEF Finish
  <2> QED
    BY <2>1, StillTame
<1>2. Tame(t)
  <2>1. /\ todo'[t] = todo[t] \ {cur[t]} /\ pc'[t] \in {"idle", "next"}
        /\ pc[t] \in Pcs \ {"idle", "claim", "next"}
    BY DEF Finish, Busy
  <2>2. \A i \in Entries : i # cur[t] => retry'[t][i] = retry[t][i]
    BY DEF Finish
  <2> QED
    BY <2>1, <2>2 DEF Tame, Calls, Due, Busy, Exhausted
<1> QED
  BY <1>1, <1>2

\* Steps within an entry.
LEMMA RetryMove ==
  ASSUME TypeInv, NEW t \in Threads, Busy(t), NEW q \in Pcs \ {"idle", "claim", "next"},
         pc' = [pc EXCEPT ![t] = q], UNCHANGED <<todo, cur, retry>>
  PROVE  \A u \in Threads : Tame(u)
<1> USE DEF TypeInv, TypeOK, ThreadTypeOK
<1>1. ASSUME NEW u \in Threads, u # t PROVE Tame(u)
  BY <1>1, StillTame
<1>2. Tame(t)
  BY DEF Tame, Calls, Due, Busy, Exhausted
<1> QED
  BY <1>1, <1>2

LEMMA RetryTx ==
  ASSUME TypeInv, NEW t \in Threads,
         \/ MatchDedup(t) \/ MatchArchive(t) \/ InsertClaim(t) \/ Recheck(t)
         \/ CheckTombstone(t) \/ CommitTx(t) \/ AbortTx(t) \/ AckFails(t)
         \/ Project(t) \/ DeadLetter(t) \/ Ack(t)
  PROVE  (\A u \in Threads : Tame(u)) /\ UNCHANGED <<cursor, count>> /\ pel' \subseteq pel
<1>1. UNCHANGED <<cursor, count>> /\ pel' \subseteq pel
  BY DEF MatchDedup, MatchArchive, InsertClaim, Recheck, CheckTombstone, CommitTx,
         AbortTx, AckFails, Project, DeadLetter, Ack, groupVars
<1>2. Busy(t)
  BY DEF MatchDedup, MatchArchive, InsertClaim, Recheck, CheckTombstone, CommitTx,
         AbortTx, AckFails, Project, DeadLetter, Ack, Busy, Pcs, TxPcs
<1>3. CASE Finish(t)
  BY <1>1, <1>2, <1>3, RetryFinish
<1>4. CASE ~Finish(t)
  <2>1. \E q \in Pcs \ {"idle", "claim", "next"} : pc' = [pc EXCEPT ![t] = q]
    BY <1>4 DEF MatchDedup, MatchArchive, InsertClaim, Recheck, CheckTombstone,
       CommitTx, AbortTx, AckFails, Project, DeadLetter, Ack, Match, AfterClaim, Pcs, TxPcs
  <2>2. UNCHANGED <<todo, cur, retry>>
    BY <1>4 DEF MatchDedup, MatchArchive, InsertClaim, Recheck, CheckTombstone,
       CommitTx, AbortTx, AckFails, Project, DeadLetter, Ack, Match
  <2> QED
    BY <1>1, <1>2, <2>1, <2>2, RetryMove
<1> QED
  BY <1>3, <1>4

\* The handler is called for an entry in hand, once.
LEMMA RetryDispatch ==
  ASSUME TypeInv, NEW t \in Threads, Dispatch(t)
  PROVE  (\A u \in Threads : Tame(u)) /\ UNCHANGED <<cursor, count>> /\ pel' \subseteq pel
<1> USE DEF TypeInv, TypeOK, ThreadTypeOK
<1>1. UNCHANGED <<cursor, count, pel, todo, retry>>
  BY DEF Dispatch, groupVars
<1>2. PICK j \in todo[t] :
        /\ pc[t] = "next"
        /\ cur' = [cur EXCEPT ![t] = j]
        /\ pc' = [pc EXCEPT ![t] =
             CASE KindOf[stream[j]] = "malformed" \/ Exhausted(t, j) -> "dlq"
               [] KindOf[stream[j]] = "empty" /\ ~Exhausted(t, j)    -> "ack"
               [] KindOf[stream[j]] \in Tracking /\ ~Exhausted(t, j) -> "commit"
               [] OTHER                                              -> "dedup"]
  BY DEF Dispatch
<1>3. /\ cur'[t] = j
      /\ pc'[t] \in {"dlq", "ack", "commit", "dedup"}
      /\ pc'[t] \in {"commit", "dedup"} => ~Exhausted(t, j)
  BY <1>2
<1>4. ASSUME NEW u \in Threads, u # t PROVE Tame(u)
  BY <1>1, <1>2, <1>4, StillTame
<1>5. Tame(t)
  <2>1. \A i \in Entries : Due(t, i)' => Due(t, i) /\ i # j
    BY <1>1, <1>2, <1>3 DEF Due, Busy, Exhausted, Pcs, TxPcs
  <2>2. \A i \in Entries : Calls(t, i) => i = j /\ Due(t, i)
    BY <1>1, <1>2, <1>3 DEF Calls, Due, Busy
  <2> QED
    BY <1>1, <1>2, <1>3, <2>1, <2>2 DEF Tame
<1> QED
  BY <1>1, <1>4, <1>5

LEMMA RetryElsewhere ==
  ASSUME TypeInv,
         \/ \E e \in Events : Publisher(e)
         \/ \E p \in Procs : Process(p)
         \/ \E i \in pel : GoIdle(i)
         \/ \E k \in Keys : ArchiveClaim(k) \/ DeleteLog(k)
         \/ UNCHANGED vars
         \/ \E t \in Threads : EmptyBatch(t) \/ EndScan(t) \/ ClaimFails(t)
  PROVE  (\A u \in Threads : Tame(u)) /\ UNCHANGED <<cursor, count>> /\ pel' \subseteq pel
<1>1. UNCHANGED <<cursor, count, pel>>
  BY DEF Publisher, PublishOk, PublishError, PublishCancel, Process, Stop, Stopped, Crash,
         Start, GoIdle, ArchiveClaim, DeleteLog, vars, groupVars, EmptyBatch, EndScan,
         ClaimFails
<1>2. ASSUME NEW u \in Threads
      PROVE  \/ pc'[u] = pc[u] /\ todo'[u] = todo[u] /\ retry'[u] = retry[u] /\ cur'[u] = cur[u]
             \/ pc'[u] = "idle" /\ todo'[u] \subseteq todo[u]
  <2>1. CASE UNCHANGED threadVars
    BY <2>1 DEF threadVars
  <2>2. CASE \E p \in Procs : Crash(p)
    BY <2>2 DEF Crash
  <2>3. CASE \E t \in Threads : EmptyBatch(t) \/ EndScan(t) \/ ClaimFails(t)
    <3>1. PICK t \in Threads : EmptyBatch(t) \/ EndScan(t) \/ ClaimFails(t)
      BY <2>3
    <3> QED
      BY <3>1 DEF EmptyBatch, EndScan, ClaimFails, DropPage, TypeInv, TypeOK, ThreadTypeOK
  <2>4. \/ UNCHANGED threadVars \/ \E p \in Procs : Crash(p)
        \/ \E t \in Threads : EmptyBatch(t) \/ EndScan(t) \/ ClaimFails(t)
    BY DEF Publisher, PublishOk, PublishError, PublishCancel, Process, Stop, Stopped,
           Start, GoIdle, ArchiveClaim, DeleteLog, vars
  <2> QED
    BY <2>1, <2>2, <2>3, <2>4
<1> QED
  BY <1>1, <1>2, StillTame, DropTame

\* XREADGROUP hands undelivered entries to one reader.
LEMMA RetryRead ==
  ASSUME TypeInv, RetryInv, Tally, NEW t \in Readers, ReadNew(t)
  PROVE  RetryInv'
<1> DEFINE batch == First(BatchSize, {i \in Live : i > cursor})
<1>0. t \in Threads /\ MaxRetryCount \in Nat \ {0}
  BY ConstantsAssumption DEF Threads
<1>1. /\ batch \subseteq Stored
      /\ \A i \in batch : i > cursor
  BY DEF First, Live
<1>2. /\ pc[t] = "idle" /\ UNCHANGED cur
      /\ pel' = pel \cup batch
      /\ count' = [i \in Entries |-> IF i \in batch THEN 1 ELSE count[i]]
      /\ \E last \in batch : IsGreatest(last, batch) /\ cursor' = last
      /\ \/ /\ todo' = [todo EXCEPT ![t] = batch]
            /\ retry' = [retry EXCEPT ![t] = [i \in Entries |-> 0]]
            /\ pc' = [pc EXCEPT ![t] = "next"]
         \/ UNCHANGED <<todo, retry, pc>>
  BY DEF ReadNew
<1> HIDE DEF batch
<1>3. cursor \in Nat /\ cursor' \in Nat /\ cursor' >= cursor /\ \A i \in batch : i <= cursor'
  <2>1. Stored \subseteq Nat /\ cursor \in Nat
    BY DEF Stored, TypeInv, TypeOK, GroupTypeOK
  <2>2. PICK last \in batch : IsGreatest(last, batch) /\ cursor' = last
    BY <1>2
  <2>3. last \in Nat /\ last > cursor /\ \A i \in batch : i <= last
    BY <1>1, <2>1, <2>2 DEF IsGreatest
  <2> QED
    BY <2>1, <2>2, <2>3
<1>4. /\ pc \in [Threads -> Pcs] /\ todo \in [Threads -> SUBSET Stored]
      /\ retry \in [Threads -> [Entries -> 0 .. MaxRetryCount]]
  BY DEF TypeInv, TypeOK, ThreadTypeOK
<1>5. \A u \in Threads, i \in Entries : ~Calls(u, i)
  BY <1>2, <1>4 DEF Calls
<1>6. /\ tries' \in [Entries -> Nat]
      /\ \A i \in Entries : tries[i] \in Nat /\ tries'[i] = tries[i]
  BY <1>5, TallyTypes
<1>7. \A u \in Threads : u # t => /\ pc'[u] = pc[u] /\ todo'[u] = todo[u]
                                  /\ retry'[u] = retry[u] /\ cur'[u] = cur[u]
  BY <1>2, <1>4
<1>8. /\ todo'[t] \subseteq todo[t] \cup batch
      /\ pc'[t] = "idle" \/ (pc'[t] = "next" /\ todo'[t] = batch)
  BY <1>0, <1>2, <1>4
<1>9. ASSUME NEW u \in Threads, pc'[u] = "claim" PROVE u \in Recoverers
  BY <1>7, <1>8, <1>9 DEF RetryInv
<1>10. ASSUME NEW i \in Entries PROVE (Undelivered(i) /\ Covered(i))'
  <2>1. Undelivered(i) /\ Covered(i) /\ i \in Nat /\ count[i] \in Nat
    BY DEF RetryInv, Entries, TypeInv, TypeOK, GroupTypeOK
  <2>2. Undelivered(i)'
    <3> SUFFICES ASSUME i > cursor'
                 PROVE  /\ i \notin pel' /\ count'[i] = 0
                        /\ \A u \in Threads : i \notin todo'[u]
      BY DEF Undelivered
    <3>1. i > cursor /\ i \notin batch
      BY <1>3, <2>1
    <3>2. i \notin pel /\ count[i] = 0 /\ \A u \in Threads : i \notin todo[u]
      BY <2>1, <3>1 DEF Undelivered
    <3>3. ASSUME NEW u \in Threads PROVE i \notin todo'[u]
      BY <1>7, <1>8, <3>1, <3>2
    <3> QED
      BY <1>2, <3>1, <3>2, <3>3
  <2>3. \A u \in Threads : u # t => /\ Due(u, i)' <=> Due(u, i)
                                    /\ Waits(u, i)' <=> Waits(u, i)
    BY <1>7 DEF Due, Waits, Busy, Exhausted
  <2>4. ~Waits(t, i) /\ ~Waits(t, i)' /\ ~Due(t, i)
    BY <1>2, <1>8 DEF Waits, Due
  <2>5. CASE i \notin batch
    <3>1. ~Due(t, i)'
      BY <1>8, <2>5 DEF Due
    <3>2. MayCall(i)' = MayCall(i) /\ MightCall(i)' = MightCall(i)
      BY <2>3, <2>4, <3>1 DEF MayCall, MightCall
    <3>3. count'[i] = count[i]
      BY <1>2, <2>5
    <3>4. Covered(i)'
      BY <1>6, <2>1, <3>2, <3>3 DEF Covered, Limit
    <3> QED
      BY <2>2, <3>4
  <2>6. CASE i \in batch
    <3>1. count[i] = 0 /\ \A u \in Threads : i \notin todo[u]
      BY <1>1, <2>1, <2>6 DEF Undelivered
    <3>2. \A u \in Threads : ~Due(u, i) /\ ~Waits(u, i)
      BY <3>1 DEF Due, Waits
    <3>3. tries[i] = 0
      <4>1. Cardinality(MayCall(i)) \in Nat
        BY CallersFinite DEF MayCall
      <4> QED
        BY <1>0, <1>6, <2>1, <3>1, <4>1 DEF Covered
    <3>4. count'[i] = 1
      BY <1>2, <2>6
    <3>5. MayCall(i)' \subseteq {t} /\ MightCall(i)' \subseteq {t}
      BY <2>3, <2>4, <3>2 DEF MayCall, MightCall
    <3>6. /\ Cardinality(MayCall(i)') \in 0 .. 1
          /\ Cardinality(MightCall(i)') \in 0 .. 1
      <4>1. {t} \subseteq Threads /\ Cardinality({t}) = 1
        BY <1>0, FS_Singleton
      <4>2. \A S : S \subseteq {t} => Cardinality(S) \in Nat /\ Cardinality(S) <= 1
        BY <4>1, CallersFinite
      <4> QED
        BY <3>5, <4>2
    <3>7. MaxRetryCount >= 1 /\ Limit \in Nat /\ Limit >= 1
      BY CallersFinite
    <3>8. Covered(i)'
      BY <1>6, <3>3, <3>4, <3>6, <3>7 DEF Covered, Limit
    <3> QED
      BY <2>2, <3>8
  <2> QED
    BY <2>5, <2>6
<1> QED
  BY <1>6, <1>9, <1>10 DEF RetryInv

\* XPENDING: at the limit a page leads to no call.
LEMMA RetryList ==
  ASSUME TypeInv, RetryInv, Tally, NEW t \in Recoverers, ListPending(t)
  PROVE  RetryInv'
<1> DEFINE page == First(BatchSize, {i \in idle : i >= from[t]})
<1>0. t \in Threads /\ MaxRetryCount \in Nat \ {0}
  BY ConstantsAssumption DEF Threads
<1>1. page \subseteq pel
  BY DEF First, TypeInv, TypeOK, GroupTypeOK
<1>2. /\ pc[t] = "idle" /\ UNCHANGED <<cur, cursor, pel, count>>
      /\ todo' = [todo EXCEPT ![t] = page]
      /\ retry' = [retry EXCEPT ![t] =
                     [i \in Entries |-> IF i \in page THEN count[i] ELSE 0]]
      /\ pc' = [pc EXCEPT ![t] = "claim"]
  BY DEF ListPending, groupVars
<1> HIDE DEF page
<1>4. /\ pc \in [Threads -> Pcs] /\ todo \in [Threads -> SUBSET Stored]
      /\ retry \in [Threads -> [Entries -> 0 .. MaxRetryCount]]
  BY DEF TypeInv, TypeOK, ThreadTypeOK
<1>5. \A u \in Threads, i \in Entries : ~Calls(u, i)
  BY <1>2, <1>4 DEF Calls
<1>6. /\ tries' \in [Entries -> Nat]
      /\ \A i \in Entries : tries[i] \in Nat /\ tries'[i] = tries[i]
  BY <1>5, TallyTypes
<1>7. \A u \in Threads : u # t => /\ pc'[u] = pc[u] /\ todo'[u] = todo[u]
                                  /\ retry'[u] = retry[u] /\ cur'[u] = cur[u]
  BY <1>2, <1>4
<1>8. /\ todo'[t] = page /\ pc'[t] = "claim"
      /\ \A i \in Entries : i \in page => retry'[t][i] = count[i]
  BY <1>0, <1>2, <1>4
<1>9. ASSUME NEW u \in Threads, pc'[u] = "claim" PROVE u \in Recoverers
  BY <1>7, <1>9 DEF RetryInv
<1>10. ASSUME NEW i \in Entries PROVE (Undelivered(i) /\ Covered(i))'
  <2>1. Undelivered(i) /\ Covered(i) /\ i \in Nat /\ count[i] \in Nat
    BY DEF RetryInv, Entries, TypeInv, TypeOK, GroupTypeOK
  <2>2. Undelivered(i)'
    BY <1>1, <1>2, <1>7, <1>8, <2>1 DEF Undelivered
  <2>3. \A u \in Threads : u # t => /\ Due(u, i)' <=> Due(u, i)
                                    /\ Waits(u, i)' <=> Waits(u, i)
    BY <1>7 DEF Due, Waits, Busy, Exhausted
  <2>4. ~Due(t, i) /\ ~Due(t, i)' /\ ~Waits(t, i)
    BY <1>2, <1>8 DEF Due, Waits
  <2>5. MayCall(i)' = MayCall(i)
    BY <2>3, <2>4 DEF MayCall
  <2>6. count[i] >= MaxRetryCount => MightCall(i)' = MightCall(i)
    <3>1. count[i] >= MaxRetryCount => ~Waits(t, i)'
      BY <1>8 DEF Waits, Exhausted
    <3> QED
      BY <2>3, <2>4, <3>1 DEF MightCall
  <2>7. Covered(i)'
    BY <1>0, <1>2, <1>6, <2>1, <2>5, <2>6 DEF Covered, Limit
  <2> QED
    BY <2>2, <2>7
<1> QED
  BY <1>6, <1>9, <1>10 DEF RetryInv

\* XCLAIM: below the limit the delivery pays for the call, at the limit the call
\* was expected.  When the count reaches the limit, the others' pages are all that
\* is left.
LEMMA RetryClaim ==
  ASSUME TypeInv, RetryInv, Tally, NEW t \in Recoverers, ClaimPending(t)
  PROVE  RetryInv'
<1> DEFINE got == (todo[t] \cap idle) \cap Live
<1>0. t \in Threads /\ MaxRetryCount \in Nat \ {0} /\ Recoverers \subseteq Threads
  BY ConstantsAssumption DEF Threads
<1>1. got \subseteq todo[t]
  OBVIOUS
<1>2. /\ pc[t] = "claim" /\ UNCHANGED <<cur, cursor>>
      /\ pel' \subseteq pel
      /\ count' = [i \in Entries |-> IF i \in got /\ count[i] < MaxRetryCount
                                     THEN count[i] + 1 ELSE count[i]]
      /\ \/ /\ todo' = [todo EXCEPT ![t] = got]
            /\ pc' = [pc EXCEPT ![t] = "next"]
            /\ retry' = [retry EXCEPT ![t] =
                           [i \in Entries |-> IF i \in got THEN retry[t][i] ELSE 0]]
         \/ DropPage(t)
  BY DEF ClaimPending, TypeInv, TypeOK, ThreadTypeOK
<1> HIDE DEF got
<1>4. /\ pc \in [Threads -> Pcs] /\ todo \in [Threads -> SUBSET Stored]
      /\ retry \in [Threads -> [Entries -> 0 .. MaxRetryCount]]
  BY DEF TypeInv, TypeOK, ThreadTypeOK
<1>5. \A u \in Threads, i \in Entries : ~Calls(u, i)
  BY <1>2, <1>4 DEF Calls, DropPage
<1>6. /\ tries' \in [Entries -> Nat]
      /\ \A i \in Entries : tries[i] \in Nat /\ tries'[i] = tries[i]
  BY <1>5, TallyTypes
<1>7. \A u \in Threads : u # t => /\ pc'[u] = pc[u] /\ todo'[u] = todo[u]
                                  /\ retry'[u] = retry[u] /\ cur'[u] = cur[u]
  BY <1>2, <1>4 DEF DropPage
<1>8. /\ todo'[t] \subseteq got /\ pc'[t] \in {"next", "idle"}
      /\ pc'[t] = "next" =>
           \A i \in Entries : i \in got => retry'[t][i] = retry[t][i]
  BY <1>0, <1>2, <1>4 DEF DropPage
<1>9. ASSUME NEW u \in Threads, pc'[u] = "claim" PROVE u \in Recoverers
  BY <1>7, <1>9 DEF RetryInv
<1>10. ASSUME NEW i \in Entries PROVE (Undelivered(i) /\ Covered(i))'
  <2>1. /\ Undelivered(i) /\ Covered(i) /\ i \in Nat /\ tries[i] \in Nat /\ tries'[i] = tries[i]
        /\ count[i] \in 0 .. MaxRetryCount /\ count[i] \in Nat
    BY <1>0, <1>6 DEF RetryInv, Entries, TypeInv, TypeOK, GroupTypeOK
  <2>2. Undelivered(i)'
    <3> SUFFICES ASSUME i > cursor
                 PROVE  /\ i \notin pel' /\ count'[i] = 0
                        /\ \A u \in Threads : i \notin todo'[u]
      BY <1>2 DEF Undelivered
    <3>1. i \notin pel /\ count[i] = 0 /\ \A u \in Threads : i \notin todo[u]
      BY <2>1 DEF Undelivered
    <3>2. i \notin got
      BY <1>0, <1>1, <3>1
    <3> QED
      BY <1>2, <1>7, <1>8, <3>1, <3>2
  <2>3. \A u \in Threads : u # t => /\ Due(u, i)' <=> Due(u, i)
                                    /\ Waits(u, i)' <=> Waits(u, i)
    BY <1>7 DEF Due, Waits, Busy, Exhausted
  <2>4. ~Due(t, i) /\ ~Waits(t, i)'
    BY <1>2, <1>8 DEF Due, Waits
  <2>5. Due(t, i)' => i \in got /\ Waits(t, i)
    <3> SUFFICES ASSUME Due(t, i)' PROVE i \in got /\ Waits(t, i)
      OBVIOUS
    <3>1. i \in got /\ pc'[t] = "next" /\ retry'[t][i] = retry[t][i] /\ i \in todo[t]
      BY <1>1, <1>8 DEF Due
    <3>2. ~Exhausted(t, i)
      BY <3>1 DEF Due, Exhausted
    <3> QED
      BY <1>2, <3>1, <3>2 DEF Waits
  <2>6. /\ MayCall(i) \subseteq Threads /\ MayCall(i)' \subseteq Threads
        /\ MightCall(i) \subseteq Threads /\ MightCall(i)' \subseteq Threads
        /\ MayCall(i)' \subseteq MayCall(i) \cup {t}
        /\ (i \notin got => MayCall(i)' \subseteq MayCall(i))
        /\ MightCall(i)' \subseteq MightCall(i)
        /\ MightCall(i)' \subseteq (MayCall(i) \cup {t}) \cup (Recoverers \ {t})
    <3>1. \A u \in Threads : Waits(u, i) => u \in Recoverers
      BY DEF Waits, RetryInv
    <3> QED
      BY <2>3, <2>4, <2>5, <3>1 DEF MayCall, MightCall
  <2>7. /\ Cardinality(MayCall(i)) \in Nat /\ Cardinality(MayCall(i)') \in Nat
        /\ Cardinality(MightCall(i)) \in Nat /\ Cardinality(MightCall(i)') \in Nat
        /\ Limit \in Nat /\ Limit = MaxRetryCount + Cardinality(Recoverers) - 1
        /\ Cardinality(Recoverers) \in Nat
    BY <2>6, CallersFinite DEF Limit
  <2>8. /\ Cardinality(MayCall(i)') <= Cardinality(MayCall(i)) + 1
        /\ i \notin got => Cardinality(MayCall(i)') <= Cardinality(MayCall(i))
        /\ Cardinality(MightCall(i)') <= Cardinality(MightCall(i))
        /\ Cardinality(MightCall(i)') <= Cardinality(MayCall(i)) + Cardinality(Recoverers)
    <3>1. IsFiniteSet(MayCall(i)) /\ IsFiniteSet(Recoverers)
      BY <1>0, <2>6, CallersFinite
    <3>2. MayCall(i) \cup {t} \subseteq Threads
      BY <1>0, <2>6
    <3>3. Cardinality(MayCall(i) \cup {t}) \in Nat
          /\ Cardinality(MayCall(i) \cup {t}) <= Cardinality(MayCall(i)) + 1
      <4> DEFINE M == MayCall(i)
      <4>1. IsFiniteSet(M) /\ Cardinality(M) \in Nat
        BY <2>7, <3>1
      <4> HIDE DEF M
      <4>2. Cardinality(M \cup {t}) = IF t \in M THEN Cardinality(M) ELSE Cardinality(M) + 1
        BY <4>1, FS_AddElement
      <4>3. Cardinality(M \cup {t}) \in Nat /\ Cardinality(M \cup {t}) <= Cardinality(M) + 1
        BY <4>1, <4>2
      <4> QED
        BY <4>3 DEF M
    <3>4. IsFiniteSet(Recoverers \ {t})
          /\ Cardinality(Recoverers \ {t}) = Cardinality(Recoverers) - 1
      BY <3>1, FS_RemoveElement
    <3>5. IsFiniteSet(MayCall(i) \cup {t})
      BY <3>2, CallersFinite
    <3>6. Cardinality((MayCall(i) \cup {t}) \cup (Recoverers \ {t}))
            <= Cardinality(MayCall(i) \cup {t}) + Cardinality(Recoverers \ {t})
      <4> DEFINE A == MayCall(i) \cup {t}
                 B == Recoverers \ {t}
      <4>1. /\ IsFiniteSet(A) /\ IsFiniteSet(B) /\ A \cap B \subseteq Threads
            /\ Cardinality(A) \in Nat /\ Cardinality(B) \in Nat
        BY <2>7, <3>2, <3>3, <3>4, <3>5, CallersFinite
      <4> HIDE DEF A, B
      <4>2. Cardinality(A \cup B) = Cardinality(A) + Cardinality(B) - Cardinality(A \cap B)
        BY <4>1, FS_Union
      <4>3. Cardinality(A \cap B) \in Nat
        BY <4>1, CallersFinite
      <4>4. Cardinality(A \cup B) <= Cardinality(A) + Cardinality(B)
        BY <4>1, <4>2, <4>3
      <4> QED
        BY <4>4 DEF A, B
    <3>7. (MayCall(i) \cup {t}) \cup (Recoverers \ {t}) \subseteq Threads
      BY <1>0, <3>2
    <3>8. /\ Cardinality(MayCall(i)') <= Cardinality(MayCall(i) \cup {t})
          /\ i \notin got => Cardinality(MayCall(i)') <= Cardinality(MayCall(i))
          /\ Cardinality(MightCall(i)') <= Cardinality(MightCall(i))
          /\ Cardinality(MightCall(i)')
               <= Cardinality((MayCall(i) \cup {t}) \cup (Recoverers \ {t}))
      BY <2>6, <3>2, <3>7, CallersFinite
    <3>9. Cardinality((MayCall(i) \cup {t}) \cup (Recoverers \ {t})) \in Nat
      BY <3>7, CallersFinite
    <3> QED
      BY <2>7, <3>3, <3>4, <3>6, <3>8, <3>9
  <2>9. count'[i] = IF i \in got /\ count[i] < MaxRetryCount THEN count[i] + 1 ELSE count[i]
    BY <1>2
  <2> HIDE DEF MayCall, MightCall
  <2>10. Covered(i)'
    BY <1>0, <2>1, <2>7, <2>8, <2>9 DEF Covered, Limit
  <2> QED
    BY <2>2, <2>10
<1> QED
  BY <1>6, <1>9, <1>10 DEF RetryInv

-----------------------------------------------------------------------------
LEMMA RetryInit == CountedInit => RetryInv
<1> SUFFICES ASSUME CountedInit PROVE RetryInv
  OBVIOUS
<1>1. tries \in [Entries -> Nat] /\ \A i \in Entries : tries[i] = 0 /\ count[i] = 0
  BY DEF CountedInit, Init
<1>2. pel = {} /\ \A t \in Threads : todo[t] = {} /\ pc[t] = "idle"
  BY DEF CountedInit, Init
<1>3. \A i \in Entries : MayCall(i) = {}
  BY <1>2 DEF MayCall, Due
<1>4. Cardinality({}) = 0 /\ MaxRetryCount \in Nat \ {0}
  BY FS_EmptySet, ConstantsAssumption
<1>5. \A i \in Entries : Covered(i)
  BY <1>1, <1>3, <1>4 DEF Covered
<1> QED
  BY <1>1, <1>2, <1>5 DEF RetryInv, Undelivered

LEMMA RetryStep ==
  TypeInv /\ RetryInv /\ [CountedNext]_<<vars, tries>> => RetryInv'
<1> SUFFICES ASSUME TypeInv, RetryInv, [CountedNext]_<<vars, tries>> PROVE RetryInv'
  OBVIOUS
<1>1. CASE CountedNext
  <2>1. Next /\ Tally
    BY <1>1 DEF CountedNext, Tally
  <2>2. ASSUME NEW t \in Readers, ReadNew(t) PROVE RetryInv'
    BY <2>1, <2>2, RetryRead
  <2>3. ASSUME NEW t \in Recoverers, Recover(t) PROVE RetryInv'
    <3>1. CASE EndScan(t) \/ ClaimFails(t)
      <4>1. t \in Threads
        BY DEF Threads
      <4> QED
        BY <2>1, <3>1, <4>1, RetryElsewhere, TameKeeps
    <3> QED
      BY <2>1, <2>3, <3>1, RetryList, RetryClaim DEF Recover
  <2>4. ASSUME NEW t \in Threads, Handle(t) PROVE RetryInv'
    <3>1. (\A u \in Threads : Tame(u)) /\ UNCHANGED <<cursor, count>> /\ pel' \subseteq pel
      BY <2>4, RetryTx, RetryDispatch, RetryElsewhere DEF Handle
    <3> QED
      BY <2>1, <3>1, TameKeeps
  <2>5. CASE \/ \E e \in Events : Publisher(e)
             \/ \E p \in Procs : Process(p)
             \/ \E i \in pel : GoIdle(i)
             \/ \E k \in Keys : ArchiveClaim(k) \/ DeleteLog(k)
    BY <2>1, <2>5, RetryElsewhere, TameKeeps
  <2> QED
    BY <2>1, <2>2, <2>3, <2>4, <2>5 DEF Next
<1>2. CASE UNCHANGED <<vars, tries>>
  <2>1. UNCHANGED <<pc, todo, cur, retry, cursor, count, pel, tries>>
    BY <1>2 DEF vars, threadVars, groupVars
  <2>2. \A i \in Entries : MayCall(i)' = MayCall(i) /\ MightCall(i)' = MightCall(i)
    BY <2>1 DEF MayCall, MightCall, Due, Waits, Busy, Exhausted
  <2> QED
    BY <2>1, <2>2 DEF RetryInv, Undelivered, Covered, Limit
<1> QED
  BY <1>1, <1>2

\* For any number of billing processes and readers: the handler runs at most
\* MaxRetryCount times for an entry, and once more for each further process
\* (readLoop, recoverPending, processMessage).
THEOREM HandlerRuns == CountedSpec => []HandlerRunsBounded
<1>1. CountedInit => TypeInv /\ RetryInv
  BY TypeInit, RetryInit DEF CountedInit
<1>2. TypeInv /\ RetryInv /\ [CountedNext]_<<vars, tries>> => (TypeInv /\ RetryInv)'
  BY TypeStep, RetryStep DEF CountedNext
<1>3. TypeInv /\ RetryInv => HandlerRunsBounded
  <2> SUFFICES ASSUME TypeInv, RetryInv, NEW i \in Entries PROVE tries[i] <= Limit
    BY DEF HandlerRunsBounded, Limit
  <2>1. Covered(i) /\ tries[i] \in Nat /\ count[i] \in Nat
    BY DEF RetryInv, TypeInv, TypeOK, GroupTypeOK
  <2>2. /\ Cardinality(MayCall(i)) \in Nat /\ Cardinality(MightCall(i)) \in Nat
        /\ MaxRetryCount \in Nat /\ Limit \in Nat /\ Limit >= MaxRetryCount
    BY CallersFinite DEF MayCall, MightCall
  <2> QED
    BY <2>1, <2>2 DEF Covered
<1> QED
  BY <1>1, <1>2, <1>3, PTL DEF CountedSpec

-----------------------------------------------------------------------------
(* The entries of the stream *)

\* Entries stands for everything the stream can hold.
StreamBounded == Stored \subseteq Entries

\* f tells which XADD stored each entry: the event and the number of the attempt,
\* of those made so far while Publish is still trying.
Origins == Events \X (1 .. PublishRetries)
Traces(f) ==
  /\ f \in Injection(Stored, Origins)
  /\ \A i \in Stored : /\ f[i][1] = stream[i]
                       /\ publishing[stream[i]] = "trying"
                            => f[i][2] <= attempts[stream[i]]

OriginInv == \E f : Traces(f)

\* As many entries as there are attempts of all events.
LEMMA OriginBound ==
  ASSUME TypeInv, OriginInv
  PROVE  StreamBounded
<1>1. PICK f : f \in Injection(Stored, Origins)
  BY DEF OriginInv, Traces
<1>2. /\ IsFiniteSet(1 .. PublishRetries)
      /\ Cardinality(1 .. PublishRetries) = PublishRetries
      /\ PublishRetries \in Nat
  BY ConstantsAssumption, FS_Interval
<1>3. IsFiniteSet(Events) /\ Cardinality(Events) \in Nat
  BY ConstantsAssumption, FS_CardinalityType
<1>4. IsFiniteSet(Origins) /\ Cardinality(Origins) = Cardinality(Events) * PublishRetries
  BY <1>2, <1>3, FS_Product DEF Origins
<1>5. Cardinality(Stored) <= Cardinality(Events) * PublishRetries
  BY <1>1, <1>4, FS_Injection
<1>6. Len(stream) \in Nat
  BY DEF TypeInv, TypeOK, PublisherTypeOK
<1>7. Cardinality(Stored) = Len(stream)
  <2>1. Cardinality(1 .. Len(stream))
          = IF 1 > Len(stream) THEN 0 ELSE Len(stream) - 1 + 1
    BY <1>6, FS_Interval
  <2> QED
    BY <1>6, <2>1 DEF Stored
<1> QED
  BY <1>2, <1>3, <1>5, <1>6, <1>7 DEF StreamBounded, Stored, Entries

\* A step of Publish that stores no entry.
LEMMA OriginKeeps ==
  ASSUME TypeInv, NEW f, Traces(f), stream' = stream, NEW e \in Events,
         \A d \in Events : d # e => /\ attempts'[d] = attempts[d]
                                    /\ publishing'[d] = publishing[d],
         publishing'[e] # "trying" \/ (publishing[e] = "trying" /\ attempts'[e] >= attempts[e]),
         attempts'[e] \in Nat
  PROVE  OriginInv'
<1>1. Stored' = Stored
  BY DEF Stored
<1>2. ASSUME NEW i \in Stored, publishing'[stream[i]] = "trying"
      PROVE  f[i][2] <= attempts'[stream[i]]
  <2>1. stream[i] \in Events /\ f[i][2] \in Nat /\ attempts[stream[i]] \in Nat
    <3>1. f \in [Stored -> Origins]
      BY DEF Traces, Injection
    <3>2. f[i][2] \in Nat
      BY <3>1, ConstantsAssumption DEF Origins
    <3>3. stream[i] \in Events
      BY DEF TypeInv, TypeOK, PublisherTypeOK, Stored
    <3>4. attempts[stream[i]] \in Nat
      BY <3>3, ConstantsAssumption DEF TypeInv, TypeOK, PublisherTypeOK
    <3> QED
      BY <3>2, <3>3, <3>4
  <2>2. CASE stream[i] # e
    BY <1>2, <2>1, <2>2 DEF Traces
  <2>3. CASE stream[i] = e
    BY <1>2, <2>1, <2>3 DEF Traces
  <2> QED
    BY <2>2, <2>3
<1>3. Traces(f)'
  BY <1>1, <1>2 DEF Traces
<1> QED
  BY <1>3 DEF OriginInv

\* An attempt that stores its entry.
LEMMA OriginAppends ==
  ASSUME TypeInv, NEW f, Traces(f), NEW e \in Events, stream' = Append(stream, e),
         publishing[e] = "trying",
         \A d \in Events : d # e => /\ attempts'[d] = attempts[d]
                                    /\ publishing'[d] = publishing[d],
         publishing'[e] # "trying" \/ attempts'[e] = attempts[e] + 1
  PROVE  OriginInv'
<1> DEFINE n == Len(stream) + 1
           o == <<e, attempts[e] + 1>>
           g == [i \in Stored' |-> IF i = n THEN o ELSE f[i]]
<1>1. /\ stream \in Seq(Events) /\ Len(stream) \in Nat
      /\ attempts[e] \in 0 .. (PublishRetries - 1) /\ PublishRetries \in Nat \ {0}
  BY ConstantsAssumption DEF TypeInv, TypeOK, PublisherTypeOK
<1>2. /\ Len(stream') = n /\ n \notin Stored /\ Stored' = Stored \cup {n}
      /\ stream'[n] = e /\ \A i \in Stored : stream'[i] = stream[i]
  <2>1. /\ Len(stream') = n /\ stream'[n] = e
        /\ \A i \in 1 .. Len(stream) : stream'[i] = stream[i]
    BY <1>1, AppendKeeps
  <2> QED
    BY <1>1, <2>1 DEF Stored
<1>3. o \in Origins /\ o[1] = e /\ o[2] = attempts[e] + 1
  BY <1>1 DEF Origins
<1>4. /\ f \in [Stored -> Origins]
      /\ \A i, j \in Stored : f[i] = f[j] => i = j
  BY DEF Traces, Injection, IsInjective
<1>5. ASSUME NEW i \in Stored
      PROVE  /\ f[i] # o /\ stream[i] \in Events /\ f[i][1] = stream[i]
             /\ f[i][2] \in Nat
  <2>1. stream[i] \in Events /\ f[i][1] = stream[i] /\ f[i][2] \in Nat
    <3>1. stream[i] \in Events
      BY <1>1 DEF Stored
    <3>2. f[i] \in Origins
      BY <1>4
    <3>3. f[i][2] \in Nat
      BY <3>2 DEF Origins
    <3> QED
      BY <3>1, <3>3 DEF Traces
  <2>2. stream[i] = e => f[i][2] <= attempts[e]
    BY DEF Traces
  <2> QED
    BY <1>1, <1>3, <2>1, <2>2
<1> HIDE DEF o, n
<1>6. g \in Injection(Stored', Origins)
  <2>1. g \in [Stored' -> Origins]
    BY <1>2, <1>3, <1>4
  <2>2. \A i, j \in Stored' : g[i] = g[j] => i = j
    BY <1>2, <1>4, <1>5
  <2> QED
    BY <2>1, <2>2 DEF Injection, IsInjective
<1>7. ASSUME NEW i \in Stored'
      PROVE  /\ g[i][1] = stream'[i]
             /\ publishing'[stream'[i]] = "trying" => g[i][2] <= attempts'[stream'[i]]
  <2>1. CASE i = n
    <3>1. g[i] = o /\ stream'[i] = e
      BY <1>2, <1>7, <2>1
    <3> QED
      BY <1>1, <1>3, <3>1
  <2>2. CASE i # n
    <3>1. i \in Stored /\ g[i] = f[i] /\ stream'[i] = stream[i] /\ stream[i] \in Events
      BY <1>2, <1>5, <1>7, <2>2
    <3>2. f[i][1] = stream[i] /\ f[i][2] \in Nat
      BY <1>5, <3>1
    <3>3. publishing[stream[i]] = "trying" => f[i][2] <= attempts[stream[i]]
      BY <3>1 DEF Traces
    <3>4. CASE stream[i] = e
      BY <1>1, <3>1, <3>2, <3>3, <3>4
    <3>5. CASE stream[i] # e
      BY <3>1, <3>2, <3>3, <3>5
    <3> QED
      BY <3>4, <3>5
  <2> QED
    BY <2>1, <2>2
<1> HIDE DEF g
<1>8. PICK h : h = g
  OBVIOUS
<1>9. Traces(h)'
  BY <1>6, <1>7, <1>8 DEF Traces, Origins
<1> QED
  BY <1>9 DEF OriginInv

LEMMA OriginPublish ==
  ASSUME TypeInv, OriginInv, NEW e \in Events, Publisher(e)
  PROVE  OriginInv'
<1>1. PICK f : Traces(f)
  BY DEF OriginInv
<1>2. /\ attempts \in [Events -> 0 .. (PublishRetries - 1)]
      /\ publishing \in [Events -> {"trying", "ok", "failed"}]
      /\ PublishRetries \in Nat \ {0} /\ attempts[e] \in Nat
  BY ConstantsAssumption DEF TypeInv, TypeOK, PublisherTypeOK
<1>3. /\ publishing[e] = "trying"
      /\ stream' = stream \/ stream' = Append(stream, e)
      /\ \A d \in Events : d # e => /\ attempts'[d] = attempts[d]
                                    /\ publishing'[d] = publishing[d]
      /\ attempts'[e] \in Nat
      /\ publishing'[e] # "trying" \/ attempts'[e] = attempts[e] + 1
  BY <1>2 DEF Publisher, PublishOk, PublishError, PublishCancel
<1>4. CASE stream' = stream
  BY <1>1, <1>2, <1>3, <1>4, OriginKeeps
<1>5. CASE stream' = Append(stream, e)
  BY <1>1, <1>3, <1>5, OriginAppends
<1> QED
  BY <1>3, <1>4, <1>5

LEMMA OriginStep == TypeInv /\ OriginInv /\ [Next]_vars => OriginInv'
<1> SUFFICES ASSUME TypeInv, OriginInv, [Next]_vars PROVE OriginInv'
  OBVIOUS
<1>1. ASSUME NEW e \in Events, Publisher(e) PROVE OriginInv'
  BY <1>1, OriginPublish
<1>2. CASE UNCHANGED pubVars
  <2>1. UNCHANGED <<attempts, publishing, stream>> /\ Stored' = Stored
    BY <1>2 DEF pubVars, Stored
  <2>2. PICK f : Traces(f)
    BY DEF OriginInv
  <2>3. Traces(f)'
    BY <2>1, <2>2 DEF Traces
  <2> QED
    BY <2>3 DEF OriginInv
<1>3. ASSUME NEW t \in Threads, ReadNew(t) \/ Recover(t) PROVE UNCHANGED pubVars
  BY <1>3 DEF ReadNew, Recover, ListPending, EndScan, ClaimPending, ClaimFails
<1>4. ASSUME NEW t \in Threads, Handle(t) PROVE UNCHANGED pubVars
  BY <1>4 DEF Handle, EmptyBatch, Dispatch, MatchDedup, MatchArchive, InsertClaim, Recheck,
     CheckTombstone, CommitTx, AbortTx, Project, DeadLetter, Ack, AckFails
<1>5. ASSUME NEW p \in Procs, Process(p) PROVE UNCHANGED pubVars
  BY <1>5 DEF Process, Stop, Stopped, Crash, Start
<1>6. CASE \/ \E i \in pel : GoIdle(i)
           \/ \E k \in Keys : ArchiveClaim(k) \/ DeleteLog(k)
           \/ UNCHANGED vars
  BY <1>2, <1>6 DEF GoIdle, ArchiveClaim, DeleteLog, vars
<1> QED
  BY <1>1, <1>2, <1>3, <1>4, <1>5, <1>6 DEF Next, Threads

\* However publishes are retried after errors that hid a stored entry, an event is
\* in the stream at most publish_retries times (Publish); so the properties that
\* speak of Entries speak of the whole stream.
THEOREM StreamHolds == Spec => []StreamBounded
<1>1. Init => TypeInv /\ OriginInv
  <2> SUFFICES ASSUME Init PROVE OriginInv
    BY TypeInit
  <2>1. stream = <<>> /\ Len(stream) = 0
    BY DEF Init
  <2>2. Stored = {}
    BY <2>1 DEF Stored
  <2>3. [i \in {} |-> i] \in Injection(Stored, Origins)
    BY <2>2 DEF Injection, IsInjective
  <2>4. Traces([i \in {} |-> i])
    BY <2>2, <2>3 DEF Traces
  <2> QED
    BY <2>4 DEF OriginInv
<1>2. TypeInv /\ OriginInv /\ [Next]_vars => (TypeInv /\ OriginInv)'
  BY TypeStep, OriginStep
<1>3. TypeInv /\ OriginInv => StreamBounded
  BY OriginBound
<1> QED
  BY <1>1, <1>2, <1>3, PTL DEF Spec
=============================================================================

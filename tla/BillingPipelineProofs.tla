------------------------ MODULE BillingPipelineProofs ------------------------
(***************************************************************************)
(* For every set of events, threads and processes and every bound: the     *)
(* type invariant of BillingPipeline, its exactly-once invariants, and     *)
(* that it implements UsageCharging.                                       *)
(***************************************************************************)
EXTENDS BillingPipeline, TLAPS

\* Between Dispatch and Finish a thread works on an entry of its batch.
Busy(t) == pc[t] \in Pcs \ {"idle", "claim", "next"}
CurIsTaken == \A t \in Threads : Busy(t) => cur[t] \in todo[t]

\* Which events reach which steps, and where the per-entry flags may be set.
KindFits(t) ==
  /\ pc[t] \in TxPcs \ {"commit"} => KindOf[CurEvent(t)] \in Charging
  /\ pc[t] \in {"commit", "project"} => KindOf[CurEvent(t)] \in Charging \cup Tracking
  /\ applied[t] => /\ pc[t] \in {"log", "commit", "project", "ack"}
                   /\ KindOf[CurEvent(t)] \in Charging
  /\ t \in early => pc[t] \in TxPcs

\* What a transaction that has looked up a table without finding a row knows:
\* either it began before the claim, and then the claim cannot be archived
\* before it ends, or the claim was there and the next lookup finds it.
LookupHolds(t) ==
  /\ pc[t] = "dedup" /\ t \notin early => Claimed(CurKey(t))
  /\ pc[t] = "archive" /\ t \notin early => archive[CurKey(t)] # NoPrint
  /\ pc[t] = "insert" => t \in early /\ archive[CurKey(t)] = NoPrint

\* While a thread's claim is uncommitted no claim of the key is on record; once
\* it is committed, until the cache is updated, no delta was queued.
ClaimIsNew(t) ==
  /\ applied[t] /\ pc[t] \in {"log", "commit"} => ~Claimed(CurKey(t))
  /\ applied[t] /\ pc[t] = "project" => deltas[CurKey(t)] = 0

\* A thread that goes on without claiming has found its own charge on record.
FoundIsBilled(t) ==
  /\ pc[t] \in {"log", "commit"} /\ ~applied[t] /\ KindOf[CurEvent(t)] \in Charging
       => Claim(CurKey(t)) = CurPrint(t)
  /\ pc[t] = "recheck" => Claimed(CurKey(t))
  /\ pc[t] = "project" => Settled(CurEvent(t))
  /\ pc[t] = "ack" => cur[t] \in dlq \cup dlqLost \/ Settled(CurEvent(t))

ThreadSafe(t) == KindFits(t) /\ LookupHolds(t) /\ ClaimIsNew(t) /\ FoundIsBilled(t)

\* No two threads claim one key.
Claiming(t) == applied[t] /\ pc[t] \in {"log", "commit", "project"}
Exclusive == \A t, u \in Threads :
               t # u /\ Claiming(t) /\ Claiming(u) => CurKey(t) # CurKey(u)

\* A claim is in one table only.
OneTable == \A k \in Keys : dedup[k] = NoPrint \/ archive[k] = NoPrint

DatabaseSafe ==
  /\ OneTable
  /\ ChargedOnce
  /\ DeltaAtMostOnce
  /\ LedgerMatchesCharges
  /\ AckedIsAccountedFor

SafeInv == (\A t \in Threads : ThreadSafe(t)) /\ Exclusive /\ DatabaseSafe

IInv == TypeOK /\ CurIsTaken /\ SafeInv

-----------------------------------------------------------------------------
(* Types *)

TypeInv == TypeOK /\ CurIsTaken

\* The event a busy thread works on is an event.
LEMMA CurIsEvent ==
  ASSUME TypeInv, NEW t \in Threads, Busy(t)
  PROVE  /\ cur[t] \in Stored
         /\ CurEvent(t) \in Events
         /\ CurKey(t) \in Keys
         /\ CurPrint(t) \in Prints
<1>1. cur[t] \in Stored
  BY DEF TypeInv, TypeOK, ThreadTypeOK, CurIsTaken
<1>2. CurEvent(t) \in Events
  BY <1>1 DEF TypeInv, TypeOK, PublisherTypeOK, CurEvent, Stored
<1> QED
  BY <1>1, <1>2, ConstantsAssumption DEF CurKey, CurPrint

\* Appending to the stream moves no entry.
LEMMA AppendKeeps ==
  ASSUME NEW S, NEW s \in Seq(S), NEW e \in S
  PROVE  /\ Append(s, e) \in Seq(S)
         /\ Len(Append(s, e)) = Len(s) + 1
         /\ \A i \in 1 .. Len(s) : Append(s, e)[i] = s[i]
         /\ Append(s, e)[Len(s) + 1] = e
OBVIOUS

LEMMA PublishExtends ==
  ASSUME stream \in Seq(Events), NEW e \in Events, Publisher(e)
  PROVE  /\ stream' \in Seq(Events)
         /\ Stored \subseteq Stored'
         /\ \A i \in Stored : stream'[i] = stream[i]
         /\ \A i \in Stored' \ Stored : stream'[i] = e
<1>0. stream' = stream \/ stream' = Append(stream, e)
  BY DEF Publisher, PublishOk, PublishError, PublishCancel
<1>1. CASE stream' = stream
  BY <1>1 DEF Stored
<1>2. CASE stream' = Append(stream, e)
  <2>1. /\ stream' \in Seq(Events)
        /\ Len(stream') = Len(stream) + 1
        /\ \A i \in 1 .. Len(stream) : stream'[i] = stream[i]
        /\ stream'[Len(stream) + 1] = e
    BY <1>2, AppendKeeps
  <2>2. Len(stream) \in Nat
    OBVIOUS
  <2> QED
    BY <2>1, <2>2 DEF Stored
<1> QED
  BY <1>0, <1>1, <1>2

LEMMA TypeInit == Init => TypeInv
<1> SUFFICES ASSUME Init PROVE TypeInv
  OBVIOUS
<1>1. PublisherTypeOK
  BY ConstantsAssumption DEF Init, PublisherTypeOK
<1>2. GroupTypeOK
  BY ConstantsAssumption DEF Init, GroupTypeOK
<1>3. ThreadTypeOK
  BY ConstantsAssumption DEF Init, ThreadTypeOK, Pcs
<1>4. DatabaseTypeOK
  BY DEF Init, DatabaseTypeOK
<1>5. CurIsTaken
  BY DEF Init, CurIsTaken, Busy
<1> QED
  BY <1>1, <1>2, <1>3, <1>4, <1>5 DEF TypeInv, TypeOK

LEMMA TypePublish ==
  ASSUME TypeInv, NEW e \in Events, Publisher(e)
  PROVE  TypeInv'
<1>s. stream \in Seq(Events)
  BY DEF TypeInv, TypeOK, PublisherTypeOK
<1>1. stream' \in Seq(Events) /\ Stored \subseteq Stored'
  BY <1>s, PublishExtends
<1>2. UNCHANGED <<groupVars, procVars, threadVars, claimVars, dbVars, cacheVars>>
  BY DEF Publisher, PublishOk, PublishError, PublishCancel
<1>3. /\ attempts' \in [Events -> 0 .. (PublishRetries - 1)]
      /\ publishing' \in [Events -> {"trying", "ok", "failed"}]
  <2>1. PublishRetries \in Nat \ {0}
    BY ConstantsAssumption
  <2>2. /\ attempts \in [Events -> 0 .. (PublishRetries - 1)]
        /\ publishing \in [Events -> {"trying", "ok", "failed"}]
    BY DEF TypeInv, TypeOK, PublisherTypeOK
  <2>3. CASE PublishOk(e) \/ PublishCancel(e)
    BY <2>1, <2>2, <2>3 DEF PublishOk, PublishCancel
  <2>4. CASE PublishError(e)
    BY <2>1, <2>2, <2>4 DEF PublishError, LastAttempt
  <2> QED
    BY <2>3, <2>4 DEF Publisher
<1>4. PublisherTypeOK'
  BY <1>1, <1>3 DEF PublisherTypeOK
<1>5. GroupTypeOK'
  BY <1>1, <1>2 DEF TypeInv, TypeOK, GroupTypeOK, groupVars
<1>6. ThreadTypeOK'
  BY <1>1, <1>2 DEF TypeInv, TypeOK, ThreadTypeOK, threadVars, procVars
<1>7. DatabaseTypeOK'
  BY <1>2 DEF TypeInv, TypeOK, DatabaseTypeOK, claimVars, dbVars, cacheVars
<1>8. CurIsTaken'
  BY <1>2 DEF TypeInv, CurIsTaken, Busy, threadVars
<1> QED
  BY <1>4, <1>5, <1>6, <1>7, <1>8 DEF TypeInv, TypeOK

\* The parts of the type invariant a step leaves alone.
LEMMA TypeFrame ==
  ASSUME TypeInv
  PROVE  /\ UNCHANGED pubVars => PublisherTypeOK' /\ Stored' = Stored
         /\ UNCHANGED <<stream, groupVars>> => GroupTypeOK'
         /\ UNCHANGED <<claimVars, dbVars, cacheVars>> => DatabaseTypeOK'
         /\ UNCHANGED <<stream, procVars, threadVars>> => ThreadTypeOK' /\ CurIsTaken'
<1>1. UNCHANGED pubVars => PublisherTypeOK' /\ Stored' = Stored
  BY DEF TypeInv, TypeOK, PublisherTypeOK, pubVars, Stored
<1>2. UNCHANGED <<stream, groupVars>> => GroupTypeOK'
  BY DEF TypeInv, TypeOK, GroupTypeOK, groupVars, Stored
<1>3. UNCHANGED <<claimVars, dbVars, cacheVars>> => DatabaseTypeOK'
  BY DEF TypeInv, TypeOK, DatabaseTypeOK, claimVars, dbVars, cacheVars
<1>4. UNCHANGED <<stream, procVars, threadVars>> => ThreadTypeOK' /\ CurIsTaken'
  BY DEF TypeInv, TypeOK, ThreadTypeOK, CurIsTaken, Busy, procVars, threadVars, Stored
<1> QED
  BY <1>1, <1>2, <1>3, <1>4

\* A step within an entry: the thread keeps its entry.
LEMMA TypeMove ==
  ASSUME TypeInv, NEW t \in Threads, Busy(t), NEW q \in Pcs,
         pc' = [pc EXCEPT ![t] = q],
         UNCHANGED <<stream, up, stops, todo, cur, retry, from>>,
         early' \subseteq Threads,
         applied' \in [Threads -> BOOLEAN], tombed' \in [Threads -> BOOLEAN]
  PROVE  ThreadTypeOK' /\ CurIsTaken'
<1>1. Stored' = Stored
  BY DEF Stored
<1>2. ThreadTypeOK'
  BY <1>1 DEF TypeInv, TypeOK, ThreadTypeOK
<1>3. CurIsTaken'
  BY DEF TypeInv, TypeOK, ThreadTypeOK, CurIsTaken, Busy
<1> QED
  BY <1>2, <1>3

\* The end of an entry.
LEMMA TypeFinish ==
  ASSUME TypeInv, NEW t \in Threads, Finish(t),
         UNCHANGED <<stream, up, stops, from>>
  PROVE  ThreadTypeOK' /\ CurIsTaken'
<1>1. Stored' = Stored
  BY DEF Stored
<1>2. retry' \in [Threads -> [Entries -> 0 .. MaxRetryCount]]
  <2>1. /\ retry \in [Threads -> [Entries -> 0 .. MaxRetryCount]]
        /\ 0 \in 0 .. MaxRetryCount
    BY ConstantsAssumption DEF TypeInv, TypeOK, ThreadTypeOK
  <2>2. retry' = [retry EXCEPT ![t] = [retry[t] EXCEPT ![cur[t]] = 0]]
    BY <2>1 DEF Finish
  <2> QED
    BY <2>1, <2>2
<1>3. /\ pc' \in [Threads -> Pcs]
      /\ todo' \in [Threads -> SUBSET Stored]
      /\ cur' \in [Threads -> Nat]
      /\ early' \subseteq Threads
      /\ applied' \in [Threads -> BOOLEAN]
      /\ tombed' \in [Threads -> BOOLEAN]
  BY DEF TypeInv, TypeOK, ThreadTypeOK, Finish, Pcs
<1>4. ThreadTypeOK'
  BY <1>1, <1>2, <1>3 DEF TypeInv, TypeOK, ThreadTypeOK
<1>5. CurIsTaken'
  BY DEF TypeInv, TypeOK, ThreadTypeOK, CurIsTaken, Busy, Finish
<1> QED
  BY <1>4, <1>5

LEMMA TypeTake ==
  ASSUME TypeInv, NEW t \in Threads,
         ReadNew(t) \/ Recover(t) \/ EmptyBatch(t)
  PROVE  TypeInv'
<1>m. MaxRetryCount \in Nat \ {0}
  BY ConstantsAssumption
<1>1. UNCHANGED <<pubVars, procVars, cur, early, applied, tombed, claimVars, dbVars,
                  cacheVars, acked, dlq, dlqLost>>
  BY DEF ReadNew, Recover, ListPending, EndScan, ClaimPending, ClaimFails, EmptyBatch,
         groupVars
<1>2. Stored' = Stored /\ PublisherTypeOK' /\ DatabaseTypeOK' /\ stream' = stream
  BY <1>1, TypeFrame DEF pubVars
<1>3. /\ pc[t] \in {"idle", "claim", "next"} /\ pc'[t] \in {"idle", "claim", "next"}
      /\ pc' = [pc EXCEPT ![t] = pc'[t]]
  BY DEF TypeInv, TypeOK, ThreadTypeOK, ReadNew, Recover, ListPending, EndScan,
         ClaimPending, ClaimFails, EmptyBatch, DropPage
<1>4. \A u \in Threads : u # t => todo'[u] = todo[u]
  BY DEF TypeInv, TypeOK, ThreadTypeOK, ReadNew, Recover, ListPending, EndScan,
         ClaimPending, ClaimFails, EmptyBatch, DropPage
<1>5. CurIsTaken'
  BY <1>1, <1>3, <1>4 DEF TypeInv, TypeOK, ThreadTypeOK, CurIsTaken, Busy
<1>6. GroupTypeOK'
  <2>1. CASE ReadNew(t)
    <3> DEFINE batch == First(BatchSize, {i \in Live : i > cursor})
    <3>1. batch \subseteq Stored
      BY DEF First, Live
    <3>2. Stored \subseteq Nat
      BY DEF Stored
    <3>3. /\ \E last \in batch : cursor' = last
          /\ pel' = pel \cup batch
          /\ count' = [i \in Entries |-> IF i \in batch THEN 1 ELSE count[i]]
          /\ UNCHANGED <<idle, acked, dlq, dlqLost>>
      BY <2>1 DEF ReadNew
    <3> HIDE DEF batch
    <3>4. cursor' \in Nat /\ pel' \subseteq Stored /\ idle' \subseteq pel'
      BY <3>1, <3>2, <3>3 DEF TypeInv, TypeOK, GroupTypeOK
    <3>5. count' \in [Entries -> 0 .. MaxRetryCount]
      BY <3>3, <1>m DEF TypeInv, TypeOK, GroupTypeOK
    <3> QED
      BY <1>2, <3>3, <3>4, <3>5 DEF TypeInv, TypeOK, GroupTypeOK
  <2>2. CASE ClaimPending(t)
    BY <1>1, <1>2, <1>m, <2>2 DEF TypeInv, TypeOK, GroupTypeOK, ClaimPending
  <2>3. CASE ListPending(t) \/ EndScan(t) \/ ClaimFails(t) \/ EmptyBatch(t)
    BY <1>2, <2>3, TypeFrame DEF ListPending, EndScan, ClaimFails, EmptyBatch
  <2> QED
    BY <2>1, <2>2, <2>3 DEF Recover
<1>7. ThreadTypeOK'
  <2>1. /\ pc' \in [Threads -> Pcs]
        /\ up' = up /\ stops' = stops
    BY <1>1, <1>3 DEF TypeInv, TypeOK, ThreadTypeOK, Pcs, procVars
  <2>t. /\ todo \in [Threads -> SUBSET Stored]
        /\ retry \in [Threads -> [Entries -> 0 .. MaxRetryCount]]
        /\ from \in [Threads -> Nat]
        /\ count \in [Entries -> 0 .. MaxRetryCount]
        /\ idle \subseteq Stored
        /\ Stored \subseteq Nat
    BY DEF TypeInv, TypeOK, ThreadTypeOK, GroupTypeOK, Stored
  <2>2. /\ todo' \in [Threads -> SUBSET Stored]
        /\ retry' \in [Threads -> [Entries -> 0 .. MaxRetryCount]]
        /\ from' \in [Threads -> Nat]
    <3>1. CASE ReadNew(t)
      <4> DEFINE batch == First(BatchSize, {i \in Live : i > cursor})
      <4>1. batch \subseteq Stored
        BY DEF First, Live
      <4>2. /\ from' = from
            /\ \/ /\ todo' = [todo EXCEPT ![t] = batch]
                  /\ retry' = [retry EXCEPT ![t] = [i \in Entries |-> 0]]
               \/ todo' = todo /\ retry' = retry
        BY <3>1 DEF ReadNew
      <4> HIDE DEF batch
      <4>3. todo' \in [Threads -> SUBSET Stored]
        BY <2>t, <4>1, <4>2
      <4>4. [i \in Entries |-> 0] \in [Entries -> 0 .. MaxRetryCount]
        BY <1>m
      <4>5. retry' \in [Threads -> [Entries -> 0 .. MaxRetryCount]]
        BY <2>t, <4>2, <4>4
      <4> QED
        BY <2>t, <4>2, <4>3, <4>5
    <3>2. CASE ListPending(t)
      <4> DEFINE page == First(BatchSize, {i \in idle : i >= from[t]})
      <4>1. page \subseteq Stored
        BY <2>t DEF First
      <4>2. /\ todo' = [todo EXCEPT ![t] = page]
            /\ retry' = [retry EXCEPT ![t] =
                           [i \in Entries |-> IF i \in page THEN count[i] ELSE 0]]
            /\ \E last \in page : from' = [from EXCEPT ![t] = last + 1]
        BY <3>2 DEF ListPending
      <4> HIDE DEF page
      <4> QED
        BY <1>m, <2>t, <4>1, <4>2
    <3>3. CASE ClaimPending(t) \/ ClaimFails(t)
      <4>1. CASE DropPage(t)
        BY <1>m, <2>t, <4>1 DEF DropPage
      <4>2. CASE ClaimPending(t) /\ ~DropPage(t)
        <5> DEFINE got == (todo[t] \cap idle) \cap Live
        <5>1. /\ todo' = [todo EXCEPT ![t] = got]
              /\ retry' = [retry EXCEPT ![t] =
                             [i \in Entries |-> IF i \in got THEN retry[t][i] ELSE 0]]
              /\ from' = from
          BY <2>t, <4>2 DEF ClaimPending
        <5>2. got \subseteq Stored
          BY <2>t
        <5> HIDE DEF got
        <5> QED
          BY <1>m, <2>t, <5>1, <5>2
      <4> QED
        BY <3>3, <4>1, <4>2 DEF ClaimFails
    <3>4. CASE EndScan(t) \/ EmptyBatch(t)
      BY <2>t, <3>4 DEF EndScan, EmptyBatch
    <3> QED
      BY <3>1, <3>2, <3>3, <3>4 DEF Recover
  <2> QED
    BY <1>1, <1>2, <2>1, <2>2 DEF TypeInv, TypeOK, ThreadTypeOK
<1> QED
  BY <1>2, <1>5, <1>6, <1>7 DEF TypeInv, TypeOK

LEMMA TypeHandle ==
  ASSUME TypeInv, NEW t \in Threads, Handle(t), ~EmptyBatch(t)
  PROVE  TypeInv'
<1>1. UNCHANGED <<pubVars, procVars, from>>
  BY DEF Handle, Dispatch, MatchDedup, MatchArchive, InsertClaim, Recheck,
         CheckTombstone, CommitTx, AbortTx, Project, DeadLetter, Ack, AckFails
<1>2. Stored' = Stored /\ PublisherTypeOK' /\ UNCHANGED <<stream, up, stops, from>>
  BY <1>1, TypeFrame DEF pubVars, procVars
<1>3. ASSUME ~Dispatch(t) PROVE Busy(t)
  BY <1>3 DEF Handle, MatchDedup, MatchArchive, InsertClaim, Recheck, CheckTombstone,
     CommitTx, AbortTx, Project, DeadLetter, Ack, AckFails, Busy, Pcs, TxPcs
<1>4. GroupTypeOK'
  <2>1. CASE DeadLetter(t)
    <3>1. cur[t] \in Stored
      BY <2>1, CurIsEvent DEF DeadLetter, Busy, Pcs
    <3> QED
      BY <1>2, <2>1, <3>1 DEF DeadLetter, TypeInv, TypeOK, GroupTypeOK
  <2>2. CASE Ack(t)
    <3>1. cur[t] \in Stored
      BY <2>2, CurIsEvent DEF Ack, Busy, Pcs
    <3> QED
      BY <1>2, <2>2, <3>1 DEF Ack, TypeInv, TypeOK, GroupTypeOK
  <2>3. CASE ~DeadLetter(t) /\ ~Ack(t)
    <3>1. UNCHANGED groupVars
      BY <2>3 DEF Handle, Dispatch, MatchDedup, MatchArchive, InsertClaim, Recheck,
         CheckTombstone, CommitTx, AbortTx, Project, AckFails
    <3> QED
      BY <1>2, <3>1, TypeFrame
  <2> QED
    BY <2>1, <2>2, <2>3
<1>5. DatabaseTypeOK'
  <2>1. CASE CommitTx(t)
    <3>1. Busy(t)
      BY <2>1 DEF CommitTx, Busy, Pcs, TxPcs
    <3>2. LedgerRow(CurEvent(t)) \in Keys \X Kinds \X SUBSET Accounts
      BY <3>1, CurIsEvent, ConstantsAssumption DEF LedgerRow
    <3>3. CurKey(t) \in Keys /\ PrintOf[CurEvent(t)] \in Prints
      BY <3>1, CurIsEvent DEF CurPrint
    <3>4. /\ dedup' \in [Keys -> Prints \cup {NoPrint}]
          /\ charges' \in [Keys -> Nat]
          /\ logs' \subseteq Keys
          /\ UNCHANGED <<archive, tombstones, deltas, repaired>>
      BY <2>1, <3>3 DEF CommitTx, Debited, cacheVars, TypeInv, TypeOK, DatabaseTypeOK
    <3>5. ledger' \subseteq Keys \X Kinds \X SUBSET Accounts
      BY <2>1, <3>2 DEF CommitTx, TypeInv, TypeOK, DatabaseTypeOK
    <3> QED
      BY <3>4, <3>5 DEF TypeInv, TypeOK, DatabaseTypeOK
  <2>2. CASE Project(t)
    <3>1. CurKey(t) \in Keys
      BY <2>2, CurIsEvent DEF Project, Busy, Pcs
    <3> QED
      BY <2>2, <3>1 DEF Project, claimVars, dbVars, TypeInv, TypeOK, DatabaseTypeOK
  <2>3. CASE ~CommitTx(t) /\ ~Project(t)
    <3>1. UNCHANGED <<claimVars, dbVars, cacheVars>>
      BY <2>3 DEF Handle, Dispatch, MatchDedup, MatchArchive, InsertClaim, Recheck,
         CheckTombstone, AbortTx, DeadLetter, Ack, AckFails
    <3> QED
      BY <3>1, TypeFrame
  <2> QED
    BY <2>1, <2>2, <2>3
<1>6. ThreadTypeOK' /\ CurIsTaken'
  <2>t. /\ early \subseteq Threads
        /\ applied \in [Threads -> BOOLEAN]
        /\ tombed \in [Threads -> BOOLEAN]
    BY DEF TypeInv, TypeOK, ThreadTypeOK
  <2>1. CASE Finish(t)
    BY <1>2, <2>1, TypeFinish
  <2>2. CASE Dispatch(t)
    <3>1. PICK i \in todo[t] :
            /\ cur' = [cur EXCEPT ![t] = i]
            /\ \E q \in {"dlq", "ack", "commit", "dedup"} : pc' = [pc EXCEPT ![t] = q]
            /\ early' \in {early, early \cup {t}}
            /\ UNCHANGED <<todo, retry, applied, tombed>>
      BY <2>2 DEF Dispatch
    <3>2. i \in Stored /\ Stored \subseteq Nat
      BY DEF TypeInv, TypeOK, ThreadTypeOK, Stored
    <3>3. ThreadTypeOK'
      BY <1>2, <3>1, <3>2 DEF TypeInv, TypeOK, ThreadTypeOK, Pcs, TxPcs
    <3>4. CurIsTaken'
      BY <3>1 DEF TypeInv, TypeOK, ThreadTypeOK, CurIsTaken, Busy
    <3> QED
      BY <3>3, <3>4
  <2>3. CASE ~Finish(t) /\ ~Dispatch(t)
    <3>1. PICK q \in Pcs : pc' = [pc EXCEPT ![t] = q]
      BY <2>3 DEF Handle, EmptyBatch, MatchDedup, MatchArchive, InsertClaim, Recheck,
         Match, AfterClaim, CheckTombstone, CommitTx, AbortTx, Project, DeadLetter,
         Ack, AckFails, Pcs, TxPcs
    <3>2. UNCHANGED <<todo, cur, retry>> /\ early' \subseteq Threads
      BY <2>3, <2>t DEF Handle, MatchDedup, MatchArchive, InsertClaim, Recheck, Match,
         CheckTombstone, CommitTx, AbortTx, Project, DeadLetter, Ack, AckFails
    <3>3. applied' \in [Threads -> BOOLEAN] /\ tombed' \in [Threads -> BOOLEAN]
      <4>1. CASE InsertClaim(t)
        BY <2>t, <4>1 DEF InsertClaim
      <4>2. CASE CheckTombstone(t)
        <5>1. (CurKey(t) \in tombstones) \in BOOLEAN
          OBVIOUS
        <5>2. /\ tombed' = [tombed EXCEPT ![t] = CurKey(t) \in tombstones]
              /\ applied' = applied
          BY <4>2 DEF CheckTombstone
        <5> QED
          BY <2>t, <5>1, <5>2, Zenon
      <4>3. CASE ~InsertClaim(t) /\ ~CheckTombstone(t)
        <5>1. applied' = applied /\ tombed' = tombed
          BY <2>3, <4>3 DEF Handle, MatchDedup, MatchArchive, Recheck, Match, CommitTx,
             AbortTx, Project, DeadLetter, Ack, AckFails
        <5> QED
          BY <2>t, <5>1
      <4> QED
        BY <4>1, <4>2, <4>3
    <3> QED
      BY <1>2, <1>3, <2>3, <3>1, <3>2, <3>3, TypeMove
  <2> QED
    BY <2>1, <2>2, <2>3
<1> QED
  BY <1>2, <1>4, <1>5, <1>6 DEF TypeInv, TypeOK

LEMMA TypeProcess ==
  ASSUME TypeInv, NEW p \in Procs, Process(p)
  PROVE  TypeInv'
<1>1. UNCHANGED <<pubVars, groupVars, claimVars, dbVars, cacheVars>>
  BY DEF Process, Stop, Stopped, Crash, Start
<1>2. /\ PublisherTypeOK' /\ GroupTypeOK' /\ DatabaseTypeOK'
      /\ Stored' = Stored
  BY <1>1, TypeFrame DEF pubVars
<1>3. /\ up' \in [Procs -> {"running", "stopping", "stopped"}]
      /\ stops' \in 0 .. MaxStops
  BY ConstantsAssumption DEF Process, Stop, Stopped, Crash, Start, TypeInv, TypeOK,
     ThreadTypeOK
<1>4. CASE UNCHANGED threadVars
  BY <1>2, <1>3, <1>4 DEF TypeInv, TypeOK, ThreadTypeOK, CurIsTaken, Busy, threadVars
<1>5. CASE Crash(p)
  <2>t. /\ pc \in [Threads -> Pcs]
        /\ todo \in [Threads -> SUBSET Stored]
        /\ cur \in [Threads -> Nat]
        /\ from \in [Threads -> Nat]
        /\ early \subseteq Threads
    BY DEF TypeInv, TypeOK, ThreadTypeOK
  <2>1. /\ pc' \in [Threads -> Pcs]
        /\ cur' \in [Threads -> Nat]
        /\ from' \in [Threads -> Nat]
        /\ early' \subseteq Threads
    BY <1>5, <2>t DEF Crash, Pcs
  <2>2. todo' \in [Threads -> SUBSET Stored]
    BY <1>5, <2>t DEF Crash
  <2>3. retry' \in [Threads -> [Entries -> 0 .. MaxRetryCount]]
    <3>1. [i \in Entries |-> 0] \in [Entries -> 0 .. MaxRetryCount]
      BY ConstantsAssumption
    <3>2. retry \in [Threads -> [Entries -> 0 .. MaxRetryCount]]
      BY DEF TypeInv, TypeOK, ThreadTypeOK
    <3> HIDE DEF Entries
    <3> QED
      BY <1>5, <3>1, <3>2 DEF Crash
  <2>4. applied' \in [Threads -> BOOLEAN] /\ tombed' \in [Threads -> BOOLEAN]
    BY <1>5, Zenon DEF Crash
  <2>5. CurIsTaken'
    BY <1>5 DEF Crash, TypeInv, TypeOK, ThreadTypeOK, CurIsTaken, Busy
  <2> QED
    BY <1>2, <1>3, <2>1, <2>2, <2>3, <2>4, <2>5 DEF TypeInv, TypeOK, ThreadTypeOK
<1> QED
  BY <1>4, <1>5 DEF Process, Stop, Stopped, Start

LEMMA TypeCleanup ==
  ASSUME TypeInv,
         \/ \E i \in pel : GoIdle(i)
         \/ \E k \in Keys : ArchiveClaim(k) \/ DeleteLog(k)
  PROVE  TypeInv'
<1>1. CASE \E i \in pel : GoIdle(i)
  <2>1. UNCHANGED <<pubVars, procVars, threadVars, claimVars, dbVars, cacheVars>>
    BY <1>1 DEF GoIdle
  <2>2. PublisherTypeOK' /\ ThreadTypeOK' /\ DatabaseTypeOK' /\ CurIsTaken' /\ Stored' = Stored
    BY <2>1, TypeFrame DEF pubVars
  <2>3. GroupTypeOK'
    BY <1>1, <2>2 DEF GoIdle, TypeInv, TypeOK, GroupTypeOK
  <2> QED
    BY <2>2, <2>3 DEF TypeInv, TypeOK
<1>2. CASE \E k \in Keys : ArchiveClaim(k) \/ DeleteLog(k)
  <2>1. UNCHANGED <<pubVars, groupVars, procVars, threadVars>>
    BY <1>2 DEF ArchiveClaim, DeleteLog
  <2>2. PublisherTypeOK' /\ ThreadTypeOK' /\ GroupTypeOK' /\ CurIsTaken'
    BY <2>1, TypeFrame DEF pubVars
  <2>3. DatabaseTypeOK'
    BY <1>2 DEF ArchiveClaim, DeleteLog, TypeInv, TypeOK, DatabaseTypeOK, claimVars,
       dbVars, cacheVars
  <2> QED
    BY <2>2, <2>3 DEF TypeInv, TypeOK
<1> QED
  BY <1>1, <1>2

LEMMA TypeStep == TypeInv /\ [Next]_vars => TypeInv'
<1> SUFFICES ASSUME TypeInv, [Next]_vars PROVE TypeInv'
  OBVIOUS
<1>1. ASSUME NEW e \in Events, Publisher(e) PROVE TypeInv'
  BY <1>1, TypePublish
<1>2. ASSUME NEW t \in Readers, ReadNew(t) PROVE TypeInv'
  BY <1>2, TypeTake DEF Threads
<1>3. ASSUME NEW t \in Recoverers, Recover(t) PROVE TypeInv'
  BY <1>3, TypeTake DEF Threads
<1>4. ASSUME NEW t \in Threads, Handle(t) PROVE TypeInv'
  BY <1>4, TypeTake, TypeHandle
<1>5. CASE \E i \in pel : GoIdle(i)
  BY <1>5, TypeCleanup
<1>6. ASSUME NEW p \in Procs, Process(p) PROVE TypeInv'
  BY <1>6, TypeProcess
<1>7. CASE \E k \in Keys : ArchiveClaim(k) \/ DeleteLog(k)
  BY <1>7, TypeCleanup
<1>8. CASE UNCHANGED vars
  <2>1. UNCHANGED <<pubVars, groupVars, procVars, threadVars, claimVars, dbVars,
                    cacheVars, stream>>
    BY <1>8 DEF vars, pubVars
  <2> QED
    BY <2>1, TypeFrame DEF TypeInv, TypeOK
<1> QED
  BY <1>1, <1>2, <1>3, <1>4, <1>5, <1>6, <1>7, <1>8 DEF Next

\* TypeOK holds in every reachable state, and a thread always works on an entry
\* of the batch it took from the consumer group (readLoop, recoverPending).
THEOREM TypeCorrect == Spec => []TypeOK
<1>1. Init => TypeInv
  BY TypeInit
<1>2. TypeInv /\ [Next]_vars => TypeInv'
  BY TypeStep
<1>3. TypeInv => TypeOK
  BY DEF TypeInv
<1> QED
  BY <1>1, <1>2, <1>3, PTL DEF Spec

-----------------------------------------------------------------------------
(* Exactly once *)

\* The stream only grows.
Extends == Stored \subseteq Stored' /\ \A i \in Stored : stream'[i] = stream[i]

\* Thread t does not move, or lets go of its entry.
Same(t) == /\ pc'[t] = pc[t] /\ cur'[t] = cur[t] /\ applied'[t] = applied[t]
           /\ t \in early' <=> t \in early
Leaves(t) == pc'[t] \in {"idle", "claim", "next"} /\ ~applied'[t] /\ t \notin early'

LEMMA SameCur ==
  ASSUME TypeInv, Extends, NEW t \in Threads, Same(t), Busy(t)
  PROVE  /\ CurEvent(t)' = CurEvent(t)
         /\ CurKey(t)' = CurKey(t)
         /\ CurPrint(t)' = CurPrint(t)
         /\ CurKey(t) \in Keys /\ CurPrint(t) \in Prints /\ CurEvent(t) \in Events
<1>1. /\ cur[t] \in Stored /\ CurKey(t) \in Keys /\ CurPrint(t) \in Prints
      /\ CurEvent(t) \in Events
  BY CurIsEvent
<1>2. CurEvent(t)' = CurEvent(t)
  BY <1>1 DEF Extends, Same, CurEvent
<1> QED
  BY <1>1, <1>2 DEF CurKey, CurPrint

\* Claims on record stay on record.
Keeps == \A k \in Keys : Claimed(k) => Claim(k)' = Claim(k)

LEMMA SettledStays ==
  ASSUME Keeps, ledger \subseteq ledger', NEW e \in Events, Settled(e)
  PROVE  Settled(e)'
<1>1. KeyOf[e] \in Keys /\ PrintOf[e] # NoPrint
  BY ConstantsAssumption
<1>2. CASE KindOf[e] \in Charging
  BY <1>1, <1>2 DEF Settled, Keeps, Claimed, Charging, Tracking
<1>3. CASE KindOf[e] \in Tracking
  BY <1>3 DEF Settled, Charging, Tracking, LedgerRow
<1>4. CASE KindOf[e] \notin Charging \cup Tracking
  BY <1>4 DEF Settled
<1> QED
  BY <1>2, <1>3, <1>4

\* A thread that does not move stays safe, provided that no one commits a claim
\* it holds, archives one it may still insert, or queues its delta.
LEMMA SameSafe ==
  ASSUME TypeInv, Extends, Keeps, NEW t \in Threads, Same(t), ThreadSafe(t),
         ledger \subseteq ledger', dlq \subseteq dlq', dlqLost \subseteq dlqLost',
         applied[t] /\ pc[t] \in {"log", "commit"} /\ ~Claimed(CurKey(t))
           => ~Claimed(CurKey(t))',
         Busy(t) => \/ archive'[CurKey(t)] = archive[CurKey(t)]
                    \/ archive'[CurKey(t)] # NoPrint /\ t \notin early,
         applied[t] /\ pc[t] = "project" => deltas'[CurKey(t)] = deltas[CurKey(t)]
  PROVE  ThreadSafe(t)'
<1>1. CASE ~Busy(t)
  <2>1. pc[t] \in {"idle", "claim", "next"} /\ pc'[t] = pc[t] /\ applied'[t] = applied[t]
    BY <1>1 DEF Busy, Same, TypeInv, TypeOK, ThreadTypeOK
  <2>2. ~applied[t] /\ t \notin early /\ t \notin early'
    BY <2>1 DEF ThreadSafe, KindFits, Same, TxPcs
  <2>3. ~applied'[t]
    BY <2>1, <2>2
  <2> QED
    BY <2>1, <2>2, <2>3 DEF ThreadSafe, KindFits, LookupHolds, ClaimIsNew, FoundIsBilled, TxPcs
<1>2. CASE Busy(t)
  <2>1. /\ CurEvent(t)' = CurEvent(t)
        /\ CurKey(t)' = CurKey(t)
        /\ CurPrint(t)' = CurPrint(t)
        /\ CurKey(t) \in Keys /\ CurPrint(t) \in Prints /\ CurEvent(t) \in Events
    BY <1>2, SameCur
  <2>2. Claimed(CurKey(t)) => Claim(CurKey(t))' = Claim(CurKey(t)) /\ Claimed(CurKey(t))'
    BY <2>1 DEF Keeps, Claimed
  <2>3. Settled(CurEvent(t)) => Settled(CurEvent(t))'
    BY <2>1, SettledStays
  <2>4. NoPrint \notin Prints
    BY ConstantsAssumption
  <2>5. KindFits(t)'
    BY <2>1 DEF Same, ThreadSafe, KindFits
  <2>6. LookupHolds(t)'
    BY <1>2, <2>1, <2>2 DEF Same, ThreadSafe, LookupHolds
  <2>7. ClaimIsNew(t)'
    BY <2>1 DEF Same, ThreadSafe, ClaimIsNew
  <2>8. FoundIsBilled(t)'
    BY <2>1, <2>2, <2>3, <2>4 DEF Same, ThreadSafe, FoundIsBilled, Claimed
  <2> QED
    BY <2>5, <2>6, <2>7, <2>8 DEF ThreadSafe
<1> QED
  BY <1>1, <1>2

LEMMA LeavesSafe ==
  ASSUME NEW t \in Threads, Leaves(t)
  PROVE  ThreadSafe(t)' /\ ~Claiming(t)'
BY DEF Leaves, ThreadSafe, KindFits, LookupHolds, ClaimIsNew, FoundIsBilled, Claiming, TxPcs

LEMMA AckedStays ==
  ASSUME TypeInv, Extends, Keeps, AckedIsAccountedFor, acked' = acked,
         ledger \subseteq ledger', dlq \subseteq dlq', dlqLost \subseteq dlqLost'
  PROVE  AckedIsAccountedFor'
<1> SUFFICES ASSUME NEW i \in acked, i \notin dlq' \cup dlqLost'
             PROVE  Settled(stream[i])'
  BY DEF AckedIsAccountedFor
<1>1. i \in Stored /\ stream[i] \in Events
  BY DEF TypeInv, TypeOK, GroupTypeOK, PublisherTypeOK, Stored
<1>2. Settled(stream[i])
  BY DEF AckedIsAccountedFor
<1>3. PICK e \in Events : e = stream[i]
  BY <1>1
<1>4. Settled(e)'
  BY <1>2, <1>3, SettledStays
<1> QED
  BY <1>1, <1>3, <1>4 DEF Extends, Settled, LedgerRow

\* Steps that move no thread within an entry and leave the database alone.
LEMMA FrameThreads ==
  ASSUME TypeInv, SafeInv, Extends,
         \A t \in Threads : Same(t) \/ Leaves(t),
         UNCHANGED <<claimVars, charges, ledger, deltas, dlq, dlqLost>>
  PROVE  Keeps /\ (\A t \in Threads : ThreadSafe(t)') /\ Exclusive'
<1>1. Keeps
  BY DEF Keeps, Claim, claimVars
<1>2. ASSUME NEW t \in Threads PROVE ThreadSafe(t)'
  <2>1. CASE Leaves(t)
    BY <2>1, LeavesSafe
  <2>2. CASE Same(t)
    <3>1. archive' = archive /\ dedup' = dedup /\ deltas' = deltas
      BY DEF claimVars
    <3>2. Busy(t) => CurKey(t)' = CurKey(t)
      BY <2>2, SameCur
    <3>3. applied[t] /\ pc[t] \in {"log", "commit"} /\ ~Claimed(CurKey(t))
            => ~Claimed(CurKey(t))'
      BY <3>1, <3>2 DEF Busy, Pcs, TxPcs, Claimed, Claim
    <3>4. ThreadSafe(t)
      BY DEF SafeInv
    <3> QED
      BY <1>1, <2>2, <3>1, <3>3, <3>4, SameSafe
  <2> QED
    BY <2>1, <2>2
<1>3. Exclusive'
  <2> SUFFICES ASSUME NEW t \in Threads, NEW u \in Threads, t # u,
                      Claiming(t)', Claiming(u)'
               PROVE  CurKey(t)' # CurKey(u)'
    BY DEF Exclusive
  <2>1. Same(t) /\ Same(u)
    BY LeavesSafe
  <2>2. Claiming(t) /\ Claiming(u) /\ Busy(t) /\ Busy(u)
    BY <2>1 DEF Same, Claiming, Busy, Pcs, TxPcs
  <2> QED
    BY <2>1, <2>2, SameCur DEF SafeInv, Exclusive
<1> QED
  BY <1>1, <1>2, <1>3

LEMMA FrameSafe ==
  ASSUME TypeInv, SafeInv, Extends,
         \A t \in Threads : Same(t) \/ Leaves(t),
         UNCHANGED <<claimVars, charges, ledger, deltas, acked, dlq, dlqLost>>
  PROVE  SafeInv'
<1>1. Keeps /\ (\A t \in Threads : ThreadSafe(t)') /\ Exclusive'
  BY FrameThreads
<1>2. AckedIsAccountedFor'
  BY <1>1, AckedStays DEF SafeInv, DatabaseSafe
<1>3. DatabaseSafe'
  BY <1>2 DEF SafeInv, DatabaseSafe, OneTable, ChargedOnce, DeltaAtMostOnce,
     LedgerMatchesCharges, Claimed, Claim, claimVars
<1> QED
  BY <1>1, <1>3 DEF SafeInv

LEMMA SafePublish ==
  ASSUME TypeInv, SafeInv, NEW e \in Events, Publisher(e)
  PROVE  SafeInv'
<1>1. Extends
  BY PublishExtends DEF Extends, TypeInv, TypeOK, PublisherTypeOK
<1>2. UNCHANGED <<groupVars, threadVars, claimVars, dbVars, cacheVars>>
  BY DEF Publisher, PublishOk, PublishError, PublishCancel
<1>3. \A t \in Threads : Same(t)
  BY <1>2 DEF Same, threadVars
<1> QED
  BY <1>1, <1>2, <1>3, FrameSafe DEF groupVars, dbVars, cacheVars

LEMMA SafeTake ==
  ASSUME TypeInv, SafeInv, NEW t \in Threads,
         ReadNew(t) \/ Recover(t) \/ EmptyBatch(t)
  PROVE  SafeInv'
<1>1. UNCHANGED <<pubVars, cur, early, applied, claimVars, dbVars, cacheVars, acked,
                  dlq, dlqLost>>
  BY DEF ReadNew, Recover, ListPending, EndScan, ClaimPending, ClaimFails, EmptyBatch,
         groupVars
<1>2. Extends
  BY <1>1 DEF Extends, Stored, pubVars
<1>3. /\ pc[t] \in {"idle", "claim", "next"} /\ pc'[t] \in {"idle", "claim", "next"}
      /\ pc' = [pc EXCEPT ![t] = pc'[t]]
  BY DEF TypeInv, TypeOK, ThreadTypeOK, ReadNew, Recover, ListPending, EndScan,
         ClaimPending, ClaimFails, EmptyBatch, DropPage
<1>4. Leaves(t)
  <2>1. ~applied[t] /\ t \notin early
    BY <1>3 DEF SafeInv, ThreadSafe, KindFits, TxPcs
  <2> QED
    BY <1>1, <1>3, <2>1 DEF Leaves
<1>5. \A u \in Threads \ {t} : Same(u)
  BY <1>1, <1>3 DEF Same, TypeInv, TypeOK, ThreadTypeOK
<1> QED
  BY <1>1, <1>2, <1>4, <1>5, FrameSafe DEF dbVars, cacheVars

LEMMA SafeProcess ==
  ASSUME TypeInv, SafeInv, NEW p \in Procs, Process(p)
  PROVE  SafeInv'
<1>1. UNCHANGED <<pubVars, groupVars, claimVars, dbVars, cacheVars>>
  BY DEF Process, Stop, Stopped, Crash, Start
<1>2. Extends
  BY <1>1 DEF Extends, Stored, pubVars
<1>3. \A t \in Threads : Same(t) \/ Leaves(t)
  <2>1. CASE UNCHANGED threadVars
    BY <2>1 DEF Same, threadVars
  <2>2. CASE Crash(p)
    <3> SUFFICES ASSUME NEW t \in Threads PROVE Same(t) \/ Leaves(t)
      OBVIOUS
    <3>t. applied[t] \in BOOLEAN
      BY DEF TypeInv, TypeOK, ThreadTypeOK
    <3>1. CASE ProcOf[t] = p
      <4>1. pc'[t] = "idle" /\ applied'[t] = FALSE /\ t \notin early'
        BY <2>2, <3>1 DEF Crash
      <4> QED
        BY <4>1 DEF Leaves
    <3>2. CASE ProcOf[t] # p
      <4>1. pc'[t] = pc[t] /\ cur'[t] = cur[t] /\ (t \in early' <=> t \in early)
        BY <2>2, <3>2 DEF Crash
      <4>2. applied'[t] = applied[t]
        BY <2>2, <3>2, <3>t DEF Crash
      <4> QED
        BY <4>1, <4>2 DEF Same
    <3> QED
      BY <3>1, <3>2
  <2> QED
    BY <2>1, <2>2 DEF Process, Stop, Stopped, Start
<1> QED
  BY <1>1, <1>2, <1>3, FrameSafe DEF groupVars, dbVars, cacheVars

LEMMA SafeArchive ==
  ASSUME TypeInv, SafeInv, NEW k \in Keys, ArchiveClaim(k)
  PROVE  SafeInv'
<1>t. /\ dedup \in [Keys -> Prints \cup {NoPrint}]
      /\ archive \in [Keys -> Prints \cup {NoPrint}]
  BY DEF TypeInv, TypeOK, DatabaseTypeOK
<1>1. /\ dedup[k] # NoPrint /\ archive[k] = NoPrint
      /\ archive' = [archive EXCEPT ![k] = dedup[k]]
      /\ dedup' = [dedup EXCEPT ![k] = NoPrint]
      /\ UNCHANGED <<pubVars, groupVars, threadVars, dbVars, cacheVars>>
  BY DEF ArchiveClaim, SafeInv, DatabaseSafe, OneTable
<1>2. \A j \in Keys : Claim(j)' = Claim(j)
  BY <1>t, <1>1 DEF Claim
<1>3. Keeps /\ Extends /\ \A t \in Threads : Same(t)
  BY <1>1, <1>2 DEF Keeps, Extends, Stored, Same, pubVars, threadVars
<1>4. ASSUME NEW t \in Threads PROVE ThreadSafe(t)'
  <2>1. Busy(t) => CurKey(t)' = CurKey(t) /\ CurKey(t) \in Keys
    BY <1>3, SameCur
  <2>2. applied[t] /\ pc[t] \in {"log", "commit"} /\ ~Claimed(CurKey(t))
          => ~Claimed(CurKey(t))'
    BY <1>2, <2>1 DEF Busy, Pcs, TxPcs, Claimed
  <2>3. Busy(t) => \/ archive'[CurKey(t)] = archive[CurKey(t)]
                   \/ archive'[CurKey(t)] # NoPrint /\ t \notin early
    BY <1>t, <1>1, <2>1 DEF ArchiveClaim
  <2>4. ThreadSafe(t)
    BY DEF SafeInv
  <2> QED
    BY <1>1, <1>3, <2>2, <2>3, <2>4, SameSafe DEF groupVars, dbVars, cacheVars
<1>5. Exclusive'
  <2> SUFFICES ASSUME NEW t \in Threads, NEW u \in Threads, t # u,
                      Claiming(t)', Claiming(u)'
               PROVE  CurKey(t)' # CurKey(u)'
    BY DEF Exclusive
  <2>1. Claiming(t) /\ Claiming(u) /\ Busy(t) /\ Busy(u)
    BY <1>3 DEF Same, Claiming, Busy, Pcs, TxPcs
  <2> QED
    BY <1>3, <2>1, SameCur DEF SafeInv, Exclusive
<1>6. DatabaseSafe'
  <2>1. AckedIsAccountedFor'
    BY <1>1, <1>3, AckedStays DEF SafeInv, DatabaseSafe, groupVars, dbVars
  <2>2. OneTable'
    BY <1>t, <1>1 DEF SafeInv, DatabaseSafe, OneTable
  <2>3. ChargedOnce' /\ DeltaAtMostOnce' /\ LedgerMatchesCharges'
    BY <1>1, <1>2 DEF SafeInv, DatabaseSafe, ChargedOnce, DeltaAtMostOnce,
       LedgerMatchesCharges, Claimed, dbVars, cacheVars
  <2> QED
    BY <2>1, <2>2, <2>3 DEF DatabaseSafe
<1> QED
  BY <1>4, <1>5, <1>6 DEF SafeInv

LEMMA SafeCleanup ==
  ASSUME TypeInv, SafeInv,
         \/ \E i \in pel : GoIdle(i)
         \/ \E k \in Keys : DeleteLog(k)
  PROVE  SafeInv'
<1>1. UNCHANGED <<pubVars, threadVars, claimVars, charges, ledger, deltas, acked, dlq,
                  dlqLost>>
  BY DEF GoIdle, DeleteLog, dbVars, cacheVars, groupVars
<1>2. Extends /\ \A t \in Threads : Same(t)
  BY <1>1 DEF Extends, Stored, Same, pubVars, threadVars
<1> QED
  BY <1>1, <1>2, FrameSafe

\* A thread finishes its entry without a change to the database.
LEMMA SafeFinish ==
  ASSUME TypeInv, SafeInv, NEW t \in Threads, Finish(t), stream' = stream,
         UNCHANGED <<claimVars, charges, ledger, deltas, acked, dlq, dlqLost>>
  PROVE  SafeInv'
<1>1. Leaves(t)
  BY DEF Finish, Leaves, TypeInv, TypeOK, ThreadTypeOK
<1>2. \A u \in Threads \ {t} : Same(u)
  BY DEF Finish, Same, TypeInv, TypeOK, ThreadTypeOK
<1>3. Extends
  BY DEF Extends, Stored
<1> QED
  BY <1>1, <1>2, <1>3, FrameSafe

\* A thread moves within its entry, the database and the other threads do not:
\* enough that the thread itself is safe and claims no key another one claims.
LEMMA MoveSafe ==
  ASSUME TypeInv, SafeInv, NEW t \in Threads, stream' = stream,
         \A u \in Threads \ {t} : Same(u),
         UNCHANGED <<claimVars, charges, ledger, acked>>,
         dlq \subseteq dlq', dlqLost \subseteq dlqLost',
         \A u \in Threads \ {t} :
           applied[u] /\ pc[u] = "project" => deltas'[CurKey(u)] = deltas[CurKey(u)],
         DeltaAtMostOnce', ThreadSafe(t)',
         \A u \in Threads \ {t} : Claiming(t)' /\ Claiming(u) => CurKey(t)' # CurKey(u)
  PROVE  SafeInv'
<1>1. Extends /\ Keeps
  BY DEF Extends, Stored, Keeps, Claim, claimVars
<1>2. ASSUME NEW u \in Threads \ {t} PROVE ThreadSafe(u)'
  <2>1. Busy(u) => CurKey(u)' = CurKey(u)
    BY <1>1, <1>2, SameCur
  <2>2. applied[u] /\ pc[u] \in {"log", "commit"} /\ ~Claimed(CurKey(u))
          => ~Claimed(CurKey(u))'
    BY <2>1 DEF Busy, Pcs, TxPcs, Claimed, Claim, claimVars
  <2>3. ThreadSafe(u) /\ archive' = archive
    BY DEF SafeInv, claimVars
  <2> QED
    BY <1>1, <1>2, <2>2, <2>3, SameSafe
<1>3. Exclusive'
  <2>1. ASSUME NEW u \in Threads \ {t}
        PROVE  /\ Claiming(u)' => Claiming(u) /\ CurKey(u)' = CurKey(u)
    <3>1. Same(u)
      OBVIOUS
    <3>2. Claiming(u)' => Claiming(u) /\ Busy(u)
      BY <3>1 DEF Same, Claiming, Busy, Pcs, TxPcs
    <3> QED
      BY <1>1, <3>1, <3>2, SameCur
  <2> SUFFICES ASSUME NEW u \in Threads, NEW v \in Threads, u # v,
                      Claiming(u)', Claiming(v)'
               PROVE  CurKey(u)' # CurKey(v)'
    BY DEF Exclusive
  <2>2. CASE u # t /\ v # t
    BY <2>1, <2>2 DEF SafeInv, Exclusive
  <2>3. CASE u = t \/ v = t
    BY <2>1, <2>3
  <2> QED
    BY <2>2, <2>3
<1>4. DatabaseSafe'
  <2>1. AckedIsAccountedFor'
    BY <1>1, AckedStays DEF SafeInv, DatabaseSafe
  <2> QED
    BY <2>1 DEF SafeInv, DatabaseSafe, OneTable, ChargedOnce, LedgerMatchesCharges,
       Claimed, Claim, claimVars
<1> QED
  BY <1>2, <1>3, <1>4 DEF SafeInv

LEMMA SafeDispatch ==
  ASSUME TypeInv, SafeInv, NEW t \in Threads, Dispatch(t)
  PROVE  SafeInv'
<1>1. PICK i \in todo[t] :
        LET kind == KindOf[stream[i]]
            run == kind \in Charging \cup Tracking /\ ~Exhausted(t, i) IN
        /\ pc[t] = "next"
        /\ cur' = [cur EXCEPT ![t] = i]
        /\ pc' = [pc EXCEPT ![t] =
                    CASE kind = "malformed" \/ Exhausted(t, i) -> "dlq"
                      [] kind = "empty" /\ ~Exhausted(t, i)    -> "ack"
                      [] kind \in Tracking /\ ~Exhausted(t, i) -> "commit"
                      [] OTHER                                 -> "dedup"]
        /\ early' = IF run /\ ~Claimed(KeyOf[stream[i]])
                    THEN early \cup {t} ELSE early
        /\ UNCHANGED <<pubVars, groupVars, applied, claimVars, dbVars, cacheVars>>
  BY DEF Dispatch
<1>2. stream[i] \in Events /\ stream' = stream
  BY <1>1 DEF TypeInv, TypeOK, ThreadTypeOK, PublisherTypeOK, Stored, pubVars
<1>3. ~applied[t] /\ t \notin early
  BY <1>1 DEF SafeInv, ThreadSafe, KindFits, TxPcs
<1>4. cur'[t] = i /\ ~applied'[t] /\ \A u \in Threads \ {t} : Same(u)
  BY <1>1, <1>3 DEF Same, TypeInv, TypeOK, ThreadTypeOK
<1>5. CurEvent(t)' = stream[i] /\ CurKey(t)' = KeyOf[stream[i]]
  BY <1>2, <1>4 DEF CurEvent, CurKey
<1>6. /\ pc'[t] \in {"dlq", "ack", "commit", "dedup"}
      /\ pc'[t] = "ack" => KindOf[stream[i]] \notin Charging \cup Tracking
      /\ pc'[t] = "commit" => KindOf[stream[i]] \in Tracking
      /\ pc'[t] = "dedup" => KindOf[stream[i]] \in Charging /\ ~Exhausted(t, i)
      /\ t \in early' => pc'[t] \in {"commit", "dedup"}
      /\ pc'[t] = "dedup" /\ t \notin early' => Claimed(KeyOf[stream[i]])
  <2>1. KindOf[stream[i]] \in Kinds
    BY <1>2, ConstantsAssumption
  <2> QED
    BY <1>1, <1>3, <2>1 DEF TypeInv, TypeOK, ThreadTypeOK, Kinds, Charging, Tracking
<1>7. ThreadSafe(t)'
  <2>1. KindFits(t)'
    BY <1>4, <1>5, <1>6 DEF KindFits, TxPcs
  <2>2. LookupHolds(t)'
    <3>1. Claimed(KeyOf[stream[i]]) => Claimed(CurKey(t))'
      BY <1>1, <1>5 DEF Claimed, Claim, claimVars
    <3> QED
      BY <1>6, <3>1 DEF LookupHolds
  <2>3. ClaimIsNew(t)'
    BY <1>4 DEF ClaimIsNew
  <2>4. FoundIsBilled(t)'
    BY <1>5, <1>6 DEF FoundIsBilled, Settled, Charging, Tracking
  <2> QED
    BY <2>1, <2>2, <2>3, <2>4 DEF ThreadSafe
<1>8. ~Claiming(t)'
  BY <1>4 DEF Claiming
<1>9. DeltaAtMostOnce' /\ deltas' = deltas
  BY <1>1 DEF SafeInv, DatabaseSafe, DeltaAtMostOnce, dbVars, cacheVars
<1> QED
  BY <1>1, <1>2, <1>4, <1>7, <1>8, <1>9, MoveSafe DEF groupVars, dbVars

\* A thread that keeps its entry, its claim and its place in early moves to q.
LEMMA MoveTo ==
  ASSUME TypeInv, SafeInv, NEW t \in Threads, NEW q, Busy(t),
         pc' = [pc EXCEPT ![t] = q],
         UNCHANGED <<pubVars, groupVars, cur, early, applied, claimVars, dbVars, cacheVars>>,
         ThreadSafe(t)', Claiming(t)' => Claiming(t)
  PROVE  SafeInv'
<1>1. stream' = stream /\ \A u \in Threads \ {t} : Same(u)
  BY DEF Same, TypeInv, TypeOK, ThreadTypeOK, pubVars
<1>2. CurKey(t)' = CurKey(t)
  BY <1>1 DEF CurKey, CurEvent
<1>3. \A u \in Threads \ {t} : Claiming(t)' /\ Claiming(u) => CurKey(t)' # CurKey(u)
  BY <1>2 DEF SafeInv, Exclusive
<1>4. DeltaAtMostOnce' /\ deltas' = deltas
  BY DEF SafeInv, DatabaseSafe, DeltaAtMostOnce, dbVars, cacheVars
<1> QED
  BY <1>1, <1>3, <1>4, MoveSafe DEF groupVars, dbVars

\* The three lookups of a claim.
LEMMA SafeMatch ==
  ASSUME TypeInv, SafeInv, NEW t \in Threads,
         MatchDedup(t) \/ MatchArchive(t) \/ Recheck(t)
  PROVE  SafeInv'
<1>1. /\ pc[t] \in {"dedup", "archive", "recheck"}
      /\ UNCHANGED <<pubVars, groupVars, from, claimVars, dbVars, cacheVars>>
  BY DEF MatchDedup, MatchArchive, Recheck
<1>2. Busy(t) /\ stream' = stream /\ archive' = archive /\ dedup' = dedup
  BY <1>1 DEF Busy, Pcs, TxPcs, pubVars, claimVars
<1>3. CurKey(t) \in Keys /\ CurPrint(t) \in Prints /\ CurPrint(t) # NoPrint
  BY <1>2, CurIsEvent, ConstantsAssumption
<1>4. ThreadSafe(t) /\ ~applied[t] /\ KindOf[CurEvent(t)] \in Charging
  BY <1>1 DEF SafeInv, ThreadSafe, KindFits, TxPcs
<1>5. CASE Finish(t)
  BY <1>1, <1>2, <1>5, SafeFinish DEF groupVars, dbVars, cacheVars
<1>6. ASSUME NEW q, pc' = [pc EXCEPT ![t] = q], UNCHANGED <<cur, early, applied>>,
             \/ q = "archive" /\ pc[t] = "dedup" /\ dedup[CurKey(t)] = NoPrint
             \/ q = "insert" /\ pc[t] = "archive" /\ archive[CurKey(t)] = NoPrint
             \/ q = AfterClaim(t) /\ Claim(CurKey(t)) = CurPrint(t)
      PROVE  SafeInv'
  <2>1. /\ CurEvent(t)' = CurEvent(t)
        /\ CurKey(t)' = CurKey(t)
        /\ CurPrint(t)' = CurPrint(t)
    BY <1>2, <1>6 DEF CurEvent, CurKey, CurPrint
  <2>2. pc'[t] = q /\ applied'[t] = applied[t] /\ (t \in early' <=> t \in early)
    BY <1>6 DEF TypeInv, TypeOK, ThreadTypeOK
  <2>3. Claim(CurKey(t))' = Claim(CurKey(t))
    BY <1>2, <2>1 DEF Claim
  <2>4. q \in {"archive", "insert", "log", "commit"}
    BY <1>6 DEF AfterClaim
  <2>5. KindFits(t)'
    BY <1>4, <2>1, <2>2, <2>4 DEF KindFits, ThreadSafe, TxPcs, Charging, Tracking
  <2>6. LookupHolds(t)'
    BY <1>2, <1>4, <1>6, <2>1, <2>2, <2>4 DEF LookupHolds, ThreadSafe, Claimed, Claim, AfterClaim
  <2>7. ClaimIsNew(t)'
    BY <1>4, <2>2 DEF ClaimIsNew
  <2>8. FoundIsBilled(t)'
    BY <1>6, <2>1, <2>2, <2>3, <2>4 DEF FoundIsBilled, AfterClaim
  <2>9. ThreadSafe(t)' /\ ~Claiming(t)'
    BY <1>4, <2>2, <2>5, <2>6, <2>7, <2>8 DEF ThreadSafe, Claiming
  <2> QED
    BY <1>1, <1>2, <1>6, <2>9, MoveTo
<1>7. CASE MatchDedup(t) /\ ~Finish(t)
  <2>1. CASE dedup[CurKey(t)] = NoPrint
    <3>1. pc' = [pc EXCEPT ![t] = "archive"] /\ UNCHANGED <<cur, early, applied>>
      BY <1>3, <1>7, <2>1 DEF MatchDedup, Match
    <3> QED
      BY <1>6, <1>7, <2>1, <3>1 DEF MatchDedup
  <2>2. CASE dedup[CurKey(t)] # NoPrint
    <3>1. /\ pc' = [pc EXCEPT ![t] = AfterClaim(t)] /\ UNCHANGED <<cur, early, applied>>
          /\ dedup[CurKey(t)] = CurPrint(t)
      BY <1>7, <2>2 DEF MatchDedup, Match
    <3>2. Claim(CurKey(t)) = CurPrint(t)
      BY <2>2, <3>1 DEF Claim
    <3> QED
      BY <1>6, <3>1, <3>2
  <2> QED
    BY <2>1, <2>2
<1>8. CASE MatchArchive(t) /\ ~Finish(t)
  <2>1. CASE archive[CurKey(t)] = NoPrint
    <3>1. pc' = [pc EXCEPT ![t] = "insert"] /\ UNCHANGED <<cur, early, applied>>
      BY <1>3, <1>8, <2>1 DEF MatchArchive, Match
    <3> QED
      BY <1>6, <1>8, <2>1, <3>1 DEF MatchArchive
  <2>2. CASE archive[CurKey(t)] # NoPrint
    <3>1. /\ pc' = [pc EXCEPT ![t] = AfterClaim(t)] /\ UNCHANGED <<cur, early, applied>>
          /\ archive[CurKey(t)] = CurPrint(t)
      BY <1>8, <2>2 DEF MatchArchive, Match
    <3>2. Claim(CurKey(t)) = CurPrint(t)
      BY <1>3, <2>2, <3>1 DEF Claim, SafeInv, DatabaseSafe, OneTable
    <3> QED
      BY <1>6, <3>1, <3>2
  <2> QED
    BY <2>1, <2>2
<1>9. CASE Recheck(t) /\ ~Finish(t)
  <2>1. Claim(CurKey(t)) # NoPrint
    BY <1>4, <1>9 DEF Recheck, ThreadSafe, FoundIsBilled, Claimed
  <2>2. /\ pc' = [pc EXCEPT ![t] = AfterClaim(t)] /\ UNCHANGED <<cur, early, applied>>
        /\ Claim(CurKey(t)) = CurPrint(t)
    BY <1>9, <2>1 DEF Recheck, Match
  <2> QED
    BY <1>6, <2>2
<1> QED
  BY <1>5, <1>7, <1>8, <1>9

LEMMA SafeInsert ==
  ASSUME TypeInv, SafeInv, NEW t \in Threads, InsertClaim(t)
  PROVE  SafeInv'
<1>1. /\ pc[t] = "insert" /\ \A u \in Threads : ~Holds(u, CurKey(t))
      /\ UNCHANGED <<pubVars, groupVars, cur, early, claimVars, dbVars, cacheVars>>
  BY DEF InsertClaim
<1>2. Busy(t) /\ stream' = stream /\ archive' = archive /\ dedup' = dedup
  BY <1>1 DEF Busy, Pcs, TxPcs, pubVars, claimVars
<1>3. CurKey(t) \in Keys
  BY <1>2, CurIsEvent
<1>4. ThreadSafe(t) /\ ~applied[t] /\ KindOf[CurEvent(t)] \in Charging
  BY <1>1 DEF SafeInv, ThreadSafe, KindFits, TxPcs
<1>5. t \in early /\ archive[CurKey(t)] = NoPrint
  BY <1>1, <1>4 DEF ThreadSafe, LookupHolds
<1>6. CurEvent(t)' = CurEvent(t) /\ CurKey(t)' = CurKey(t)
  BY <1>1, <1>2 DEF CurEvent, CurKey
<1>7. CASE dedup[CurKey(t)] # NoPrint
  <2>1. pc' = [pc EXCEPT ![t] = "recheck"] /\ applied' = applied
    BY <1>1, <1>7 DEF InsertClaim
  <2>2. pc'[t] = "recheck"
    BY <2>1 DEF TypeInv, TypeOK, ThreadTypeOK
  <2>3. Claimed(CurKey(t))'
    BY <1>2, <1>6, <1>7 DEF Claimed, Claim
  <2>4. ThreadSafe(t)' /\ ~Claiming(t)'
    BY <1>4, <1>6, <2>1, <2>2, <2>3
       DEF ThreadSafe, KindFits, LookupHolds, ClaimIsNew, FoundIsBilled, Claiming, TxPcs
  <2> QED
    BY <1>1, <1>2, <2>1, <2>4, MoveTo
<1>8. CASE dedup[CurKey(t)] = NoPrint
  <2>1. pc' = [pc EXCEPT ![t] = AfterClaim(t)] /\ applied' = [applied EXCEPT ![t] = TRUE]
    BY <1>8 DEF InsertClaim
  <2>2. pc'[t] \in {"log", "commit"} /\ applied'[t]
    BY <2>1 DEF TypeInv, TypeOK, ThreadTypeOK, AfterClaim
  <2>3. ~Claimed(CurKey(t)) /\ ~Claimed(CurKey(t))'
    BY <1>2, <1>5, <1>6, <1>8 DEF Claimed, Claim
  <2>4. ThreadSafe(t)'
    <3>1. KindFits(t)'
      BY <1>4, <1>6, <2>2 DEF KindFits, TxPcs, Charging, Tracking
    <3>2. LookupHolds(t)' /\ ClaimIsNew(t)' /\ FoundIsBilled(t)'
      BY <2>2, <2>3 DEF LookupHolds, ClaimIsNew, FoundIsBilled
    <3> QED
      BY <3>1, <3>2 DEF ThreadSafe
  <2>5. \A u \in Threads \ {t} : Same(u)
    BY <1>1, <2>1 DEF Same, TypeInv, TypeOK, ThreadTypeOK
  <2>6. ASSUME NEW u \in Threads \ {t}, Claiming(u) PROVE CurKey(t)' # CurKey(u)
    <3>1. CASE pc[u] \in {"log", "commit"}
      BY <1>1, <1>6, <2>6, <3>1 DEF Claiming, Holds
    <3>2. CASE pc[u] = "project"
      <4>1. ThreadSafe(u) /\ Busy(u)
        BY <3>2 DEF SafeInv, Busy, Pcs, TxPcs
      <4>2. CurPrint(u) \in Prints /\ NoPrint \notin Prints
        BY <4>1, CurIsEvent, ConstantsAssumption
      <4>3. Settled(CurEvent(u)) /\ KindOf[CurEvent(u)] \in Charging
        BY <2>6, <3>2, <4>1 DEF ThreadSafe, FoundIsBilled, KindFits, Claiming
      <4>4. Claim(CurKey(u)) = CurPrint(u)
        BY <4>3 DEF Settled, CurKey, CurPrint, Charging, Tracking
      <4> QED
        BY <1>6, <2>3, <4>2, <4>4 DEF Claimed
    <3> QED
      BY <2>6, <3>1, <3>2 DEF Claiming
  <2>7. DeltaAtMostOnce' /\ deltas' = deltas
    BY <1>1 DEF SafeInv, DatabaseSafe, DeltaAtMostOnce, dbVars, cacheVars
  <2> QED
    BY <1>1, <1>2, <2>4, <2>5, <2>6, <2>7, MoveSafe DEF groupVars, dbVars
<1> QED
  BY <1>7, <1>8

LEMMA SafeTombstone ==
  ASSUME TypeInv, SafeInv, NEW t \in Threads, CheckTombstone(t)
  PROVE  SafeInv'
<1>1. /\ pc[t] = "log" /\ pc' = [pc EXCEPT ![t] = "commit"]
      /\ UNCHANGED <<pubVars, groupVars, cur, early, applied, claimVars, dbVars, cacheVars>>
  BY DEF CheckTombstone
<1>2. Busy(t) /\ stream' = stream /\ ThreadSafe(t)
  BY <1>1 DEF Busy, Pcs, TxPcs, pubVars, SafeInv
<1>3. /\ CurEvent(t)' = CurEvent(t)
      /\ CurKey(t)' = CurKey(t)
      /\ CurPrint(t)' = CurPrint(t)
  BY <1>1, <1>2 DEF CurEvent, CurKey, CurPrint
<1>4. pc'[t] = "commit" /\ applied'[t] = applied[t] /\ (t \in early' <=> t \in early)
  BY <1>1 DEF TypeInv, TypeOK, ThreadTypeOK
<1>5. Claim(CurKey(t))' = Claim(CurKey(t))
  BY <1>1, <1>3 DEF Claim, claimVars
<1>6. ThreadSafe(t)'
  BY <1>1, <1>2, <1>3, <1>4, <1>5
     DEF ThreadSafe, KindFits, LookupHolds, ClaimIsNew, FoundIsBilled, Claimed, TxPcs
<1>7. Claiming(t)' => Claiming(t)
  BY <1>1, <1>4 DEF Claiming
<1> QED
  BY <1>1, <1>2, <1>6, <1>7, MoveTo

LEMMA SafeProject ==
  ASSUME TypeInv, SafeInv, NEW t \in Threads, Project(t)
  PROVE  SafeInv'
<1>1. /\ pc[t] = "project" /\ pc' = [pc EXCEPT ![t] = "ack"]
      /\ UNCHANGED <<pubVars, groupVars, cur, early, applied, claimVars, dbVars>>
      /\ deltas' = IF applied[t] THEN [deltas EXCEPT ![CurKey(t)] = @ + 1] ELSE deltas
  BY DEF Project
<1>2. Busy(t) /\ stream' = stream /\ ThreadSafe(t)
  BY <1>1 DEF Busy, Pcs, TxPcs, pubVars, SafeInv
<1>3. CurKey(t) \in Keys /\ CurPrint(t) \in Prints /\ NoPrint \notin Prints
  BY <1>2, CurIsEvent, ConstantsAssumption
<1>4. CurEvent(t)' = CurEvent(t)
  BY <1>1, <1>2 DEF CurEvent
<1>5. pc'[t] = "ack" /\ applied'[t] = applied[t] /\ (t \in early' <=> t \in early)
  BY <1>1 DEF TypeInv, TypeOK, ThreadTypeOK
<1>6. Settled(CurEvent(t)) /\ Settled(CurEvent(t))'
  <2>1. Settled(CurEvent(t))
    BY <1>1, <1>2 DEF ThreadSafe, FoundIsBilled
  <2> QED
    BY <1>1, <1>4, <2>1 DEF Settled, Claim, LedgerRow, claimVars, dbVars
<1>7. ThreadSafe(t)'
  BY <1>1, <1>2, <1>4, <1>5, <1>6
     DEF ThreadSafe, KindFits, LookupHolds, ClaimIsNew, FoundIsBilled, TxPcs
<1>8. ~Claiming(t)' /\ \A u \in Threads \ {t} : Same(u)
  BY <1>1, <1>5 DEF Claiming, Same, TypeInv, TypeOK, ThreadTypeOK
<1>9. ASSUME NEW u \in Threads \ {t}, applied[u], pc[u] = "project"
      PROVE  deltas'[CurKey(u)] = deltas[CurKey(u)]
  <2>1. CASE ~applied[t]
    BY <1>1, <2>1
  <2>2. CASE applied[t]
    <3>1. CurKey(t) # CurKey(u)
      BY <1>1, <1>9, <2>2 DEF SafeInv, Exclusive, Claiming
    <3> QED
      BY <1>1, <2>2, <3>1 DEF TypeInv, TypeOK, DatabaseTypeOK
  <2> QED
    BY <2>1, <2>2
<1>10. DeltaAtMostOnce'
  <2>1. charges' = charges /\ DeltaAtMostOnce
    BY <1>1 DEF SafeInv, DatabaseSafe, dbVars
  <2>2. CASE ~applied[t]
    BY <1>1, <2>1, <2>2 DEF DeltaAtMostOnce
  <2>3. CASE applied[t]
    <3>1. deltas[CurKey(t)] = 0 /\ KindOf[CurEvent(t)] \in Charging
      BY <1>1, <1>2, <2>3 DEF ThreadSafe, ClaimIsNew, KindFits
    <3>2. Claim(CurKey(t)) = CurPrint(t)
      BY <1>6, <3>1 DEF Settled, CurKey, CurPrint, Charging, Tracking
    <3>3. charges[CurKey(t)] = 1
      BY <1>3, <3>2 DEF SafeInv, DatabaseSafe, ChargedOnce, Claimed
    <3> QED
      BY <1>1, <1>3, <2>1, <2>3, <3>1, <3>3 DEF DeltaAtMostOnce, TypeInv, TypeOK, DatabaseTypeOK
  <2> QED
    BY <2>2, <2>3
<1> QED
  BY <1>1, <1>2, <1>7, <1>8, <1>9, <1>10, MoveSafe DEF groupVars, dbVars

LEMMA SafeDeadLetter ==
  ASSUME TypeInv, SafeInv, NEW t \in Threads, DeadLetter(t)
  PROVE  SafeInv'
<1>1. /\ pc[t] = "dlq" /\ pc' = [pc EXCEPT ![t] = "ack"]
      /\ UNCHANGED <<pubVars, acked, cur, early, applied, claimVars, dbVars, cacheVars>>
      /\ dlq \subseteq dlq' /\ dlqLost \subseteq dlqLost'
      /\ cur[t] \in dlq' \cup dlqLost'
  BY DEF DeadLetter
<1>2. stream' = stream /\ ~applied[t] /\ t \notin early
  BY <1>1 DEF pubVars, SafeInv, ThreadSafe, KindFits, TxPcs
<1>3. pc'[t] = "ack" /\ ~applied'[t] /\ t \notin early' /\ cur'[t] = cur[t]
  BY <1>1, <1>2 DEF TypeInv, TypeOK, ThreadTypeOK
<1>4. ThreadSafe(t)' /\ ~Claiming(t)'
  BY <1>1, <1>3 DEF ThreadSafe, KindFits, LookupHolds, ClaimIsNew, FoundIsBilled, Claiming, TxPcs
<1>5. \A u \in Threads \ {t} : Same(u)
  BY <1>1 DEF Same, TypeInv, TypeOK, ThreadTypeOK
<1>6. DeltaAtMostOnce' /\ deltas' = deltas
  BY <1>1 DEF SafeInv, DatabaseSafe, DeltaAtMostOnce, dbVars, cacheVars
<1> QED
  BY <1>1, <1>2, <1>4, <1>5, <1>6, MoveSafe DEF dbVars

\* The database after a commit: a new claim is charged and has its ledger row,
\* a replay of a charge on record and a tracking event charge nothing.
LEMMA CommitDatabase ==
  ASSUME TypeInv, SafeInv, NEW t \in Threads, CommitTx(t)
  PROVE  /\ Keeps /\ DatabaseSafe' /\ \A e \in Events : e = CurEvent(t) => Settled(e)'
         /\ applied[t] => deltas[CurKey(t)] = 0
         /\ \A k \in Keys \ {CurKey(t)} : Claim(k)' = Claim(k)
<1>0. /\ CurEvent(t) \in Events /\ CurKey(t) \in Keys /\ CurPrint(t) \in Prints
      /\ Busy(t)
  <2>1. Busy(t)
    BY DEF CommitTx, Busy, Pcs, TxPcs
  <2> QED
    BY <2>1, CurIsEvent
<1>e. PICK e \in Events, k \in Keys : e = CurEvent(t) /\ k = CurKey(t)
  BY <1>0
<1>1. /\ pc[t] = "commit"
      /\ dedup' = IF applied[t] THEN [dedup EXCEPT ![k] = PrintOf[e]] ELSE dedup
      /\ charges' = IF applied[t] THEN [charges EXCEPT ![k] = @ + 1] ELSE charges
      /\ ledger' = ledger \cup {LedgerRow(e)}
      /\ UNCHANGED <<pubVars, groupVars, archive, cacheVars>>
  BY <1>e DEF CommitTx, Debited
<1>2. Busy(t) /\ ThreadSafe(t) /\ stream' = stream
  BY <1>1 DEF Busy, Pcs, TxPcs, SafeInv, pubVars
<1>3. /\ k \in Keys /\ CurPrint(t) \in Prints /\ e \in Events /\ NoPrint \notin Prints
      /\ k = KeyOf[e] /\ CurPrint(t) = PrintOf[e]
  BY <1>0, <1>e, ConstantsAssumption DEF CurKey, CurPrint
<1>t. /\ dedup \in [Keys -> Prints \cup {NoPrint}]
      /\ archive \in [Keys -> Prints \cup {NoPrint}]
      /\ charges \in [Keys -> Nat] /\ deltas \in [Keys -> Nat]
      /\ archive' = archive /\ deltas' = deltas /\ acked' = acked
      /\ dlq' = dlq /\ dlqLost' = dlqLost
  BY <1>1 DEF TypeInv, TypeOK, DatabaseTypeOK, cacheVars, groupVars
<1>d. OneTable /\ ChargedOnce /\ DeltaAtMostOnce /\ LedgerMatchesCharges
  BY DEF SafeInv, DatabaseSafe
<1>r. /\ LedgerRow(e)[1] = k /\ LedgerRow(e)[2] = KindOf[e]
  BY <1>3 DEF LedgerRow
<1>k. KindOf[e] \in Charging \cup Tracking
  BY <1>1, <1>2, <1>e DEF ThreadSafe, KindFits
<1>s. \/ KindOf[e] \in Charging /\ Claim(k)' = PrintOf[e]
      \/ KindOf[e] \in Tracking /\ LedgerRow(e) \in ledger'
      => Settled(e)'
  BY <1>3 DEF Settled, Charging, Tracking, LedgerRow
<1>4. CASE applied[t]
  <2>1. KindOf[e] \in Charging /\ ~Claimed(k)
    BY <1>1, <1>2, <1>4, <1>e DEF ThreadSafe, KindFits, ClaimIsNew
  <2>2. dedup[k] = NoPrint /\ archive[k] = NoPrint
    BY <1>3, <2>1 DEF Claimed, Claim
  <2>3. /\ \A j \in Keys \ {k} : dedup'[j] = dedup[j] /\ charges'[j] = charges[j]
        /\ dedup'[k] = PrintOf[e] /\ dedup'[k] # NoPrint
        /\ charges'[k] = charges[k] + 1
    BY <1>1, <1>3, <1>t, <1>4
  <2>4. charges[k] = 0 /\ deltas[k] = 0
    BY <1>3, <1>t, <1>d, <2>1 DEF ChargedOnce, DeltaAtMostOnce
  <2>5. Claim(k)' = PrintOf[e] /\ Claimed(k)' /\ \A j \in Keys \ {k} : Claim(j)' = Claim(j)
    BY <1>t, <2>3 DEF Claim, Claimed
  <2>6. Keeps
    BY <2>1, <2>5 DEF Keeps
  <2>7. OneTable'
    BY <1>t, <1>d, <2>2, <2>3 DEF OneTable
  <2>8. ChargedOnce'
    BY <1>d, <2>3, <2>4, <2>5 DEF ChargedOnce, Claimed
  <2>9. DeltaAtMostOnce'
    BY <1>t, <1>d, <2>3, <2>4 DEF DeltaAtMostOnce
  <2>10. LedgerMatchesCharges'
    <3> SUFFICES ASSUME NEW j \in Keys
                 PROVE  (charges'[j] > 0) <=>
                          \E row \in ledger' : row[1] = j /\ row[2] \in Charging
      BY DEF LedgerMatchesCharges
    <3>1. CASE j = k
      BY <1>1, <1>r, <2>1, <2>3, <2>4, <3>1
    <3>2. CASE j # k
      BY <1>1, <1>d, <1>r, <2>3, <3>2 DEF LedgerMatchesCharges
    <3> QED
      BY <3>1, <3>2
  <2>11. AckedIsAccountedFor'
    <3>1. ledger \subseteq ledger' /\ Extends
      BY <1>1, <1>2 DEF Extends, Stored
    <3> QED
      BY <1>t, <2>6, <3>1, AckedStays DEF SafeInv, DatabaseSafe
  <2>12. DatabaseSafe'
    BY <2>7, <2>8, <2>9, <2>10, <2>11 DEF DatabaseSafe
  <2> QED
    BY <1>e, <1>s, <2>1, <2>4, <2>5, <2>6, <2>12
<1>5. CASE ~applied[t]
  <2>1. dedup' = dedup /\ charges' = charges
    BY <1>1, <1>5
  <2>2. \A j \in Keys : Claim(j)' = Claim(j)
    BY <1>t, <2>1 DEF Claim
  <2>3. Keeps
    BY <2>2 DEF Keeps
  <2>4. KindOf[e] \in Charging => Claim(k) = PrintOf[e] /\ charges[k] = 1
    <3>1. KindOf[e] \in Charging => Claim(k) = PrintOf[e]
      BY <1>1, <1>2, <1>3, <1>5, <1>e DEF ThreadSafe, FoundIsBilled
    <3> QED
      BY <1>3, <1>d, <3>1 DEF ChargedOnce, Claimed
  <2>5. OneTable' /\ ChargedOnce' /\ DeltaAtMostOnce'
    BY <1>t, <1>d, <2>1, <2>2 DEF OneTable, ChargedOnce, DeltaAtMostOnce, Claimed
  <2>6. LedgerMatchesCharges'
    BY <1>1, <1>d, <1>r, <2>1, <2>4 DEF LedgerMatchesCharges
  <2>7. AckedIsAccountedFor'
    <3>1. ledger \subseteq ledger' /\ Extends
      BY <1>1, <1>2 DEF Extends, Stored
    <3> QED
      BY <1>t, <2>3, <3>1, AckedStays DEF SafeInv, DatabaseSafe
  <2>8. Settled(e)'
    BY <1>1, <1>3, <1>k, <1>s, <2>2, <2>4
  <2> QED
    BY <1>5, <1>e, <2>2, <2>3, <2>5, <2>6, <2>7, <2>8 DEF DatabaseSafe
<1> QED
  BY <1>4, <1>5

LEMMA SafeCommit ==
  ASSUME TypeInv, SafeInv, NEW t \in Threads, CommitTx(t)
  PROVE  SafeInv'
<1>1. /\ pc[t] = "commit" /\ stream' = stream
      /\ ledger \subseteq ledger'
      /\ UNCHANGED <<archive, dlq, dlqLost, deltas>>
  BY DEF CommitTx, groupVars, cacheVars, pubVars
<1>2. /\ Keeps /\ DatabaseSafe' /\ \A e \in Events : e = CurEvent(t) => Settled(e)'
      /\ applied[t] => deltas[CurKey(t)] = 0
      /\ \A k \in Keys \ {CurKey(t)} : Claim(k)' = Claim(k)
  BY CommitDatabase
<1>3. Busy(t) /\ ThreadSafe(t) /\ Extends
  BY <1>1 DEF Busy, Pcs, TxPcs, SafeInv, Extends, Stored
<1>4. \A u \in Threads \ {t} : Same(u)
  BY DEF CommitTx, Finish, Same, TypeInv, TypeOK, ThreadTypeOK
<1>5. \/ Leaves(t)
      \/ /\ pc'[t] = "project" /\ cur'[t] = cur[t] /\ applied'[t] = applied[t]
         /\ t \notin early'
  BY DEF CommitTx, Finish, Leaves, TypeInv, TypeOK, ThreadTypeOK
<1>6. ThreadSafe(t)'
  <2>1. CASE Leaves(t)
    BY <2>1, LeavesSafe
  <2>2. CASE ~Leaves(t)
    <3>1. CurEvent(t)' = CurEvent(t) /\ CurKey(t)' = CurKey(t)
      BY <1>1, <1>5, <2>2 DEF CurEvent, CurKey
    <3>3. KindFits(t)'
      BY <1>1, <1>3, <1>5, <2>2, <3>1 DEF ThreadSafe, KindFits, TxPcs
    <3>4. LookupHolds(t)' /\ ClaimIsNew(t)'
      BY <1>1, <1>2, <1>5, <2>2, <3>1 DEF LookupHolds, ClaimIsNew
    <3>2. PICK e \in Events : e = CurEvent(t)
      BY <1>3, CurIsEvent
    <3>5. FoundIsBilled(t)'
      <4>1. Settled(e)'
        BY <1>2, <3>2
      <4>2. Settled(CurEvent(t))'
        BY <3>1, <3>2, <4>1 DEF Settled, LedgerRow
      <4> QED
        BY <1>5, <2>2, <4>2 DEF FoundIsBilled
    <3> QED
      BY <3>3, <3>4, <3>5 DEF ThreadSafe
  <2> QED
    BY <2>1, <2>2
<1>7. ASSUME NEW u \in Threads \ {t} PROVE ThreadSafe(u)'
  <2>1. Same(u) /\ ThreadSafe(u)
    BY <1>4 DEF SafeInv
  <2>2. Busy(u) => CurKey(u)' = CurKey(u) /\ CurKey(u) \in Keys
    BY <1>3, <2>1, SameCur
  <2>3. applied[u] /\ pc[u] \in {"log", "commit"} /\ ~Claimed(CurKey(u))
          => ~Claimed(CurKey(u))'
    <3> SUFFICES ASSUME applied[u], pc[u] \in {"log", "commit"}, ~Claimed(CurKey(u))
                 PROVE  ~Claimed(CurKey(u))'
      OBVIOUS
    <3>1. CurKey(u)' = CurKey(u) /\ CurKey(u) \in Keys
      BY <2>2 DEF Busy, Pcs, TxPcs
    <3>2. CASE applied[t]
      <4>1. CurKey(u) # CurKey(t)
        BY <1>1, <3>2 DEF SafeInv, Exclusive, Claiming
      <4> QED
        BY <1>2, <3>1, <4>1 DEF Claimed, Claim
    <3>3. CASE ~applied[t]
      <4>1. dedup' = dedup
        BY <3>3 DEF CommitTx
      <4> QED
        BY <1>1, <3>1, <4>1 DEF Claimed, Claim
    <3> QED
      BY <3>2, <3>3
  <2> QED
    BY <1>1, <1>2, <1>3, <2>1, <2>3, SameSafe
<1>8. Exclusive'
  <2>1. ASSUME NEW u \in Threads, Claiming(u)' PROVE Claiming(u) /\ CurKey(u)' = CurKey(u)
    <3>1. CASE u = t
      BY <1>1, <1>5, <2>1, <3>1, LeavesSafe DEF Claiming, CurKey, CurEvent
    <3>2. CASE u # t
      <4>1. Same(u) /\ Claiming(u) /\ Busy(u)
        BY <1>4, <2>1, <3>2 DEF Same, Claiming, Busy, Pcs, TxPcs
      <4> QED
        BY <1>3, <4>1, SameCur
    <3> QED
      BY <3>1, <3>2
  <2> QED
    BY <2>1 DEF Exclusive, SafeInv
<1> QED
  BY <1>2, <1>6, <1>7, <1>8 DEF SafeInv

LEMMA SafeAck ==
  ASSUME TypeInv, SafeInv, NEW t \in Threads, Ack(t)
  PROVE  SafeInv'
<1>1. /\ pc[t] = "ack" /\ stream' = stream /\ Finish(t)
      /\ acked' = acked \cup {cur[t]}
      /\ UNCHANGED <<claimVars, charges, ledger, deltas, dlq, dlqLost>>
  BY DEF Ack, pubVars, dbVars, cacheVars
<1>2. Leaves(t) /\ \A u \in Threads \ {t} : Same(u)
  BY <1>1 DEF Finish, Leaves, Same, TypeInv, TypeOK, ThreadTypeOK
<1>3. Extends
  BY <1>1 DEF Extends, Stored
<1>4. Keeps /\ (\A u \in Threads : ThreadSafe(u)') /\ Exclusive'
  BY <1>1, <1>2, <1>3, FrameThreads
<1>5. cur[t] \in dlq \cup dlqLost \/ Settled(CurEvent(t))
  BY <1>1 DEF SafeInv, ThreadSafe, FoundIsBilled
<1>6. AckedIsAccountedFor'
  <2> SUFFICES ASSUME NEW i \in acked', i \notin dlq \cup dlqLost
               PROVE  Settled(stream[i])'
    BY <1>1 DEF AckedIsAccountedFor
  <2>1. Settled(stream[i])
    BY <1>1, <1>5 DEF SafeInv, DatabaseSafe, AckedIsAccountedFor, CurEvent
  <2> QED
    BY <1>1, <2>1 DEF Settled, Claim, LedgerRow, claimVars
<1>7. DatabaseSafe'
  BY <1>1, <1>6 DEF SafeInv, DatabaseSafe, OneTable, ChargedOnce, DeltaAtMostOnce,
     LedgerMatchesCharges, Claimed, Claim, claimVars
<1> QED
  BY <1>4, <1>7 DEF SafeInv

LEMMA SafeHandle ==
  ASSUME TypeInv, SafeInv, NEW t \in Threads, Handle(t)
  PROVE  SafeInv'
<1>1. CASE AbortTx(t) \/ AckFails(t)
  BY <1>1, SafeFinish DEF AbortTx, AckFails, pubVars, groupVars, dbVars, cacheVars
<1>2. CASE EmptyBatch(t)
  BY <1>2, SafeTake
<1> QED
  BY <1>1, <1>2, SafeDispatch, SafeMatch, SafeInsert, SafeTombstone, SafeCommit,
     SafeProject, SafeDeadLetter, SafeAck DEF Handle

LEMMA SafeInit == Init => SafeInv
<1> SUFFICES ASSUME Init PROVE SafeInv
  OBVIOUS
<1>1. \A k \in Keys : ~Claimed(k)
  BY DEF Init, Claimed, Claim
<1>2. \A t \in Threads : ThreadSafe(t) /\ ~Claiming(t)
  BY DEF Init, ThreadSafe, KindFits, LookupHolds, ClaimIsNew, FoundIsBilled, Claiming, TxPcs
<1>3. OneTable /\ ChargedOnce /\ DeltaAtMostOnce
  BY <1>1 DEF Init, OneTable, ChargedOnce, DeltaAtMostOnce
<1>4. LedgerMatchesCharges /\ AckedIsAccountedFor
  BY DEF Init, LedgerMatchesCharges, AckedIsAccountedFor
<1> QED
  BY <1>2, <1>3, <1>4 DEF SafeInv, Exclusive, DatabaseSafe

LEMMA SafeStep == TypeInv /\ SafeInv /\ [Next]_vars => SafeInv'
<1> SUFFICES ASSUME TypeInv, SafeInv, [Next]_vars PROVE SafeInv'
  OBVIOUS
<1>1. ASSUME NEW t \in Readers, ReadNew(t) PROVE SafeInv'
  BY <1>1, SafeTake DEF Threads
<1>2. ASSUME NEW t \in Recoverers, Recover(t) PROVE SafeInv'
  BY <1>2, SafeTake DEF Threads
<1>3. CASE UNCHANGED vars
  <2>1. UNCHANGED <<pubVars, threadVars, claimVars, dbVars, cacheVars, groupVars>>
    BY <1>3 DEF vars
  <2>2. Extends /\ \A t \in Threads : Same(t)
    BY <2>1 DEF Extends, Stored, Same, pubVars, threadVars
  <2> QED
    BY <2>1, <2>2, FrameSafe DEF dbVars, cacheVars, groupVars
<1> QED
  BY <1>1, <1>2, <1>3, SafePublish, SafeHandle, SafeProcess, SafeArchive, SafeCleanup
     DEF Next

\* The inductive invariant: types, every thread's knowledge of the claim of its
\* request, the exclusion of claims, and the database.
THEOREM Inductive == Spec => []IInv
<1>1. Init => IInv
  BY TypeInit, SafeInit DEF IInv, TypeInv
<1>2. IInv /\ [Next]_vars => IInv'
  BY TypeStep, SafeStep DEF IInv, TypeInv
<1> QED
  BY <1>1, <1>2, PTL DEF Spec

\* No request is debited twice, and a debit always has its claim: for any
\* number of consumers, retries, crashes and archive moves
\* (claimUsageBillingKey).
THEOREM ExactlyOnce == Spec => []ChargedOnce
<1>1. IInv => ChargedOnce
  BY DEF IInv, SafeInv, DatabaseSafe
<1> QED
  BY <1>1, Inductive, PTL

\* The ledger and the debits always agree (persistBillingLedger).
THEOREM LedgerCorrect == Spec => []LedgerMatchesCharges
<1>1. IInv => LedgerMatchesCharges
  BY DEF IInv, SafeInv, DatabaseSafe
<1> QED
  BY <1>1, Inductive, PTL

\* No entry is acknowledged unless its event is settled or was given up to the
\* dead letter stream (processMessage).
THEOREM NoSilentLoss == Spec => []AckedIsAccountedFor
<1>1. IInv => AckedIsAccountedFor
  BY DEF IInv, SafeInv, DatabaseSafe
<1> QED
  BY <1>1, Inductive, PTL

\* No redelivery queues a second additive cache update (handleEvent).
THEOREM NoDoubleDelta == Spec => []DeltaAtMostOnce
<1>1. IInv => DeltaAtMostOnce
  BY DEF IInv, SafeInv, DatabaseSafe
<1> QED
  BY <1>1, Inductive, PTL

\* Only a commit and the archive job write claims, and both keep the ones on
\* record.
LEMMA KeepsStep == IInv /\ [Next]_vars => Keeps
<1> SUFFICES ASSUME TypeInv, SafeInv, [Next]_vars PROVE Keeps
  BY DEF IInv, TypeInv
<1>1. CASE UNCHANGED claimVars
  BY <1>1 DEF Keeps, Claim, claimVars
<1>2. ASSUME NEW t \in Threads, CommitTx(t) PROVE Keeps
  BY <1>2, CommitDatabase
<1>3. ASSUME NEW k \in Keys, ArchiveClaim(k) PROVE Keeps
  <2>1. /\ dedup \in [Keys -> Prints \cup {NoPrint}]
        /\ archive \in [Keys -> Prints \cup {NoPrint}]
    BY DEF TypeInv, TypeOK, DatabaseTypeOK
  <2> QED
    BY <1>3, <2>1 DEF ArchiveClaim, Keeps, Claim
<1>4. ASSUME NEW e \in Events, Publisher(e) PROVE UNCHANGED claimVars
  BY <1>4 DEF Publisher, PublishOk, PublishError, PublishCancel
<1>5. ASSUME NEW t \in Threads, ReadNew(t) \/ Recover(t) PROVE UNCHANGED claimVars
  BY <1>5 DEF ReadNew, Recover, ListPending, EndScan, ClaimPending, ClaimFails
<1>6. ASSUME NEW t \in Threads, Handle(t), ~CommitTx(t) PROVE UNCHANGED claimVars
  BY <1>6 DEF Handle, EmptyBatch, Dispatch, MatchDedup, MatchArchive, InsertClaim, Recheck,
     CheckTombstone, AbortTx, Project, DeadLetter, Ack, AckFails
<1>7. ASSUME NEW p \in Procs, Process(p) PROVE UNCHANGED claimVars
  BY <1>7 DEF Process, Stop, Stopped, Crash, Start
<1>8. CASE (\E i \in pel : GoIdle(i)) \/ (\E k \in Keys : DeleteLog(k)) \/ UNCHANGED vars
  BY <1>1, <1>8 DEF GoIdle, DeleteLog, vars
<1> QED
  BY <1>1, <1>2, <1>3, <1>4, <1>5, <1>6, <1>7, <1>8 DEF Next, Threads

\* Once a request is claimed its fingerprint stays on record for good, across
\* the archive job (CleanupUsageBillingDedup).
THEOREM ClaimsStay == Spec => ClaimsArePermanent
<1>1. IInv /\ [Next]_vars
        => [\A k \in Keys : Claimed(k) => Claimed(k)' /\ Claim(k)' = Claim(k)]_vars
  BY KeepsStep DEF Keeps, Claimed
<1> QED
  BY <1>1, Inductive, PTL DEF Spec, ClaimsArePermanent

-----------------------------------------------------------------------------
(* Projection *)

\* The billing cache was told about a charge of k.
Told(k) == deltas[k] > 0 \/ k \in repaired

\* Entry i is no charge, was given up, or its charge was projected.
Projected(i) ==
  KindOf[stream[i]] \in Charging /\ i \notin dlq \cup dlqLost => Told(KeyOf[stream[i]])

\* What an acknowledgement relies on, from Project or DeadLetter to Ack.
ProjectInv ==
  /\ \A t \in Threads : pc[t] = "ack" => Projected(cur[t])
  /\ AckedIsProjected

\* What was told or given up is never taken back.
Remembers ==
  /\ Extends
  /\ dlq \subseteq dlq' /\ dlqLost \subseteq dlqLost'
  /\ \A k \in Keys : Told(k) => Told(k)'

LEMMA ProjectedStays ==
  ASSUME TypeInv, Remembers, NEW i \in Stored, Projected(i)
  PROVE  Projected(i)'
<1>1. stream[i] \in Events /\ stream'[i] = stream[i]
  BY DEF TypeInv, TypeOK, PublisherTypeOK, Stored, Remembers, Extends
<1>2. KeyOf[stream[i]] \in Keys
  BY <1>1, ConstantsAssumption
<1>3. Told(KeyOf[stream[i]]) => Told(KeyOf[stream[i]])'
  BY <1>1, <1>2 DEF Remembers, Told
<1> QED
  BY <1>1, <1>3 DEF Projected, Remembers

LEMMA StaysTold ==
  ASSUME TypeInv, Extends, UNCHANGED <<deltas, repaired, dlq, dlqLost>>
  PROVE  Remembers
BY DEF Remembers, Told

\* A step that acknowledges nothing and brings no thread to an acknowledgement.
LEMMA FrameProject ==
  ASSUME TypeInv, ProjectInv, Remembers, acked' = acked,
         \A t \in Threads : pc'[t] = "ack" => pc[t] = "ack" /\ cur'[t] = cur[t]
  PROVE  ProjectInv'
<1>1. ASSUME NEW t \in Threads, pc'[t] = "ack" PROVE Projected(cur[t])'
  <2>1. pc[t] = "ack" /\ cur'[t] = cur[t] /\ Projected(cur[t])
    BY <1>1 DEF ProjectInv
  <2>2. cur[t] \in Stored
    BY <2>1, CurIsEvent DEF Busy, Pcs, TxPcs
  <2>3. PICK i \in Stored : i = cur[t]
    BY <2>2
  <2>4. Projected(i)'
    BY <2>1, <2>3, ProjectedStays
  <2> QED
    BY <2>1, <2>3, <2>4 DEF Projected
<1>2. AckedIsProjected'
  <2> SUFFICES ASSUME NEW i \in acked PROVE Projected(i)'
    BY DEF AckedIsProjected, Projected, Told
  <2>1. i \in Stored /\ Projected(i)
    BY DEF ProjectInv, AckedIsProjected, Projected, Told, TypeInv, TypeOK, GroupTypeOK
  <2> QED
    BY <2>1, ProjectedStays
<1> QED
  BY <1>1, <1>2 DEF ProjectInv

\* Finish leads to the next entry or out of the batch.
LEMMA FinishLeaves ==
  ASSUME TypeInv, NEW t \in Threads, Finish(t)
  PROVE  \A u \in Threads : pc'[u] = "ack" => pc[u] = "ack" /\ cur'[u] = cur[u]
BY DEF Finish, TypeInv, TypeOK, ThreadTypeOK

LEMMA ProjectPublish ==
  ASSUME TypeInv, ProjectInv, NEW e \in Events, Publisher(e)
  PROVE  ProjectInv'
<1>1. UNCHANGED <<groupVars, threadVars, cacheVars>>
  BY DEF Publisher, PublishOk, PublishError, PublishCancel
<1>2. Extends
  BY PublishExtends DEF Extends, TypeInv, TypeOK, PublisherTypeOK
<1> QED
  BY <1>1, <1>2, StaysTold, FrameProject DEF groupVars, threadVars, cacheVars

LEMMA ProjectTake ==
  ASSUME TypeInv, ProjectInv, NEW t \in Threads,
         ReadNew(t) \/ Recover(t) \/ EmptyBatch(t)
  PROVE  ProjectInv'
<1>1. UNCHANGED <<pubVars, cur, cacheVars, acked, dlq, dlqLost>>
  BY DEF ReadNew, Recover, ListPending, EndScan, ClaimPending, ClaimFails, EmptyBatch,
         groupVars
<1>2. \A u \in Threads : pc'[u] = "ack" => pc[u] = "ack"
  BY DEF TypeInv, TypeOK, ThreadTypeOK, ReadNew, Recover, ListPending, EndScan,
         ClaimPending, ClaimFails, EmptyBatch, DropPage
<1>3. Extends
  BY <1>1 DEF Extends, Stored, pubVars
<1> QED
  BY <1>1, <1>2, <1>3, StaysTold, FrameProject DEF cacheVars

LEMMA ProjectElsewhere ==
  ASSUME TypeInv, ProjectInv,
         \/ \E p \in Procs : Process(p)
         \/ \E i \in pel : GoIdle(i)
         \/ \E k \in Keys : ArchiveClaim(k) \/ DeleteLog(k)
         \/ UNCHANGED vars
  PROVE  ProjectInv'
<1>1. UNCHANGED <<pubVars, cacheVars, acked, dlq, dlqLost>>
  BY DEF Process, Stop, Stopped, Crash, Start, GoIdle, ArchiveClaim, DeleteLog, vars,
         groupVars
<1>2. \A t \in Threads : pc'[t] = "ack" => pc[t] = "ack" /\ cur'[t] = cur[t]
  BY DEF Process, Stop, Stopped, Crash, Start, GoIdle, ArchiveClaim, DeleteLog, vars,
         threadVars
<1>3. Extends
  BY <1>1 DEF Extends, Stored, pubVars
<1> QED
  BY <1>1, <1>2, <1>3, StaysTold, FrameProject DEF cacheVars

\* The steps of the transaction end at "project" or let go of the entry.
LEMMA ProjectTx ==
  ASSUME TypeInv, ProjectInv, NEW t \in Threads,
         \/ MatchDedup(t) \/ MatchArchive(t) \/ InsertClaim(t) \/ Recheck(t)
         \/ CheckTombstone(t) \/ CommitTx(t) \/ AbortTx(t) \/ AckFails(t)
  PROVE  ProjectInv'
<1>1. UNCHANGED <<pubVars, groupVars, cacheVars>>
  BY DEF MatchDedup, MatchArchive, InsertClaim, Recheck, CheckTombstone, CommitTx,
         AbortTx, AckFails
<1>2. \A u \in Threads : pc'[u] = "ack" => pc[u] = "ack" /\ cur'[u] = cur[u]
  <2>1. CASE Finish(t)
    BY <2>1, FinishLeaves
  <2>2. CASE ~Finish(t)
    <3>1. \E q \in Pcs \ {"ack"} : pc' = [pc EXCEPT ![t] = q]
      BY <2>2 DEF MatchDedup, MatchArchive, InsertClaim, Recheck, CheckTombstone,
         CommitTx, AbortTx, AckFails, Match, AfterClaim, Pcs, TxPcs
    <3>2. cur' = cur
      BY <2>2 DEF MatchDedup, MatchArchive, InsertClaim, Recheck, CheckTombstone,
         CommitTx, AbortTx, AckFails, Match
    <3> QED
      BY <3>1, <3>2 DEF TypeInv, TypeOK, ThreadTypeOK
  <2> QED
    BY <2>1, <2>2
<1>3. Extends
  BY <1>1 DEF Extends, Stored, pubVars
<1> QED
  BY <1>1, <1>2, <1>3, StaysTold, FrameProject DEF cacheVars, groupVars

\* A step that brings thread t alone to its acknowledgement.
LEMMA ProjectMove ==
  ASSUME TypeInv, ProjectInv, Remembers, acked' = acked, NEW t \in Threads,
         pc'[t] = "ack" => Projected(cur[t])',
         \A u \in Threads \ {t} : pc'[u] = pc[u] /\ cur'[u] = cur[u]
  PROVE  ProjectInv'
<1>1. ASSUME NEW u \in Threads, pc'[u] = "ack" PROVE Projected(cur[u])'
  <2>1. CASE u = t
    BY <1>1, <2>1
  <2>2. CASE u # t
    <3>1. pc[u] = "ack" /\ cur'[u] = cur[u] /\ Projected(cur[u])
      BY <1>1, <2>2 DEF ProjectInv
    <3>2. PICK i \in Stored : i = cur[u]
      BY <3>1, CurIsEvent DEF Busy, Pcs, TxPcs
    <3>3. Projected(i)'
      BY <3>1, <3>2, ProjectedStays
    <3> QED
      BY <3>1, <3>2, <3>3 DEF Projected
  <2> QED
    BY <2>1, <2>2
<1>2. AckedIsProjected'
  <2> SUFFICES ASSUME NEW i \in acked PROVE Projected(i)'
    BY DEF AckedIsProjected, Projected, Told
  <2>1. i \in Stored /\ Projected(i)
    BY DEF ProjectInv, AckedIsProjected, Projected, Told, TypeInv, TypeOK, GroupTypeOK
  <2> QED
    BY <2>1, ProjectedStays
<1> QED
  BY <1>1, <1>2 DEF ProjectInv

LEMMA ProjectHandle ==
  ASSUME TypeInv, ProjectInv, NEW t \in Threads,
         Dispatch(t) \/ Project(t) \/ DeadLetter(t) \/ Ack(t)
  PROVE  ProjectInv'
<1>1. UNCHANGED pubVars /\ stream' = stream
  BY DEF Dispatch, Project, DeadLetter, Ack, pubVars
<1>2. Extends
  BY <1>1 DEF Extends, Stored
<1>3. CASE Dispatch(t)
  <2>1. UNCHANGED <<groupVars, cacheVars>>
    BY <1>3 DEF Dispatch
  <2>2. PICK i \in todo[t] :
          /\ cur' = [cur EXCEPT ![t] = i]
          /\ pc' = [pc EXCEPT ![t] =
               CASE KindOf[stream[i]] = "malformed" \/ Exhausted(t, i) -> "dlq"
                 [] KindOf[stream[i]] = "empty" /\ ~Exhausted(t, i)    -> "ack"
                 [] KindOf[stream[i]] \in Tracking /\ ~Exhausted(t, i) -> "commit"
                 [] OTHER                                              -> "dedup"]
    BY <1>3 DEF Dispatch
  <2>3. cur'[t] = i /\ (pc'[t] = "ack" => KindOf[stream[i]] = "empty")
    BY <2>2 DEF TypeInv, TypeOK, ThreadTypeOK
  <2>4. pc'[t] = "ack" => Projected(cur[t])'
    BY <1>1, <2>3 DEF Projected, Charging
  <2>5. \A u \in Threads \ {t} : pc'[u] = pc[u] /\ cur'[u] = cur[u]
    BY <2>2 DEF TypeInv, TypeOK, ThreadTypeOK
  <2> QED
    BY <1>2, <2>1, <2>4, <2>5, StaysTold, ProjectMove DEF groupVars, cacheVars
<1>4. CASE Project(t)
  <2>1. /\ pc[t] = "project" /\ pc' = [pc EXCEPT ![t] = "ack"] /\ cur' = cur
        /\ UNCHANGED groupVars
    BY <1>4 DEF Project
  <2>2. CurKey(t) \in Keys
    BY <2>1, CurIsEvent DEF Busy, Pcs, TxPcs
  <2>3. deltas \in [Keys -> Nat]
    BY DEF TypeInv, TypeOK, DatabaseTypeOK
  <2>4. \A k \in Keys : (Told(k) => Told(k)') /\ (k = CurKey(t) => Told(k)')
    <3>1. CASE applied[t]
      <4>1. deltas' = [deltas EXCEPT ![CurKey(t)] = @ + 1] /\ repaired' = repaired
        BY <1>4, <3>1 DEF Project
      <4> QED
        BY <2>2, <2>3, <4>1 DEF Told
    <3>2. CASE ~applied[t]
      <4>1. repaired' = repaired \cup {CurKey(t)} /\ deltas' = deltas
        BY <1>4, <3>2 DEF Project
      <4> QED
        BY <4>1 DEF Told
    <3> QED
      BY <3>1, <3>2
  <2>5. Remembers
    BY <1>2, <2>1, <2>4 DEF Remembers, groupVars
  <2>6. Projected(cur[t])'
    BY <1>1, <2>1, <2>2, <2>4 DEF Projected, CurKey, CurEvent, Told
  <2>7. \A u \in Threads \ {t} : pc'[u] = pc[u] /\ cur'[u] = cur[u]
    BY <2>1 DEF TypeInv, TypeOK, ThreadTypeOK
  <2> QED
    BY <2>1, <2>5, <2>6, <2>7, ProjectMove DEF groupVars
<1>5. CASE DeadLetter(t)
  <2>1. /\ pc' = [pc EXCEPT ![t] = "ack"] /\ cur' = cur /\ acked' = acked
        /\ UNCHANGED cacheVars
        /\ dlq \subseteq dlq' /\ dlqLost \subseteq dlqLost'
        /\ cur[t] \in dlq' \cup dlqLost'
    BY <1>5 DEF DeadLetter
  <2>2. Remembers
    BY <1>2, <2>1 DEF Remembers, Told, cacheVars
  <2>3. Projected(cur[t])'
    BY <2>1 DEF Projected
  <2>4. \A u \in Threads \ {t} : pc'[u] = pc[u] /\ cur'[u] = cur[u]
    BY <2>1 DEF TypeInv, TypeOK, ThreadTypeOK
  <2> QED
    BY <2>1, <2>2, <2>3, <2>4, ProjectMove
<1>6. CASE Ack(t)
  <2>1. /\ pc[t] = "ack" /\ acked' = acked \cup {cur[t]} /\ Finish(t)
        /\ UNCHANGED <<dlq, dlqLost, cacheVars>>
    BY <1>6 DEF Ack
  <2>2. Remembers
    BY <1>2, <2>1, StaysTold DEF cacheVars
  <2>3. \A u \in Threads : pc'[u] = "ack" => pc[u] = "ack" /\ cur'[u] = cur[u]
    BY <2>1, FinishLeaves
  <2>4. ASSUME NEW i, i \in acked' \/ \E u \in Threads : pc[u] = "ack" /\ i = cur[u]
        PROVE  Projected(i)'
    <3>1. i \in Stored
      BY <2>1, <2>4, CurIsEvent DEF Busy, Pcs, TxPcs, TypeInv, TypeOK, GroupTypeOK
    <3>2. Projected(i)
      BY <2>1, <2>4 DEF ProjectInv, AckedIsProjected, Projected, Told
    <3> QED
      BY <2>2, <3>1, <3>2, ProjectedStays
  <2>5. AckedIsProjected'
    BY <2>4 DEF AckedIsProjected, Projected, Told
  <2>6. \A u \in Threads : pc'[u] = "ack" => Projected(cur[u])'
    BY <2>3, <2>4 DEF Projected
  <2> QED
    BY <2>5, <2>6 DEF ProjectInv
<1> QED
  BY <1>3, <1>4, <1>5, <1>6

LEMMA ProjectStep == TypeInv /\ ProjectInv /\ [Next]_vars => ProjectInv'
<1> SUFFICES ASSUME TypeInv, ProjectInv, [Next]_vars PROVE ProjectInv'
  OBVIOUS
<1>1. ASSUME NEW t \in Readers, ReadNew(t) PROVE ProjectInv'
  BY <1>1, ProjectTake DEF Threads
<1>2. ASSUME NEW t \in Recoverers, Recover(t) PROVE ProjectInv'
  BY <1>2, ProjectTake DEF Threads
<1>3. ASSUME NEW t \in Threads, Handle(t) PROVE ProjectInv'
  BY <1>3, ProjectTake, ProjectTx, ProjectHandle DEF Handle
<1> QED
  BY <1>1, <1>2, <1>3, ProjectPublish, ProjectElsewhere DEF Next

\* A charge that was acknowledged and not given up was made known to the billing
\* cache, by an update or by an invalidation, whichever delivery billed it and
\* whatever crashed in between (handleEvent).
THEOREM ChargesProjected == Spec => []AckedIsProjected
<1>1. Init => TypeInv /\ ProjectInv
  BY TypeInit DEF Init, ProjectInv, AckedIsProjected
<1>2. TypeInv /\ ProjectInv /\ [Next]_vars => (TypeInv /\ ProjectInv)'
  BY TypeStep, ProjectStep
<1>3. TypeInv /\ ProjectInv => AckedIsProjected
  BY DEF ProjectInv
<1> QED
  BY <1>1, <1>2, <1>3, PTL DEF Spec

-----------------------------------------------------------------------------
(* Refinement *)

\* Steps the contract does not see.
LEMMA ContractStutters ==
  ASSUME UNCHANGED <<stream, acked, dlq, dlqLost, charges>>,
         \A k \in Keys : Claim(k)' = Claim(k)
  PROVE  UNCHANGED Contract!vars
BY DEF Contract!vars, Stored

LEMMA PublishRefines ==
  ASSUME TypeInv, NEW e \in Events, Publisher(e)
  PROVE  [Contract!Next]_(Contract!vars)
<1>1. UNCHANGED <<groupVars, claimVars, dbVars>>
  BY DEF Publisher, PublishOk, PublishError, PublishCancel
<1>2. stream \in Seq(Events) /\ acked \subseteq Stored /\ dlq \subseteq Stored /\ dlqLost \subseteq Stored
  BY DEF TypeInv, TypeOK, PublisherTypeOK, GroupTypeOK
<1>3. /\ Stored \subseteq Stored'
      /\ \A i \in Stored : stream'[i] = stream[i]
      /\ \A i \in Stored' \ Stored : stream'[i] = e
  BY <1>2, PublishExtends
<1>4. /\ {stream'[i] : i \in dlq \cup dlqLost} = {stream[i] : i \in dlq \cup dlqLost}
      /\ {stream'[i] : i \in acked} = {stream[i] : i \in acked}
  BY <1>2, <1>3
<1>5. [k \in Keys |-> Claim(k)]' = [k \in Keys |-> Claim(k)]
  BY <1>1 DEF Claim, claimVars
<1>6. CASE Stored' = Stored
  <2>1. {stream'[i] : i \in Stored'} = {stream[i] : i \in Stored}
    BY <1>3, <1>6
  <2> QED
    BY <1>1, <1>4, <1>5, <2>1 DEF Contract!vars, groupVars, dbVars
<1>7. CASE Stored' # Stored
  <2>1. {stream'[i] : i \in Stored'} = {stream[i] : i \in Stored} \cup {e}
    BY <1>3, <1>7
  <2>2. Contract!Accept(e)
    BY <1>1, <1>4, <1>5, <2>1 DEF Contract!Accept, groupVars, dbVars
  <2> QED
    BY <2>2 DEF Contract!Next
<1> QED
  BY <1>6, <1>7

LEMMA CommitRefines ==
  ASSUME TypeInv, SafeInv, NEW t \in Threads, CommitTx(t)
  PROVE  [Contract!Next]_(Contract!vars)
<1>1. /\ pc[t] = "commit" /\ stream' = stream
      /\ UNCHANGED <<archive, acked, dlq, dlqLost>>
  BY DEF CommitTx, pubVars, groupVars
<1>2. Busy(t) /\ ThreadSafe(t)
  BY <1>1 DEF Busy, Pcs, TxPcs, SafeInv
<1>3. /\ cur[t] \in Stored /\ CurEvent(t) \in Events /\ CurKey(t) \in Keys
      /\ CurKey(t) = KeyOf[CurEvent(t)]
  BY <1>2, CurIsEvent DEF CurKey
<1>4. CASE ~applied[t]
  <2>1. dedup' = dedup /\ charges' = charges
    BY <1>4 DEF CommitTx
  <2>2. \A k \in Keys : Claim(k)' = Claim(k)
    BY <1>1, <2>1 DEF Claim
  <2> QED
    BY <1>1, <2>1, <2>2, ContractStutters
<1>5. CASE applied[t]
  <2>e. PICK e \in Events, k \in Keys : e = CurEvent(t) /\ k = CurKey(t) /\ k = KeyOf[e]
    BY <1>3
  <2>1. KindOf[e] \in Charging /\ ~Claimed(k)
    BY <1>1, <1>2, <1>5, <2>e DEF ThreadSafe, KindFits, ClaimIsNew
  <2>2. charges[k] = 0 /\ Claim(k) = NoPrint /\ archive[k] = NoPrint
    BY <2>1 DEF SafeInv, DatabaseSafe, ChargedOnce, Claimed, Claim
  <2>3. /\ dedup' = [dedup EXCEPT ![k] = PrintOf[e]]
        /\ charges' = [charges EXCEPT ![k] = 1]
    BY <1>5, <2>e, <2>2 DEF CommitTx, Debited, TypeInv, TypeOK, DatabaseTypeOK
  <2>4. [j \in Keys |-> Claim(j)]' = [[j \in Keys |-> Claim(j)] EXCEPT ![k] = PrintOf[e]]
    <3>1. dedup \in [Keys -> Prints \cup {NoPrint}] /\ PrintOf[e] # NoPrint
      BY ConstantsAssumption DEF TypeInv, TypeOK, DatabaseTypeOK
    <3>2. \A j \in Keys : Claim(j)' = IF j = k THEN PrintOf[e] ELSE Claim(j)
      BY <1>1, <2>3, <3>1 DEF Claim
    <3> QED
      BY <3>2
  <2>5. e \in {stream[i] : i \in Stored}
    BY <1>3, <2>e DEF CurEvent
  <2>6. UNCHANGED <<Stored, stream, acked, dlq, dlqLost>>
    BY <1>1 DEF Stored
  <2>7. Contract!Bill(e)
    BY <2>e, <2>1, <2>2, <2>3, <2>4, <2>5, <2>6 DEF Contract!Bill
  <2> QED
    BY <2>7 DEF Contract!Next
<1> QED
  BY <1>4, <1>5

LEMMA GiveUpRefines ==
  ASSUME TypeInv, SafeInv, NEW t \in Threads, DeadLetter(t) \/ Ack(t)
  PROVE  [Contract!Next]_(Contract!vars)
<1>1. Busy(t) /\ ThreadSafe(t) /\ UNCHANGED <<stream, claimVars, charges>>
  BY DEF DeadLetter, Ack, Busy, Pcs, TxPcs, SafeInv, pubVars, dbVars
<1>2. cur[t] \in Stored /\ CurEvent(t) \in Events
  BY <1>1, CurIsEvent
<1>e. PICK e \in Events, i \in Stored : e = CurEvent(t) /\ i = cur[t] /\ e = stream[i]
  BY <1>2 DEF CurEvent
<1>3. /\ [k \in Keys |-> Claim(k)]' = [k \in Keys |-> Claim(k)]
      /\ Stored' = Stored
      /\ e \in {stream[j] : j \in Stored}
  BY <1>1, <1>e DEF Claim, claimVars, Stored
<1>4. CASE DeadLetter(t)
  <2>1. /\ dlq' \cup dlqLost' = (dlq \cup dlqLost) \cup {i}
        /\ acked' = acked
    BY <1>4, <1>e DEF DeadLetter
  <2>2. {stream'[j] : j \in dlq' \cup dlqLost'} = {stream[j] : j \in dlq \cup dlqLost} \cup {e}
    BY <1>1, <1>e, <2>1
  <2>3. Contract!GiveUp(e)
    BY <1>1, <1>3, <2>1, <2>2 DEF Contract!GiveUp
  <2> QED
    BY <2>3 DEF Contract!Next
<1>5. CASE Ack(t)
  <2>1. pc[t] = "ack" /\ acked' = acked \cup {i} /\ UNCHANGED <<dlq, dlqLost>>
    BY <1>5, <1>e DEF Ack
  <2>2. {stream'[j] : j \in acked'} = {stream[j] : j \in acked} \cup {e}
    BY <1>1, <1>e, <2>1
  <2>3. i \in dlq \cup dlqLost \/ Settled(e)
    BY <1>1, <1>e, <2>1 DEF ThreadSafe, FoundIsBilled
  <2>4. \/ e \in {stream[j] : j \in dlq \cup dlqLost}
        \/ e \notin {f \in Events : KindOf[f] \in Charging}
        \/ [k \in Keys |-> Claim(k)][KeyOf[e]] = PrintOf[e]
    <3>1. KeyOf[e] \in Keys
      BY ConstantsAssumption
    <3> QED
      BY <1>e, <2>3, <3>1 DEF Settled, Charging, Tracking
  <2>5. Contract!Close(e)
    BY <1>1, <1>3, <2>1, <2>2, <2>4 DEF Contract!Close
  <2> QED
    BY <2>5 DEF Contract!Next
<1> QED
  BY <1>4, <1>5

LEMMA RefinesStep == IInv /\ [Next]_vars => [Contract!Next]_(Contract!vars)
<1> SUFFICES ASSUME TypeInv, SafeInv, [Next]_vars
             PROVE  [Contract!Next]_(Contract!vars)
  BY DEF IInv, TypeInv
<1>1. CASE UNCHANGED <<stream, acked, dlq, dlqLost, charges, dedup, archive>>
  <2>1. \A k \in Keys : Claim(k)' = Claim(k)
    BY <1>1 DEF Claim
  <2> QED
    BY <1>1, <2>1, ContractStutters
<1>2. ASSUME NEW k \in Keys, ArchiveClaim(k) PROVE [Contract!Next]_(Contract!vars)
  <2>1. /\ dedup \in [Keys -> Prints \cup {NoPrint}]
        /\ archive \in [Keys -> Prints \cup {NoPrint}]
    BY DEF TypeInv, TypeOK, DatabaseTypeOK
  <2>2. \A j \in Keys : Claim(j)' = Claim(j)
    BY <1>2, <2>1 DEF ArchiveClaim, Claim, SafeInv, DatabaseSafe, OneTable
  <2> QED
    BY <1>2, <2>2, ContractStutters DEF ArchiveClaim, pubVars, groupVars, dbVars
<1>3. ASSUME NEW t \in Threads, ReadNew(t) \/ Recover(t)
      PROVE  UNCHANGED <<stream, acked, dlq, dlqLost, charges, dedup, archive>>
  BY <1>3 DEF ReadNew, Recover, ListPending, EndScan, ClaimPending, ClaimFails,
     pubVars, groupVars, dbVars, claimVars
<1>4. ASSUME NEW t \in Threads, Handle(t), ~CommitTx(t), ~DeadLetter(t), ~Ack(t)
      PROVE  UNCHANGED <<stream, acked, dlq, dlqLost, charges, dedup, archive>>
  BY <1>4 DEF Handle, EmptyBatch, Dispatch, MatchDedup, MatchArchive, InsertClaim, Recheck,
     CheckTombstone, AbortTx, Project, AckFails, pubVars, groupVars, dbVars, claimVars
<1>5. ASSUME NEW p \in Procs, Process(p)
      PROVE  UNCHANGED <<stream, acked, dlq, dlqLost, charges, dedup, archive>>
  BY <1>5 DEF Process, Stop, Stopped, Crash, Start, pubVars, groupVars, dbVars, claimVars
<1>6. ASSUME (\E i \in pel : GoIdle(i)) \/ (\E k \in Keys : DeleteLog(k)) \/ UNCHANGED vars
      PROVE  UNCHANGED <<stream, acked, dlq, dlqLost, charges, dedup, archive>>
  BY <1>6 DEF GoIdle, DeleteLog, vars, pubVars, groupVars, dbVars, claimVars
<1> QED
  BY <1>1, <1>2, <1>3, <1>4, <1>5, <1>6, PublishRefines, CommitRefines, GiveUpRefines
     DEF Next, Threads

\* The pipeline implements UsageCharging for every number of consumers, retries
\* and crashes: each of its steps is one step of the contract or none.
THEOREM Refinement == Spec => ImplementsContract
<1>1. Init => Contract!Init
  BY DEF Init, Contract!Init, Stored, Claim
<1>2. IInv /\ [Next]_vars => [Contract!Next]_(Contract!vars)
  BY RefinesStep
<1> QED
  BY <1>1, <1>2, Inductive, PTL DEF Spec, ImplementsContract, Contract!Spec

=============================================================================

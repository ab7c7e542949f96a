--------------------------- MODULE BillingPipeline ---------------------------
(***************************************************************************)
(* The path of a usage charge from the gateway to the billing database.    *)
(*                                                                         *)
(* A gateway publishes a UsageChargeEvent to a Redis stream, retrying on   *)
(* error (repository/billing_event_stream.go).  The billing processes read *)
(* the stream as one consumer group: several readLoop threads take new     *)
(* entries, one pendingRecoveryLoop thread per process claims entries that *)
(* stayed unacknowledged too long (repository/billing_event_consumer.go).  *)
(* Each entry is applied to PostgreSQL in one transaction that claims the  *)
(* request in usage_billing_dedup, debits it and writes the ledger and the *)
(* usage log (repository/usage_billing_repo.go), then projected to the     *)
(* billing cache (service/billing_consumer_service.go) and acknowledged.   *)
(* A cleanup job moves old claims to usage_billing_dedup_archive, another  *)
(* deletes usage logs and leaves tombstones.                               *)
(*                                                                         *)
(* Stream entries are numbered 1, 2, ... in the order Redis stores them.   *)
(* Redis and PostgreSQL (READ COMMITTED) are external: the model keeps     *)
(* what the code relies on.  A call that reports an error may or may not   *)
(* have taken effect.                                                      *)
(***************************************************************************)
EXTENDS Integers, Sequences, FiniteSets

CONSTANTS
  Events,         \* the events gateways publish
  Keys,           \* billing keys: (request_id, api_key_id)
  Accounts,       \* upstream accounts
  Prints,         \* request fingerprints
  KeyOf,          \* the key of each event
  KindOf,         \* its kind, see Kinds
  AccountOf,      \* the account it names
  PrintOf,        \* its fingerprint
  HasLog,         \* whether it carries a usage log
  Readers,        \* readLoop threads
  Recoverers,     \* pendingRecoveryLoop threads
  Procs,          \* billing processes
  ProcOf,         \* the process of each thread
  PublishRetries, \* billing.stream.publish_retries
  MaxLen,         \* billing.stream.max_len; 0 never trims the stream
  BatchSize,      \* billing.stream.batch_size
  MaxRetryCount,  \* billing.stream.max_retry_count
  MaxStops,       \* bound: how many times processes stop or crash
  NoPrint         \* no row

Threads == Readers \cup Recoverers
Entries == 1 .. (Cardinality(Events) * PublishRetries)

\* The kinds that debit, the kinds that only leave a ledger row, an event
\* without a command, and an entry that cannot be decoded.
Charging == {"charge", "finalize"}
Tracking == {"reserve", "release"}
Kinds == Charging \cup Tracking \cup {"empty", "malformed"}

ASSUME ConstantsAssumption ==
  /\ IsFiniteSet(Events)
  /\ KeyOf \in [Events -> Keys]
  /\ KindOf \in [Events -> Kinds]
  /\ AccountOf \in [Events -> Accounts]
  /\ PrintOf \in [Events -> Prints]
  /\ HasLog \in [Events -> BOOLEAN]
  /\ NoPrint \notin Prints
  /\ Readers \cap Recoverers = {}
  /\ ProcOf \in [Threads -> Procs]
  /\ PublishRetries \in Nat \ {0}
  /\ BatchSize \in Nat \ {0}
  /\ MaxRetryCount \in Nat \ {0}
  /\ MaxLen \in Nat
  /\ MaxStops \in Nat

VARIABLES
  attempts,   \* attempts[e]: XADD calls the running Publish(e) has made
  publishing, \* publishing[e]: "trying", or what Publish(e) returned
  stream,     \* the events appended, in order
  cursor,     \* the group's last delivered entry
  pel,        \* the group's pending entries list
  idle,       \* pending entries not delivered for pendingRecover
  count,      \* count[i]: XPENDING's delivery count, cut off at MaxRetryCount
  acked,      \* entries acknowledged
  dlq,        \* entries copied to the dead letter stream
  dlqLost,    \* entries whose copy failed
  up,         \* up[p]: "running", "stopping" or "stopped"
  stops,      \* stops and crashes so far
  pc,         \* pc[t]: what thread t does next
  todo,       \* todo[t]: the entries of t's batch it has not finished
  cur,        \* cur[t]: the one it is working on, 0 between entries
  retry,      \* retry[t][i]: the retry count t uses for entry i
  from,       \* from[t]: where recovery thread t's next page starts
  early,      \* transactions begun before their key was claimed
  applied,    \* applied[t]: result.Applied
  tombed,     \* tombed[t]: what usageLogTombstoned answered
  dedup,      \* dedup[k]: the fingerprint in usage_billing_dedup
  archive,    \* archive[k]: the one in usage_billing_dedup_archive
  charges,    \* charges[k]: times the effects of k were committed
  ledger,     \* rows of billing_usage_ledger
  logs,       \* keys with a row in usage_logs
  tombstones, \* keys with a row in usage_log_tombstones
  deltas,     \* deltas[k]: additive updates queued for the billing cache
  repaired    \* keys whose cached values the consumer asked to invalidate

pubVars    == <<attempts, publishing, stream>>
groupVars  == <<cursor, pel, idle, count, acked, dlq, dlqLost>>
procVars   == <<up, stops>>
threadVars == <<pc, todo, cur, retry, from, early, applied, tombed>>
claimVars  == <<dedup, archive>>
dbVars     == <<charges, ledger, logs, tombstones>>
cacheVars  == <<deltas, repaired>>
vars == <<pubVars, groupVars, procVars, threadVars, claimVars, dbVars,
          cacheVars>>

TxPcs == {"dedup", "archive", "insert", "recheck", "log", "commit"}
Pcs == TxPcs \cup {"idle", "claim", "next", "project", "dlq", "ack"}

\* The first n of a set of entries, in stream order.
First(n, S) == {i \in S : Cardinality({j \in S : j < i}) < n}
IsLeast(i, S) == i \in S /\ \A j \in S : i <= j
IsGreatest(i, S) == i \in S /\ \A j \in S : j <= i

\* The entries the stream has stored so far.
Stored == 1 .. Len(stream)

\* Entries that MAXLEN has not trimmed away.
Live == {i \in Stored : MaxLen = 0 \/ i > Len(stream) - MaxLen}

Running(t) == up[ProcOf[t]] = "running"
CurEvent(t) == stream[cur[t]]
CurKey(t) == KeyOf[CurEvent(t)]
CurPrint(t) == PrintOf[CurEvent(t)]

\* The fingerprint a request was claimed with, in whichever table it is.
Claim(k) == IF dedup[k] # NoPrint THEN dedup[k] ELSE archive[k]
Claimed(k) == Claim(k) # NoPrint

\* The unique index a ledger row falls under.
LedgerRow(e) ==
  <<KeyOf[e], KindOf[e],
    IF KindOf[e] \in Tracking THEN {AccountOf[e]} ELSE {}>>

\* t holds an uncommitted row of usage_billing_dedup for k.
Holds(t, k) ==
  pc[t] \in {"log", "commit"} /\ applied[t] /\ CurKey(t) = k

PublisherTypeOK ==
  /\ attempts \in [Events -> 0 .. (PublishRetries - 1)]
  /\ publishing \in [Events -> {"trying", "ok", "failed"}]
  /\ stream \in Seq(Events)

GroupTypeOK ==
  /\ cursor \in Nat
  /\ pel \subseteq Stored
  /\ idle \subseteq pel
  /\ count \in [Entries -> 0 .. MaxRetryCount]
  /\ acked \subseteq Stored
  /\ dlq \subseteq Stored
  /\ dlqLost \subseteq Stored

ThreadTypeOK ==
  /\ up \in [Procs -> {"running", "stopping", "stopped"}]
  /\ stops \in 0 .. MaxStops
  /\ pc \in [Threads -> Pcs]
  /\ todo \in [Threads -> SUBSET Stored]
  /\ cur \in [Threads -> Nat]
  /\ retry \in [Threads -> [Entries -> 0 .. MaxRetryCount]]
  /\ from \in [Threads -> Nat]
  /\ early \subseteq Threads
  /\ applied \in [Threads -> BOOLEAN]
  /\ tombed \in [Threads -> BOOLEAN]

DatabaseTypeOK ==
  /\ dedup \in [Keys -> Prints \cup {NoPrint}]
  /\ archive \in [Keys -> Prints \cup {NoPrint}]
  /\ charges \in [Keys -> Nat]
  /\ ledger \subseteq Keys \X Kinds \X SUBSET Accounts
  /\ logs \subseteq Keys
  /\ tombstones \subseteq Keys
  /\ deltas \in [Keys -> Nat]
  /\ repaired \subseteq Keys

\* The values each variable takes; no Publish makes more attempts than
\* publish_retries, and the group's bookkeeping only names stored entries.
TypeOK ==
  PublisherTypeOK /\ GroupTypeOK /\ ThreadTypeOK /\ DatabaseTypeOK

Init ==
  /\ attempts = [e \in Events |-> 0]
  /\ publishing = [e \in Events |-> "trying"]
  /\ stream = <<>>
  /\ cursor = 0
  /\ pel = {} /\ idle = {} /\ acked = {} /\ dlq = {} /\ dlqLost = {}
  /\ count = [i \in Entries |-> 0]
  /\ up = [p \in Procs |-> "running"]
  /\ stops = 0
  /\ pc = [t \in Threads |-> "idle"]
  /\ todo = [t \in Threads |-> {}]
  /\ cur = [t \in Threads |-> 0]
  /\ retry = [t \in Threads |-> [i \in Entries |-> 0]]
  /\ from = [t \in Threads |-> 1]
  /\ early = {}
  /\ applied = [t \in Threads |-> FALSE]
  /\ tombed = [t \in Threads |-> FALSE]
  /\ dedup = [k \in Keys |-> NoPrint]
  /\ archive = [k \in Keys |-> NoPrint]
  /\ charges = [k \in Keys |-> 0]
  /\ ledger = {} /\ logs = {} /\ tombstones = {}
  /\ deltas = [k \in Keys |-> 0]
  /\ repaired = {}

-----------------------------------------------------------------------------
(* The publisher *)

\* An XADD that answers.
PublishOk(e) ==
  /\ publishing[e] = "trying"
  /\ attempts' = [attempts EXCEPT ![e] = 0]
  /\ publishing' = [publishing EXCEPT ![e] = "ok"]
  /\ stream' = Append(stream, e)
  /\ UNCHANGED <<groupVars, procVars, threadVars, claimVars, dbVars,
                 cacheVars>>

\* Mutant: one attempt too many (attempt <= retries).
LastAttemptLate(e) == attempts[e] = PublishRetries

LastAttempt(e) == attempts[e] + 1 = PublishRetries

\* An XADD that reports an error, whether or not Redis stored the entry.  The
\* last attempt's error is returned.
PublishError(e) ==
  /\ publishing[e] = "trying"
  /\ \/ /\ LastAttempt(e)
        /\ attempts' = [attempts EXCEPT ![e] = 0]
        /\ publishing' = [publishing EXCEPT ![e] = "failed"]
     \/ /\ ~LastAttempt(e)
        /\ attempts' = [attempts EXCEPT ![e] = @ + 1]
        /\ publishing' = publishing
  /\ \/ stream' = Append(stream, e)
     \/ stream' = stream
  /\ UNCHANGED <<groupVars, procVars, threadVars, claimVars, dbVars,
                 cacheVars>>

\* The caller's context ends, before or between attempts.
PublishCancel(e) ==
  /\ publishing[e] = "trying"
  /\ attempts' = [attempts EXCEPT ![e] = 0]
  /\ publishing' = [publishing EXCEPT ![e] = "failed"]
  /\ UNCHANGED <<stream, groupVars, procVars, threadVars, claimVars, dbVars,
                 cacheVars>>

-----------------------------------------------------------------------------
(* Taking entries from the consumer group *)

\* XREADGROUP ">": new entries become pending, delivered once.  When the reply
\* is lost the thread reads on and the entries stay pending.
ReadNew(t) ==
  LET batch == First(BatchSize, {i \in Live : i > cursor}) IN
  /\ pc[t] = "idle" /\ Running(t) /\ batch # {}
  /\ \E last \in batch : IsGreatest(last, batch) /\ cursor' = last
  /\ pel' = pel \cup batch
  /\ count' = [i \in Entries |-> IF i \in batch THEN 1 ELSE count[i]]
  /\ \/ /\ todo' = [todo EXCEPT ![t] = batch]
        /\ retry' = [retry EXCEPT ![t] = [i \in Entries |-> 0]]
        /\ pc' = [pc EXCEPT ![t] = "next"]
     \/ UNCHANGED <<todo, retry, pc>>
  /\ UNCHANGED <<pubVars, idle, acked, dlq, dlqLost, procVars, cur, from, early,
                 applied, tombed, claimVars, dbVars, cacheVars>>

\* Time: a pending entry has not been delivered for pendingRecover.
GoIdle(i) ==
  /\ i \in pel \ idle
  /\ idle' = idle \cup {i}
  /\ UNCHANGED <<pubVars, cursor, pel, count, acked, dlq, dlqLost, procVars,
                 threadVars, claimVars, dbVars, cacheVars>>

\* XPENDING: recovery reads one page of idle entries with their delivery
\* counts.
ListPending(t) ==
  LET page == First(BatchSize, {i \in idle : i >= from[t]}) IN
  /\ pc[t] = "idle" /\ Running(t) /\ page # {}
  /\ todo' = [todo EXCEPT ![t] = page]
  /\ retry' = [retry EXCEPT ![t] =
                 [i \in Entries |-> IF i \in page THEN count[i] ELSE 0]]
  /\ \E last \in page : /\ IsGreatest(last, page)
                        /\ from' = [from EXCEPT ![t] = last + 1]
  /\ pc' = [pc EXCEPT ![t] = "claim"]
  /\ UNCHANGED <<pubVars, groupVars, procVars, cur, early, applied, tombed,
                 claimVars, dbVars, cacheVars>>

\* Mutant: the next tick goes on where the last scan ended.
EndScanKeepsPlace(t) ==
  pc[t] = "idle" /\ from[t] # 1 /\ UNCHANGED vars

\* The scan ends, at an empty page or an error, until the next tick.
EndScan(t) ==
  /\ pc[t] = "idle" /\ from[t] # 1
  /\ from' = [from EXCEPT ![t] = 1]
  /\ UNCHANGED <<pubVars, groupVars, procVars, pc, todo, cur, retry, early,
                 applied, tombed, claimVars, dbVars, cacheVars>>

DropPage(t) ==
  /\ todo' = [todo EXCEPT ![t] = {}]
  /\ retry' = [retry EXCEPT ![t] = [i \in Entries |-> 0]]
  /\ from' = [from EXCEPT ![t] = 1]
  /\ pc' = [pc EXCEPT ![t] = "idle"]

\* XCLAIM with MinIdle: of the page, what is still pending and idle is ours
\* now and one delivery older; what has been trimmed leaves the group.  A lost
\* reply or an error ends the scan.
ClaimPending(t) ==
  LET due == todo[t] \cap idle
      got == due \cap Live IN
  /\ pc[t] = "claim" /\ Running(t)
  /\ idle' = idle \ due
  /\ pel' = pel \ (due \ Live)
  /\ count' = [i \in Entries |->
                 IF i \in got /\ count[i] < MaxRetryCount
                 THEN count[i] + 1 ELSE count[i]]
  /\ \/ /\ todo' = [todo EXCEPT ![t] = got]
        /\ pc' = [pc EXCEPT ![t] = "next"]
        /\ retry' = [retry EXCEPT ![t] =
                       [i \in Entries |-> IF i \in got THEN @[i] ELSE 0]]
        /\ from' = from
     \/ DropPage(t)
  /\ UNCHANGED <<pubVars, cursor, acked, dlq, dlqLost, procVars, cur, early,
                 applied, tombed, claimVars, dbVars, cacheVars>>

\* The XCLAIM that never reached Redis.
ClaimFails(t) ==
  /\ pc[t] = "claim"
  /\ DropPage(t)
  /\ UNCHANGED <<pubVars, groupVars, procVars, cur, early, applied, tombed,
                 claimVars, dbVars, cacheVars>>

-----------------------------------------------------------------------------
(* processMessage *)

\* t is done with its current entry; the rest of its batch follows.
Finish(t) ==
  /\ todo' = [todo EXCEPT ![t] = @ \ {cur[t]}]
  /\ pc' = [pc EXCEPT ![t] = IF todo[t] = {cur[t]} THEN "idle" ELSE "next"]
  /\ cur' = [cur EXCEPT ![t] = 0]
  /\ retry' = [retry EXCEPT ![t][cur[t]] = 0]
  /\ early' = early \ {t}
  /\ applied' = [applied EXCEPT ![t] = FALSE]
  /\ tombed' = [tombed EXCEPT ![t] = FALSE]

\* An XCLAIM that got nothing.
EmptyBatch(t) ==
  /\ pc[t] = "next" /\ todo[t] = {}
  /\ pc' = [pc EXCEPT ![t] = "idle"]
  /\ UNCHANGED <<pubVars, groupVars, procVars, todo, cur, retry, from, early,
                 applied, tombed, claimVars, dbVars, cacheVars>>

\* Mutant: one handler call too many.
ExhaustedLate(t, i) == retry[t][i] > MaxRetryCount

\* The retry count is checked before the handler runs.
Exhausted(t, i) == retry[t][i] >= MaxRetryCount

\* Decode the entry and choose: dead letter, nothing to do, or the handler,
\* which begins the transaction.
Dispatch(t) ==
  \E i \in todo[t] :
    LET kind == KindOf[stream[i]]
        run == kind \in Charging \cup Tracking /\ ~Exhausted(t, i) IN
    /\ pc[t] = "next" /\ IsLeast(i, todo[t])
    /\ cur' = [cur EXCEPT ![t] = i]
    /\ pc' = [pc EXCEPT ![t] =
                CASE kind = "malformed" \/ Exhausted(t, i) -> "dlq"
                  [] kind = "empty" /\ ~Exhausted(t, i)    -> "ack"
                  [] kind \in Tracking /\ ~Exhausted(t, i) -> "commit"
                  [] OTHER                                 -> "dedup"]
    /\ early' = IF run /\ ~Claimed(KeyOf[stream[i]])
                THEN early \cup {t} ELSE early
    /\ UNCHANGED <<pubVars, groupVars, procVars, todo, retry, from, applied,
                   tombed, claimVars, dbVars, cacheVars>>

\* Once the claim is decided: the usage log, for events that carry one.
AfterClaim(t) == IF HasLog[CurEvent(t)] THEN "log" ELSE "commit"

\* Mutant: any row of the request counts as the same charge.
MatchAnyPrint(t, row, next) ==
  /\ pc' = [pc EXCEPT ![t] = IF row = NoPrint THEN next ELSE AfterClaim(t)]
  /\ UNCHANGED <<todo, cur, retry, early, applied, tombed>>

\* matchExistingUsageBillingFingerprint, on the row found in a table: no row
\* goes on to the next step, the same fingerprint means already billed, any
\* other is ErrUsageBillingRequestConflict.
Match(t, row, next) ==
  \/ /\ row = NoPrint
     /\ pc' = [pc EXCEPT ![t] = next]
     /\ UNCHANGED <<todo, cur, retry, early, applied, tombed>>
  \/ /\ row = CurPrint(t)
     /\ pc' = [pc EXCEPT ![t] = AfterClaim(t)]
     /\ UNCHANGED <<todo, cur, retry, early, applied, tombed>>
  \/ /\ row # NoPrint /\ row # CurPrint(t)
     /\ Finish(t)

\* Mutant: the archive is not looked up.
MatchDedupOnly(t) ==
  /\ pc[t] = "dedup" /\ Running(t)
  /\ Match(t, dedup[CurKey(t)], "insert")
  /\ UNCHANGED <<pubVars, groupVars, procVars, from, claimVars, dbVars,
                 cacheVars>>

MatchDedup(t) ==
  /\ pc[t] = "dedup" /\ Running(t)
  /\ Match(t, dedup[CurKey(t)], "archive")
  /\ UNCHANGED <<pubVars, groupVars, procVars, from, claimVars, dbVars,
                 cacheVars>>

MatchArchive(t) ==
  /\ pc[t] = "archive" /\ Running(t)
  /\ Match(t, archive[CurKey(t)], "insert")
  /\ UNCHANGED <<pubVars, groupVars, procVars, from, claimVars, dbVars,
                 cacheVars>>

\* Mutant: an insert that does not wait for a concurrent claim of the key.
InsertClaimNoWait(t) ==
  /\ pc[t] = "insert" /\ Running(t)
  /\ \/ /\ dedup[CurKey(t)] = NoPrint
        /\ applied' = [applied EXCEPT ![t] = TRUE]
        /\ pc' = [pc EXCEPT ![t] = AfterClaim(t)]
     \/ /\ dedup[CurKey(t)] # NoPrint
        /\ pc' = [pc EXCEPT ![t] = "recheck"]
        /\ applied' = applied
  /\ UNCHANGED <<pubVars, groupVars, procVars, todo, cur, retry, from, early,
                 tombed, claimVars, dbVars, cacheVars>>

\* INSERT ... ON CONFLICT DO NOTHING waits for a transaction that holds an
\* uncommitted row of the same key, then inserts or finds the row.
InsertClaim(t) ==
  /\ pc[t] = "insert" /\ Running(t)
  /\ \A u \in Threads : ~Holds(u, CurKey(t))
  /\ \/ /\ dedup[CurKey(t)] = NoPrint
        /\ applied' = [applied EXCEPT ![t] = TRUE]
        /\ pc' = [pc EXCEPT ![t] = AfterClaim(t)]
     \/ /\ dedup[CurKey(t)] # NoPrint
        /\ pc' = [pc EXCEPT ![t] = "recheck"]
        /\ applied' = applied
  /\ UNCHANGED <<pubVars, groupVars, procVars, todo, cur, retry, from, early,
                 tombed, claimVars, dbVars, cacheVars>>

\* The insert found a row: look it up in both tables again, in one step because
\* rows move the way the two reads go.  No row anywhere still means not applied.
Recheck(t) ==
  /\ pc[t] = "recheck" /\ Running(t)
  /\ Match(t, Claim(CurKey(t)), AfterClaim(t))
  /\ UNCHANGED <<pubVars, groupVars, procVars, from, claimVars, dbVars,
                 cacheVars>>

CheckTombstone(t) ==
  /\ pc[t] = "log" /\ Running(t)
  /\ tombed' = [tombed EXCEPT ![t] = CurKey(t) \in tombstones]
  /\ pc' = [pc EXCEPT ![t] = "commit"]
  /\ UNCHANGED <<pubVars, groupVars, procVars, todo, cur, retry, from, early,
                 applied, claimVars, dbVars, cacheVars>>

\* The effects of a charge, which are one here: the updates of the subscription, the
\* balance, the quotas and the rate limit share the transaction.
Debited(k) == [charges EXCEPT ![k] = @ + 1]

\* The commit publishes the claim, the ledger row, the effects and the log at
\* once.  When its answer is lost the handler reports an error.
CommitTx(t) ==
  LET e == CurEvent(t)
      k == CurKey(t) IN
  /\ pc[t] = "commit" /\ Running(t)
  /\ dedup' = IF applied[t] THEN [dedup EXCEPT ![k] = PrintOf[e]] ELSE dedup
  /\ charges' = IF applied[t] THEN Debited(k) ELSE charges
  /\ ledger' = ledger \cup {LedgerRow(e)}
  /\ logs' = IF KindOf[e] \in Charging /\ HasLog[e] /\ ~tombed[t]
             THEN logs \cup {k} ELSE logs
  /\ \/ /\ pc' = [pc EXCEPT ![t] = "project"]
        /\ early' = early \ {t}
        /\ UNCHANGED <<todo, cur, retry, applied, tombed>>
     \/ Finish(t)
  /\ UNCHANGED <<pubVars, groupVars, procVars, from, archive,
                 tombstones, cacheVars>>

\* Mutant: the ledger row is written outside the transaction.
AbortTxKeepsLedger(t) ==
  /\ pc[t] \in TxPcs
  /\ ledger' = ledger \cup {LedgerRow(CurEvent(t))}
  /\ Finish(t)
  /\ UNCHANGED <<pubVars, groupVars, procVars, from, claimVars, charges, logs,
                 tombstones, cacheVars>>

\* Mutant: an entry is acknowledged although its handler failed.
AbortTxAcks(t) ==
  /\ pc[t] \in TxPcs
  /\ pel' = pel \ {cur[t]}
  /\ idle' = idle \ {cur[t]}
  /\ acked' = acked \cup {cur[t]}
  /\ Finish(t)
  /\ UNCHANGED <<pubVars, cursor, count, dlq, dlqLost, procVars, from,
                 claimVars, dbVars, cacheVars>>

\* A statement fails: a lost connection, an ended context, or a missing user,
\* subscription, key or account.  The transaction rolls back and the entry
\* stays pending.
AbortTx(t) ==
  /\ pc[t] \in TxPcs
  /\ Finish(t)
  /\ UNCHANGED <<pubVars, groupVars, procVars, from, claimVars, dbVars,
                 cacheVars>>

\* Mutant: every delivery adds its delta again.
ProjectEveryDelivery(t) ==
  /\ pc[t] = "project"
  /\ deltas' = [deltas EXCEPT ![CurKey(t)] = @ + 1]
  /\ pc' = [pc EXCEPT ![t] = "ack"]
  /\ UNCHANGED <<pubVars, groupVars, procVars, todo, cur, retry, from, early,
                 applied, tombed, claimVars, dbVars, repaired>>

\* Mutant: a replay leaves the cache alone.
ProjectAppliedOnly(t) ==
  /\ pc[t] = "project"
  /\ deltas' = IF applied[t] THEN [deltas EXCEPT ![CurKey(t)] = @ + 1] ELSE deltas
  /\ pc' = [pc EXCEPT ![t] = "ack"]
  /\ UNCHANGED <<pubVars, groupVars, procVars, todo, cur, retry, from, early,
                 applied, tombed, claimVars, dbVars, repaired>>

\* After the commit: an additive cache update when this delivery was the one
\* that billed, an invalidation otherwise (its failure is only logged).
Project(t) ==
  LET k == CurKey(t) IN
  /\ pc[t] = "project"
  /\ IF applied[t]
     THEN deltas' = [deltas EXCEPT ![k] = @ + 1] /\ repaired' = repaired
     ELSE repaired' = repaired \cup {k} /\ deltas' = deltas
  /\ pc' = [pc EXCEPT ![t] = "ack"]
  /\ UNCHANGED <<pubVars, groupVars, procVars, todo, cur, retry, from, early,
                 applied, tombed, claimVars, dbVars>>

\* deadLetterMessage only logs a failure; the entry is acknowledged anyway.
DeadLetter(t) ==
  /\ pc[t] = "dlq"
  /\ \/ Running(t) /\ dlq' = dlq \cup {cur[t]} /\ dlqLost' = dlqLost
     \/ dlqLost' = dlqLost \cup {cur[t]} /\ dlq' = dlq
  /\ pc' = [pc EXCEPT ![t] = "ack"]
  /\ UNCHANGED <<pubVars, cursor, pel, idle, count, acked, procVars, todo, cur,
                 retry, from, early, applied, tombed, claimVars, dbVars,
                 cacheVars>>

\* XACK removes the entry from the group whoever holds it now.
Ack(t) ==
  /\ pc[t] = "ack" /\ Running(t)
  /\ pel' = pel \ {cur[t]}
  /\ idle' = idle \ {cur[t]}
  /\ acked' = acked \cup {cur[t]}
  /\ Finish(t)
  /\ UNCHANGED <<pubVars, cursor, count, dlq, dlqLost, procVars, from,
                 claimVars, dbVars, cacheVars>>

\* A failed XACK is logged; the entry stays pending.
AckFails(t) ==
  /\ pc[t] = "ack"
  /\ Finish(t)
  /\ UNCHANGED <<pubVars, groupVars, procVars, from, claimVars, dbVars,
                 cacheVars>>

-----------------------------------------------------------------------------
(* Processes *)

\* Stop cancels the context the threads pass to Redis and PostgreSQL.
Stop(p) ==
  /\ up[p] = "running" /\ stops < MaxStops
  /\ up' = [up EXCEPT ![p] = "stopping"]
  /\ stops' = stops + 1
  /\ UNCHANGED <<pubVars, groupVars, threadVars, claimVars, dbVars, cacheVars>>

\* Its threads leave their loops and Stop returns.
Stopped(p) ==
  /\ up[p] = "stopping"
  /\ \A t \in Threads : ProcOf[t] = p => pc[t] = "idle"
  /\ up' = [up EXCEPT ![p] = "stopped"]
  /\ UNCHANGED <<pubVars, groupVars, stops, threadVars, claimVars, dbVars,
                 cacheVars>>

\* The process dies and PostgreSQL rolls its transactions back.
Crash(p) ==
  /\ up[p] # "stopped" /\ stops < MaxStops
  /\ up' = [up EXCEPT ![p] = "stopped"]
  /\ stops' = stops + 1
  /\ pc' = [t \in Threads |-> IF ProcOf[t] = p THEN "idle" ELSE pc[t]]
  /\ todo' = [t \in Threads |-> IF ProcOf[t] = p THEN {} ELSE todo[t]]
  /\ cur' = [t \in Threads |-> IF ProcOf[t] = p THEN 0 ELSE cur[t]]
  /\ retry' = [t \in Threads |->
                 IF ProcOf[t] = p THEN [i \in Entries |-> 0] ELSE retry[t]]
  /\ from' = [t \in Threads |-> IF ProcOf[t] = p THEN 1 ELSE from[t]]
  /\ early' = {t \in early : ProcOf[t] # p}
  /\ applied' = [t \in Threads |-> ProcOf[t] # p /\ applied[t]]
  /\ tombed' = [t \in Threads |-> ProcOf[t] # p /\ tombed[t]]
  /\ UNCHANGED <<pubVars, groupVars, claimVars, dbVars, cacheVars>>

Start(p) ==
  /\ up[p] = "stopped"
  /\ up' = [up EXCEPT ![p] = "running"]
  /\ UNCHANGED <<pubVars, groupVars, stops, threadVars, claimVars, dbVars,
                 cacheVars>>

-----------------------------------------------------------------------------
(* Cleanup jobs *)

\* Mutant: old claims are deleted, not moved.
DeleteClaim(k) ==
  /\ dedup[k] # NoPrint
  /\ \A t \in early : CurKey(t) # k
  /\ dedup' = [dedup EXCEPT ![k] = NoPrint]
  /\ UNCHANGED <<pubVars, groupVars, procVars, threadVars, archive, dbVars,
                 cacheVars>>

\* CleanupUsageBillingDedup moves a claim older than the retention.  Retention
\* is at least a day, so every transaction begun before the claim has ended.
ArchiveClaim(k) ==
  /\ dedup[k] # NoPrint
  /\ \A t \in early : CurKey(t) # k
  /\ archive' = [archive EXCEPT ![k] = dedup[k]]
  /\ dedup' = [dedup EXCEPT ![k] = NoPrint]
  /\ UNCHANGED <<pubVars, groupVars, procVars, threadVars, dbVars, cacheVars>>

\* deleteUsageLogsWithTombstones, one statement.
DeleteLog(k) ==
  /\ k \in logs
  /\ logs' = logs \ {k}
  /\ tombstones' = tombstones \cup {k}
  /\ UNCHANGED <<pubVars, groupVars, procVars, threadVars, claimVars, charges,
                 ledger, cacheVars>>

-----------------------------------------------------------------------------
Publisher(e) == PublishOk(e) \/ PublishError(e) \/ PublishCancel(e)

Handle(t) ==
  \/ EmptyBatch(t) \/ Dispatch(t) \/ MatchDedup(t) \/ MatchArchive(t)
  \/ InsertClaim(t) \/ Recheck(t) \/ CheckTombstone(t) \/ CommitTx(t) \/ AbortTx(t)
  \/ Project(t) \/ DeadLetter(t) \/ Ack(t) \/ AckFails(t)

Recover(t) ==
  ListPending(t) \/ EndScan(t) \/ ClaimPending(t) \/ ClaimFails(t)

Process(p) == Stop(p) \/ Stopped(p) \/ Crash(p) \/ Start(p)

Next ==
  \/ \E e \in Events : Publisher(e)
  \/ \E t \in Readers : ReadNew(t)
  \/ \E t \in Recoverers : Recover(t)
  \/ \E t \in Threads : Handle(t)
  \/ \E i \in pel : GoIdle(i)
  \/ \E p \in Procs : Process(p)
  \/ \E k \in Keys : ArchiveClaim(k) \/ DeleteLog(k)

Spec == Init /\ [][Next]_vars
-----------------------------------------------------------------------------
(* Properties *)

\* A settled event has left its mark in the database: its claim with its
\* fingerprint, or its ledger row.
Settled(e) ==
  CASE KindOf[e] \in Charging -> Claim(KeyOf[e]) = PrintOf[e]
    [] KindOf[e] \in Tracking -> LedgerRow(e) \in ledger
    [] OTHER -> TRUE

\* A request is debited at most once, and exactly when its claim is on record:
\* whatever publish retries, redeliveries, crashes, unknown commits and the
\* move of the claim to the archive do (claimUsageBillingKey).
ChargedOnce == \A k \in Keys : charges[k] = (IF Claimed(k) THEN 1 ELSE 0)

\* The ledger has a charge or finalize row for exactly the debited requests
\* (persistBillingLedger shares the transaction with the effects).
LedgerMatchesCharges ==
  \A k \in Keys :
    (charges[k] > 0) <=> \E row \in ledger : row[1] = k /\ row[2] \in Charging

\* processMessage acknowledges an entry only when the event is settled, or the
\* entry went to the dead letter stream, or that last copy failed.
AckedIsAccountedFor ==
  \A i \in acked : \/ i \in dlq \cup dlqLost
                   \/ Settled(stream[i])

\* The additive cache update is queued at most once per debit, however often
\* the entry is delivered (handleEvent).
DeltaAtMostOnce == \A k \in Keys : deltas[k] <= charges[k]

\* When a charge was acknowledged by the handler's success, the billing cache
\* was told: an update or an invalidation (handleEvent's two branches).
AckedIsProjected ==
  \A i \in acked :
    LET k == KeyOf[stream[i]] IN
    (KindOf[stream[i]] \in Charging /\ i \notin dlq \cup dlqLost)
      => deltas[k] > 0 \/ k \in repaired

\* A claim never disappears or changes its fingerprint, in whichever of the two
\* tables it is kept.
ClaimsArePermanent ==
  [][\A k \in Keys : Claimed(k) => Claimed(k)' /\ Claim(k)' = Claim(k)]_vars

\* A usage log that was deleted is not written again by a replay
\* (usageLogTombstoned).
TombstonedStaysDeleted == logs \cap tombstones = {}

\* After Stop, a thread lets go of an entry it had taken only when the entry is
\* acknowledged: in-flight events are drained, not dropped.
StopDrainsInFlight ==
  [][\A t \in Threads :
       up[ProcOf[t]] = "stopping" /\ up'[ProcOf[t]] = "stopping" /\ pc[t] # "claim"
         => todo[t] \ todo'[t] \subseteq acked']_vars

\* What the pipeline promises, and the states of it that this specification
\* stands for.
Contract == INSTANCE UsageCharging WITH
  Chargeable <- {e \in Events : KindOf[e] \in Charging},
  accepted   <- {stream[i] : i \in Stored},
  billed     <- [k \in Keys |-> Claim(k)],
  debits     <- charges,
  givenUp    <- {stream[i] : i \in dlq \cup dlqLost},
  closed     <- {stream[i] : i \in acked}

\* The pipeline implements UsageCharging: every step of every thread, crash or
\* cleanup job is one of its steps or leaves its state alone.
ImplementsContract == Contract!Spec

-----------------------------------------------------------------------------
(* Fairness: threads run, processes are restarted, time passes, and a call    *)
(* made again and again is answered in the end.                               *)
Fairness ==
  /\ \A t \in Readers : WF_vars(ReadNew(t))
  /\ \A t \in Recoverers :
       /\ WF_vars(ListPending(t)) /\ WF_vars(EndScan(t))
       /\ WF_vars(ClaimPending(t) \/ ClaimFails(t))
       /\ \A i \in Entries : SF_vars(ClaimPending(t) /\ i \in todo'[t])
  /\ \A t \in Threads :
       /\ WF_vars(Handle(t))
       /\ \A i \in Entries : SF_vars(Ack(t) /\ i \in acked' \ acked)
  /\ \A i \in Entries : WF_vars(GoIdle(i))
  /\ \A p \in Procs : WF_vars(Stopped(p)) /\ WF_vars(Start(p))

FairSpec == Spec /\ Fairness

\* Every entry in the stream is acknowledged in the end: read, retried by
\* recovery, or dead-lettered (readLoop, recoverPending, processMessage).
EntriesGetAcked ==
  \A i \in Entries : i \in Stored ~> i \in acked

=============================================================================

--------------------------- MODULE IdempotencyProofs ---------------------------
(***************************************************************************)
(* Proofs about Idempotency, for any number of callers and any times.      *)
(***************************************************************************)
EXTENDS Idempotency, TLAPS

\* Row ids are never reused.
Ids ==
  /\ Stored => table.id <= lastId
  /\ \A c \in Callers : rid[c] <= lastId

\* A caller that holds a row's id sent the request the row is about.
SamePrint ==
  \A c \in Callers :
    /\ pc[c] \in {"reclaim_expired", "reclaim"} \/ c \in Running
    /\ Stored /\ table.id = rid[c]
    => table.print = print[c]

\* The operation of a caller has taken effect exactly when it is past it.
Effect ==
  \A c \in Callers :
    /\ pc[c] = "mark_succeeded" => c \in done
    /\ c \in done => pc[c] \in {"mark_succeeded", "end"}
    /\ answer[c] = "replayed" => pc[c] = "end"

\* A stored success is the response of an operation that took effect.
Body ==
  Stored /\ table.status = "succeeded" =>
    /\ table.body \in done
    /\ print[table.body] = table.print
    /\ table.whole = fits[table.body]

\* No caller's clock is ahead, and a row expires a TTL after some caller began.
Expiry ==
  /\ \A c \in Callers : start[c] <= now
  /\ Stored => \E c \in Callers : pc[c] # "new" /\ table.expiresAt = start[c] + TTL

\* Within a TTL one claim at most is alive or has succeeded ...
Alone ==
  /\ \A a \in Running, b \in Running \cup done : a = b
  /\ \A a, b \in done : a = b

\* ... the status of the row tells which ...
StatusTells ==
  /\ ~Stored \/ table.status = "failed_retryable" => Running = {} /\ done = {}
  /\ Stored /\ table.status = "succeeded" => Running = {}

\* ... and only a failure is reclaimed.
OnlyFailures ==
  \A c \in Callers :
    /\ pc[c] \notin {"reclaim_expired", "get_latest"}
    /\ pc[c] = "reclaim" => seen[c] = "failed_retryable"

Exclusive == Alone /\ StatusTells /\ OnlyFailures

\* The inductive invariant of what holds at any age of the record.
Anytime == TypeOK /\ Ids /\ SamePrint /\ Effect /\ Body /\ Expiry /\ ReplayIsARealAnswer

\* The inductive invariant.
IdemInv == Anytime /\ (NoneExpired => Exclusive)

-----------------------------------------------------------------------------
\* What reclaiming and failing write is a row.
LEMMA UpdatedIsRecord ==
  ASSUME NEW r \in Record, NEW s \in Statuses, NEW l \in Nat, NEW e \in Nat
  PROVE  [r EXCEPT !.status = s, !.lockedUntil = l, !.expiresAt = e] \in Record
  BY DEF Record

\* What a claim inserts is a row.
LEMMA ClaimedIsRecord ==
  ASSUME TypeOK, NEW c \in Callers
  PROVE  Claimed(c) \in Record
  <1>1. start[c] \in Nat /\ lastId + 1 \in Nat /\ print[c] \in Prints
    BY IdempotencyAssumption DEF TypeOK
  <1>2. start[c] + ProcessingTimeout \in Nat /\ start[c] + TTL \in Nat
    BY <1>1, IdempotencyAssumption
  <1>3. "processing" \in Statuses
    BY DEF Statuses
  <1> QED
    BY <1>1, <1>2, <1>3 DEF Claimed, Record

\* What a success stores is a row.
LEMMA ResponseIsRecord ==
  ASSUME TypeOK, table \in Record, NEW c \in Callers
  PROVE  StoredResponse(c) \in Record
  <1>1. start[c] + TTL \in Nat /\ fits[c] \in BOOLEAN /\ "succeeded" \in Statuses
    BY IdempotencyAssumption DEF TypeOK, Statuses
  <1> QED
    BY <1>1 DEF StoredResponse, Record

\* The time a claim or a failure locks a row until is a time.
LEMMA TimesAreNat ==
  ASSUME TypeOK, NEW c \in Callers
  PROVE  /\ start[c] + ProcessingTimeout \in Nat
         /\ start[c] + TTL \in Nat
         /\ now + FailedRetryBackoff \in Nat
         /\ {"processing", "failed_retryable"} \subseteq Statuses
  BY IdempotencyAssumption DEF TypeOK, Statuses

\* What MarkSucceeded does to the row: nothing, or c's response is stored in it.
LEMMA MarkedSucceeded ==
  ASSUME TypeOK, NEW c \in Callers, MarkSucceeded(c)
  PROVE  \/ table' = table /\ ~Ours(c)
         \/ /\ table \in Record /\ table # NoRecord /\ table.id = rid[c]
            /\ table' \in Record /\ table'.id = table.id /\ table'.print = table.print
            /\ table'.status = "succeeded" /\ table'.body = c
            /\ table'.whole = fits[c] /\ table'.expiresAt = start[c] + TTL
  <1>1. CASE ~Ours(c)
    BY <1>1 DEF MarkSucceeded
  <1>2. CASE Ours(c)
    <2>1. table \in Record /\ table # NoRecord /\ table.id = rid[c]
      BY <1>2 DEF Ours, Stored, TypeOK
    <2>2. table' = StoredResponse(c)
      BY <1>2 DEF MarkSucceeded
    <2>3. StoredResponse(c) \in Record
      BY <2>1, ResponseIsRecord
    <2>4. /\ StoredResponse(c).id = table.id /\ StoredResponse(c).print = table.print
          /\ StoredResponse(c).status = "succeeded" /\ StoredResponse(c).body = c
          /\ StoredResponse(c).whole = fits[c]
          /\ StoredResponse(c).expiresAt = start[c] + TTL
      BY <2>1 DEF StoredResponse, Record
    <2> QED
      BY <2>1, <2>2, <2>3, <2>4
  <1> QED
    BY <1>1, <1>2

\* What MarkFailedRetryable does to the row: nothing, or it may be tried again.
LEMMA MarkedFailed ==
  ASSUME TypeOK, NEW c \in Callers, MarkFailedRetryable(c)
  PROVE  \/ table' = table
         \/ /\ table \in Record /\ table # NoRecord /\ table.id = rid[c]
            /\ table' \in Record /\ table'.id = table.id /\ table'.print = table.print
            /\ table'.status = "failed_retryable" /\ table'.expiresAt = start[c] + TTL
  <1> DEFINE new == [table EXCEPT !.status = "failed_retryable",
                                  !.lockedUntil = now + FailedRetryBackoff,
                                  !.expiresAt = start[c] + TTL]
  <1>1. CASE ~Ours(c)
    BY <1>1 DEF MarkFailedRetryable
  <1>2. CASE Ours(c)
    <2>1. table \in Record /\ table # NoRecord /\ table.id = rid[c]
      BY <1>2 DEF Ours, Stored, TypeOK
    <2>2. table' = table \/ table' = new
      BY <1>2 DEF MarkFailedRetryable
    <2>3. new \in Record
      BY <2>1, UpdatedIsRecord, TimesAreNat, Zenon
    <2>4. /\ new.id = table.id /\ new.print = table.print
          /\ new.status = "failed_retryable" /\ new.expiresAt = start[c] + TTL
      BY <2>1 DEF Record
    <2> QED
      BY <2>1, <2>2, <2>3, <2>4
  <1> QED
    BY <1>1, <1>2

\* The rest of what MarkSucceeded does.
LEMMA MarkedSucceededFrame ==
  ASSUME NEW c \in Callers, MarkSucceeded(c)
  PROVE  /\ pc[c] = "mark_succeeded"
         /\ pc' = [pc EXCEPT ![c] = "end"]
         /\ UNCHANGED <<now, lastId, print, start, seen, rid, source, fits, done>>
  BY DEF MarkSucceeded, Return

\* The rest of what MarkFailedRetryable does.
LEMMA MarkedFailedFrame ==
  ASSUME NEW c \in Callers, MarkFailedRetryable(c)
  PROVE  /\ pc[c] = "mark_failed"
         /\ pc' = [pc EXCEPT ![c] = "end"]
         /\ UNCHANGED <<now, lastId, print, start, seen, rid, source, fits, done>>
  BY DEF MarkFailedRetryable, Return

\* Every step keeps the types.
LEMMA TypeStep == TypeOK /\ [Next]_vars => TypeOK'
  <1> SUFFICES ASSUME TypeOK, [Next]_vars PROVE TypeOK'
    OBVIOUS
  <1> USE IdempotencyAssumption
  <1>1. ASSUME NEW c \in Callers, Begin(c) PROVE TypeOK'
    <2>1. table' \in Record \cup {NoRecord}
      BY <1>1, TypeOK DEF Begin, GoTo, TypeOK
    <2>2. /\ now' \in Nat
          /\ lastId' \in Nat
          /\ start' \in [Callers -> Nat]
          /\ done' \subseteq Callers
          /\ print' \in [Callers -> Prints]
          /\ fits' \in [Callers -> BOOLEAN]
      BY <1>1, TypeOK DEF Begin, GoTo, TypeOK
    <2>3. pc' \in [Callers -> Pcs] /\ answer' \in [Callers -> Answers]
      BY <1>1, TypeOK DEF Begin, GoTo, TypeOK, Pcs, Answers
    <2>4. /\ seen' \in [Callers -> Statuses]
          /\ rid' \in [Callers -> Nat]
          /\ source' \in [Callers -> Callers]
      BY <1>1, TypeOK DEF Begin, GoTo, TypeOK
    <2>5. QED
      BY <2>1, <2>2, <2>3, <2>4 DEF TypeOK
  <1>2. ASSUME NEW c \in Callers, CreateProcessing(c) PROVE TypeOK'
    <2>1. table' \in Record \cup {NoRecord}
      BY <1>2, TypeOK, ClaimedIsRecord
      DEF CreateProcessing, GoTo, Return, Stored, TypeOK
    <2>2. /\ now' \in Nat
          /\ lastId' \in Nat
          /\ start' \in [Callers -> Nat]
          /\ done' \subseteq Callers
          /\ print' \in [Callers -> Prints]
          /\ fits' \in [Callers -> BOOLEAN]
      BY <1>2, TypeOK DEF CreateProcessing, Claimed, GoTo, Return, Stored, TypeOK
    <2>3. pc' \in [Callers -> Pcs] /\ answer' \in [Callers -> Answers]
      BY <1>2, TypeOK
      DEF CreateProcessing, Claimed, GoTo, Return, Stored, TypeOK, Pcs, Answers
    <2>4. /\ seen' \in [Callers -> Statuses]
          /\ rid' \in [Callers -> Nat]
          /\ source' \in [Callers -> Callers]
      BY <1>2, TypeOK DEF CreateProcessing, Claimed, GoTo, Return, Stored, TypeOK
    <2>5. QED
      BY <2>1, <2>2, <2>3, <2>4 DEF TypeOK
  <1>3. ASSUME NEW c \in Callers, GetExisting(c) PROVE TypeOK'
    <2>1. table' \in Record \cup {NoRecord}
      BY <1>3, TypeOK
      DEF GetExisting, Decide, Conflict, Refuse, Replay, WillReclaim, GoTo, Return,
          Stored, TypeOK
    <2>2. /\ now' \in Nat
          /\ lastId' \in Nat
          /\ start' \in [Callers -> Nat]
          /\ done' \subseteq Callers
          /\ print' \in [Callers -> Prints]
          /\ fits' \in [Callers -> BOOLEAN]
      BY <1>3, TypeOK
      DEF GetExisting, Decide, Conflict, Refuse, Replay, WillReclaim, GoTo, Return,
          Stored, TypeOK
    <2>3. pc' \in [Callers -> Pcs] /\ answer' \in [Callers -> Answers]
      BY <1>3, TypeOK
      DEF GetExisting, Decide, Conflict, Refuse, Replay, WillReclaim, GoTo, Return,
          Stored, TypeOK, Pcs, Answers
    <2>4. seen' \in [Callers -> Statuses]
      BY <1>3, TypeOK
      DEF GetExisting, Decide, Conflict, Refuse, Replay, WillReclaim, GoTo, Return,
          Stored, TypeOK, Record
    <2>5. rid' \in [Callers -> Nat]
      BY <1>3, TypeOK
      DEF GetExisting, Decide, Conflict, Refuse, Replay, WillReclaim, GoTo, Return,
          Stored, TypeOK, Record
    <2>6. source' \in [Callers -> Callers]
      BY <1>3, TypeOK
      DEF GetExisting, Decide, Conflict, Refuse, Replay, WillReclaim, GoTo, Return,
          Stored, TypeOK, Record
    <2>7. QED
      BY <2>1, <2>2, <2>3, <2>4, <2>5, <2>6 DEF TypeOK
  <1>4. ASSUME NEW c \in Callers, GetLatest(c) PROVE TypeOK'
    <2>1. table' \in Record \cup {NoRecord}
      BY <1>4, TypeOK
      DEF GetLatest, Decide, Conflict, Refuse, Replay, WillReclaim, GoTo, Return,
          Stored, TypeOK
    <2>2. /\ now' \in Nat
          /\ lastId' \in Nat
          /\ start' \in [Callers -> Nat]
          /\ done' \subseteq Callers
          /\ print' \in [Callers -> Prints]
          /\ fits' \in [Callers -> BOOLEAN]
      BY <1>4, TypeOK
      DEF GetLatest, Decide, Conflict, Refuse, Replay, WillReclaim, GoTo, Return,
          Stored, TypeOK
    <2>3. pc' \in [Callers -> Pcs] /\ answer' \in [Callers -> Answers]
      BY <1>4, TypeOK
      DEF GetLatest, Decide, Conflict, Refuse, Replay, WillReclaim, GoTo, Return,
          Stored, TypeOK, Pcs, Answers
    <2>4. seen' \in [Callers -> Statuses]
      BY <1>4, TypeOK
      DEF GetLatest, Decide, Conflict, Refuse, Replay, WillReclaim, GoTo, Return,
          Stored, TypeOK, Record
    <2>5. rid' \in [Callers -> Nat]
      BY <1>4, TypeOK
      DEF GetLatest, Decide, Conflict, Refuse, Replay, WillReclaim, GoTo, Return,
          Stored, TypeOK, Record
    <2>6. source' \in [Callers -> Callers]
      BY <1>4, TypeOK
      DEF GetLatest, Decide, Conflict, Refuse, Replay, WillReclaim, GoTo, Return,
          Stored, TypeOK, Record
    <2>7. QED
      BY <2>1, <2>2, <2>3, <2>4, <2>5, <2>6 DEF TypeOK
  <1>5. ASSUME NEW c \in Callers, TryReclaim(c) PROVE TypeOK'
    <2>1. table \in Record => [table EXCEPT !.status = "processing",
                                 !.lockedUntil = start[c] + ProcessingTimeout,
                                 !.expiresAt = start[c] + TTL] \in Record
      BY TypeOK, UpdatedIsRecord, TimesAreNat, Zenon
    <2>2. table' \in Record \cup {NoRecord}
      BY <1>5, <2>1, TypeOK DEF TryReclaim, CanReclaim, GoTo, Return, Stored, TypeOK
    <2>3. /\ now' \in Nat
          /\ lastId' \in Nat
          /\ start' \in [Callers -> Nat]
          /\ done' \subseteq Callers
          /\ print' \in [Callers -> Prints]
          /\ fits' \in [Callers -> BOOLEAN]
      BY <1>5, TypeOK DEF TryReclaim, CanReclaim, GoTo, Return, Stored, TypeOK
    <2>4. pc' \in [Callers -> Pcs] /\ answer' \in [Callers -> Answers]
      BY <1>5, TypeOK
      DEF TryReclaim, CanReclaim, GoTo, Return, Stored, TypeOK, Pcs, Answers
    <2>5. /\ seen' \in [Callers -> Statuses]
          /\ rid' \in [Callers -> Nat]
          /\ source' \in [Callers -> Callers]
      BY <1>5, TypeOK DEF TryReclaim, CanReclaim, GoTo, Return, Stored, TypeOK
    <2>6. QED
      BY <2>1, <2>2, <2>3, <2>4, <2>5 DEF TypeOK
  <1>6. ASSUME NEW c \in Callers, Execute(c) PROVE TypeOK'
    <2>1. table' \in Record \cup {NoRecord}
      BY <1>6, TypeOK DEF Execute, GoTo, TypeOK
    <2>2. /\ now' \in Nat
          /\ lastId' \in Nat
          /\ start' \in [Callers -> Nat]
          /\ done' \subseteq Callers
          /\ print' \in [Callers -> Prints]
          /\ fits' \in [Callers -> BOOLEAN]
      BY <1>6, TypeOK DEF Execute, GoTo, TypeOK
    <2>3. pc' \in [Callers -> Pcs] /\ answer' \in [Callers -> Answers]
      BY <1>6, TypeOK DEF Execute, GoTo, TypeOK, Pcs, Answers
    <2>4. /\ seen' \in [Callers -> Statuses]
          /\ rid' \in [Callers -> Nat]
          /\ source' \in [Callers -> Callers]
      BY <1>6, TypeOK DEF Execute, GoTo, TypeOK
    <2>5. QED
      BY <2>1, <2>2, <2>3, <2>4 DEF TypeOK
  <1>7. ASSUME NEW c \in Callers, MarkSucceeded(c) PROVE TypeOK'
    <2>1. table' \in Record \cup {NoRecord}
      BY <1>7, TypeOK, ResponseIsRecord DEF MarkSucceeded, Ours, Return, Stored, TypeOK
    <2>2. /\ now' \in Nat
          /\ lastId' \in Nat
          /\ start' \in [Callers -> Nat]
          /\ done' \subseteq Callers
          /\ print' \in [Callers -> Prints]
          /\ fits' \in [Callers -> BOOLEAN]
      BY <1>7, TypeOK DEF MarkSucceeded, StoredResponse, Ours, Return, Stored, TypeOK
    <2>3. pc' \in [Callers -> Pcs] /\ answer' \in [Callers -> Answers]
      BY <1>7, TypeOK
      DEF MarkSucceeded, StoredResponse, Ours, Return, Stored, TypeOK, Pcs, Answers
    <2>4. /\ seen' \in [Callers -> Statuses]
          /\ rid' \in [Callers -> Nat]
          /\ source' \in [Callers -> Callers]
      BY <1>7, TypeOK DEF MarkSucceeded, StoredResponse, Ours, Return, Stored, TypeOK
    <2>5. QED
      BY <2>1, <2>2, <2>3, <2>4 DEF TypeOK
  <1>8. ASSUME NEW c \in Callers, MarkFailedRetryable(c) PROVE TypeOK'
    <2>1. table \in Record => [table EXCEPT !.status = "failed_retryable",
                                 !.lockedUntil = now + FailedRetryBackoff,
                                 !.expiresAt = start[c] + TTL] \in Record
      BY TypeOK, UpdatedIsRecord, TimesAreNat, Zenon
    <2>2. table' \in Record \cup {NoRecord}
      BY <1>8, <2>1, TypeOK DEF MarkFailedRetryable, Ours, Return, Stored, TypeOK
    <2>3. /\ now' \in Nat
          /\ lastId' \in Nat
          /\ start' \in [Callers -> Nat]
          /\ done' \subseteq Callers
          /\ print' \in [Callers -> Prints]
          /\ fits' \in [Callers -> BOOLEAN]
      BY <1>8, TypeOK DEF MarkFailedRetryable, Ours, Return, Stored, TypeOK
    <2>4. pc' \in [Callers -> Pcs] /\ answer' \in [Callers -> Answers]
      BY <1>8, TypeOK
      DEF MarkFailedRetryable, Ours, Return, Stored, TypeOK, Pcs, Answers
    <2>5. /\ seen' \in [Callers -> Statuses]
          /\ rid' \in [Callers -> Nat]
          /\ source' \in [Callers -> Callers]
      BY <1>8, TypeOK DEF MarkFailedRetryable, Ours, Return, Stored, TypeOK
    <2>6. QED
      BY <2>1, <2>2, <2>3, <2>4, <2>5 DEF TypeOK
  <1>9. ASSUME NEW c \in Callers, StoreFails(c) PROVE TypeOK'
    <2>1. table' \in Record \cup {NoRecord}
      BY <1>9, TypeOK DEF StoreFails, Return, TypeOK
    <2>2. /\ now' \in Nat
          /\ lastId' \in Nat
          /\ start' \in [Callers -> Nat]
          /\ done' \subseteq Callers
          /\ print' \in [Callers -> Prints]
          /\ fits' \in [Callers -> BOOLEAN]
      BY <1>9, TypeOK DEF StoreFails, Return, TypeOK
    <2>3. pc' \in [Callers -> Pcs] /\ answer' \in [Callers -> Answers]
      BY <1>9, TypeOK DEF StoreFails, Return, TypeOK, Pcs, Answers
    <2>4. /\ seen' \in [Callers -> Statuses]
          /\ rid' \in [Callers -> Nat]
          /\ source' \in [Callers -> Callers]
      BY <1>9, TypeOK DEF StoreFails, Return, TypeOK
    <2>5. QED
      BY <2>1, <2>2, <2>3, <2>4 DEF TypeOK
  <1>10. ASSUME NEW c \in Callers, Crash(c) PROVE TypeOK'
    <2>1. table' \in Record \cup {NoRecord}
      BY <1>10, TypeOK DEF Crash, Return, TypeOK
    <2>2. /\ now' \in Nat
          /\ lastId' \in Nat
          /\ start' \in [Callers -> Nat]
          /\ done' \subseteq Callers
          /\ print' \in [Callers -> Prints]
          /\ fits' \in [Callers -> BOOLEAN]
      BY <1>10, TypeOK DEF Crash, Return, TypeOK
    <2>3. pc' \in [Callers -> Pcs] /\ answer' \in [Callers -> Answers]
      BY <1>10, TypeOK DEF Crash, Return, TypeOK, Pcs, Answers
    <2>4. /\ seen' \in [Callers -> Statuses]
          /\ rid' \in [Callers -> Nat]
          /\ source' \in [Callers -> Callers]
      BY <1>10, TypeOK DEF Crash, Return, TypeOK
    <2>5. QED
      BY <2>1, <2>2, <2>3, <2>4 DEF TypeOK
  <1>11. CASE DeleteExpired
    <2>1. table' \in Record \cup {NoRecord}
      BY <1>11, TypeOK DEF DeleteExpired, Stored, TypeOK
    <2>2. /\ now' \in Nat
          /\ lastId' \in Nat
          /\ start' \in [Callers -> Nat]
          /\ done' \subseteq Callers
          /\ print' \in [Callers -> Prints]
          /\ fits' \in [Callers -> BOOLEAN]
      BY <1>11, TypeOK DEF DeleteExpired, Stored, TypeOK
    <2>3. pc' \in [Callers -> Pcs] /\ answer' \in [Callers -> Answers]
      BY <1>11, TypeOK DEF DeleteExpired, Stored, TypeOK, Pcs, Answers
    <2>4. /\ seen' \in [Callers -> Statuses]
          /\ rid' \in [Callers -> Nat]
          /\ source' \in [Callers -> Callers]
      BY <1>11, TypeOK DEF DeleteExpired, Stored, TypeOK
    <2>5. QED
      BY <2>1, <2>2, <2>3, <2>4 DEF TypeOK
  <1>12. CASE Tick
    <2>1. table' \in Record \cup {NoRecord}
      BY <1>12, TypeOK DEF Tick, TypeOK
    <2>2. /\ now' \in Nat
          /\ lastId' \in Nat
          /\ start' \in [Callers -> Nat]
          /\ done' \subseteq Callers
          /\ print' \in [Callers -> Prints]
          /\ fits' \in [Callers -> BOOLEAN]
      BY <1>12, TypeOK DEF Tick, TypeOK
    <2>3. pc' \in [Callers -> Pcs] /\ answer' \in [Callers -> Answers]
      BY <1>12, TypeOK DEF Tick, TypeOK, Pcs, Answers
    <2>4. /\ seen' \in [Callers -> Statuses]
          /\ rid' \in [Callers -> Nat]
          /\ source' \in [Callers -> Callers]
      BY <1>12, TypeOK DEF Tick, TypeOK
    <2>5. QED
      BY <2>1, <2>2, <2>3, <2>4 DEF TypeOK
  <1>13. CASE UNCHANGED vars
    BY <1>13, TypeOK DEF TypeOK, vars
  <1>14. QED
    BY <1>1, <1>2, <1>3, <1>4, <1>5, <1>6, <1>7, <1>8, <1>9, <1>10, <1>11, <1>12, <1>13
    DEF Next, Caller

\* Every step keeps what holds at any age of the record.
LEMMA AnytimeStep ==
  Anytime /\ [Next]_vars => Anytime'
  <1> SUFFICES ASSUME TypeOK, Ids, SamePrint, Effect, Body, Expiry, ReplayIsARealAnswer,
                      [Next]_vars
               PROVE  Anytime'
    BY DEF Anytime
  <1>0. TypeOK /\ TypeOK'
    BY TypeStep
  <1>1. ASSUME NEW c \in Callers, Begin(c) PROVE Anytime'
    <2>1. Ids'
      BY <1>1, <1>0, IdempotencyAssumption, Ids
      DEF Begin, GoTo, TypeOK, Ids, Stored, Record
    <2>2. SamePrint'
      BY <1>1, <1>0, IdempotencyAssumption, SamePrint, Ids, NoRecordAssumption
      DEF Begin, GoTo, TypeOK, SamePrint, Ids, Running, Stored, Record
    <2>3. Effect'
      BY <1>1, <1>0, IdempotencyAssumption, Effect DEF Begin, GoTo, TypeOK, Effect
    <2>4. Body'
      BY <1>1, <1>0, IdempotencyAssumption, Body, SamePrint, Effect
      DEF Begin, GoTo, TypeOK, Body, SamePrint, Effect, Running, Stored, Record
    <2>5. Expiry'
      BY <1>1, <1>0, IdempotencyAssumption, Expiry
      DEF Begin, GoTo, TypeOK, Expiry, Stored, Record
    <2>6. ReplayIsARealAnswer'
      BY <1>1, <1>0, IdempotencyAssumption, ReplayIsARealAnswer, Body, Effect
      DEF Begin, GoTo, TypeOK, ReplayIsARealAnswer, Body, Effect, Stored, Record
    <2>7. QED
      BY <2>1, <2>2, <2>3, <2>4, <2>5, <2>6, <1>0 DEF Anytime
  <1>2. ASSUME NEW c \in Callers, CreateProcessing(c) PROVE Anytime'
    <2>1. Ids'
      BY <1>2, <1>0, IdempotencyAssumption, Ids
      DEF CreateProcessing, Claimed, GoTo, Return, Stored, TypeOK, Ids, Record
    <2>2. SamePrint'
      BY <1>2, <1>0, IdempotencyAssumption, SamePrint, Ids, NoRecordAssumption
      DEF CreateProcessing, Claimed, GoTo, Return, Stored, TypeOK, SamePrint, Ids,
          Running, Record
    <2>3. Effect'
      BY <1>2, <1>0, IdempotencyAssumption, Effect
      DEF CreateProcessing, Claimed, GoTo, Return, Stored, TypeOK, Effect
    <2>4. Body'
      BY <1>2, <1>0, IdempotencyAssumption, Body, SamePrint, Effect
      DEF CreateProcessing, Claimed, GoTo, Return, Stored, TypeOK, Body, SamePrint,
          Effect, Running, Record
    <2>5. Expiry'
      BY <1>2, <1>0, IdempotencyAssumption, Expiry
      DEF CreateProcessing, Claimed, GoTo, Return, Stored, TypeOK, Expiry, Record
    <2>6. ReplayIsARealAnswer'
      BY <1>2, <1>0, IdempotencyAssumption, ReplayIsARealAnswer, Body, Effect
      DEF CreateProcessing, Claimed, GoTo, Return, Stored, TypeOK,
          ReplayIsARealAnswer, Body, Effect, Record
    <2>7. QED
      BY <2>1, <2>2, <2>3, <2>4, <2>5, <2>6, <1>0 DEF Anytime
  <1>3. ASSUME NEW c \in Callers, GetExisting(c) PROVE Anytime'
    <2>1. Ids'
      BY <1>3, <1>0, IdempotencyAssumption, Ids
      DEF GetExisting, Decide, Conflict, Refuse, Replay, WillReclaim, GoTo, Return,
          Stored, TypeOK, Ids, Record
    <2>2. SamePrint'
      BY <1>3, <1>0, IdempotencyAssumption, SamePrint, Ids, NoRecordAssumption
      DEF GetExisting, Decide, Conflict, Refuse, Replay, WillReclaim, GoTo, Return,
          Stored, TypeOK, SamePrint, Ids, Running, Record
    <2>3. Effect'
      BY <1>3, <1>0, IdempotencyAssumption, Effect
      DEF GetExisting, Decide, Conflict, Refuse, Replay, WillReclaim, GoTo, Return,
          Stored, TypeOK, Effect
    <2>4. Body'
      BY <1>3, <1>0, IdempotencyAssumption, Body, SamePrint, Effect
      DEF GetExisting, Decide, Conflict, Refuse, Replay, WillReclaim, GoTo, Return,
          Stored, TypeOK, Body, SamePrint, Effect, Running, Record
    <2>5. Expiry'
      BY <1>3, <1>0, IdempotencyAssumption, Expiry
      DEF GetExisting, Decide, Conflict, Refuse, Replay, WillReclaim, GoTo, Return,
          Stored, TypeOK, Expiry, Record
    <2>6. ReplayIsARealAnswer'
      BY <1>3, <1>0, IdempotencyAssumption, ReplayIsARealAnswer, Body, Effect
      DEF GetExisting, Decide, Conflict, Refuse, Replay, WillReclaim, GoTo, Return,
          Stored, TypeOK, ReplayIsARealAnswer, Body, Effect, Record
    <2>7. QED
      BY <2>1, <2>2, <2>3, <2>4, <2>5, <2>6, <1>0 DEF Anytime
  <1>4. ASSUME NEW c \in Callers, GetLatest(c) PROVE Anytime'
    <2>1. Ids'
      BY <1>4, <1>0, IdempotencyAssumption, Ids
      DEF GetLatest, Decide, Conflict, Refuse, Replay, WillReclaim, GoTo, Return,
          Stored, TypeOK, Ids, Record
    <2>2. SamePrint'
      BY <1>4, <1>0, IdempotencyAssumption, SamePrint, Ids, NoRecordAssumption
      DEF GetLatest, Decide, Conflict, Refuse, Replay, WillReclaim, GoTo, Return,
          Stored, TypeOK, SamePrint, Ids, Running, Record
    <2>3. Effect'
      BY <1>4, <1>0, IdempotencyAssumption, Effect
      DEF GetLatest, Decide, Conflict, Refuse, Replay, WillReclaim, GoTo, Return,
          Stored, TypeOK, Effect
    <2>4. Body'
      BY <1>4, <1>0, IdempotencyAssumption, Body, SamePrint, Effect
      DEF GetLatest, Decide, Conflict, Refuse, Replay, WillReclaim, GoTo, Return,
          Stored, TypeOK, Body, SamePrint, Effect, Running, Record
    <2>5. Expiry'
      BY <1>4, <1>0, IdempotencyAssumption, Expiry
      DEF GetLatest, Decide, Conflict, Refuse, Replay, WillReclaim, GoTo, Return,
          Stored, TypeOK, Expiry, Record
    <2>6. ReplayIsARealAnswer'
      BY <1>4, <1>0, IdempotencyAssumption, ReplayIsARealAnswer, Body, Effect
      DEF GetLatest, Decide, Conflict, Refuse, Replay, WillReclaim, GoTo, Return,
          Stored, TypeOK, ReplayIsARealAnswer, Body, Effect, Record
    <2>7. QED
      BY <2>1, <2>2, <2>3, <2>4, <2>5, <2>6, <1>0 DEF Anytime
  <1>5. ASSUME NEW c \in Callers, TryReclaim(c) PROVE Anytime'
    <2>1. /\ CanReclaim(c) => table \in Record
          /\ table'.id = table.id
          /\ table'.print = table.print
      BY <1>5, <1>0 DEF TryReclaim, CanReclaim, Stored, TypeOK, Record
    <2>2. Ids'
      BY <1>5, <1>0, IdempotencyAssumption, Ids
      DEF TryReclaim, CanReclaim, GoTo, Return, Stored, TypeOK, Ids, Record
    <2>3. SamePrint'
      BY <1>5, <1>0, <2>1, SamePrint
      DEF TryReclaim, GoTo, Return, TypeOK, SamePrint, Running, CanReclaim, Stored
    <2>4. Effect'
      BY <1>5, <1>0, IdempotencyAssumption, Effect
      DEF TryReclaim, CanReclaim, GoTo, Return, Stored, TypeOK, Effect
    <2>5. Body'
      BY <1>5, <1>0, IdempotencyAssumption, Body, SamePrint, Effect
      DEF TryReclaim, CanReclaim, GoTo, Return, Stored, TypeOK, Body, SamePrint,
          Effect, Running, Record
    <2>6. Expiry'
      BY <1>5, <1>0, IdempotencyAssumption, Expiry
      DEF TryReclaim, CanReclaim, GoTo, Return, Stored, TypeOK, Expiry, Record
    <2>7. ReplayIsARealAnswer'
      BY <1>5, <1>0, IdempotencyAssumption, ReplayIsARealAnswer, Body, Effect
      DEF TryReclaim, CanReclaim, GoTo, Return, Stored, TypeOK, ReplayIsARealAnswer,
          Body, Effect, Record
    <2>8. QED
      BY <2>1, <2>2, <2>3, <2>4, <2>5, <2>6, <2>7, <1>0 DEF Anytime
  <1>6. ASSUME NEW c \in Callers, Execute(c) PROVE Anytime'
    <2>1. Ids'
      BY <1>6, <1>0, IdempotencyAssumption, Ids
      DEF Execute, GoTo, TypeOK, Ids, Stored, Record
    <2>2. SamePrint'
      BY <1>6, <1>0, IdempotencyAssumption, SamePrint, Ids, NoRecordAssumption
      DEF Execute, GoTo, TypeOK, SamePrint, Ids, Running, Stored, Record
    <2>3. Effect'
      BY <1>6, <1>0, IdempotencyAssumption, Effect DEF Execute, GoTo, TypeOK, Effect
    <2>4. Body'
      BY <1>6, <1>0, IdempotencyAssumption, Body, SamePrint, Effect
      DEF Execute, GoTo, TypeOK, Body, SamePrint, Effect, Running, Stored, Record
    <2>5. Expiry'
      BY <1>6, <1>0, IdempotencyAssumption, Expiry
      DEF Execute, GoTo, TypeOK, Expiry, Stored, Record
    <2>6. ReplayIsARealAnswer'
      BY <1>6, <1>0, IdempotencyAssumption, ReplayIsARealAnswer, Body, Effect
      DEF Execute, GoTo, TypeOK, ReplayIsARealAnswer, Body, Effect, Stored, Record
    <2>7. QED
      BY <2>1, <2>2, <2>3, <2>4, <2>5, <2>6, <1>0 DEF Anytime
  <1>7. ASSUME NEW c \in Callers, MarkSucceeded(c) PROVE Anytime'
    <2>1. Ids'
      BY <1>7, <1>0, IdempotencyAssumption, MarkedSucceeded, MarkedSucceededFrame, Ids
      DEF TypeOK, Stored, Ids, Record
    <2>2. SamePrint'
      BY <1>7, <1>0, IdempotencyAssumption, MarkedSucceeded, MarkedSucceededFrame, SamePrint, Ids, NoRecordAssumption
      DEF TypeOK, Stored, SamePrint, Ids, Running, Record
    <2>3. Effect'
      BY <1>7, <1>0, IdempotencyAssumption, Effect
      DEF MarkSucceeded, StoredResponse, Ours, Return, Stored, TypeOK, Effect
    <2>4. Body'
      BY <1>7, <1>0, IdempotencyAssumption, MarkedSucceeded, MarkedSucceededFrame, Body, SamePrint, Effect
      DEF TypeOK, Stored, Body, SamePrint, Effect, Running, Record
    <2>5. Expiry'
      BY <1>7, <1>0, IdempotencyAssumption, MarkedSucceeded, MarkedSucceededFrame, Expiry
      DEF TypeOK, Stored, Expiry, Record
    <2>6. ReplayIsARealAnswer'
      BY <1>7, <1>0, IdempotencyAssumption, ReplayIsARealAnswer, Body, Effect
      DEF MarkSucceeded, StoredResponse, Ours, Return, Stored, TypeOK,
          ReplayIsARealAnswer, Body, Effect, Record
    <2>7. QED
      BY <2>1, <2>2, <2>3, <2>4, <2>5, <2>6, <1>0 DEF Anytime
  <1>8. ASSUME NEW c \in Callers, MarkFailedRetryable(c) PROVE Anytime'
    <2>1. Ids'
      BY <1>8, <1>0, IdempotencyAssumption, MarkedFailed, MarkedFailedFrame, Ids
      DEF TypeOK, Stored, Ids, Record
    <2>2. SamePrint'
      BY <1>8, <1>0, IdempotencyAssumption, MarkedFailed, MarkedFailedFrame, SamePrint, Ids, NoRecordAssumption
      DEF TypeOK, Stored, SamePrint, Ids, Running, Record
    <2>3. Effect'
      BY <1>8, <1>0, IdempotencyAssumption, Effect
      DEF MarkFailedRetryable, Ours, Return, Stored, TypeOK, Effect
    <2>4. Body'
      BY <1>8, <1>0, IdempotencyAssumption, MarkedFailed, MarkedFailedFrame, Body, SamePrint, Effect
      DEF TypeOK, Stored, Body, SamePrint, Effect, Running, Record
    <2>5. Expiry'
      BY <1>8, <1>0, IdempotencyAssumption, MarkedFailed, MarkedFailedFrame, Expiry
      DEF TypeOK, Stored, Expiry, Record
    <2>6. ReplayIsARealAnswer'
      BY <1>8, <1>0, IdempotencyAssumption, ReplayIsARealAnswer, Body, Effect
      DEF MarkFailedRetryable, Ours, Return, Stored, TypeOK, ReplayIsARealAnswer,
          Body, Effect, Record
    <2>7. QED
      BY <2>1, <2>2, <2>3, <2>4, <2>5, <2>6, <1>0 DEF Anytime
  <1>9. ASSUME NEW c \in Callers, StoreFails(c) PROVE Anytime'
    <2>1. Ids'
      BY <1>9, <1>0, IdempotencyAssumption, Ids
      DEF StoreFails, Return, TypeOK, Ids, Stored, Record
    <2>2. SamePrint'
      BY <1>9, <1>0, IdempotencyAssumption, SamePrint, Ids, NoRecordAssumption
      DEF StoreFails, Return, TypeOK, SamePrint, Ids, Running, Stored, Record
    <2>3. Effect'
      BY <1>9, <1>0, IdempotencyAssumption, Effect
      DEF StoreFails, Return, TypeOK, Effect
    <2>4. Body'
      BY <1>9, <1>0, IdempotencyAssumption, Body, SamePrint, Effect
      DEF StoreFails, Return, TypeOK, Body, SamePrint, Effect, Running, Stored, Record
    <2>5. Expiry'
      BY <1>9, <1>0, IdempotencyAssumption, Expiry
      DEF StoreFails, Return, TypeOK, Expiry, Stored, Record
    <2>6. ReplayIsARealAnswer'
      BY <1>9, <1>0, IdempotencyAssumption, ReplayIsARealAnswer, Body, Effect
      DEF StoreFails, Return, TypeOK, ReplayIsARealAnswer, Body, Effect, Stored,
          Record
    <2>7. QED
      BY <2>1, <2>2, <2>3, <2>4, <2>5, <2>6, <1>0 DEF Anytime
  <1>10. ASSUME NEW c \in Callers, Crash(c) PROVE Anytime'
    <2>1. Ids'
      BY <1>10, <1>0, IdempotencyAssumption, Ids
      DEF Crash, Return, TypeOK, Ids, Stored, Record
    <2>2. SamePrint'
      BY <1>10, <1>0, IdempotencyAssumption, SamePrint, Ids, NoRecordAssumption
      DEF Crash, Return, TypeOK, SamePrint, Ids, Running, Stored, Record
    <2>3. Effect'
      BY <1>10, <1>0, IdempotencyAssumption, Effect DEF Crash, Return, TypeOK, Effect
    <2>4. Body'
      BY <1>10, <1>0, IdempotencyAssumption, Body, SamePrint, Effect
      DEF Crash, Return, TypeOK, Body, SamePrint, Effect, Running, Stored, Record
    <2>5. Expiry'
      BY <1>10, <1>0, IdempotencyAssumption, Expiry
      DEF Crash, Return, TypeOK, Expiry, Stored, Record
    <2>6. ReplayIsARealAnswer'
      BY <1>10, <1>0, IdempotencyAssumption, ReplayIsARealAnswer, Body, Effect
      DEF Crash, Return, TypeOK, ReplayIsARealAnswer, Body, Effect, Stored, Record
    <2>7. QED
      BY <2>1, <2>2, <2>3, <2>4, <2>5, <2>6, <1>0 DEF Anytime
  <1>11. CASE DeleteExpired
    <2>1. Ids'
      BY <1>11, <1>0, IdempotencyAssumption, Ids
      DEF DeleteExpired, Stored, TypeOK, Ids, Record
    <2>2. SamePrint'
      BY <1>11, <1>0, IdempotencyAssumption, SamePrint, Ids, NoRecordAssumption
      DEF DeleteExpired, Stored, TypeOK, SamePrint, Ids, Running, Record
    <2>3. Effect'
      BY <1>11, <1>0, IdempotencyAssumption, Effect
      DEF DeleteExpired, Stored, TypeOK, Effect
    <2>4. Body'
      BY <1>11, <1>0, IdempotencyAssumption, Body, SamePrint, Effect
      DEF DeleteExpired, Stored, TypeOK, Body, SamePrint, Effect, Running, Record
    <2>5. Expiry'
      BY <1>11, <1>0, IdempotencyAssumption, Expiry
      DEF DeleteExpired, Stored, TypeOK, Expiry, Record
    <2>6. ReplayIsARealAnswer'
      BY <1>11, <1>0, IdempotencyAssumption, ReplayIsARealAnswer, Body, Effect
      DEF DeleteExpired, Stored, TypeOK, ReplayIsARealAnswer, Body, Effect, Record
    <2>7. QED
      BY <2>1, <2>2, <2>3, <2>4, <2>5, <2>6, <1>0 DEF Anytime
  <1>12. CASE Tick
    <2>1. Ids'
      BY <1>12, <1>0, IdempotencyAssumption, Ids DEF Tick, TypeOK, Ids, Stored, Record
    <2>2. SamePrint'
      BY <1>12, <1>0, IdempotencyAssumption, SamePrint, Ids, NoRecordAssumption
      DEF Tick, TypeOK, SamePrint, Ids, Running, Stored, Record
    <2>3. Effect'
      BY <1>12, <1>0, IdempotencyAssumption, Effect DEF Tick, TypeOK, Effect
    <2>4. Body'
      BY <1>12, <1>0, IdempotencyAssumption, Body, SamePrint, Effect
      DEF Tick, TypeOK, Body, SamePrint, Effect, Running, Stored, Record
    <2>5. Expiry'
      BY <1>12, <1>0, IdempotencyAssumption, Expiry
      DEF Tick, TypeOK, Expiry, Stored, Record
    <2>6. ReplayIsARealAnswer'
      BY <1>12, <1>0, IdempotencyAssumption, ReplayIsARealAnswer, Body, Effect
      DEF Tick, TypeOK, ReplayIsARealAnswer, Body, Effect, Stored, Record
    <2>7. QED
      BY <2>1, <2>2, <2>3, <2>4, <2>5, <2>6, <1>0 DEF Anytime
  <1>13. CASE UNCHANGED vars
    BY <1>13, <1>0, Ids, SamePrint, Effect, Body, Expiry, ReplayIsARealAnswer
    DEF vars, Anytime, Ids, SamePrint, Effect, Body, Expiry, ReplayIsARealAnswer, Running, Stored
  <1>14. QED
    BY <1>1, <1>2, <1>3, <1>4, <1>5, <1>6, <1>7, <1>8, <1>9, <1>10, <1>11, <1>12, <1>13
    DEF Next, Caller

\* Once a claim has expired, it stays so.
LEMMA ExpiryIsForEver ==
  TypeOK /\ [Next]_vars /\ NoneExpired' => NoneExpired
  <1> SUFFICES ASSUME TypeOK, [Next]_vars, NoneExpired' PROVE NoneExpired
    OBVIOUS
  <1>0. TypeOK'
    BY TypeStep
  <1>1. ASSUME NEW c \in Callers, Begin(c) PROVE NoneExpired
    <2>1. now' >= now /\ (now' = now \/ (pc' = pc /\ start' = start))
      BY <1>1, TypeOK, <1>0, IdempotencyAssumption DEF Begin, GoTo, TypeOK
    <2>2. \A d \in Callers : pc[d] # "new" => pc'[d] # "new" /\ start'[d] = start[d]
      BY <1>1, TypeOK, <1>0 DEF Begin, GoTo, TypeOK
    <2>3. QED
      BY <2>1, <2>2, <1>0, TypeOK, NoneExpired', IdempotencyAssumption
      DEF NoneExpired, TypeOK
  <1>2. ASSUME NEW c \in Callers, CreateProcessing(c) PROVE NoneExpired
    <2>1. now' >= now /\ (now' = now \/ (pc' = pc /\ start' = start))
      BY <1>2, TypeOK, <1>0, IdempotencyAssumption
      DEF CreateProcessing, Claimed, GoTo, Return, Stored, TypeOK
    <2>2. \A d \in Callers : pc[d] # "new" => pc'[d] # "new" /\ start'[d] = start[d]
      BY <1>2, TypeOK, <1>0 DEF CreateProcessing, Claimed, GoTo, Return, Stored, TypeOK
    <2>3. QED
      BY <2>1, <2>2, <1>0, TypeOK, NoneExpired', IdempotencyAssumption
      DEF NoneExpired, TypeOK
  <1>3. ASSUME NEW c \in Callers, GetExisting(c) PROVE NoneExpired
    <2>1. now' >= now /\ (now' = now \/ (pc' = pc /\ start' = start))
      BY <1>3, TypeOK, <1>0, IdempotencyAssumption
      DEF GetExisting, Decide, Conflict, Refuse, Replay, WillReclaim, GoTo, Return,
          Stored, TypeOK
    <2>2. \A d \in Callers : pc[d] # "new" => pc'[d] # "new" /\ start'[d] = start[d]
      BY <1>3, TypeOK, <1>0
      DEF GetExisting, Decide, Conflict, Refuse, Replay, WillReclaim, GoTo, Return,
          Stored, TypeOK
    <2>3. QED
      BY <2>1, <2>2, <1>0, TypeOK, NoneExpired', IdempotencyAssumption
      DEF NoneExpired, TypeOK
  <1>4. ASSUME NEW c \in Callers, GetLatest(c) PROVE NoneExpired
    <2>1. now' >= now /\ (now' = now \/ (pc' = pc /\ start' = start))
      BY <1>4, TypeOK, <1>0, IdempotencyAssumption
      DEF GetLatest, Decide, Conflict, Refuse, Replay, WillReclaim, GoTo, Return,
          Stored, TypeOK
    <2>2. \A d \in Callers : pc[d] # "new" => pc'[d] # "new" /\ start'[d] = start[d]
      BY <1>4, TypeOK, <1>0
      DEF GetLatest, Decide, Conflict, Refuse, Replay, WillReclaim, GoTo, Return,
          Stored, TypeOK
    <2>3. QED
      BY <2>1, <2>2, <1>0, TypeOK, NoneExpired', IdempotencyAssumption
      DEF NoneExpired, TypeOK
  <1>5. ASSUME NEW c \in Callers, TryReclaim(c) PROVE NoneExpired
    <2>1. now' >= now /\ (now' = now \/ (pc' = pc /\ start' = start))
      BY <1>5, TypeOK, <1>0, IdempotencyAssumption
      DEF TryReclaim, CanReclaim, GoTo, Return, Stored, TypeOK
    <2>2. \A d \in Callers : pc[d] # "new" => pc'[d] # "new" /\ start'[d] = start[d]
      BY <1>5, TypeOK, <1>0 DEF TryReclaim, CanReclaim, GoTo, Return, Stored, TypeOK
    <2>3. QED
      BY <2>1, <2>2, <1>0, TypeOK, NoneExpired', IdempotencyAssumption
      DEF NoneExpired, TypeOK
  <1>6. ASSUME NEW c \in Callers, Execute(c) PROVE NoneExpired
    <2>1. now' >= now /\ (now' = now \/ (pc' = pc /\ start' = start))
      BY <1>6, TypeOK, <1>0, IdempotencyAssumption DEF Execute, GoTo, TypeOK
    <2>2. \A d \in Callers : pc[d] # "new" => pc'[d] # "new" /\ start'[d] = start[d]
      BY <1>6, TypeOK, <1>0 DEF Execute, GoTo, TypeOK
    <2>3. QED
      BY <2>1, <2>2, <1>0, TypeOK, NoneExpired', IdempotencyAssumption
      DEF NoneExpired, TypeOK
  <1>7. ASSUME NEW c \in Callers, MarkSucceeded(c) PROVE NoneExpired
    <2>1. now' >= now /\ (now' = now \/ (pc' = pc /\ start' = start))
      BY <1>7, TypeOK, <1>0, IdempotencyAssumption
      DEF MarkSucceeded, StoredResponse, Ours, Return, Stored, TypeOK
    <2>2. \A d \in Callers : pc[d] # "new" => pc'[d] # "new" /\ start'[d] = start[d]
      BY <1>7, TypeOK, <1>0
      DEF MarkSucceeded, StoredResponse, Ours, Return, Stored, TypeOK
    <2>3. QED
      BY <2>1, <2>2, <1>0, TypeOK, NoneExpired', IdempotencyAssumption
      DEF NoneExpired, TypeOK
  <1>8. ASSUME NEW c \in Callers, MarkFailedRetryable(c) PROVE NoneExpired
    <2>1. now' >= now /\ (now' = now \/ (pc' = pc /\ start' = start))
      BY <1>8, TypeOK, <1>0, IdempotencyAssumption
      DEF MarkFailedRetryable, Ours, Return, Stored, TypeOK
    <2>2. \A d \in Callers : pc[d] # "new" => pc'[d] # "new" /\ start'[d] = start[d]
      BY <1>8, TypeOK, <1>0 DEF MarkFailedRetryable, Ours, Return, Stored, TypeOK
    <2>3. QED
      BY <2>1, <2>2, <1>0, TypeOK, NoneExpired', IdempotencyAssumption
      DEF NoneExpired, TypeOK
  <1>9. ASSUME NEW c \in Callers, StoreFails(c) PROVE NoneExpired
    <2>1. now' >= now /\ (now' = now \/ (pc' = pc /\ start' = start))
      BY <1>9, TypeOK, <1>0, IdempotencyAssumption DEF StoreFails, Return, TypeOK
    <2>2. \A d \in Callers : pc[d] # "new" => pc'[d] # "new" /\ start'[d] = start[d]
      BY <1>9, TypeOK, <1>0 DEF StoreFails, Return, TypeOK
    <2>3. QED
      BY <2>1, <2>2, <1>0, TypeOK, NoneExpired', IdempotencyAssumption
      DEF NoneExpired, TypeOK
  <1>10. ASSUME NEW c \in Callers, Crash(c) PROVE NoneExpired
    <2>1. now' >= now /\ (now' = now \/ (pc' = pc /\ start' = start))
      BY <1>10, TypeOK, <1>0, IdempotencyAssumption DEF Crash, Return, TypeOK
    <2>2. \A d \in Callers : pc[d] # "new" => pc'[d] # "new" /\ start'[d] = start[d]
      BY <1>10, TypeOK, <1>0 DEF Crash, Return, TypeOK
    <2>3. QED
      BY <2>1, <2>2, <1>0, TypeOK, NoneExpired', IdempotencyAssumption
      DEF NoneExpired, TypeOK
  <1>11. CASE DeleteExpired
    <2>1. now' >= now /\ (now' = now \/ (pc' = pc /\ start' = start))
      BY <1>11, TypeOK, <1>0, IdempotencyAssumption DEF DeleteExpired, Stored, TypeOK
    <2>2. \A d \in Callers : pc[d] # "new" => pc'[d] # "new" /\ start'[d] = start[d]
      BY <1>11, TypeOK, <1>0 DEF DeleteExpired, Stored, TypeOK
    <2>3. QED
      BY <2>1, <2>2, <1>0, TypeOK, NoneExpired', IdempotencyAssumption
      DEF NoneExpired, TypeOK
  <1>12. CASE Tick
    <2>1. now' >= now /\ (now' = now \/ (pc' = pc /\ start' = start))
      BY <1>12, TypeOK, <1>0, IdempotencyAssumption DEF Tick, TypeOK
    <2>2. \A d \in Callers : pc[d] # "new" => pc'[d] # "new" /\ start'[d] = start[d]
      BY <1>12, TypeOK, <1>0 DEF Tick, TypeOK
    <2>3. QED
      BY <2>1, <2>2, <1>0, TypeOK, NoneExpired', IdempotencyAssumption
      DEF NoneExpired, TypeOK
  <1>13. CASE UNCHANGED vars
    BY <1>13, NoneExpired' DEF vars, NoneExpired
  <1>14. QED
    BY <1>1, <1>2, <1>3, <1>4, <1>5, <1>6, <1>7, <1>8, <1>9, <1>10, <1>11, <1>12, <1>13
    DEF Next, Caller

\* Before any claim has expired the row has not either.
LEMMA RowIsFresh ==
  ASSUME TypeOK, Expiry, NoneExpired, Stored
  PROVE  table.expiresAt > now /\ \A c \in Callers : table.expiresAt > start[c]
  <1>1. PICK d \in Callers : pc[d] # "new" /\ table.expiresAt = start[d] + TTL
    BY DEF Expiry
  <1>2. now < start[d] + TTL
    BY <1>1 DEF NoneExpired
  <1>3. \A c \in Callers : start[c] <= now /\ start[c] \in Nat /\ now \in Nat
    BY DEF Expiry, TypeOK
  <1> QED
    BY <1>1, <1>2, <1>3, IdempotencyAssumption

\* Within a TTL every step keeps claims exclusive.
LEMMA ExclusiveStep ==
  Anytime /\ (NoneExpired => Exclusive) /\ [Next]_vars /\ NoneExpired' => Exclusive'
  <1> SUFFICES ASSUME Anytime, Exclusive, NoneExpired, [Next]_vars PROVE Exclusive'
    BY ExpiryIsForEver DEF Anytime
  <1>0. TypeOK /\ TypeOK' /\ Effect /\ Expiry /\ Alone /\ StatusTells /\ OnlyFailures
    BY TypeStep DEF Anytime, Exclusive
  <1>1. ASSUME NEW c \in Callers, Begin(c) PROVE Exclusive'
    <2>1. Alone'
      BY <1>1, <1>0
      DEF Begin, GoTo, TypeOK, Alone, StatusTells, OnlyFailures, Effect, Running,
          Stored
    <2>2. StatusTells'
      BY <1>1, <1>0, NoRecordAssumption
      DEF Begin, GoTo, TypeOK, Alone, StatusTells, OnlyFailures, Effect, Running,
          Stored, Record
    <2>3. OnlyFailures'
      BY <1>1, <1>0 DEF Begin, GoTo, TypeOK, OnlyFailures
    <2>4. QED
      BY <2>1, <2>2, <2>3 DEF Exclusive
  <1>2. ASSUME NEW c \in Callers, CreateProcessing(c) PROVE Exclusive'
    <2>1. table' # NoRecord
      BY <1>2, <1>0, NoRecordAssumption, ClaimedIsRecord DEF CreateProcessing, Stored
    <2>2. ~Stored => table'.status = "processing"
      BY <1>2, <1>0 DEF CreateProcessing, Claimed, GoTo, Return, Stored, Claimed
    <2>3. Alone'
      BY <1>2, <1>0
      DEF CreateProcessing, Claimed, GoTo, Return, Stored, TypeOK, Alone, StatusTells,
          OnlyFailures, Effect, Running
    <2>4. StatusTells'
      BY <1>2, <1>0, <2>1, <2>2
      DEF CreateProcessing, GoTo, Return, Stored, TypeOK, Alone, StatusTells,
          OnlyFailures, Effect, Running
    <2>5. OnlyFailures'
      BY <1>2, <1>0
      DEF CreateProcessing, Claimed, GoTo, Return, Stored, TypeOK, OnlyFailures
    <2>6. QED
      BY <2>1, <2>2, <2>3, <2>4, <2>5 DEF Exclusive
  <1>3. ASSUME NEW c \in Callers, GetExisting(c) PROVE Exclusive'
    <2>1. ~(Stored /\ table.expiresAt <= start[c])
      BY <1>3, <1>0, RowIsFresh DEF TypeOK, Record, Stored
    <2>2. Alone'
      BY <1>3, <1>0, RowIsFresh
      DEF GetExisting, Decide, Conflict, Refuse, Replay, WillReclaim, GoTo, Return,
          Stored, TypeOK, Alone, StatusTells, OnlyFailures, Effect, Running
    <2>3. StatusTells'
      BY <1>3, <1>0, NoRecordAssumption, RowIsFresh
      DEF GetExisting, Decide, Conflict, Refuse, Replay, WillReclaim, GoTo, Return,
          Stored, TypeOK, Alone, StatusTells, OnlyFailures, Effect, Running, Record
    <2>4. OnlyFailures'
      BY <1>3, <1>0, <2>1
      DEF GetExisting, Decide, Conflict, Refuse, Replay, WillReclaim, GoTo, Return,
          Stored, TypeOK, OnlyFailures
    <2>5. QED
      BY <2>1, <2>2, <2>3, <2>4 DEF Exclusive
  <1>4. ASSUME NEW c \in Callers, GetLatest(c) PROVE Exclusive'
    <2>1. Alone'
      BY <1>4, <1>0, RowIsFresh
      DEF GetLatest, Decide, Conflict, Refuse, Replay, WillReclaim, GoTo, Return,
          Stored, TypeOK, Alone, StatusTells, OnlyFailures, Effect, Running
    <2>2. StatusTells'
      BY <1>4, <1>0, NoRecordAssumption, RowIsFresh
      DEF GetLatest, Decide, Conflict, Refuse, Replay, WillReclaim, GoTo, Return,
          Stored, TypeOK, Alone, StatusTells, OnlyFailures, Effect, Running, Record
    <2>3. OnlyFailures'
      BY <1>4, <1>0, RowIsFresh
      DEF GetLatest, Decide, Conflict, Refuse, Replay, WillReclaim, GoTo, Return,
          Stored, TypeOK, OnlyFailures
    <2>4. QED
      BY <2>1, <2>2, <2>3 DEF Exclusive
  <1>5. ASSUME NEW c \in Callers, TryReclaim(c) PROVE Exclusive'
    <2>1. table \in Record => [table EXCEPT !.status = "processing",
                                 !.lockedUntil = start[c] + ProcessingTimeout,
                                 !.expiresAt = start[c] + TTL] \in Record
      BY <1>0, UpdatedIsRecord, TimesAreNat, Zenon
    <2>2. CanReclaim(c) => table' # NoRecord
      BY <1>5, <1>0, <2>1, NoRecordAssumption DEF TryReclaim, CanReclaim, Stored, TypeOK
    <2>3. CanReclaim(c) => table'.status = "processing"
      BY <1>5, <1>0 DEF TryReclaim, CanReclaim, Stored, TypeOK, Record
    <2>4. Alone'
      BY <1>5, <1>0
      DEF TryReclaim, CanReclaim, GoTo, Return, Stored, TypeOK, Alone, StatusTells,
          OnlyFailures, Effect, Running
    <2>5. StatusTells'
      BY <1>5, <1>0, <2>2, <2>3
      DEF TryReclaim, GoTo, Return, Stored, TypeOK, Alone, StatusTells, OnlyFailures,
          Effect, Running
    <2>6. OnlyFailures'
      BY <1>5, <1>0
      DEF TryReclaim, CanReclaim, GoTo, Return, Stored, TypeOK, OnlyFailures
    <2>7. QED
      BY <2>1, <2>2, <2>3, <2>4, <2>5, <2>6 DEF Exclusive
  <1>6. ASSUME NEW c \in Callers, Execute(c) PROVE Exclusive'
    <2>1. Alone'
      BY <1>6, <1>0
      DEF Execute, GoTo, TypeOK, Alone, StatusTells, OnlyFailures, Effect, Running,
          Stored
    <2>2. StatusTells'
      BY <1>6, <1>0, NoRecordAssumption
      DEF Execute, GoTo, TypeOK, Alone, StatusTells, OnlyFailures, Effect, Running,
          Stored, Record
    <2>3. OnlyFailures'
      BY <1>6, <1>0 DEF Execute, GoTo, TypeOK, OnlyFailures
    <2>4. QED
      BY <2>1, <2>2, <2>3 DEF Exclusive
  <1>7. ASSUME NEW c \in Callers, MarkSucceeded(c) PROVE Exclusive'
    <2>1. Alone'
      BY <1>7, <1>0, MarkedSucceeded, MarkedSucceededFrame, Alone, StatusTells, OnlyFailures, Effect
      DEF TypeOK, Alone, StatusTells, OnlyFailures, Effect, Running, Stored, Ours
    <2>2. StatusTells'
      BY <1>7, <1>0, MarkedSucceeded, MarkedSucceededFrame, Alone, StatusTells, OnlyFailures, Effect, NoRecordAssumption
      DEF TypeOK, Alone, StatusTells, OnlyFailures, Effect, Running, Stored, Record,
          Ours
    <2>3. OnlyFailures'
      BY <1>7, <1>0
      DEF MarkSucceeded, StoredResponse, Ours, Return, Stored, TypeOK, OnlyFailures
    <2>4. QED
      BY <2>1, <2>2, <2>3 DEF Exclusive
  <1>8. ASSUME NEW c \in Callers, MarkFailedRetryable(c) PROVE Exclusive'
    <2>1. Alone'
      BY <1>8, <1>0, MarkedFailed, MarkedFailedFrame, Alone, StatusTells, OnlyFailures, Effect
      DEF TypeOK, Alone, StatusTells, OnlyFailures, Effect, Running, Stored, Ours
    <2>2. StatusTells'
      BY <1>8, <1>0, MarkedFailed, MarkedFailedFrame, Alone, StatusTells, OnlyFailures, Effect, NoRecordAssumption
      DEF TypeOK, Alone, StatusTells, OnlyFailures, Effect, Running, Stored, Record,
          Ours
    <2>3. OnlyFailures'
      BY <1>8, <1>0 DEF MarkFailedRetryable, Ours, Return, Stored, TypeOK, OnlyFailures
    <2>4. QED
      BY <2>1, <2>2, <2>3 DEF Exclusive
  <1>9. ASSUME NEW c \in Callers, StoreFails(c) PROVE Exclusive'
    <2>1. Alone'
      BY <1>9, <1>0
      DEF StoreFails, Return, TypeOK, Alone, StatusTells, OnlyFailures, Effect,
          Running, Stored
    <2>2. StatusTells'
      BY <1>9, <1>0, NoRecordAssumption
      DEF StoreFails, Return, TypeOK, Alone, StatusTells, OnlyFailures, Effect,
          Running, Stored, Record
    <2>3. OnlyFailures'
      BY <1>9, <1>0 DEF StoreFails, Return, TypeOK, OnlyFailures
    <2>4. QED
      BY <2>1, <2>2, <2>3 DEF Exclusive
  <1>10. ASSUME NEW c \in Callers, Crash(c) PROVE Exclusive'
    <2>1. Alone'
      BY <1>10, <1>0
      DEF Crash, Return, TypeOK, Alone, StatusTells, OnlyFailures, Effect, Running,
          Stored
    <2>2. StatusTells'
      BY <1>10, <1>0, NoRecordAssumption
      DEF Crash, Return, TypeOK, Alone, StatusTells, OnlyFailures, Effect, Running,
          Stored, Record
    <2>3. OnlyFailures'
      BY <1>10, <1>0 DEF Crash, Return, TypeOK, OnlyFailures
    <2>4. QED
      BY <2>1, <2>2, <2>3 DEF Exclusive
  <1>11. CASE DeleteExpired
    <2>1. Alone'
      BY <1>11, <1>0, RowIsFresh
      DEF DeleteExpired, Stored, TypeOK, Alone, StatusTells, OnlyFailures, Effect,
          Running
    <2>2. StatusTells'
      BY <1>11, <1>0, NoRecordAssumption, RowIsFresh
      DEF DeleteExpired, Stored, TypeOK, Alone, StatusTells, OnlyFailures, Effect,
          Running, Record
    <2>3. OnlyFailures'
      BY <1>11, <1>0, RowIsFresh DEF DeleteExpired, Stored, TypeOK, OnlyFailures
    <2>4. QED
      BY <2>1, <2>2, <2>3 DEF Exclusive
  <1>12. CASE Tick
    <2>1. Alone'
      BY <1>12, <1>0
      DEF Tick, TypeOK, Alone, StatusTells, OnlyFailures, Effect, Running, Stored
    <2>2. StatusTells'
      BY <1>12, <1>0, NoRecordAssumption
      DEF Tick, TypeOK, Alone, StatusTells, OnlyFailures, Effect, Running, Stored,
          Record
    <2>3. OnlyFailures'
      BY <1>12, <1>0 DEF Tick, TypeOK, OnlyFailures
    <2>4. QED
      BY <2>1, <2>2, <2>3 DEF Exclusive
  <1>13. CASE UNCHANGED vars
    BY <1>13, <1>0
    DEF vars, Exclusive, Alone, StatusTells, OnlyFailures, Running, Stored
  <1>14. QED
    BY <1>1, <1>2, <1>3, <1>4, <1>5, <1>6, <1>7, <1>8, <1>9, <1>10, <1>11, <1>12, <1>13
    DEF Next, Caller

-----------------------------------------------------------------------------
\* IdemInv is an inductive invariant.
THEOREM IdempotencyInductive == Spec => []IdemInv
  <1>1. Init => IdemInv
    <2> SUFFICES ASSUME Init PROVE IdemInv
      OBVIOUS
    <2>1. TypeOK
      BY IdempotencyAssumption DEF Init, TypeOK, Pcs, Answers, Statuses
    <2>2. Ids /\ SamePrint /\ Effect /\ Body /\ Expiry /\ ReplayIsARealAnswer
      BY 
      DEF Init, Ids, SamePrint, Effect, Body, Expiry, ReplayIsARealAnswer, Stored,
          Running
    <2>3. Exclusive
      BY DEF Init, Exclusive, Alone, StatusTells, OnlyFailures, Stored, Running
    <2> QED
      BY <2>1, <2>2, <2>3 DEF IdemInv, Anytime
  <1>2. IdemInv /\ [Next]_vars => IdemInv'
    BY AnytimeStep, ExclusiveStep DEF IdemInv
  <1> QED
    BY <1>1, <1>2, PTL DEF Spec

\* Every variable keeps its type (Execute and the statements of the repository).
THEOREM IdempotencyTypes == Spec => []TypeOK
  <1>1. IdemInv => TypeOK
    BY DEF IdemInv, Anytime
  <1> QED
    BY <1>1, IdempotencyInductive, PTL

\* Within a TTL of the first use of a key its operation takes effect at most
\* once, for any number of callers (Execute).
THEOREM OnceWithinTTL == Spec => []OnceBeforeExpiry
  <1>1. IdemInv => OnceBeforeExpiry
    BY DEF IdemInv, Exclusive, Alone, OnceBeforeExpiry
  <1> QED
    BY <1>1, IdempotencyInductive, PTL

\* Within a TTL at most one caller runs the operation (CreateProcessing, TryReclaim).
THEOREM OneRunner == Spec => []OneAtATime
  <1>1. IdemInv => OneAtATime
    BY DEF IdemInv, Exclusive, Alone, OneAtATime
  <1> QED
    BY <1>1, IdempotencyInductive, PTL

\* A replay is the whole response of an operation of the same request that took
\* effect, whatever expires and is reclaimed (decodeStoredResponse).
THEOREM ReplaysAreReal == Spec => []ReplayIsARealAnswer
  <1>1. IdemInv => ReplayIsARealAnswer
    BY DEF IdemInv, Anytime
  <1> QED
    BY <1>1, IdempotencyInductive, PTL

\* Within a TTL no step changes or deletes a stored success (TryReclaim,
\* MarkSucceeded, MarkFailedRetryable, DeleteExpired).
THEOREM SuccessIsFinal == Spec => AnswerIsFinal
  <1>1. IdemInv /\ [Next]_vars =>
          [NoneExpired /\ Stored /\ table.status = "succeeded" => table' = table]_vars
    <2> SUFFICES ASSUME IdemInv, [Next]_vars, NoneExpired, Stored,
                        table.status = "succeeded"
                 PROVE  table' = table
      OBVIOUS
    <2>0. TypeOK /\ Expiry /\ Running = {} /\ OnlyFailures
      BY DEF IdemInv, Anytime, Exclusive, StatusTells
    <2>1. ASSUME NEW c \in Callers, CreateProcessing(c) PROVE table' = table
      BY <2>1 DEF CreateProcessing
    <2>2. ASSUME NEW c \in Callers, TryReclaim(c) PROVE table' = table
      BY <2>0, <2>2 DEF TryReclaim, CanReclaim, OnlyFailures
    <2>3. ASSUME NEW c \in Callers, MarkSucceeded(c) \/ MarkFailedRetryable(c)
          PROVE  table' = table
      BY <2>0, <2>3 DEF MarkSucceeded, MarkFailedRetryable, Running
    <2>4. CASE DeleteExpired
      BY <2>0, <2>4, RowIsFresh DEF DeleteExpired, TypeOK, Record, Stored
    <2>5. ASSUME NEW c \in Callers,
                 \/ Begin(c) \/ GetExisting(c) \/ GetLatest(c) \/ Execute(c)
                 \/ StoreFails(c) \/ Crash(c)
          PROVE  table' = table
      BY <2>5 DEF Begin, GetExisting, GetLatest, Execute, StoreFails, Crash
    <2>6. CASE Tick \/ UNCHANGED vars
      BY <2>6 DEF Tick, vars
    <2> QED
      BY <2>1, <2>2, <2>3, <2>4, <2>5, <2>6 DEF Next, Caller
  <1> QED
    BY <1>1, IdempotencyInductive, PTL DEF Spec, AnswerIsFinal

=============================================================================

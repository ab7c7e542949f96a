----------------------------- MODULE Idempotency -----------------------------
(***************************************************************************)
(* The idempotency coordinator (service/idempotency.go, Execute) over its  *)
(* PostgreSQL table (repository/idempotency_repo.go), for one key of one   *)
(* scope.  Every request with the key is a caller; a client's retry is     *)
(* another caller.  Each statement on the table is one step, and one that  *)
(* reports an error may or may not have taken effect.  A caller reads the  *)
(* clock once, before its first statement, and uses that time for every    *)
(* comparison and for the expiry it writes.                                *)
(***************************************************************************)
EXTENDS Integers, FiniteSets

CONSTANTS
  Callers,            \* requests that carry the key
  Prints,             \* request fingerprints
  TTL,                \* how long a record lives
  ProcessingTimeout,  \* how long a claim locks it
  FailedRetryBackoff, \* how long a failure does
  MaxTime,            \* bound: the clock stops here
  NoRecord            \* no row in the table

ASSUME IdempotencyAssumption ==
  /\ TTL \in Nat \ {0}
  /\ ProcessingTimeout \in Nat \ {0}
  /\ FailedRetryBackoff \in Nat \ {0}
  /\ MaxTime \in Nat

VARIABLES
  now,   \* the clock
  table, \* the row of the key: NoRecord or a member of Record
  lastId,\* the id of the last row inserted
  pc,    \* pc[c]: the statement c executes next
  print, \* print[c]: the fingerprint of c's request
  start, \* start[c]: the time c read
  seen,  \* seen[c]: the status c read before it tries to reclaim
  rid,   \* rid[c]: the id of the row c claimed or means to reclaim
  answer,\* answer[c]: what Execute returned
  source,\* source[c]: whose response c was given
  fits,  \* fits[c]: c's response is no longer than max_stored_response_len
  done   \* callers whose operation took effect

vars == <<now, table, lastId, pc, print, start, seen, rid, answer, source, fits, done>>

Statuses == {"processing", "succeeded", "failed_retryable"}
Pcs == {"new", "create", "get", "reclaim_expired", "get_latest", "reclaim",
        "execute", "mark_succeeded", "mark_failed", "end"}
Answers == {"none", "result", "replayed", "key_conflict", "in_progress",
            "retry_backoff", "store_unavailable", "operation_error", "crashed"}

\* lockedUntil 0 is NULL; body is the caller whose response was stored, and
\* whole says that it was not truncated.
Record == [id : Nat, print : Prints, status : Statuses, lockedUntil : Nat,
           expiresAt : Nat, body : Callers, whole : BOOLEAN]

ASSUME NoRecordAssumption == NoRecord \notin Record

\* Every value is one the program can hold.
TypeOK ==
  /\ now \in Nat
  /\ table \in Record \cup {NoRecord}
  /\ lastId \in Nat
  /\ pc \in [Callers -> Pcs]
  /\ print \in [Callers -> Prints]
  /\ start \in [Callers -> Nat]
  /\ seen \in [Callers -> Statuses]
  /\ rid \in [Callers -> Nat]
  /\ answer \in [Callers -> Answers]
  /\ source \in [Callers -> Callers]
  /\ fits \in [Callers -> BOOLEAN]
  /\ done \subseteq Callers

Init ==
  /\ now = 0 /\ table = NoRecord /\ lastId = 0 /\ done = {}
  /\ pc = [c \in Callers |-> "new"]
  /\ print \in [Callers -> Prints]
  /\ start = [c \in Callers |-> 0]
  /\ seen = [c \in Callers |-> "processing"]
  /\ rid = [c \in Callers |-> 0]
  /\ answer = [c \in Callers |-> "none"]
  /\ source = [c \in Callers |-> c]
  /\ fits = [c \in Callers |-> TRUE]

-----------------------------------------------------------------------------
Stored == table # NoRecord

Return(c, what) ==
  /\ pc' = [pc EXCEPT ![c] = "end"]
  /\ answer' = [answer EXCEPT ![c] = what]

GoTo(c, where) ==
  /\ pc' = [pc EXCEPT ![c] = where]
  /\ answer' = answer

\* Execute begins: now, lockedUntil and expiresAt are fixed here.
Begin(c) ==
  /\ pc[c] = "new"
  /\ start' = [start EXCEPT ![c] = now]
  /\ GoTo(c, "create")
  /\ UNCHANGED <<now, table, lastId, print, seen, rid, source, fits, done>>

\* Mutant: the expiry is computed backwards from now.
ClaimedInThePast(c) ==
  [id |-> lastId + 1, print |-> print[c], status |-> "processing",
   lockedUntil |-> start[c] + ProcessingTimeout, expiresAt |-> start[c] - TTL,
   body |-> c, whole |-> TRUE]

\* The row a claim inserts.
Claimed(c) ==
  [id |-> lastId + 1, print |-> print[c], status |-> "processing",
   lockedUntil |-> start[c] + ProcessingTimeout, expiresAt |-> start[c] + TTL,
   body |-> c, whole |-> TRUE]

\* Mutant: the insert takes over an existing row (ON CONFLICT DO UPDATE).
CreateProcessingUpsert(c) ==
  /\ pc[c] = "create"
  /\ table' = Claimed(c) /\ lastId' = lastId + 1
  /\ rid' = [rid EXCEPT ![c] = lastId + 1]
  /\ GoTo(c, "execute")
  /\ UNCHANGED <<now, print, start, seen, source, fits, done>>

\* INSERT ... ON CONFLICT DO NOTHING.
CreateProcessing(c) ==
  /\ pc[c] = "create"
  /\ \/ /\ ~Stored
        /\ table' = Claimed(c) /\ lastId' = lastId + 1
        /\ \/ /\ rid' = [rid EXCEPT ![c] = lastId + 1]
              /\ GoTo(c, "execute")
           \/ /\ rid' = rid
              /\ Return(c, "store_unavailable")
     \/ /\ Stored
        /\ GoTo(c, "get")
        /\ UNCHANGED <<table, lastId, rid>>
  /\ UNCHANGED <<now, print, start, seen, source, fits, done>>

\* c has read a row it may take over.
WillReclaim(c, where) ==
  /\ seen' = [seen EXCEPT ![c] = table.status]
  /\ rid' = [rid EXCEPT ![c] = table.id]
  /\ GoTo(c, where)
  /\ source' = source

Refuse(c, why) == Return(c, why) /\ UNCHANGED <<seen, rid, source>>

Replay(c) ==
  /\ source' = [source EXCEPT ![c] = table.body]
  /\ Return(c, "replayed")
  /\ UNCHANGED <<seen, rid>>

\* Mutant: a claim whose lock has run out is taken over.
DecideStealsLock(c) ==
  \/ table.status = "succeeded" /\ table.whole /\ Replay(c)
  \/ table.status = "succeeded" /\ ~table.whole /\ Refuse(c, "store_unavailable")
  \/ /\ table.status # "succeeded" /\ table.lockedUntil > start[c]
     /\ Refuse(c, "in_progress")
  \/ /\ table.status # "succeeded" /\ table.lockedUntil <= start[c]
     /\ WillReclaim(c, "reclaim")

\* The switch on the status of the row c read.  A truncated response cannot be
\* decoded.
Decide(c) ==
  \/ table.status = "succeeded" /\ table.whole /\ Replay(c)
  \/ table.status = "succeeded" /\ ~table.whole /\ Refuse(c, "store_unavailable")
  \/ table.status = "processing" /\ Refuse(c, "in_progress")
  \/ /\ table.status = "failed_retryable" /\ table.lockedUntil > start[c]
     /\ Refuse(c, "retry_backoff")
  \/ /\ table.status = "failed_retryable" /\ table.lockedUntil <= start[c]
     /\ WillReclaim(c, "reclaim")

\* Mutant: the fingerprint of the stored request is not compared.
ConflictNever(c) == FALSE

\* The key was used for another request.
Conflict(c) == table.print # print[c]

\* GetByScopeAndKeyHash, then the checks on what it returned.
GetExisting(c) ==
  /\ pc[c] = "get"
  /\ \/ ~Stored /\ Refuse(c, "store_unavailable")
     \/ Stored /\ Conflict(c) /\ Refuse(c, "key_conflict")
     \/ /\ Stored /\ ~Conflict(c) /\ table.expiresAt <= start[c]
        /\ WillReclaim(c, "reclaim_expired")
     \/ Stored /\ ~Conflict(c) /\ table.expiresAt > start[c] /\ Decide(c)
  /\ UNCHANGED <<now, table, lastId, print, start, fits, done>>

\* The second read, when an expired row was not c's to reclaim.
GetLatest(c) ==
  /\ pc[c] = "get_latest"
  /\ \/ ~Stored /\ Refuse(c, "store_unavailable")
     \/ Stored /\ Conflict(c) /\ Refuse(c, "key_conflict")
     \/ Stored /\ ~Conflict(c) /\ Decide(c)
  /\ UNCHANGED <<now, table, lastId, print, start, fits, done>>

\* Mutant: the UPDATE does not compare the status.
CanReclaimAnyStatus(c) ==
  Stored /\ table.id = rid[c] /\ table.lockedUntil <= start[c]

\* The WHERE clause of TryReclaim.
CanReclaim(c) ==
  /\ Stored /\ table.id = rid[c]
  /\ table.status = seen[c]
  /\ table.lockedUntil <= start[c]

\* TryReclaim of the row c read: UPDATE ... WHERE id, status and lock match.
TryReclaim(c) ==
  /\ pc[c] \in {"reclaim_expired", "reclaim"}
  /\ \/ /\ CanReclaim(c)
        /\ table' = [table EXCEPT !.status = "processing",
                                  !.lockedUntil = start[c] + ProcessingTimeout,
                                  !.expiresAt = start[c] + TTL]
        /\ \/ GoTo(c, "execute")
           \/ Return(c, "store_unavailable")
     \/ /\ ~CanReclaim(c)
        /\ IF pc[c] = "reclaim" THEN Return(c, "in_progress") ELSE GoTo(c, "get_latest")
        /\ table' = table
  /\ UNCHANGED <<now, lastId, print, start, seen, rid, source, fits, done>>

\* The caller's operation ends.
Execute(c) ==
  /\ pc[c] = "execute"
  /\ \/ /\ \E f \in BOOLEAN : fits' = [fits EXCEPT ![c] = f]
        /\ done' = done \cup {c}
        /\ GoTo(c, "mark_succeeded")
     \/ /\ UNCHANGED <<fits, done>>
        /\ GoTo(c, "mark_failed")
  /\ UNCHANGED <<now, table, lastId, print, start, seen, rid, source>>

\* Mark* update the row with this id, whatever its status.
Ours(c) == Stored /\ table.id = rid[c]

\* What MarkSucceeded writes; the response is cut off at max_stored_response_len.
StoredResponse(c) ==
  [table EXCEPT !.status = "succeeded", !.lockedUntil = 0, !.body = c,
                !.whole = fits[c], !.expiresAt = start[c] + TTL]

MarkSucceeded(c) ==
  /\ pc[c] = "mark_succeeded"
  /\ \/ /\ table' = IF Ours(c) THEN StoredResponse(c) ELSE table
        /\ Return(c, "result")
     \/ /\ table' = IF Ours(c) THEN StoredResponse(c) ELSE table
        /\ Return(c, "store_unavailable")
  /\ UNCHANGED <<now, lastId, print, start, seen, rid, source, fits, done>>

\* The operation's error is returned whether or not the row was marked.
MarkFailedRetryable(c) ==
  /\ pc[c] = "mark_failed"
  /\ \/ table' = IF Ours(c)
                 THEN [table EXCEPT !.status = "failed_retryable",
                                    !.lockedUntil = now + FailedRetryBackoff,
                                    !.expiresAt = start[c] + TTL]
                 ELSE table
     \/ table' = table
  /\ Return(c, "operation_error")
  /\ UNCHANGED <<now, lastId, print, start, seen, rid, source, fits, done>>

\* A statement that never reached the table: the store is unavailable, the
\* caller gives up and the row stays as it is.
StoreFails(c) ==
  /\ pc[c] \in {"create", "get", "reclaim_expired", "get_latest", "reclaim",
                "mark_succeeded"}
  /\ Return(c, "store_unavailable")
  /\ UNCHANGED <<now, table, lastId, print, start, seen, rid, source, fits, done>>

\* The process dies.
Crash(c) ==
  /\ pc[c] \notin {"new", "end"}
  /\ Return(c, "crashed")
  /\ UNCHANGED <<now, table, lastId, print, start, seen, rid, source, fits, done>>

\* IdempotencyCleanupService.
DeleteExpired ==
  /\ Stored /\ table.expiresAt <= now
  /\ table' = NoRecord
  /\ UNCHANGED <<now, lastId, pc, print, start, seen, rid, answer, source, fits, done>>

Tick ==
  /\ now < MaxTime
  /\ now' = now + 1
  /\ UNCHANGED <<table, lastId, pc, print, start, seen, rid, answer, source, fits, done>>

Caller(c) ==
  \/ Begin(c) \/ CreateProcessing(c) \/ GetExisting(c) \/ GetLatest(c)
  \/ TryReclaim(c) \/ Execute(c) \/ MarkSucceeded(c) \/ MarkFailedRetryable(c)
  \/ StoreFails(c) \/ Crash(c)

Next == (\E c \in Callers : Caller(c)) \/ DeleteExpired \/ Tick

Spec == Init /\ [][Next]_vars

-----------------------------------------------------------------------------
\* Callers that hold a claim, as far as they know.
Running == {c \in Callers : pc[c] \in {"execute", "mark_succeeded", "mark_failed"}}

\* The key has been in use for less than TTL.
NoneExpired == \A c \in Callers : pc[c] # "new" => now < start[c] + TTL

\* Within a TTL of its first use a key's operation takes effect at most once,
\* whatever callers race, fail, crash or retry (Execute, CreateProcessing and
\* TryReclaim).
OnceBeforeExpiry == NoneExpired => \A a, b \in done : a = b

\* Within a TTL at most one caller is between its claim and its mark, and none
\* is once the operation has taken effect for another.
OneAtATime ==
  NoneExpired => \A a \in Running, b \in Running \cup done : a = b

\* A replay hands out the whole response of an operation that did take effect
\* for the same request (MarkSucceeded, decodeStoredResponse), at any age of the
\* record and after any takeover.
ReplayIsARealAnswer ==
  \A c \in Callers : answer[c] = "replayed" =>
    /\ source[c] \in done
    /\ print[source[c]] = print[c]
    /\ fits[source[c]]

\* Within a TTL a stored success is final: no reclaim, late mark, failure or
\* cleanup changes or removes the row.
AnswerIsFinal ==
  [][NoneExpired /\ Stored /\ table.status = "succeeded" => table' = table]_vars

\* Requests are short: none is under way when the clock moves on, so that none
\* lives to see its own claim expire.
PromptSpec ==
  Init /\ [][Next /\ (now' # now => \A c \in Callers : pc[c] \in {"new", "end"})]_vars

\* Two requests that run at the same time do not both take effect: "concurrent
\* same-key requests should execute business side-effect once"
\* (service/idempotency_test.go).
ConcurrentOnce ==
  \A a, b \in done : start[a] = start[b] => a = b

=============================================================================

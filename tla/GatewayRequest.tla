---------------------------- MODULE GatewayRequest ----------------------------
(***************************************************************************)
(* A client's request in the Messages handler of a gateway                 *)
(* (handler/gateway_handler.go), from the choice of an account to the end  *)
(* of the handler: failover between accounts (gatewayruntime/failover),    *)
(* the lock that serializes user messages of an account                    *)
(* (service/user_msg_queue_service.go, handler/user_msg_queue_helper.go),  *)
(* the reservation, charge and release it publishes                        *)
(* (service/billing_lifecycle.go), and the response writers that hold      *)
(* back the end of a stream or a whole response until the charge is        *)
(* published (handler/streaming_billing_v2.go, queue_first_billing.go).    *)
(*                                                                         *)
(* What the request passed before, its user's wait queue and slot, is      *)
(* ConcurrencySlots; what becomes of the published events is               *)
(* BillingPipeline.  Upstream accounts, Redis and the client are external: *)
(* an account may refuse, break off or answer, a call that reports an      *)
(* error may have taken effect, and a client may leave at any time.        *)
(***************************************************************************)
EXTENDS Integers, FiniteSets

CONSTANTS
  Requests,    \* client requests
  Accounts,    \* upstream accounts
  Mixes,       \* the modes of requests that may come together
  Primary,     \* Primary[r]: accounts of r's group that serve its model
  Fallback,    \* Fallback[r]: those of the group for too long prompts, if any
  Serialized,  \* accounts whose user messages are serialized
  MaxSwitches, \* MaxSwitches[r]: gateway.max_account_switches, or that of Gemini
  MaxSame,     \* maxSameAccountRetries
  NoAccount,   \* no account
  Free,        \* nobody holds the lock
  Orphan       \* an id nobody will release holds it

\* A stream billed by reservation, a response held back until it is charged,
\* and a response written through and charged afterwards.
AllModes == {"stream", "buffer", "plain"}

\* How Forward fails: an UpstreamFailoverError (status 503 or another, of an
\* account in pool mode to be tried again or not), a PromptTooLongError, a
\* BetaBlockedError, anything else.
Switchable == {"unavailable", "retryable", "rejected"}
Errors == Switchable \cup {"too_long", "blocked", "failed"}

\* Pieces of a response: content up to the end, the end (of a stream, or the
\* whole of a plain answer), an error message, a mock answer.
Content == {"body", "end"}
Pieces == Content \cup {"error", "mock"}

ASSUME GatewayAssumption ==
  /\ Mixes \subseteq [Requests -> AllModes \cup {"absent"}]
  /\ Primary \in [Requests -> SUBSET Accounts]
  /\ Fallback \in [Requests -> SUBSET Accounts]
  /\ Serialized \subseteq Accounts
  /\ MaxSwitches \in [Requests -> Nat]
  /\ MaxSame \in Nat
  /\ IsFiniteSet(Accounts) /\ NoAccount \notin Accounts
  /\ Free # Orphan
  /\ Free \notin Requests /\ Orphan \notin Requests

VARIABLES
  pc,        \* pc[r]: what the handler does next
  mode,      \* mode[r]: one of AllModes, or "absent": r does not come
  gone,      \* clients that left: their request's context is done
  group,     \* group[r]: "primary", or "fallback" once it is used
  attempt,   \* attempt[r]: calls of Forward
  acct,      \* acct[r]: the account of this attempt
  failed,    \* failed[r]: FailedAccountIDs
  same,      \* same[r]: SameAccountRetryCount
  switches,  \* switches[r]: SwitchCount
  last,      \* last[r]: LastFailoverErr
  error,     \* error[r]: the error Forward returned
  slot,      \* slot[r]: the account whose slot r occupies
  queued,    \* requests with a queueRelease that has not been called
  lock,      \* lock[a]: who holds the user message lock
  lasting,   \* locks that lost their TTL
  lapsed,    \* requests whose lock was taken from them
  started,   \* streamStarted: a ping was written
  capture,   \* capture[r]: the writer in place of c.Writer
  held,      \* held[r]: what that writer holds back
  shown,     \* shown[r]: what was written to the client
  published, \* streamReservationPublished
  finalized, \* streamReservationFinalized
  open,      \* open[r]: accounts with a reservation not finalized or released
  charged,   \* requests whose charge is in the stream
  unsure     \* requests one of whose publications reported an error

reqVars   == <<mode, group>>
stateVars == <<attempt, acct, failed, same, switches, last, error>>
lockVars  == <<queued, lock, lasting, lapsed>>
outVars   == <<started, capture, held, shown>>
billVars  == <<published, finalized, open, charged, unsure>>
vars == <<pc, gone, slot, reqVars, stateVars, lockVars, outVars, billVars>>

Pcs == {"select", "queue", "reserve", "sending", "streaming", "failed",
        "record", "commit", "return", "done", "dead"}
NoRetries == [a \in Accounts |-> 0]

TypeOK ==
  /\ pc \in [Requests -> Pcs]
  /\ mode \in [Requests -> AllModes \cup {"absent"}]
  /\ gone \subseteq Requests
  /\ group \in [Requests -> {"primary", "fallback"}]
  /\ attempt \in [Requests -> Nat]
  /\ acct \in [Requests -> Accounts \cup {NoAccount}]
  /\ failed \in [Requests -> SUBSET Accounts]
  /\ same \in [Requests -> [Accounts -> 0 .. MaxSame]]
  /\ switches \in [Requests -> Nat]
  /\ last \in [Requests -> Switchable \cup {"none"}]
  /\ error \in [Requests -> Errors \cup {"none"}]
  /\ slot \in [Requests -> Accounts \cup {NoAccount}]
  /\ queued \subseteq Requests
  /\ lock \in [Accounts -> Requests \cup {Free, Orphan}]
  /\ lasting \subseteq Accounts
  /\ lapsed \subseteq Requests
  /\ started \subseteq Requests
  /\ capture \in [Requests -> {"none", "terminal", "buffer"}]
  /\ held \in [Requests -> SUBSET (Nat \X Pieces)]
  /\ shown \in [Requests -> SUBSET (Nat \X Pieces)]
  /\ published \subseteq Requests
  /\ finalized \subseteq Requests
  /\ open \in [Requests -> SUBSET Accounts]
  /\ charged \subseteq Requests
  /\ unsure \subseteq Requests

Init ==
  /\ mode \in Mixes
  /\ pc = [r \in Requests |-> IF mode[r] = "absent" THEN "done" ELSE "select"]
  /\ gone = {}
  /\ group = [r \in Requests |-> "primary"]
  /\ attempt = [r \in Requests |-> 0]
  /\ acct = [r \in Requests |-> NoAccount]
  /\ failed = [r \in Requests |-> {}]
  /\ same = [r \in Requests |-> NoRetries]
  /\ switches = [r \in Requests |-> 0]
  /\ last = [r \in Requests |-> "none"]
  /\ error = [r \in Requests |-> "none"]
  /\ slot = [r \in Requests |-> NoAccount]
  /\ queued = {}
  /\ lock = [a \in Accounts |-> Free]
  /\ lasting = {} /\ lapsed = {}
  /\ started = {}
  /\ capture = [r \in Requests |-> "none"]
  /\ held = [r \in Requests |-> {}]
  /\ shown = [r \in Requests |-> {}]
  /\ published = {} /\ finalized = {}
  /\ open = [r \in Requests |-> {}]
  /\ charged = {} /\ unsure = {}

-----------------------------------------------------------------------------
(* What the steps of the handler do *)

Goto(r, p) == pc' = [pc EXCEPT ![r] = p]
Alive(r) == pc[r] \notin {"done", "dead"}

\* The accounts the scheduler may offer.
Candidates(r) ==
  (IF group[r] = "primary" THEN Primary[r] ELSE Fallback[r]) \ failed[r]

\* While the client of a stream waits it is sent pings.
MayPing(r) ==
  \/ started' = started
  \/ mode[r] = "stream" /\ started' = started \cup {r}

Contents(S) == {x \in S : x[2] \in Content}
Holds(r, piece) == \E x \in held[r] : x[2] = piece

\* A buffered response is committed: too large a one is replaced by an error,
\* one that could not be spilled to disk is lost.
CommitBuffer(r, response) ==
  /\ \/ shown' = [shown EXCEPT ![r] = @ \cup response]
     \/ /\ Contents(response) # {}
        /\ \/ shown' = [shown EXCEPT ![r] = @ \cup {<<attempt[r], "error">>}]
           \/ shown' = shown
  /\ held' = [held EXCEPT ![r] = {}]
  /\ capture' = [capture EXCEPT ![r] = "none"]

\* An error message is written, as an SSE event or as JSON, and a buffered
\* response is committed with it.  The terminal writer passes on whole frames
\* that precede the end of the stream and keeps the rest: JSON is no frame.
Reply(r, sse) ==
  LET message == <<attempt[r], "error">>
      passed == sse /\ ~Holds(r, "end") IN
  /\ \/ /\ capture[r] = "none"
        /\ shown' = [shown EXCEPT ![r] = @ \cup {message}]
        /\ UNCHANGED <<capture, held>>
     \/ /\ capture[r] = "buffer"
        /\ CommitBuffer(r, held[r] \cup {message})
     \/ /\ capture[r] = "terminal" /\ passed
        /\ shown' = [shown EXCEPT ![r] = @ \cup held[r] \cup {message}]
        /\ held' = [held EXCEPT ![r] = {}]
        /\ capture' = capture
     \/ /\ capture[r] = "terminal" /\ ~passed
        /\ held' = [held EXCEPT ![r] = @ \cup {message}]
        /\ UNCHANGED <<shown, capture>>
  /\ started' = started

\* Mutant: the script deletes the lock whoever holds it.
ReleaseAnyones(r) ==
  LET a == acct[r] IN
  /\ queued' = queued \ {r}
  /\ lapsed' = lapsed \ {r}
  /\ IF r \in queued
     THEN \/ /\ lock' = [lock EXCEPT ![a] = Free]
             /\ lasting' = lasting \ {a}
          \/ /\ lock' = [lock EXCEPT ![a] = IF @ = r THEN Orphan ELSE @]
             /\ lasting' = lasting
     ELSE UNCHANGED <<lock, lasting>>

\* queueRelease, once: the script deletes the lock if it still is ours.  When
\* Redis fails nobody tries again.
ReleaseQueue(r) ==
  LET a == acct[r] IN
  /\ queued' = queued \ {r}
  /\ lapsed' = lapsed \ {r}
  /\ IF r \in queued /\ lock[a] = r
     THEN \/ /\ lock' = [lock EXCEPT ![a] = Free]
             /\ lasting' = lasting \ {a}
          \/ /\ lock' = [lock EXCEPT ![a] = Orphan]
             /\ lasting' = lasting
     ELSE UNCHANGED <<lock, lasting>>

ReleaseSlot(r) == slot' = [slot EXCEPT ![r] = NoAccount]

\* PublishStreamingRelease: on an error the event may have been stored.
PublishRelease(r) ==
  \/ /\ open' = [open EXCEPT ![r] = @ \ {acct[r]}]
     /\ unsure' = unsure
  \/ /\ unsure' = unsure \cup {r}
     /\ open' \in {open, [open EXCEPT ![r] = @ \ {acct[r]}]}

\* Mutant: the flag is reset, the release forgotten.
AbandonUnreleased(r) ==
  /\ capture' = [capture EXCEPT ![r] = "none"]
  /\ held' = [held EXCEPT ![r] = {}]
  /\ published' = published \ {r}
  /\ UNCHANGED <<started, shown, finalized, charged, open, unsure>>

\* releaseStreamReservation, and the Discard of a buffered response: nothing
\* of this attempt is left in a writer, nothing reserved for its account.
Abandon(r) ==
  /\ capture' = [capture EXCEPT ![r] = "none"]
  /\ held' = [held EXCEPT ![r] = {}]
  /\ UNCHANGED <<started, shown, finalized, charged>>
  /\ IF r \in published \ finalized
     THEN PublishRelease(r) /\ published' = published \ {r}
     ELSE UNCHANGED <<published, open, unsure>>

-----------------------------------------------------------------------------
(* Choosing an account *)

\* SelectAccountWithLoadAwareness offers an account whose slot is free, or
\* becomes free while the client waits.
Select(r) ==
  /\ pc[r] = "select"
  /\ \E a \in Candidates(r) :
       /\ acct' = [acct EXCEPT ![r] = a]
       /\ slot' = [slot EXCEPT ![r] = a]
       /\ Goto(r, IF a \in Serialized THEN "queue" ELSE "reserve")
  /\ MayPing(r)
  /\ UNCHANGED <<gone, reqVars, attempt, failed, same, switches, last, error,
                 lockVars, capture, held, shown, billVars>>

\* The account's queue is full, or its slot did not become free in time.
SlotTimeout(r) ==
  /\ pc[r] = "select" /\ Candidates(r) # {}
  /\ Reply(r, r \in started)
  /\ Goto(r, "return")
  /\ UNCHANGED <<gone, slot, reqVars, stateVars, lockVars, billVars>>

\* A warm-up request an account answers itself.
Intercept(r) ==
  /\ pc[r] = "select" /\ Candidates(r) # {}
  /\ shown' = [shown EXCEPT ![r] = @ \cup {<<attempt[r], "mock">>}]
  /\ Goto(r, "return")
  /\ UNCHANGED <<gone, slot, reqVars, stateVars, lockVars, started, capture,
                 held, billVars>>

\* Mutant: the failed accounts are not forgotten after the backoff.
BackoffKeepsFailed(r) ==
  /\ pc[r] = "select" /\ failed[r] # {} /\ last[r] = "unavailable"
  /\ r \notin gone
  /\ UNCHANGED vars

\* Mutant: the switches are forgotten as well.
BackoffForgetsSwitches(r) ==
  /\ pc[r] = "select" /\ failed[r] # {}
  /\ last[r] = "unavailable" /\ r \notin gone
  /\ failed' = [failed EXCEPT ![r] = {}]
  /\ switches' = [switches EXCEPT ![r] = 0]
  /\ UNCHANGED <<pc, gone, slot, reqVars, attempt, acct, same, last, error,
                 lockVars, outVars, billVars>>

\* No account, the last answer was 503: wait, forget what failed and go on.
Backoff(r) ==
  /\ pc[r] = "select" /\ failed[r] # {}
  /\ last[r] = "unavailable" /\ switches[r] <= MaxSwitches[r]
  /\ r \notin gone
  /\ failed' = [failed EXCEPT ![r] = {}]
  /\ UNCHANGED <<pc, gone, slot, reqVars, attempt, acct, same, switches, last,
                 error, lockVars, outVars, billVars>>

\* No account, otherwise; or the client leaves during the backoff.
NoneLeft(r) ==
  /\ pc[r] = "select"
  /\ \/ /\ failed[r] = {} \/ last[r] # "unavailable"
        /\ Reply(r, r \in started)
     \/ /\ failed[r] # {} /\ last[r] = "unavailable" /\ r \in gone
        /\ UNCHANGED outVars
  /\ Goto(r, "return")
  /\ UNCHANGED <<gone, slot, reqVars, stateVars, lockVars, billVars>>

-----------------------------------------------------------------------------
(* The user message queue *)

\* TryAcquire, at once or after polling, under a fresh id.
QueueAcquire(r) ==
  LET a == acct[r] IN
  /\ pc[r] = "queue" /\ lock[a] = Free
  /\ lock' = [lock EXCEPT ![a] = r]
  /\ queued' = queued \cup {r}
  /\ Goto(r, "reserve")
  /\ MayPing(r)
  /\ UNCHANGED <<gone, slot, reqVars, stateVars, lasting, lapsed, capture,
                 held, shown, billVars>>

\* A Redis error counts as acquired, without an id to release; the lock may
\* have been taken.
QueueFailOpen(r) ==
  LET a == acct[r] IN
  /\ pc[r] = "queue"
  /\ \/ lock' = lock
     \/ lock[a] = Free /\ lock' = [lock EXCEPT ![a] = Orphan]
  /\ Goto(r, "reserve")
  /\ UNCHANGED <<gone, slot, reqVars, stateVars, queued, lasting, lapsed,
                 outVars, billVars>>

\* The wait times out, or the client leaves while it lasts: the request goes
\* on without the lock.
QueueTimeout(r) ==
  /\ pc[r] = "queue"
  /\ Goto(r, "reserve")
  /\ MayPing(r)
  /\ UNCHANGED <<gone, slot, reqVars, stateVars, lockVars, capture, held,
                 shown, billVars>>

\* Mutant: the cleanup takes expiring locks for orphans.
ForceReleaseExpiring(a) ==
  /\ lock[a] # Free /\ a \notin lasting
  /\ lock' = [lock EXCEPT ![a] = Free]
  /\ lapsed' = lapsed \cup ({lock[a]} \cap Requests)
  /\ UNCHANGED <<pc, gone, slot, reqVars, stateVars, queued, lasting, outVars,
                 billVars>>

\* The cleanup worker deletes locks without a TTL.
ForceRelease(a) ==
  /\ lock[a] # Free /\ a \in lasting
  /\ lock' = [lock EXCEPT ![a] = Free]
  /\ lasting' = lasting \ {a}
  /\ lapsed' = lapsed \cup ({lock[a]} \cap Requests)
  /\ UNCHANGED <<pc, gone, slot, reqVars, stateVars, queued, outVars, billVars>>

\* The TTL of a lock ends.
LockExpires(a) ==
  /\ lock[a] # Free /\ a \notin lasting
  /\ lock' = [lock EXCEPT ![a] = Free]
  /\ lapsed' = lapsed \cup ({lock[a]} \cap Requests)
  /\ UNCHANGED <<pc, gone, slot, reqVars, stateVars, queued, lasting, outVars,
                 billVars>>

\* A lock loses its TTL in a recovery of Redis.
LoseTTL(a) ==
  /\ lock[a] # Free /\ a \notin lasting
  /\ lasting' = lasting \cup {a}
  /\ UNCHANGED <<pc, gone, slot, reqVars, stateVars, queued, lock, lapsed,
                 outVars, billVars>>

-----------------------------------------------------------------------------
(* Forwarding *)

\* Mutant: a reservation that fails keeps the account's slot.
ReserveFailsKeepsSlot(r) ==
  /\ pc[r] = "reserve" /\ mode[r] = "stream" /\ r \notin published
  /\ unsure' = unsure \cup {r}
  /\ open' \in {open, [open EXCEPT ![r] = @ \cup {acct[r]}]}
  /\ slot' = slot
  /\ ReleaseQueue(r)
  /\ Reply(r, FALSE)
  /\ Goto(r, "return")
  /\ UNCHANGED <<gone, reqVars, stateVars, published, finalized, charged>>

\* PublishStreamingReserve reports an error; the event may have been stored.
ReserveFails(r) ==
  /\ pc[r] = "reserve" /\ mode[r] = "stream" /\ r \notin published
  /\ unsure' = unsure \cup {r}
  /\ open' \in {open, [open EXCEPT ![r] = @ \cup {acct[r]}]}
  /\ ReleaseSlot(r)
  /\ ReleaseQueue(r)
  /\ Reply(r, FALSE)
  /\ Goto(r, "return")
  /\ UNCHANGED <<gone, reqVars, stateVars, published, finalized, charged>>

\* The reservation of a stream is published, the writer put in place, and
\* Forward called.
Forward(r) ==
  /\ pc[r] = "reserve"
  /\ \/ /\ mode[r] = "stream" /\ r \notin published
        /\ open' = [open EXCEPT ![r] = @ \cup {acct[r]}]
        /\ published' = published \cup {r}
        /\ capture' = [capture EXCEPT ![r] = "terminal"]
     \/ /\ mode[r] # "stream" \/ r \in published
        /\ capture' = IF mode[r] = "buffer"
                      THEN [capture EXCEPT ![r] = "buffer"] ELSE capture
        /\ UNCHANGED <<open, published>>
  /\ attempt' = [attempt EXCEPT ![r] = @ + 1]
  /\ Goto(r, "sending")
  /\ UNCHANGED <<gone, slot, reqVars, acct, failed, same, switches, last, error,
                 lockVars, started, held, shown, finalized, charged, unsure>>

\* The upstream accepts: OnUpstreamAccepted releases the lock early.
Accepted(r) ==
  /\ pc[r] = "sending"
  /\ ReleaseQueue(r)
  /\ Goto(r, "streaming")
  /\ UNCHANGED <<gone, slot, reqVars, stateVars, outVars, billVars>>

\* Content before the end is written: held by the buffer, passed on in whole
\* frames by the terminal writer.
WriteBody(r) ==
  LET piece == <<attempt[r], "body">> IN
  /\ pc[r] = "streaming"
  /\ \/ /\ capture[r] # "none"
        /\ held' = [held EXCEPT ![r] = @ \cup {piece}]
        /\ shown' = shown
     \/ /\ capture[r] # "buffer"
        /\ shown' = [shown EXCEPT ![r] = @ \cup held[r] \cup {piece}]
        /\ held' = [held EXCEPT ![r] = {}]
  /\ UNCHANGED <<pc, gone, slot, reqVars, stateVars, lockVars, started, capture,
                 billVars>>

\* Forward returns; the handler releases lock and slot.
Returned(r, p) ==
  /\ ReleaseQueue(r)
  /\ ReleaseSlot(r)
  /\ Goto(r, p)

\* Mutant: the terminal writer passes the end on.
FinishesUnheld(r) ==
  /\ pc[r] = "streaming"
  /\ Returned(r, "record")
  /\ shown' = [shown EXCEPT ![r] = @ \cup held[r] \cup {<<attempt[r], "end">>}]
  /\ held' = [held EXCEPT ![r] = {}]
  /\ UNCHANGED <<gone, reqVars, stateVars, started, capture, billVars>>

\* Forward succeeds, with the end written; a terminal frame is kept.
Finishes(r) ==
  LET piece == <<attempt[r], "end">> IN
  /\ pc[r] = "streaming"
  /\ Returned(r, "record")
  /\ IF capture[r] = "none"
     THEN /\ shown' = [shown EXCEPT ![r] = @ \cup {piece}]
          /\ held' = held
     ELSE /\ held' = [held EXCEPT ![r] = @ \cup {piece}]
          /\ shown' = shown
  /\ UNCHANGED <<gone, reqVars, stateVars, started, capture, billVars>>

\* Forward fails before the upstream accepted.
Refused(r) ==
  /\ pc[r] = "sending"
  /\ Returned(r, "failed")
  /\ \E e \in Errors : error' = [error EXCEPT ![r] = e]
  /\ UNCHANGED <<gone, reqVars, attempt, acct, failed, same, switches, last,
                 outVars, billVars>>

\* Forward fails after it.
Breaks(r) ==
  /\ pc[r] = "streaming"
  /\ Returned(r, "failed")
  /\ \E e \in {"retryable", "rejected", "failed"} :
       error' = [error EXCEPT ![r] = e]
  /\ UNCHANGED <<gone, reqVars, attempt, acct, failed, same, switches, last,
                 outVars, billVars>>

-----------------------------------------------------------------------------
(* When Forward has failed *)

\* Mutant: the guard on written bytes is missing.
NothingWritten(r) == FALSE

\* c.Writer.Size() has changed: the terminal writer reports what reached the
\* client, the buffer what it holds.
Written(r) ==
  LET S == IF capture[r] = "buffer" THEN held[r] ELSE shown[r] IN
  \E x \in Contents(S) : x[1] = attempt[r]

\* The handler returns.
Leave(r) ==
  /\ error' = [error EXCEPT ![r] = "none"]
  /\ Goto(r, "return")
  /\ UNCHANGED <<attempt, acct, failed, same, switches, last>>

\* The loop goes on.
Again(r) ==
  /\ Abandon(r)
  /\ error' = [error EXCEPT ![r] = "none"]
  /\ acct' = [acct EXCEPT ![r] = NoAccount]
  /\ Goto(r, "select")

\* Bytes are out: an error event ends the response.
GiveUpStreamed(r) ==
  /\ pc[r] = "failed" /\ error[r] \in Switchable /\ Written(r)
  /\ Reply(r, TRUE)
  /\ Leave(r)
  /\ UNCHANGED <<gone, slot, reqVars, lockVars, billVars>>

CanSwitch(r) ==
  pc[r] = "failed" /\ error[r] \in Switchable /\ ~Written(r)

\* Mutant: one retry too many.
MayRetryLate(r) == error[r] = "retryable" /\ same[r][acct[r]] <= MaxSame

MayRetry(r) == error[r] = "retryable" /\ same[r][acct[r]] < MaxSame

\* HandleFailoverError: the same account once more.
RetrySame(r) ==
  /\ CanSwitch(r) /\ MayRetry(r) /\ r \notin gone
  /\ same' = [same EXCEPT ![r][acct[r]] = @ + 1]
  /\ last' = [last EXCEPT ![r] = error[r]]
  /\ Again(r)
  /\ UNCHANGED <<gone, slot, reqVars, attempt, failed, switches, lockVars>>

\* HandleFailoverError: another account.
Switch(r) ==
  /\ CanSwitch(r) /\ ~MayRetry(r) /\ switches[r] < MaxSwitches[r]
  /\ failed' = [failed EXCEPT ![r] = @ \cup {acct[r]}]
  /\ switches' = [switches EXCEPT ![r] = @ + 1]
  /\ last' = [last EXCEPT ![r] = error[r]]
  /\ Again(r)
  /\ UNCHANGED <<gone, slot, reqVars, attempt, same, lockVars>>

\* HandleFailoverError: no switch is left.
Exhausted(r) ==
  /\ CanSwitch(r) /\ ~MayRetry(r) /\ switches[r] >= MaxSwitches[r]
  /\ Reply(r, r \in started)
  /\ Leave(r)
  /\ UNCHANGED <<gone, slot, reqVars, lockVars, billVars>>

\* HandleFailoverError: the client leaves while it sleeps.
Canceled(r) ==
  /\ CanSwitch(r) /\ r \in gone
  /\ MayRetry(r) \/ switches[r] < MaxSwitches[r]
  /\ IF capture[r] = "buffer"
     THEN /\ capture' = [capture EXCEPT ![r] = "none"]
          /\ held' = [held EXCEPT ![r] = {}]
     ELSE UNCHANGED <<capture, held>>
  /\ Leave(r)
  /\ UNCHANGED <<gone, slot, reqVars, lockVars, started, shown, billVars>>

\* A prompt too long for the group's accounts: once, another group is tried,
\* with a failover state of its own.
UseFallback(r) ==
  /\ pc[r] = "failed" /\ error[r] = "too_long"
  /\ group[r] = "primary" /\ Fallback[r] # {}
  /\ group' = [group EXCEPT ![r] = "fallback"]
  /\ failed' = [failed EXCEPT ![r] = {}]
  /\ same' = [same EXCEPT ![r] = NoRetries]
  /\ switches' = [switches EXCEPT ![r] = 0]
  /\ last' = [last EXCEPT ![r] = "none"]
  /\ Again(r)
  /\ UNCHANGED <<gone, slot, mode, attempt, lockVars>>

\* The prompt and no group to try, or one that cannot be used; a blocked
\* request.
EndWithError(r) ==
  /\ pc[r] = "failed" /\ error[r] \in {"too_long", "blocked"}
  /\ \/ Reply(r, FALSE)
     \/ error[r] = "too_long" /\ Fallback[r] # {} /\ Reply(r, r \in started)
  /\ Leave(r)
  /\ UNCHANGED <<gone, slot, reqVars, lockVars, billVars>>

\* Any other error: Forward wrote a message, or ensureForwardErrorResponse
\* does unless something, were it a ping, was written before.
ForwardFailed(r) ==
  /\ pc[r] = "failed" /\ error[r] = "failed"
  /\ \/ \E sse \in BOOLEAN : Reply(r, sse)
     \/ /\ Written(r) \/ r \in started
        /\ IF capture[r] = "buffer" THEN CommitBuffer(r, held[r])
                                    ELSE UNCHANGED <<capture, held, shown>>
        /\ started' = started
  /\ Leave(r)
  /\ UNCHANGED <<gone, slot, reqVars, lockVars, billVars>>

-----------------------------------------------------------------------------
(* When Forward has succeeded *)

\* RecordUsage publishes the charge.  On an error the event may have been
\* stored: a stream ends all the same, a buffered response is dropped for an
\* error, a response already written stays.
RecordOk(r) ==
  /\ pc[r] = "record"
  /\ charged' = charged \cup {r}
  /\ \/ /\ mode[r] = "stream"
        /\ finalized' = finalized \cup {r}
        /\ open' = [open EXCEPT ![r] = @ \ {acct[r]}]
     \/ /\ mode[r] # "stream"
        /\ UNCHANGED <<finalized, open>>
  /\ Goto(r, IF mode[r] = "plain" THEN "return" ELSE "commit")
  /\ UNCHANGED <<gone, slot, reqVars, stateVars, lockVars, outVars, published,
                 unsure>>

RecordFails(r) ==
  /\ pc[r] = "record"
  /\ unsure' = unsure \cup {r}
  /\ \/ UNCHANGED <<charged, open>>
     \/ /\ charged' = charged \cup {r}
        /\ open' = [open EXCEPT ![r] = @ \ {acct[r]}]
  /\ \/ /\ mode[r] = "buffer"
        /\ capture' = [capture EXCEPT ![r] = "none"]
        /\ held' = [held EXCEPT ![r] = {}]
        /\ shown' = [shown EXCEPT ![r] = @ \cup {<<attempt[r], "error">>}]
     \/ /\ mode[r] # "buffer"
        /\ UNCHANGED <<capture, held, shown>>
  /\ Goto(r, IF mode[r] = "stream" THEN "commit" ELSE "return")
  /\ UNCHANGED <<gone, slot, reqVars, stateVars, lockVars, started, published,
                 finalized>>

\* CommitTerminal, or the commit of the buffer.
Commit(r) ==
  /\ pc[r] = "commit"
  /\ \/ capture[r] = "buffer" /\ CommitBuffer(r, held[r])
     \/ /\ capture[r] = "terminal"
        /\ shown' = [shown EXCEPT ![r] = @ \cup held[r]]
        /\ held' = [held EXCEPT ![r] = {}]
        /\ capture' = [capture EXCEPT ![r] = "none"]
  /\ Goto(r, "return")
  /\ UNCHANGED <<gone, slot, reqVars, stateVars, lockVars, started, billVars>>

\* The variables of the handler end with it.
Forget(r) ==
  /\ group' = [group EXCEPT ![r] = "primary"]
  /\ attempt' = [attempt EXCEPT ![r] = 0]
  /\ acct' = [acct EXCEPT ![r] = NoAccount]
  /\ failed' = [failed EXCEPT ![r] = {}]
  /\ same' = [same EXCEPT ![r] = NoRetries]
  /\ switches' = [switches EXCEPT ![r] = 0]
  /\ last' = [last EXCEPT ![r] = "none"]
  /\ error' = [error EXCEPT ![r] = "none"]
  /\ mode' = mode

\* The deferred releaseStreamReservation.
Return(r) ==
  /\ pc[r] = "return"
  /\ Abandon(r)
  /\ Forget(r)
  /\ Goto(r, "done")
  /\ UNCHANGED <<gone, slot, lockVars>>

-----------------------------------------------------------------------------
(* The client and the process *)

ClientLeaves(r) ==
  /\ Alive(r) /\ r \notin gone
  /\ gone' = gone \cup {r}
  /\ UNCHANGED <<pc, slot, reqVars, stateVars, lockVars, outVars, billVars>>

\* wrapReleaseOnDone: the context of a client that left releases the slot and
\* the lock, while the handler goes on.
SlotOnDone(r) ==
  /\ Alive(r) /\ r \in gone /\ slot[r] # NoAccount
  /\ ReleaseSlot(r)
  /\ UNCHANGED <<pc, gone, reqVars, stateVars, lockVars, outVars, billVars>>

QueueOnDone(r) ==
  /\ Alive(r) /\ r \in gone /\ r \in queued
  /\ ReleaseQueue(r)
  /\ UNCHANGED <<pc, gone, slot, reqVars, stateVars, outVars, billVars>>

\* The gateway dies.  Nobody releases its lock.
Crash(r) ==
  /\ Alive(r)
  /\ Forget(r)
  /\ Goto(r, "dead")
  /\ queued' = queued \ {r}
  /\ lapsed' = lapsed \ {r}
  /\ lock' = [a \in Accounts |-> IF lock[a] = r THEN Orphan ELSE lock[a]]
  /\ UNCHANGED <<gone, slot, lasting, outVars, billVars>>

\* A step of the handler of r.
Step(r) ==
  /\ Alive(r)
  /\ \/ Select(r) \/ SlotTimeout(r) \/ Intercept(r) \/ Backoff(r)
     \/ NoneLeft(r) \/ QueueAcquire(r) \/ QueueFailOpen(r) \/ QueueTimeout(r)
     \/ ReserveFails(r) \/ Forward(r) \/ Accepted(r) \/ Refused(r)
     \/ Finishes(r) \/ Breaks(r)
     \/ GiveUpStreamed(r) \/ RetrySame(r) \/ Switch(r) \/ Exhausted(r)
     \/ Canceled(r) \/ UseFallback(r) \/ EndWithError(r) \/ ForwardFailed(r)
     \/ RecordOk(r) \/ RecordFails(r) \/ Commit(r) \/ Return(r)

Next ==
  \/ \E r \in Requests :
       \/ Step(r) \/ WriteBody(r) \/ Crash(r)
       \/ ClientLeaves(r) \/ SlotOnDone(r) \/ QueueOnDone(r)
  \/ \E a \in Accounts : LockExpires(a) \/ LoseTTL(a) \/ ForceRelease(a)

Spec == Init /\ [][Next]_vars

\* A handler goes on: the calls it makes all end or time out.  Locks expire
\* because time passes, and the cleanup worker keeps running.
FairSpec ==
  /\ Spec
  /\ \A r \in Requests : WF_vars(Step(r))
  /\ \A a \in Serialized : WF_vars(LockExpires(a)) /\ WF_vars(ForceRelease(a))

-----------------------------------------------------------------------------
(* Properties *)

\* A client never receives content of two attempts: once bytes of an answer
\* are out the handler does not switch, and what an abandoned attempt left in
\* a writer is discarded.
NoSplice ==
  \A r \in Requests : \A x, y \in Contents(shown[r]) : x[1] = y[1]

\* The client of a billed stream sees its end, that of a buffered response its
\* answer, only when the charge has been published; a stream also when the
\* publication reported an error.
EndIsCharged ==
  \A r \in Requests :
    mode[r] # "plain" /\ (\E x \in shown[r] : x[2] = "end") =>
      r \in charged \/ (mode[r] = "stream" /\ r \in unsure)

\* The pcs at which the attempt has a reservation.
Reserving == {"sending", "streaming", "failed", "record", "commit", "return"}

\* Unless a publication failed, the only reservation left open is the one of
\* the account in use, and none is when the handler has ended.
ReservationsSettled ==
  \A r \in Requests \ unsure : pc[r] # "dead" =>
    open[r] \subseteq IF pc[r] \in Reserving THEN {acct[r]} ELSE {}

\* No two requests believe to hold the lock of an account, but for those whose
\* lock has expired.
OneSender ==
  \A r, s \in queued \ lapsed : acct[r] = acct[s] => r = s

\* When the handler has ended, whatever way it took, it occupies no slot, owns
\* no lock and left no writer in place.
NothingHeld ==
  \A r \in Requests : pc[r] = "done" =>
    /\ slot[r] = NoAccount /\ r \notin queued
    /\ \A a \in Accounts : lock[a] # r
    /\ capture[r] = "none" /\ held[r] = {}

\* Failover tries boundedly often, whatever the accounts answer: the backoff
\* after a 503 forgets the failed accounts but not the switches.
AttemptsBounded ==
  \A r \in Requests :
    attempt[r] <= (IF group[r] = "primary" THEN 1 ELSE 2)
                   * (MaxSwitches[r] + 1 + MaxSame * Cardinality(Accounts))

\* Every request comes to an end.
RequestsEnd ==
  <>(\A r \in Requests : ~Alive(r))

\* A lock that no one will release comes back.
LocksComeBack ==
  \A a \in Serialized : []<>(lock[a] # Orphan)
=============================================================================

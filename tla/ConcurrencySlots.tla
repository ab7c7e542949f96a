--------------------------- MODULE ConcurrencySlots ---------------------------
(***************************************************************************)
(* The concurrency limit of one user: a Redis sorted set of slots and a    *)
(* counter of waiting requests (repository/concurrency_cache.go), the      *)
(* service that fails open (service/concurrency_service.go) and the way a  *)
(* gateway handler uses both (handler/gateway_helper.go,                   *)
(* handler/gateway_handler.go).  An account's set uses the same scripts    *)
(* and is also cleaned by the worker, which the model allows here too.     *)
(*                                                                         *)
(* Every attempt at a slot has a fresh member name, so the set never       *)
(* refreshes a member, and a request adds at most one: an attempt that     *)
(* reports an error ends the request.  The member is therefore named after *)
(* the request.  Redis TIME minus a member's score is its age.  A call     *)
(* that reports an error may or may not have taken effect.                 *)
(***************************************************************************)
EXTENDS Integers, FiniteSets

CONSTANTS
  Requests,       \* requests of the user
  MaxConcurrency, \* the limit; 0 and less mean none and are not modelled
  MaxWait,        \* CalculateMaxWait, or the account's MaxWaiting
  SlotTTL,        \* slotTTLSeconds
  WaitTTL,        \* waitQueueTTLSeconds
  MaxStarts       \* bound: how often the worker process starts

ASSUME SlotsAssumption ==
  /\ IsFiniteSet(Requests)
  /\ MaxConcurrency \in Nat \ {0}
  /\ MaxWait \in Nat \ {0}
  /\ SlotTTL \in Nat \ {0}
  /\ WaitTTL \in Nat \ {0}
  /\ MaxStarts \in Nat

VARIABLES
  slots,     \* members of the sorted set
  age,       \* age[r]: time since r took its slot, at most SlotTTL
  keyAge,    \* time since the EXPIRE of the set's key
  wait,      \* the wait counter; 0 when its key does not exist
  waitAge,   \* time since its EXPIRE
  pc,        \* pc[r]: where the handler of r is
  counted,   \* requests whose waitCounted is true
  released,  \* requests whose release function has run
  disturbed, \* a call failed, a gateway died, the counter expired or was deleted
  starts     \* starts of the worker so far

vars == <<slots, age, keyAge, wait, waitAge, pc, counted, released, disturbed, starts>>

Pcs == {"new", "try", "poll", "acquired", "run", "leave", "end"}

\* Every value is one the program can hold; the script never lets more waiters
\* be counted than maxWait.
TypeOK ==
  /\ slots \subseteq Requests
  /\ age \in [Requests -> 0 .. SlotTTL]
  /\ keyAge \in 0 .. SlotTTL
  /\ wait \in 0 .. MaxWait
  /\ waitAge \in 0 .. WaitTTL
  /\ pc \in [Requests -> Pcs]
  /\ counted \subseteq Requests
  /\ released \subseteq Requests
  /\ disturbed \in BOOLEAN
  /\ starts \in 0 .. MaxStarts

Init ==
  /\ slots = {} /\ counted = {} /\ released = {}
  /\ age = [r \in Requests |-> 0]
  /\ keyAge = 0 /\ wait = 0 /\ waitAge = 0
  /\ pc = [r \in Requests |-> "new"]
  /\ disturbed = FALSE
  /\ starts = 0

-----------------------------------------------------------------------------
GoTo(r, where) == pc' = [pc EXCEPT ![r] = where]

\* Members that ZREMRANGEBYSCORE removes.
Expired == {r \in slots : age[r] >= SlotTTL}

\* Mutant: the counter's value is compared after the increment.
CanCountLate == wait <= MaxWait

\* incrementWaitScript admits another waiter.
CanCount == wait < MaxWait

\* The handler begins: IncrementWaitCount.  An error counts as success.
IncrementWaitCount(r) ==
  /\ pc[r] = "new"
  /\ \/ /\ CanCount
        /\ wait' = wait + 1 /\ waitAge' = 0
        /\ counted' = counted \cup {r}
        /\ GoTo(r, "try")
        /\ UNCHANGED disturbed
     \/ /\ ~CanCount
        /\ GoTo(r, "end")
        /\ UNCHANGED <<wait, waitAge, counted, disturbed>>
     \/ /\ counted' = counted \cup {r}
        /\ disturbed' = TRUE
        /\ GoTo(r, "try")
        /\ UNCHANGED <<wait, waitAge>>
  /\ UNCHANGED <<slots, age, keyAge, released, starts>>

\* decrementWaitScript, or its failure.
DecrementWaitCount ==
  \/ wait' = (IF wait > 0 THEN wait - 1 ELSE 0) /\ UNCHANGED disturbed
  \/ wait' = wait /\ disturbed' = TRUE

\* Mutant: the limit is off by one.
FreeSlotOneMore(taken) == Cardinality(taken) <= MaxConcurrency

\* acquireScript admits another slot.
FreeSlot(taken) == Cardinality(taken) < MaxConcurrency

\* TryAcquireUserSlot and the polls of waitForSlotWithPingTimeout: acquireScript.
\* When its answer is lost the slot is taken and the request gives up.
Acquire(r) ==
  /\ pc[r] \in {"try", "poll"}
  /\ \/ /\ FreeSlot(slots \ Expired)
        /\ slots' = (slots \ Expired) \cup {r}
        /\ age' = [age EXCEPT ![r] = 0] /\ keyAge' = 0
        /\ \/ GoTo(r, "acquired") /\ UNCHANGED disturbed
           \/ GoTo(r, "leave") /\ disturbed' = TRUE
     \/ /\ ~FreeSlot(slots \ Expired)
        /\ slots' = slots \ Expired
        /\ GoTo(r, "poll")
        /\ UNCHANGED <<age, keyAge, disturbed>>
  /\ UNCHANGED <<wait, waitAge, counted, released, starts>>

\* The wait times out, the client goes away or Redis cannot be reached.
GiveUp(r) ==
  /\ pc[r] \in {"try", "poll"}
  /\ GoTo(r, "leave")
  /\ UNCHANGED <<slots, age, keyAge, wait, waitAge, counted, released, disturbed, starts>>

\* The deferred decrement of a handler that never got its slot.
Leave(r) ==
  /\ pc[r] = "leave"
  /\ DecrementWaitCount
  /\ counted' = counted \ {r}
  /\ GoTo(r, "end")
  /\ UNCHANGED <<slots, age, keyAge, waitAge, released, starts>>

\* Mutant: waitCounted is not reset.
StopWaitingStaysCounted(r) ==
  /\ pc[r] = "acquired"
  /\ DecrementWaitCount
  /\ GoTo(r, "run")
  /\ UNCHANGED <<slots, age, keyAge, waitAge, counted, released, starts>>

\* With the slot, the request no longer waits, and its release is tied to the
\* request context.
StopWaiting(r) ==
  /\ pc[r] = "acquired"
  /\ DecrementWaitCount
  /\ counted' = counted \ {r}
  /\ GoTo(r, "run")
  /\ UNCHANGED <<slots, age, keyAge, waitAge, released, starts>>

\* ReleaseFunc: ZREM, or its failure.  The release function runs once.
Release(r) ==
  /\ released' = released \cup {r}
  /\ \/ slots' = slots \ {r} /\ UNCHANGED disturbed
     \/ slots' = slots /\ disturbed' = TRUE

\* The client goes away: context.AfterFunc releases while the handler runs on.
ReleaseOnDone(r) ==
  /\ pc[r] = "run" /\ r \notin released
  /\ Release(r)
  /\ UNCHANGED <<age, keyAge, wait, waitAge, pc, counted, starts>>

\* Mutant: the handler returns without its deferred release.
FinishKeepsSlot(r) ==
  /\ pc[r] = "run"
  /\ GoTo(r, "end")
  /\ UNCHANGED <<slots, age, keyAge, wait, waitAge, counted, released, disturbed, starts>>

\* The handler returns.
Finish(r) ==
  /\ pc[r] = "run"
  /\ IF r \in released THEN UNCHANGED <<released, slots, disturbed>> ELSE Release(r)
  /\ GoTo(r, "end")
  /\ UNCHANGED <<age, keyAge, wait, waitAge, counted, starts>>

\* The gateway that serves r dies.
Crash(r) ==
  /\ pc[r] \notin {"new", "end"}
  /\ GoTo(r, "end")
  /\ counted' = counted \ {r}
  /\ disturbed' = TRUE
  /\ UNCHANGED <<slots, age, keyAge, wait, waitAge, released, starts>>

\* GetUsersLoadBatch, GetUserConcurrency: a read of the load drops expired members.
ReadLoad ==
  /\ Expired # {}
  /\ slots' = slots \ Expired
  /\ UNCHANGED <<age, keyAge, wait, waitAge, pc, counted, released, disturbed, starts>>

\* The worker's cleanup of an account's set renews what it does not empty.
CleanupExpiredSlots ==
  /\ slots # {}
  /\ slots' = slots \ Expired
  /\ keyAge' = 0
  /\ UNCHANGED <<age, wait, waitAge, pc, counted, released, disturbed, starts>>

\* A worker process starts and runs CleanupStaleProcessSlots: no member has its
\* prefix, and the wait counters are deleted unless the cleanup fails before.
WorkerStarts ==
  /\ starts < MaxStarts
  /\ starts' = starts + 1
  /\ slots' = {}
  /\ wait' \in {0, wait}
  /\ disturbed' = TRUE
  /\ UNCHANGED <<age, keyAge, waitAge, pc, counted, released>>

\* Mutant: the EXPIRE of the counter is missing.
WaitExpiresNever == FALSE

\* The counter was last incremented WaitTTL ago.
WaitExpires == waitAge + 1 >= WaitTTL

\* Mutant: the EXPIRE of the set is missing.
KeyExpiresNever == FALSE

\* The last EXPIRE of the set was SlotTTL ago.
KeyExpires == keyAge + 1 >= SlotTTL

\* Ages stop at the TTL.
Older(n, ttl) == IF n < ttl THEN n + 1 ELSE ttl

\* Time passes.
Tick ==
  /\ slots' = IF KeyExpires THEN {} ELSE slots
  /\ keyAge' = IF slots' = {} THEN 0 ELSE Older(keyAge, SlotTTL)
  /\ age' = [r \in Requests |-> Older(age[r], SlotTTL)]
  /\ waitAge' = Older(waitAge, WaitTTL)
  /\ wait' = IF WaitExpires THEN 0 ELSE wait
  /\ disturbed' = (disturbed \/ wait' # wait)
  /\ UNCHANGED <<pc, counted, released, starts>>

Handle(r) ==
  \/ IncrementWaitCount(r) \/ Acquire(r) \/ GiveUp(r) \/ Leave(r)
  \/ StopWaiting(r) \/ ReleaseOnDone(r) \/ Finish(r) \/ Crash(r)

Next ==
  \/ \E r \in Requests : Handle(r)
  \/ ReadLoad \/ CleanupExpiredSlots \/ WorkerStarts \/ Tick

Spec == Init /\ [][Next]_vars

\* Time passes.  Nothing else is assumed: no cleanup job looks at a user's set.
FairSpec == Spec /\ WF_vars(Tick)

-----------------------------------------------------------------------------
\* Requests that use a slot, as far as their handlers know, and have not had it
\* for longer than its TTL.
InUse ==
  {r \in Requests : pc[r] \in {"acquired", "run"} /\ r \notin released}
Entitled == {r \in InUse : age[r] < SlotTTL}

\* Until the worker starts, no more than MaxConcurrency requests use a slot they
\* are entitled to, whatever fails or dies (acquireScript): no expiry or cleanup
\* drops a slot in use.
WithinLimit == starts = 0 => Cardinality(Entitled) <= MaxConcurrency

\* As long as nothing fails, a slot is taken only while its request uses it,
\* however the request ends (wrapReleaseOnDone).
NoLeak == ~disturbed => slots \subseteq InUse

\* As long as nothing fails, the counter is the number of requests that wait
\* (IncrementWaitCount and the two places that decrement).
WaitIsExact ==
  /\ ~disturbed => wait = Cardinality(counted)
  /\ \A r \in Requests : r \in counted => pc[r] \in {"try", "poll", "acquired", "leave"}

\* A slot whose request is over is free again in the end, even when its release
\* failed or its gateway died: the next request drops it, or the key expires.
SlotsComeBack ==
  \A r \in Requests : (pc[r] = "end" /\ r \in slots) ~> r \notin slots

\* A wait queue that leaked counts have filled opens again: once it is full
\* nothing renews the counter's TTL.
QueueReopens == (wait = MaxWait) ~> (wait < MaxWait)

\* Live slots survive a start of the worker: no more than MaxConcurrency requests
\* use a slot ("in a multi-replica deployment would wipe live slots owned by other
\* pods. Only the singleton worker runs this cleanup", service/wire.go).
LimitSurvivesWorker == Cardinality(Entitled) <= MaxConcurrency
=============================================================================

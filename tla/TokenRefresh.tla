----------------------------- MODULE TokenRefresh -----------------------------
(***************************************************************************)
(* The OAuth credentials of one upstream account, and the copies of the    *)
(* account the scheduler keeps.                                            *)
(*                                                                         *)
(* Requests of the gateways (service/claude_token_provider.go and          *)
(* openai_token_provider.go) and the background job of the worker          *)
(* (service/token_refresh_service.go) refresh the credentials through      *)
(* RefreshIfNeeded (service/oauth_refresh_api.go).  The provider rotates   *)
(* the refresh token: each can be spent once.  A request whose token is    *)
(* refused forces a refresh (service/ratelimit_service.go).                *)
(*                                                                         *)
(* Administrators edit the account and refresh it by hand, without the     *)
(* lock (handler/admin/account_handler.go, openai_oauth_handler.go and     *)
(* service/admin_service.go).                                              *)
(*                                                                         *)
(* Whoever changes the account's row brings the scheduler's copy of the    *)
(* account up to date (repository/account_repo.go), as the outbox poll and *)
(* the rebuilds of the scheduler's bucket do                               *)
(* (service/scheduler_snapshot_service.go).                                *)
(*                                                                         *)
(* PostgreSQL, Redis, the provider and the upstream are external: a call   *)
(* that reports an error may have taken effect, as when a client leaves    *)
(* and the context of its request is canceled.                             *)
(***************************************************************************)
EXTENDS Integers

CONSTANTS
  Requests,   \* requests that need a token
  Workers,    \* background refresh jobs
  Admins,     \* requests to the control plane to refresh or edit the account
  Syncers,    \* threads that keep the scheduler's cache
  Casts,      \* sets of them: one takes part
  Procs,      \* processes
  ProcOf,     \* ProcOf[p]: the process of one of them, syncers aside
  MaxRetries, \* token_refresh.max_retries
  MaxGen,     \* bound: how often the refresh token is rotated
  MaxFaults,  \* bound: MaxFaults[cast] calls fail, events get lost or
              \* processes die
  None        \* nothing

Actors == Requests \cup Workers \cup Admins
Gens == 0 .. MaxGen

\* An account as it is stored, copied or held in memory: the generation of its
\* tokens, its _token_version, whether expires_at was set to force a refresh, and
\* what keeps it from being scheduled.  The version is a time in the code, here
\* the generation RefreshIfNeeded stored then: the clocks of the hosts are taken
\* to differ by less than the time between two refreshes.
Accounts == [gen : Gens, ver : Gens, forced : BOOLEAN,
             flags : SUBSET {"error", "parked"}]

ASSUME TokenAssumption ==
  /\ Requests \cap Workers = {} /\ Requests \cap Admins = {}
  /\ Workers \cap Admins = {} /\ Actors \cap Syncers = {}
  /\ Casts \subseteq SUBSET (Actors \cup Syncers)
  /\ ProcOf \in [Actors -> Procs]
  /\ MaxRetries \in Nat \ {0}
  /\ MaxGen \in Nat
  /\ MaxFaults \in [Casts -> Nat]
  /\ None \notin Accounts /\ None \notin Int

VARIABLES
  valid,   \* the generation whose refresh token the provider accepts
  due,     \* generations below it expire within the refresh window
  row,     \* the account in the database
  copy,    \* the account in the scheduler's cache
  listed,  \* the account is in the snapshot of its bucket
  bucket,  \* the lock of the bucket
  pending, \* an event of the account is beyond the outbox watermark
  cache,   \* the generation of the cached access token
  lock,    \* the refresh lock exists
  held,    \* who believes to hold it
  pc,      \* pc[p]: what an actor does next
  obj,     \* obj[p]: the account object it was given
  fresh,   \* fresh[p]: the account RefreshIfNeeded or UpdateAccount has read
  aliased, \* actors for whom both are the same object
  tok,     \* tok[p]: the generation of the new, then of the served token
  res,     \* res[p]: what RefreshIfNeeded returns, where the token is from, or
           \* how the row was changed
  tries,   \* tries[w]: failed attempts of the job
  buf,     \* buf[x]: an account read in order to be copied
  job,     \* job[s]: what a syncer is at
  faults,  \* failures still to come
  begin,   \* history: the version stored when a request began
  lost,    \* history: a new token was not stored, or overwritten
  broken,  \* history: the refresh lock failed to exclude, or was not taken
  blind    \* history: the re-read after invalid_grant failed

dbVars    == <<row, lost>>
schedVars == <<copy, listed, bucket, pending>>
jobVars   == <<buf, job>>
lockVars  == <<lock, held, broken>>
memVars   == <<obj, fresh, aliased, begin>>
provVars  == <<valid, due, blind>>
vars == <<dbVars, schedVars, jobVars, lockVars, memVars, provVars, cache, pc,
          tok, res, tries, faults>>

Pcs == {"idle", "lookup", "wait", "mutex", "lock", "reread", "call", "recover",
        "persist", "sync", "write", "release", "check", "store", "send",
        "force", "park", "condemn", "post", "drop", "publish", "manual",
        "load", "save", "invalidate", "done"}
Results == {"none", "fresh", "refreshed", "error", "grant", "forced", "flagged",
            "cached", "checked", "unchecked", "edited", "renewed"}

TypeOK ==
  /\ valid \in Gens /\ due \in Gens
  /\ row \in Accounts /\ copy \in Accounts
  /\ listed \in BOOLEAN /\ bucket \in BOOLEAN /\ pending \in BOOLEAN
  /\ cache \in Gens \cup {None}
  /\ lock \in BOOLEAN /\ held \subseteq Actors
  /\ pc \in [Actors -> Pcs]
  /\ obj \in [Actors -> Accounts \cup {None}]
  /\ fresh \in [Actors -> Accounts \cup {None}]
  /\ aliased \subseteq Actors
  /\ tok \in [Actors -> Gens \cup {None}]
  /\ res \in [Actors -> Results]
  /\ tries \in [Workers -> 0 .. (MaxRetries - 1)]
  /\ buf \in [Actors \cup Syncers -> Accounts \cup {None}]
  /\ job \in [Syncers -> {"absent", "none", "event", "between", "bucket"}]
  /\ faults \in Nat
  /\ begin \in [Actors -> Gens]
  /\ lost \in BOOLEAN /\ broken \in BOOLEAN /\ blind \in BOOLEAN

NewAccount == [gen |-> 0, ver |-> 0, forced |-> FALSE, flags |-> {}]

Init ==
  /\ valid = 0 /\ due = 0
  /\ row = NewAccount /\ copy = NewAccount
  /\ listed = TRUE /\ bucket = FALSE /\ pending = FALSE
  /\ cache = None
  /\ lock = FALSE /\ held = {}
  /\ \E cast \in Casts :
       /\ pc = [p \in Actors |-> IF p \in cast THEN "idle" ELSE "done"]
       /\ job = [s \in Syncers |-> IF s \in cast THEN "none" ELSE "absent"]
       /\ faults = MaxFaults[cast]
  /\ obj = [p \in Actors |-> None]
  /\ fresh = [p \in Actors |-> None]
  /\ aliased = {}
  /\ tok = [p \in Actors |-> None]
  /\ res = [p \in Actors |-> "none"]
  /\ tries = [w \in Workers |-> 0]
  /\ buf = [x \in Actors \cup Syncers |-> None]
  /\ begin = [p \in Actors |-> 0]
  /\ lost = FALSE /\ broken = FALSE /\ blind = FALSE

-----------------------------------------------------------------------------
(* What the steps do *)

Goto(p, l) == pc' = [pc EXCEPT ![p] = l]
Return(p, r) == res' = [res EXCEPT ![p] = r]

\* Something fails, or nothing does.
Fails == faults > 0 /\ faults' = faults - 1
Works == faults' = faults

\* NeedsRefresh; the window of the background job and the skew of a request
\* are one.
Needs(a) == a.forced \/ a.gen < due

\* An actor is between the Lock and the Unlock of its process's mutex.
Inside(p) == pc[p] \in {"lock", "reread", "call", "recover", "persist",
                        "release"}
               \/ (pc[p] \in {"sync", "write"} /\ res[p] = "refreshed")

\* The actor is done with the account.
End(p) ==
  /\ Goto(p, IF p \in Workers THEN "idle" ELSE "done")
  /\ obj' = [obj EXCEPT ![p] = None]
  /\ fresh' = [fresh EXCEPT ![p] = None]
  /\ aliased' = aliased \ {p}
  /\ tok' = [tok EXCEPT ![p] = None]
  /\ res' = [res EXCEPT ![p] = "none"]
  /\ tries' = [w \in Workers |-> IF w = p THEN 0 ELSE tries[w]]
  /\ buf' = [buf EXCEPT ![p] = None]
  /\ begin' = [begin EXCEPT ![p] = 0]
  /\ UNCHANGED job

\* An event for the outbox.  It may be missing afterwards: the insert fails,
\* the event of an earlier change, read already, is less than a second old, or
\* the watermark has passed its id.
Enqueue == \/ pending' = TRUE /\ Works
           \/ pending' = pending /\ Fails

-----------------------------------------------------------------------------
(* A request gets its token: GetAccessToken *)

\* The scheduler offers the account: its copy.
Pick(r) ==
  /\ r \in Requests /\ pc[r] = "idle"
  /\ listed /\ copy.flags = {}
  /\ obj' = [obj EXCEPT ![r] = copy]
  /\ begin' = [begin EXCEPT ![r] = row.ver]
  /\ Goto(r, "lookup")
  /\ UNCHANGED <<dbVars, schedVars, jobVars, lockVars, provVars, cache, fresh,
                 aliased, tok, res, tries, faults>>

\* The token cache is asked, first of all and again when another holds the
\* refresh lock.
Lookup(r) ==
  /\ pc[r] \in {"lookup", "wait"}
  /\ \/ /\ cache # None
        /\ tok' = [tok EXCEPT ![r] = cache]
        /\ Works
        /\ Return(r, "cached")
        /\ Goto(r, "send")
     \/ /\ \/ cache = None /\ Works
           \/ Fails
        /\ Goto(r, IF pc[r] = "lookup" /\ Needs(obj[r]) THEN "mutex"
                                                         ELSE "check")
        /\ UNCHANGED <<tok, res>>
  /\ UNCHANGED <<dbVars, schedVars, jobVars, lockVars, memVars, provVars,
                 cache, tries>>

\* The client leaves while the request waits (waitForTokenAfterLockRace).
GiveUp(r) ==
  /\ pc[r] = "wait"
  /\ End(r)
  /\ UNCHANGED <<dbVars, schedVars, lockVars, provVars, cache, faults>>

\* The account GetAccessToken goes on with.
Current(r) == IF res[r] \in {"fresh", "refreshed"} THEN fresh[r] ELSE obj[r]

\* Mutant: an old version is not noticed.
StaleNever(r) == FALSE

\* CheckTokenVersion: the row has a later version.
Stale(r) == row.ver > Current(r).ver

Check(r) ==
  /\ pc[r] = "check"
  /\ \/ /\ Stale(r)
        /\ Works
        /\ tok' = [tok EXCEPT ![r] = row.gen]
        /\ Return(r, "checked")
        /\ Goto(r, "send")
     \/ /\ ~Stale(r)
        /\ Works
        /\ tok' = [tok EXCEPT ![r] = Current(r).gen]
        /\ Return(r, "checked")
        /\ Goto(r, "store")
     \/ /\ Fails
        /\ tok' = [tok EXCEPT ![r] = Current(r).gen]
        /\ Return(r, "unchecked")
        /\ Goto(r, "store")
  /\ UNCHANGED <<dbVars, schedVars, jobVars, lockVars, memVars, provVars,
                 cache, tries>>

\* The token is cached, whatever happened to the row since.
Store(r) ==
  /\ pc[r] = "store"
  /\ \/ cache' = tok[r] /\ Works
     \/ cache' = cache /\ Fails
  /\ Goto(r, "send")
  /\ UNCHANGED <<dbVars, schedVars, jobVars, lockVars, memVars, provVars, tok,
                 res, tries>>

\* The upstream takes the token.
Accepted(r) ==
  /\ pc[r] = "send"
  /\ End(r)
  /\ UNCHANGED <<dbVars, schedVars, lockVars, provVars, cache, faults>>

\* The upstream answers 401: the cached token is dropped.
Unauthorized(r) ==
  /\ pc[r] = "send" /\ obj[r].gen < MaxGen
  /\ \/ cache' = None /\ Works
     \/ cache' = cache /\ Fails
  /\ Goto(r, "force")
  /\ UNCHANGED <<dbVars, schedVars, jobVars, lockVars, memVars, provVars, tok,
                 res, tries>>

\* The credentials of the object the request was given are written back, with
\* expires_at in the past: of whatever generation they are.
ForceRefresh(r) ==
  LET forced == [obj[r] EXCEPT !.forced = TRUE] IN
  /\ pc[r] = "force"
  /\ obj' = [obj EXCEPT ![r] = forced]
  /\ \/ /\ row' = [row EXCEPT !.gen = forced.gen, !.ver = forced.ver,
                              !.forced = TRUE]
        /\ lost' = (lost \/ forced.gen < row.gen)
        /\ Return(r, "forced")
        /\ Goto(r, "sync")
        /\ Works
     \/ /\ Fails
        /\ UNCHANGED <<dbVars, res>>
        /\ Goto(r, "park")
  /\ UNCHANGED <<schedVars, jobVars, lockVars, provVars, fresh, aliased, begin,
                 cache, tok, tries>>

-----------------------------------------------------------------------------
(* RefreshIfNeeded *)

\* The mutex of the process.
Lock(p) ==
  /\ pc[p] = "mutex"
  /\ \A q \in Actors : ProcOf[q] = ProcOf[p] => ~Inside(q)
  /\ Goto(p, "lock")
  /\ UNCHANGED <<dbVars, schedVars, jobVars, lockVars, memVars, provVars,
                 cache, tok, res, tries, faults>>

\* AcquireRefreshLock: SET NX with a TTL.
TakeLock(p) ==
  /\ pc[p] = "lock" /\ ~lock
  /\ lock' = TRUE
  /\ held' = held \cup {p}
  /\ Goto(p, "reread")
  /\ UNCHANGED <<dbVars, schedVars, jobVars, memVars, provVars, broken, cache,
                 tok, res, tries, faults>>

\* Another holds the lock: a request waits a moment for the cache, the job
\* skips the account.
LockHeld(p) ==
  /\ pc[p] = "lock" /\ lock
  /\ \/ /\ p \in Requests
        /\ Goto(p, "wait")
        /\ UNCHANGED <<memVars, tok, res, tries, jobVars>>
     \/ p \in Workers /\ End(p)
  /\ UNCHANGED <<dbVars, schedVars, lockVars, provVars, cache, faults>>

\* Redis fails: the refresh goes on without the lock.
Degrade(p) ==
  /\ pc[p] = "lock" /\ Fails
  /\ lock' \in {lock, TRUE}
  /\ broken' = TRUE
  /\ Goto(p, "reread")
  /\ UNCHANGED <<dbVars, schedVars, jobVars, memVars, provVars, held, cache,
                 tok, res, tries>>

\* The account to refresh, if it still needs to be.
Inspect(p, a) ==
  /\ fresh' = [fresh EXCEPT ![p] = a]
  /\ IF Needs(a) THEN Goto(p, "call") /\ res' = res
                 ELSE Goto(p, "release") /\ Return(p, "fresh")
  /\ UNCHANGED <<dbVars, schedVars, jobVars, lockVars, provVars, obj, begin,
                 cache, tok, tries>>

Reread(p) ==
  /\ pc[p] = "reread"
  /\ aliased' = aliased \ {p}
  /\ Works
  /\ Inspect(p, row)

\* The row cannot be read: the object of the caller has to do.
RereadFails(p) ==
  /\ pc[p] = "reread" /\ Fails
  /\ aliased' = aliased \cup {p}
  /\ Inspect(p, obj[p])

\* The provider answers with new tokens.
Rotate(p) ==
  /\ pc[p] = "call" /\ fresh[p].gen = valid
  /\ valid' = valid + 1
  /\ tok' = [tok EXCEPT ![p] = valid + 1]
  /\ Goto(p, "persist")
  /\ UNCHANGED <<dbVars, schedVars, jobVars, lockVars, memVars, due, blind,
                 cache, res, tries, faults>>

\* The call fails; the token may have been spent.
CallFails(p) ==
  /\ pc[p] = "call" /\ Fails
  /\ \/ UNCHANGED <<valid, lost>>
     \/ fresh[p].gen = valid /\ valid' = valid + 1 /\ lost' = TRUE
  /\ Return(p, "error")
  /\ Goto(p, "release")
  /\ UNCHANGED <<row, schedVars, jobVars, lockVars, memVars, due, blind, cache,
                 tok, tries>>

\* A token spent before: invalid_grant.
InvalidGrant(p) ==
  /\ pc[p] = "call" /\ fresh[p].gen # valid
  /\ Goto(p, "recover")
  /\ UNCHANGED <<dbVars, schedVars, jobVars, lockVars, memVars, provVars,
                 cache, tok, res, tries, faults>>

\* Mutant: the error is returned without a second look.
RecoverNever(p) ==
  /\ pc[p] = "recover"
  /\ Return(p, "grant")
  /\ Goto(p, "release")
  /\ UNCHANGED <<dbVars, schedVars, jobVars, lockVars, memVars, provVars,
                 cache, tok, tries, faults>>

\* tryRecoverFromRefreshRace: another token in the row means that someone else
\* has refreshed it.
Recover(p) ==
  /\ pc[p] = "recover"
  /\ \/ /\ row.gen # fresh[p].gen
        /\ Works
        /\ fresh' = [fresh EXCEPT ![p] = row]
        /\ aliased' = aliased \ {p}
        /\ Return(p, "fresh")
        /\ blind' = blind
     \/ /\ row.gen = fresh[p].gen
        /\ Works
        /\ Return(p, "grant")
        /\ UNCHANGED <<fresh, aliased, blind>>
     \/ /\ Fails
        /\ Return(p, "grant")
        /\ blind' = TRUE
        /\ UNCHANGED <<fresh, aliased>>
  /\ Goto(p, "release")
  /\ UNCHANGED <<dbVars, schedVars, jobVars, lockVars, obj, begin, valid, due,
                 cache, tok, tries>>

\* Mutant: the old fields win when the credentials are merged.
StoredMergedBack(p) == row

\* The row with the new credentials, which have a new version.
Stored(p) == [row EXCEPT !.gen = tok[p], !.ver = tok[p], !.forced = FALSE]

\* The object in memory is changed whether the update succeeds or not.
Adopt(p) ==
  LET a == [fresh[p] EXCEPT !.gen = tok[p], !.ver = tok[p],
                            !.forced = FALSE] IN
  /\ fresh' = [fresh EXCEPT ![p] = a]
  /\ obj' = IF p \in aliased THEN [obj EXCEPT ![p] = a] ELSE obj
  /\ UNCHANGED <<aliased, begin>>

Persist(p) ==
  /\ pc[p] = "persist"
  /\ Adopt(p)
  /\ row' = Stored(p)
  /\ Return(p, "refreshed")
  /\ Goto(p, "sync")
  /\ UNCHANGED <<lost, schedVars, jobVars, lockVars, provVars, cache, tok,
                 tries, faults>>

PersistFails(p) ==
  /\ pc[p] = "persist" /\ Fails
  /\ Adopt(p)
  /\ \/ row' = Stored(p) /\ lost' = lost
     \/ row' = row /\ lost' = TRUE
  /\ Return(p, "error")
  /\ Goto(p, "release")
  /\ UNCHANGED <<schedVars, jobVars, lockVars, provVars, cache, tok, tries>>

\* ReleaseRefreshLock deletes the key, whoever set it; when Redis fails, or the
\* client has left, the key stays until its TTL ends.
Unlock(p) ==
  /\ held' = held \ {p}
  /\ \/ lock' = (lock /\ p \notin held) /\ Works
     \/ lock' = lock /\ p \in held /\ Fails
  /\ broken' = broken

MayRetryLate(p) == tries[p] < MaxRetries

MayRetry(p) == tries[p] + 1 < MaxRetries

\* RefreshIfNeeded returns: a request goes on with what it has, the job looks
\* at the result.
Release(p) ==
  /\ pc[p] = "release"
  /\ Unlock(p)
  /\ \/ /\ p \in Requests
        /\ Goto(p, "check")
        /\ UNCHANGED <<memVars, tok, res, tries, jobVars>>
     \/ /\ p \in Workers /\ res[p] \in {"refreshed", "grant"}
        /\ Goto(p, IF res[p] = "refreshed" THEN "post" ELSE "condemn")
        /\ UNCHANGED <<memVars, tok, res, tries, jobVars>>
     \/ p \in Workers /\ res[p] = "fresh" /\ End(p)
     \/ /\ p \in Workers /\ res[p] = "error"
        /\ IF MayRetry(p)
           THEN /\ tries' = [tries EXCEPT ![p] = @ + 1]
                /\ Goto(p, "mutex")
           ELSE tries' = tries /\ Goto(p, "park")
        /\ Return(p, "none")
        /\ tok' = [tok EXCEPT ![p] = None]
        /\ UNCHANGED <<memVars, jobVars>>
  /\ UNCHANGED <<dbVars, schedVars, provVars, cache>>

-----------------------------------------------------------------------------
(* Changes of the row and the scheduler's copy *)

\* SetTempUnschedulable and SetError; a failure is logged.
Flag(p, flag) ==
  /\ \/ /\ row' = [row EXCEPT !.flags = @ \cup {flag}]
        /\ Enqueue
        /\ Return(p, "flagged")
        /\ Goto(p, "sync")
        /\ UNCHANGED <<memVars, tok, tries, jobVars>>
     \/ Fails /\ End(p) /\ UNCHANGED <<row, pending>>
  /\ UNCHANGED <<lost, copy, listed, bucket, lockVars, provVars, cache>>

Park(p) == pc[p] = "park" /\ Flag(p, "parked")

Condemn(p) == pc[p] = "condemn" /\ Flag(p, "error")

\* syncSchedulerAccountSnapshot reads the row.
Sync(p) ==
  /\ pc[p] = "sync"
  /\ buf' = [buf EXCEPT ![p] = row]
  /\ Goto(p, "write")
  /\ UNCHANGED <<dbVars, schedVars, job, lockVars, memVars, provVars, cache,
                 tok, res, tries, faults>>

\* It copies what it has read; or one of both calls failed.
Write(p) ==
  /\ pc[p] = "write"
  /\ \/ copy' = buf[p] /\ Works
     \/ copy' = copy /\ Fails
  /\ \/ res[p] \in {"flagged", "edited"} /\ End(p)
     \/ /\ res[p] \notin {"flagged", "edited"}
        /\ Goto(p, CASE res[p] = "forced"  -> "park"
                     [] res[p] = "renewed" -> "invalidate"
                     [] OTHER              -> "release")
        /\ buf' = [buf EXCEPT ![p] = None]
        /\ UNCHANGED <<job, memVars, tok, res, tries>>
  /\ UNCHANGED <<dbVars, listed, bucket, pending, lockVars, provVars, cache>>

-----------------------------------------------------------------------------
(* The control plane *)

\* The account is read, to be refreshed by hand (refreshSingleAccount, or the
\* handler of OpenAI's accounts) or for the form in which it is edited.
Open(a) ==
  /\ a \in Admins /\ pc[a] = "idle"
  /\ obj' = [obj EXCEPT ![a] = row]
  /\ \/ row.gen < MaxGen /\ Goto(a, "manual")
     \/ Goto(a, "load")
  /\ UNCHANGED <<dbVars, schedVars, jobVars, lockVars, provVars, cache, fresh,
                 aliased, begin, tok, res, tries, faults>>

\* The provider answers with new tokens; nobody asked for the refresh lock.
ManualRotate(a) ==
  /\ pc[a] = "manual" /\ obj[a].gen = valid
  /\ valid' = valid + 1
  /\ tok' = [tok EXCEPT ![a] = valid + 1]
  /\ broken' = TRUE
  /\ Goto(a, "load")
  /\ UNCHANGED <<dbVars, schedVars, jobVars, lock, held, memVars, due, blind,
                 cache, res, tries, faults>>

\* The token was spent before, or the call fails and may have spent it: an error
\* is all the administrator gets.
ManualFails(a) ==
  /\ pc[a] = "manual"
  /\ \/ obj[a].gen # valid /\ Works /\ UNCHANGED <<valid, lost>>
     \/ Fails /\ UNCHANGED <<valid, lost>>
     \/ obj[a].gen = valid /\ Fails /\ valid' = valid + 1 /\ lost' = TRUE
  /\ End(a)
  /\ UNCHANGED <<row, schedVars, lockVars, due, blind, cache>>

\* UpdateAccount reads the row
Load(a) ==
  /\ pc[a] = "load"
  /\ fresh' = [fresh EXCEPT ![a] = row]
  /\ Goto(a, "save")
  /\ UNCHANGED <<dbVars, schedVars, jobVars, lockVars, provVars, obj, aliased,
                 begin, cache, tok, res, tries, faults>>

\* and takes the credentials and the status from its input: the credentials of
\* the account read first, with the new tokens but the old version; the status
\* of a form, if it has one, or active.
Statuses(a) == IF tok[a] = None THEN {obj[a].flags, fresh[a].flags, {}}
                                ELSE {fresh[a].flags}

\* Update writes them; it does not touch a pause.
Edited(a, status) ==
  [gen    |-> IF tok[a] = None THEN obj[a].gen ELSE tok[a],
   ver    |-> obj[a].ver,
   forced |-> tok[a] = None /\ obj[a].forced,
   flags  |-> (status \cap {"error"}) \cup (row.flags \cap {"parked"})]

Save(a) ==
  /\ pc[a] = "save"
  /\ \E status \in Statuses(a) : row' = Edited(a, status)
  /\ lost' = (lost \/ row'.gen < row.gen)
  /\ Enqueue
  /\ \/ Return(a, "edited")
     \/ tok[a] # None /\ Return(a, "renewed")
  /\ Goto(a, "sync")
  /\ UNCHANGED <<copy, listed, bucket, jobVars, lockVars, memVars, provVars,
                 cache, tok, tries>>

\* Reading or writing the row fails; the row may be written nevertheless.
UpdateFails(a) ==
  /\ pc[a] \in {"load", "save"} /\ Fails
  /\ \/ row' = row /\ lost' = (lost \/ tok[a] # None)
     \/ /\ pc[a] = "save"
        /\ \E status \in Statuses(a) : row' = Edited(a, status)
        /\ lost' = (lost \/ row'.gen < row.gen)
  /\ End(a)
  /\ UNCHANGED <<schedVars, lockVars, provVars, cache>>

\* refreshSingleAccount drops the cached token; the handler of OpenAI's
\* accounts does not.
Invalidate(a) ==
  /\ pc[a] = "invalidate"
  /\ \/ cache' = None /\ Works
     \/ cache' = cache /\ Fails
  /\ End(a)
  /\ UNCHANGED <<dbVars, schedVars, lockVars, provVars>>

-----------------------------------------------------------------------------
(* The background job *)

Cycle(w) ==
  /\ w \in Workers /\ pc[w] = "idle"
  /\ "error" \notin row.flags /\ Needs(row)
  /\ obj' = [obj EXCEPT ![w] = row]
  /\ Goto(w, "mutex")
  /\ UNCHANGED <<dbVars, schedVars, jobVars, lockVars, provVars, cache, fresh,
                 aliased, begin, tok, res, tries, faults>>

\* postRefreshActions: the pause is ended if the account had one,
Post(w) ==
  /\ pc[w] = "post"
  /\ \/ /\ "parked" \in fresh[w].flags
        /\ row' = [row EXCEPT !.flags = @ \ {"parked"}]
        /\ Enqueue
     \/ "parked" \notin fresh[w].flags /\ Works /\ UNCHANGED <<row, pending>>
     \/ "parked" \in fresh[w].flags /\ Fails /\ UNCHANGED <<row, pending>>
  /\ Goto(w, "drop")
  /\ UNCHANGED <<lost, copy, listed, bucket, jobVars, lockVars, memVars,
                 provVars, cache, tok, res, tries>>

\* the cached token is dropped,
Drop(w) ==
  /\ pc[w] = "drop"
  /\ \/ cache' = None /\ Works
     \/ cache' = cache /\ Fails
  /\ Goto(w, "publish")
  /\ UNCHANGED <<dbVars, schedVars, jobVars, lockVars, memVars, provVars, tok,
                 res, tries>>

\* and the account in memory, as it was before the pause was ended, copied.
Publish(w) ==
  /\ pc[w] = "publish"
  /\ \/ copy' = fresh[w] /\ Works
     \/ copy' = copy /\ Fails
  /\ End(w)
  /\ UNCHANGED <<dbVars, listed, bucket, pending, lockVars, provVars, cache>>

-----------------------------------------------------------------------------
(* The scheduler's cache *)

\* pollOutbox finds an event: handleAccountEvent reads the account.
Poll(s) ==
  /\ job[s] = "none" /\ pending
  /\ pending' = FALSE
  /\ buf' = [buf EXCEPT ![s] = row]
  /\ job' = [job EXCEPT ![s] = "event"]
  /\ UNCHANGED <<dbVars, copy, listed, bucket, lockVars, memVars, provVars,
                 cache, pc, tok, res, tries, faults>>

\* SetAccount; when it fails the watermark stays and the event is read again.
ApplyEvent(s) ==
  /\ job[s] = "event"
  /\ \/ /\ copy' = buf[s]
        /\ Works
        /\ job' = [job EXCEPT ![s] = "between"]
        /\ pending' = pending
     \/ /\ Fails
        /\ pending' = TRUE
        /\ job' = [job EXCEPT ![s] = "none"]
        /\ copy' = copy
  /\ buf' = [buf EXCEPT ![s] = None]
  /\ UNCHANGED <<dbVars, listed, bucket, lockVars, memVars, provVars, cache,
                 pc, tok, res, tries>>

\* rebuildBucket takes the bucket's lock, which nobody releases, and reads the
\* accounts.
StartRebuild(s) ==
  /\ job[s] \in {"none", "between"} /\ ~bucket
  /\ bucket' = TRUE
  /\ buf' = [buf EXCEPT ![s] = row]
  /\ job' = [job EXCEPT ![s] = "bucket"]
  /\ UNCHANGED <<dbVars, copy, listed, pending, lockVars, memVars, provVars,
                 cache, pc, tok, res, tries, faults>>

\* The event is done: the watermark moves, or stays when Redis fails.
Advance == \/ pending' = pending /\ Works
           \/ pending' = TRUE /\ Fails

\* The lock is taken: the rebuild after an event is passed over.
PassOver(s) ==
  /\ job[s] = "between" /\ bucket
  /\ Advance
  /\ job' = [job EXCEPT ![s] = "none"]
  /\ UNCHANGED <<dbVars, copy, listed, bucket, buf, lockVars, memVars, provVars,
                 cache, pc, tok, res, tries>>

\* A gateway that finds no snapshot reads the accounts without the lock.
Fallback(s) ==
  /\ job[s] = "none" /\ ~listed
  /\ buf' = [buf EXCEPT ![s] = row]
  /\ job' = [job EXCEPT ![s] = "bucket"]
  /\ UNCHANGED <<dbVars, schedVars, lockVars, memVars, provVars, cache, pc,
                 tok, res, tries, faults>>

\* SetSnapshot writes the schedulable accounts and their list.
SetSnapshot(s) ==
  /\ job[s] = "bucket"
  /\ Advance
  /\ listed' = (buf[s].flags = {})
  /\ copy' = IF listed' THEN buf[s] ELSE copy
  /\ buf' = [buf EXCEPT ![s] = None]
  /\ job' = [job EXCEPT ![s] = "none"]
  /\ UNCHANGED <<dbVars, bucket, lockVars, memVars, provVars, cache, pc, tok,
                 res, tries>>

\* Reading or writing fails.
SnapshotFails(s) ==
  /\ job[s] = "bucket" /\ Fails
  /\ \/ copy' = copy
     \/ buf[s].flags = {} /\ copy' = buf[s]
  /\ pending' \in {pending, TRUE}
  /\ buf' = [buf EXCEPT ![s] = None]
  /\ job' = [job EXCEPT ![s] = "none"]
  /\ UNCHANGED <<dbVars, listed, bucket, lockVars, memVars, provVars, cache,
                 pc, tok, res, tries>>

-----------------------------------------------------------------------------
(* Time and failures *)

\* A token that is nowhere but in the memory of an actor.
Carries(p) == \/ pc[p] = "persist"
              \/ pc[p] \in {"load", "save"} /\ tok[p] # None

\* Mutant: the bucket's lock has no TTL.
BucketLockStays == FALSE /\ UNCHANGED vars

BucketLockExpires ==
  /\ bucket /\ bucket' = FALSE
  /\ UNCHANGED <<dbVars, copy, listed, pending, jobVars, lockVars, memVars,
                 provVars, cache, pc, tok, res, tries, faults>>

\* Mutant: the refresh lock has no TTL.
LockStays == FALSE /\ UNCHANGED vars

\* The refresh lock expires, in the middle of a refresh or after a crash.
LockExpires ==
  /\ lock /\ lock' = FALSE
  /\ broken' = (broken \/ held # {})
  /\ held' = held
  /\ UNCHANGED <<dbVars, schedVars, jobVars, memVars, provVars, cache, pc, tok,
                 res, tries, faults>>

CacheExpires ==
  /\ cache # None /\ cache' = None
  /\ UNCHANGED <<dbVars, schedVars, jobVars, lockVars, memVars, provVars, pc,
                 tok, res, tries, faults>>

\* The newest access token comes near its end.
Age ==
  /\ due < MaxGen /\ due <= valid
  /\ due' = due + 1
  /\ UNCHANGED <<dbVars, schedVars, jobVars, lockVars, memVars, valid, blind,
                 cache, pc, tok, res, tries, faults>>

\* The pause of an account ends, on every copy of it.
Unpark ==
  LET Rested(a) == IF a = None THEN a
                               ELSE [a EXCEPT !.flags = @ \ {"parked"}]
  IN
  /\ "parked" \in row.flags
  /\ row' = Rested(row)
  /\ copy' = Rested(copy)
  /\ obj' = [p \in Actors |-> Rested(obj[p])]
  /\ fresh' = [p \in Actors |-> Rested(fresh[p])]
  /\ buf' = [x \in Actors \cup Syncers |-> Rested(buf[x])]
  /\ UNCHANGED <<lost, listed, bucket, pending, job, lockVars, aliased, begin,
                 provVars, cache, pc, tok, res, tries, faults>>

\* A process dies; the worker's is started again.
Crash(d) ==
  LET dead == {p \in Actors : ProcOf[p] = d} IN
  /\ Fails
  /\ \E p \in dead : pc[p] \notin {"idle", "done"}
  /\ lost' = (lost \/ \E p \in dead : Carries(p))
  /\ held' = held \ dead
  /\ pc' = [p \in Actors |-> IF p \notin dead \/ pc[p] = "done" THEN pc[p]
                             ELSE IF p \in Workers THEN "idle" ELSE "done"]
  /\ obj' = [p \in Actors |-> IF p \in dead THEN None ELSE obj[p]]
  /\ fresh' = [p \in Actors |-> IF p \in dead THEN None ELSE fresh[p]]
  /\ aliased' = aliased \ dead
  /\ tok' = [p \in Actors |-> IF p \in dead THEN None ELSE tok[p]]
  /\ res' = [p \in Actors |-> IF p \in dead THEN "none" ELSE res[p]]
  /\ tries' = [w \in Workers |-> IF w \in dead THEN 0 ELSE tries[w]]
  /\ buf' = [x \in Actors \cup Syncers |-> IF x \in dead THEN None ELSE buf[x]]
  /\ begin' = [p \in Actors |-> IF p \in dead THEN 0 ELSE begin[p]]
  /\ UNCHANGED <<row, schedVars, job, lock, broken, valid, due, blind, cache>>

-----------------------------------------------------------------------------
Step(p) ==
  \/ Lookup(p) \/ Check(p) \/ Store(p) \/ Accepted(p) \/ Unauthorized(p)
  \/ GiveUp(p)
  \/ ForceRefresh(p) \/ Lock(p) \/ TakeLock(p) \/ LockHeld(p) \/ Degrade(p)
  \/ Reread(p) \/ RereadFails(p) \/ Rotate(p) \/ CallFails(p)
  \/ InvalidGrant(p) \/ Recover(p) \/ Persist(p) \/ PersistFails(p)
  \/ Release(p) \/ Park(p) \/ Condemn(p) \/ Sync(p) \/ Write(p)
  \/ ManualRotate(p) \/ ManualFails(p) \/ Load(p) \/ Save(p)
  \/ UpdateFails(p) \/ Invalidate(p)
  \/ Cycle(p) \/ Post(p) \/ Drop(p) \/ Publish(p)

SyncStep(s) ==
  \/ Poll(s) \/ ApplyEvent(s) \/ StartRebuild(s) \/ PassOver(s) \/ Fallback(s)
  \/ SetSnapshot(s) \/ SnapshotFails(s)

Next ==
  \/ \E p \in Actors : Pick(p) \/ Open(p) \/ Step(p)
  \/ \E s \in Syncers : SyncStep(s)
  \/ \E d \in Procs : Crash(d)
  \/ BucketLockExpires \/ LockExpires \/ CacheExpires \/ Age \/ Unpark

Spec == Init /\ [][Next]_vars

\* Actors go on, as every call ends or times out, and locks expire.
Fairness ==
  /\ \A p \in Actors : WF_vars(Step(p))
  /\ \A s \in Syncers : WF_vars(SyncStep(s))
  /\ WF_vars(BucketLockExpires) /\ WF_vars(LockExpires)

FairSpec == Spec /\ Fairness

-----------------------------------------------------------------------------
(* Properties *)

\* The refresh token the provider accepts is the stored one, or that of a
\* refresh about to store it: with or without the lock, and whatever others
\* write meanwhile, it is lost only by a call that fails in the middle of a
\* refresh, a crash there, or credentials written back that are older than the
\* row: after a 401, or by an edit in the control plane.
TokenKept ==
  \/ lost \/ row.gen = valid
  \/ \E p \in Actors : Carries(p) /\ tok[p] = valid

\* The background job gives an account up (SetError after invalid_grant; its
\* other non-retryable errors are no matter of races) only when its token was
\* lost, the lock failed to exclude or an administrator refreshed without it,
\* or the row could not be read to find out.
NotCondemned ==
  "error" \in row.flags => lost \/ broken \/ blind

\* A request that does not take its token from the cache uses one not older
\* than the last token RefreshIfNeeded had stored when it began, however old the
\* scheduler's copy is (CheckTokenVersion).  A refresh by hand keeps the version:
\* the token before it may still be used, and cached.
ServedIsCurrent ==
  \A r \in Requests :
    pc[r] \in {"store", "send"} /\ res[r] = "checked" /\ ~lost =>
      tok[r] >= begin[r]

\* An account whose token comes near its end is refreshed by the background
\* job, or given up: no lock left by a process that died, no pause and no lost
\* race keeps the job from it.
TokensGetRefreshed ==
  (Needs(row) /\ "error" \notin row.flags /\ \E w \in Workers : pc[w] # "done")
    ~> (~Needs(row) \/ "error" \in row.flags)

\* In the end the scheduler's cache has the account as it is stored, and offers
\* it, whatever writes of the cache failed or came late and whatever outbox
\* events were lost.
SchedulerCatchesUp ==
  (\E s \in Syncers : job[s] # "absent")
    => <>[](row.flags = {} => listed /\ copy = row)
=============================================================================

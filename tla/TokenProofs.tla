----------------------------- MODULE TokenProofs -----------------------------
(***************************************************************************)
(* Proofs about TokenRefresh: its types, and that a rotated refresh token  *)
(* is not lost, an account not given up and no old token served but for    *)
(* the reasons the properties name.                                        *)
(***************************************************************************)
EXTENDS TokenRefresh, TLAPS

-----------------------------------------------------------------------------
(* Types *)

\* A forced refresh is not one of the last generation within the bound; a token
\* is not older than its version.
Refreshable(a) == a # None => (a.forced => a.gen < MaxGen) /\ a.ver <= a.gen

SharedTypes ==
  /\ valid \in Gens /\ due \in Gens
  /\ row \in Accounts /\ copy \in Accounts
  /\ Refreshable(row) /\ Refreshable(copy)
  /\ cache \in Gens \cup {None}
  /\ held \subseteq Actors
  /\ faults \in Nat

FlagTypes ==
  /\ listed \in BOOLEAN /\ bucket \in BOOLEAN /\ pending \in BOOLEAN
  /\ lock \in BOOLEAN
  /\ lost \in BOOLEAN /\ broken \in BOOLEAN /\ blind \in BOOLEAN

PlaceTypes ==
  /\ pc \in [Actors -> Pcs]
  /\ res \in [Actors -> Results]
  /\ tries \in [Workers -> 0 .. (MaxRetries - 1)]
  /\ job \in [Syncers -> {"absent", "none", "event", "between", "bucket"}]

MemoryTypes ==
  /\ obj \in [Actors -> Accounts \cup {None}]
  /\ fresh \in [Actors -> Accounts \cup {None}]
  /\ aliased \subseteq Actors
  /\ tok \in [Actors -> Gens \cup {None}]
  /\ buf \in [Actors \cup Syncers -> Accounts \cup {None}]
  /\ begin \in [Actors -> Gens]

MemoryBounded ==
  /\ \A p \in Actors : Refreshable(obj[p]) /\ Refreshable(fresh[p])
  /\ \A x \in Actors \cup Syncers : Refreshable(buf[x])

HasObj == Pcs \ {"idle", "done"}
HasFresh == {"call", "recover", "persist", "post", "drop", "publish", "save"}

\* What a place in the code says about the variables of an actor.
Shaped(p) ==
  /\ pc[p] \in HasObj => obj[p] \in Accounts
  /\ pc[p] \in HasFresh \/ res[p] \in {"fresh", "refreshed"} =>
       fresh[p] \in Accounts
  /\ pc[p] \in {"persist", "store"} => tok[p] \in Gens
  /\ pc[p] = "write" => buf[p] \in Accounts
  /\ pc[p] = "call" => fresh[p].gen < MaxGen
  /\ pc[p] \in {"force", "manual"} => obj[p].gen < MaxGen
  /\ pc[p] \in {"load", "save"} /\ tok[p] # None => obj[p].ver <= tok[p]
  /\ pc[p] = "idle" => tok[p] = None

Shape ==
  /\ \A p \in Actors : Shaped(p)
  /\ \A s \in Syncers : job[s] \in {"event", "bucket"} => buf[s] \in Accounts

\* The type invariant, with what makes it inductive.
TypeInv ==
  /\ SharedTypes /\ FlagTypes /\ PlaceTypes
  /\ MemoryTypes /\ MemoryBounded /\ Shape

LEMMA TypeInvImpliesTypeOK == TypeInv => TypeOK
BY DEF TypeInv, TypeOK, SharedTypes, FlagTypes, PlaceTypes, MemoryTypes

\* What an update of an account is.
LEMMA Forced ==
  ASSUME NEW a \in Accounts
  PROVE  /\ [a EXCEPT !.forced = TRUE] \in Accounts
         /\ [a EXCEPT !.forced = TRUE].gen = a.gen
         /\ [a EXCEPT !.forced = TRUE].ver = a.ver
         /\ [a EXCEPT !.forced = TRUE].forced = TRUE
BY DEF Accounts

LEMMA Flagged ==
  ASSUME NEW a \in Accounts, NEW f \in {"error", "parked"}
  PROVE  /\ [a EXCEPT !.flags = @ \cup {f}] \in Accounts
         /\ [a EXCEPT !.flags = @ \cup {f}].gen = a.gen
         /\ [a EXCEPT !.flags = @ \cup {f}].ver = a.ver
         /\ [a EXCEPT !.flags = @ \cup {f}].forced = a.forced
         /\ [a EXCEPT !.flags = @ \cup {f}].flags = a.flags \cup {f}
BY DEF Accounts

LEMMA Rested ==
  ASSUME NEW a \in Accounts
  PROVE  /\ [a EXCEPT !.flags = @ \ {"parked"}] \in Accounts
         /\ [a EXCEPT !.flags = @ \ {"parked"}].gen = a.gen
         /\ [a EXCEPT !.flags = @ \ {"parked"}].ver = a.ver
         /\ [a EXCEPT !.flags = @ \ {"parked"}].forced = a.forced
         /\ [a EXCEPT !.flags = @ \ {"parked"}].flags = a.flags \ {"parked"}
BY DEF Accounts

\* An actor that ends its work leaves nothing behind.
LEMMA EndTypes ==
  ASSUME TypeInv, NEW p \in Actors, End(p), SharedTypes', FlagTypes'
  PROVE  TypeInv'
<1>1. PlaceTypes'
  BY TokenAssumption DEF End, Goto, TypeInv, PlaceTypes, Pcs, Results
<1>2. MemoryTypes'
  <2>1. 0 \in Gens
    BY TokenAssumption DEF Gens
  <2> QED BY <2>1 DEF End, TypeInv, MemoryTypes
<1>3. MemoryBounded'
  BY DEF End, TypeInv, MemoryTypes, MemoryBounded, Refreshable
<1>4. Shape'
  BY TokenAssumption DEF End, Goto, TypeInv, PlaceTypes, MemoryTypes, Shape,
     Shaped, HasObj, HasFresh, Pcs, Actors
<1> QED BY <1>1, <1>2, <1>3, <1>4 DEF TypeInv

LEMMA ForceRefreshTypes ==
  ASSUME TypeInv, NEW p \in Actors, ForceRefresh(p)
  PROVE  TypeInv'
<1> DEFINE a == [obj[p] EXCEPT !.forced = TRUE]
<1>1. /\ obj[p] \in Accounts /\ obj[p].gen < MaxGen
      /\ obj[p].ver <= obj[p].gen
  BY TokenAssumption DEF ForceRefresh, TypeInv, Shape, Shaped, HasObj, Pcs,
     MemoryBounded, Refreshable
<1>2. /\ a \in Accounts /\ a.gen = obj[p].gen /\ a.ver = obj[p].ver
      /\ a.forced = TRUE
  BY <1>1, Forced
<1>3. a.gen \in Gens /\ a.gen < MaxGen /\ a.ver \in Gens /\ a.ver <= a.gen
  BY <1>1, <1>2 DEF Accounts
<1>4. /\ pc[p] = "force"
      /\ obj' = [obj EXCEPT ![p] = a]
      /\ \/ row' = row
         \/ row' = [row EXCEPT !.gen = a.gen, !.ver = a.ver, !.forced = TRUE]
      /\ pc' \in {[pc EXCEPT ![p] = "sync"], [pc EXCEPT ![p] = "park"]}
      /\ res' \in {[res EXCEPT ![p] = "forced"], res}
      /\ faults' \in {faults, faults - 1} /\ (faults' # faults => faults > 0)
      /\ UNCHANGED <<schedVars, jobVars, lockVars, provVars, fresh, aliased,
                     begin, cache, tok, tries>>
  BY DEF ForceRefresh, Goto, Return, Works, Fails, dbVars
<1>5. row' \in Accounts /\ Refreshable(row')
  <2>1. row \in Accounts /\ Refreshable(row)
    BY DEF TypeInv, SharedTypes
  <2> DEFINE b == [row EXCEPT !.gen = a.gen, !.ver = a.ver, !.forced = TRUE]
  <2>2. b \in Accounts /\ b.gen = a.gen /\ b.ver = a.ver
    BY <1>3, <2>1 DEF Accounts
  <2> HIDE DEF a, b
  <2> QED BY <1>3, <1>4, <2>1, <2>2 DEF Refreshable, b
<1> HIDE DEF a
<1>6. SharedTypes'
  BY <1>4, <1>5 DEF TypeInv, SharedTypes, schedVars, provVars, lockVars,
     Refreshable
<1>7. FlagTypes'
  BY DEF ForceRefresh, Return, Goto, Works, Fails, dbVars, schedVars, lockVars,
     provVars, TypeInv, FlagTypes
<1>8. PlaceTypes'
  BY <1>4 DEF TypeInv, PlaceTypes, Pcs, Results, jobVars
<1>9. MemoryTypes'
  BY <1>2, <1>4 DEF TypeInv, MemoryTypes, jobVars
<1>10. MemoryBounded'
  BY <1>2, <1>3, <1>4 DEF TypeInv, MemoryTypes, MemoryBounded, jobVars,
     Refreshable
<1>11. Shape'
  BY <1>2, <1>4 DEF TypeInv, PlaceTypes, MemoryTypes, Shape, Shaped, HasObj,
     HasFresh, Pcs, jobVars
<1> QED BY <1>6, <1>7, <1>8, <1>9, <1>10, <1>11 DEF TypeInv

LEMMA LockHeldTypes ==
  ASSUME TypeInv, NEW p \in Actors, LockHeld(p)
  PROVE  TypeInv'
<1>1. SharedTypes' /\ FlagTypes'
  BY DEF LockHeld, End, Goto, dbVars, schedVars, lockVars, provVars, TypeInv,
     SharedTypes, FlagTypes, Refreshable
<1>2. CASE End(p)
  BY <1>1, <1>2, EndTypes
<1>3. CASE Goto(p, "wait") /\ UNCHANGED <<memVars, tok, res, tries, jobVars>>
  <2>1. PlaceTypes'
    BY <1>3 DEF Goto, jobVars, TypeInv, PlaceTypes, Pcs
  <2>2. MemoryTypes' /\ MemoryBounded'
    BY <1>3 DEF memVars, jobVars, TypeInv, MemoryTypes, MemoryBounded,
       Refreshable
  <2>3. Shape'
    BY <1>3 DEF LockHeld, Goto, memVars, jobVars, TypeInv, PlaceTypes, Shape,
       Shaped, HasObj, HasFresh, Pcs
  <2> QED BY <1>1, <2>1, <2>2, <2>3 DEF TypeInv
<1> QED BY <1>2, <1>3 DEF LockHeld

\* Both outcomes of the update change the objects in memory.
LEMMA AdoptTypes ==
  ASSUME TypeInv, NEW p \in Actors, Adopt(p), pc[p] = "persist"
  PROVE  /\ tok[p] \in Gens
         /\ Stored(p) \in Accounts /\ Stored(p).gen = tok[p]
         /\ Stored(p).ver = tok[p]
         /\ Stored(p).flags = row.flags /\ Stored(p).forced = FALSE
         /\ \E a \in Accounts :
              /\ a.gen = tok[p] /\ a.ver = tok[p] /\ a.forced = FALSE
              /\ fresh' = [fresh EXCEPT ![p] = a]
              /\ obj' \in {obj, [obj EXCEPT ![p] = a]}
              /\ UNCHANGED <<aliased, begin>>
<1> DEFINE a == [fresh[p] EXCEPT !.gen = tok[p], !.ver = tok[p],
                                 !.forced = FALSE]
<1>1. tok[p] \in Gens /\ fresh[p] \in Accounts /\ row \in Accounts
  BY DEF TypeInv, Shape, Shaped, HasFresh, SharedTypes
<1>2. /\ a \in Accounts /\ a.gen = tok[p] /\ a.ver = tok[p]
      /\ a.forced = FALSE
  BY <1>1 DEF Accounts
<1>3. /\ Stored(p) \in Accounts /\ Stored(p).gen = tok[p]
      /\ Stored(p).ver = tok[p]
      /\ Stored(p).flags = row.flags /\ Stored(p).forced = FALSE
  BY <1>1 DEF Stored, Accounts
<1>4. /\ fresh' = [fresh EXCEPT ![p] = a]
      /\ obj' \in {obj, [obj EXCEPT ![p] = a]}
      /\ UNCHANGED <<aliased, begin>>
  BY DEF Adopt
<1> HIDE DEF a
<1> QED BY <1>1, <1>2, <1>3, <1>4

LEMMA PersistingTypes ==
  ASSUME TypeInv, NEW p \in Actors, Persist(p) \/ PersistFails(p)
  PROVE  TypeInv'
<1>1. Adopt(p) /\ pc[p] = "persist"
  BY DEF Persist, PersistFails
<1>2. PICK a \in Accounts : /\ a.gen = tok[p] /\ a.ver = tok[p]
                            /\ a.forced = FALSE
                            /\ fresh' = [fresh EXCEPT ![p] = a]
                            /\ obj' \in {obj, [obj EXCEPT ![p] = a]}
                            /\ UNCHANGED <<aliased, begin>>
  BY <1>1, AdoptTypes
<1>3. row' \in Accounts /\ Refreshable(row)'
  <2>1. row' \in {row, Stored(p)}
    BY DEF Persist, PersistFails
  <2>2. /\ Stored(p) \in Accounts /\ Stored(p).forced = FALSE
        /\ Stored(p).ver = tok[p] /\ Stored(p).gen = tok[p] /\ tok[p] \in Int
        /\ row \in Accounts /\ Refreshable(row)
    <3>1. tok[p] \in Gens
      BY <1>1, AdoptTypes
    <3>2. tok[p] \in Int
      BY <3>1, TokenAssumption DEF Gens
    <3> QED BY <1>1, <3>2, AdoptTypes DEF TypeInv, SharedTypes
  <2> QED BY <2>1, <2>2 DEF Refreshable
<1>4. /\ pc' \in {[pc EXCEPT ![p] = "sync"], [pc EXCEPT ![p] = "release"]}
      /\ res' \in {[res EXCEPT ![p] = "refreshed"], [res EXCEPT ![p] = "error"]}
      /\ faults' \in {faults, faults - 1} /\ (faults' # faults => faults > 0)
      /\ UNCHANGED <<schedVars, jobVars, lockVars, provVars, cache, tok, tries>>
  BY DEF Persist, PersistFails, Goto, Return, Fails
<1>5. SharedTypes'
  BY <1>3, <1>4 DEF TypeInv, SharedTypes, schedVars, lockVars, provVars,
     Refreshable
<1>6. FlagTypes'
  BY DEF Persist, PersistFails, schedVars, lockVars, provVars, TypeInv,
     FlagTypes
<1>7. PlaceTypes'
  BY <1>4 DEF TypeInv, PlaceTypes, Pcs, Results, jobVars
<1>8. MemoryTypes'
  BY <1>2, <1>4 DEF TypeInv, MemoryTypes, jobVars
<1>9. MemoryBounded'
  <2>1. tok[p] \in Gens
    BY <1>1, AdoptTypes
  <2>2. tok[p] \in Int
    BY <2>1, TokenAssumption DEF Gens
  <2> QED BY <1>2, <1>4, <2>2 DEF TypeInv, MemoryTypes, MemoryBounded,
          Refreshable, jobVars
<1>10. Shape'
  BY <1>1, <1>2, <1>4 DEF TypeInv, PlaceTypes, MemoryTypes, Shape, Shaped,
     HasObj, HasFresh, Pcs, jobVars
<1> QED BY <1>5, <1>6, <1>7, <1>8, <1>9, <1>10 DEF TypeInv

LEMMA ReleaseTypes ==
  ASSUME TypeInv, NEW p \in Actors, Release(p)
  PROVE  TypeInv'
<1>1. SharedTypes'
  BY DEF Release, Unlock, Works, Fails, dbVars, schedVars, provVars, TypeInv,
     SharedTypes, Refreshable
<1>2. FlagTypes'
  BY DEF Release, Unlock, dbVars, schedVars, provVars, TypeInv, FlagTypes
<1>3. CASE End(p)
  BY <1>1, <1>2, <1>3, EndTypes
<1>4. CASE /\ pc' \in {[pc EXCEPT ![p] = "check"], [pc EXCEPT ![p] = "condemn"]}
           /\ UNCHANGED <<memVars, tok, res, tries, jobVars>>
  <2>1. PlaceTypes'
    BY <1>4 DEF jobVars, TypeInv, PlaceTypes, Pcs
  <2>2. MemoryTypes' /\ MemoryBounded'
    BY <1>4 DEF memVars, jobVars, TypeInv, MemoryTypes, MemoryBounded,
       Refreshable
  <2>3. Shape'
    BY <1>4 DEF Release, memVars, jobVars, TypeInv, PlaceTypes, Shape, Shaped,
       HasObj, HasFresh, Pcs
  <2> QED BY <1>1, <1>2, <2>1, <2>2, <2>3 DEF TypeInv
<1>5. CASE /\ res[p] = "refreshed" /\ pc' = [pc EXCEPT ![p] = "post"]
           /\ UNCHANGED <<memVars, tok, res, tries, jobVars>>
  <2>1. PlaceTypes'
    BY <1>5 DEF jobVars, TypeInv, PlaceTypes, Pcs
  <2>2. MemoryTypes' /\ MemoryBounded'
    BY <1>5 DEF memVars, jobVars, TypeInv, MemoryTypes, MemoryBounded,
       Refreshable
  <2>3. Shape'
    BY <1>5 DEF Release, memVars, jobVars, TypeInv, PlaceTypes, Shape, Shaped,
       HasObj, HasFresh, Pcs
  <2> QED BY <1>1, <1>2, <2>1, <2>2, <2>3 DEF TypeInv
<1>6. CASE /\ p \in Workers
           /\ IF MayRetry(p)
              THEN /\ tries' = [tries EXCEPT ![p] = @ + 1]
                   /\ Goto(p, "mutex")
              ELSE tries' = tries /\ Goto(p, "park")
           /\ Return(p, "none")
           /\ tok' = [tok EXCEPT ![p] = None]
           /\ UNCHANGED <<memVars, jobVars>>
  <2>1. PlaceTypes'
    BY <1>6, TokenAssumption DEF Goto, Return, MayRetry, jobVars, TypeInv,
       PlaceTypes, Pcs, Results
  <2>2. MemoryTypes' /\ MemoryBounded'
    BY <1>6 DEF memVars, jobVars, TypeInv, MemoryTypes, MemoryBounded,
       Refreshable
  <2>3. Shape'
    BY <1>6 DEF Release, Goto, Return, memVars, jobVars, TypeInv, PlaceTypes,
       MemoryTypes, Shape, Shaped, HasObj, HasFresh, Pcs
  <2> QED BY <1>1, <1>2, <2>1, <2>2, <2>3 DEF TypeInv
<1> QED BY <1>3, <1>4, <1>5, <1>6 DEF Release, Goto

LEMMA FlagKeepsTypes ==
  ASSUME TypeInv, NEW p \in Actors, NEW f \in {"error", "parked"}, Flag(p, f),
         pc[p] \in {"park", "condemn"}
  PROVE  TypeInv'
<1>1. row' \in Accounts /\ Refreshable(row')
  <2> DEFINE a == [row EXCEPT !.flags = @ \cup {f}]
  <2>1. row \in Accounts /\ Refreshable(row)
    BY DEF TypeInv, SharedTypes
  <2>2. /\ a \in Accounts /\ a.gen = row.gen /\ a.ver = row.ver
        /\ a.forced = row.forced
    BY <2>1, Flagged
  <2>3. row' \in {row, a}
    BY DEF Flag
  <2> HIDE DEF a
  <2> QED BY <2>1, <2>2, <2>3, TokenAssumption DEF Refreshable
<1>2. /\ faults' \in {faults, faults - 1} /\ (faults' # faults => faults > 0)
      /\ UNCHANGED <<lost, copy, listed, bucket, lockVars, provVars, cache>>
  BY DEF Flag, Enqueue, Works, Fails
<1>3. SharedTypes'
  BY <1>1, <1>2 DEF TypeInv, SharedTypes, lockVars, provVars, Refreshable
<1>4. FlagTypes'
  BY DEF Flag, Enqueue, lockVars, provVars, TypeInv, FlagTypes
<1>5. CASE End(p)
  BY <1>3, <1>4, <1>5, EndTypes
<1>6. CASE /\ Return(p, "flagged") /\ Goto(p, "sync")
           /\ UNCHANGED <<memVars, tok, tries, jobVars>>
  <2>1. PlaceTypes'
    BY <1>6 DEF Goto, Return, jobVars, TypeInv, PlaceTypes, Pcs, Results
  <2>2. MemoryTypes' /\ MemoryBounded'
    BY <1>6 DEF memVars, jobVars, TypeInv, MemoryTypes, MemoryBounded,
       Refreshable
  <2>3. Shape'
    BY <1>6 DEF Goto, Return, memVars, jobVars, TypeInv, PlaceTypes, Shape,
       Shaped, HasObj, HasFresh, Pcs
  <2> QED BY <1>3, <1>4, <2>1, <2>2, <2>3 DEF TypeInv
<1> QED BY <1>5, <1>6 DEF Flag

LEMMA ParkTypes ==
  ASSUME TypeInv, NEW p \in Actors, Park(p)
  PROVE  TypeInv'
BY FlagKeepsTypes DEF Park

LEMMA CondemnTypes ==
  ASSUME TypeInv, NEW p \in Actors, Condemn(p)
  PROVE  TypeInv'
BY FlagKeepsTypes DEF Condemn

LEMMA WriteTypes ==
  ASSUME TypeInv, NEW p \in Actors, Write(p)
  PROVE  TypeInv'
<1>1. buf[p] \in Accounts /\ Refreshable(buf[p])
  BY DEF Write, TypeInv, Shape, Shaped, MemoryBounded, Actors
<1>2. SharedTypes'
  BY <1>1 DEF Write, Works, Fails, dbVars, lockVars, provVars, TypeInv,
     SharedTypes, Refreshable
<1>3. FlagTypes'
  BY DEF Write, dbVars, lockVars, provVars, TypeInv, FlagTypes
<1>4. CASE End(p)
  BY <1>2, <1>3, <1>4, EndTypes
<1>5. CASE /\ pc' \in {[pc EXCEPT ![p] = "park"], [pc EXCEPT ![p] = "release"],
                       [pc EXCEPT ![p] = "invalidate"]}
           /\ buf' = [buf EXCEPT ![p] = None]
           /\ UNCHANGED <<job, memVars, tok, res, tries>>
  <2>1. PlaceTypes'
    BY <1>5 DEF TypeInv, PlaceTypes, Pcs
  <2>2. MemoryTypes'
    BY <1>5 DEF memVars, TypeInv, MemoryTypes
  <2>3. MemoryBounded'
    BY <1>5 DEF memVars, TypeInv, MemoryTypes, MemoryBounded, Refreshable
  <2>4. Shape'
    BY <1>5, TokenAssumption DEF Write, memVars, TypeInv, PlaceTypes,
       MemoryTypes, Shape, Shaped, HasObj, HasFresh, Pcs, Actors
  <2> QED BY <1>2, <1>3, <2>1, <2>2, <2>3, <2>4 DEF TypeInv
<1> QED BY <1>4, <1>5 DEF Write, Goto

LEMMA UnparkTypes ==
  ASSUME TypeInv, Unpark
  PROVE  TypeInv'
<1> DEFINE R(a) == IF a = None THEN a ELSE [a EXCEPT !.flags = @ \ {"parked"}]
<1>1. ASSUME NEW a \in Accounts \cup {None}
      PROVE  /\ R(a) \in Accounts \cup {None} /\ (a \in Accounts <=> R(a) \in Accounts)
             /\ (a \in Accounts => /\ R(a).gen = a.gen /\ R(a).ver = a.ver
                                 /\ R(a).forced = a.forced)
             /\ (a = None => R(a) = None)
  BY Rested, TokenAssumption
<1>2. /\ row' = R(row) /\ copy' = R(copy)
      /\ obj' = [q \in Actors |-> R(obj[q])]
      /\ fresh' = [q \in Actors |-> R(fresh[q])]
      /\ buf' = [x \in Actors \cup Syncers |-> R(buf[x])]
      /\ UNCHANGED <<lost, listed, bucket, pending, job, lockVars, aliased,
                     begin, provVars, cache, pc, tok, res, tries, faults>>
  BY DEF Unpark
<1> HIDE DEF R
<1>3. SharedTypes'
  BY <1>1, <1>2, TokenAssumption DEF TypeInv, SharedTypes, lockVars, provVars,
     Refreshable
<1>4. FlagTypes' /\ PlaceTypes'
  BY <1>2 DEF TypeInv, FlagTypes, PlaceTypes, lockVars, provVars
<1>5. MemoryTypes'
  BY <1>1, <1>2 DEF TypeInv, MemoryTypes
<1>6. MemoryBounded'
  BY <1>1, <1>2, TokenAssumption DEF TypeInv, MemoryTypes, MemoryBounded,
     Refreshable
<1>7. Shape'
  <2>1. ASSUME NEW p \in Actors PROVE Shaped(p)'
    <3>1. /\ obj[p] \in Accounts \cup {None} /\ fresh[p] \in Accounts \cup {None}
          /\ buf[p] \in Accounts \cup {None}
      BY DEF TypeInv, MemoryTypes
    <3>2. /\ obj'[p] = R(obj[p]) /\ fresh'[p] = R(fresh[p])
          /\ buf'[p] = R(buf[p])
      BY <1>2
    <3>3. /\ obj[p] \in Accounts => /\ obj'[p] \in Accounts
                                    /\ obj'[p].gen = obj[p].gen
                                    /\ obj'[p].ver = obj[p].ver
          /\ fresh[p] \in Accounts =>
               fresh'[p] \in Accounts /\ fresh'[p].gen = fresh[p].gen
          /\ buf[p] \in Accounts => buf'[p] \in Accounts
      BY <1>1, <3>1, <3>2
    <3>4. pc'[p] = pc[p] /\ res'[p] = res[p] /\ tok'[p] = tok[p]
      BY <1>2
    <3>5. Shaped(p)
      BY DEF TypeInv, Shape
    <3> QED BY <3>3, <3>4, <3>5 DEF Shaped, HasObj, HasFresh, Pcs
  <2>2. ASSUME NEW s \in Syncers, job'[s] \in {"event", "bucket"}
        PROVE  buf'[s] \in Accounts
    <3>1. buf[s] \in Accounts /\ buf'[s] = R(buf[s])
      BY <1>2, <2>2 DEF TypeInv, Shape
    <3> QED BY <1>1, <3>1
  <2> QED BY <2>1, <2>2 DEF Shape
<1> QED BY <1>3, <1>4, <1>5, <1>6, <1>7 DEF TypeInv

LEMMA PickTypes ==
  ASSUME TypeInv, NEW p \in Actors, Pick(p)
  PROVE  TypeInv'
<1>1. SharedTypes'
  BY TokenAssumption DEF Pick, Goto, dbVars, schedVars, jobVars, lockVars,
     provVars, TypeInv, SharedTypes, MemoryTypes, MemoryBounded, PlaceTypes,
     Shape, Shaped, HasObj, HasFresh, Pcs, Refreshable, Gens, Accounts, Actors
<1>2. FlagTypes'
  BY DEF Pick, Goto, dbVars, schedVars, jobVars, lockVars, provVars, TypeInv,
     FlagTypes
<1>3. PlaceTypes'
  BY TokenAssumption DEF Pick, Goto, dbVars, schedVars, jobVars, lockVars,
     provVars, TypeInv, PlaceTypes, Pcs, Results
<1>4. MemoryTypes'
  BY TokenAssumption DEF Pick, Goto, dbVars, schedVars, jobVars, lockVars,
     provVars, TypeInv, SharedTypes, MemoryTypes, PlaceTypes, Shape, Shaped,
     HasObj, HasFresh, Pcs, Gens, Accounts, Actors
<1>5. MemoryBounded'
  BY TokenAssumption DEF Pick, Goto, dbVars, schedVars, jobVars, lockVars,
     provVars, TypeInv, SharedTypes, MemoryTypes, MemoryBounded, PlaceTypes,
     Shape, Shaped, HasObj, HasFresh, Pcs, Refreshable, Accounts, Actors
<1>6. Shape'
  BY TokenAssumption DEF Pick, Goto, dbVars, schedVars, jobVars, lockVars,
     provVars, TypeInv, SharedTypes, MemoryTypes, MemoryBounded, PlaceTypes,
     Shape, Shaped, HasObj, HasFresh, Pcs, Refreshable, Gens, Accounts, Actors
<1> QED BY <1>1, <1>2, <1>3, <1>4, <1>5, <1>6 DEF TypeInv

LEMMA LookupTypes ==
  ASSUME TypeInv, NEW p \in Actors, Lookup(p)
  PROVE  TypeInv'
<1>1. SharedTypes'
  BY TokenAssumption DEF Lookup, Works, Return, Goto, Fails, Needs, dbVars,
     schedVars, jobVars, lockVars, memVars, provVars, TypeInv, SharedTypes,
     MemoryTypes, MemoryBounded, PlaceTypes, Shape, Shaped, HasObj, HasFresh,
     Pcs, Refreshable, Gens, Accounts, Actors
<1>2. FlagTypes'
  BY DEF Lookup, Works, Return, Goto, Fails, Needs, dbVars, schedVars, jobVars,
     lockVars, memVars, provVars, TypeInv, FlagTypes
<1>3. PlaceTypes'
  BY TokenAssumption DEF Lookup, Works, Return, Goto, Fails, Needs, dbVars,
     schedVars, jobVars, lockVars, memVars, provVars, TypeInv, PlaceTypes, Pcs,
     Results
<1>4. MemoryTypes'
  BY TokenAssumption DEF Lookup, Works, Return, Goto, Fails, Needs, dbVars,
     schedVars, jobVars, lockVars, memVars, provVars, TypeInv, SharedTypes,
     MemoryTypes, PlaceTypes, Shape, Shaped, HasObj, HasFresh, Pcs, Gens,
     Accounts, Actors
<1>5. MemoryBounded'
  BY TokenAssumption DEF Lookup, Works, Return, Goto, Fails, Needs, dbVars,
     schedVars, jobVars, lockVars, memVars, provVars, TypeInv, SharedTypes,
     MemoryTypes, MemoryBounded, PlaceTypes, Shape, Shaped, HasObj, HasFresh,
     Pcs, Refreshable, Accounts, Actors
<1>6. Shape'
  BY TokenAssumption DEF Lookup, Works, Return, Goto, Fails, Needs, dbVars,
     schedVars, jobVars, lockVars, memVars, provVars, TypeInv, SharedTypes,
     MemoryTypes, MemoryBounded, PlaceTypes, Shape, Shaped, HasObj, HasFresh,
     Pcs, Refreshable, Gens, Accounts, Actors
<1> QED BY <1>1, <1>2, <1>3, <1>4, <1>5, <1>6 DEF TypeInv

LEMMA GiveUpTypes ==
  ASSUME TypeInv, NEW p \in Actors, GiveUp(p)
  PROVE  TypeInv'
<1>1. SharedTypes'
  BY TokenAssumption DEF GiveUp, End, Goto, dbVars, schedVars, lockVars,
     provVars, TypeInv, SharedTypes, MemoryTypes, MemoryBounded, PlaceTypes,
     Shape, Shaped, HasObj, HasFresh, Pcs, Refreshable, Gens, Accounts, Actors
<1>2. FlagTypes'
  BY DEF GiveUp, End, Goto, dbVars, schedVars, lockVars, provVars, TypeInv,
     FlagTypes
<1>3. PlaceTypes'
  BY TokenAssumption DEF GiveUp, End, Goto, dbVars, schedVars, lockVars,
     provVars, TypeInv, PlaceTypes, Pcs, Results
<1>4. MemoryTypes'
  BY TokenAssumption DEF GiveUp, End, Goto, dbVars, schedVars, lockVars,
     provVars, TypeInv, SharedTypes, MemoryTypes, PlaceTypes, Shape, Shaped,
     HasObj, HasFresh, Pcs, Gens, Accounts, Actors
<1>5. MemoryBounded'
  BY TokenAssumption DEF GiveUp, End, Goto, dbVars, schedVars, lockVars,
     provVars, TypeInv, SharedTypes, MemoryTypes, MemoryBounded, PlaceTypes,
     Shape, Shaped, HasObj, HasFresh, Pcs, Refreshable, Accounts, Actors
<1>6. Shape'
  BY TokenAssumption DEF GiveUp, End, Goto, dbVars, schedVars, lockVars,
     provVars, TypeInv, SharedTypes, MemoryTypes, MemoryBounded, PlaceTypes,
     Shape, Shaped, HasObj, HasFresh, Pcs, Refreshable, Gens, Accounts, Actors
<1> QED BY <1>1, <1>2, <1>3, <1>4, <1>5, <1>6 DEF TypeInv

LEMMA CheckTypes ==
  ASSUME TypeInv, NEW p \in Actors, Check(p)
  PROVE  TypeInv'
<1>1. SharedTypes'
  BY TokenAssumption DEF Check, Stale, Current, Works, Return, Goto, Fails,
     dbVars, schedVars, jobVars, lockVars, memVars, provVars, TypeInv,
     SharedTypes, MemoryTypes, MemoryBounded, PlaceTypes, Shape, Shaped,
     HasObj, HasFresh, Pcs, Refreshable, Gens, Accounts, Actors
<1>2. FlagTypes'
  BY DEF Check, Stale, Current, Works, Return, Goto, Fails, dbVars, schedVars,
     jobVars, lockVars, memVars, provVars, TypeInv, FlagTypes
<1>3. PlaceTypes'
  BY TokenAssumption DEF Check, Stale, Current, Works, Return, Goto, Fails,
     dbVars, schedVars, jobVars, lockVars, memVars, provVars, TypeInv,
     PlaceTypes, Pcs, Results
<1>4. MemoryTypes'
  BY TokenAssumption DEF Check, Stale, Current, Works, Return, Goto, Fails,
     dbVars, schedVars, jobVars, lockVars, memVars, provVars, TypeInv,
     SharedTypes, MemoryTypes, PlaceTypes, Shape, Shaped, HasObj, HasFresh,
     Pcs, Gens, Accounts, Actors
<1>5. MemoryBounded'
  BY TokenAssumption DEF Check, Stale, Current, Works, Return, Goto, Fails,
     dbVars, schedVars, jobVars, lockVars, memVars, provVars, TypeInv,
     SharedTypes, MemoryTypes, MemoryBounded, PlaceTypes, Shape, Shaped,
     HasObj, HasFresh, Pcs, Refreshable, Accounts, Actors
<1>6. Shape'
  BY TokenAssumption DEF Check, Stale, Current, Works, Return, Goto, Fails,
     dbVars, schedVars, jobVars, lockVars, memVars, provVars, TypeInv,
     SharedTypes, MemoryTypes, MemoryBounded, PlaceTypes, Shape, Shaped,
     HasObj, HasFresh, Pcs, Refreshable, Gens, Accounts, Actors
<1> QED BY <1>1, <1>2, <1>3, <1>4, <1>5, <1>6 DEF TypeInv

LEMMA StoreTypes ==
  ASSUME TypeInv, NEW p \in Actors, Store(p)
  PROVE  TypeInv'
<1>1. SharedTypes'
  BY TokenAssumption DEF Store, Works, Fails, Goto, dbVars, schedVars, jobVars,
     lockVars, memVars, provVars, TypeInv, SharedTypes, MemoryTypes,
     MemoryBounded, PlaceTypes, Shape, Shaped, HasObj, HasFresh, Pcs,
     Refreshable, Gens, Accounts, Actors
<1>2. FlagTypes'
  BY DEF Store, Works, Fails, Goto, dbVars, schedVars, jobVars, lockVars,
     memVars, provVars, TypeInv, FlagTypes
<1>3. PlaceTypes'
  BY TokenAssumption DEF Store, Works, Fails, Goto, dbVars, schedVars, jobVars,
     lockVars, memVars, provVars, TypeInv, PlaceTypes, Pcs, Results
<1>4. MemoryTypes'
  BY TokenAssumption DEF Store, Works, Fails, Goto, dbVars, schedVars, jobVars,
     lockVars, memVars, provVars, TypeInv, SharedTypes, MemoryTypes,
     PlaceTypes, Shape, Shaped, HasObj, HasFresh, Pcs, Gens, Accounts, Actors
<1>5. MemoryBounded'
  BY TokenAssumption DEF Store, Works, Fails, Goto, dbVars, schedVars, jobVars,
     lockVars, memVars, provVars, TypeInv, SharedTypes, MemoryTypes,
     MemoryBounded, PlaceTypes, Shape, Shaped, HasObj, HasFresh, Pcs,
     Refreshable, Accounts, Actors
<1>6. Shape'
  BY TokenAssumption DEF Store, Works, Fails, Goto, dbVars, schedVars, jobVars,
     lockVars, memVars, provVars, TypeInv, SharedTypes, MemoryTypes,
     MemoryBounded, PlaceTypes, Shape, Shaped, HasObj, HasFresh, Pcs,
     Refreshable, Gens, Accounts, Actors
<1> QED BY <1>1, <1>2, <1>3, <1>4, <1>5, <1>6 DEF TypeInv

LEMMA AcceptedTypes ==
  ASSUME TypeInv, NEW p \in Actors, Accepted(p)
  PROVE  TypeInv'
<1>1. SharedTypes'
  BY TokenAssumption DEF Accepted, End, Goto, dbVars, schedVars, lockVars,
     provVars, TypeInv, SharedTypes, MemoryTypes, MemoryBounded, PlaceTypes,
     Shape, Shaped, HasObj, HasFresh, Pcs, Refreshable, Gens, Accounts, Actors
<1>2. FlagTypes'
  BY DEF Accepted, End, Goto, dbVars, schedVars, lockVars, provVars, TypeInv,
     FlagTypes
<1>3. PlaceTypes'
  BY TokenAssumption DEF Accepted, End, Goto, dbVars, schedVars, lockVars,
     provVars, TypeInv, PlaceTypes, Pcs, Results
<1>4. MemoryTypes'
  BY TokenAssumption DEF Accepted, End, Goto, dbVars, schedVars, lockVars,
     provVars, TypeInv, SharedTypes, MemoryTypes, PlaceTypes, Shape, Shaped,
     HasObj, HasFresh, Pcs, Gens, Accounts, Actors
<1>5. MemoryBounded'
  BY TokenAssumption DEF Accepted, End, Goto, dbVars, schedVars, lockVars,
     provVars, TypeInv, SharedTypes, MemoryTypes, MemoryBounded, PlaceTypes,
     Shape, Shaped, HasObj, HasFresh, Pcs, Refreshable, Accounts, Actors
<1>6. Shape'
  BY TokenAssumption DEF Accepted, End, Goto, dbVars, schedVars, lockVars,
     provVars, TypeInv, SharedTypes, MemoryTypes, MemoryBounded, PlaceTypes,
     Shape, Shaped, HasObj, HasFresh, Pcs, Refreshable, Gens, Accounts, Actors
<1> QED BY <1>1, <1>2, <1>3, <1>4, <1>5, <1>6 DEF TypeInv

LEMMA UnauthorizedTypes ==
  ASSUME TypeInv, NEW p \in Actors, Unauthorized(p)
  PROVE  TypeInv'
<1>1. SharedTypes'
  BY TokenAssumption DEF Unauthorized, Works, Fails, Goto, dbVars, schedVars,
     jobVars, lockVars, memVars, provVars, TypeInv, SharedTypes, MemoryTypes,
     MemoryBounded, PlaceTypes, Shape, Shaped, HasObj, HasFresh, Pcs,
     Refreshable, Gens, Accounts, Actors
<1>2. FlagTypes'
  BY DEF Unauthorized, Works, Fails, Goto, dbVars, schedVars, jobVars,
     lockVars, memVars, provVars, TypeInv, FlagTypes
<1>3. PlaceTypes'
  BY TokenAssumption DEF Unauthorized, Works, Fails, Goto, dbVars, schedVars,
     jobVars, lockVars, memVars, provVars, TypeInv, PlaceTypes, Pcs, Results
<1>4. MemoryTypes'
  BY TokenAssumption DEF Unauthorized, Works, Fails, Goto, dbVars, schedVars,
     jobVars, lockVars, memVars, provVars, TypeInv, SharedTypes, MemoryTypes,
     PlaceTypes, Shape, Shaped, HasObj, HasFresh, Pcs, Gens, Accounts, Actors
<1>5. MemoryBounded'
  BY TokenAssumption DEF Unauthorized, Works, Fails, Goto, dbVars, schedVars,
     jobVars, lockVars, memVars, provVars, TypeInv, SharedTypes, MemoryTypes,
     MemoryBounded, PlaceTypes, Shape, Shaped, HasObj, HasFresh, Pcs,
     Refreshable, Accounts, Actors
<1>6. Shape'
  BY TokenAssumption DEF Unauthorized, Works, Fails, Goto, dbVars, schedVars,
     jobVars, lockVars, memVars, provVars, TypeInv, SharedTypes, MemoryTypes,
     MemoryBounded, PlaceTypes, Shape, Shaped, HasObj, HasFresh, Pcs,
     Refreshable, Gens, Accounts, Actors
<1> QED BY <1>1, <1>2, <1>3, <1>4, <1>5, <1>6 DEF TypeInv

LEMMA LockTypes ==
  ASSUME TypeInv, NEW p \in Actors, Lock(p)
  PROVE  TypeInv'
<1>1. SharedTypes'
  BY TokenAssumption DEF Lock, Inside, Goto, dbVars, schedVars, jobVars,
     lockVars, memVars, provVars, TypeInv, SharedTypes, MemoryTypes,
     MemoryBounded, PlaceTypes, Shape, Shaped, HasObj, HasFresh, Pcs,
     Refreshable, Gens, Accounts, Actors
<1>2. FlagTypes'
  BY DEF Lock, Inside, Goto, dbVars, schedVars, jobVars, lockVars, memVars,
     provVars, TypeInv, FlagTypes
<1>3. PlaceTypes'
  BY TokenAssumption DEF Lock, Inside, Goto, dbVars, schedVars, jobVars,
     lockVars, memVars, provVars, TypeInv, PlaceTypes, Pcs, Results
<1>4. MemoryTypes'
  BY TokenAssumption DEF Lock, Inside, Goto, dbVars, schedVars, jobVars,
     lockVars, memVars, provVars, TypeInv, SharedTypes, MemoryTypes,
     PlaceTypes, Shape, Shaped, HasObj, HasFresh, Pcs, Gens, Accounts, Actors
<1>5. MemoryBounded'
  BY TokenAssumption DEF Lock, Inside, Goto, dbVars, schedVars, jobVars,
     lockVars, memVars, provVars, TypeInv, SharedTypes, MemoryTypes,
     MemoryBounded, PlaceTypes, Shape, Shaped, HasObj, HasFresh, Pcs,
     Refreshable, Accounts, Actors
<1>6. Shape'
  BY TokenAssumption DEF Lock, Inside, Goto, dbVars, schedVars, jobVars,
     lockVars, memVars, provVars, TypeInv, SharedTypes, MemoryTypes,
     MemoryBounded, PlaceTypes, Shape, Shaped, HasObj, HasFresh, Pcs,
     Refreshable, Gens, Accounts, Actors
<1> QED BY <1>1, <1>2, <1>3, <1>4, <1>5, <1>6 DEF TypeInv

LEMMA TakeLockTypes ==
  ASSUME TypeInv, NEW p \in Actors, TakeLock(p)
  PROVE  TypeInv'
<1>1. SharedTypes'
  BY TokenAssumption DEF TakeLock, Goto, dbVars, schedVars, jobVars, memVars,
     provVars, TypeInv, SharedTypes, MemoryTypes, MemoryBounded, PlaceTypes,
     Shape, Shaped, HasObj, HasFresh, Pcs, Refreshable, Gens, Accounts, Actors
<1>2. FlagTypes'
  BY DEF TakeLock, Goto, dbVars, schedVars, jobVars, memVars, provVars,
     TypeInv, FlagTypes
<1>3. PlaceTypes'
  BY TokenAssumption DEF TakeLock, Goto, dbVars, schedVars, jobVars, memVars,
     provVars, TypeInv, PlaceTypes, Pcs, Results
<1>4. MemoryTypes'
  BY TokenAssumption DEF TakeLock, Goto, dbVars, schedVars, jobVars, memVars,
     provVars, TypeInv, SharedTypes, MemoryTypes, PlaceTypes, Shape, Shaped,
     HasObj, HasFresh, Pcs, Gens, Accounts, Actors
<1>5. MemoryBounded'
  BY TokenAssumption DEF TakeLock, Goto, dbVars, schedVars, jobVars, memVars,
     provVars, TypeInv, SharedTypes, MemoryTypes, MemoryBounded, PlaceTypes,
     Shape, Shaped, HasObj, HasFresh, Pcs, Refreshable, Accounts, Actors
<1>6. Shape'
  BY TokenAssumption DEF TakeLock, Goto, dbVars, schedVars, jobVars, memVars,
     provVars, TypeInv, SharedTypes, MemoryTypes, MemoryBounded, PlaceTypes,
     Shape, Shaped, HasObj, HasFresh, Pcs, Refreshable, Gens, Accounts, Actors
<1> QED BY <1>1, <1>2, <1>3, <1>4, <1>5, <1>6 DEF TypeInv

LEMMA DegradeTypes ==
  ASSUME TypeInv, NEW p \in Actors, Degrade(p)
  PROVE  TypeInv'
<1>1. SharedTypes'
  BY TokenAssumption DEF Degrade, Fails, Goto, dbVars, schedVars, jobVars,
     memVars, provVars, TypeInv, SharedTypes, MemoryTypes, MemoryBounded,
     PlaceTypes, Shape, Shaped, HasObj, HasFresh, Pcs, Refreshable, Gens,
     Accounts, Actors
<1>2. FlagTypes'
  BY DEF Degrade, Fails, Goto, dbVars, schedVars, jobVars, memVars, provVars,
     TypeInv, FlagTypes
<1>3. PlaceTypes'
  BY TokenAssumption DEF Degrade, Fails, Goto, dbVars, schedVars, jobVars,
     memVars, provVars, TypeInv, PlaceTypes, Pcs, Results
<1>4. MemoryTypes'
  BY TokenAssumption DEF Degrade, Fails, Goto, dbVars, schedVars, jobVars,
     memVars, provVars, TypeInv, SharedTypes, MemoryTypes, PlaceTypes, Shape,
     Shaped, HasObj, HasFresh, Pcs, Gens, Accounts, Actors
<1>5. MemoryBounded'
  BY TokenAssumption DEF Degrade, Fails, Goto, dbVars, schedVars, jobVars,
     memVars, provVars, TypeInv, SharedTypes, MemoryTypes, MemoryBounded,
     PlaceTypes, Shape, Shaped, HasObj, HasFresh, Pcs, Refreshable, Accounts,
     Actors
<1>6. Shape'
  BY TokenAssumption DEF Degrade, Fails, Goto, dbVars, schedVars, jobVars,
     memVars, provVars, TypeInv, SharedTypes, MemoryTypes, MemoryBounded,
     PlaceTypes, Shape, Shaped, HasObj, HasFresh, Pcs, Refreshable, Gens,
     Accounts, Actors
<1> QED BY <1>1, <1>2, <1>3, <1>4, <1>5, <1>6 DEF TypeInv

LEMMA RereadTypes ==
  ASSUME TypeInv, NEW p \in Actors, Reread(p)
  PROVE  TypeInv'
<1>1. SharedTypes'
  BY TokenAssumption DEF Reread, Works, Inspect, Needs, Goto, Return, dbVars,
     schedVars, jobVars, lockVars, provVars, TypeInv, SharedTypes, MemoryTypes,
     MemoryBounded, PlaceTypes, Shape, Shaped, HasObj, HasFresh, Pcs,
     Refreshable, Gens, Accounts, Actors
<1>2. FlagTypes'
  BY DEF Reread, Works, Inspect, Needs, Goto, Return, dbVars, schedVars,
     jobVars, lockVars, provVars, TypeInv, FlagTypes
<1>3. PlaceTypes'
  BY TokenAssumption DEF Reread, Works, Inspect, Needs, Goto, Return, dbVars,
     schedVars, jobVars, lockVars, provVars, TypeInv, PlaceTypes, Pcs, Results
<1>4. MemoryTypes'
  BY TokenAssumption DEF Reread, Works, Inspect, Needs, Goto, Return, dbVars,
     schedVars, jobVars, lockVars, provVars, TypeInv, SharedTypes, MemoryTypes,
     PlaceTypes, Shape, Shaped, HasObj, HasFresh, Pcs, Gens, Accounts, Actors
<1>5. MemoryBounded'
  BY TokenAssumption DEF Reread, Works, Inspect, Needs, Goto, Return, dbVars,
     schedVars, jobVars, lockVars, provVars, TypeInv, SharedTypes, MemoryTypes,
     MemoryBounded, PlaceTypes, Shape, Shaped, HasObj, HasFresh, Pcs,
     Refreshable, Accounts, Actors
<1>6. Shape'
  BY TokenAssumption DEF Reread, Works, Inspect, Needs, Goto, Return, dbVars,
     schedVars, jobVars, lockVars, provVars, TypeInv, SharedTypes, MemoryTypes,
     MemoryBounded, PlaceTypes, Shape, Shaped, HasObj, HasFresh, Pcs,
     Refreshable, Gens, Accounts, Actors
<1> QED BY <1>1, <1>2, <1>3, <1>4, <1>5, <1>6 DEF TypeInv

LEMMA RereadFailsTypes ==
  ASSUME TypeInv, NEW p \in Actors, RereadFails(p)
  PROVE  TypeInv'
<1>1. SharedTypes'
  BY TokenAssumption DEF RereadFails, Fails, Inspect, Needs, Goto, Return,
     dbVars, schedVars, jobVars, lockVars, provVars, TypeInv, SharedTypes,
     MemoryTypes, MemoryBounded, PlaceTypes, Shape, Shaped, HasObj, HasFresh,
     Pcs, Refreshable, Gens, Accounts, Actors
<1>2. FlagTypes'
  BY DEF RereadFails, Fails, Inspect, Needs, Goto, Return, dbVars, schedVars,
     jobVars, lockVars, provVars, TypeInv, FlagTypes
<1>3. PlaceTypes'
  BY TokenAssumption DEF RereadFails, Fails, Inspect, Needs, Goto, Return,
     dbVars, schedVars, jobVars, lockVars, provVars, TypeInv, PlaceTypes, Pcs,
     Results
<1>4. MemoryTypes'
  BY TokenAssumption DEF RereadFails, Fails, Inspect, Needs, Goto, Return,
     dbVars, schedVars, jobVars, lockVars, provVars, TypeInv, SharedTypes,
     MemoryTypes, PlaceTypes, Shape, Shaped, HasObj, HasFresh, Pcs, Gens,
     Accounts, Actors
<1>5. MemoryBounded'
  BY TokenAssumption DEF RereadFails, Fails, Inspect, Needs, Goto, Return,
     dbVars, schedVars, jobVars, lockVars, provVars, TypeInv, SharedTypes,
     MemoryTypes, MemoryBounded, PlaceTypes, Shape, Shaped, HasObj, HasFresh,
     Pcs, Refreshable, Accounts, Actors
<1>6. Shape'
  BY TokenAssumption DEF RereadFails, Fails, Inspect, Needs, Goto, Return,
     dbVars, schedVars, jobVars, lockVars, provVars, TypeInv, SharedTypes,
     MemoryTypes, MemoryBounded, PlaceTypes, Shape, Shaped, HasObj, HasFresh,
     Pcs, Refreshable, Gens, Accounts, Actors
<1> QED BY <1>1, <1>2, <1>3, <1>4, <1>5, <1>6 DEF TypeInv

LEMMA RotateTypes ==
  ASSUME TypeInv, NEW p \in Actors, Rotate(p)
  PROVE  TypeInv'
<1>1. SharedTypes'
  BY TokenAssumption DEF Rotate, Goto, dbVars, schedVars, jobVars, lockVars,
     memVars, TypeInv, SharedTypes, MemoryTypes, MemoryBounded, PlaceTypes,
     Shape, Shaped, HasObj, HasFresh, Pcs, Refreshable, Gens, Accounts, Actors
<1>2. FlagTypes'
  BY DEF Rotate, Goto, dbVars, schedVars, jobVars, lockVars, memVars, TypeInv,
     FlagTypes
<1>3. PlaceTypes'
  BY TokenAssumption DEF Rotate, Goto, dbVars, schedVars, jobVars, lockVars,
     memVars, TypeInv, PlaceTypes, Pcs, Results
<1>4. MemoryTypes'
  BY TokenAssumption DEF Rotate, Goto, dbVars, schedVars, jobVars, lockVars,
     memVars, TypeInv, SharedTypes, MemoryTypes, PlaceTypes, Shape, Shaped,
     HasObj, HasFresh, Pcs, Gens, Accounts, Actors
<1>5. MemoryBounded'
  BY TokenAssumption DEF Rotate, Goto, dbVars, schedVars, jobVars, lockVars,
     memVars, TypeInv, SharedTypes, MemoryTypes, MemoryBounded, PlaceTypes,
     Shape, Shaped, HasObj, HasFresh, Pcs, Refreshable, Accounts, Actors
<1>6. Shape'
  BY TokenAssumption DEF Rotate, Goto, dbVars, schedVars, jobVars, lockVars,
     memVars, TypeInv, SharedTypes, MemoryTypes, MemoryBounded, PlaceTypes,
     Shape, Shaped, HasObj, HasFresh, Pcs, Refreshable, Gens, Accounts, Actors
<1> QED BY <1>1, <1>2, <1>3, <1>4, <1>5, <1>6 DEF TypeInv

LEMMA CallFailsTypes ==
  ASSUME TypeInv, NEW p \in Actors, CallFails(p)
  PROVE  TypeInv'
<1>1. SharedTypes'
  BY TokenAssumption DEF CallFails, Fails, Return, Goto, schedVars, jobVars,
     lockVars, memVars, TypeInv, SharedTypes, MemoryTypes, MemoryBounded,
     PlaceTypes, Shape, Shaped, HasObj, HasFresh, Pcs, Refreshable, Gens,
     Accounts, Actors
<1>2. FlagTypes'
  BY DEF CallFails, Fails, Return, Goto, schedVars, jobVars, lockVars, memVars,
     TypeInv, FlagTypes
<1>3. PlaceTypes'
  BY TokenAssumption DEF CallFails, Fails, Return, Goto, schedVars, jobVars,
     lockVars, memVars, TypeInv, PlaceTypes, Pcs, Results
<1>4. MemoryTypes'
  BY TokenAssumption DEF CallFails, Fails, Return, Goto, schedVars, jobVars,
     lockVars, memVars, TypeInv, SharedTypes, MemoryTypes, PlaceTypes, Shape,
     Shaped, HasObj, HasFresh, Pcs, Gens, Accounts, Actors
<1>5. MemoryBounded'
  BY TokenAssumption DEF CallFails, Fails, Return, Goto, schedVars, jobVars,
     lockVars, memVars, TypeInv, SharedTypes, MemoryTypes, MemoryBounded,
     PlaceTypes, Shape, Shaped, HasObj, HasFresh, Pcs, Refreshable, Accounts,
     Actors
<1>6. Shape'
  BY TokenAssumption DEF CallFails, Fails, Return, Goto, schedVars, jobVars,
     lockVars, memVars, TypeInv, SharedTypes, MemoryTypes, MemoryBounded,
     PlaceTypes, Shape, Shaped, HasObj, HasFresh, Pcs, Refreshable, Gens,
     Accounts, Actors
<1> QED BY <1>1, <1>2, <1>3, <1>4, <1>5, <1>6 DEF TypeInv

LEMMA InvalidGrantTypes ==
  ASSUME TypeInv, NEW p \in Actors, InvalidGrant(p)
  PROVE  TypeInv'
<1>1. SharedTypes'
  BY TokenAssumption DEF InvalidGrant, Goto, dbVars, schedVars, jobVars,
     lockVars, memVars, provVars, TypeInv, SharedTypes, MemoryTypes,
     MemoryBounded, PlaceTypes, Shape, Shaped, HasObj, HasFresh, Pcs,
     Refreshable, Gens, Accounts, Actors
<1>2. FlagTypes'
  BY DEF InvalidGrant, Goto, dbVars, schedVars, jobVars, lockVars, memVars,
     provVars, TypeInv, FlagTypes
<1>3. PlaceTypes'
  BY TokenAssumption DEF InvalidGrant, Goto, dbVars, schedVars, jobVars,
     lockVars, memVars, provVars, TypeInv, PlaceTypes, Pcs, Results
<1>4. MemoryTypes'
  BY TokenAssumption DEF InvalidGrant, Goto, dbVars, schedVars, jobVars,
     lockVars, memVars, provVars, TypeInv, SharedTypes, MemoryTypes,
     PlaceTypes, Shape, Shaped, HasObj, HasFresh, Pcs, Gens, Accounts, Actors
<1>5. MemoryBounded'
  BY TokenAssumption DEF InvalidGrant, Goto, dbVars, schedVars, jobVars,
     lockVars, memVars, provVars, TypeInv, SharedTypes, MemoryTypes,
     MemoryBounded, PlaceTypes, Shape, Shaped, HasObj, HasFresh, Pcs,
     Refreshable, Accounts, Actors
<1>6. Shape'
  BY TokenAssumption DEF InvalidGrant, Goto, dbVars, schedVars, jobVars,
     lockVars, memVars, provVars, TypeInv, SharedTypes, MemoryTypes,
     MemoryBounded, PlaceTypes, Shape, Shaped, HasObj, HasFresh, Pcs,
     Refreshable, Gens, Accounts, Actors
<1> QED BY <1>1, <1>2, <1>3, <1>4, <1>5, <1>6 DEF TypeInv

LEMMA RecoverTypes ==
  ASSUME TypeInv, NEW p \in Actors, Recover(p)
  PROVE  TypeInv'
<1>1. SharedTypes'
  BY TokenAssumption DEF Recover, Works, Return, Fails, Goto, dbVars,
     schedVars, jobVars, lockVars, TypeInv, SharedTypes, MemoryTypes,
     MemoryBounded, PlaceTypes, Shape, Shaped, HasObj, HasFresh, Pcs,
     Refreshable, Gens, Accounts, Actors
<1>2. FlagTypes'
  BY DEF Recover, Works, Return, Fails, Goto, dbVars, schedVars, jobVars,
     lockVars, TypeInv, FlagTypes
<1>3. PlaceTypes'
  BY TokenAssumption DEF Recover, Works, Return, Fails, Goto, dbVars,
     schedVars, jobVars, lockVars, TypeInv, PlaceTypes, Pcs, Results
<1>4. MemoryTypes'
  BY DEF Recover, jobVars, TypeInv, SharedTypes, MemoryTypes
<1>5. MemoryBounded'
  BY TokenAssumption DEF Recover, Works, Return, Fails, Goto, dbVars,
     schedVars, jobVars, lockVars, TypeInv, SharedTypes, MemoryTypes,
     MemoryBounded, PlaceTypes, Shape, Shaped, HasObj, HasFresh, Pcs,
     Refreshable, Accounts, Actors
<1>6. Shape'
  BY TokenAssumption DEF Recover, Works, Return, Fails, Goto, dbVars,
     schedVars, jobVars, lockVars, TypeInv, SharedTypes, MemoryTypes,
     MemoryBounded, PlaceTypes, Shape, Shaped, HasObj, HasFresh, Pcs,
     Refreshable, Gens, Accounts, Actors
<1> QED BY <1>1, <1>2, <1>3, <1>4, <1>5, <1>6 DEF TypeInv

LEMMA SyncTypes ==
  ASSUME TypeInv, NEW p \in Actors, Sync(p)
  PROVE  TypeInv'
<1>1. SharedTypes'
  BY TokenAssumption DEF Sync, Goto, dbVars, schedVars, lockVars, memVars,
     provVars, TypeInv, SharedTypes, MemoryTypes, MemoryBounded, PlaceTypes,
     Shape, Shaped, HasObj, HasFresh, Pcs, Refreshable, Gens, Accounts, Actors
<1>2. FlagTypes'
  BY DEF Sync, Goto, dbVars, schedVars, lockVars, memVars, provVars, TypeInv,
     FlagTypes
<1>3. PlaceTypes'
  BY TokenAssumption DEF Sync, Goto, dbVars, schedVars, lockVars, memVars,
     provVars, TypeInv, PlaceTypes, Pcs, Results
<1>4. MemoryTypes'
  BY TokenAssumption DEF Sync, Goto, dbVars, schedVars, lockVars, memVars,
     provVars, TypeInv, SharedTypes, MemoryTypes, PlaceTypes, Shape, Shaped,
     HasObj, HasFresh, Pcs, Gens, Accounts, Actors
<1>5. MemoryBounded'
  BY TokenAssumption DEF Sync, Goto, dbVars, schedVars, lockVars, memVars,
     provVars, TypeInv, SharedTypes, MemoryTypes, MemoryBounded, PlaceTypes,
     Shape, Shaped, HasObj, HasFresh, Pcs, Refreshable, Accounts, Actors
<1>6. Shape'
  BY TokenAssumption DEF Sync, Goto, dbVars, schedVars, lockVars, memVars,
     provVars, TypeInv, SharedTypes, MemoryTypes, MemoryBounded, PlaceTypes,
     Shape, Shaped, HasObj, HasFresh, Pcs, Refreshable, Gens, Accounts, Actors
<1> QED BY <1>1, <1>2, <1>3, <1>4, <1>5, <1>6 DEF TypeInv

LEMMA CycleTypes ==
  ASSUME TypeInv, NEW p \in Actors, Cycle(p)
  PROVE  TypeInv'
<1>1. SharedTypes'
  BY TokenAssumption DEF Cycle, Needs, Goto, dbVars, schedVars, jobVars,
     lockVars, provVars, TypeInv, SharedTypes, MemoryTypes, MemoryBounded,
     PlaceTypes, Shape, Shaped, HasObj, HasFresh, Pcs, Refreshable, Gens,
     Accounts, Actors
<1>2. FlagTypes'
  BY DEF Cycle, Needs, Goto, dbVars, schedVars, jobVars, lockVars, provVars,
     TypeInv, FlagTypes
<1>3. PlaceTypes'
  BY TokenAssumption DEF Cycle, Needs, Goto, dbVars, schedVars, jobVars,
     lockVars, provVars, TypeInv, PlaceTypes, Pcs, Results
<1>4. MemoryTypes'
  BY TokenAssumption DEF Cycle, Needs, Goto, dbVars, schedVars, jobVars,
     lockVars, provVars, TypeInv, SharedTypes, MemoryTypes, PlaceTypes, Shape,
     Shaped, HasObj, HasFresh, Pcs, Gens, Accounts, Actors
<1>5. MemoryBounded'
  BY TokenAssumption DEF Cycle, Needs, Goto, dbVars, schedVars, jobVars,
     lockVars, provVars, TypeInv, SharedTypes, MemoryTypes, MemoryBounded,
     PlaceTypes, Shape, Shaped, HasObj, HasFresh, Pcs, Refreshable, Accounts,
     Actors
<1>6. Shape'
  BY TokenAssumption DEF Cycle, Needs, Goto, dbVars, schedVars, jobVars,
     lockVars, provVars, TypeInv, SharedTypes, MemoryTypes, MemoryBounded,
     PlaceTypes, Shape, Shaped, HasObj, HasFresh, Pcs, Refreshable, Gens,
     Accounts, Actors
<1> QED BY <1>1, <1>2, <1>3, <1>4, <1>5, <1>6 DEF TypeInv

LEMMA PostTypes ==
  ASSUME TypeInv, NEW p \in Actors, Post(p)
  PROVE  TypeInv'
<1>1. SharedTypes'
  BY TokenAssumption DEF Post, Enqueue, Works, Fails, Goto, jobVars, lockVars,
     memVars, provVars, TypeInv, SharedTypes, MemoryTypes, MemoryBounded,
     PlaceTypes, Shape, Shaped, HasObj, HasFresh, Pcs, Refreshable, Gens,
     Accounts, Actors
<1>2. FlagTypes'
  BY DEF Post, Enqueue, Works, Fails, Goto, jobVars, lockVars, memVars,
     provVars, TypeInv, FlagTypes
<1>3. PlaceTypes'
  BY TokenAssumption DEF Post, Enqueue, Works, Fails, Goto, jobVars, lockVars,
     memVars, provVars, TypeInv, PlaceTypes, Pcs, Results
<1>4. MemoryTypes'
  BY TokenAssumption DEF Post, Enqueue, Works, Fails, Goto, jobVars, lockVars,
     memVars, provVars, TypeInv, SharedTypes, MemoryTypes, PlaceTypes, Shape,
     Shaped, HasObj, HasFresh, Pcs, Gens, Accounts, Actors
<1>5. MemoryBounded'
  BY TokenAssumption DEF Post, Enqueue, Works, Fails, Goto, jobVars, lockVars,
     memVars, provVars, TypeInv, SharedTypes, MemoryTypes, MemoryBounded,
     PlaceTypes, Shape, Shaped, HasObj, HasFresh, Pcs, Refreshable, Accounts,
     Actors
<1>6. Shape'
  BY TokenAssumption DEF Post, Enqueue, Works, Fails, Goto, jobVars, lockVars,
     memVars, provVars, TypeInv, SharedTypes, MemoryTypes, MemoryBounded,
     PlaceTypes, Shape, Shaped, HasObj, HasFresh, Pcs, Refreshable, Gens,
     Accounts, Actors
<1> QED BY <1>1, <1>2, <1>3, <1>4, <1>5, <1>6 DEF TypeInv

LEMMA DropTypes ==
  ASSUME TypeInv, NEW p \in Actors, Drop(p)
  PROVE  TypeInv'
<1>1. SharedTypes'
  BY TokenAssumption DEF Drop, Works, Fails, Goto, dbVars, schedVars, jobVars,
     lockVars, memVars, provVars, TypeInv, SharedTypes, MemoryTypes,
     MemoryBounded, PlaceTypes, Shape, Shaped, HasObj, HasFresh, Pcs,
     Refreshable, Gens, Accounts, Actors
<1>2. FlagTypes'
  BY DEF Drop, Works, Fails, Goto, dbVars, schedVars, jobVars, lockVars,
     memVars, provVars, TypeInv, FlagTypes
<1>3. PlaceTypes'
  BY TokenAssumption DEF Drop, Works, Fails, Goto, dbVars, schedVars, jobVars,
     lockVars, memVars, provVars, TypeInv, PlaceTypes, Pcs, Results
<1>4. MemoryTypes'
  BY TokenAssumption DEF Drop, Works, Fails, Goto, dbVars, schedVars, jobVars,
     lockVars, memVars, provVars, TypeInv, SharedTypes, MemoryTypes,
     PlaceTypes, Shape, Shaped, HasObj, HasFresh, Pcs, Gens, Accounts, Actors
<1>5. MemoryBounded'
  BY TokenAssumption DEF Drop, Works, Fails, Goto, dbVars, schedVars, jobVars,
     lockVars, memVars, provVars, TypeInv, SharedTypes, MemoryTypes,
     MemoryBounded, PlaceTypes, Shape, Shaped, HasObj, HasFresh, Pcs,
     Refreshable, Accounts, Actors
<1>6. Shape'
  BY TokenAssumption DEF Drop, Works, Fails, Goto, dbVars, schedVars, jobVars,
     lockVars, memVars, provVars, TypeInv, SharedTypes, MemoryTypes,
     MemoryBounded, PlaceTypes, Shape, Shaped, HasObj, HasFresh, Pcs,
     Refreshable, Gens, Accounts, Actors
<1> QED BY <1>1, <1>2, <1>3, <1>4, <1>5, <1>6 DEF TypeInv

LEMMA PublishTypes ==
  ASSUME TypeInv, NEW p \in Actors, Publish(p)
  PROVE  TypeInv'
<1>1. SharedTypes'
  BY TokenAssumption DEF Publish, Works, Fails, End, Goto, dbVars, lockVars,
     provVars, TypeInv, SharedTypes, MemoryTypes, MemoryBounded, PlaceTypes,
     Shape, Shaped, HasObj, HasFresh, Pcs, Refreshable, Gens, Accounts, Actors
<1>2. FlagTypes'
  BY DEF Publish, Works, Fails, End, Goto, dbVars, lockVars, provVars, TypeInv,
     FlagTypes
<1>3. PlaceTypes'
  BY TokenAssumption DEF Publish, Works, Fails, End, Goto, dbVars, lockVars,
     provVars, TypeInv, PlaceTypes, Pcs, Results
<1>4. MemoryTypes'
  BY TokenAssumption DEF Publish, Works, Fails, End, Goto, dbVars, lockVars,
     provVars, TypeInv, SharedTypes, MemoryTypes, PlaceTypes, Shape, Shaped,
     HasObj, HasFresh, Pcs, Gens, Accounts, Actors
<1>5. MemoryBounded'
  BY TokenAssumption DEF Publish, Works, Fails, End, Goto, dbVars, lockVars,
     provVars, TypeInv, SharedTypes, MemoryTypes, MemoryBounded, PlaceTypes,
     Shape, Shaped, HasObj, HasFresh, Pcs, Refreshable, Accounts, Actors
<1>6. Shape'
  BY TokenAssumption DEF Publish, Works, Fails, End, Goto, dbVars, lockVars,
     provVars, TypeInv, SharedTypes, MemoryTypes, MemoryBounded, PlaceTypes,
     Shape, Shaped, HasObj, HasFresh, Pcs, Refreshable, Gens, Accounts, Actors
<1> QED BY <1>1, <1>2, <1>3, <1>4, <1>5, <1>6 DEF TypeInv

LEMMA PollTypes ==
  ASSUME TypeInv, NEW s \in Syncers, Poll(s)
  PROVE  TypeInv'
<1>1. SharedTypes'
  BY TokenAssumption DEF Poll, dbVars, lockVars, memVars, provVars, TypeInv,
     SharedTypes, MemoryTypes, MemoryBounded, PlaceTypes, Shape, Shaped,
     HasObj, HasFresh, Pcs, Refreshable, Gens, Accounts, Actors
<1>2. FlagTypes'
  BY DEF Poll, dbVars, lockVars, memVars, provVars, TypeInv, FlagTypes
<1>3. PlaceTypes'
  BY TokenAssumption DEF Poll, dbVars, lockVars, memVars, provVars, TypeInv,
     PlaceTypes, Pcs, Results
<1>4. MemoryTypes'
  BY TokenAssumption DEF Poll, dbVars, lockVars, memVars, provVars, TypeInv,
     SharedTypes, MemoryTypes, PlaceTypes, Shape, Shaped, HasObj, HasFresh,
     Pcs, Gens, Accounts, Actors
<1>5. MemoryBounded'
  BY TokenAssumption DEF Poll, dbVars, lockVars, memVars, provVars, TypeInv,
     SharedTypes, MemoryTypes, MemoryBounded, PlaceTypes, Shape, Shaped,
     HasObj, HasFresh, Pcs, Refreshable, Accounts, Actors
<1>6. Shape'
  BY TokenAssumption DEF Poll, dbVars, lockVars, memVars, provVars, TypeInv,
     SharedTypes, MemoryTypes, MemoryBounded, PlaceTypes, Shape, Shaped,
     HasObj, HasFresh, Pcs, Refreshable, Gens, Accounts, Actors
<1> QED BY <1>1, <1>2, <1>3, <1>4, <1>5, <1>6 DEF TypeInv

LEMMA ApplyEventTypes ==
  ASSUME TypeInv, NEW s \in Syncers, ApplyEvent(s)
  PROVE  TypeInv'
<1>1. SharedTypes'
  BY TokenAssumption DEF ApplyEvent, Works, Fails, dbVars, lockVars, memVars,
     provVars, TypeInv, SharedTypes, MemoryTypes, MemoryBounded, PlaceTypes,
     Shape, Shaped, HasObj, HasFresh, Pcs, Refreshable, Gens, Accounts, Actors
<1>2. FlagTypes'
  BY DEF ApplyEvent, Works, Fails, dbVars, lockVars, memVars, provVars,
     TypeInv, FlagTypes
<1>3. PlaceTypes'
  BY TokenAssumption DEF ApplyEvent, Works, Fails, dbVars, lockVars, memVars,
     provVars, TypeInv, PlaceTypes, Pcs, Results
<1>4. MemoryTypes'
  BY TokenAssumption DEF ApplyEvent, Works, Fails, dbVars, lockVars, memVars,
     provVars, TypeInv, SharedTypes, MemoryTypes, PlaceTypes, Shape, Shaped,
     HasObj, HasFresh, Pcs, Gens, Accounts, Actors
<1>5. MemoryBounded'
  BY TokenAssumption DEF ApplyEvent, Works, Fails, dbVars, lockVars, memVars,
     provVars, TypeInv, SharedTypes, MemoryTypes, MemoryBounded, PlaceTypes,
     Shape, Shaped, HasObj, HasFresh, Pcs, Refreshable, Accounts, Actors
<1>6. Shape'
  BY TokenAssumption DEF ApplyEvent, Works, Fails, dbVars, lockVars, memVars,
     provVars, TypeInv, SharedTypes, MemoryTypes, MemoryBounded, PlaceTypes,
     Shape, Shaped, HasObj, HasFresh, Pcs, Refreshable, Gens, Accounts, Actors
<1> QED BY <1>1, <1>2, <1>3, <1>4, <1>5, <1>6 DEF TypeInv

LEMMA StartRebuildTypes ==
  ASSUME TypeInv, NEW s \in Syncers, StartRebuild(s)
  PROVE  TypeInv'
<1>1. SharedTypes'
  BY TokenAssumption DEF StartRebuild, dbVars, lockVars, memVars, provVars,
     TypeInv, SharedTypes, MemoryTypes, MemoryBounded, PlaceTypes, Shape,
     Shaped, HasObj, HasFresh, Pcs, Refreshable, Gens, Accounts, Actors
<1>2. FlagTypes'
  BY DEF StartRebuild, dbVars, lockVars, memVars, provVars, TypeInv, FlagTypes
<1>3. PlaceTypes'
  BY TokenAssumption DEF StartRebuild, dbVars, lockVars, memVars, provVars,
     TypeInv, PlaceTypes, Pcs, Results
<1>4. MemoryTypes'
  BY TokenAssumption DEF StartRebuild, dbVars, lockVars, memVars, provVars,
     TypeInv, SharedTypes, MemoryTypes, PlaceTypes, Shape, Shaped, HasObj,
     HasFresh, Pcs, Gens, Accounts, Actors
<1>5. MemoryBounded'
  BY TokenAssumption DEF StartRebuild, dbVars, lockVars, memVars, provVars,
     TypeInv, SharedTypes, MemoryTypes, MemoryBounded, PlaceTypes, Shape,
     Shaped, HasObj, HasFresh, Pcs, Refreshable, Accounts, Actors
<1>6. Shape'
  BY TokenAssumption DEF StartRebuild, dbVars, lockVars, memVars, provVars,
     TypeInv, SharedTypes, MemoryTypes, MemoryBounded, PlaceTypes, Shape,
     Shaped, HasObj, HasFresh, Pcs, Refreshable, Gens, Accounts, Actors
<1> QED BY <1>1, <1>2, <1>3, <1>4, <1>5, <1>6 DEF TypeInv

LEMMA PassOverTypes ==
  ASSUME TypeInv, NEW s \in Syncers, PassOver(s)
  PROVE  TypeInv'
<1>1. SharedTypes'
  BY TokenAssumption DEF PassOver, Advance, Works, Fails, dbVars, lockVars,
     memVars, provVars, TypeInv, SharedTypes, MemoryTypes, MemoryBounded,
     PlaceTypes, Shape, Shaped, HasObj, HasFresh, Pcs, Refreshable, Gens,
     Accounts, Actors
<1>2. FlagTypes'
  BY DEF PassOver, Advance, Works, Fails, dbVars, lockVars, memVars, provVars,
     TypeInv, FlagTypes
<1>3. PlaceTypes'
  BY TokenAssumption DEF PassOver, Advance, Works, Fails, dbVars, lockVars,
     memVars, provVars, TypeInv, PlaceTypes, Pcs, Results
<1>4. MemoryTypes'
  BY TokenAssumption DEF PassOver, Advance, Works, Fails, dbVars, lockVars,
     memVars, provVars, TypeInv, SharedTypes, MemoryTypes, PlaceTypes, Shape,
     Shaped, HasObj, HasFresh, Pcs, Gens, Accounts, Actors
<1>5. MemoryBounded'
  BY TokenAssumption DEF PassOver, Advance, Works, Fails, dbVars, lockVars,
     memVars, provVars, TypeInv, SharedTypes, MemoryTypes, MemoryBounded,
     PlaceTypes, Shape, Shaped, HasObj, HasFresh, Pcs, Refreshable, Accounts,
     Actors
<1>6. Shape'
  BY TokenAssumption DEF PassOver, Advance, Works, Fails, dbVars, lockVars,
     memVars, provVars, TypeInv, SharedTypes, MemoryTypes, MemoryBounded,
     PlaceTypes, Shape, Shaped, HasObj, HasFresh, Pcs, Refreshable, Gens,
     Accounts, Actors
<1> QED BY <1>1, <1>2, <1>3, <1>4, <1>5, <1>6 DEF TypeInv

LEMMA FallbackTypes ==
  ASSUME TypeInv, NEW s \in Syncers, Fallback(s)
  PROVE  TypeInv'
<1>1. SharedTypes'
  BY TokenAssumption DEF Fallback, dbVars, schedVars, lockVars, memVars,
     provVars, TypeInv, SharedTypes, MemoryTypes, MemoryBounded, PlaceTypes,
     Shape, Shaped, HasObj, HasFresh, Pcs, Refreshable, Gens, Accounts, Actors
<1>2. FlagTypes'
  BY DEF Fallback, dbVars, schedVars, lockVars, memVars, provVars, TypeInv,
     FlagTypes
<1>3. PlaceTypes'
  BY TokenAssumption DEF Fallback, dbVars, schedVars, lockVars, memVars,
     provVars, TypeInv, PlaceTypes, Pcs, Results
<1>4. MemoryTypes'
  BY TokenAssumption DEF Fallback, dbVars, schedVars, lockVars, memVars,
     provVars, TypeInv, SharedTypes, MemoryTypes, PlaceTypes, Shape, Shaped,
     HasObj, HasFresh, Pcs, Gens, Accounts, Actors
<1>5. MemoryBounded'
  BY TokenAssumption DEF Fallback, dbVars, schedVars, lockVars, memVars,
     provVars, TypeInv, SharedTypes, MemoryTypes, MemoryBounded, PlaceTypes,
     Shape, Shaped, HasObj, HasFresh, Pcs, Refreshable, Accounts, Actors
<1>6. Shape'
  BY TokenAssumption DEF Fallback, dbVars, schedVars, lockVars, memVars,
     provVars, TypeInv, SharedTypes, MemoryTypes, MemoryBounded, PlaceTypes,
     Shape, Shaped, HasObj, HasFresh, Pcs, Refreshable, Gens, Accounts, Actors
<1> QED BY <1>1, <1>2, <1>3, <1>4, <1>5, <1>6 DEF TypeInv

LEMMA SetSnapshotTypes ==
  ASSUME TypeInv, NEW s \in Syncers, SetSnapshot(s)
  PROVE  TypeInv'
<1>1. SharedTypes'
  BY TokenAssumption DEF SetSnapshot, Advance, Works, Fails, dbVars, lockVars,
     memVars, provVars, TypeInv, SharedTypes, MemoryTypes, MemoryBounded,
     PlaceTypes, Shape, Shaped, HasObj, HasFresh, Pcs, Refreshable, Gens,
     Accounts, Actors
<1>2. FlagTypes'
  BY DEF SetSnapshot, Advance, Works, Fails, dbVars, lockVars, memVars,
     provVars, TypeInv, FlagTypes
<1>3. PlaceTypes'
  BY TokenAssumption DEF SetSnapshot, Advance, Works, Fails, dbVars, lockVars,
     memVars, provVars, TypeInv, PlaceTypes, Pcs, Results
<1>4. MemoryTypes'
  BY TokenAssumption DEF SetSnapshot, Advance, Works, Fails, dbVars, lockVars,
     memVars, provVars, TypeInv, SharedTypes, MemoryTypes, PlaceTypes, Shape,
     Shaped, HasObj, HasFresh, Pcs, Gens, Accounts, Actors
<1>5. MemoryBounded'
  BY TokenAssumption DEF SetSnapshot, Advance, Works, Fails, dbVars, lockVars,
     memVars, provVars, TypeInv, SharedTypes, MemoryTypes, MemoryBounded,
     PlaceTypes, Shape, Shaped, HasObj, HasFresh, Pcs, Refreshable, Accounts,
     Actors
<1>6. Shape'
  BY TokenAssumption DEF SetSnapshot, Advance, Works, Fails, dbVars, lockVars,
     memVars, provVars, TypeInv, SharedTypes, MemoryTypes, MemoryBounded,
     PlaceTypes, Shape, Shaped, HasObj, HasFresh, Pcs, Refreshable, Gens,
     Accounts, Actors
<1> QED BY <1>1, <1>2, <1>3, <1>4, <1>5, <1>6 DEF TypeInv

LEMMA SnapshotFailsTypes ==
  ASSUME TypeInv, NEW s \in Syncers, SnapshotFails(s)
  PROVE  TypeInv'
<1>1. SharedTypes'
  BY TokenAssumption DEF SnapshotFails, Fails, dbVars, lockVars, memVars,
     provVars, TypeInv, SharedTypes, MemoryTypes, MemoryBounded, PlaceTypes,
     Shape, Shaped, HasObj, HasFresh, Pcs, Refreshable, Gens, Accounts, Actors
<1>2. FlagTypes'
  BY DEF SnapshotFails, Fails, dbVars, lockVars, memVars, provVars, TypeInv,
     FlagTypes
<1>3. PlaceTypes'
  BY TokenAssumption DEF SnapshotFails, Fails, dbVars, lockVars, memVars,
     provVars, TypeInv, PlaceTypes, Pcs, Results
<1>4. MemoryTypes'
  BY TokenAssumption DEF SnapshotFails, Fails, dbVars, lockVars, memVars,
     provVars, TypeInv, SharedTypes, MemoryTypes, PlaceTypes, Shape, Shaped,
     HasObj, HasFresh, Pcs, Gens, Accounts, Actors
<1>5. MemoryBounded'
  BY TokenAssumption DEF SnapshotFails, Fails, dbVars, lockVars, memVars,
     provVars, TypeInv, SharedTypes, MemoryTypes, MemoryBounded, PlaceTypes,
     Shape, Shaped, HasObj, HasFresh, Pcs, Refreshable, Accounts, Actors
<1>6. Shape'
  BY TokenAssumption DEF SnapshotFails, Fails, dbVars, lockVars, memVars,
     provVars, TypeInv, SharedTypes, MemoryTypes, MemoryBounded, PlaceTypes,
     Shape, Shaped, HasObj, HasFresh, Pcs, Refreshable, Gens, Accounts, Actors
<1> QED BY <1>1, <1>2, <1>3, <1>4, <1>5, <1>6 DEF TypeInv

LEMMA BucketLockExpiresTypes ==
  ASSUME TypeInv, BucketLockExpires
  PROVE  TypeInv'
<1>1. SharedTypes'
  BY TokenAssumption DEF BucketLockExpires, dbVars, jobVars, lockVars, memVars,
     provVars, TypeInv, SharedTypes, MemoryTypes, MemoryBounded, PlaceTypes,
     Shape, Shaped, HasObj, HasFresh, Pcs, Refreshable, Gens, Accounts, Actors
<1>2. FlagTypes'
  BY DEF BucketLockExpires, dbVars, jobVars, lockVars, memVars, provVars,
     TypeInv, FlagTypes
<1>3. PlaceTypes'
  BY TokenAssumption DEF BucketLockExpires, dbVars, jobVars, lockVars, memVars,
     provVars, TypeInv, PlaceTypes, Pcs, Results
<1>4. MemoryTypes'
  BY TokenAssumption DEF BucketLockExpires, dbVars, jobVars, lockVars, memVars,
     provVars, TypeInv, SharedTypes, MemoryTypes, PlaceTypes, Shape, Shaped,
     HasObj, HasFresh, Pcs, Gens, Accounts, Actors
<1>5. MemoryBounded'
  BY TokenAssumption DEF BucketLockExpires, dbVars, jobVars, lockVars, memVars,
     provVars, TypeInv, SharedTypes, MemoryTypes, MemoryBounded, PlaceTypes,
     Shape, Shaped, HasObj, HasFresh, Pcs, Refreshable, Accounts, Actors
<1>6. Shape'
  BY TokenAssumption DEF BucketLockExpires, dbVars, jobVars, lockVars, memVars,
     provVars, TypeInv, SharedTypes, MemoryTypes, MemoryBounded, PlaceTypes,
     Shape, Shaped, HasObj, HasFresh, Pcs, Refreshable, Gens, Accounts, Actors
<1> QED BY <1>1, <1>2, <1>3, <1>4, <1>5, <1>6 DEF TypeInv

LEMMA LockExpiresTypes ==
  ASSUME TypeInv, LockExpires
  PROVE  TypeInv'
<1>1. SharedTypes'
  BY TokenAssumption DEF LockExpires, dbVars, schedVars, jobVars, memVars,
     provVars, TypeInv, SharedTypes, MemoryTypes, MemoryBounded, PlaceTypes,
     Shape, Shaped, HasObj, HasFresh, Pcs, Refreshable, Gens, Accounts, Actors
<1>2. FlagTypes'
  BY DEF LockExpires, dbVars, schedVars, jobVars, memVars, provVars, TypeInv,
     FlagTypes
<1>3. PlaceTypes'
  BY TokenAssumption DEF LockExpires, dbVars, schedVars, jobVars, memVars,
     provVars, TypeInv, PlaceTypes, Pcs, Results
<1>4. MemoryTypes'
  BY TokenAssumption DEF LockExpires, dbVars, schedVars, jobVars, memVars,
     provVars, TypeInv, SharedTypes, MemoryTypes, PlaceTypes, Shape, Shaped,
     HasObj, HasFresh, Pcs, Gens, Accounts, Actors
<1>5. MemoryBounded'
  BY TokenAssumption DEF LockExpires, dbVars, schedVars, jobVars, memVars,
     provVars, TypeInv, SharedTypes, MemoryTypes, MemoryBounded, PlaceTypes,
     Shape, Shaped, HasObj, HasFresh, Pcs, Refreshable, Accounts, Actors
<1>6. Shape'
  BY TokenAssumption DEF LockExpires, dbVars, schedVars, jobVars, memVars,
     provVars, TypeInv, SharedTypes, MemoryTypes, MemoryBounded, PlaceTypes,
     Shape, Shaped, HasObj, HasFresh, Pcs, Refreshable, Gens, Accounts, Actors
<1> QED BY <1>1, <1>2, <1>3, <1>4, <1>5, <1>6 DEF TypeInv

LEMMA CacheExpiresTypes ==
  ASSUME TypeInv, CacheExpires
  PROVE  TypeInv'
<1>1. SharedTypes'
  BY TokenAssumption DEF CacheExpires, dbVars, schedVars, jobVars, lockVars,
     memVars, provVars, TypeInv, SharedTypes, MemoryTypes, MemoryBounded,
     PlaceTypes, Shape, Shaped, HasObj, HasFresh, Pcs, Refreshable, Gens,
     Accounts, Actors
<1>2. FlagTypes'
  BY DEF CacheExpires, dbVars, schedVars, jobVars, lockVars, memVars, provVars,
     TypeInv, FlagTypes
<1>3. PlaceTypes'
  BY TokenAssumption DEF CacheExpires, dbVars, schedVars, jobVars, lockVars,
     memVars, provVars, TypeInv, PlaceTypes, Pcs, Results
<1>4. MemoryTypes'
  BY TokenAssumption DEF CacheExpires, dbVars, schedVars, jobVars, lockVars,
     memVars, provVars, TypeInv, SharedTypes, MemoryTypes, PlaceTypes, Shape,
     Shaped, HasObj, HasFresh, Pcs, Gens, Accounts, Actors
<1>5. MemoryBounded'
  BY TokenAssumption DEF CacheExpires, dbVars, schedVars, jobVars, lockVars,
     memVars, provVars, TypeInv, SharedTypes, MemoryTypes, MemoryBounded,
     PlaceTypes, Shape, Shaped, HasObj, HasFresh, Pcs, Refreshable, Accounts,
     Actors
<1>6. Shape'
  BY TokenAssumption DEF CacheExpires, dbVars, schedVars, jobVars, lockVars,
     memVars, provVars, TypeInv, SharedTypes, MemoryTypes, MemoryBounded,
     PlaceTypes, Shape, Shaped, HasObj, HasFresh, Pcs, Refreshable, Gens,
     Accounts, Actors
<1> QED BY <1>1, <1>2, <1>3, <1>4, <1>5, <1>6 DEF TypeInv

LEMMA AgeTypes ==
  ASSUME TypeInv, Age
  PROVE  TypeInv'
<1>1. SharedTypes'
  BY TokenAssumption DEF Age, dbVars, schedVars, jobVars, lockVars, memVars,
     TypeInv, SharedTypes, MemoryTypes, MemoryBounded, PlaceTypes, Shape,
     Shaped, HasObj, HasFresh, Pcs, Refreshable, Gens, Accounts, Actors
<1>2. FlagTypes'
  BY DEF Age, dbVars, schedVars, jobVars, lockVars, memVars, TypeInv, FlagTypes
<1>3. PlaceTypes'
  BY TokenAssumption DEF Age, dbVars, schedVars, jobVars, lockVars, memVars,
     TypeInv, PlaceTypes, Pcs, Results
<1>4. MemoryTypes'
  BY TokenAssumption DEF Age, dbVars, schedVars, jobVars, lockVars, memVars,
     TypeInv, SharedTypes, MemoryTypes, PlaceTypes, Shape, Shaped, HasObj,
     HasFresh, Pcs, Gens, Accounts, Actors
<1>5. MemoryBounded'
  BY TokenAssumption DEF Age, dbVars, schedVars, jobVars, lockVars, memVars,
     TypeInv, SharedTypes, MemoryTypes, MemoryBounded, PlaceTypes, Shape,
     Shaped, HasObj, HasFresh, Pcs, Refreshable, Accounts, Actors
<1>6. Shape'
  BY TokenAssumption DEF Age, dbVars, schedVars, jobVars, lockVars, memVars,
     TypeInv, SharedTypes, MemoryTypes, MemoryBounded, PlaceTypes, Shape,
     Shaped, HasObj, HasFresh, Pcs, Refreshable, Gens, Accounts, Actors
<1> QED BY <1>1, <1>2, <1>3, <1>4, <1>5, <1>6 DEF TypeInv

LEMMA CrashTypes ==
  ASSUME TypeInv, NEW d \in Procs, Crash(d)
  PROVE  TypeInv'
<1>1. SharedTypes'
  BY TokenAssumption DEF Crash, Fails, schedVars, TypeInv, SharedTypes,
     MemoryTypes, MemoryBounded, PlaceTypes, Shape, Shaped, HasObj, HasFresh,
     Pcs, Refreshable, Gens, Accounts, Actors
<1>2. FlagTypes'
  BY DEF Crash, Fails, schedVars, TypeInv, FlagTypes
<1>3. PlaceTypes'
  BY TokenAssumption DEF Crash, Fails, schedVars, TypeInv, PlaceTypes, Pcs,
     Results
<1>4. MemoryTypes'
  BY TokenAssumption DEF Crash, Fails, schedVars, TypeInv, SharedTypes,
     MemoryTypes, PlaceTypes, Shape, Shaped, HasObj, HasFresh, Pcs, Gens,
     Accounts, Actors
<1>5. MemoryBounded'
  BY TokenAssumption DEF Crash, Fails, schedVars, TypeInv, SharedTypes,
     MemoryTypes, MemoryBounded, PlaceTypes, Shape, Shaped, HasObj, HasFresh,
     Pcs, Refreshable, Accounts, Actors
<1>6. Shape'
  <2>1. ASSUME NEW p \in Actors PROVE Shaped(p)'
    <3>1. Shaped(p) /\ pc[p] \in Pcs
      BY DEF TypeInv, Shape, PlaceTypes
    <3>2. CASE ProcOf[p] = d
      BY <3>1, <3>2 DEF Crash, Shaped, HasObj, HasFresh, Pcs
    <3>3. CASE ProcOf[p] # d
      BY <3>1, <3>3 DEF Crash, Shaped
    <3> QED BY <3>2, <3>3
  <2>2. ASSUME NEW s \in Syncers, job'[s] \in {"event", "bucket"}
        PROVE  buf'[s] \in Accounts
    BY <2>2, TokenAssumption DEF Crash, TypeInv, Shape
  <2> QED BY <2>1, <2>2 DEF Shape
<1> QED BY <1>1, <1>2, <1>3, <1>4, <1>5, <1>6 DEF TypeInv

LEMMA OpenTypes ==
  ASSUME TypeInv, NEW p \in Actors, Open(p)
  PROVE  TypeInv'
<1>1. SharedTypes'
  BY TokenAssumption DEF Open, Goto, dbVars, schedVars, jobVars, lockVars,
     provVars, TypeInv, SharedTypes, MemoryTypes, MemoryBounded, PlaceTypes,
     Shape, Shaped, HasObj, HasFresh, Pcs, Refreshable, Gens, Accounts, Actors
<1>2. FlagTypes'
  BY DEF Open, Goto, dbVars, schedVars, jobVars, lockVars, provVars, TypeInv,
     FlagTypes
<1>3. PlaceTypes'
  BY TokenAssumption DEF Open, Goto, dbVars, schedVars, jobVars, lockVars,
     provVars, TypeInv, PlaceTypes, Pcs, Results
<1>4. MemoryTypes'
  BY TokenAssumption DEF Open, Goto, dbVars, schedVars, jobVars, lockVars,
     provVars, TypeInv, SharedTypes, MemoryTypes, PlaceTypes, Shape, Shaped,
     HasObj, HasFresh, Pcs, Gens, Accounts, Actors
<1>5. MemoryBounded'
  BY TokenAssumption DEF Open, Goto, dbVars, schedVars, jobVars, lockVars,
     provVars, TypeInv, SharedTypes, MemoryTypes, MemoryBounded, PlaceTypes,
     Shape, Shaped, HasObj, HasFresh, Pcs, Refreshable, Accounts, Actors
<1>6. Shape'
  BY TokenAssumption DEF Open, Goto, dbVars, schedVars, jobVars, lockVars,
     provVars, TypeInv, SharedTypes, MemoryTypes, MemoryBounded, PlaceTypes,
     Shape, Shaped, HasObj, HasFresh, Pcs, Refreshable, Gens, Accounts, Actors
<1> QED BY <1>1, <1>2, <1>3, <1>4, <1>5, <1>6 DEF TypeInv

LEMMA ManualRotateTypes ==
  ASSUME TypeInv, NEW p \in Actors, ManualRotate(p)
  PROVE  TypeInv'
<1>1. SharedTypes'
  BY TokenAssumption DEF ManualRotate, Goto, dbVars, schedVars, jobVars,
     memVars, TypeInv, SharedTypes, MemoryTypes, MemoryBounded, PlaceTypes,
     Shape, Shaped, HasObj, HasFresh, Pcs, Refreshable, Gens, Accounts, Actors
<1>2. FlagTypes'
  BY DEF ManualRotate, Goto, dbVars, schedVars, jobVars, memVars, TypeInv,
     FlagTypes
<1>3. PlaceTypes'
  BY TokenAssumption DEF ManualRotate, Goto, dbVars, schedVars, jobVars,
     memVars, TypeInv, PlaceTypes, Pcs, Results
<1>4. MemoryTypes'
  BY TokenAssumption DEF ManualRotate, Goto, dbVars, schedVars, jobVars,
     memVars, TypeInv, SharedTypes, MemoryTypes, PlaceTypes, Shape, Shaped,
     HasObj, HasFresh, Pcs, Gens, Accounts, Actors
<1>5. MemoryBounded'
  BY TokenAssumption DEF ManualRotate, Goto, dbVars, schedVars, jobVars,
     memVars, TypeInv, SharedTypes, MemoryTypes, MemoryBounded, PlaceTypes,
     Shape, Shaped, HasObj, HasFresh, Pcs, Refreshable, Accounts, Actors
<1>6. Shape'
  BY TokenAssumption DEF ManualRotate, Goto, dbVars, schedVars, jobVars,
     memVars, TypeInv, SharedTypes, MemoryTypes, MemoryBounded, PlaceTypes,
     Shape, Shaped, HasObj, HasFresh, Pcs, Refreshable, Gens, Accounts, Actors
<1> QED BY <1>1, <1>2, <1>3, <1>4, <1>5, <1>6 DEF TypeInv

LEMMA ManualFailsTypes ==
  ASSUME TypeInv, NEW p \in Actors, ManualFails(p)
  PROVE  TypeInv'
<1>1. SharedTypes'
  BY TokenAssumption DEF ManualFails, Works, Fails, End, Goto, schedVars,
     lockVars, TypeInv, SharedTypes, PlaceTypes, MemoryTypes, Shape, Shaped,
     HasObj, Pcs, Refreshable, Gens, Accounts
<1>2. FlagTypes'
  BY DEF ManualFails, Works, Fails, End, Goto, schedVars, lockVars, TypeInv,
     FlagTypes
<1> QED BY <1>1, <1>2, EndTypes DEF ManualFails

LEMMA LoadTypes ==
  ASSUME TypeInv, NEW p \in Actors, Load(p)
  PROVE  TypeInv'
<1>1. SharedTypes'
  BY TokenAssumption DEF Load, Goto, dbVars, schedVars, jobVars, lockVars,
     provVars, TypeInv, SharedTypes, MemoryTypes, MemoryBounded, PlaceTypes,
     Shape, Shaped, HasObj, HasFresh, Pcs, Refreshable, Gens, Accounts, Actors
<1>2. FlagTypes'
  BY DEF Load, Goto, dbVars, schedVars, jobVars, lockVars, provVars, TypeInv,
     FlagTypes
<1>3. PlaceTypes'
  BY TokenAssumption DEF Load, Goto, dbVars, schedVars, jobVars, lockVars,
     provVars, TypeInv, PlaceTypes, Pcs, Results
<1>4. MemoryTypes'
  BY TokenAssumption DEF Load, Goto, dbVars, schedVars, jobVars, lockVars,
     provVars, TypeInv, SharedTypes, MemoryTypes, PlaceTypes, Shape, Shaped,
     HasObj, HasFresh, Pcs, Gens, Accounts, Actors
<1>5. MemoryBounded'
  BY TokenAssumption DEF Load, Goto, dbVars, schedVars, jobVars, lockVars,
     provVars, TypeInv, SharedTypes, MemoryTypes, MemoryBounded, PlaceTypes,
     Shape, Shaped, HasObj, HasFresh, Pcs, Refreshable, Accounts, Actors
<1>6. Shape'
  BY TokenAssumption DEF Load, Goto, dbVars, schedVars, jobVars, lockVars,
     provVars, TypeInv, SharedTypes, MemoryTypes, MemoryBounded, PlaceTypes,
     Shape, Shaped, HasObj, HasFresh, Pcs, Refreshable, Gens, Accounts, Actors
<1> QED BY <1>1, <1>2, <1>3, <1>4, <1>5, <1>6 DEF TypeInv

LEMMA InvalidateTypes ==
  ASSUME TypeInv, NEW p \in Actors, Invalidate(p)
  PROVE  TypeInv'
<1>1. SharedTypes'
  BY TokenAssumption DEF Invalidate, Works, Fails, End, Goto, dbVars,
     schedVars, lockVars, provVars, TypeInv, SharedTypes, PlaceTypes,
     MemoryTypes, Shape, Shaped, HasObj, Pcs, Refreshable, Gens, Accounts
<1>2. FlagTypes'
  BY DEF Invalidate, Works, Fails, End, Goto, dbVars, schedVars, lockVars,
     provVars, TypeInv, FlagTypes
<1> QED BY <1>1, <1>2, EndTypes DEF Invalidate

\* What UpdateAccount writes.
LEMMA EditedAccount ==
  ASSUME TypeInv, NEW p \in Actors, pc[p] = "save", NEW f
  PROVE  /\ obj[p] \in Accounts /\ tok[p] \in Gens \cup {None}
         /\ Edited(p, f) \in Accounts /\ Refreshable(Edited(p, f))
         /\ Edited(p, f).gen = IF tok[p] = None THEN obj[p].gen ELSE tok[p]
         /\ Edited(p, f).ver = obj[p].ver
         /\ "error" \in Edited(p, f).flags => "error" \in f
<1>1. /\ obj[p] \in Accounts /\ Refreshable(obj[p])
      /\ tok[p] \in Gens \cup {None}
      /\ tok[p] # None => obj[p].ver <= tok[p]
  BY DEF TypeInv, Shape, Shaped, HasObj, Pcs, MemoryTypes, MemoryBounded
<1>2. obj[p].gen \in Gens /\ obj[p].ver \in Gens /\ obj[p].forced \in BOOLEAN
  BY <1>1 DEF Accounts
<1>3. /\ Edited(p, f).gen = IF tok[p] = None THEN obj[p].gen ELSE tok[p]
      /\ Edited(p, f).ver = obj[p].ver
      /\ Edited(p, f).forced = (tok[p] = None /\ obj[p].forced)
      /\ Edited(p, f).flags
           = (f \cap {"error"}) \cup (row.flags \cap {"parked"})
  BY DEF Edited
<1>4. Edited(p, f) \in Accounts
  BY <1>1, <1>2 DEF Edited, Accounts
<1>5. Refreshable(Edited(p, f))
  BY <1>1, <1>2, <1>3, TokenAssumption DEF Refreshable
<1> QED BY <1>1, <1>3, <1>4, <1>5

LEMMA SaveTypes ==
  ASSUME TypeInv, NEW p \in Actors, Save(p)
  PROVE  TypeInv'
<1>1. row' \in Accounts /\ Refreshable(row')
  BY EditedAccount DEF Save
<1>2. /\ pc[p] = "save" /\ pc' = [pc EXCEPT ![p] = "sync"]
      /\ res' \in {[res EXCEPT ![p] = "edited"], [res EXCEPT ![p] = "renewed"]}
      /\ faults' \in {faults, faults - 1} /\ (faults' # faults => faults > 0)
      /\ UNCHANGED <<copy, listed, bucket, jobVars, lockVars, memVars, provVars,
                     cache, tok, tries>>
  BY DEF Save, Goto, Return, Enqueue, Works, Fails
<1>3. SharedTypes'
  BY <1>1, <1>2 DEF TypeInv, SharedTypes, lockVars, provVars, Refreshable
<1>4. FlagTypes'
  BY DEF Save, Enqueue, lockVars, provVars, TypeInv, FlagTypes
<1>5. PlaceTypes'
  BY <1>2 DEF TypeInv, PlaceTypes, Pcs, Results, jobVars
<1>6. MemoryTypes' /\ MemoryBounded'
  BY <1>2 DEF TypeInv, MemoryTypes, MemoryBounded, memVars, jobVars,
     Refreshable
<1>7. Shape'
  BY <1>2 DEF TypeInv, PlaceTypes, Shape, Shaped, HasObj, HasFresh, Pcs,
     memVars, jobVars
<1> QED BY <1>3, <1>4, <1>5, <1>6, <1>7 DEF TypeInv

LEMMA UpdateFailsTypes ==
  ASSUME TypeInv, NEW p \in Actors, UpdateFails(p)
  PROVE  TypeInv'
<1>1. row' \in Accounts /\ Refreshable(row')
  BY EditedAccount DEF UpdateFails, TypeInv, SharedTypes
<1>2. SharedTypes'
  BY <1>1 DEF UpdateFails, Fails, schedVars, lockVars, provVars, TypeInv,
     SharedTypes, Refreshable
<1>3. FlagTypes'
  BY DEF UpdateFails, schedVars, lockVars, provVars, TypeInv, FlagTypes
<1> QED BY <1>2, <1>3, EndTypes DEF UpdateFails

LEMMA StepTypes ==
  ASSUME TypeInv, NEW p \in Actors, Step(p)
  PROVE  TypeInv'
<1>1. CASE Lookup(p)
  BY <1>1, LookupTypes
<1>2. CASE GiveUp(p)
  BY <1>2, GiveUpTypes
<1>3. CASE Check(p)
  BY <1>3, CheckTypes
<1>4. CASE Store(p)
  BY <1>4, StoreTypes
<1>5. CASE Accepted(p)
  BY <1>5, AcceptedTypes
<1>6. CASE Unauthorized(p)
  BY <1>6, UnauthorizedTypes
<1>7. CASE ForceRefresh(p)
  BY <1>7, ForceRefreshTypes
<1>8. CASE Lock(p)
  BY <1>8, LockTypes
<1>9. CASE TakeLock(p)
  BY <1>9, TakeLockTypes
<1>10. CASE LockHeld(p)
  BY <1>10, LockHeldTypes
<1>11. CASE Degrade(p)
  BY <1>11, DegradeTypes
<1>12. CASE Reread(p)
  BY <1>12, RereadTypes
<1>13. CASE RereadFails(p)
  BY <1>13, RereadFailsTypes
<1>14. CASE Rotate(p)
  BY <1>14, RotateTypes
<1>15. CASE CallFails(p)
  BY <1>15, CallFailsTypes
<1>16. CASE InvalidGrant(p)
  BY <1>16, InvalidGrantTypes
<1>17. CASE Recover(p)
  BY <1>17, RecoverTypes
<1>18. CASE Persist(p)
  BY <1>18, PersistingTypes
<1>19. CASE PersistFails(p)
  BY <1>19, PersistingTypes
<1>20. CASE Release(p)
  BY <1>20, ReleaseTypes
<1>21. CASE Park(p)
  BY <1>21, ParkTypes
<1>22. CASE Condemn(p)
  BY <1>22, CondemnTypes
<1>23. CASE Sync(p)
  BY <1>23, SyncTypes
<1>24. CASE Write(p)
  BY <1>24, WriteTypes
<1>25. CASE Cycle(p)
  BY <1>25, CycleTypes
<1>26. CASE Post(p)
  BY <1>26, PostTypes
<1>27. CASE Drop(p)
  BY <1>27, DropTypes
<1>28. CASE Publish(p)
  BY <1>28, PublishTypes
<1>29. CASE ManualRotate(p)
  BY <1>29, ManualRotateTypes
<1>30. CASE ManualFails(p)
  BY <1>30, ManualFailsTypes
<1>31. CASE Load(p)
  BY <1>31, LoadTypes
<1>32. CASE Save(p)
  BY <1>32, SaveTypes
<1>33. CASE UpdateFails(p)
  BY <1>33, UpdateFailsTypes
<1>34. CASE Invalidate(p)
  BY <1>34, InvalidateTypes
<1> QED BY <1>1, <1>2, <1>3, <1>4, <1>5, <1>6, <1>7, <1>8, <1>9, <1>10, <1>11,
        <1>12, <1>13, <1>14, <1>15, <1>16, <1>17, <1>18, <1>19, <1>20, <1>21,
        <1>22, <1>23, <1>24, <1>25, <1>26, <1>27, <1>28, <1>29, <1>30, <1>31,
        <1>32, <1>33, <1>34 DEF Step

LEMMA NextTypes ==
  ASSUME TypeInv, [Next]_vars
  PROVE  TypeInv'
<1>1. ASSUME NEW p \in Actors, Pick(p) \/ Open(p) PROVE TypeInv'
  BY <1>1, PickTypes, OpenTypes
<1>2. ASSUME NEW p \in Actors, Step(p) PROVE TypeInv'
  BY <1>2, StepTypes
<1>3. ASSUME NEW s \in Syncers, SyncStep(s) PROVE TypeInv'
  BY <1>3, PollTypes, ApplyEventTypes, StartRebuildTypes, PassOverTypes,
     FallbackTypes, SetSnapshotTypes, SnapshotFailsTypes DEF SyncStep
<1>4. ASSUME NEW d \in Procs, Crash(d) PROVE TypeInv'
  BY <1>4, CrashTypes
<1>5. CASE BucketLockExpires
  BY <1>5, BucketLockExpiresTypes
<1>6. CASE LockExpires
  BY <1>6, LockExpiresTypes
<1>7. CASE CacheExpires
  BY <1>7, CacheExpiresTypes
<1>8. CASE Age
  BY <1>8, AgeTypes
<1>9. CASE Unpark
  BY <1>9, UnparkTypes
<1>10. CASE UNCHANGED vars
  BY <1>10 DEF vars, dbVars, schedVars, jobVars, lockVars, memVars, provVars,
     TypeInv, SharedTypes, FlagTypes, PlaceTypes, MemoryTypes, MemoryBounded,
     Shape, Shaped, Refreshable
<1> QED BY <1>1, <1>2, <1>3, <1>4, <1>5, <1>6, <1>7, <1>8, <1>9, <1>10 DEF Next

LEMMA InitTypes == Init => TypeInv
<1> SUFFICES ASSUME Init PROVE TypeInv
  OBVIOUS
<1>1. 0 \in Gens /\ NewAccount \in Accounts
  BY TokenAssumption DEF Gens, NewAccount, Accounts
<1>2. PICK cast \in Casts :
        /\ pc = [p \in Actors |-> IF p \in cast THEN "idle" ELSE "done"]
        /\ job = [s \in Syncers |-> IF s \in cast THEN "none" ELSE "absent"]
        /\ faults = MaxFaults[cast]
  BY DEF Init
<1>3. SharedTypes
  BY <1>1, <1>2, TokenAssumption DEF Init, SharedTypes, Refreshable, NewAccount
<1>4. FlagTypes
  BY DEF Init, FlagTypes
<1>5. PlaceTypes
  BY <1>2, TokenAssumption DEF Init, PlaceTypes, Pcs, Results
<1>6. MemoryTypes /\ MemoryBounded
  BY <1>1 DEF Init, MemoryTypes, MemoryBounded, Refreshable
<1>7. Shape
  BY <1>2 DEF Init, Shape, Shaped, HasObj, HasFresh, Pcs
<1> QED BY <1>3, <1>4, <1>5, <1>6, <1>7 DEF TypeInv

\* What inductive arguments rest on, in every reachable state.
THEOREM TypesInvariant == Spec => []TypeInv
<1>1. Init => TypeInv
  BY InitTypes
<1>2. TypeInv /\ [Next]_vars => TypeInv'
  BY NextTypes
<1> QED BY <1>1, <1>2, PTL DEF Spec

\* Every variable keeps its type, whatever the requests, jobs and syncers do.
THEOREM TokenTypes == Spec => []TypeOK
BY TypesInvariant, TypeInvImpliesTypeOK, PTL

-----------------------------------------------------------------------------
(* The rotated token *)

\* The account has an older token than the row, or the token and the version of
\* the row.
Older(a) == a.gen < row.gen \/ (a.gen = row.gen /\ a.ver = row.ver)

\* No copy of the account is newer than the row, the row not newer than the
\* provider.
Bounded ==
  /\ row.gen <= valid /\ Older(copy)
  /\ \A p \in Actors :
       /\ obj[p] \in Accounts => Older(obj[p])
       /\ fresh[p] \in Accounts => Older(fresh[p])
       /\ begin[p] <= row.ver
  /\ \A x \in Actors \cup Syncers : buf[x] \in Accounts => Older(buf[x])

\* A token the row does not have yet is with the only refresh about to store it;
\* an administrator who has it began with the token of the row.
Rotating ==
  /\ \A p \in Actors : Carries(p) => tok[p] = valid /\ row.gen < valid
  /\ \A p \in Actors :
       Carries(p) /\ pc[p] # "persist" => obj[p].gen = row.gen
  /\ \A p, q \in Actors : Carries(p) /\ Carries(q) => p = q
  /\ row.gen # valid => \E p \in Actors : Carries(p)

\* A token looked at with CheckTokenVersion is not older than the version was; one
\* the provider refused is not its token.
Looked ==
  \A p \in Actors :
    /\ pc[p] \in {"store", "send"} /\ res[p] = "checked" => tok[p] >= begin[p]
    /\ pc[p] = "recover" => fresh[p].gen < valid

KeptInv == ~lost => Bounded /\ Rotating /\ Looked

\* What an actor keeps or gives up.
Fewer ==
  /\ \A q \in Actors : /\ obj'[q] \in {obj[q], None}
                       /\ fresh'[q] \in {fresh[q], None}
                       /\ begin'[q] \in {begin[q], 0}
  /\ \A x \in Actors \cup Syncers : buf'[x] \in {buf[x], None}

LEMMA EndFewer ==
  ASSUME TypeInv, NEW p \in Actors, End(p)
  PROVE  Fewer
BY DEF End, Fewer, TypeInv, MemoryTypes

LEMMA SameFewer ==
  ASSUME UNCHANGED memVars,
         UNCHANGED buf \/ \E x : buf' = [buf EXCEPT ![x] = None], TypeInv
  PROVE  Fewer
BY DEF memVars, Fewer, TypeInv, MemoryTypes

LEMMA FewerBounded ==
  ASSUME TypeInv, Bounded, Fewer, row'.gen = row.gen, row'.ver = row.ver,
         valid' = valid, Older(copy')
  PROVE  Bounded'
<1>1. row.ver \in Nat
  BY TokenAssumption DEF TypeInv, SharedTypes, Accounts, Gens
<1>2. ASSUME NEW p \in Actors
      PROVE  /\ obj'[p] \in Accounts => Older(obj'[p])
             /\ fresh'[p] \in Accounts => Older(fresh'[p])
             /\ begin'[p] <= row.ver
  BY <1>1, TokenAssumption DEF Fewer, Bounded
<1>3. ASSUME NEW x \in Actors \cup Syncers, buf'[x] \in Accounts
      PROVE  Older(buf'[x])
  BY <1>3, TokenAssumption DEF Fewer, Bounded
<1> QED BY <1>2, <1>3 DEF Bounded, Older

\* The account in memory gets the new generation.
LEMMA Adopted ==
  ASSUME TypeInv, NEW p \in Actors, pc[p] = "persist", Adopt(p)
  PROVE  /\ tok[p] \in Gens
         /\ \A q \in Actors :
              /\ \/ fresh'[q] = fresh[q]
                 \/ fresh'[q].gen = tok[p] /\ fresh'[q].ver = tok[p]
              /\ \/ obj'[q] = obj[q]
                 \/ obj'[q].gen = tok[p] /\ obj'[q].ver = tok[p]
              /\ begin'[q] = begin[q]
BY AdoptTypes DEF TypeInv, MemoryTypes

\* Credentials that reach the row are those of the last rotation.
LEMMA Stores ==
  ASSUME TypeInv, TypeInv', Bounded, Rotating, NEW p \in Actors,
         pc[p] = "persist", Adopt(p), row' = Stored(p),
         UNCHANGED <<schedVars, jobVars, provVars, tok>>, Goto(p, pc'[p]),
         pc'[p] \notin {"persist", "load", "save"}
  PROVE  (Bounded /\ Rotating)'
<1>1. tok[p] = valid /\ row.gen < valid /\ tok[p] \in Gens
  BY Adopted DEF Rotating, Carries
<1>2. row'.gen = valid /\ row'.ver = valid
  BY <1>1 DEF Stored, TypeInv, SharedTypes, Accounts
<1>3. /\ row.gen \in Int /\ valid \in Int /\ row.ver \in Int
      /\ row.ver <= row.gen
  BY <1>1, TokenAssumption DEF TypeInv, SharedTypes, Accounts, Gens,
     Refreshable
<1>4. \A q \in Actors : ~Carries(q)'
  BY DEF Rotating, Carries, Goto, TypeInv, PlaceTypes
<1>5. Rotating'
  BY <1>2, <1>4 DEF Rotating, provVars
<1>6. ASSUME NEW a \in Accounts, Older(a)
      PROVE  a.gen < row'.gen
  <2>1. a.gen \in Int
    BY TokenAssumption DEF Accounts, Gens
  <2> QED BY <1>1, <1>2, <1>3, <1>6, <2>1 DEF Older
<1>7. row'.gen <= valid' /\ Older(copy)'
  BY <1>2, <1>3, <1>6 DEF Bounded, Older, provVars, schedVars, TypeInv,
     SharedTypes
<1>8. ASSUME NEW q \in Actors
      PROVE  /\ obj'[q] \in Accounts => Older(obj[q])'
             /\ fresh'[q] \in Accounts => Older(fresh[q])'
             /\ begin'[q] <= row'.ver
  <2>1. obj'[q] = obj[q] \/ (obj'[q].gen = valid /\ obj'[q].ver = valid)
    BY <1>1, Adopted
  <2>2. fresh'[q] = fresh[q] \/ (fresh'[q].gen = valid /\ fresh'[q].ver = valid)
    BY <1>1, Adopted
  <2>3. begin'[q] = begin[q] /\ begin[q] \in Int /\ begin[q] <= row.ver
    BY Adopted, TokenAssumption DEF TypeInv, MemoryTypes, Gens, Bounded
  <2>4. obj'[q] \in Accounts => Older(obj[q])'
    BY <1>2, <1>6, <2>1 DEF Bounded, Older
  <2>5. fresh'[q] \in Accounts => Older(fresh[q])'
    BY <1>2, <1>6, <2>2 DEF Bounded, Older
  <2>6. begin'[q] <= row'.ver
    BY <1>1, <1>2, <1>3, <2>3
  <2> QED BY <2>4, <2>5, <2>6
<1>9. ASSUME NEW x \in Actors \cup Syncers, buf'[x] \in Accounts
      PROVE  Older(buf[x])'
  BY <1>6, <1>9 DEF jobVars, Bounded, Older
<1> QED BY <1>5, <1>7, <1>8, <1>9 DEF Bounded

LEMMA PersistingKept ==
  ASSUME TypeInv, TypeInv', KeptInv, NEW p \in Actors,
         Persist(p) \/ PersistFails(p)
  PROVE  KeptInv'
<1> SUFFICES ASSUME ~lost' PROVE (Bounded /\ Rotating /\ Looked)'
  BY DEF KeptInv
<1>1. ~lost /\ Bounded /\ Rotating /\ Looked
  BY DEF Persist, PersistFails, KeptInv, TypeInv, FlagTypes
<1>2. /\ pc[p] = "persist" /\ Adopt(p) /\ row' = Stored(p)
      /\ UNCHANGED <<schedVars, jobVars, provVars>> /\ UNCHANGED tok
      /\ pc' \in {[pc EXCEPT ![p] = "sync"], [pc EXCEPT ![p] = "release"]}
      /\ res' \in {[res EXCEPT ![p] = "refreshed"], [res EXCEPT ![p] = "error"]}
  BY DEF Persist, PersistFails, Goto, Return
<1>3. Goto(p, pc'[p]) /\ pc'[p] \notin {"persist", "load", "save"}
  BY <1>2 DEF Goto, TypeInv, PlaceTypes
<1>4. (Bounded /\ Rotating)'
  BY <1>1, <1>2, <1>3, Stores
<1>5. Looked'
  <2>1. PICK a : fresh' = [fresh EXCEPT ![p] = a] /\ UNCHANGED begin
    BY <1>2 DEF Adopt
  <2> QED BY <1>1, <1>2, <2>1 DEF Looked, TypeInv, PlaceTypes, MemoryTypes,
          provVars
<1> QED BY <1>4, <1>5

LEMMA ForceRefreshKept ==
  ASSUME TypeInv, TypeInv', KeptInv, NEW p \in Actors, ForceRefresh(p)
  PROVE  KeptInv'
<1> SUFFICES ASSUME ~lost' PROVE (Bounded /\ Rotating /\ Looked)'
  BY DEF KeptInv
<1> DEFINE a == [obj[p] EXCEPT !.forced = TRUE]
<1>1. ~lost /\ Bounded /\ Rotating /\ Looked
  BY DEF ForceRefresh, dbVars, KeptInv, TypeInv, FlagTypes
<1>2. obj[p] \in Accounts /\ a.gen = obj[p].gen /\ a.ver = obj[p].ver
  BY Forced DEF ForceRefresh, TypeInv, Shape, Shaped, HasObj, Pcs
<1>3. Older(a) /\ a.gen \in Gens /\ a.ver \in Gens /\ row.gen \in Gens
  BY <1>1, <1>2 DEF Bounded, Older, TypeInv, SharedTypes, Accounts
<1>4. /\ pc[p] = "force"
      /\ obj' = [obj EXCEPT ![p] = a]
      /\ \/ row' = row
         \/ /\ row' = [row EXCEPT !.gen = a.gen, !.ver = a.ver,
                                  !.forced = TRUE]
            /\ ~(a.gen < row.gen)
      /\ pc' \in {[pc EXCEPT ![p] = "sync"], [pc EXCEPT ![p] = "park"]}
      /\ res' \in {[res EXCEPT ![p] = "forced"], res}
      /\ UNCHANGED <<schedVars, jobVars, provVars, fresh, begin, tok>>
  BY DEF ForceRefresh, Goto, Return, dbVars
<1>5. row'.gen = row.gen /\ row'.ver = row.ver
  <2>1. row \in Accounts
    BY DEF TypeInv, SharedTypes
  <2> DEFINE b == [row EXCEPT !.gen = a.gen, !.ver = a.ver, !.forced = TRUE]
  <2>2. b.gen = a.gen /\ b.ver = a.ver
    BY <1>3, <2>1 DEF Accounts
  <2>3. row' = row \/ (row' = b /\ ~(a.gen < row.gen))
    BY <1>4
  <2> HIDE DEF a, b
  <2> QED BY <1>3, <2>2, <2>3, TokenAssumption DEF Gens, Older
<1> HIDE DEF a
<1>6. Bounded'
  BY <1>1, <1>3, <1>4, <1>5 DEF Bounded, Older, schedVars, jobVars, provVars,
     TypeInv, MemoryTypes
<1>7. Rotating'
  BY <1>1, <1>4, <1>5 DEF Rotating, Carries, provVars, TypeInv, PlaceTypes
<1>8. Looked'
  BY <1>1, <1>4 DEF Looked, provVars, TypeInv, PlaceTypes
<1> QED BY <1>6, <1>7, <1>8

LEMMA LockHeldKept ==
  ASSUME TypeInv, TypeInv', KeptInv, NEW p \in Actors, LockHeld(p)
  PROVE  KeptInv'
<1> SUFFICES ASSUME ~lost' PROVE (Bounded /\ Rotating /\ Looked)'
  BY DEF KeptInv
<1>1. ~lost /\ Bounded /\ Rotating /\ Looked
  BY DEF LockHeld, dbVars, KeptInv
<1>2. Bounded'
  <2>1. Fewer
    BY EndFewer, SameFewer DEF LockHeld, jobVars
  <2>2. row' = row /\ valid' = valid /\ copy' = copy
    BY DEF LockHeld, dbVars, provVars, schedVars
  <2> QED BY <1>1, <2>1, <2>2, FewerBounded DEF Bounded, Older
<1>3. pc[p] = "lock" /\ pc'[p] \in {"wait", "done", "idle"}
  BY DEF LockHeld, End, Goto, TypeInv, PlaceTypes
<1>4. \A q \in Actors :
        q # p => /\ pc'[q] = pc[q] /\ res'[q] = res[q] /\ tok'[q] = tok[q]
                 /\ fresh'[q] = fresh[q] /\ begin'[q] = begin[q]
                 /\ obj'[q] = obj[q]
  BY DEF LockHeld, End, Goto, memVars, TypeInv, PlaceTypes, MemoryTypes
<1>5. row' = row /\ valid' = valid
  BY DEF LockHeld, dbVars, provVars
<1>6. Rotating'
  BY <1>1, <1>3, <1>4, <1>5 DEF Rotating, Carries
<1>7. Looked'
  BY <1>1, <1>3, <1>4, <1>5 DEF Looked
<1> QED BY <1>2, <1>6, <1>7

LEMMA PickKept ==
  ASSUME TypeInv, TypeInv', KeptInv, NEW p \in Actors, Pick(p)
  PROVE  KeptInv'
<1> SUFFICES ASSUME ~lost' PROVE (Bounded /\ Rotating /\ Looked)'
  BY DEF KeptInv
<1>1. ~lost /\ Bounded /\ Rotating /\ Looked
  BY DEF Pick, Goto, dbVars, schedVars, jobVars, lockVars, provVars, KeptInv,
     TypeInv, FlagTypes
<1>2. Bounded'
  BY <1>1, TokenAssumption DEF Pick, Goto, dbVars, schedVars, jobVars,
     lockVars, provVars, Bounded, Older, Rotating, Carries, TypeInv,
     SharedTypes, FlagTypes, PlaceTypes, MemoryTypes, Shape, Shaped, HasObj,
     HasFresh, Pcs, Gens, Accounts, Actors
<1>3. Rotating'
  BY <1>1 DEF Pick, Goto, dbVars, schedVars, jobVars, lockVars, provVars,
     Rotating, Carries, TypeInv, PlaceTypes, MemoryTypes
<1>4. Looked'
  BY <1>1 DEF Pick, Goto, dbVars, schedVars, jobVars, lockVars, provVars,
     Looked, TypeInv, PlaceTypes, MemoryTypes, Actors
<1> QED BY <1>2, <1>3, <1>4

LEMMA LookupKept ==
  ASSUME TypeInv, TypeInv', KeptInv, NEW p \in Actors, Lookup(p)
  PROVE  KeptInv'
<1> SUFFICES ASSUME ~lost' PROVE (Bounded /\ Rotating /\ Looked)'
  BY DEF KeptInv
<1>1. ~lost /\ Bounded /\ Rotating /\ Looked
  BY DEF Lookup, Works, Return, Goto, Fails, Needs, dbVars, schedVars, jobVars,
     lockVars, memVars, provVars, KeptInv, TypeInv, FlagTypes
<1>2. Bounded'
  BY <1>1, TokenAssumption DEF Lookup, Works, Return, Goto, Fails, Needs,
     dbVars, schedVars, jobVars, lockVars, memVars, provVars, Bounded, Older,
     Rotating, Carries, TypeInv, SharedTypes, FlagTypes, PlaceTypes,
     MemoryTypes, Shape, Shaped, HasObj, HasFresh, Pcs, Gens, Accounts, Actors
<1>3. Rotating'
  BY <1>1 DEF Lookup, Works, Return, Goto, Fails, Needs, dbVars, schedVars,
     jobVars, lockVars, memVars, provVars, Rotating, Carries, TypeInv,
     PlaceTypes, MemoryTypes
<1>4. Looked'
  BY <1>1 DEF Lookup, Works, Return, Goto, Fails, Needs, dbVars, schedVars,
     jobVars, lockVars, memVars, provVars, Looked, TypeInv, PlaceTypes,
     MemoryTypes
<1> QED BY <1>2, <1>3, <1>4

LEMMA GiveUpKept ==
  ASSUME TypeInv, TypeInv', KeptInv, NEW p \in Actors, GiveUp(p)
  PROVE  KeptInv'
<1> SUFFICES ASSUME ~lost' PROVE (Bounded /\ Rotating /\ Looked)'
  BY DEF KeptInv
<1>1. ~lost /\ Bounded /\ Rotating /\ Looked
  BY SMTT(20) DEF GiveUp, End, Goto, dbVars, schedVars, lockVars, provVars, KeptInv,
     TypeInv, FlagTypes
<1>2. Bounded'
  BY <1>1, TokenAssumption DEF GiveUp, End, Goto, dbVars, schedVars, lockVars,
     provVars, Bounded, Older, Rotating, Carries, TypeInv, SharedTypes,
     FlagTypes, PlaceTypes, MemoryTypes, Shape, Shaped, HasObj, HasFresh, Pcs,
     Gens, Accounts, Actors
<1>3. Rotating'
  BY <1>1 DEF GiveUp, End, Goto, dbVars, schedVars, lockVars, provVars,
     Rotating, Carries, TypeInv, PlaceTypes, MemoryTypes
<1>4. Looked'
  BY <1>1 DEF GiveUp, End, Goto, dbVars, schedVars, lockVars, provVars, Looked,
     TypeInv, PlaceTypes, MemoryTypes
<1> QED BY <1>2, <1>3, <1>4

LEMMA CheckKept ==
  ASSUME TypeInv, TypeInv', KeptInv, NEW p \in Actors, Check(p)
  PROVE  KeptInv'
<1> SUFFICES ASSUME ~lost' PROVE (Bounded /\ Rotating /\ Looked)'
  BY DEF KeptInv
<1>1. ~lost /\ Bounded /\ Rotating /\ Looked
  BY DEF Check, Stale, Current, Works, Return, Goto, Fails, dbVars, schedVars,
     jobVars, lockVars, memVars, provVars, KeptInv, TypeInv, FlagTypes
<1>2. Bounded'
  BY <1>1, TokenAssumption DEF Check, Stale, Current, Works, Return, Goto,
     Fails, dbVars, schedVars, jobVars, lockVars, memVars, provVars, Bounded,
     Older, Rotating, Carries, TypeInv, SharedTypes, FlagTypes, PlaceTypes,
     MemoryTypes, Shape, Shaped, HasObj, HasFresh, Pcs, Gens, Accounts, Actors
<1>3. Rotating'
  BY <1>1 DEF Check, Stale, Current, Works, Return, Goto, Fails, dbVars,
     schedVars, jobVars, lockVars, memVars, provVars, Rotating, Carries,
     TypeInv, PlaceTypes, MemoryTypes
<1>4. Looked'
  <2>1. \A q \in Actors : q # p =>
          /\ pc'[q] = pc[q] /\ res'[q] = res[q] /\ tok'[q] = tok[q]
          /\ fresh'[q] = fresh[q] /\ begin'[q] = begin[q]
    BY DEF Check, Goto, Return, memVars, TypeInv, PlaceTypes, MemoryTypes
  <2>2. Current(p) \in Accounts
    BY DEF Check, Current, TypeInv, Shape, Shaped, HasObj, Pcs
  <2>3. /\ Current(p).gen \in Int /\ row.gen \in Int /\ begin[p] \in Int
        /\ Current(p).ver \in Int /\ row.ver \in Int
        /\ Current(p).ver <= Current(p).gen /\ row.ver <= row.gen
    BY <2>2, TokenAssumption DEF TypeInv, SharedTypes, MemoryTypes,
       MemoryBounded, Refreshable, Current, Accounts, Gens
  <2>4. begin'[p] = begin[p] /\ begin[p] <= row.ver
    BY <1>1 DEF Check, memVars, Bounded, Older
  <2>5. pc'[p] # "recover" /\ (res'[p] = "checked" => tok'[p] >= row.ver)
    BY <2>3 DEF Check, Stale, Goto, Return, TypeInv, PlaceTypes, MemoryTypes
  <2>6. tok'[p] \in Int
    BY <2>3 DEF Check, TypeInv, MemoryTypes
  <2>7. valid' = valid
    BY DEF Check, provVars
  <2> QED BY <1>1, <2>1, <2>3, <2>4, <2>5, <2>6, <2>7 DEF Looked
<1> QED BY <1>2, <1>3, <1>4

LEMMA StoreKept ==
  ASSUME TypeInv, TypeInv', KeptInv, NEW p \in Actors, Store(p)
  PROVE  KeptInv'
<1> SUFFICES ASSUME ~lost' PROVE (Bounded /\ Rotating /\ Looked)'
  BY DEF KeptInv
<1>1. ~lost /\ Bounded /\ Rotating /\ Looked
  BY DEF Store, Works, Fails, Goto, dbVars, schedVars, jobVars, lockVars,
     memVars, provVars, KeptInv, TypeInv, FlagTypes
<1>2. Bounded'
  BY <1>1, TokenAssumption DEF Store, Works, Fails, Goto, dbVars, schedVars,
     jobVars, lockVars, memVars, provVars, Bounded, Older, Rotating, Carries,
     TypeInv, SharedTypes, FlagTypes, PlaceTypes, MemoryTypes, Shape, Shaped,
     HasObj, HasFresh, Pcs, Gens, Accounts, Actors
<1>3. Rotating'
  BY <1>1 DEF Store, Works, Fails, Goto, dbVars, schedVars, jobVars, lockVars,
     memVars, provVars, Rotating, Carries, TypeInv, PlaceTypes, MemoryTypes
<1>4. Looked'
  BY <1>1 DEF Store, Works, Fails, Goto, dbVars, schedVars, jobVars, lockVars,
     memVars, provVars, Looked, TypeInv, PlaceTypes, MemoryTypes
<1> QED BY <1>2, <1>3, <1>4

LEMMA AcceptedKept ==
  ASSUME TypeInv, TypeInv', KeptInv, NEW p \in Actors, Accepted(p)
  PROVE  KeptInv'
<1> SUFFICES ASSUME ~lost' PROVE (Bounded /\ Rotating /\ Looked)'
  BY DEF KeptInv
<1>1. ~lost /\ Bounded /\ Rotating /\ Looked
  BY SMTT(20) DEF Accepted, End, Goto, dbVars, schedVars, lockVars, provVars, KeptInv,
     TypeInv, FlagTypes
<1>2. Bounded'
  BY <1>1, TokenAssumption DEF Accepted, End, Goto, dbVars, schedVars,
     lockVars, provVars, Bounded, Older, Rotating, Carries, TypeInv,
     SharedTypes, FlagTypes, PlaceTypes, MemoryTypes, Shape, Shaped, HasObj,
     HasFresh, Pcs, Gens, Accounts, Actors
<1>3. Rotating'
  BY <1>1 DEF Accepted, End, Goto, dbVars, schedVars, lockVars, provVars,
     Rotating, Carries, TypeInv, PlaceTypes, MemoryTypes
<1>4. Looked'
  BY <1>1 DEF Accepted, End, Goto, dbVars, schedVars, lockVars, provVars,
     Looked, TypeInv, PlaceTypes, MemoryTypes
<1> QED BY <1>2, <1>3, <1>4

LEMMA UnauthorizedKept ==
  ASSUME TypeInv, TypeInv', KeptInv, NEW p \in Actors, Unauthorized(p)
  PROVE  KeptInv'
<1> SUFFICES ASSUME ~lost' PROVE (Bounded /\ Rotating /\ Looked)'
  BY DEF KeptInv
<1>1. ~lost /\ Bounded /\ Rotating /\ Looked
  BY DEF Unauthorized, Works, Fails, Goto, dbVars, schedVars, jobVars,
     lockVars, memVars, provVars, KeptInv, TypeInv, FlagTypes
<1>2. Bounded'
  BY <1>1, TokenAssumption DEF Unauthorized, Works, Fails, Goto, dbVars,
     schedVars, jobVars, lockVars, memVars, provVars, Bounded, Older, Rotating,
     Carries, TypeInv, SharedTypes, FlagTypes, PlaceTypes, MemoryTypes, Shape,
     Shaped, HasObj, HasFresh, Pcs, Gens, Accounts, Actors
<1>3. Rotating'
  BY <1>1 DEF Unauthorized, Works, Fails, Goto, dbVars, schedVars, jobVars,
     lockVars, memVars, provVars, Rotating, Carries, TypeInv, PlaceTypes,
     MemoryTypes
<1>4. Looked'
  BY <1>1 DEF Unauthorized, Works, Fails, Goto, dbVars, schedVars, jobVars,
     lockVars, memVars, provVars, Looked, TypeInv, PlaceTypes, MemoryTypes
<1> QED BY <1>2, <1>3, <1>4

LEMMA LockKept ==
  ASSUME TypeInv, TypeInv', KeptInv, NEW p \in Actors, Lock(p)
  PROVE  KeptInv'
<1> SUFFICES ASSUME ~lost' PROVE (Bounded /\ Rotating /\ Looked)'
  BY DEF KeptInv
<1>1. ~lost /\ Bounded /\ Rotating /\ Looked
  BY DEF Lock, Inside, Goto, dbVars, schedVars, jobVars, lockVars, memVars,
     provVars, KeptInv, TypeInv, FlagTypes
<1>2. Bounded'
  BY <1>1, TokenAssumption DEF Lock, Inside, Goto, dbVars, schedVars, jobVars,
     lockVars, memVars, provVars, Bounded, Older, Rotating, Carries, TypeInv,
     SharedTypes, FlagTypes, PlaceTypes, MemoryTypes, Shape, Shaped, HasObj,
     HasFresh, Pcs, Gens, Accounts, Actors
<1>3. Rotating'
  BY <1>1 DEF Lock, Inside, Goto, dbVars, schedVars, jobVars, lockVars,
     memVars, provVars, Rotating, Carries, TypeInv, PlaceTypes, MemoryTypes
<1>4. Looked'
  BY <1>1 DEF Lock, Inside, Goto, dbVars, schedVars, jobVars, lockVars,
     memVars, provVars, Looked, TypeInv, PlaceTypes, MemoryTypes
<1> QED BY <1>2, <1>3, <1>4

LEMMA TakeLockKept ==
  ASSUME TypeInv, TypeInv', KeptInv, NEW p \in Actors, TakeLock(p)
  PROVE  KeptInv'
<1> SUFFICES ASSUME ~lost' PROVE (Bounded /\ Rotating /\ Looked)'
  BY DEF KeptInv
<1>1. ~lost /\ Bounded /\ Rotating /\ Looked
  BY DEF TakeLock, Goto, dbVars, schedVars, jobVars, memVars, provVars,
     KeptInv, TypeInv, FlagTypes
<1>2. Bounded'
  BY <1>1, TokenAssumption DEF TakeLock, Goto, dbVars, schedVars, jobVars,
     memVars, provVars, Bounded, Older, Rotating, Carries, TypeInv,
     SharedTypes, FlagTypes, PlaceTypes, MemoryTypes, Shape, Shaped, HasObj,
     HasFresh, Pcs, Gens, Accounts, Actors
<1>3. Rotating'
  BY <1>1 DEF TakeLock, Goto, dbVars, schedVars, jobVars, memVars, provVars,
     Rotating, Carries, TypeInv, PlaceTypes, MemoryTypes
<1>4. Looked'
  BY <1>1 DEF TakeLock, Goto, dbVars, schedVars, jobVars, memVars, provVars,
     Looked, TypeInv, PlaceTypes, MemoryTypes
<1> QED BY <1>2, <1>3, <1>4

LEMMA DegradeKept ==
  ASSUME TypeInv, TypeInv', KeptInv, NEW p \in Actors, Degrade(p)
  PROVE  KeptInv'
<1> SUFFICES ASSUME ~lost' PROVE (Bounded /\ Rotating /\ Looked)'
  BY DEF KeptInv
<1>1. ~lost /\ Bounded /\ Rotating /\ Looked
  BY DEF Degrade, Fails, Goto, dbVars, schedVars, jobVars, memVars, provVars,
     KeptInv, TypeInv, FlagTypes
<1>2. Bounded'
  BY <1>1, TokenAssumption DEF Degrade, Fails, Goto, dbVars, schedVars,
     jobVars, memVars, provVars, Bounded, Older, Rotating, Carries, TypeInv,
     SharedTypes, FlagTypes, PlaceTypes, MemoryTypes, Shape, Shaped, HasObj,
     HasFresh, Pcs, Gens, Accounts, Actors
<1>3. Rotating'
  BY <1>1 DEF Degrade, Fails, Goto, dbVars, schedVars, jobVars, memVars,
     provVars, Rotating, Carries, TypeInv, PlaceTypes, MemoryTypes
<1>4. Looked'
  BY <1>1 DEF Degrade, Fails, Goto, dbVars, schedVars, jobVars, memVars,
     provVars, Looked, TypeInv, PlaceTypes, MemoryTypes
<1> QED BY <1>2, <1>3, <1>4

LEMMA RereadKept ==
  ASSUME TypeInv, TypeInv', KeptInv, NEW p \in Actors, Reread(p)
  PROVE  KeptInv'
<1> SUFFICES ASSUME ~lost' PROVE (Bounded /\ Rotating /\ Looked)'
  BY DEF KeptInv
<1>1. ~lost /\ Bounded /\ Rotating /\ Looked
  BY DEF Reread, Works, Inspect, Needs, Goto, Return, dbVars, schedVars,
     jobVars, lockVars, provVars, KeptInv, TypeInv, FlagTypes
<1>2. Bounded'
  BY <1>1, TokenAssumption DEF Reread, Works, Inspect, Needs, Goto, Return,
     dbVars, schedVars, jobVars, lockVars, provVars, Bounded, Older, Rotating,
     Carries, TypeInv, SharedTypes, FlagTypes, PlaceTypes, MemoryTypes, Shape,
     Shaped, HasObj, HasFresh, Pcs, Gens, Accounts, Actors
<1>3. Rotating'
  BY <1>1, SMTT(20) DEF Reread, Works, Inspect, Needs, Goto, Return, dbVars, schedVars,
     jobVars, lockVars, provVars, Rotating, Carries, TypeInv, PlaceTypes,
     MemoryTypes
<1>4. Looked'
  BY <1>1 DEF Reread, Works, Inspect, Needs, Goto, Return, dbVars, schedVars,
     jobVars, lockVars, provVars, Looked, TypeInv, PlaceTypes, MemoryTypes
<1> QED BY <1>2, <1>3, <1>4

LEMMA RereadFailsKept ==
  ASSUME TypeInv, TypeInv', KeptInv, NEW p \in Actors, RereadFails(p)
  PROVE  KeptInv'
<1> SUFFICES ASSUME ~lost' PROVE (Bounded /\ Rotating /\ Looked)'
  BY DEF KeptInv
<1>1. ~lost /\ Bounded /\ Rotating /\ Looked
  BY DEF RereadFails, Fails, Inspect, Needs, Goto, Return, dbVars, schedVars,
     jobVars, lockVars, provVars, KeptInv, TypeInv, FlagTypes
<1>2. Bounded'
  BY <1>1, TokenAssumption DEF RereadFails, Fails, Inspect, Needs, Goto,
     Return, dbVars, schedVars, jobVars, lockVars, provVars, Bounded, Older,
     Rotating, Carries, TypeInv, SharedTypes, FlagTypes, PlaceTypes,
     MemoryTypes, Shape, Shaped, HasObj, HasFresh, Pcs, Gens, Accounts, Actors
<1>3. Rotating'
  BY <1>1 DEF RereadFails, Fails, Inspect, Needs, Goto, Return, dbVars,
     schedVars, jobVars, lockVars, provVars, Rotating, Carries, TypeInv,
     PlaceTypes, MemoryTypes
<1>4. Looked'
  BY <1>1 DEF RereadFails, Fails, Inspect, Needs, Goto, Return, dbVars,
     schedVars, jobVars, lockVars, provVars, Looked, TypeInv, PlaceTypes,
     MemoryTypes
<1> QED BY <1>2, <1>3, <1>4

LEMMA RotateKept ==
  ASSUME TypeInv, TypeInv', KeptInv, NEW p \in Actors, Rotate(p)
  PROVE  KeptInv'
<1> SUFFICES ASSUME ~lost' PROVE (Bounded /\ Rotating /\ Looked)'
  BY DEF KeptInv
<1>1. ~lost /\ Bounded /\ Rotating /\ Looked
  BY DEF Rotate, Goto, dbVars, schedVars, jobVars, lockVars, memVars, KeptInv,
     TypeInv, FlagTypes
<1>2. Bounded'
  BY <1>1, TokenAssumption DEF Rotate, Goto, dbVars, schedVars, jobVars,
     lockVars, memVars, Bounded, Older, Rotating, Carries, TypeInv,
     SharedTypes, FlagTypes, PlaceTypes, MemoryTypes, Shape, Shaped, HasObj,
     HasFresh, Pcs, Gens, Accounts, Actors
<1>3. Rotating'
  BY <1>1, TokenAssumption DEF Rotate, Goto, dbVars, schedVars, jobVars,
     lockVars, memVars, Bounded, Older, Rotating, Carries, TypeInv,
     SharedTypes, FlagTypes, PlaceTypes, MemoryTypes, Shape, Shaped, HasObj,
     HasFresh, Pcs, Gens, Accounts, Actors
<1>4. Looked'
  BY <1>1, TokenAssumption DEF Rotate, Goto, dbVars, schedVars, jobVars,
     lockVars, memVars, Bounded, Older, Rotating, Carries, Looked, TypeInv,
     SharedTypes, FlagTypes, PlaceTypes, MemoryTypes, Shape, Shaped, HasObj,
     HasFresh, Pcs, Gens, Accounts, Actors
<1> QED BY <1>2, <1>3, <1>4

LEMMA CallFailsKept ==
  ASSUME TypeInv, TypeInv', KeptInv, NEW p \in Actors, CallFails(p)
  PROVE  KeptInv'
<1> SUFFICES ASSUME ~lost' PROVE (Bounded /\ Rotating /\ Looked)'
  BY DEF KeptInv
<1>1. ~lost /\ Bounded /\ Rotating /\ Looked
  BY DEF CallFails, Fails, Return, Goto, schedVars, jobVars, lockVars, memVars,
     KeptInv, TypeInv, FlagTypes
<1>2. Bounded'
  BY <1>1, TokenAssumption DEF CallFails, Fails, Return, Goto, schedVars,
     jobVars, lockVars, memVars, Bounded, Older, Rotating, Carries, TypeInv,
     SharedTypes, FlagTypes, PlaceTypes, MemoryTypes, Shape, Shaped, HasObj,
     HasFresh, Pcs, Gens, Accounts, Actors
<1>3. Rotating'
  BY <1>1, TokenAssumption DEF CallFails, Fails, Return, Goto, schedVars,
     jobVars, lockVars, memVars, Bounded, Older, Rotating, Carries, TypeInv,
     SharedTypes, FlagTypes, PlaceTypes, MemoryTypes, Shape, Shaped, HasObj,
     HasFresh, Pcs, Gens, Accounts, Actors
<1>4. Looked'
  BY <1>1, TokenAssumption DEF CallFails, Fails, Return, Goto, schedVars,
     jobVars, lockVars, memVars, Bounded, Older, Rotating, Carries, Looked,
     TypeInv, SharedTypes, FlagTypes, PlaceTypes, MemoryTypes, Shape, Shaped,
     HasObj, HasFresh, Pcs, Gens, Accounts, Actors
<1> QED BY <1>2, <1>3, <1>4

LEMMA InvalidGrantKept ==
  ASSUME TypeInv, TypeInv', KeptInv, NEW p \in Actors, InvalidGrant(p)
  PROVE  KeptInv'
<1> SUFFICES ASSUME ~lost' PROVE (Bounded /\ Rotating /\ Looked)'
  BY DEF KeptInv
<1>1. ~lost /\ Bounded /\ Rotating /\ Looked
  BY DEF InvalidGrant, Goto, dbVars, schedVars, jobVars, lockVars, memVars,
     provVars, KeptInv, TypeInv, FlagTypes
<1>2. Bounded'
  BY <1>1, TokenAssumption DEF InvalidGrant, Goto, dbVars, schedVars, jobVars,
     lockVars, memVars, provVars, Bounded, Older, Rotating, Carries, TypeInv,
     SharedTypes, FlagTypes, PlaceTypes, MemoryTypes, Shape, Shaped, HasObj,
     HasFresh, Pcs, Gens, Accounts, Actors
<1>3. Rotating'
  BY <1>1, TokenAssumption DEF InvalidGrant, Goto, dbVars, schedVars, jobVars,
     lockVars, memVars, provVars, Bounded, Older, Rotating, Carries, TypeInv,
     SharedTypes, FlagTypes, PlaceTypes, MemoryTypes, Shape, Shaped, HasObj,
     HasFresh, Pcs, Gens, Accounts, Actors
<1>4. Looked'
  <2>1. fresh[p] \in Accounts /\ fresh[p].gen # valid
    BY DEF InvalidGrant, TypeInv, Shape, Shaped, HasFresh
  <2>2. fresh[p].gen \in Int /\ row.gen \in Int /\ valid \in Int
    BY <2>1, TokenAssumption DEF TypeInv, SharedTypes, Accounts, Gens
  <2>3. fresh[p].gen < valid
    BY <1>1, <2>1, <2>2 DEF Bounded, Older
  <2> QED BY <1>1, <2>3 DEF InvalidGrant, Goto, memVars, provVars, Looked,
          TypeInv, PlaceTypes
<1> QED BY <1>2, <1>3, <1>4

LEMMA RecoverKept ==
  ASSUME TypeInv, TypeInv', KeptInv, NEW p \in Actors, Recover(p)
  PROVE  KeptInv'
<1> SUFFICES ASSUME ~lost' PROVE (Bounded /\ Rotating /\ Looked)'
  BY DEF KeptInv
<1>1. ~lost /\ Bounded /\ Rotating /\ Looked
  BY DEF Recover, Works, Return, Fails, Goto, dbVars, schedVars, jobVars,
     lockVars, KeptInv, TypeInv, FlagTypes
<1>2. Bounded'
  BY <1>1, TokenAssumption DEF Recover, Works, Return, Fails, Goto, dbVars,
     schedVars, jobVars, lockVars, Bounded, Older, Rotating, Carries, TypeInv,
     SharedTypes, FlagTypes, PlaceTypes, MemoryTypes, Shape, Shaped, HasObj,
     HasFresh, Pcs, Gens, Accounts, Actors
<1>3. Rotating'
  BY <1>1 DEF Recover, Works, Return, Fails, Goto, dbVars, schedVars, jobVars,
     lockVars, Rotating, Carries, TypeInv, PlaceTypes, MemoryTypes
<1>4. Looked'
  BY <1>1 DEF Recover, Works, Return, Fails, Goto, dbVars, schedVars, jobVars,
     lockVars, Looked, TypeInv, PlaceTypes, MemoryTypes
<1> QED BY <1>2, <1>3, <1>4

LEMMA ReleaseKept ==
  ASSUME TypeInv, TypeInv', KeptInv, NEW p \in Actors, Release(p)
  PROVE  KeptInv'
<1> SUFFICES ASSUME ~lost' PROVE (Bounded /\ Rotating /\ Looked)'
  BY DEF KeptInv
<1>1. ~lost /\ Bounded /\ Rotating /\ Looked
  BY DEF Release, Unlock, Works, Fails, Goto, memVars, jobVars, End, MayRetry,
     Return, dbVars, schedVars, provVars, KeptInv, TypeInv, FlagTypes
<1>2. Bounded'
  <2>1. Fewer
    BY EndFewer, SameFewer DEF Release, Unlock, jobVars, dbVars, schedVars,
       provVars
  <2>2. row'.gen = row.gen /\ row'.ver = row.ver
    BY DEF Release, dbVars
  <2>3. valid' = valid
    BY DEF Release, provVars
  <2>4. Older(copy')
    BY <1>1 DEF Release, schedVars, Bounded, Older
  <2> QED BY <1>1, <2>1, <2>2, <2>3, <2>4, FewerBounded
<1>3. Rotating'
  BY <1>1 DEF Release, Unlock, Works, Fails, Goto, memVars, jobVars, End,
     MayRetry, Return, dbVars, schedVars, provVars, Rotating, Carries, TypeInv,
     PlaceTypes, MemoryTypes
<1>4. Looked'
  BY <1>1 DEF Release, Unlock, Works, Fails, Goto, memVars, jobVars, End,
     MayRetry, Return, dbVars, schedVars, provVars, Looked, TypeInv,
     PlaceTypes, MemoryTypes
<1> QED BY <1>2, <1>3, <1>4

LEMMA ParkKept ==
  ASSUME TypeInv, TypeInv', KeptInv, NEW p \in Actors, Park(p)
  PROVE  KeptInv'
<1> SUFFICES ASSUME ~lost' PROVE (Bounded /\ Rotating /\ Looked)'
  BY DEF KeptInv
<1>1. ~lost /\ Bounded /\ Rotating /\ Looked
  BY DEF Park, Flag, Enqueue, Works, Fails, Return, Goto, memVars, jobVars,
     End, lockVars, provVars, KeptInv, TypeInv, FlagTypes
<1>2. Bounded'
  <2>1. Fewer
    BY EndFewer, SameFewer DEF Park, Flag, Enqueue, jobVars, lockVars, provVars
  <2>2. row'.gen = row.gen /\ row'.ver = row.ver
    BY Flagged DEF Park, Flag, TypeInv, SharedTypes
  <2>3. valid' = valid
    BY DEF Park, Flag, provVars
  <2>4. Older(copy')
    BY <1>1 DEF Park, Flag, Bounded, Older
  <2> QED BY <1>1, <2>1, <2>2, <2>3, <2>4, FewerBounded
<1>3. Rotating'
  <2>1. row'.gen = row.gen /\ valid' = valid
    BY Flagged DEF Park, Flag, TypeInv, SharedTypes, provVars
  <2>2. \A q \in Actors :
          q # p => pc'[q] = pc[q] /\ tok'[q] = tok[q] /\ obj'[q] = obj[q]
    BY DEF Park, Flag, End, Goto, memVars, TypeInv, PlaceTypes, MemoryTypes
  <2>3. ~Carries(p) /\ ~Carries(p)'
    BY DEF Park, Flag, End, Goto, Carries, TypeInv, PlaceTypes
  <2>4. \A q \in Actors : q # p => (Carries(q)' <=> Carries(q))
    BY <2>2 DEF Carries
  <2> QED BY <1>1, <2>1, <2>2, <2>3, <2>4 DEF Rotating
<1>4. Looked'
  BY <1>1 DEF Park, Flag, Enqueue, Works, Fails, Return, Goto, memVars,
     jobVars, End, lockVars, provVars, Looked, TypeInv, PlaceTypes, MemoryTypes
<1> QED BY <1>2, <1>3, <1>4

LEMMA CondemnKept ==
  ASSUME TypeInv, TypeInv', KeptInv, NEW p \in Actors, Condemn(p)
  PROVE  KeptInv'
<1> SUFFICES ASSUME ~lost' PROVE (Bounded /\ Rotating /\ Looked)'
  BY DEF KeptInv
<1>1. ~lost /\ Bounded /\ Rotating /\ Looked
  BY DEF Condemn, Flag, Enqueue, Works, Fails, Return, Goto, memVars, jobVars,
     End, lockVars, provVars, KeptInv, TypeInv, FlagTypes
<1>2. Bounded'
  <2>1. Fewer
    BY EndFewer, SameFewer DEF Condemn, Flag, Enqueue, jobVars, lockVars,
       provVars
  <2>2. row'.gen = row.gen /\ row'.ver = row.ver
    BY Flagged DEF Condemn, Flag, TypeInv, SharedTypes
  <2>3. valid' = valid
    BY DEF Condemn, Flag, provVars
  <2>4. Older(copy')
    BY <1>1 DEF Condemn, Flag, Bounded, Older
  <2> QED BY <1>1, <2>1, <2>2, <2>3, <2>4, FewerBounded
<1>3. Rotating'
  <2>1. row'.gen = row.gen /\ valid' = valid
    BY Flagged DEF Condemn, Flag, TypeInv, SharedTypes, provVars
  <2>2. \A q \in Actors :
          q # p => pc'[q] = pc[q] /\ tok'[q] = tok[q] /\ obj'[q] = obj[q]
    BY DEF Condemn, Flag, End, Goto, memVars, TypeInv, PlaceTypes, MemoryTypes
  <2>3. ~Carries(p) /\ ~Carries(p)'
    BY DEF Condemn, Flag, End, Goto, Carries, TypeInv, PlaceTypes
  <2>4. \A q \in Actors : q # p => (Carries(q)' <=> Carries(q))
    BY <2>2 DEF Carries
  <2> QED BY <1>1, <2>1, <2>2, <2>3, <2>4 DEF Rotating
<1>4. Looked'
  BY <1>1 DEF Condemn, Flag, Enqueue, Works, Fails, Return, Goto, memVars,
     jobVars, End, lockVars, provVars, Looked, TypeInv, PlaceTypes, MemoryTypes
<1> QED BY <1>2, <1>3, <1>4

LEMMA SyncKept ==
  ASSUME TypeInv, TypeInv', KeptInv, NEW p \in Actors, Sync(p)
  PROVE  KeptInv'
<1> SUFFICES ASSUME ~lost' PROVE (Bounded /\ Rotating /\ Looked)'
  BY DEF KeptInv
<1>1. ~lost /\ Bounded /\ Rotating /\ Looked
  BY DEF Sync, Goto, dbVars, schedVars, lockVars, memVars, provVars, KeptInv,
     TypeInv, FlagTypes
<1>2. Bounded'
  BY <1>1, TokenAssumption DEF Sync, Goto, dbVars, schedVars, lockVars,
     memVars, provVars, Bounded, Older, Rotating, Carries, TypeInv,
     SharedTypes, FlagTypes, PlaceTypes, MemoryTypes, Shape, Shaped, HasObj,
     HasFresh, Pcs, Gens, Accounts, Actors
<1>3. Rotating'
  BY <1>1 DEF Sync, Goto, dbVars, schedVars, lockVars, memVars, provVars,
     Rotating, Carries, TypeInv, PlaceTypes, MemoryTypes
<1>4. Looked'
  BY <1>1 DEF Sync, Goto, dbVars, schedVars, lockVars, memVars, provVars,
     Looked, TypeInv, PlaceTypes, MemoryTypes
<1> QED BY <1>2, <1>3, <1>4

LEMMA WriteKept ==
  ASSUME TypeInv, TypeInv', KeptInv, NEW p \in Actors, Write(p)
  PROVE  KeptInv'
<1> SUFFICES ASSUME ~lost' PROVE (Bounded /\ Rotating /\ Looked)'
  BY DEF KeptInv
<1>1. ~lost /\ Bounded /\ Rotating /\ Looked
  BY DEF Write, Works, Fails, End, Goto, memVars, dbVars, lockVars, provVars,
     KeptInv, TypeInv, FlagTypes
<1>2. Bounded'
  <2>1. Fewer
    BY EndFewer, SameFewer DEF Write, dbVars, lockVars, provVars
  <2>2. row'.gen = row.gen /\ row'.ver = row.ver
    BY DEF Write, dbVars
  <2>3. valid' = valid
    BY DEF Write, provVars
  <2>4. Older(copy')
    BY <1>1 DEF Write, Bounded, Older, TypeInv, Shape, Shaped
  <2> QED BY <1>1, <2>1, <2>2, <2>3, <2>4, FewerBounded
<1>3. Rotating'
  BY <1>1 DEF Write, Works, Fails, End, Goto, memVars, dbVars, lockVars,
     provVars, Rotating, Carries, TypeInv, PlaceTypes, MemoryTypes
<1>4. Looked'
  BY <1>1 DEF Write, Works, Fails, End, Goto, memVars, dbVars, lockVars,
     provVars, Looked, TypeInv, PlaceTypes, MemoryTypes
<1> QED BY <1>2, <1>3, <1>4

LEMMA CycleKept ==
  ASSUME TypeInv, TypeInv', KeptInv, NEW p \in Actors, Cycle(p)
  PROVE  KeptInv'
<1> SUFFICES ASSUME ~lost' PROVE (Bounded /\ Rotating /\ Looked)'
  BY DEF KeptInv
<1>1. ~lost /\ Bounded /\ Rotating /\ Looked
  BY SMTT(20) DEF Cycle, Needs, Goto, dbVars, schedVars, jobVars, lockVars, provVars,
     KeptInv, TypeInv, FlagTypes
<1>2. Bounded'
  BY <1>1, TokenAssumption DEF Cycle, Needs, Goto, dbVars, schedVars, jobVars,
     lockVars, provVars, Bounded, Older, Rotating, Carries, TypeInv,
     SharedTypes, FlagTypes, PlaceTypes, MemoryTypes, Shape, Shaped, HasObj,
     HasFresh, Pcs, Gens, Accounts, Actors
<1>3. Rotating'
  BY <1>1 DEF Cycle, Needs, Goto, dbVars, schedVars, jobVars, lockVars,
     provVars, Rotating, Carries, TypeInv, PlaceTypes, MemoryTypes
<1>4. Looked'
  BY <1>1 DEF Cycle, Needs, Goto, dbVars, schedVars, jobVars, lockVars,
     provVars, Looked, TypeInv, PlaceTypes, MemoryTypes, Actors
<1> QED BY <1>2, <1>3, <1>4

LEMMA PostKept ==
  ASSUME TypeInv, TypeInv', KeptInv, NEW p \in Actors, Post(p)
  PROVE  KeptInv'
<1> SUFFICES ASSUME ~lost' PROVE (Bounded /\ Rotating /\ Looked)'
  BY DEF KeptInv
<1>1. ~lost /\ Bounded /\ Rotating /\ Looked
  BY DEF Post, Enqueue, Works, Fails, Goto, jobVars, lockVars, memVars,
     provVars, KeptInv, TypeInv, FlagTypes
<1>2. Bounded'
  BY <1>1, TokenAssumption, SMTT(20) DEF Post, Enqueue, Works, Fails, Goto, jobVars,
     lockVars, memVars, provVars, Bounded, Older, Rotating, Carries, TypeInv,
     SharedTypes, FlagTypes, PlaceTypes, MemoryTypes, Shape, Shaped, HasObj,
     HasFresh, Pcs, Gens, Accounts, Actors
<1>3. Rotating'
  BY <1>1 DEF Post, Enqueue, Works, Fails, Goto, jobVars, lockVars, memVars,
     provVars, Rotating, Carries, TypeInv, PlaceTypes, MemoryTypes,
     SharedTypes, Accounts
<1>4. Looked'
  BY <1>1 DEF Post, Enqueue, Works, Fails, Goto, jobVars, lockVars, memVars,
     provVars, Looked, TypeInv, PlaceTypes, MemoryTypes
<1> QED BY <1>2, <1>3, <1>4

LEMMA DropKept ==
  ASSUME TypeInv, TypeInv', KeptInv, NEW p \in Actors, Drop(p)
  PROVE  KeptInv'
<1> SUFFICES ASSUME ~lost' PROVE (Bounded /\ Rotating /\ Looked)'
  BY DEF KeptInv
<1>1. ~lost /\ Bounded /\ Rotating /\ Looked
  BY DEF Drop, Works, Fails, Goto, dbVars, schedVars, jobVars, lockVars,
     memVars, provVars, KeptInv, TypeInv, FlagTypes
<1>2. Bounded'
  BY <1>1, TokenAssumption DEF Drop, Works, Fails, Goto, dbVars, schedVars,
     jobVars, lockVars, memVars, provVars, Bounded, Older, Rotating, Carries,
     TypeInv, SharedTypes, FlagTypes, PlaceTypes, MemoryTypes, Shape, Shaped,
     HasObj, HasFresh, Pcs, Gens, Accounts, Actors
<1>3. Rotating'
  BY <1>1 DEF Drop, Works, Fails, Goto, dbVars, schedVars, jobVars, lockVars,
     memVars, provVars, Rotating, Carries, TypeInv, PlaceTypes, MemoryTypes
<1>4. Looked'
  BY <1>1 DEF Drop, Works, Fails, Goto, dbVars, schedVars, jobVars, lockVars,
     memVars, provVars, Looked, TypeInv, PlaceTypes, MemoryTypes
<1> QED BY <1>2, <1>3, <1>4

LEMMA PublishKept ==
  ASSUME TypeInv, TypeInv', KeptInv, NEW p \in Actors, Publish(p)
  PROVE  KeptInv'
<1> SUFFICES ASSUME ~lost' PROVE (Bounded /\ Rotating /\ Looked)'
  BY DEF KeptInv
<1>1. ~lost /\ Bounded /\ Rotating /\ Looked
  BY DEF Publish, Works, Fails, End, Goto, dbVars, lockVars, provVars, KeptInv,
     TypeInv, FlagTypes
<1>2. Bounded'
  <2>1. Fewer
    BY EndFewer DEF Publish
  <2>2. row' = row /\ valid' = valid
    BY DEF Publish, dbVars, provVars
  <2>3. Older(copy')
    BY <1>1 DEF Publish, Bounded, TypeInv, Shape, Shaped, HasFresh
  <2> QED BY <1>1, <2>1, <2>2, <2>3, FewerBounded
<1>3. Rotating'
  BY <1>1 DEF Publish, Works, Fails, End, Goto, dbVars, lockVars, provVars,
     Rotating, Carries, TypeInv, PlaceTypes, MemoryTypes
<1>4. Looked'
  BY <1>1 DEF Publish, Works, Fails, End, Goto, dbVars, lockVars, provVars,
     Looked, TypeInv, PlaceTypes, MemoryTypes
<1> QED BY <1>2, <1>3, <1>4

LEMMA PollKept ==
  ASSUME TypeInv, TypeInv', KeptInv, NEW s \in Syncers, Poll(s)
  PROVE  KeptInv'
<1> SUFFICES ASSUME ~lost' PROVE (Bounded /\ Rotating /\ Looked)'
  BY DEF KeptInv
<1>1. ~lost /\ Bounded /\ Rotating /\ Looked
  BY DEF Poll, dbVars, lockVars, memVars, provVars, KeptInv, TypeInv, FlagTypes
<1>2. Bounded'
  BY <1>1, TokenAssumption DEF Poll, dbVars, lockVars, memVars, provVars,
     Bounded, Older, Rotating, Carries, TypeInv, SharedTypes, FlagTypes,
     PlaceTypes, MemoryTypes, Shape, Shaped, HasObj, HasFresh, Pcs, Gens,
     Accounts, Actors
<1>3. Rotating'
  BY <1>1 DEF Poll, dbVars, lockVars, memVars, provVars, Rotating, Carries,
     TypeInv, PlaceTypes, MemoryTypes
<1>4. Looked'
  BY <1>1 DEF Poll, dbVars, lockVars, memVars, provVars, Looked, TypeInv,
     PlaceTypes, MemoryTypes
<1> QED BY <1>2, <1>3, <1>4

LEMMA ApplyEventKept ==
  ASSUME TypeInv, TypeInv', KeptInv, NEW s \in Syncers, ApplyEvent(s)
  PROVE  KeptInv'
<1> SUFFICES ASSUME ~lost' PROVE (Bounded /\ Rotating /\ Looked)'
  BY DEF KeptInv
<1>1. ~lost /\ Bounded /\ Rotating /\ Looked
  BY DEF ApplyEvent, Works, Fails, dbVars, lockVars, memVars, provVars,
     KeptInv, TypeInv, FlagTypes
<1>2. Bounded'
  BY <1>1, TokenAssumption DEF ApplyEvent, Works, Fails, dbVars, lockVars,
     memVars, provVars, Bounded, Older, Rotating, Carries, TypeInv,
     SharedTypes, FlagTypes, PlaceTypes, MemoryTypes, Shape, Shaped, HasObj,
     HasFresh, Pcs, Gens, Accounts, Actors
<1>3. Rotating'
  BY <1>1 DEF ApplyEvent, Works, Fails, dbVars, lockVars, memVars, provVars,
     Rotating, Carries, TypeInv, PlaceTypes, MemoryTypes
<1>4. Looked'
  BY <1>1 DEF ApplyEvent, Works, Fails, dbVars, lockVars, memVars, provVars,
     Looked, TypeInv, PlaceTypes, MemoryTypes
<1> QED BY <1>2, <1>3, <1>4

LEMMA StartRebuildKept ==
  ASSUME TypeInv, TypeInv', KeptInv, NEW s \in Syncers, StartRebuild(s)
  PROVE  KeptInv'
<1> SUFFICES ASSUME ~lost' PROVE (Bounded /\ Rotating /\ Looked)'
  BY DEF KeptInv
<1>1. ~lost /\ Bounded /\ Rotating /\ Looked
  BY DEF StartRebuild, dbVars, lockVars, memVars, provVars, KeptInv, TypeInv,
     FlagTypes
<1>2. Bounded'
  BY <1>1, TokenAssumption DEF StartRebuild, dbVars, lockVars, memVars,
     provVars, Bounded, Older, Rotating, Carries, TypeInv, SharedTypes,
     FlagTypes, PlaceTypes, MemoryTypes, Shape, Shaped, HasObj, HasFresh, Pcs,
     Gens, Accounts, Actors
<1>3. Rotating'
  BY <1>1 DEF StartRebuild, dbVars, lockVars, memVars, provVars, Rotating,
     Carries, TypeInv, PlaceTypes, MemoryTypes
<1>4. Looked'
  BY <1>1 DEF StartRebuild, dbVars, lockVars, memVars, provVars, Looked,
     TypeInv, PlaceTypes, MemoryTypes
<1> QED BY <1>2, <1>3, <1>4

LEMMA PassOverKept ==
  ASSUME TypeInv, TypeInv', KeptInv, NEW s \in Syncers, PassOver(s)
  PROVE  KeptInv'
<1> SUFFICES ASSUME ~lost' PROVE (Bounded /\ Rotating /\ Looked)'
  BY DEF KeptInv
<1>1. ~lost /\ Bounded /\ Rotating /\ Looked
  BY DEF PassOver, Advance, Works, Fails, dbVars, lockVars, memVars, provVars,
     KeptInv, TypeInv, FlagTypes
<1>2. Bounded'
  BY <1>1, TokenAssumption DEF PassOver, Advance, Works, Fails, dbVars,
     lockVars, memVars, provVars, Bounded, Older, Rotating, Carries, TypeInv,
     SharedTypes, FlagTypes, PlaceTypes, MemoryTypes, Shape, Shaped, HasObj,
     HasFresh, Pcs, Gens, Accounts, Actors
<1>3. Rotating'
  BY <1>1 DEF PassOver, Advance, Works, Fails, dbVars, lockVars, memVars,
     provVars, Rotating, Carries, TypeInv, PlaceTypes, MemoryTypes
<1>4. Looked'
  BY <1>1 DEF PassOver, Advance, Works, Fails, dbVars, lockVars, memVars,
     provVars, Looked, TypeInv, PlaceTypes, MemoryTypes
<1> QED BY <1>2, <1>3, <1>4

LEMMA FallbackKept ==
  ASSUME TypeInv, TypeInv', KeptInv, NEW s \in Syncers, Fallback(s)
  PROVE  KeptInv'
<1> SUFFICES ASSUME ~lost' PROVE (Bounded /\ Rotating /\ Looked)'
  BY DEF KeptInv
<1>1. ~lost /\ Bounded /\ Rotating /\ Looked
  BY SMTT(20) DEF Fallback, dbVars, schedVars, lockVars, memVars, provVars, KeptInv,
     TypeInv, FlagTypes
<1>2. Bounded'
  BY <1>1, TokenAssumption DEF Fallback, dbVars, schedVars, lockVars, memVars,
     provVars, Bounded, Older, Rotating, Carries, TypeInv, SharedTypes,
     FlagTypes, PlaceTypes, MemoryTypes, Shape, Shaped, HasObj, HasFresh, Pcs,
     Gens, Accounts, Actors
<1>3. Rotating'
  BY <1>1 DEF Fallback, dbVars, schedVars, lockVars, memVars, provVars,
     Rotating, Carries, TypeInv, PlaceTypes, MemoryTypes
<1>4. Looked'
  BY <1>1 DEF Fallback, dbVars, schedVars, lockVars, memVars, provVars, Looked,
     TypeInv, PlaceTypes, MemoryTypes
<1> QED BY <1>2, <1>3, <1>4

LEMMA SetSnapshotKept ==
  ASSUME TypeInv, TypeInv', KeptInv, NEW s \in Syncers, SetSnapshot(s)
  PROVE  KeptInv'
<1> SUFFICES ASSUME ~lost' PROVE (Bounded /\ Rotating /\ Looked)'
  BY DEF KeptInv
<1>1. ~lost /\ Bounded /\ Rotating /\ Looked
  BY DEF SetSnapshot, Advance, Works, Fails, dbVars, lockVars, memVars,
     provVars, KeptInv, TypeInv, FlagTypes
<1>2. Bounded'
  BY <1>1, TokenAssumption DEF SetSnapshot, Advance, Works, Fails, dbVars,
     lockVars, memVars, provVars, Bounded, Older, Rotating, Carries, TypeInv,
     SharedTypes, FlagTypes, PlaceTypes, MemoryTypes, Shape, Shaped, HasObj,
     HasFresh, Pcs, Gens, Accounts, Actors
<1>3. Rotating'
  BY <1>1 DEF SetSnapshot, Advance, Works, Fails, dbVars, lockVars, memVars,
     provVars, Rotating, Carries, TypeInv, PlaceTypes, MemoryTypes
<1>4. Looked'
  BY <1>1 DEF SetSnapshot, Advance, Works, Fails, dbVars, lockVars, memVars,
     provVars, Looked, TypeInv, PlaceTypes, MemoryTypes
<1> QED BY <1>2, <1>3, <1>4

LEMMA SnapshotFailsKept ==
  ASSUME TypeInv, TypeInv', KeptInv, NEW s \in Syncers, SnapshotFails(s)
  PROVE  KeptInv'
<1> SUFFICES ASSUME ~lost' PROVE (Bounded /\ Rotating /\ Looked)'
  BY DEF KeptInv
<1>1. ~lost /\ Bounded /\ Rotating /\ Looked
  BY DEF SnapshotFails, Fails, dbVars, lockVars, memVars, provVars, KeptInv,
     TypeInv, FlagTypes
<1>2. Bounded'
  BY <1>1, TokenAssumption DEF SnapshotFails, Fails, dbVars, lockVars, memVars,
     provVars, Bounded, Older, Rotating, Carries, TypeInv, SharedTypes,
     FlagTypes, PlaceTypes, MemoryTypes, Shape, Shaped, HasObj, HasFresh, Pcs,
     Gens, Accounts, Actors
<1>3. Rotating'
  BY <1>1 DEF SnapshotFails, Fails, dbVars, lockVars, memVars, provVars,
     Rotating, Carries, TypeInv, PlaceTypes, MemoryTypes
<1>4. Looked'
  BY <1>1 DEF SnapshotFails, Fails, dbVars, lockVars, memVars, provVars,
     Looked, TypeInv, PlaceTypes, MemoryTypes
<1> QED BY <1>2, <1>3, <1>4

LEMMA BucketLockExpiresKept ==
  ASSUME TypeInv, TypeInv', KeptInv, BucketLockExpires
  PROVE  KeptInv'
<1> SUFFICES ASSUME ~lost' PROVE (Bounded /\ Rotating /\ Looked)'
  BY DEF KeptInv
<1>1. ~lost /\ Bounded /\ Rotating /\ Looked
  BY DEF BucketLockExpires, dbVars, jobVars, lockVars, memVars, provVars,
     KeptInv, TypeInv, FlagTypes
<1>2. Bounded'
  BY <1>1, TokenAssumption DEF BucketLockExpires, dbVars, jobVars, lockVars,
     memVars, provVars, Bounded, Older, Rotating, Carries, TypeInv,
     SharedTypes, FlagTypes, PlaceTypes, MemoryTypes, Shape, Shaped, HasObj,
     HasFresh, Pcs, Gens, Accounts, Actors
<1>3. Rotating'
  BY <1>1 DEF BucketLockExpires, dbVars, jobVars, lockVars, memVars, provVars,
     Rotating, Carries, TypeInv, PlaceTypes, MemoryTypes
<1>4. Looked'
  BY <1>1 DEF BucketLockExpires, dbVars, jobVars, lockVars, memVars, provVars,
     Looked, TypeInv, PlaceTypes, MemoryTypes
<1> QED BY <1>2, <1>3, <1>4

LEMMA LockExpiresKept ==
  ASSUME TypeInv, TypeInv', KeptInv, LockExpires
  PROVE  KeptInv'
<1> SUFFICES ASSUME ~lost' PROVE (Bounded /\ Rotating /\ Looked)'
  BY DEF KeptInv
<1>1. ~lost /\ Bounded /\ Rotating /\ Looked
  BY DEF LockExpires, dbVars, schedVars, jobVars, memVars, provVars, KeptInv,
     TypeInv, FlagTypes
<1>2. Bounded'
  BY <1>1, TokenAssumption DEF LockExpires, dbVars, schedVars, jobVars,
     memVars, provVars, Bounded, Older, Rotating, Carries, TypeInv,
     SharedTypes, FlagTypes, PlaceTypes, MemoryTypes, Shape, Shaped, HasObj,
     HasFresh, Pcs, Gens, Accounts, Actors
<1>3. Rotating'
  BY <1>1 DEF LockExpires, dbVars, schedVars, jobVars, memVars, provVars,
     Rotating, Carries, TypeInv, PlaceTypes, MemoryTypes
<1>4. Looked'
  BY <1>1 DEF LockExpires, dbVars, schedVars, jobVars, memVars, provVars,
     Looked, TypeInv, PlaceTypes, MemoryTypes
<1> QED BY <1>2, <1>3, <1>4

LEMMA CacheExpiresKept ==
  ASSUME TypeInv, TypeInv', KeptInv, CacheExpires
  PROVE  KeptInv'
<1> SUFFICES ASSUME ~lost' PROVE (Bounded /\ Rotating /\ Looked)'
  BY DEF KeptInv
<1>1. ~lost /\ Bounded /\ Rotating /\ Looked
  BY DEF CacheExpires, dbVars, schedVars, jobVars, lockVars, memVars, provVars,
     KeptInv, TypeInv, FlagTypes
<1>2. Bounded'
  BY <1>1, TokenAssumption DEF CacheExpires, dbVars, schedVars, jobVars,
     lockVars, memVars, provVars, Bounded, Older, Rotating, Carries, TypeInv,
     SharedTypes, FlagTypes, PlaceTypes, MemoryTypes, Shape, Shaped, HasObj,
     HasFresh, Pcs, Gens, Accounts, Actors
<1>3. Rotating'
  BY <1>1 DEF CacheExpires, dbVars, schedVars, jobVars, lockVars, memVars,
     provVars, Rotating, Carries, TypeInv, PlaceTypes, MemoryTypes
<1>4. Looked'
  BY <1>1 DEF CacheExpires, dbVars, schedVars, jobVars, lockVars, memVars,
     provVars, Looked, TypeInv, PlaceTypes, MemoryTypes
<1> QED BY <1>2, <1>3, <1>4

LEMMA AgeKept ==
  ASSUME TypeInv, TypeInv', KeptInv, Age
  PROVE  KeptInv'
<1> SUFFICES ASSUME ~lost' PROVE (Bounded /\ Rotating /\ Looked)'
  BY DEF KeptInv
<1>1. ~lost /\ Bounded /\ Rotating /\ Looked
  BY DEF Age, dbVars, schedVars, jobVars, lockVars, memVars, KeptInv, TypeInv,
     FlagTypes
<1>2. Bounded'
  BY <1>1, TokenAssumption DEF Age, dbVars, schedVars, jobVars, lockVars,
     memVars, Bounded, Older, Rotating, Carries, TypeInv, SharedTypes,
     FlagTypes, PlaceTypes, MemoryTypes, Shape, Shaped, HasObj, HasFresh, Pcs,
     Gens, Accounts, Actors
<1>3. Rotating'
  BY <1>1 DEF Age, dbVars, schedVars, jobVars, lockVars, memVars, Rotating,
     Carries, TypeInv, PlaceTypes, MemoryTypes
<1>4. Looked'
  BY <1>1 DEF Age, dbVars, schedVars, jobVars, lockVars, memVars, Looked,
     TypeInv, PlaceTypes, MemoryTypes
<1> QED BY <1>2, <1>3, <1>4

\* The end of a pause leaves every generation as it is.
LEMMA UnparkGens ==
  ASSUME TypeInv, Unpark
  PROVE  /\ row'.gen = row.gen /\ copy'.gen = copy.gen
         /\ row'.ver = row.ver /\ copy'.ver = copy.ver
         /\ \A q \in Actors :
              /\ obj'[q] \in Accounts =>
                   /\ obj[q] \in Accounts /\ obj'[q].gen = obj[q].gen
                   /\ obj'[q].ver = obj[q].ver
              /\ fresh'[q] \in Accounts =>
                   /\ fresh[q] \in Accounts /\ fresh'[q].gen = fresh[q].gen
                   /\ fresh'[q].ver = fresh[q].ver
         /\ \A x \in Actors \cup Syncers :
              buf'[x] \in Accounts =>
                /\ buf[x] \in Accounts /\ buf'[x].gen = buf[x].gen
                /\ buf'[x].ver = buf[x].ver
<1> DEFINE R(a) == IF a = None THEN a ELSE [a EXCEPT !.flags = @ \ {"parked"}]
<1>1. ASSUME NEW a \in Accounts \cup {None}, R(a) \in Accounts
      PROVE  a \in Accounts /\ R(a).gen = a.gen /\ R(a).ver = a.ver
  BY <1>1, Rested, TokenAssumption
<1>2. ASSUME NEW a \in Accounts
      PROVE  R(a) \in Accounts
  BY Rested, TokenAssumption
<1>3. /\ row' = R(row) /\ copy' = R(copy)
      /\ obj' = [q \in Actors |-> R(obj[q])]
      /\ fresh' = [q \in Actors |-> R(fresh[q])]
      /\ buf' = [x \in Actors \cup Syncers |-> R(buf[x])]
  BY DEF Unpark
<1> HIDE DEF R
<1>4. row \in Accounts /\ copy \in Accounts
  BY DEF TypeInv, SharedTypes
<1>5. /\ row'.gen = row.gen /\ copy'.gen = copy.gen
      /\ row'.ver = row.ver /\ copy'.ver = copy.ver
  BY <1>1, <1>2, <1>3, <1>4
<1>6. ASSUME NEW q \in Actors
      PROVE  obj[q] \in Accounts \cup {None} /\ fresh[q] \in Accounts \cup {None}
  BY DEF TypeInv, MemoryTypes
<1>7. ASSUME NEW x \in Actors \cup Syncers
      PROVE  buf[x] \in Accounts \cup {None}
  BY DEF TypeInv, MemoryTypes
<1> QED BY <1>1, <1>3, <1>5, <1>6, <1>7

LEMMA UnparkKept ==
  ASSUME TypeInv, TypeInv', KeptInv, Unpark
  PROVE  KeptInv'
<1>1. UNCHANGED <<lost, valid, pc, res, tok, begin>>
  BY DEF Unpark, provVars
<1> SUFFICES ASSUME ~lost PROVE (Bounded /\ Rotating /\ Looked)'
  BY <1>1 DEF KeptInv
<1>2. Bounded /\ Rotating /\ Looked
  BY DEF KeptInv
<1>3. Bounded'
  BY <1>1, <1>2, UnparkGens DEF Bounded, Older
<1>4. Rotating'
  <2>1. \A q \in Actors : Carries(q)' <=> Carries(q)
    BY <1>1 DEF Carries
  <2>2. ASSUME NEW q \in Actors, Carries(q)', pc'[q] # "persist"
        PROVE  obj'[q].gen = row'.gen
    <3>1. obj'[q] \in Accounts
      BY <2>2 DEF Carries, TypeInv, Shape, Shaped, HasObj, Pcs
    <3> QED BY <1>1, <1>2, <2>1, <2>2, <3>1, UnparkGens DEF Rotating
  <2> QED BY <1>1, <1>2, <2>1, <2>2, UnparkGens DEF Rotating
<1>5. Looked'
  <2>1. ASSUME NEW q \in Actors, pc'[q] = "recover"
        PROVE  fresh'[q].gen < valid'
    <3>1. fresh'[q] \in Accounts
      BY <2>1 DEF TypeInv, Shape, Shaped, HasFresh
    <3> QED BY <1>1, <1>2, <2>1, <3>1, UnparkGens DEF Looked
  <2> QED BY <1>1, <1>2, <2>1 DEF Looked
<1> QED BY <1>3, <1>4, <1>5

LEMMA CrashKept ==
  ASSUME TypeInv, TypeInv', KeptInv, NEW d \in Procs, Crash(d)
  PROVE  KeptInv'
<1> SUFFICES ASSUME ~lost' PROVE (Bounded /\ Rotating /\ Looked)'
  BY DEF KeptInv
<1>1. ~lost /\ Bounded /\ Rotating /\ Looked
  BY DEF Crash, Fails, schedVars, KeptInv, TypeInv, FlagTypes
<1>2. Bounded'
  <2>1. Fewer
    BY DEF Crash, Fewer
  <2>2. row' = row /\ valid' = valid /\ copy' = copy
    BY DEF Crash, schedVars
  <2> QED BY <1>1, <2>1, <2>2, FewerBounded DEF Bounded, Older
<1>3. Rotating'
  BY <1>1 DEF Crash, Fails, schedVars, Rotating, Carries, TypeInv, PlaceTypes,
     MemoryTypes
<1>4. Looked'
  BY <1>1 DEF Crash, Fails, schedVars, Looked, TypeInv, PlaceTypes, MemoryTypes
<1> QED BY <1>2, <1>3, <1>4

LEMMA OpenKept ==
  ASSUME TypeInv, TypeInv', KeptInv, NEW p \in Actors, Open(p)
  PROVE  KeptInv'
<1> SUFFICES ASSUME ~lost' PROVE (Bounded /\ Rotating /\ Looked)'
  BY DEF KeptInv
<1>1. ~lost /\ Bounded /\ Rotating /\ Looked
  BY DEF Open, Goto, dbVars, schedVars, jobVars, lockVars, provVars, KeptInv,
     TypeInv, FlagTypes
<1>2. Bounded'
  BY <1>1, TokenAssumption DEF Open, Goto, dbVars, schedVars, jobVars,
     lockVars, provVars, Bounded, Older, Rotating, Carries, TypeInv,
     SharedTypes, PlaceTypes, MemoryTypes, Shape, Shaped, HasObj, HasFresh,
     Pcs, Gens, Accounts, Actors
<1>3. Rotating'
  <2>1. \A q \in Actors :
          q # p => pc'[q] = pc[q] /\ tok'[q] = tok[q] /\ obj'[q] = obj[q]
    BY DEF Open, Goto, TypeInv, PlaceTypes, MemoryTypes
  <2>2. ~Carries(p) /\ ~Carries(p)'
    BY DEF Open, Goto, Carries, TypeInv, PlaceTypes, Shape, Shaped
  <2>3. row' = row /\ valid' = valid
    BY DEF Open, dbVars, provVars
  <2>4. \A q \in Actors : q # p => (Carries(q)' <=> Carries(q))
    BY <2>1 DEF Carries
  <2> QED BY <1>1, <2>1, <2>2, <2>3, <2>4 DEF Rotating
<1>4. Looked'
  BY <1>1 DEF Open, Goto, dbVars, schedVars, jobVars, lockVars, provVars,
     Looked, TypeInv, PlaceTypes, MemoryTypes
<1> QED BY <1>2, <1>3, <1>4

LEMMA ManualRotateKept ==
  ASSUME TypeInv, TypeInv', KeptInv, NEW p \in Actors, ManualRotate(p)
  PROVE  KeptInv'
<1> SUFFICES ASSUME ~lost' PROVE (Bounded /\ Rotating /\ Looked)'
  BY DEF KeptInv
<1>1. ~lost /\ Bounded /\ Rotating /\ Looked
  BY SMTT(20) DEF ManualRotate, Goto, dbVars, schedVars, jobVars, memVars, KeptInv,
     TypeInv, FlagTypes
<1>2. Bounded'
  BY <1>1, TokenAssumption DEF ManualRotate, Goto, dbVars, schedVars, jobVars,
     memVars, Bounded, Older, Rotating, Carries, TypeInv, SharedTypes,
     PlaceTypes, MemoryTypes, Shape, Shaped, HasObj, HasFresh, Pcs, Gens,
     Accounts, Actors
<1>3. Rotating'
  BY <1>1, TokenAssumption DEF ManualRotate, Goto, dbVars, schedVars, jobVars,
     memVars, Rotating, Carries, Bounded, Older, TypeInv, PlaceTypes,
     MemoryTypes, SharedTypes, Shape, Shaped, HasObj, Pcs, Gens, Accounts
<1>4. Looked'
  <2>1. \A q \in Actors :
          /\ res'[q] = res[q] /\ fresh'[q] = fresh[q] /\ begin'[q] = begin[q]
          /\ q # p => pc'[q] = pc[q] /\ tok'[q] = tok[q]
    BY DEF ManualRotate, Goto, memVars, TypeInv, PlaceTypes, MemoryTypes
  <2>2. pc'[p] = "load"
    BY DEF ManualRotate, Goto, TypeInv, PlaceTypes
  <2>3. ASSUME NEW q \in Actors, pc[q] = "recover" PROVE fresh[q].gen \in Int
    BY <2>3, TokenAssumption DEF TypeInv, Shape, Shaped, HasFresh, Accounts,
       Gens
  <2>4. valid \in Int /\ valid' = valid + 1
    BY TokenAssumption DEF ManualRotate, TypeInv, SharedTypes, Gens
  <2> QED BY <1>1, <2>1, <2>2, <2>3, <2>4 DEF Looked
<1> QED BY <1>2, <1>3, <1>4

LEMMA ManualFailsKept ==
  ASSUME TypeInv, TypeInv', KeptInv, NEW p \in Actors, ManualFails(p)
  PROVE  KeptInv'
<1> SUFFICES ASSUME ~lost' PROVE (Bounded /\ Rotating /\ Looked)'
  BY DEF KeptInv
<1>1. ~lost /\ Bounded /\ Rotating /\ Looked
  BY DEF ManualFails, Works, Fails, End, Goto, schedVars, lockVars, KeptInv,
     TypeInv, FlagTypes
<1>2. Bounded'
  <2>1. Fewer
    BY EndFewer DEF ManualFails
  <2>2. row' = row /\ copy' = copy
    BY DEF ManualFails, schedVars
  <2>3. valid' = valid
    BY DEF ManualFails
  <2> QED BY <1>1, <2>1, <2>2, <2>3, FewerBounded DEF Bounded
<1>3. Rotating'
  BY <1>1 DEF ManualFails, Works, Fails, End, Goto, schedVars, lockVars,
     Rotating, Carries, TypeInv, PlaceTypes, MemoryTypes
<1>4. Looked'
  BY <1>1 DEF ManualFails, Works, Fails, End, Goto, schedVars, lockVars,
     Looked, TypeInv, PlaceTypes, MemoryTypes
<1> QED BY <1>2, <1>3, <1>4

LEMMA LoadKept ==
  ASSUME TypeInv, TypeInv', KeptInv, NEW p \in Actors, Load(p)
  PROVE  KeptInv'
<1> SUFFICES ASSUME ~lost' PROVE (Bounded /\ Rotating /\ Looked)'
  BY DEF KeptInv
<1>1. ~lost /\ Bounded /\ Rotating /\ Looked
  BY SMTT(20) DEF Load, Goto, dbVars, schedVars, jobVars, lockVars, provVars, KeptInv,
     TypeInv, FlagTypes
<1>2. Bounded'
  BY <1>1, TokenAssumption DEF Load, Goto, dbVars, schedVars, jobVars,
     lockVars, provVars, Bounded, Older, Rotating, Carries, TypeInv,
     SharedTypes, PlaceTypes, MemoryTypes, Shape, Shaped, HasObj, HasFresh,
     Pcs, Gens, Accounts, Actors
<1>3. Rotating'
  BY <1>1 DEF Load, Goto, dbVars, schedVars, jobVars, lockVars, provVars,
     Rotating, Carries, TypeInv, PlaceTypes, MemoryTypes
<1>4. Looked'
  BY <1>1 DEF Load, Goto, dbVars, schedVars, jobVars, lockVars, provVars,
     Looked, TypeInv, PlaceTypes, MemoryTypes
<1> QED BY <1>2, <1>3, <1>4

LEMMA InvalidateKept ==
  ASSUME TypeInv, TypeInv', KeptInv, NEW p \in Actors, Invalidate(p)
  PROVE  KeptInv'
<1> SUFFICES ASSUME ~lost' PROVE (Bounded /\ Rotating /\ Looked)'
  BY DEF KeptInv
<1>1. ~lost /\ Bounded /\ Rotating /\ Looked
  BY DEF Invalidate, Works, Fails, End, Goto, dbVars, schedVars, lockVars,
     provVars, KeptInv, TypeInv, FlagTypes
<1>2. Bounded'
  <2>1. Fewer
    BY EndFewer DEF Invalidate
  <2>2. row' = row /\ copy' = copy
    BY DEF Invalidate, dbVars, schedVars
  <2>3. valid' = valid
    BY DEF Invalidate, provVars
  <2> QED BY <1>1, <2>1, <2>2, <2>3, FewerBounded DEF Bounded
<1>3. Rotating'
  BY <1>1 DEF Invalidate, Works, Fails, End, Goto, dbVars, schedVars, lockVars,
     provVars, Rotating, Carries, TypeInv, PlaceTypes, MemoryTypes
<1>4. Looked'
  BY <1>1 DEF Invalidate, Works, Fails, End, Goto, dbVars, schedVars, lockVars,
     provVars, Looked, TypeInv, PlaceTypes, MemoryTypes
<1> QED BY <1>2, <1>3, <1>4

\* UpdateAccount writes the token of the row, or the new one it carries, and
\* the version of the row, or the token of the row is lost.
LEMMA EditedKeeps ==
  ASSUME TypeInv, Bounded, Rotating, NEW p \in Actors, pc[p] = "save", NEW f,
         ~(Edited(p, f).gen < row.gen)
  PROVE  /\ Edited(p, f).ver = row.ver
         /\ tok[p] = None => Edited(p, f).gen = row.gen
         /\ tok[p] # None => Edited(p, f).gen = valid /\ row.gen < valid
<1>1. /\ obj[p] \in Accounts /\ Edited(p, f).ver = obj[p].ver
      /\ Edited(p, f).gen = IF tok[p] = None THEN obj[p].gen ELSE tok[p]
  BY EditedAccount
<1>2. Older(obj[p])
  BY <1>1 DEF Bounded
<1>3. CASE tok[p] = None
  BY <1>1, <1>2, <1>3 DEF Older
<1>4. CASE tok[p] # None
  <2>1. tok[p] = valid /\ row.gen < valid /\ obj[p].gen = row.gen
    BY <1>4 DEF Rotating, Carries
  <2>2. obj[p].gen \in Int /\ row.gen \in Int
    BY <1>1, TokenAssumption DEF TypeInv, SharedTypes, Accounts, Gens
  <2> QED BY <1>1, <1>2, <1>4, <2>1, <2>2 DEF Older
<1> QED BY <1>3, <1>4

\* The row after it.
LEMMA Overwrites ==
  ASSUME TypeInv, TypeInv', Bounded, Rotating, NEW p \in Actors,
         pc[p] = "save", NEW f, row' = Edited(p, f), ~(row'.gen < row.gen),
         Fewer, valid' = valid, copy' = copy,
         \A q \in Actors : q # p => /\ pc'[q] = pc[q] /\ tok'[q] = tok[q]
                                   /\ obj'[q] = obj[q],
         pc'[p] \notin {"persist", "load", "save"}
  PROVE  (Bounded /\ Rotating)'
<1>1. /\ row'.ver = row.ver
      /\ tok[p] = None => row'.gen = row.gen
      /\ tok[p] # None => row'.gen = valid /\ row.gen < valid
  BY EditedKeeps
<1>2. row.gen \in Int /\ row.ver \in Nat /\ valid \in Int
  BY TokenAssumption DEF TypeInv, SharedTypes, Accounts, Gens
<1>3. ~Carries(p)'
  BY DEF Carries
<1>4. ASSUME NEW q \in Actors, q # p PROVE Carries(q)' <=> Carries(q)
  BY <1>4 DEF Carries
<1>5. Rotating'
  <2>1. CASE tok[p] = None
    <3>1. row'.gen = row.gen /\ ~Carries(p)
      BY <1>1, <2>1 DEF Carries
    <3> QED BY <1>3, <1>4, <3>1 DEF Rotating
  <2>2. CASE tok[p] # None
    <3>1. row'.gen = valid /\ Carries(p)
      BY <1>1, <2>2 DEF Carries
    <3>2. \A q \in Actors : ~Carries(q)'
      BY <1>3, <1>4, <3>1 DEF Rotating
    <3> QED BY <3>1, <3>2 DEF Rotating
  <2> QED BY <2>1, <2>2
<1>6. ASSUME NEW a \in Accounts, Older(a)
      PROVE  a.gen < row'.gen \/ (a.gen = row'.gen /\ a.ver = row'.ver)
  <2>1. a.gen \in Int
    BY TokenAssumption DEF Accounts, Gens
  <2> QED BY <1>1, <1>2, <1>6, <2>1 DEF Older
<1>7. row'.gen <= valid' /\ Older(copy)'
  <2>1. copy \in Accounts /\ Older(copy)
    BY DEF TypeInv, SharedTypes, Bounded
  <2> QED BY <1>1, <1>2, <1>6, <2>1 DEF Bounded, Older
<1>8. ASSUME NEW q \in Actors
      PROVE  /\ obj'[q] \in Accounts => Older(obj[q])'
             /\ fresh'[q] \in Accounts => Older(fresh[q])'
             /\ begin'[q] <= row'.ver
  <2>1. obj'[q] \in Accounts => Older(obj[q])'
    BY <1>6, TokenAssumption DEF Fewer, Bounded, Older
  <2>2. fresh'[q] \in Accounts => Older(fresh[q])'
    BY <1>6, TokenAssumption DEF Fewer, Bounded, Older
  <2>3. begin'[q] <= row'.ver
    BY <1>1, <1>2 DEF Fewer, Bounded
  <2> QED BY <2>1, <2>2, <2>3
<1>9. ASSUME NEW x \in Actors \cup Syncers, buf'[x] \in Accounts
      PROVE  Older(buf[x])'
  BY <1>6, <1>9, TokenAssumption DEF Fewer, Bounded, Older
<1> QED BY <1>5, <1>7, <1>8, <1>9 DEF Bounded

LEMMA SaveKept ==
  ASSUME TypeInv, TypeInv', KeptInv, NEW p \in Actors, Save(p)
  PROVE  KeptInv'
<1> SUFFICES ASSUME ~lost' PROVE (Bounded /\ Rotating /\ Looked)'
  BY DEF KeptInv
<1>1. ~lost /\ ~(row'.gen < row.gen) /\ Bounded /\ Rotating /\ Looked
  BY DEF Save, KeptInv, TypeInv, FlagTypes
<1>2. PICK f : row' = Edited(p, f)
  BY DEF Save
<1>3. /\ pc[p] = "save" /\ pc' = [pc EXCEPT ![p] = "sync"]
      /\ UNCHANGED <<obj, fresh, begin, tok, valid, copy, buf>>
      /\ res' \in {[res EXCEPT ![p] = "edited"], [res EXCEPT ![p] = "renewed"]}
  BY DEF Save, Goto, Return, memVars, provVars, jobVars
<1>4. (Bounded /\ Rotating)'
  <2>1. Fewer
    BY <1>3 DEF Fewer
  <2>2. /\ \A q \in Actors : q # p => pc'[q] = pc[q]
        /\ pc'[p] \notin {"persist", "load", "save"}
    BY <1>3 DEF TypeInv, PlaceTypes
  <2> QED BY <1>1, <1>2, <1>3, <2>1, <2>2, Overwrites
<1>5. Looked'
  BY <1>1, <1>3 DEF Looked, TypeInv, PlaceTypes
<1> QED BY <1>4, <1>5

LEMMA UpdateFailsKept ==
  ASSUME TypeInv, TypeInv', KeptInv, NEW p \in Actors, UpdateFails(p)
  PROVE  KeptInv'
<1> SUFFICES ASSUME ~lost' PROVE (Bounded /\ Rotating /\ Looked)'
  BY DEF KeptInv
<1>1. ~lost /\ Bounded /\ Rotating /\ Looked
  BY DEF UpdateFails, KeptInv, TypeInv, FlagTypes
<1>2. Fewer /\ valid' = valid /\ copy' = copy
  BY EndFewer DEF UpdateFails, provVars, schedVars
<1>3. \A q \in Actors :
        q # p => /\ pc'[q] = pc[q] /\ res'[q] = res[q] /\ tok'[q] = tok[q]
                 /\ fresh'[q] = fresh[q] /\ begin'[q] = begin[q]
                 /\ obj'[q] = obj[q]
  BY DEF UpdateFails, End, Goto, TypeInv, PlaceTypes, MemoryTypes
<1>4. pc[p] \in {"load", "save"} /\ pc'[p] \in {"done", "idle"}
  BY DEF UpdateFails, End, Goto, TypeInv, PlaceTypes
<1>5. Looked'
  BY <1>1, <1>2, <1>3, <1>4 DEF Looked
<1>6. CASE row' = row /\ lost' = (lost \/ tok[p] # None)
  <2>1. tok[p] = None
    BY <1>6 DEF TypeInv, FlagTypes
  <2>2. ~Carries(p) /\ ~Carries(p)'
    BY <1>4, <2>1 DEF Carries
  <2>3. \A q \in Actors : q # p => (Carries(q)' <=> Carries(q))
    BY <1>3 DEF Carries
  <2>4. Rotating'
    BY <1>1, <1>2, <1>3, <1>6, <2>2, <2>3 DEF Rotating
  <2>5. Bounded'
    BY <1>1, <1>2, <1>6, FewerBounded DEF Bounded
  <2> QED BY <1>5, <2>4, <2>5
<1>7. CASE /\ pc[p] = "save" /\ \E f \in Statuses(p) : row' = Edited(p, f)
           /\ lost' = (lost \/ row'.gen < row.gen)
  <2>1. PICK f : row' = Edited(p, f)
    BY <1>7
  <2>2. ~(row'.gen < row.gen)
    BY <1>7
  <2>3. (Bounded /\ Rotating)'
    BY <1>1, <1>2, <1>3, <1>4, <1>7, <2>1, <2>2, Overwrites
  <2> QED BY <1>5, <2>3
<1> QED BY <1>6, <1>7 DEF UpdateFails

LEMMA StepKept ==
  ASSUME TypeInv, TypeInv', KeptInv, NEW p \in Actors, Step(p)
  PROVE  KeptInv'
<1>1. CASE Lookup(p)
  BY <1>1, LookupKept
<1>2. CASE GiveUp(p)
  BY <1>2, GiveUpKept
<1>3. CASE Check(p)
  BY <1>3, CheckKept
<1>4. CASE Store(p)
  BY <1>4, StoreKept
<1>5. CASE Accepted(p)
  BY <1>5, AcceptedKept
<1>6. CASE Unauthorized(p)
  BY <1>6, UnauthorizedKept
<1>7. CASE ForceRefresh(p)
  BY <1>7, ForceRefreshKept
<1>8. CASE Lock(p)
  BY <1>8, LockKept
<1>9. CASE TakeLock(p)
  BY <1>9, TakeLockKept
<1>10. CASE LockHeld(p)
  BY <1>10, LockHeldKept
<1>11. CASE Degrade(p)
  BY <1>11, DegradeKept
<1>12. CASE Reread(p)
  BY <1>12, RereadKept
<1>13. CASE RereadFails(p)
  BY <1>13, RereadFailsKept
<1>14. CASE Rotate(p)
  BY <1>14, RotateKept
<1>15. CASE CallFails(p)
  BY <1>15, CallFailsKept
<1>16. CASE InvalidGrant(p)
  BY <1>16, InvalidGrantKept
<1>17. CASE Recover(p)
  BY <1>17, RecoverKept
<1>18. CASE Persist(p)
  BY <1>18, PersistingKept
<1>19. CASE PersistFails(p)
  BY <1>19, PersistingKept
<1>20. CASE Release(p)
  BY <1>20, ReleaseKept
<1>21. CASE Park(p)
  BY <1>21, ParkKept
<1>22. CASE Condemn(p)
  BY <1>22, CondemnKept
<1>23. CASE Sync(p)
  BY <1>23, SyncKept
<1>24. CASE Write(p)
  BY <1>24, WriteKept
<1>25. CASE Cycle(p)
  BY <1>25, CycleKept
<1>26. CASE Post(p)
  BY <1>26, PostKept
<1>27. CASE Drop(p)
  BY <1>27, DropKept
<1>28. CASE Publish(p)
  BY <1>28, PublishKept
<1>29. CASE ManualRotate(p)
  BY <1>29, ManualRotateKept
<1>30. CASE ManualFails(p)
  BY <1>30, ManualFailsKept
<1>31. CASE Load(p)
  BY <1>31, LoadKept
<1>32. CASE Save(p)
  BY <1>32, SaveKept
<1>33. CASE UpdateFails(p)
  BY <1>33, UpdateFailsKept
<1>34. CASE Invalidate(p)
  BY <1>34, InvalidateKept
<1> QED BY <1>1, <1>2, <1>3, <1>4, <1>5, <1>6, <1>7, <1>8, <1>9, <1>10, <1>11,
        <1>12, <1>13, <1>14, <1>15, <1>16, <1>17, <1>18, <1>19, <1>20, <1>21,
        <1>22, <1>23, <1>24, <1>25, <1>26, <1>27, <1>28, <1>29, <1>30, <1>31,
        <1>32, <1>33, <1>34 DEF Step

LEMMA NextKept ==
  ASSUME TypeInv, TypeInv', KeptInv, [Next]_vars
  PROVE  KeptInv'
<1>1. ASSUME NEW p \in Actors, Pick(p) \/ Open(p) PROVE KeptInv'
  BY <1>1, PickKept, OpenKept
<1>2. ASSUME NEW p \in Actors, Step(p) PROVE KeptInv'
  BY <1>2, StepKept
<1>3. ASSUME NEW s \in Syncers, SyncStep(s) PROVE KeptInv'
  BY <1>3, PollKept, ApplyEventKept, StartRebuildKept, PassOverKept,
     FallbackKept, SetSnapshotKept, SnapshotFailsKept DEF SyncStep
<1>4. ASSUME NEW d \in Procs, Crash(d) PROVE KeptInv'
  BY <1>4, CrashKept
<1>5. CASE BucketLockExpires
  BY <1>5, BucketLockExpiresKept
<1>6. CASE LockExpires
  BY <1>6, LockExpiresKept
<1>7. CASE CacheExpires
  BY <1>7, CacheExpiresKept
<1>8. CASE Age
  BY <1>8, AgeKept
<1>9. CASE Unpark
  BY <1>9, UnparkKept
<1>10. CASE UNCHANGED vars
  BY <1>10 DEF vars, dbVars, schedVars, jobVars, memVars, provVars, KeptInv,
     Bounded, Older, Rotating, Carries, Looked
<1> QED BY <1>1, <1>2, <1>3, <1>4, <1>5, <1>6, <1>7, <1>8, <1>9, <1>10 DEF Next

\* The inductive invariant of the rotated token, in every reachable state.
THEOREM KeptInvariant == Spec => []KeptInv
<1>1. Init => KeptInv
  <2> SUFFICES ASSUME Init PROVE Bounded /\ Rotating /\ Looked
    BY DEF KeptInv
  <2>1. Bounded
    BY TokenAssumption DEF Init, Bounded, Older, NewAccount
  <2>2. Rotating /\ Looked
    BY DEF Init, NewAccount, Rotating, Carries, Looked
  <2> QED BY <2>1, <2>2
<1>2. TypeInv /\ TypeInv' /\ KeptInv /\ [Next]_vars => KeptInv'
  BY NextKept
<1> QED BY <1>1, <1>2, TypesInvariant, PTL DEF Spec

\* The refresh token the provider accepts is stored, or with the refresh about
\* to store it, unless a call failed or a process died in between, or older
\* credentials were written back, by a forced refresh or an edit.
THEOREM RotatedTokenKept == Spec => []TokenKept
<1>1. TypeInv /\ KeptInv => TokenKept
  BY DEF KeptInv, Rotating, Carries, TokenKept, TypeInv, FlagTypes
<1> QED BY <1>1, TypesInvariant, KeptInvariant, PTL

\* A request that looked at the row (CheckTokenVersion) uses no token older than
\* the last one RefreshIfNeeded had stored when it began, refreshes by hand and
\* edits in the control plane included.
THEOREM ServedTokenCurrent == Spec => []ServedIsCurrent
<1>1. KeptInv => ServedIsCurrent
  BY DEF KeptInv, Looked, ServedIsCurrent, Actors
<1> QED BY <1>1, KeptInvariant, PTL

-----------------------------------------------------------------------------
(* The refresh lock *)

\* Between the acquisition of the refresh lock and its release.
InLock(p) ==
  \/ pc[p] \in {"reread", "call", "recover", "persist", "release"}
  \/ pc[p] \in {"sync", "write"} /\ res[p] = "refreshed"

Excluding ==
  /\ \A p \in Actors : InLock(p) => p \in held
  /\ held # {} => lock
  /\ \A p, q \in held : p = q
  /\ \A p \in Actors : pc[p] \in {"sync", "write"} =>
                         res[p] \in {"forced", "flagged", "refreshed", "edited",
                                    "renewed"}
  /\ \A p \in Actors : pc[p] \in {"load", "save"} => tok[p] = None

ExclInv == ~broken => Excluding

LEMMA PickExcl ==
  ASSUME TypeInv, ExclInv, NEW p \in Actors, Pick(p)
  PROVE  ExclInv'
BY DEF Pick, Goto, dbVars, schedVars, jobVars, lockVars, provVars, ExclInv,
   Excluding, InLock, TypeInv, SharedTypes, FlagTypes, PlaceTypes, MemoryTypes

LEMMA LookupExcl ==
  ASSUME TypeInv, ExclInv, NEW p \in Actors, Lookup(p)
  PROVE  ExclInv'
BY DEF Lookup, Works, Return, Goto, Fails, Needs, dbVars, schedVars, jobVars,
   lockVars, memVars, provVars, ExclInv, Excluding, InLock, TypeInv,
   SharedTypes, FlagTypes, PlaceTypes, MemoryTypes

LEMMA GiveUpExcl ==
  ASSUME TypeInv, ExclInv, NEW p \in Actors, GiveUp(p)
  PROVE  ExclInv'
BY DEF GiveUp, End, Goto, dbVars, schedVars, lockVars, provVars, ExclInv,
   Excluding, InLock, TypeInv, SharedTypes, FlagTypes, PlaceTypes, MemoryTypes

LEMMA CheckExcl ==
  ASSUME TypeInv, ExclInv, NEW p \in Actors, Check(p)
  PROVE  ExclInv'
BY DEF Check, Stale, Current, Works, Return, Goto, Fails, dbVars, schedVars,
   jobVars, lockVars, memVars, provVars, ExclInv, Excluding, InLock, TypeInv,
   SharedTypes, FlagTypes, PlaceTypes, MemoryTypes

LEMMA StoreExcl ==
  ASSUME TypeInv, ExclInv, NEW p \in Actors, Store(p)
  PROVE  ExclInv'
BY DEF Store, Works, Fails, Goto, dbVars, schedVars, jobVars, lockVars,
   memVars, provVars, ExclInv, Excluding, InLock, TypeInv, SharedTypes,
   FlagTypes, PlaceTypes, MemoryTypes

LEMMA AcceptedExcl ==
  ASSUME TypeInv, ExclInv, NEW p \in Actors, Accepted(p)
  PROVE  ExclInv'
BY DEF Accepted, End, Goto, dbVars, schedVars, lockVars, provVars, ExclInv,
   Excluding, InLock, TypeInv, SharedTypes, FlagTypes, PlaceTypes, MemoryTypes

LEMMA UnauthorizedExcl ==
  ASSUME TypeInv, ExclInv, NEW p \in Actors, Unauthorized(p)
  PROVE  ExclInv'
BY DEF Unauthorized, Works, Fails, Goto, dbVars, schedVars, jobVars, lockVars,
   memVars, provVars, ExclInv, Excluding, InLock, TypeInv, SharedTypes,
   FlagTypes, PlaceTypes, MemoryTypes

LEMMA ForceRefreshExcl ==
  ASSUME TypeInv, ExclInv, NEW p \in Actors, ForceRefresh(p)
  PROVE  ExclInv'
BY DEF ForceRefresh, Return, Goto, Works, Fails, dbVars, schedVars, jobVars,
   lockVars, provVars, ExclInv, Excluding, InLock, TypeInv, SharedTypes,
   FlagTypes, PlaceTypes, MemoryTypes

LEMMA LockExcl ==
  ASSUME TypeInv, ExclInv, NEW p \in Actors, Lock(p)
  PROVE  ExclInv'
BY DEF Lock, Inside, Goto, dbVars, schedVars, jobVars, lockVars, memVars,
   provVars, ExclInv, Excluding, InLock, TypeInv, SharedTypes, FlagTypes,
   PlaceTypes, MemoryTypes

LEMMA TakeLockExcl ==
  ASSUME TypeInv, ExclInv, NEW p \in Actors, TakeLock(p)
  PROVE  ExclInv'
BY DEF TakeLock, Goto, dbVars, schedVars, jobVars, memVars, provVars, ExclInv,
   Excluding, InLock, TypeInv, SharedTypes, FlagTypes, PlaceTypes, MemoryTypes

LEMMA LockHeldExcl ==
  ASSUME TypeInv, ExclInv, NEW p \in Actors, LockHeld(p)
  PROVE  ExclInv'
BY DEF LockHeld, Goto, memVars, jobVars, End, dbVars, schedVars, lockVars,
   provVars, ExclInv, Excluding, InLock, TypeInv, SharedTypes, FlagTypes,
   PlaceTypes, MemoryTypes

LEMMA DegradeExcl ==
  ASSUME TypeInv, ExclInv, NEW p \in Actors, Degrade(p)
  PROVE  ExclInv'
BY DEF Degrade, Fails, Goto, dbVars, schedVars, jobVars, memVars, provVars,
   ExclInv, Excluding, InLock, TypeInv, SharedTypes, FlagTypes, PlaceTypes,
   MemoryTypes

LEMMA RereadExcl ==
  ASSUME TypeInv, ExclInv, NEW p \in Actors, Reread(p)
  PROVE  ExclInv'
BY DEF Reread, Works, Inspect, Needs, Goto, Return, dbVars, schedVars, jobVars,
   lockVars, provVars, ExclInv, Excluding, InLock, TypeInv, SharedTypes,
   FlagTypes, PlaceTypes, MemoryTypes

LEMMA RereadFailsExcl ==
  ASSUME TypeInv, ExclInv, NEW p \in Actors, RereadFails(p)
  PROVE  ExclInv'
BY DEF RereadFails, Fails, Inspect, Needs, Goto, Return, dbVars, schedVars,
   jobVars, lockVars, provVars, ExclInv, Excluding, InLock, TypeInv,
   SharedTypes, FlagTypes, PlaceTypes, MemoryTypes

LEMMA RotateExcl ==
  ASSUME TypeInv, ExclInv, NEW p \in Actors, Rotate(p)
  PROVE  ExclInv'
BY DEF Rotate, Goto, dbVars, schedVars, jobVars, lockVars, memVars, ExclInv,
   Excluding, InLock, TypeInv, SharedTypes, FlagTypes, PlaceTypes, MemoryTypes

LEMMA CallFailsExcl ==
  ASSUME TypeInv, ExclInv, NEW p \in Actors, CallFails(p)
  PROVE  ExclInv'
BY DEF CallFails, Fails, Return, Goto, schedVars, jobVars, lockVars, memVars,
   ExclInv, Excluding, InLock, TypeInv, SharedTypes, FlagTypes, PlaceTypes,
   MemoryTypes

LEMMA InvalidGrantExcl ==
  ASSUME TypeInv, ExclInv, NEW p \in Actors, InvalidGrant(p)
  PROVE  ExclInv'
BY DEF InvalidGrant, Goto, dbVars, schedVars, jobVars, lockVars, memVars,
   provVars, ExclInv, Excluding, InLock, TypeInv, SharedTypes, FlagTypes,
   PlaceTypes, MemoryTypes

LEMMA RecoverExcl ==
  ASSUME TypeInv, ExclInv, NEW p \in Actors, Recover(p)
  PROVE  ExclInv'
BY DEF Recover, Works, Return, Fails, Goto, dbVars, schedVars, jobVars,
   lockVars, ExclInv, Excluding, InLock, TypeInv, SharedTypes, FlagTypes,
   PlaceTypes, MemoryTypes

LEMMA PersistExcl ==
  ASSUME TypeInv, ExclInv, NEW p \in Actors, Persist(p)
  PROVE  ExclInv'
BY DEF Persist, Adopt, Stored, Return, Goto, schedVars, jobVars, lockVars,
   provVars, ExclInv, Excluding, InLock, TypeInv, SharedTypes, FlagTypes,
   PlaceTypes, MemoryTypes

LEMMA PersistFailsExcl ==
  ASSUME TypeInv, ExclInv, NEW p \in Actors, PersistFails(p)
  PROVE  ExclInv'
BY DEF PersistFails, Fails, Adopt, Stored, Return, Goto, schedVars, jobVars,
   lockVars, provVars, ExclInv, Excluding, InLock, TypeInv, SharedTypes,
   FlagTypes, PlaceTypes, MemoryTypes

LEMMA ReleaseExcl ==
  ASSUME TypeInv, ExclInv, NEW p \in Actors, Release(p)
  PROVE  ExclInv'
BY DEF Release, Unlock, Works, Fails, Goto, memVars, jobVars, End, MayRetry,
   Return, dbVars, schedVars, provVars, ExclInv, Excluding, InLock, TypeInv,
   SharedTypes, FlagTypes, PlaceTypes, MemoryTypes

LEMMA ParkExcl ==
  ASSUME TypeInv, ExclInv, NEW p \in Actors, Park(p)
  PROVE  ExclInv'
BY DEF Park, Flag, Enqueue, Works, Fails, Return, Goto, memVars, jobVars, End,
   lockVars, provVars, ExclInv, Excluding, InLock, TypeInv, SharedTypes,
   FlagTypes, PlaceTypes, MemoryTypes

LEMMA CondemnExcl ==
  ASSUME TypeInv, ExclInv, NEW p \in Actors, Condemn(p)
  PROVE  ExclInv'
BY DEF Condemn, Flag, Enqueue, Works, Fails, Return, Goto, memVars, jobVars,
   End, lockVars, provVars, ExclInv, Excluding, InLock, TypeInv, SharedTypes,
   FlagTypes, PlaceTypes, MemoryTypes

LEMMA SyncExcl ==
  ASSUME TypeInv, ExclInv, NEW p \in Actors, Sync(p)
  PROVE  ExclInv'
BY DEF Sync, Goto, dbVars, schedVars, lockVars, memVars, provVars, ExclInv,
   Excluding, InLock, TypeInv, SharedTypes, FlagTypes, PlaceTypes, MemoryTypes

LEMMA WriteExcl ==
  ASSUME TypeInv, ExclInv, NEW p \in Actors, Write(p)
  PROVE  ExclInv'
BY DEF Write, Works, Fails, End, Goto, memVars, dbVars, lockVars, provVars,
   ExclInv, Excluding, InLock, TypeInv, SharedTypes, FlagTypes, PlaceTypes,
   MemoryTypes

LEMMA CycleExcl ==
  ASSUME TypeInv, ExclInv, NEW p \in Actors, Cycle(p)
  PROVE  ExclInv'
BY DEF Cycle, Needs, Goto, dbVars, schedVars, jobVars, lockVars, provVars,
   ExclInv, Excluding, InLock, TypeInv, SharedTypes, FlagTypes, PlaceTypes,
   MemoryTypes

LEMMA PostExcl ==
  ASSUME TypeInv, ExclInv, NEW p \in Actors, Post(p)
  PROVE  ExclInv'
BY DEF Post, Enqueue, Works, Fails, Goto, jobVars, lockVars, memVars, provVars,
   ExclInv, Excluding, InLock, TypeInv, SharedTypes, FlagTypes, PlaceTypes,
   MemoryTypes

LEMMA DropExcl ==
  ASSUME TypeInv, ExclInv, NEW p \in Actors, Drop(p)
  PROVE  ExclInv'
BY DEF Drop, Works, Fails, Goto, dbVars, schedVars, jobVars, lockVars, memVars,
   provVars, ExclInv, Excluding, InLock, TypeInv, SharedTypes, FlagTypes,
   PlaceTypes, MemoryTypes

LEMMA PublishExcl ==
  ASSUME TypeInv, ExclInv, NEW p \in Actors, Publish(p)
  PROVE  ExclInv'
BY DEF Publish, Works, Fails, End, Goto, dbVars, lockVars, provVars, ExclInv,
   Excluding, InLock, TypeInv, SharedTypes, FlagTypes, PlaceTypes, MemoryTypes

LEMMA PollExcl ==
  ASSUME TypeInv, ExclInv, NEW s \in Syncers, Poll(s)
  PROVE  ExclInv'
BY DEF Poll, dbVars, lockVars, memVars, provVars, ExclInv, Excluding, InLock,
   TypeInv, SharedTypes, FlagTypes, PlaceTypes, MemoryTypes

LEMMA ApplyEventExcl ==
  ASSUME TypeInv, ExclInv, NEW s \in Syncers, ApplyEvent(s)
  PROVE  ExclInv'
BY DEF ApplyEvent, Works, Fails, dbVars, lockVars, memVars, provVars, ExclInv,
   Excluding, InLock, TypeInv, SharedTypes, FlagTypes, PlaceTypes, MemoryTypes

LEMMA StartRebuildExcl ==
  ASSUME TypeInv, ExclInv, NEW s \in Syncers, StartRebuild(s)
  PROVE  ExclInv'
BY DEF StartRebuild, dbVars, lockVars, memVars, provVars, ExclInv, Excluding,
   InLock, TypeInv, SharedTypes, FlagTypes, PlaceTypes, MemoryTypes

LEMMA PassOverExcl ==
  ASSUME TypeInv, ExclInv, NEW s \in Syncers, PassOver(s)
  PROVE  ExclInv'
BY DEF PassOver, Advance, Works, Fails, dbVars, lockVars, memVars, provVars,
   ExclInv, Excluding, InLock, TypeInv, SharedTypes, FlagTypes, PlaceTypes,
   MemoryTypes

LEMMA FallbackExcl ==
  ASSUME TypeInv, ExclInv, NEW s \in Syncers, Fallback(s)
  PROVE  ExclInv'
BY DEF Fallback, dbVars, schedVars, lockVars, memVars, provVars, ExclInv,
   Excluding, InLock, TypeInv, SharedTypes, FlagTypes, PlaceTypes, MemoryTypes

LEMMA SetSnapshotExcl ==
  ASSUME TypeInv, ExclInv, NEW s \in Syncers, SetSnapshot(s)
  PROVE  ExclInv'
BY DEF SetSnapshot, Advance, Works, Fails, dbVars, lockVars, memVars, provVars,
   ExclInv, Excluding, InLock, TypeInv, SharedTypes, FlagTypes, PlaceTypes,
   MemoryTypes

LEMMA SnapshotFailsExcl ==
  ASSUME TypeInv, ExclInv, NEW s \in Syncers, SnapshotFails(s)
  PROVE  ExclInv'
BY DEF SnapshotFails, Fails, dbVars, lockVars, memVars, provVars, ExclInv,
   Excluding, InLock, TypeInv, SharedTypes, FlagTypes, PlaceTypes, MemoryTypes

LEMMA BucketLockExpiresExcl ==
  ASSUME TypeInv, ExclInv, BucketLockExpires
  PROVE  ExclInv'
BY DEF BucketLockExpires, dbVars, jobVars, lockVars, memVars, provVars,
   ExclInv, Excluding, InLock, TypeInv, SharedTypes, FlagTypes, PlaceTypes,
   MemoryTypes

LEMMA LockExpiresExcl ==
  ASSUME TypeInv, ExclInv, LockExpires
  PROVE  ExclInv'
BY DEF LockExpires, dbVars, schedVars, jobVars, memVars, provVars, ExclInv,
   Excluding, InLock, TypeInv, SharedTypes, FlagTypes, PlaceTypes, MemoryTypes

LEMMA CacheExpiresExcl ==
  ASSUME TypeInv, ExclInv, CacheExpires
  PROVE  ExclInv'
BY DEF CacheExpires, dbVars, schedVars, jobVars, lockVars, memVars, provVars,
   ExclInv, Excluding, InLock, TypeInv, SharedTypes, FlagTypes, PlaceTypes,
   MemoryTypes

LEMMA AgeExcl ==
  ASSUME TypeInv, ExclInv, Age
  PROVE  ExclInv'
BY DEF Age, dbVars, schedVars, jobVars, lockVars, memVars, ExclInv, Excluding,
   InLock, TypeInv, SharedTypes, FlagTypes, PlaceTypes, MemoryTypes

LEMMA UnparkExcl ==
  ASSUME TypeInv, ExclInv, Unpark
  PROVE  ExclInv'
BY DEF Unpark, lockVars, provVars, ExclInv, Excluding, InLock, TypeInv,
   SharedTypes, FlagTypes, PlaceTypes, MemoryTypes

LEMMA CrashExcl ==
  ASSUME TypeInv, ExclInv, NEW d \in Procs, Crash(d)
  PROVE  ExclInv'
BY DEF Crash, Fails, schedVars, ExclInv, Excluding, InLock, TypeInv,
   SharedTypes, FlagTypes, PlaceTypes, MemoryTypes

LEMMA OpenExcl ==
  ASSUME TypeInv, ExclInv, NEW p \in Actors, Open(p)
  PROVE  ExclInv'
BY TokenAssumption DEF Open, Goto, dbVars, schedVars, jobVars, lockVars,
   provVars, ExclInv, Excluding, InLock, TypeInv, SharedTypes, FlagTypes,
   PlaceTypes, Shape, Shaped, MemoryTypes

LEMMA ManualRotateExcl ==
  ASSUME TypeInv, ExclInv, NEW p \in Actors, ManualRotate(p)
  PROVE  ExclInv'
BY DEF ManualRotate, Goto, dbVars, schedVars, jobVars, memVars, ExclInv,
   Excluding, InLock, TypeInv, SharedTypes, FlagTypes, PlaceTypes, MemoryTypes

LEMMA ManualFailsExcl ==
  ASSUME TypeInv, ExclInv, NEW p \in Actors, ManualFails(p)
  PROVE  ExclInv'
BY DEF ManualFails, Works, Fails, End, Goto, schedVars, lockVars, ExclInv,
   Excluding, InLock, TypeInv, SharedTypes, FlagTypes, PlaceTypes, MemoryTypes

LEMMA LoadExcl ==
  ASSUME TypeInv, ExclInv, NEW p \in Actors, Load(p)
  PROVE  ExclInv'
BY DEF Load, Goto, dbVars, schedVars, jobVars, lockVars, provVars, ExclInv,
   Excluding, InLock, TypeInv, SharedTypes, FlagTypes, PlaceTypes, MemoryTypes

LEMMA SaveExcl ==
  ASSUME TypeInv, ExclInv, NEW p \in Actors, Save(p)
  PROVE  ExclInv'
BY DEF Save, Enqueue, Works, Fails, Return, Goto, jobVars, lockVars, memVars,
   provVars, ExclInv, Excluding, InLock, TypeInv, SharedTypes, FlagTypes,
   PlaceTypes, MemoryTypes

LEMMA UpdateFailsExcl ==
  ASSUME TypeInv, ExclInv, NEW p \in Actors, UpdateFails(p)
  PROVE  ExclInv'
BY DEF UpdateFails, Fails, End, Goto, schedVars, lockVars, provVars, ExclInv,
   Excluding, InLock, TypeInv, SharedTypes, FlagTypes, PlaceTypes, MemoryTypes

LEMMA InvalidateExcl ==
  ASSUME TypeInv, ExclInv, NEW p \in Actors, Invalidate(p)
  PROVE  ExclInv'
BY DEF Invalidate, Works, Fails, End, Goto, dbVars, schedVars, lockVars,
   provVars, ExclInv, Excluding, InLock, TypeInv, SharedTypes, FlagTypes,
   PlaceTypes, MemoryTypes

LEMMA StepExcl ==
  ASSUME TypeInv, ExclInv, NEW p \in Actors, Step(p)
  PROVE  ExclInv'
<1>1. CASE Lookup(p)
  BY <1>1, LookupExcl
<1>2. CASE GiveUp(p)
  BY <1>2, GiveUpExcl
<1>3. CASE Check(p)
  BY <1>3, CheckExcl
<1>4. CASE Store(p)
  BY <1>4, StoreExcl
<1>5. CASE Accepted(p)
  BY <1>5, AcceptedExcl
<1>6. CASE Unauthorized(p)
  BY <1>6, UnauthorizedExcl
<1>7. CASE ForceRefresh(p)
  BY <1>7, ForceRefreshExcl
<1>8. CASE Lock(p)
  BY <1>8, LockExcl
<1>9. CASE TakeLock(p)
  BY <1>9, TakeLockExcl
<1>10. CASE LockHeld(p)
  BY <1>10, LockHeldExcl
<1>11. CASE Degrade(p)
  BY <1>11, DegradeExcl
<1>12. CASE Reread(p)
  BY <1>12, RereadExcl
<1>13. CASE RereadFails(p)
  BY <1>13, RereadFailsExcl
<1>14. CASE Rotate(p)
  BY <1>14, RotateExcl
<1>15. CASE CallFails(p)
  BY <1>15, CallFailsExcl
<1>16. CASE InvalidGrant(p)
  BY <1>16, InvalidGrantExcl
<1>17. CASE Recover(p)
  BY <1>17, RecoverExcl
<1>18. CASE Persist(p)
  BY <1>18, PersistExcl
<1>19. CASE PersistFails(p)
  BY <1>19, PersistFailsExcl
<1>20. CASE Release(p)
  BY <1>20, ReleaseExcl
<1>21. CASE Park(p)
  BY <1>21, ParkExcl
<1>22. CASE Condemn(p)
  BY <1>22, CondemnExcl
<1>23. CASE Sync(p)
  BY <1>23, SyncExcl
<1>24. CASE Write(p)
  BY <1>24, WriteExcl
<1>25. CASE Cycle(p)
  BY <1>25, CycleExcl
<1>26. CASE Post(p)
  BY <1>26, PostExcl
<1>27. CASE Drop(p)
  BY <1>27, DropExcl
<1>28. CASE Publish(p)
  BY <1>28, PublishExcl
<1>29. CASE ManualRotate(p)
  BY <1>29, ManualRotateExcl
<1>30. CASE ManualFails(p)
  BY <1>30, ManualFailsExcl
<1>31. CASE Load(p)
  BY <1>31, LoadExcl
<1>32. CASE Save(p)
  BY <1>32, SaveExcl
<1>33. CASE UpdateFails(p)
  BY <1>33, UpdateFailsExcl
<1>34. CASE Invalidate(p)
  BY <1>34, InvalidateExcl
<1> QED BY <1>1, <1>2, <1>3, <1>4, <1>5, <1>6, <1>7, <1>8, <1>9, <1>10, <1>11,
        <1>12, <1>13, <1>14, <1>15, <1>16, <1>17, <1>18, <1>19, <1>20, <1>21,
        <1>22, <1>23, <1>24, <1>25, <1>26, <1>27, <1>28, <1>29, <1>30, <1>31,
        <1>32, <1>33, <1>34 DEF Step

LEMMA NextExcl ==
  ASSUME TypeInv, ExclInv, [Next]_vars
  PROVE  ExclInv'
<1>1. ASSUME NEW p \in Actors, Pick(p) \/ Open(p) PROVE ExclInv'
  BY <1>1, PickExcl, OpenExcl
<1>2. ASSUME NEW p \in Actors, Step(p) PROVE ExclInv'
  BY <1>2, StepExcl
<1>3. ASSUME NEW s \in Syncers, SyncStep(s) PROVE ExclInv'
  BY <1>3, PollExcl, ApplyEventExcl, StartRebuildExcl, PassOverExcl,
     FallbackExcl, SetSnapshotExcl, SnapshotFailsExcl DEF SyncStep
<1>4. ASSUME NEW d \in Procs, Crash(d) PROVE ExclInv'
  BY <1>4, CrashExcl
<1>5. CASE BucketLockExpires
  BY <1>5, BucketLockExpiresExcl
<1>6. CASE LockExpires
  BY <1>6, LockExpiresExcl
<1>7. CASE CacheExpires
  BY <1>7, CacheExpiresExcl
<1>8. CASE Age
  BY <1>8, AgeExcl
<1>9. CASE Unpark
  BY <1>9, UnparkExcl
<1>10. CASE UNCHANGED vars
  BY <1>10 DEF vars, lockVars, ExclInv, Excluding, InLock
<1> QED BY <1>1, <1>2, <1>3, <1>4, <1>5, <1>6, <1>7, <1>8, <1>9, <1>10 DEF Next

\* Until it expires under its holder, Redis fails or an administrator refreshes
\* without it, the refresh lock has one holder, and only the holder refreshes.
THEOREM RefreshesExclude == Spec => []ExclInv
<1>1. Init => ExclInv
  BY DEF Init, ExclInv, Excluding, InLock
<1>2. TypeInv /\ ExclInv /\ [Next]_vars => ExclInv'
  BY NextExcl
<1> QED BY <1>1, <1>2, TypesInvariant, PTL DEF Spec

-----------------------------------------------------------------------------
(* The account is not given up *)

Unblamed ==
  /\ \A p \in Actors :
       /\ res[p] # "grant" /\ pc[p] # "condemn"
       /\ pc[p] \in {"load", "save"} => "error" \notin obj[p].flags
       /\ pc[p] = "save" => "error" \notin fresh[p].flags
  /\ "error" \notin row.flags

BlameInv == ~lost /\ ~broken /\ ~blind => Unblamed

LEMMA PickBlame ==
  ASSUME TypeInv, BlameInv, NEW p \in Actors, Pick(p)
  PROVE  BlameInv'
BY DEF Pick, Goto, dbVars, schedVars, jobVars, lockVars, provVars, BlameInv,
   Unblamed, TypeInv, SharedTypes, FlagTypes, PlaceTypes, MemoryTypes, Accounts

LEMMA LookupBlame ==
  ASSUME TypeInv, BlameInv, NEW p \in Actors, Lookup(p)
  PROVE  BlameInv'
BY DEF Lookup, Works, Return, Goto, Fails, Needs, dbVars, schedVars, jobVars,
   lockVars, memVars, provVars, BlameInv, Unblamed, TypeInv, SharedTypes,
   FlagTypes, PlaceTypes, MemoryTypes, Accounts

LEMMA GiveUpBlame ==
  ASSUME TypeInv, BlameInv, NEW p \in Actors, GiveUp(p)
  PROVE  BlameInv'
BY DEF GiveUp, End, Goto, dbVars, schedVars, lockVars, provVars, BlameInv,
   Unblamed, TypeInv, SharedTypes, FlagTypes, PlaceTypes, MemoryTypes, Accounts

LEMMA CheckBlame ==
  ASSUME TypeInv, BlameInv, NEW p \in Actors, Check(p)
  PROVE  BlameInv'
BY DEF Check, Stale, Current, Works, Return, Goto, Fails, dbVars, schedVars,
   jobVars, lockVars, memVars, provVars, BlameInv, Unblamed, TypeInv,
   SharedTypes, FlagTypes, PlaceTypes, MemoryTypes, Accounts

LEMMA StoreBlame ==
  ASSUME TypeInv, BlameInv, NEW p \in Actors, Store(p)
  PROVE  BlameInv'
BY DEF Store, Works, Fails, Goto, dbVars, schedVars, jobVars, lockVars,
   memVars, provVars, BlameInv, Unblamed, TypeInv, SharedTypes, FlagTypes,
   PlaceTypes, MemoryTypes, Accounts

LEMMA AcceptedBlame ==
  ASSUME TypeInv, BlameInv, NEW p \in Actors, Accepted(p)
  PROVE  BlameInv'
BY DEF Accepted, End, Goto, dbVars, schedVars, lockVars, provVars, BlameInv,
   Unblamed, TypeInv, SharedTypes, FlagTypes, PlaceTypes, MemoryTypes, Accounts

LEMMA UnauthorizedBlame ==
  ASSUME TypeInv, BlameInv, NEW p \in Actors, Unauthorized(p)
  PROVE  BlameInv'
BY DEF Unauthorized, Works, Fails, Goto, dbVars, schedVars, jobVars, lockVars,
   memVars, provVars, BlameInv, Unblamed, TypeInv, SharedTypes, FlagTypes,
   PlaceTypes, MemoryTypes, Accounts

LEMMA ForceRefreshBlame ==
  ASSUME TypeInv, BlameInv, NEW p \in Actors, ForceRefresh(p)
  PROVE  BlameInv'
<1>1. row'.flags = row.flags
  BY DEF ForceRefresh, dbVars, TypeInv, SharedTypes, Accounts
<1>2. pc'[p] \in {"sync", "park"}
  BY DEF ForceRefresh, Goto, TypeInv, PlaceTypes
<1>3. \A q \in Actors : q # p => pc'[q] = pc[q] /\ obj'[q] = obj[q]
  BY DEF ForceRefresh, Goto, TypeInv, PlaceTypes, MemoryTypes
<1>4. \A q \in Actors : fresh'[q] = fresh[q] /\ res'[q] \in {res[q], "forced"}
  BY DEF ForceRefresh, Return, TypeInv, PlaceTypes
<1>5. (lost' \/ ~lost) /\ UNCHANGED <<broken, blind>>
  BY DEF ForceRefresh, dbVars, lockVars, provVars, TypeInv, FlagTypes
<1> QED BY <1>1, <1>2, <1>3, <1>4, <1>5 DEF BlameInv, Unblamed

LEMMA LockBlame ==
  ASSUME TypeInv, BlameInv, NEW p \in Actors, Lock(p)
  PROVE  BlameInv'
BY DEF Lock, Inside, Goto, dbVars, schedVars, jobVars, lockVars, memVars,
   provVars, BlameInv, Unblamed, TypeInv, SharedTypes, FlagTypes, PlaceTypes,
   MemoryTypes, Accounts

LEMMA TakeLockBlame ==
  ASSUME TypeInv, BlameInv, NEW p \in Actors, TakeLock(p)
  PROVE  BlameInv'
BY DEF TakeLock, Goto, dbVars, schedVars, jobVars, memVars, provVars, BlameInv,
   Unblamed, TypeInv, SharedTypes, FlagTypes, PlaceTypes, MemoryTypes, Accounts

LEMMA LockHeldBlame ==
  ASSUME TypeInv, BlameInv, NEW p \in Actors, LockHeld(p)
  PROVE  BlameInv'
BY DEF LockHeld, Goto, memVars, jobVars, End, dbVars, schedVars, lockVars,
   provVars, BlameInv, Unblamed, TypeInv, SharedTypes, FlagTypes, PlaceTypes,
   MemoryTypes, Accounts

LEMMA DegradeBlame ==
  ASSUME TypeInv, BlameInv, NEW p \in Actors, Degrade(p)
  PROVE  BlameInv'
BY DEF Degrade, Fails, Goto, dbVars, schedVars, jobVars, memVars, provVars,
   BlameInv, Unblamed, TypeInv, SharedTypes, FlagTypes, PlaceTypes,
   MemoryTypes, Accounts

LEMMA RereadBlame ==
  ASSUME TypeInv, BlameInv, NEW p \in Actors, Reread(p)
  PROVE  BlameInv'
BY DEF Reread, Works, Inspect, Needs, Goto, Return, dbVars, schedVars, jobVars,
   lockVars, provVars, BlameInv, Unblamed, TypeInv, SharedTypes, FlagTypes,
   PlaceTypes, MemoryTypes, Accounts

LEMMA RereadFailsBlame ==
  ASSUME TypeInv, BlameInv, NEW p \in Actors, RereadFails(p)
  PROVE  BlameInv'
BY DEF RereadFails, Fails, Inspect, Needs, Goto, Return, dbVars, schedVars,
   jobVars, lockVars, provVars, BlameInv, Unblamed, TypeInv, SharedTypes,
   FlagTypes, PlaceTypes, MemoryTypes, Accounts

LEMMA RotateBlame ==
  ASSUME TypeInv, BlameInv, NEW p \in Actors, Rotate(p)
  PROVE  BlameInv'
BY DEF Rotate, Goto, dbVars, schedVars, jobVars, lockVars, memVars, BlameInv,
   Unblamed, TypeInv, SharedTypes, FlagTypes, PlaceTypes, MemoryTypes, Accounts

LEMMA CallFailsBlame ==
  ASSUME TypeInv, BlameInv, NEW p \in Actors, CallFails(p)
  PROVE  BlameInv'
BY DEF CallFails, Fails, Return, Goto, schedVars, jobVars, lockVars, memVars,
   BlameInv, Unblamed, TypeInv, SharedTypes, FlagTypes, PlaceTypes,
   MemoryTypes, Accounts

LEMMA InvalidGrantBlame ==
  ASSUME TypeInv, BlameInv, NEW p \in Actors, InvalidGrant(p)
  PROVE  BlameInv'
BY DEF InvalidGrant, Goto, dbVars, schedVars, jobVars, lockVars, memVars,
   provVars, BlameInv, Unblamed, TypeInv, SharedTypes, FlagTypes, PlaceTypes,
   MemoryTypes, Accounts

LEMMA RecoverBlame ==
  ASSUME TypeInv, KeptInv, ExclInv, BlameInv, NEW p \in Actors, Recover(p)
  PROVE  BlameInv'
<1> SUFFICES ASSUME ~lost, ~broken, ~blind, ~blind' PROVE Unblamed'
  BY DEF BlameInv, Recover, dbVars, lockVars, TypeInv, FlagTypes
<1>1. Bounded /\ Rotating /\ Looked /\ Excluding /\ Unblamed
  BY DEF KeptInv, ExclInv, BlameInv
<1>2. row.gen # fresh[p].gen
  <2>1. SUFFICES ASSUME row.gen = fresh[p].gen PROVE FALSE
    OBVIOUS
  <2>2. row.gen # valid
    BY <1>1, <2>1, TokenAssumption DEF Recover, Looked, TypeInv, SharedTypes,
       Accounts, Gens
  <2>3. PICK q \in Actors : pc[q] = "persist"
    BY <1>1, <2>2 DEF Rotating, Carries, Excluding
  <2>4. p \in held /\ q \in held
    BY <1>1, <2>3 DEF Recover, Excluding, InLock
  <2> QED BY <1>1, <2>3, <2>4 DEF Recover, Excluding
<1> QED BY <1>1, <1>2 DEF Recover, Goto, Return, Unblamed, dbVars, TypeInv,
        PlaceTypes, MemoryTypes

LEMMA PersistBlame ==
  ASSUME TypeInv, BlameInv, NEW p \in Actors, Persist(p)
  PROVE  BlameInv'
BY DEF Persist, Adopt, Stored, Return, Goto, schedVars, jobVars, lockVars,
   provVars, BlameInv, Unblamed, TypeInv, SharedTypes, FlagTypes, PlaceTypes,
   MemoryTypes, Accounts

LEMMA PersistFailsBlame ==
  ASSUME TypeInv, BlameInv, NEW p \in Actors, PersistFails(p)
  PROVE  BlameInv'
<1>1. row'.flags = row.flags
  BY AdoptTypes DEF PersistFails
<1>2. pc'[p] = "release" /\ res'[p] = "error"
  BY DEF PersistFails, Goto, Return, TypeInv, PlaceTypes
<1>3. \A q \in Actors :
        q # p => /\ pc'[q] = pc[q] /\ res'[q] = res[q]
                 /\ obj'[q] = obj[q] /\ fresh'[q] = fresh[q]
  BY DEF PersistFails, Adopt, Goto, Return, TypeInv, PlaceTypes, MemoryTypes
<1>4. (lost' \/ ~lost) /\ UNCHANGED <<broken, blind>>
  BY DEF PersistFails, lockVars, provVars, TypeInv, FlagTypes
<1> QED BY <1>1, <1>2, <1>3, <1>4 DEF BlameInv, Unblamed

LEMMA ReleaseBlame ==
  ASSUME TypeInv, BlameInv, NEW p \in Actors, Release(p)
  PROVE  BlameInv'
BY DEF Release, Unlock, Works, Fails, Goto, memVars, jobVars, End, MayRetry,
   Return, dbVars, schedVars, provVars, BlameInv, Unblamed, TypeInv,
   SharedTypes, FlagTypes, PlaceTypes, MemoryTypes, Accounts

LEMMA ParkBlame ==
  ASSUME TypeInv, BlameInv, NEW p \in Actors, Park(p)
  PROVE  BlameInv'
BY DEF Park, Flag, Enqueue, Works, Fails, Return, Goto, memVars, jobVars, End,
   lockVars, provVars, BlameInv, Unblamed, TypeInv, SharedTypes, FlagTypes,
   PlaceTypes, MemoryTypes, Accounts

LEMMA CondemnBlame ==
  ASSUME TypeInv, BlameInv, NEW p \in Actors, Condemn(p)
  PROVE  BlameInv'
BY DEF Condemn, Flag, Enqueue, Works, Fails, Return, Goto, memVars, jobVars,
   End, lockVars, provVars, BlameInv, Unblamed, TypeInv, SharedTypes,
   FlagTypes, PlaceTypes, MemoryTypes, Accounts

LEMMA SyncBlame ==
  ASSUME TypeInv, BlameInv, NEW p \in Actors, Sync(p)
  PROVE  BlameInv'
BY DEF Sync, Goto, dbVars, schedVars, lockVars, memVars, provVars, BlameInv,
   Unblamed, TypeInv, SharedTypes, FlagTypes, PlaceTypes, MemoryTypes, Accounts

LEMMA WriteBlame ==
  ASSUME TypeInv, BlameInv, NEW p \in Actors, Write(p)
  PROVE  BlameInv'
BY DEF Write, Works, Fails, End, Goto, memVars, dbVars, lockVars, provVars,
   BlameInv, Unblamed, TypeInv, SharedTypes, FlagTypes, PlaceTypes,
   MemoryTypes, Accounts

LEMMA CycleBlame ==
  ASSUME TypeInv, BlameInv, NEW p \in Actors, Cycle(p)
  PROVE  BlameInv'
BY DEF Cycle, Needs, Goto, dbVars, schedVars, jobVars, lockVars, provVars,
   BlameInv, Unblamed, TypeInv, SharedTypes, FlagTypes, PlaceTypes,
   MemoryTypes, Accounts

LEMMA PostBlame ==
  ASSUME TypeInv, BlameInv, NEW p \in Actors, Post(p)
  PROVE  BlameInv'
BY DEF Post, Enqueue, Works, Fails, Goto, jobVars, lockVars, memVars, provVars,
   BlameInv, Unblamed, TypeInv, SharedTypes, FlagTypes, PlaceTypes,
   MemoryTypes, Accounts

LEMMA DropBlame ==
  ASSUME TypeInv, BlameInv, NEW p \in Actors, Drop(p)
  PROVE  BlameInv'
BY DEF Drop, Works, Fails, Goto, dbVars, schedVars, jobVars, lockVars, memVars,
   provVars, BlameInv, Unblamed, TypeInv, SharedTypes, FlagTypes, PlaceTypes,
   MemoryTypes, Accounts

LEMMA PublishBlame ==
  ASSUME TypeInv, BlameInv, NEW p \in Actors, Publish(p)
  PROVE  BlameInv'
BY DEF Publish, Works, Fails, End, Goto, dbVars, lockVars, provVars, BlameInv,
   Unblamed, TypeInv, SharedTypes, FlagTypes, PlaceTypes, MemoryTypes, Accounts

LEMMA PollBlame ==
  ASSUME TypeInv, BlameInv, NEW s \in Syncers, Poll(s)
  PROVE  BlameInv'
BY DEF Poll, dbVars, lockVars, memVars, provVars, BlameInv, Unblamed, TypeInv,
   SharedTypes, FlagTypes, PlaceTypes, MemoryTypes, Accounts

LEMMA ApplyEventBlame ==
  ASSUME TypeInv, BlameInv, NEW s \in Syncers, ApplyEvent(s)
  PROVE  BlameInv'
BY DEF ApplyEvent, Works, Fails, dbVars, lockVars, memVars, provVars, BlameInv,
   Unblamed, TypeInv, SharedTypes, FlagTypes, PlaceTypes, MemoryTypes, Accounts

LEMMA StartRebuildBlame ==
  ASSUME TypeInv, BlameInv, NEW s \in Syncers, StartRebuild(s)
  PROVE  BlameInv'
BY DEF StartRebuild, dbVars, lockVars, memVars, provVars, BlameInv, Unblamed,
   TypeInv, SharedTypes, FlagTypes, PlaceTypes, MemoryTypes, Accounts

LEMMA PassOverBlame ==
  ASSUME TypeInv, BlameInv, NEW s \in Syncers, PassOver(s)
  PROVE  BlameInv'
BY DEF PassOver, Advance, Works, Fails, dbVars, lockVars, memVars, provVars,
   BlameInv, Unblamed, TypeInv, SharedTypes, FlagTypes, PlaceTypes,
   MemoryTypes, Accounts

LEMMA FallbackBlame ==
  ASSUME TypeInv, BlameInv, NEW s \in Syncers, Fallback(s)
  PROVE  BlameInv'
BY DEF Fallback, dbVars, schedVars, lockVars, memVars, provVars, BlameInv,
   Unblamed, TypeInv, SharedTypes, FlagTypes, PlaceTypes, MemoryTypes, Accounts

LEMMA SetSnapshotBlame ==
  ASSUME TypeInv, BlameInv, NEW s \in Syncers, SetSnapshot(s)
  PROVE  BlameInv'
BY DEF SetSnapshot, Advance, Works, Fails, dbVars, lockVars, memVars, provVars,
   BlameInv, Unblamed, TypeInv, SharedTypes, FlagTypes, PlaceTypes,
   MemoryTypes, Accounts

LEMMA SnapshotFailsBlame ==
  ASSUME TypeInv, BlameInv, NEW s \in Syncers, SnapshotFails(s)
  PROVE  BlameInv'
BY DEF SnapshotFails, Fails, dbVars, lockVars, memVars, provVars, BlameInv,
   Unblamed, TypeInv, SharedTypes, FlagTypes, PlaceTypes, MemoryTypes, Accounts

LEMMA BucketLockExpiresBlame ==
  ASSUME TypeInv, BlameInv, BucketLockExpires
  PROVE  BlameInv'
BY DEF BucketLockExpires, dbVars, jobVars, lockVars, memVars, provVars,
   BlameInv, Unblamed, TypeInv, SharedTypes, FlagTypes, PlaceTypes,
   MemoryTypes, Accounts

LEMMA LockExpiresBlame ==
  ASSUME TypeInv, BlameInv, LockExpires
  PROVE  BlameInv'
BY DEF LockExpires, dbVars, schedVars, jobVars, memVars, provVars, BlameInv,
   Unblamed, TypeInv, SharedTypes, FlagTypes, PlaceTypes, MemoryTypes, Accounts

LEMMA CacheExpiresBlame ==
  ASSUME TypeInv, BlameInv, CacheExpires
  PROVE  BlameInv'
BY DEF CacheExpires, dbVars, schedVars, jobVars, lockVars, memVars, provVars,
   BlameInv, Unblamed, TypeInv, SharedTypes, FlagTypes, PlaceTypes,
   MemoryTypes, Accounts

LEMMA AgeBlame ==
  ASSUME TypeInv, BlameInv, Age
  PROVE  BlameInv'
BY DEF Age, dbVars, schedVars, jobVars, lockVars, memVars, BlameInv, Unblamed,
   TypeInv, SharedTypes, FlagTypes, PlaceTypes, MemoryTypes, Accounts

LEMMA UnparkBlame ==
  ASSUME TypeInv, BlameInv, Unpark
  PROVE  BlameInv'
BY DEF Unpark, lockVars, provVars, BlameInv, Unblamed, TypeInv, SharedTypes,
   FlagTypes, PlaceTypes, MemoryTypes, Accounts

LEMMA CrashBlame ==
  ASSUME TypeInv, BlameInv, NEW d \in Procs, Crash(d)
  PROVE  BlameInv'
BY DEF Crash, Fails, schedVars, BlameInv, Unblamed, TypeInv, SharedTypes,
   FlagTypes, PlaceTypes, MemoryTypes, Accounts

LEMMA OpenBlame ==
  ASSUME TypeInv, BlameInv, NEW p \in Actors, Open(p)
  PROVE  BlameInv'
BY DEF Open, Goto, dbVars, schedVars, jobVars, lockVars, provVars, BlameInv,
   Unblamed, TypeInv, SharedTypes, FlagTypes, PlaceTypes, MemoryTypes, Accounts

LEMMA ManualRotateBlame ==
  ASSUME TypeInv, BlameInv, NEW p \in Actors, ManualRotate(p)
  PROVE  BlameInv'
BY DEF ManualRotate, Goto, dbVars, schedVars, jobVars, memVars, BlameInv,
   Unblamed, TypeInv, SharedTypes, FlagTypes, PlaceTypes, MemoryTypes, Accounts

LEMMA ManualFailsBlame ==
  ASSUME TypeInv, BlameInv, NEW p \in Actors, ManualFails(p)
  PROVE  BlameInv'
BY DEF ManualFails, Works, Fails, End, Goto, schedVars, lockVars, BlameInv,
   Unblamed, TypeInv, SharedTypes, FlagTypes, PlaceTypes, MemoryTypes, Accounts

LEMMA LoadBlame ==
  ASSUME TypeInv, BlameInv, NEW p \in Actors, Load(p)
  PROVE  BlameInv'
BY DEF Load, Goto, dbVars, schedVars, jobVars, lockVars, provVars, BlameInv,
   Unblamed, TypeInv, SharedTypes, FlagTypes, PlaceTypes, MemoryTypes, Accounts

LEMMA SaveBlame ==
  ASSUME TypeInv, BlameInv, NEW p \in Actors, Save(p)
  PROVE  BlameInv'
<1>1. ~lost /\ ~broken /\ ~blind => "error" \notin row'.flags
  <2> SUFFICES ASSUME ~lost, ~broken, ~blind PROVE "error" \notin row'.flags
    OBVIOUS
  <2>1. Unblamed
    BY DEF BlameInv
  <2>2. PICK f \in Statuses(p) : row' = Edited(p, f)
    BY DEF Save
  <2>3. "error" \notin f
    BY <2>1, <2>2 DEF Save, Statuses, Unblamed
  <2> QED BY <2>2, <2>3, EditedAccount DEF Save
<1> QED BY <1>1 DEF Save, Return, Goto, lockVars, memVars, provVars, BlameInv,
        Unblamed, TypeInv, FlagTypes, PlaceTypes, MemoryTypes

LEMMA UpdateFailsBlame ==
  ASSUME TypeInv, BlameInv, NEW p \in Actors, UpdateFails(p)
  PROVE  BlameInv'
<1>1. ~lost /\ ~broken /\ ~blind => "error" \notin row'.flags
  <2> SUFFICES ASSUME ~lost, ~broken, ~blind PROVE "error" \notin row'.flags
    OBVIOUS
  <2>1. Unblamed
    BY DEF BlameInv
  <2>2. CASE row' = row
    BY <2>1, <2>2 DEF Unblamed
  <2>3. CASE pc[p] = "save" /\ \E f \in Statuses(p) : row' = Edited(p, f)
    <3>1. PICK f \in Statuses(p) : row' = Edited(p, f)
      BY <2>3
    <3>2. "error" \notin f
      BY <2>1, <2>3, <3>1 DEF Statuses, Unblamed
    <3> QED BY <2>3, <3>1, <3>2, EditedAccount
  <2> QED BY <2>2, <2>3 DEF UpdateFails
<1> QED BY <1>1 DEF UpdateFails, End, Goto, lockVars, provVars, BlameInv,
        Unblamed, TypeInv, FlagTypes, PlaceTypes, MemoryTypes

LEMMA InvalidateBlame ==
  ASSUME TypeInv, BlameInv, NEW p \in Actors, Invalidate(p)
  PROVE  BlameInv'
BY DEF Invalidate, Works, Fails, End, Goto, dbVars, schedVars, lockVars,
   provVars, BlameInv, Unblamed, TypeInv, SharedTypes, FlagTypes, PlaceTypes,
   MemoryTypes, Accounts

LEMMA StepBlame ==
  ASSUME TypeInv, KeptInv, ExclInv, BlameInv, NEW p \in Actors, Step(p)
  PROVE  BlameInv'
<1>1. CASE Lookup(p)
  BY <1>1, LookupBlame
<1>2. CASE GiveUp(p)
  BY <1>2, GiveUpBlame
<1>3. CASE Check(p)
  BY <1>3, CheckBlame
<1>4. CASE Store(p)
  BY <1>4, StoreBlame
<1>5. CASE Accepted(p)
  BY <1>5, AcceptedBlame
<1>6. CASE Unauthorized(p)
  BY <1>6, UnauthorizedBlame
<1>7. CASE ForceRefresh(p)
  BY <1>7, ForceRefreshBlame
<1>8. CASE Lock(p)
  BY <1>8, LockBlame
<1>9. CASE TakeLock(p)
  BY <1>9, TakeLockBlame
<1>10. CASE LockHeld(p)
  BY <1>10, LockHeldBlame
<1>11. CASE Degrade(p)
  BY <1>11, DegradeBlame
<1>12. CASE Reread(p)
  BY <1>12, RereadBlame
<1>13. CASE RereadFails(p)
  BY <1>13, RereadFailsBlame
<1>14. CASE Rotate(p)
  BY <1>14, RotateBlame
<1>15. CASE CallFails(p)
  BY <1>15, CallFailsBlame
<1>16. CASE InvalidGrant(p)
  BY <1>16, InvalidGrantBlame
<1>17. CASE Recover(p)
  BY <1>17, RecoverBlame
<1>18. CASE Persist(p)
  BY <1>18, PersistBlame
<1>19. CASE PersistFails(p)
  BY <1>19, PersistFailsBlame
<1>20. CASE Release(p)
  BY <1>20, ReleaseBlame
<1>21. CASE Park(p)
  BY <1>21, ParkBlame
<1>22. CASE Condemn(p)
  BY <1>22, CondemnBlame
<1>23. CASE Sync(p)
  BY <1>23, SyncBlame
<1>24. CASE Write(p)
  BY <1>24, WriteBlame
<1>25. CASE Cycle(p)
  BY <1>25, CycleBlame
<1>26. CASE Post(p)
  BY <1>26, PostBlame
<1>27. CASE Drop(p)
  BY <1>27, DropBlame
<1>28. CASE Publish(p)
  BY <1>28, PublishBlame
<1>29. CASE ManualRotate(p)
  BY <1>29, ManualRotateBlame
<1>30. CASE ManualFails(p)
  BY <1>30, ManualFailsBlame
<1>31. CASE Load(p)
  BY <1>31, LoadBlame
<1>32. CASE Save(p)
  BY <1>32, SaveBlame
<1>33. CASE UpdateFails(p)
  BY <1>33, UpdateFailsBlame
<1>34. CASE Invalidate(p)
  BY <1>34, InvalidateBlame
<1> QED BY <1>1, <1>2, <1>3, <1>4, <1>5, <1>6, <1>7, <1>8, <1>9, <1>10, <1>11,
        <1>12, <1>13, <1>14, <1>15, <1>16, <1>17, <1>18, <1>19, <1>20, <1>21,
        <1>22, <1>23, <1>24, <1>25, <1>26, <1>27, <1>28, <1>29, <1>30, <1>31,
        <1>32, <1>33, <1>34 DEF Step

LEMMA NextBlame ==
  ASSUME TypeInv, KeptInv, ExclInv, BlameInv, [Next]_vars
  PROVE  BlameInv'
<1>1. ASSUME NEW p \in Actors, Pick(p) \/ Open(p) PROVE BlameInv'
  BY <1>1, PickBlame, OpenBlame
<1>2. ASSUME NEW p \in Actors, Step(p) PROVE BlameInv'
  BY <1>2, StepBlame
<1>3. ASSUME NEW s \in Syncers, SyncStep(s) PROVE BlameInv'
  BY <1>3, PollBlame, ApplyEventBlame, StartRebuildBlame, PassOverBlame,
     FallbackBlame, SetSnapshotBlame, SnapshotFailsBlame DEF SyncStep
<1>4. ASSUME NEW d \in Procs, Crash(d) PROVE BlameInv'
  BY <1>4, CrashBlame
<1>5. CASE BucketLockExpires
  BY <1>5, BucketLockExpiresBlame
<1>6. CASE LockExpires
  BY <1>6, LockExpiresBlame
<1>7. CASE CacheExpires
  BY <1>7, CacheExpiresBlame
<1>8. CASE Age
  BY <1>8, AgeBlame
<1>9. CASE Unpark
  BY <1>9, UnparkBlame
<1>10. CASE UNCHANGED vars
  BY <1>10 DEF vars, dbVars, memVars, lockVars, provVars, BlameInv, Unblamed
<1> QED BY <1>1, <1>2, <1>3, <1>4, <1>5, <1>6, <1>7, <1>8, <1>9, <1>10 DEF Next

\* The background job gives an account up after invalid_grant only when its token
\* was lost, the refresh lock failed to exclude or an administrator refreshed
\* without it, or the row could not be read again.
THEOREM AccountNotCondemned == Spec => []NotCondemned
<1>1. Init => BlameInv
  BY DEF Init, NewAccount, BlameInv, Unblamed
<1>2. TypeInv /\ KeptInv /\ ExclInv /\ BlameInv /\ [Next]_vars => BlameInv'
  BY NextBlame
<1>3. TypeInv /\ BlameInv => NotCondemned
  BY DEF BlameInv, Unblamed, NotCondemned, TypeInv, FlagTypes
<1> QED BY <1>1, <1>2, <1>3, TypesInvariant, KeptInvariant, RefreshesExclude,
        PTL DEF Spec

=============================================================================

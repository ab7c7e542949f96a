---------------------------- MODULE GatewayProofs ----------------------------
(***************************************************************************)
(* Proofs about GatewayRequest: its types, that an answer comes from one   *)
(* attempt and its end after the charge, that reservations, slots, locks   *)
(* and writers do not outlive the handler, that an account has one sender  *)
(* and that failover is bounded.                                           *)
(***************************************************************************)
EXTENDS GatewayRequest, FiniteSetTheorems, TLAPS

\* A step of a request, of its client or of its process.
RequestStep(r) ==
  \/ Step(r) \/ WriteBody(r) \/ Crash(r)
  \/ ClientLeaves(r) \/ SlotOnDone(r) \/ QueueOnDone(r)

-----------------------------------------------------------------------------
(* Types *)

PlaceTypes ==
  /\ pc \in [Requests -> Pcs]
  /\ mode \in [Requests -> AllModes \cup {"absent"}]
  /\ gone \subseteq Requests
  /\ group \in [Requests -> {"primary", "fallback"}]

FailoverTypes ==
  /\ attempt \in [Requests -> Nat]
  /\ acct \in [Requests -> Accounts \cup {NoAccount}]
  /\ failed \in [Requests -> SUBSET Accounts]
  /\ same \in [Requests -> [Accounts -> 0 .. MaxSame]]
  /\ switches \in [Requests -> Nat]
  /\ last \in [Requests -> Switchable \cup {"none"}]
  /\ error \in [Requests -> Errors \cup {"none"}]

LockTypes ==
  /\ slot \in [Requests -> Accounts \cup {NoAccount}]
  /\ queued \subseteq Requests
  /\ lock \in [Accounts -> Requests \cup {Free, Orphan}]
  /\ lasting \subseteq Accounts
  /\ lapsed \subseteq Requests

WriterTypes ==
  /\ started \subseteq Requests
  /\ capture \in [Requests -> {"none", "terminal", "buffer"}]
  /\ held \in [Requests -> SUBSET (Nat \X Pieces)]
  /\ shown \in [Requests -> SUBSET (Nat \X Pieces)]

BillTypes ==
  /\ published \subseteq Requests
  /\ finalized \subseteq Requests
  /\ open \in [Requests -> SUBSET Accounts]
  /\ charged \subseteq Requests
  /\ unsure \subseteq Requests

\* From the queue to the commit an account is chosen.
Chosen == {"queue", "reserve", "sending", "streaming", "failed", "record",
           "commit"}
ChoiceMade == \A r \in Requests : pc[r] \in Chosen => acct[r] \in Accounts

\* The type invariant, with what makes it inductive.
TypeInv ==
  /\ PlaceTypes /\ FailoverTypes /\ LockTypes /\ WriterTypes /\ BillTypes
  /\ ChoiceMade

LEMMA TypeInvImpliesTypeOK == TypeInv => TypeOK
BY DEF TypeInv, TypeOK, PlaceTypes, FailoverTypes, LockTypes, WriterTypes,
   BillTypes

\* Adding to, or emptying, the set of one request.
LEMMA Updated ==
  ASSUME NEW X, NEW f \in [Requests -> SUBSET X], NEW r \in Requests,
         NEW S \in SUBSET X
  PROVE  /\ [f EXCEPT ![r] = @ \cup S] \in [Requests -> SUBSET X]
         /\ [f EXCEPT ![r] = {}] \in [Requests -> SUBSET X]
         /\ f[r] \in SUBSET X
OBVIOUS

LEMMA PieceOf ==
  ASSUME TypeInv, NEW r \in Requests, NEW p \in Pieces
  PROVE  {<<attempt[r], p>>} \in SUBSET (Nat \X Pieces)
BY DEF TypeInv, FailoverTypes

LEMMA CommitBufferTypes ==
  ASSUME TypeInv, NEW r \in Requests, NEW S \in SUBSET (Nat \X Pieces),
         CommitBuffer(r, S)
  PROVE  /\ capture' \in [Requests -> {"none", "terminal", "buffer"}]
         /\ held' \in [Requests -> SUBSET (Nat \X Pieces)]
         /\ shown' \in [Requests -> SUBSET (Nat \X Pieces)]
<1> DEFINE X == Nat \X Pieces
           e == {<<attempt[r], "error">>}
<1>1. e \in SUBSET X
  BY PieceOf DEF Pieces
<1>2. /\ capture' = [capture EXCEPT ![r] = "none"]
      /\ held' = [held EXCEPT ![r] = {}]
      /\ shown' \in {shown, [shown EXCEPT ![r] = @ \cup S],
                     [shown EXCEPT ![r] = @ \cup e]}
  BY DEF CommitBuffer
<1>3. /\ capture \in [Requests -> {"none", "terminal", "buffer"}]
      /\ held \in [Requests -> SUBSET X] /\ shown \in [Requests -> SUBSET X]
  BY DEF TypeInv, WriterTypes
<1> HIDE DEF X, e
<1>4. held' \in [Requests -> SUBSET X]
  BY <1>2, <1>3, Updated
<1>5. shown' \in [Requests -> SUBSET X]
  <2>1. S \in SUBSET X
    BY DEF X
  <2> QED BY <1>1, <1>2, <1>3, <2>1, Updated
<1>6. capture' \in [Requests -> {"none", "terminal", "buffer"}]
  BY <1>2, <1>3
<1> QED BY <1>4, <1>5, <1>6 DEF X

LEMMA ReplyTypes ==
  ASSUME TypeInv, NEW r \in Requests, NEW sse, Reply(r, sse)
  PROVE  WriterTypes'
<1> DEFINE X == Nat \X Pieces
           e == {<<attempt[r], "error">>}
<1>1. e \in SUBSET X
  BY PieceOf DEF Pieces
<1>2. /\ capture \in [Requests -> {"none", "terminal", "buffer"}]
      /\ held \in [Requests -> SUBSET X] /\ shown \in [Requests -> SUBSET X]
  BY DEF TypeInv, WriterTypes
<1>3. held[r] \in SUBSET X /\ (held[r] \cup e) \in SUBSET X
  BY <1>1, <1>2
<1>4. started' \subseteq Requests
  BY DEF Reply, TypeInv, WriterTypes
<1>5. CASE CommitBuffer(r, held[r] \cup e)
  BY <1>3, <1>4, <1>5, CommitBufferTypes DEF WriterTypes
<1>6. CASE /\ capture' = capture
           /\ held' \in {held, [held EXCEPT ![r] = {}],
                         [held EXCEPT ![r] = @ \cup e]}
           /\ shown' \in {shown, [shown EXCEPT ![r] = @ \cup e],
                          [shown EXCEPT ![r] = @ \cup held[r] \cup e]}
  <2> HIDE DEF X, e
  <2>1. held' \in [Requests -> SUBSET X]
    BY <1>1, <1>2, <1>6, Updated
  <2>2. shown' \in [Requests -> SUBSET X]
    BY <1>1, <1>2, <1>3, <1>6
  <2> QED BY <1>2, <1>4, <1>6, <2>1, <2>2 DEF WriterTypes, X
<1> QED BY <1>5, <1>6 DEF Reply

LEMMA ReleaseQueueTypes ==
  ASSUME TypeInv, NEW r \in Requests, ReleaseQueue(r),
         slot' \in [Requests -> Accounts \cup {NoAccount}]
  PROVE  LockTypes'
<1>1. queued' \subseteq Requests /\ lapsed' \subseteq Requests
  BY DEF ReleaseQueue, TypeInv, LockTypes
<1>2. lasting' \in {lasting, lasting \ {acct[r]}}
  BY DEF ReleaseQueue
<1>3. lock' \in {lock, [lock EXCEPT ![acct[r]] = Free],
                 [lock EXCEPT ![acct[r]] = Orphan]}
  BY DEF ReleaseQueue
<1>4. lock' \in [Accounts -> Requests \cup {Free, Orphan}]
  BY <1>3 DEF TypeInv, LockTypes
<1> QED BY <1>1, <1>2, <1>4 DEF TypeInv, LockTypes

LEMMA SelectTypes ==
  ASSUME TypeInv, NEW r \in Requests, Select(r)
  PROVE  TypeInv'
<1>1. PlaceTypes'
  BY GatewayAssumption DEF Select, Candidates, Goto, MayPing, reqVars,
     lockVars, billVars, TypeInv, PlaceTypes, Pcs
<1>2. FailoverTypes'
  <2>1. PICK a \in Candidates(r) :
          /\ acct' = [acct EXCEPT ![r] = a] /\ slot' = [slot EXCEPT ![r] = a]
          /\ pc' = [pc EXCEPT ![r] = IF a \in Serialized THEN "queue"
                                                         ELSE "reserve"]
    BY DEF Select, Goto
  <2>2. a \in Accounts
    BY GatewayAssumption DEF Candidates
  <2> QED BY <2>1, <2>2 DEF Select, TypeInv, FailoverTypes
<1>3. LockTypes'
  <2>1. PICK a \in Candidates(r) :
          /\ acct' = [acct EXCEPT ![r] = a] /\ slot' = [slot EXCEPT ![r] = a]
          /\ pc' = [pc EXCEPT ![r] = IF a \in Serialized THEN "queue"
                                                         ELSE "reserve"]
    BY DEF Select, Goto
  <2>2. a \in Accounts
    BY GatewayAssumption DEF Candidates
  <2> QED BY <2>1, <2>2 DEF Select, lockVars, TypeInv, LockTypes
<1>4. WriterTypes'
  BY GatewayAssumption DEF Select, Candidates, Goto, MayPing, reqVars,
     lockVars, billVars, TypeInv, WriterTypes, FailoverTypes, PlaceTypes,
     Pieces, Content
<1>5. BillTypes'
  BY GatewayAssumption DEF Select, Candidates, Goto, MayPing, reqVars,
     lockVars, billVars, TypeInv, BillTypes, PlaceTypes, ChoiceMade, Chosen
<1>6. ChoiceMade'
  <2>1. PICK a \in Candidates(r) :
          /\ acct' = [acct EXCEPT ![r] = a] /\ slot' = [slot EXCEPT ![r] = a]
          /\ pc' = [pc EXCEPT ![r] = IF a \in Serialized THEN "queue"
                                                         ELSE "reserve"]
    BY DEF Select, Goto
  <2>2. a \in Accounts
    BY GatewayAssumption DEF Candidates
  <2> QED BY <2>1, <2>2 DEF TypeInv, FailoverTypes, PlaceTypes, ChoiceMade
<1> QED BY <1>1, <1>2, <1>3, <1>4, <1>5, <1>6 DEF TypeInv

LEMMA SlotTimeoutTypes ==
  ASSUME TypeInv, NEW r \in Requests, SlotTimeout(r)
  PROVE  TypeInv'
<1>1. PlaceTypes'
  BY GatewayAssumption DEF SlotTimeout, Candidates, Reply, Holds, CommitBuffer,
     Contents, Goto, reqVars, stateVars, lockVars, billVars, TypeInv,
     PlaceTypes, Pcs
<1>2. FailoverTypes'
  BY GatewayAssumption DEF SlotTimeout, Candidates, Reply, Holds, CommitBuffer,
     Contents, Goto, reqVars, stateVars, lockVars, billVars, TypeInv,
     FailoverTypes, PlaceTypes, ChoiceMade, Chosen, Switchable, Errors,
     NoRetries
<1>3. LockTypes'
  BY GatewayAssumption DEF SlotTimeout, Candidates, Reply, Holds, CommitBuffer,
     Contents, Goto, reqVars, stateVars, lockVars, billVars, TypeInv,
     LockTypes, PlaceTypes, FailoverTypes
<1>4. WriterTypes'
  BY ReplyTypes DEF SlotTimeout
<1>5. BillTypes'
  BY GatewayAssumption DEF SlotTimeout, Candidates, Reply, Holds, CommitBuffer,
     Contents, Goto, reqVars, stateVars, lockVars, billVars, TypeInv,
     BillTypes, PlaceTypes, ChoiceMade, Chosen
<1>6. ChoiceMade'
  BY GatewayAssumption DEF SlotTimeout, Candidates, Reply, Holds, CommitBuffer,
     Contents, Goto, reqVars, stateVars, lockVars, billVars, TypeInv,
     ChoiceMade, Chosen, PlaceTypes, FailoverTypes
<1> QED BY <1>1, <1>2, <1>3, <1>4, <1>5, <1>6 DEF TypeInv

LEMMA InterceptTypes ==
  ASSUME TypeInv, NEW r \in Requests, Intercept(r)
  PROVE  TypeInv'
<1>1. PlaceTypes'
  BY GatewayAssumption DEF Intercept, Candidates, Goto, reqVars, stateVars,
     lockVars, billVars, TypeInv, PlaceTypes, Pcs
<1>2. FailoverTypes'
  BY GatewayAssumption DEF Intercept, Candidates, Goto, reqVars, stateVars,
     lockVars, billVars, TypeInv, FailoverTypes, PlaceTypes, ChoiceMade,
     Chosen, Switchable, Errors, NoRetries
<1>3. LockTypes'
  BY GatewayAssumption DEF Intercept, Candidates, Goto, reqVars, stateVars,
     lockVars, billVars, TypeInv, LockTypes, PlaceTypes, FailoverTypes
<1>4. WriterTypes'
  BY GatewayAssumption DEF Intercept, Candidates, Goto, reqVars, stateVars,
     lockVars, billVars, TypeInv, WriterTypes, FailoverTypes, PlaceTypes,
     Pieces, Content
<1>5. BillTypes'
  BY GatewayAssumption DEF Intercept, Candidates, Goto, reqVars, stateVars,
     lockVars, billVars, TypeInv, BillTypes, PlaceTypes, ChoiceMade, Chosen
<1>6. ChoiceMade'
  BY GatewayAssumption DEF Intercept, Candidates, Goto, reqVars, stateVars,
     lockVars, billVars, TypeInv, ChoiceMade, Chosen, PlaceTypes, FailoverTypes
<1> QED BY <1>1, <1>2, <1>3, <1>4, <1>5, <1>6 DEF TypeInv

LEMMA BackoffTypes ==
  ASSUME TypeInv, NEW r \in Requests, Backoff(r)
  PROVE  TypeInv'
<1>1. PlaceTypes'
  BY GatewayAssumption DEF Backoff, reqVars, lockVars, outVars, billVars,
     TypeInv, PlaceTypes, Pcs
<1>2. FailoverTypes'
  BY GatewayAssumption DEF Backoff, reqVars, lockVars, outVars, billVars,
     TypeInv, FailoverTypes, PlaceTypes, ChoiceMade, Chosen, Switchable,
     Errors, NoRetries, Candidates
<1>3. LockTypes'
  BY GatewayAssumption DEF Backoff, reqVars, lockVars, outVars, billVars,
     TypeInv, LockTypes, PlaceTypes, FailoverTypes
<1>4. WriterTypes'
  BY GatewayAssumption DEF Backoff, reqVars, lockVars, outVars, billVars,
     TypeInv, WriterTypes, FailoverTypes, PlaceTypes, Pieces, Content
<1>5. BillTypes'
  BY GatewayAssumption DEF Backoff, reqVars, lockVars, outVars, billVars,
     TypeInv, BillTypes, PlaceTypes, ChoiceMade, Chosen
<1>6. ChoiceMade'
  BY GatewayAssumption DEF Backoff, reqVars, lockVars, outVars, billVars,
     TypeInv, ChoiceMade, Chosen, PlaceTypes, FailoverTypes
<1> QED BY <1>1, <1>2, <1>3, <1>4, <1>5, <1>6 DEF TypeInv

LEMMA NoneLeftTypes ==
  ASSUME TypeInv, NEW r \in Requests, NoneLeft(r)
  PROVE  TypeInv'
<1>1. PlaceTypes'
  BY GatewayAssumption DEF NoneLeft, Reply, Holds, CommitBuffer, Contents,
     outVars, Goto, reqVars, stateVars, lockVars, billVars, TypeInv,
     PlaceTypes, Pcs
<1>2. FailoverTypes'
  BY GatewayAssumption DEF NoneLeft, Reply, Holds, CommitBuffer, Contents,
     outVars, Goto, reqVars, stateVars, lockVars, billVars, TypeInv,
     FailoverTypes, PlaceTypes, ChoiceMade, Chosen, Switchable, Errors,
     NoRetries, Candidates
<1>3. LockTypes'
  BY GatewayAssumption DEF NoneLeft, Reply, Holds, CommitBuffer, Contents,
     outVars, Goto, reqVars, stateVars, lockVars, billVars, TypeInv, LockTypes,
     PlaceTypes, FailoverTypes
<1>4. WriterTypes'
  BY ReplyTypes DEF NoneLeft, outVars, TypeInv, WriterTypes
<1>5. BillTypes'
  BY GatewayAssumption DEF NoneLeft, Reply, Holds, CommitBuffer, Contents,
     outVars, Goto, reqVars, stateVars, lockVars, billVars, TypeInv, BillTypes,
     PlaceTypes, ChoiceMade, Chosen
<1>6. ChoiceMade'
  BY GatewayAssumption DEF NoneLeft, Reply, Holds, CommitBuffer, Contents,
     outVars, Goto, reqVars, stateVars, lockVars, billVars, TypeInv,
     ChoiceMade, Chosen, PlaceTypes, FailoverTypes
<1> QED BY <1>1, <1>2, <1>3, <1>4, <1>5, <1>6 DEF TypeInv

LEMMA QueueAcquireTypes ==
  ASSUME TypeInv, NEW r \in Requests, QueueAcquire(r)
  PROVE  TypeInv'
<1>1. PlaceTypes'
  BY GatewayAssumption DEF QueueAcquire, Goto, MayPing, reqVars, stateVars,
     billVars, TypeInv, PlaceTypes, Pcs
<1>2. FailoverTypes'
  BY GatewayAssumption DEF QueueAcquire, Goto, MayPing, reqVars, stateVars,
     billVars, TypeInv, FailoverTypes, PlaceTypes, ChoiceMade, Chosen,
     Switchable, Errors, NoRetries, Candidates
<1>3. LockTypes'
  BY GatewayAssumption DEF QueueAcquire, Goto, MayPing, reqVars, stateVars,
     billVars, TypeInv, LockTypes, PlaceTypes, FailoverTypes
<1>4. WriterTypes'
  BY GatewayAssumption DEF QueueAcquire, Goto, MayPing, reqVars, stateVars,
     billVars, TypeInv, WriterTypes, FailoverTypes, PlaceTypes, Pieces, Content
<1>5. BillTypes'
  BY GatewayAssumption DEF QueueAcquire, Goto, MayPing, reqVars, stateVars,
     billVars, TypeInv, BillTypes, PlaceTypes, ChoiceMade, Chosen
<1>6. ChoiceMade'
  BY GatewayAssumption DEF QueueAcquire, Goto, MayPing, reqVars, stateVars,
     billVars, TypeInv, ChoiceMade, Chosen, PlaceTypes, FailoverTypes
<1> QED BY <1>1, <1>2, <1>3, <1>4, <1>5, <1>6 DEF TypeInv

LEMMA QueueFailOpenTypes ==
  ASSUME TypeInv, NEW r \in Requests, QueueFailOpen(r)
  PROVE  TypeInv'
<1>1. PlaceTypes'
  BY GatewayAssumption DEF QueueFailOpen, Goto, reqVars, stateVars, outVars,
     billVars, TypeInv, PlaceTypes, Pcs
<1>2. FailoverTypes'
  BY GatewayAssumption DEF QueueFailOpen, Goto, reqVars, stateVars, outVars,
     billVars, TypeInv, FailoverTypes, PlaceTypes, ChoiceMade, Chosen,
     Switchable, Errors, NoRetries, Candidates
<1>3. LockTypes'
  BY GatewayAssumption DEF QueueFailOpen, Goto, reqVars, stateVars, outVars,
     billVars, TypeInv, LockTypes, PlaceTypes, FailoverTypes
<1>4. WriterTypes'
  BY GatewayAssumption DEF QueueFailOpen, Goto, reqVars, stateVars, outVars,
     billVars, TypeInv, WriterTypes, FailoverTypes, PlaceTypes, Pieces, Content
<1>5. BillTypes'
  BY GatewayAssumption DEF QueueFailOpen, Goto, reqVars, stateVars, outVars,
     billVars, TypeInv, BillTypes, PlaceTypes, ChoiceMade, Chosen
<1>6. ChoiceMade'
  BY GatewayAssumption DEF QueueFailOpen, Goto, reqVars, stateVars, outVars,
     billVars, TypeInv, ChoiceMade, Chosen, PlaceTypes, FailoverTypes
<1> QED BY <1>1, <1>2, <1>3, <1>4, <1>5, <1>6 DEF TypeInv

LEMMA QueueTimeoutTypes ==
  ASSUME TypeInv, NEW r \in Requests, QueueTimeout(r)
  PROVE  TypeInv'
<1>1. PlaceTypes'
  BY GatewayAssumption DEF QueueTimeout, Goto, MayPing, reqVars, stateVars,
     lockVars, billVars, TypeInv, PlaceTypes, Pcs
<1>2. FailoverTypes'
  BY GatewayAssumption DEF QueueTimeout, Goto, MayPing, reqVars, stateVars,
     lockVars, billVars, TypeInv, FailoverTypes, PlaceTypes, ChoiceMade,
     Chosen, Switchable, Errors, NoRetries, Candidates
<1>3. LockTypes'
  BY GatewayAssumption DEF QueueTimeout, Goto, MayPing, reqVars, stateVars,
     lockVars, billVars, TypeInv, LockTypes, PlaceTypes, FailoverTypes
<1>4. WriterTypes'
  BY GatewayAssumption DEF QueueTimeout, Goto, MayPing, reqVars, stateVars,
     lockVars, billVars, TypeInv, WriterTypes, FailoverTypes, PlaceTypes,
     Pieces, Content
<1>5. BillTypes'
  BY GatewayAssumption DEF QueueTimeout, Goto, MayPing, reqVars, stateVars,
     lockVars, billVars, TypeInv, BillTypes, PlaceTypes, ChoiceMade, Chosen
<1>6. ChoiceMade'
  BY GatewayAssumption DEF QueueTimeout, Goto, MayPing, reqVars, stateVars,
     lockVars, billVars, TypeInv, ChoiceMade, Chosen, PlaceTypes, FailoverTypes
<1> QED BY <1>1, <1>2, <1>3, <1>4, <1>5, <1>6 DEF TypeInv

LEMMA ReserveFailsTypes ==
  ASSUME TypeInv, NEW r \in Requests, ReserveFails(r)
  PROVE  TypeInv'
<1>1. PlaceTypes'
  BY GatewayAssumption DEF ReserveFails, ReleaseSlot, ReleaseQueue, Reply,
     Holds, CommitBuffer, Contents, Goto, reqVars, stateVars, TypeInv,
     PlaceTypes, Pcs
<1>2. FailoverTypes'
  BY GatewayAssumption DEF ReserveFails, ReleaseSlot, ReleaseQueue, Reply,
     Holds, CommitBuffer, Contents, Goto, reqVars, stateVars, TypeInv,
     FailoverTypes, PlaceTypes, ChoiceMade, Chosen, Switchable, Errors,
     NoRetries, Candidates
<1>3. LockTypes'
  <2>1. slot' \in [Requests -> Accounts \cup {NoAccount}]
    BY DEF ReserveFails, ReleaseSlot, TypeInv, LockTypes
  <2>2. ReleaseQueue(r)
    BY DEF ReserveFails
  <2> QED BY <2>1, <2>2, ReleaseQueueTypes
<1>4. WriterTypes'
  BY ReplyTypes DEF ReserveFails
<1>5. BillTypes'
  BY GatewayAssumption DEF ReserveFails, ReleaseSlot, ReleaseQueue, Reply,
     Holds, CommitBuffer, Contents, Goto, reqVars, stateVars, TypeInv,
     BillTypes, PlaceTypes, ChoiceMade, Chosen
<1>6. ChoiceMade'
  BY GatewayAssumption DEF ReserveFails, ReleaseSlot, ReleaseQueue, Reply,
     Holds, CommitBuffer, Contents, Goto, reqVars, stateVars, TypeInv,
     ChoiceMade, Chosen, PlaceTypes, FailoverTypes
<1> QED BY <1>1, <1>2, <1>3, <1>4, <1>5, <1>6 DEF TypeInv

LEMMA ForwardTypes ==
  ASSUME TypeInv, NEW r \in Requests, Forward(r)
  PROVE  TypeInv'
<1>1. PlaceTypes'
  BY GatewayAssumption DEF Forward, Goto, reqVars, lockVars, TypeInv,
     PlaceTypes, Pcs
<1>2. FailoverTypes'
  BY GatewayAssumption DEF Forward, Goto, reqVars, lockVars, TypeInv,
     FailoverTypes, PlaceTypes, ChoiceMade, Chosen, Switchable, Errors,
     NoRetries, Candidates
<1>3. LockTypes'
  BY GatewayAssumption DEF Forward, Goto, reqVars, lockVars, TypeInv,
     LockTypes, PlaceTypes, FailoverTypes
<1>4. WriterTypes'
  BY GatewayAssumption DEF Forward, Goto, reqVars, lockVars, TypeInv,
     WriterTypes, FailoverTypes, PlaceTypes, Pieces, Content
<1>5. BillTypes'
  BY GatewayAssumption DEF Forward, Goto, reqVars, lockVars, TypeInv,
     BillTypes, PlaceTypes, ChoiceMade, Chosen
<1>6. ChoiceMade'
  BY GatewayAssumption DEF Forward, Goto, reqVars, lockVars, TypeInv,
     ChoiceMade, Chosen, PlaceTypes, FailoverTypes
<1> QED BY <1>1, <1>2, <1>3, <1>4, <1>5, <1>6 DEF TypeInv

LEMMA AcceptedTypes ==
  ASSUME TypeInv, NEW r \in Requests, Accepted(r)
  PROVE  TypeInv'
<1>1. PlaceTypes'
  BY GatewayAssumption DEF Accepted, ReleaseQueue, Goto, reqVars, stateVars,
     outVars, billVars, TypeInv, PlaceTypes, Pcs
<1>2. FailoverTypes'
  BY GatewayAssumption DEF Accepted, ReleaseQueue, Goto, reqVars, stateVars,
     outVars, billVars, TypeInv, FailoverTypes, PlaceTypes, ChoiceMade, Chosen,
     Switchable, Errors, NoRetries, Candidates
<1>3. LockTypes'
  <2>1. slot' \in [Requests -> Accounts \cup {NoAccount}]
    BY DEF Accepted, TypeInv, LockTypes
  <2>2. ReleaseQueue(r)
    BY DEF Accepted
  <2> QED BY <2>1, <2>2, ReleaseQueueTypes
<1>4. WriterTypes'
  BY GatewayAssumption DEF Accepted, ReleaseQueue, Goto, reqVars, stateVars,
     outVars, billVars, TypeInv, WriterTypes, FailoverTypes, PlaceTypes,
     Pieces, Content
<1>5. BillTypes'
  BY GatewayAssumption DEF Accepted, ReleaseQueue, Goto, reqVars, stateVars,
     outVars, billVars, TypeInv, BillTypes, PlaceTypes, ChoiceMade, Chosen
<1>6. ChoiceMade'
  BY GatewayAssumption DEF Accepted, ReleaseQueue, Goto, reqVars, stateVars,
     outVars, billVars, TypeInv, ChoiceMade, Chosen, PlaceTypes, FailoverTypes
<1> QED BY <1>1, <1>2, <1>3, <1>4, <1>5, <1>6 DEF TypeInv

LEMMA RefusedTypes ==
  ASSUME TypeInv, NEW r \in Requests, Refused(r)
  PROVE  TypeInv'
<1>1. PlaceTypes'
  BY GatewayAssumption DEF Refused, Returned, ReleaseQueue, ReleaseSlot, Goto,
     reqVars, outVars, billVars, TypeInv, PlaceTypes, Pcs
<1>2. FailoverTypes'
  BY GatewayAssumption DEF Refused, Returned, ReleaseQueue, ReleaseSlot, Goto,
     reqVars, outVars, billVars, TypeInv, FailoverTypes, PlaceTypes,
     ChoiceMade, Chosen, Switchable, Errors, NoRetries, Candidates
<1>3. LockTypes'
  <2>1. slot' \in [Requests -> Accounts \cup {NoAccount}]
    BY DEF Refused, Returned, ReleaseSlot, TypeInv, LockTypes
  <2>2. ReleaseQueue(r)
    BY DEF Refused, Returned
  <2> QED BY <2>1, <2>2, ReleaseQueueTypes
<1>4. WriterTypes'
  BY GatewayAssumption DEF Refused, Returned, ReleaseQueue, ReleaseSlot, Goto,
     reqVars, outVars, billVars, TypeInv, WriterTypes, FailoverTypes,
     PlaceTypes, Pieces, Content
<1>5. BillTypes'
  BY GatewayAssumption DEF Refused, Returned, ReleaseQueue, ReleaseSlot, Goto,
     reqVars, outVars, billVars, TypeInv, BillTypes, PlaceTypes, ChoiceMade,
     Chosen
<1>6. ChoiceMade'
  BY GatewayAssumption DEF Refused, Returned, ReleaseQueue, ReleaseSlot, Goto,
     reqVars, outVars, billVars, TypeInv, ChoiceMade, Chosen, PlaceTypes,
     FailoverTypes
<1> QED BY <1>1, <1>2, <1>3, <1>4, <1>5, <1>6 DEF TypeInv

LEMMA FinishesTypes ==
  ASSUME TypeInv, NEW r \in Requests, Finishes(r)
  PROVE  TypeInv'
<1>1. PlaceTypes'
  BY GatewayAssumption DEF Finishes, Returned, ReleaseQueue, ReleaseSlot, Goto,
     reqVars, stateVars, billVars, TypeInv, PlaceTypes, Pcs
<1>2. FailoverTypes'
  BY GatewayAssumption DEF Finishes, Returned, ReleaseQueue, ReleaseSlot, Goto,
     reqVars, stateVars, billVars, TypeInv, FailoverTypes, PlaceTypes,
     ChoiceMade, Chosen, Switchable, Errors, NoRetries, Candidates
<1>3. LockTypes'
  <2>1. slot' \in [Requests -> Accounts \cup {NoAccount}]
    BY DEF Finishes, Returned, ReleaseSlot, TypeInv, LockTypes
  <2>2. ReleaseQueue(r)
    BY DEF Finishes, Returned
  <2> QED BY <2>1, <2>2, ReleaseQueueTypes
<1>4. WriterTypes'
  <2> DEFINE X == Nat \X Pieces
             e == {<<attempt[r], "end">>}
  <2>1. e \in SUBSET X
    BY PieceOf DEF Pieces, Content
  <2>2. /\ started \subseteq Requests
        /\ capture \in [Requests -> {"none", "terminal", "buffer"}]
        /\ held \in [Requests -> SUBSET X] /\ shown \in [Requests -> SUBSET X]
    BY DEF TypeInv, WriterTypes
  <2>3. /\ UNCHANGED <<started, capture>>
        /\ held' \in {held, [held EXCEPT ![r] = @ \cup e]}
        /\ shown' \in {shown, [shown EXCEPT ![r] = @ \cup e]}
    BY DEF Finishes
  <2> HIDE DEF X, e
  <2>4. held' \in [Requests -> SUBSET X]
    BY <2>1, <2>2, <2>3, Updated
  <2>5. shown' \in [Requests -> SUBSET X]
    BY <2>1, <2>2, <2>3
  <2>6. capture' \in [Requests -> {"none", "terminal", "buffer"}]
    BY <2>2, <2>3
  <2> QED BY <2>2, <2>3, <2>4, <2>5, <2>6 DEF WriterTypes, X
<1>5. BillTypes'
  BY GatewayAssumption DEF Finishes, Returned, ReleaseQueue, ReleaseSlot, Goto,
     reqVars, stateVars, billVars, TypeInv, BillTypes, PlaceTypes, ChoiceMade,
     Chosen
<1>6. ChoiceMade'
  BY GatewayAssumption DEF Finishes, Returned, ReleaseQueue, ReleaseSlot, Goto,
     reqVars, stateVars, billVars, TypeInv, ChoiceMade, Chosen, PlaceTypes,
     FailoverTypes
<1> QED BY <1>1, <1>2, <1>3, <1>4, <1>5, <1>6 DEF TypeInv

LEMMA BreaksTypes ==
  ASSUME TypeInv, NEW r \in Requests, Breaks(r)
  PROVE  TypeInv'
<1>1. PlaceTypes'
  BY GatewayAssumption DEF Breaks, Returned, ReleaseQueue, ReleaseSlot, Goto,
     reqVars, outVars, billVars, TypeInv, PlaceTypes, Pcs
<1>2. FailoverTypes'
  BY GatewayAssumption DEF Breaks, Returned, ReleaseQueue, ReleaseSlot, Goto,
     reqVars, outVars, billVars, TypeInv, FailoverTypes, PlaceTypes,
     ChoiceMade, Chosen, Switchable, Errors, NoRetries, Candidates
<1>3. LockTypes'
  <2>1. slot' \in [Requests -> Accounts \cup {NoAccount}]
    BY DEF Breaks, Returned, ReleaseSlot, TypeInv, LockTypes
  <2>2. ReleaseQueue(r)
    BY DEF Breaks, Returned
  <2> QED BY <2>1, <2>2, ReleaseQueueTypes
<1>4. WriterTypes'
  BY GatewayAssumption DEF Breaks, Returned, ReleaseQueue, ReleaseSlot, Goto,
     reqVars, outVars, billVars, TypeInv, WriterTypes, FailoverTypes,
     PlaceTypes, Pieces, Content
<1>5. BillTypes'
  BY GatewayAssumption DEF Breaks, Returned, ReleaseQueue, ReleaseSlot, Goto,
     reqVars, outVars, billVars, TypeInv, BillTypes, PlaceTypes, ChoiceMade,
     Chosen
<1>6. ChoiceMade'
  BY GatewayAssumption DEF Breaks, Returned, ReleaseQueue, ReleaseSlot, Goto,
     reqVars, outVars, billVars, TypeInv, ChoiceMade, Chosen, PlaceTypes,
     FailoverTypes
<1> QED BY <1>1, <1>2, <1>3, <1>4, <1>5, <1>6 DEF TypeInv

LEMMA GiveUpStreamedTypes ==
  ASSUME TypeInv, NEW r \in Requests, GiveUpStreamed(r)
  PROVE  TypeInv'
<1>1. PlaceTypes'
  BY GatewayAssumption DEF GiveUpStreamed, Written, Contents, Reply, Holds,
     CommitBuffer, Leave, Goto, reqVars, lockVars, billVars, TypeInv,
     PlaceTypes, Pcs
<1>2. FailoverTypes'
  BY GatewayAssumption DEF GiveUpStreamed, Written, Contents, Reply, Holds,
     CommitBuffer, Leave, Goto, reqVars, lockVars, billVars, TypeInv,
     FailoverTypes, PlaceTypes, ChoiceMade, Chosen, Switchable, Errors,
     NoRetries, Candidates
<1>3. LockTypes'
  BY GatewayAssumption DEF GiveUpStreamed, Written, Contents, Reply, Holds,
     CommitBuffer, Leave, Goto, reqVars, lockVars, billVars, TypeInv,
     LockTypes, PlaceTypes, FailoverTypes
<1>4. WriterTypes'
  BY ReplyTypes DEF GiveUpStreamed
<1>5. BillTypes'
  BY GatewayAssumption DEF GiveUpStreamed, Written, Contents, Reply, Holds,
     CommitBuffer, Leave, Goto, reqVars, lockVars, billVars, TypeInv,
     BillTypes, PlaceTypes, ChoiceMade, Chosen
<1>6. ChoiceMade'
  BY GatewayAssumption DEF GiveUpStreamed, Written, Contents, Reply, Holds,
     CommitBuffer, Leave, Goto, reqVars, lockVars, billVars, TypeInv,
     ChoiceMade, Chosen, PlaceTypes, FailoverTypes
<1> QED BY <1>1, <1>2, <1>3, <1>4, <1>5, <1>6 DEF TypeInv

LEMMA RetrySameTypes ==
  ASSUME TypeInv, NEW r \in Requests, RetrySame(r)
  PROVE  TypeInv'
<1>1. PlaceTypes'
  BY GatewayAssumption DEF RetrySame, CanSwitch, Written, Contents, MayRetry,
     Again, Abandon, PublishRelease, Goto, reqVars, lockVars, TypeInv,
     PlaceTypes, Pcs
<1>2. FailoverTypes'
  BY GatewayAssumption DEF RetrySame, CanSwitch, Written, Contents, MayRetry,
     Again, Abandon, PublishRelease, Goto, reqVars, lockVars, TypeInv,
     FailoverTypes, PlaceTypes, ChoiceMade, Chosen, Switchable, Errors,
     NoRetries, Candidates
<1>3. LockTypes'
  BY GatewayAssumption DEF RetrySame, CanSwitch, Written, Contents, MayRetry,
     Again, Abandon, PublishRelease, Goto, reqVars, lockVars, TypeInv,
     LockTypes, PlaceTypes, FailoverTypes
<1>4. WriterTypes'
  BY GatewayAssumption DEF RetrySame, CanSwitch, Written, Contents, MayRetry,
     Again, Abandon, PublishRelease, Goto, reqVars, lockVars, TypeInv,
     WriterTypes, FailoverTypes, PlaceTypes, Pieces, Content
<1>5. BillTypes'
  BY GatewayAssumption DEF RetrySame, CanSwitch, Written, Contents, MayRetry,
     Again, Abandon, PublishRelease, Goto, reqVars, lockVars, TypeInv,
     BillTypes, PlaceTypes, ChoiceMade, Chosen
<1>6. ChoiceMade'
  BY GatewayAssumption DEF RetrySame, CanSwitch, Written, Contents, MayRetry,
     Again, Abandon, PublishRelease, Goto, reqVars, lockVars, TypeInv,
     ChoiceMade, Chosen, PlaceTypes, FailoverTypes
<1> QED BY <1>1, <1>2, <1>3, <1>4, <1>5, <1>6 DEF TypeInv

LEMMA SwitchTypes ==
  ASSUME TypeInv, NEW r \in Requests, Switch(r)
  PROVE  TypeInv'
<1>1. PlaceTypes'
  BY GatewayAssumption DEF Switch, CanSwitch, Written, Contents, MayRetry,
     Again, Abandon, PublishRelease, Goto, reqVars, lockVars, TypeInv,
     PlaceTypes, Pcs
<1>2. FailoverTypes'
  BY GatewayAssumption DEF Switch, CanSwitch, Written, Contents, MayRetry,
     Again, Abandon, PublishRelease, Goto, reqVars, lockVars, TypeInv,
     FailoverTypes, PlaceTypes, ChoiceMade, Chosen, Switchable, Errors,
     NoRetries, Candidates
<1>3. LockTypes'
  BY GatewayAssumption DEF Switch, CanSwitch, Written, Contents, MayRetry,
     Again, Abandon, PublishRelease, Goto, reqVars, lockVars, TypeInv,
     LockTypes, PlaceTypes, FailoverTypes
<1>4. WriterTypes'
  BY GatewayAssumption DEF Switch, CanSwitch, Written, Contents, MayRetry,
     Again, Abandon, PublishRelease, Goto, reqVars, lockVars, TypeInv,
     WriterTypes, FailoverTypes, PlaceTypes, Pieces, Content
<1>5. BillTypes'
  BY GatewayAssumption DEF Switch, CanSwitch, Written, Contents, MayRetry,
     Again, Abandon, PublishRelease, Goto, reqVars, lockVars, TypeInv,
     BillTypes, PlaceTypes, ChoiceMade, Chosen
<1>6. ChoiceMade'
  BY GatewayAssumption DEF Switch, CanSwitch, Written, Contents, MayRetry,
     Again, Abandon, PublishRelease, Goto, reqVars, lockVars, TypeInv,
     ChoiceMade, Chosen, PlaceTypes, FailoverTypes
<1> QED BY <1>1, <1>2, <1>3, <1>4, <1>5, <1>6 DEF TypeInv

LEMMA ExhaustedTypes ==
  ASSUME TypeInv, NEW r \in Requests, Exhausted(r)
  PROVE  TypeInv'
<1>1. PlaceTypes'
  BY GatewayAssumption DEF Exhausted, CanSwitch, Written, Contents, MayRetry,
     Reply, Holds, CommitBuffer, Leave, Goto, reqVars, lockVars, billVars,
     TypeInv, PlaceTypes, Pcs
<1>2. FailoverTypes'
  BY GatewayAssumption DEF Exhausted, CanSwitch, Written, Contents, MayRetry,
     Reply, Holds, CommitBuffer, Leave, Goto, reqVars, lockVars, billVars,
     TypeInv, FailoverTypes, PlaceTypes, ChoiceMade, Chosen, Switchable,
     Errors, NoRetries, Candidates
<1>3. LockTypes'
  BY GatewayAssumption DEF Exhausted, CanSwitch, Written, Contents, MayRetry,
     Reply, Holds, CommitBuffer, Leave, Goto, reqVars, lockVars, billVars,
     TypeInv, LockTypes, PlaceTypes, FailoverTypes
<1>4. WriterTypes'
  BY ReplyTypes DEF Exhausted
<1>5. BillTypes'
  BY GatewayAssumption DEF Exhausted, CanSwitch, Written, Contents, MayRetry,
     Reply, Holds, CommitBuffer, Leave, Goto, reqVars, lockVars, billVars,
     TypeInv, BillTypes, PlaceTypes, ChoiceMade, Chosen
<1>6. ChoiceMade'
  BY GatewayAssumption DEF Exhausted, CanSwitch, Written, Contents, MayRetry,
     Reply, Holds, CommitBuffer, Leave, Goto, reqVars, lockVars, billVars,
     TypeInv, ChoiceMade, Chosen, PlaceTypes, FailoverTypes
<1> QED BY <1>1, <1>2, <1>3, <1>4, <1>5, <1>6 DEF TypeInv

LEMMA CanceledTypes ==
  ASSUME TypeInv, NEW r \in Requests, Canceled(r)
  PROVE  TypeInv'
<1>1. PlaceTypes'
  BY GatewayAssumption DEF Canceled, CanSwitch, Written, Contents, MayRetry,
     Leave, Goto, reqVars, lockVars, billVars, TypeInv, PlaceTypes, Pcs
<1>2. FailoverTypes'
  BY GatewayAssumption DEF Canceled, CanSwitch, Written, Contents, MayRetry,
     Leave, Goto, reqVars, lockVars, billVars, TypeInv, FailoverTypes,
     PlaceTypes, ChoiceMade, Chosen, Switchable, Errors, NoRetries, Candidates
<1>3. LockTypes'
  BY GatewayAssumption DEF Canceled, CanSwitch, Written, Contents, MayRetry,
     Leave, Goto, reqVars, lockVars, billVars, TypeInv, LockTypes, PlaceTypes,
     FailoverTypes
<1>4. WriterTypes'
  <2> DEFINE X == Nat \X Pieces
  <2>2. /\ started \subseteq Requests
        /\ capture \in [Requests -> {"none", "terminal", "buffer"}]
        /\ held \in [Requests -> SUBSET X] /\ shown \in [Requests -> SUBSET X]
    BY DEF TypeInv, WriterTypes
  <2>3. /\ UNCHANGED <<started, shown>>
        /\ capture' \in {capture, [capture EXCEPT ![r] = "none"]}
        /\ held' \in {held, [held EXCEPT ![r] = {}]}
    BY DEF Canceled
  <2> HIDE DEF X
  <2>4. held' \in [Requests -> SUBSET X]
    BY <2>2, <2>3, Updated
  <2>5. shown' \in [Requests -> SUBSET X]
    BY <2>2, <2>3
  <2>6. capture' \in [Requests -> {"none", "terminal", "buffer"}]
    BY <2>2, <2>3
  <2> QED BY <2>2, <2>3, <2>4, <2>5, <2>6 DEF WriterTypes, X
<1>5. BillTypes'
  BY GatewayAssumption DEF Canceled, CanSwitch, Written, Contents, MayRetry,
     Leave, Goto, reqVars, lockVars, billVars, TypeInv, BillTypes, PlaceTypes,
     ChoiceMade, Chosen
<1>6. ChoiceMade'
  BY GatewayAssumption DEF Canceled, CanSwitch, Written, Contents, MayRetry,
     Leave, Goto, reqVars, lockVars, billVars, TypeInv, ChoiceMade, Chosen,
     PlaceTypes, FailoverTypes
<1> QED BY <1>1, <1>2, <1>3, <1>4, <1>5, <1>6 DEF TypeInv

LEMMA UseFallbackTypes ==
  ASSUME TypeInv, NEW r \in Requests, UseFallback(r)
  PROVE  TypeInv'
<1>1. PlaceTypes'
  BY GatewayAssumption DEF UseFallback, Again, Abandon, PublishRelease, Goto,
     lockVars, TypeInv, PlaceTypes, Pcs
<1>2. FailoverTypes'
  BY GatewayAssumption DEF UseFallback, Again, Abandon, PublishRelease, Goto,
     lockVars, TypeInv, FailoverTypes, PlaceTypes, ChoiceMade, Chosen,
     Switchable, Errors, NoRetries, Candidates
<1>3. LockTypes'
  BY GatewayAssumption DEF UseFallback, Again, Abandon, PublishRelease, Goto,
     lockVars, TypeInv, LockTypes, PlaceTypes, FailoverTypes
<1>4. WriterTypes'
  BY GatewayAssumption DEF UseFallback, Again, Abandon, PublishRelease, Goto,
     lockVars, TypeInv, WriterTypes, FailoverTypes, PlaceTypes, Pieces, Content
<1>5. BillTypes'
  BY GatewayAssumption DEF UseFallback, Again, Abandon, PublishRelease, Goto,
     lockVars, TypeInv, BillTypes, PlaceTypes, ChoiceMade, Chosen
<1>6. ChoiceMade'
  BY GatewayAssumption DEF UseFallback, Again, Abandon, PublishRelease, Goto,
     lockVars, TypeInv, ChoiceMade, Chosen, PlaceTypes, FailoverTypes
<1> QED BY <1>1, <1>2, <1>3, <1>4, <1>5, <1>6 DEF TypeInv

LEMMA EndWithErrorTypes ==
  ASSUME TypeInv, NEW r \in Requests, EndWithError(r)
  PROVE  TypeInv'
<1>1. PlaceTypes'
  BY GatewayAssumption DEF EndWithError, Reply, Holds, CommitBuffer, Contents,
     Leave, Goto, reqVars, lockVars, billVars, TypeInv, PlaceTypes, Pcs
<1>2. FailoverTypes'
  BY GatewayAssumption DEF EndWithError, Reply, Holds, CommitBuffer, Contents,
     Leave, Goto, reqVars, lockVars, billVars, TypeInv, FailoverTypes,
     PlaceTypes, ChoiceMade, Chosen, Switchable, Errors, NoRetries, Candidates
<1>3. LockTypes'
  BY GatewayAssumption DEF EndWithError, Reply, Holds, CommitBuffer, Contents,
     Leave, Goto, reqVars, lockVars, billVars, TypeInv, LockTypes, PlaceTypes,
     FailoverTypes
<1>4. WriterTypes'
  BY ReplyTypes DEF EndWithError
<1>5. BillTypes'
  BY GatewayAssumption DEF EndWithError, Reply, Holds, CommitBuffer, Contents,
     Leave, Goto, reqVars, lockVars, billVars, TypeInv, BillTypes, PlaceTypes,
     ChoiceMade, Chosen
<1>6. ChoiceMade'
  BY GatewayAssumption DEF EndWithError, Reply, Holds, CommitBuffer, Contents,
     Leave, Goto, reqVars, lockVars, billVars, TypeInv, ChoiceMade, Chosen,
     PlaceTypes, FailoverTypes
<1> QED BY <1>1, <1>2, <1>3, <1>4, <1>5, <1>6 DEF TypeInv

LEMMA ForwardFailedTypes ==
  ASSUME TypeInv, NEW r \in Requests, ForwardFailed(r)
  PROVE  TypeInv'
<1>1. PlaceTypes'
  BY GatewayAssumption DEF ForwardFailed, Reply, Holds, CommitBuffer, Contents,
     Written, Leave, Goto, reqVars, lockVars, billVars, TypeInv, PlaceTypes,
     Pcs
<1>2. FailoverTypes'
  BY GatewayAssumption DEF ForwardFailed, Reply, Holds, CommitBuffer, Contents,
     Written, Leave, Goto, reqVars, lockVars, billVars, TypeInv, FailoverTypes,
     PlaceTypes, ChoiceMade, Chosen, Switchable, Errors, NoRetries, Candidates
<1>3. LockTypes'
  BY GatewayAssumption DEF ForwardFailed, Reply, Holds, CommitBuffer, Contents,
     Written, Leave, Goto, reqVars, lockVars, billVars, TypeInv, LockTypes,
     PlaceTypes, FailoverTypes
<1>4. WriterTypes'
  <2>1. /\ started \subseteq Requests /\ held[r] \in SUBSET (Nat \X Pieces)
    BY DEF TypeInv, WriterTypes
  <2>2. CASE \E sse \in BOOLEAN : Reply(r, sse)
    BY <2>2, ReplyTypes
  <2>3. CASE CommitBuffer(r, held[r]) /\ started' = started
    BY <2>1, <2>3, CommitBufferTypes DEF WriterTypes
  <2>4. CASE UNCHANGED <<capture, held, shown, started>>
    BY <2>4 DEF TypeInv, WriterTypes
  <2> QED BY <2>2, <2>3, <2>4 DEF ForwardFailed
<1>5. BillTypes'
  BY GatewayAssumption DEF ForwardFailed, Reply, Holds, CommitBuffer, Contents,
     Written, Leave, Goto, reqVars, lockVars, billVars, TypeInv, BillTypes,
     PlaceTypes, ChoiceMade, Chosen
<1>6. ChoiceMade'
  BY GatewayAssumption DEF ForwardFailed, Reply, Holds, CommitBuffer, Contents,
     Written, Leave, Goto, reqVars, lockVars, billVars, TypeInv, ChoiceMade,
     Chosen, PlaceTypes, FailoverTypes
<1> QED BY <1>1, <1>2, <1>3, <1>4, <1>5, <1>6 DEF TypeInv

LEMMA RecordOkTypes ==
  ASSUME TypeInv, NEW r \in Requests, RecordOk(r)
  PROVE  TypeInv'
<1>1. PlaceTypes'
  BY GatewayAssumption DEF RecordOk, Goto, reqVars, stateVars, lockVars,
     outVars, TypeInv, PlaceTypes, Pcs
<1>2. FailoverTypes'
  BY GatewayAssumption DEF RecordOk, Goto, reqVars, stateVars, lockVars,
     outVars, TypeInv, FailoverTypes, PlaceTypes, ChoiceMade, Chosen,
     Switchable, Errors, NoRetries, Candidates
<1>3. LockTypes'
  BY GatewayAssumption DEF RecordOk, Goto, reqVars, stateVars, lockVars,
     outVars, TypeInv, LockTypes, PlaceTypes, FailoverTypes
<1>4. WriterTypes'
  BY GatewayAssumption DEF RecordOk, Goto, reqVars, stateVars, lockVars,
     outVars, TypeInv, WriterTypes, FailoverTypes, PlaceTypes, Pieces, Content
<1>5. BillTypes'
  BY GatewayAssumption DEF RecordOk, Goto, reqVars, stateVars, lockVars,
     outVars, TypeInv, BillTypes, PlaceTypes, ChoiceMade, Chosen
<1>6. ChoiceMade'
  BY GatewayAssumption DEF RecordOk, Goto, reqVars, stateVars, lockVars,
     outVars, TypeInv, ChoiceMade, Chosen, PlaceTypes, FailoverTypes
<1> QED BY <1>1, <1>2, <1>3, <1>4, <1>5, <1>6 DEF TypeInv

LEMMA RecordFailsTypes ==
  ASSUME TypeInv, NEW r \in Requests, RecordFails(r)
  PROVE  TypeInv'
<1>1. PlaceTypes'
  BY GatewayAssumption DEF RecordFails, Goto, reqVars, stateVars, lockVars,
     TypeInv, PlaceTypes, Pcs
<1>2. FailoverTypes'
  BY GatewayAssumption DEF RecordFails, Goto, reqVars, stateVars, lockVars,
     TypeInv, FailoverTypes, PlaceTypes, ChoiceMade, Chosen, Switchable,
     Errors, NoRetries, Candidates
<1>3. LockTypes'
  BY GatewayAssumption DEF RecordFails, Goto, reqVars, stateVars, lockVars,
     TypeInv, LockTypes, PlaceTypes, FailoverTypes
<1>4. WriterTypes'
  <2> DEFINE X == Nat \X Pieces
             e == {<<attempt[r], "error">>}
  <2>1. e \in SUBSET X
    BY PieceOf DEF Pieces, Content
  <2>2. /\ started \subseteq Requests
        /\ capture \in [Requests -> {"none", "terminal", "buffer"}]
        /\ held \in [Requests -> SUBSET X] /\ shown \in [Requests -> SUBSET X]
    BY DEF TypeInv, WriterTypes
  <2>3. /\ UNCHANGED started
        /\ capture' \in {capture, [capture EXCEPT ![r] = "none"]}
        /\ held' \in {held, [held EXCEPT ![r] = {}]}
        /\ shown' \in {shown, [shown EXCEPT ![r] = @ \cup e]}
    BY DEF RecordFails
  <2> HIDE DEF X, e
  <2>4. held' \in [Requests -> SUBSET X]
    BY <2>1, <2>2, <2>3, Updated
  <2>5. shown' \in [Requests -> SUBSET X]
    BY <2>1, <2>2, <2>3
  <2>6. capture' \in [Requests -> {"none", "terminal", "buffer"}]
    BY <2>2, <2>3
  <2> QED BY <2>2, <2>3, <2>4, <2>5, <2>6 DEF WriterTypes, X
<1>5. BillTypes'
  BY GatewayAssumption DEF RecordFails, Goto, reqVars, stateVars, lockVars,
     TypeInv, BillTypes, PlaceTypes, ChoiceMade, Chosen
<1>6. ChoiceMade'
  BY GatewayAssumption DEF RecordFails, Goto, reqVars, stateVars, lockVars,
     TypeInv, ChoiceMade, Chosen, PlaceTypes, FailoverTypes
<1> QED BY <1>1, <1>2, <1>3, <1>4, <1>5, <1>6 DEF TypeInv

LEMMA CommitTypes ==
  ASSUME TypeInv, NEW r \in Requests, Commit(r)
  PROVE  TypeInv'
<1>1. PlaceTypes'
  BY GatewayAssumption DEF Commit, CommitBuffer, Contents, Goto, reqVars,
     stateVars, lockVars, billVars, TypeInv, PlaceTypes, Pcs
<1>2. FailoverTypes'
  BY GatewayAssumption DEF Commit, CommitBuffer, Contents, Goto, reqVars,
     stateVars, lockVars, billVars, TypeInv, FailoverTypes, PlaceTypes,
     ChoiceMade, Chosen, Switchable, Errors, NoRetries, Candidates
<1>3. LockTypes'
  BY GatewayAssumption DEF Commit, CommitBuffer, Contents, Goto, reqVars,
     stateVars, lockVars, billVars, TypeInv, LockTypes, PlaceTypes,
     FailoverTypes
<1>4. WriterTypes'
  <2>1. started' \subseteq Requests /\ held[r] \in SUBSET (Nat \X Pieces)
    BY DEF Commit, TypeInv, WriterTypes
  <2>2. CASE CommitBuffer(r, held[r])
    BY <2>1, <2>2, CommitBufferTypes DEF WriterTypes
  <2>3. CASE /\ shown' = [shown EXCEPT ![r] = @ \cup held[r]]
             /\ held' = [held EXCEPT ![r] = {}]
             /\ capture' = [capture EXCEPT ![r] = "none"]
    <3> DEFINE X == Nat \X Pieces
    <3>1. /\ capture \in [Requests -> {"none", "terminal", "buffer"}]
          /\ held \in [Requests -> SUBSET X] /\ shown \in [Requests -> SUBSET X]
      BY DEF TypeInv, WriterTypes
    <3> HIDE DEF X
    <3>2. /\ capture' \in [Requests -> {"none", "terminal", "buffer"}]
          /\ held' \in [Requests -> SUBSET X] /\ shown' \in [Requests -> SUBSET X]
      BY <2>3, <3>1
    <3> QED BY <2>1, <3>2 DEF WriterTypes, X
  <2> QED BY <2>2, <2>3 DEF Commit
<1>5. BillTypes'
  BY GatewayAssumption DEF Commit, CommitBuffer, Contents, Goto, reqVars,
     stateVars, lockVars, billVars, TypeInv, BillTypes, PlaceTypes, ChoiceMade,
     Chosen
<1>6. ChoiceMade'
  BY GatewayAssumption DEF Commit, CommitBuffer, Contents, Goto, reqVars,
     stateVars, lockVars, billVars, TypeInv, ChoiceMade, Chosen, PlaceTypes,
     FailoverTypes
<1> QED BY <1>1, <1>2, <1>3, <1>4, <1>5, <1>6 DEF TypeInv

LEMMA ReturnTypes ==
  ASSUME TypeInv, NEW r \in Requests, Return(r)
  PROVE  TypeInv'
<1>1. PlaceTypes'
  BY GatewayAssumption DEF Return, Abandon, PublishRelease, Forget, Goto,
     lockVars, TypeInv, PlaceTypes, Pcs
<1>2. FailoverTypes'
  BY GatewayAssumption DEF Return, Abandon, PublishRelease, Forget, Goto,
     lockVars, TypeInv, FailoverTypes, PlaceTypes, ChoiceMade, Chosen,
     Switchable, Errors, NoRetries, Candidates
<1>3. LockTypes'
  BY GatewayAssumption DEF Return, Abandon, PublishRelease, Forget, Goto,
     lockVars, TypeInv, LockTypes, PlaceTypes, FailoverTypes
<1>4. WriterTypes'
  BY GatewayAssumption DEF Return, Abandon, PublishRelease, Forget, Goto,
     lockVars, TypeInv, WriterTypes, FailoverTypes, PlaceTypes, Pieces, Content
<1>5. BillTypes'
  BY GatewayAssumption DEF Return, Abandon, PublishRelease, Forget, Goto,
     lockVars, TypeInv, BillTypes, PlaceTypes, ChoiceMade, Chosen
<1>6. ChoiceMade'
  BY GatewayAssumption DEF Return, Abandon, PublishRelease, Forget, Goto,
     lockVars, TypeInv, ChoiceMade, Chosen, PlaceTypes, FailoverTypes
<1> QED BY <1>1, <1>2, <1>3, <1>4, <1>5, <1>6 DEF TypeInv

LEMMA WriteBodyTypes ==
  ASSUME TypeInv, NEW r \in Requests, WriteBody(r)
  PROVE  TypeInv'
<1>1. PlaceTypes'
  BY GatewayAssumption DEF WriteBody, reqVars, stateVars, lockVars, billVars,
     TypeInv, PlaceTypes, Pcs
<1>2. FailoverTypes'
  BY GatewayAssumption DEF WriteBody, reqVars, stateVars, lockVars, billVars,
     TypeInv, FailoverTypes, PlaceTypes, ChoiceMade, Chosen, Switchable,
     Errors, NoRetries, Candidates
<1>3. LockTypes'
  BY GatewayAssumption DEF WriteBody, reqVars, stateVars, lockVars, billVars,
     TypeInv, LockTypes, PlaceTypes, FailoverTypes
<1>4. WriterTypes'
  <2> DEFINE X == Nat \X Pieces
             e == {<<attempt[r], "body">>}
  <2>1. e \in SUBSET X
    BY PieceOf DEF Pieces, Content
  <2>2. /\ started \subseteq Requests
        /\ capture \in [Requests -> {"none", "terminal", "buffer"}]
        /\ held \in [Requests -> SUBSET X] /\ shown \in [Requests -> SUBSET X]
    BY DEF TypeInv, WriterTypes
  <2>3. /\ UNCHANGED <<started, capture>>
        /\ held' \in {[held EXCEPT ![r] = {}], [held EXCEPT ![r] = @ \cup e]}
        /\ shown' \in {shown, [shown EXCEPT ![r] = @ \cup held[r] \cup e]}
    BY DEF WriteBody
  <2> HIDE DEF X, e
  <2>4. held' \in [Requests -> SUBSET X]
    BY <2>1, <2>2, <2>3, Updated
  <2>5. shown' \in [Requests -> SUBSET X]
    BY <2>1, <2>2, <2>3
  <2>6. capture' \in [Requests -> {"none", "terminal", "buffer"}]
    BY <2>2, <2>3
  <2> QED BY <2>2, <2>3, <2>4, <2>5, <2>6 DEF WriterTypes, X
<1>5. BillTypes'
  BY GatewayAssumption DEF WriteBody, reqVars, stateVars, lockVars, billVars,
     TypeInv, BillTypes, PlaceTypes, ChoiceMade, Chosen
<1>6. ChoiceMade'
  BY GatewayAssumption DEF WriteBody, reqVars, stateVars, lockVars, billVars,
     TypeInv, ChoiceMade, Chosen, PlaceTypes, FailoverTypes
<1> QED BY <1>1, <1>2, <1>3, <1>4, <1>5, <1>6 DEF TypeInv

LEMMA CrashTypes ==
  ASSUME TypeInv, NEW r \in Requests, Crash(r)
  PROVE  TypeInv'
<1>1. PlaceTypes'
  BY GatewayAssumption DEF Crash, Alive, Forget, Goto, outVars, billVars,
     TypeInv, PlaceTypes, Pcs
<1>2. FailoverTypes'
  BY GatewayAssumption DEF Crash, Alive, Forget, Goto, outVars, billVars,
     TypeInv, FailoverTypes, PlaceTypes, ChoiceMade, Chosen, Switchable,
     Errors, NoRetries, Candidates
<1>3. LockTypes'
  BY GatewayAssumption DEF Crash, Alive, Forget, Goto, outVars, billVars,
     TypeInv, LockTypes, PlaceTypes, FailoverTypes
<1>4. WriterTypes'
  BY GatewayAssumption DEF Crash, Alive, Forget, Goto, outVars, billVars,
     TypeInv, WriterTypes, FailoverTypes, PlaceTypes, Pieces, Content
<1>5. BillTypes'
  BY GatewayAssumption DEF Crash, Alive, Forget, Goto, outVars, billVars,
     TypeInv, BillTypes, PlaceTypes, ChoiceMade, Chosen
<1>6. ChoiceMade'
  BY GatewayAssumption DEF Crash, Alive, Forget, Goto, outVars, billVars,
     TypeInv, ChoiceMade, Chosen, PlaceTypes, FailoverTypes
<1> QED BY <1>1, <1>2, <1>3, <1>4, <1>5, <1>6 DEF TypeInv

LEMMA ClientLeavesTypes ==
  ASSUME TypeInv, NEW r \in Requests, ClientLeaves(r)
  PROVE  TypeInv'
<1>1. PlaceTypes'
  BY GatewayAssumption DEF ClientLeaves, Alive, reqVars, stateVars, lockVars,
     outVars, billVars, TypeInv, PlaceTypes, Pcs
<1>2. FailoverTypes'
  BY GatewayAssumption DEF ClientLeaves, Alive, reqVars, stateVars, lockVars,
     outVars, billVars, TypeInv, FailoverTypes, PlaceTypes, ChoiceMade, Chosen,
     Switchable, Errors, NoRetries, Candidates
<1>3. LockTypes'
  BY GatewayAssumption DEF ClientLeaves, Alive, reqVars, stateVars, lockVars,
     outVars, billVars, TypeInv, LockTypes, PlaceTypes, FailoverTypes
<1>4. WriterTypes'
  BY GatewayAssumption DEF ClientLeaves, Alive, reqVars, stateVars, lockVars,
     outVars, billVars, TypeInv, WriterTypes, FailoverTypes, PlaceTypes,
     Pieces, Content
<1>5. BillTypes'
  BY GatewayAssumption DEF ClientLeaves, Alive, reqVars, stateVars, lockVars,
     outVars, billVars, TypeInv, BillTypes, PlaceTypes, ChoiceMade, Chosen
<1>6. ChoiceMade'
  BY GatewayAssumption DEF ClientLeaves, Alive, reqVars, stateVars, lockVars,
     outVars, billVars, TypeInv, ChoiceMade, Chosen, PlaceTypes, FailoverTypes
<1> QED BY <1>1, <1>2, <1>3, <1>4, <1>5, <1>6 DEF TypeInv

LEMMA SlotOnDoneTypes ==
  ASSUME TypeInv, NEW r \in Requests, SlotOnDone(r)
  PROVE  TypeInv'
<1>1. PlaceTypes'
  BY GatewayAssumption DEF SlotOnDone, Alive, ReleaseSlot, reqVars, stateVars,
     lockVars, outVars, billVars, TypeInv, PlaceTypes, Pcs
<1>2. FailoverTypes'
  BY GatewayAssumption DEF SlotOnDone, Alive, ReleaseSlot, reqVars, stateVars,
     lockVars, outVars, billVars, TypeInv, FailoverTypes, PlaceTypes,
     ChoiceMade, Chosen, Switchable, Errors, NoRetries, Candidates
<1>3. LockTypes'
  BY GatewayAssumption DEF SlotOnDone, Alive, ReleaseSlot, reqVars, stateVars,
     lockVars, outVars, billVars, TypeInv, LockTypes, PlaceTypes, FailoverTypes
<1>4. WriterTypes'
  BY GatewayAssumption DEF SlotOnDone, Alive, ReleaseSlot, reqVars, stateVars,
     lockVars, outVars, billVars, TypeInv, WriterTypes, FailoverTypes,
     PlaceTypes, Pieces, Content
<1>5. BillTypes'
  BY GatewayAssumption DEF SlotOnDone, Alive, ReleaseSlot, reqVars, stateVars,
     lockVars, outVars, billVars, TypeInv, BillTypes, PlaceTypes, ChoiceMade,
     Chosen
<1>6. ChoiceMade'
  BY GatewayAssumption DEF SlotOnDone, Alive, ReleaseSlot, reqVars, stateVars,
     lockVars, outVars, billVars, TypeInv, ChoiceMade, Chosen, PlaceTypes,
     FailoverTypes
<1> QED BY <1>1, <1>2, <1>3, <1>4, <1>5, <1>6 DEF TypeInv

LEMMA QueueOnDoneTypes ==
  ASSUME TypeInv, NEW r \in Requests, QueueOnDone(r)
  PROVE  TypeInv'
<1>1. PlaceTypes'
  BY GatewayAssumption DEF QueueOnDone, Alive, ReleaseQueue, reqVars,
     stateVars, outVars, billVars, TypeInv, PlaceTypes, Pcs
<1>2. FailoverTypes'
  BY GatewayAssumption DEF QueueOnDone, Alive, ReleaseQueue, reqVars,
     stateVars, outVars, billVars, TypeInv, FailoverTypes, PlaceTypes,
     ChoiceMade, Chosen, Switchable, Errors, NoRetries, Candidates
<1>3. LockTypes'
  <2>1. slot' \in [Requests -> Accounts \cup {NoAccount}]
    BY DEF QueueOnDone, TypeInv, LockTypes
  <2> QED BY <2>1, ReleaseQueueTypes DEF QueueOnDone
<1>4. WriterTypes'
  BY GatewayAssumption DEF QueueOnDone, Alive, ReleaseQueue, reqVars,
     stateVars, outVars, billVars, TypeInv, WriterTypes, FailoverTypes,
     PlaceTypes, Pieces, Content
<1>5. BillTypes'
  BY GatewayAssumption DEF QueueOnDone, Alive, ReleaseQueue, reqVars,
     stateVars, outVars, billVars, TypeInv, BillTypes, PlaceTypes, ChoiceMade,
     Chosen
<1>6. ChoiceMade'
  BY GatewayAssumption DEF QueueOnDone, Alive, ReleaseQueue, reqVars,
     stateVars, outVars, billVars, TypeInv, ChoiceMade, Chosen, PlaceTypes,
     FailoverTypes
<1> QED BY <1>1, <1>2, <1>3, <1>4, <1>5, <1>6 DEF TypeInv

LEMMA LockExpiresTypes ==
  ASSUME TypeInv, NEW a \in Accounts, LockExpires(a)
  PROVE  TypeInv'
<1>1. PlaceTypes'
  BY GatewayAssumption DEF LockExpires, reqVars, stateVars, outVars, billVars,
     TypeInv, PlaceTypes, Pcs
<1>2. FailoverTypes'
  BY GatewayAssumption DEF LockExpires, reqVars, stateVars, outVars, billVars,
     TypeInv, FailoverTypes, PlaceTypes, ChoiceMade, Chosen, Switchable,
     Errors, NoRetries, Candidates
<1>3. LockTypes'
  BY GatewayAssumption DEF LockExpires, reqVars, stateVars, outVars, billVars,
     TypeInv, LockTypes, PlaceTypes, FailoverTypes
<1>4. WriterTypes'
  BY GatewayAssumption DEF LockExpires, reqVars, stateVars, outVars, billVars,
     TypeInv, WriterTypes, FailoverTypes, PlaceTypes, Pieces, Content
<1>5. BillTypes'
  BY GatewayAssumption DEF LockExpires, reqVars, stateVars, outVars, billVars,
     TypeInv, BillTypes, PlaceTypes, ChoiceMade, Chosen
<1>6. ChoiceMade'
  BY GatewayAssumption DEF LockExpires, reqVars, stateVars, outVars, billVars,
     TypeInv, ChoiceMade, Chosen, PlaceTypes, FailoverTypes
<1> QED BY <1>1, <1>2, <1>3, <1>4, <1>5, <1>6 DEF TypeInv

LEMMA LoseTTLTypes ==
  ASSUME TypeInv, NEW a \in Accounts, LoseTTL(a)
  PROVE  TypeInv'
<1>1. PlaceTypes'
  BY GatewayAssumption DEF LoseTTL, reqVars, stateVars, outVars, billVars,
     TypeInv, PlaceTypes, Pcs
<1>2. FailoverTypes'
  BY GatewayAssumption DEF LoseTTL, reqVars, stateVars, outVars, billVars,
     TypeInv, FailoverTypes, PlaceTypes, ChoiceMade, Chosen, Switchable,
     Errors, NoRetries, Candidates
<1>3. LockTypes'
  BY GatewayAssumption DEF LoseTTL, reqVars, stateVars, outVars, billVars,
     TypeInv, LockTypes, PlaceTypes, FailoverTypes
<1>4. WriterTypes'
  BY GatewayAssumption DEF LoseTTL, reqVars, stateVars, outVars, billVars,
     TypeInv, WriterTypes, FailoverTypes, PlaceTypes, Pieces, Content
<1>5. BillTypes'
  BY GatewayAssumption DEF LoseTTL, reqVars, stateVars, outVars, billVars,
     TypeInv, BillTypes, PlaceTypes, ChoiceMade, Chosen
<1>6. ChoiceMade'
  BY GatewayAssumption DEF LoseTTL, reqVars, stateVars, outVars, billVars,
     TypeInv, ChoiceMade, Chosen, PlaceTypes, FailoverTypes
<1> QED BY <1>1, <1>2, <1>3, <1>4, <1>5, <1>6 DEF TypeInv

LEMMA ForceReleaseTypes ==
  ASSUME TypeInv, NEW a \in Accounts, ForceRelease(a)
  PROVE  TypeInv'
<1>1. PlaceTypes'
  BY GatewayAssumption DEF ForceRelease, reqVars, stateVars, outVars, billVars,
     TypeInv, PlaceTypes, Pcs
<1>2. FailoverTypes'
  BY GatewayAssumption DEF ForceRelease, reqVars, stateVars, outVars, billVars,
     TypeInv, FailoverTypes, PlaceTypes, ChoiceMade, Chosen, Switchable,
     Errors, NoRetries, Candidates
<1>3. LockTypes'
  BY GatewayAssumption DEF ForceRelease, reqVars, stateVars, outVars, billVars,
     TypeInv, LockTypes, PlaceTypes, FailoverTypes
<1>4. WriterTypes'
  BY GatewayAssumption DEF ForceRelease, reqVars, stateVars, outVars, billVars,
     TypeInv, WriterTypes, FailoverTypes, PlaceTypes, Pieces, Content
<1>5. BillTypes'
  BY GatewayAssumption DEF ForceRelease, reqVars, stateVars, outVars, billVars,
     TypeInv, BillTypes, PlaceTypes, ChoiceMade, Chosen
<1>6. ChoiceMade'
  BY GatewayAssumption DEF ForceRelease, reqVars, stateVars, outVars, billVars,
     TypeInv, ChoiceMade, Chosen, PlaceTypes, FailoverTypes
<1> QED BY <1>1, <1>2, <1>3, <1>4, <1>5, <1>6 DEF TypeInv

LEMMA StepTypes ==
  ASSUME TypeInv, NEW r \in Requests, RequestStep(r)
  PROVE  TypeInv'
<1>1. CASE Select(r)
  BY <1>1, SelectTypes
<1>2. CASE SlotTimeout(r)
  BY <1>2, SlotTimeoutTypes
<1>3. CASE Intercept(r)
  BY <1>3, InterceptTypes
<1>4. CASE Backoff(r)
  BY <1>4, BackoffTypes
<1>5. CASE NoneLeft(r)
  BY <1>5, NoneLeftTypes
<1>6. CASE QueueAcquire(r)
  BY <1>6, QueueAcquireTypes
<1>7. CASE QueueFailOpen(r)
  BY <1>7, QueueFailOpenTypes
<1>8. CASE QueueTimeout(r)
  BY <1>8, QueueTimeoutTypes
<1>9. CASE ReserveFails(r)
  BY <1>9, ReserveFailsTypes
<1>10. CASE Forward(r)
  BY <1>10, ForwardTypes
<1>11. CASE Accepted(r)
  BY <1>11, AcceptedTypes
<1>12. CASE Refused(r)
  BY <1>12, RefusedTypes
<1>13. CASE Finishes(r)
  BY <1>13, FinishesTypes
<1>14. CASE Breaks(r)
  BY <1>14, BreaksTypes
<1>15. CASE GiveUpStreamed(r)
  BY <1>15, GiveUpStreamedTypes
<1>16. CASE RetrySame(r)
  BY <1>16, RetrySameTypes
<1>17. CASE Switch(r)
  BY <1>17, SwitchTypes
<1>18. CASE Exhausted(r)
  BY <1>18, ExhaustedTypes
<1>19. CASE Canceled(r)
  BY <1>19, CanceledTypes
<1>20. CASE UseFallback(r)
  BY <1>20, UseFallbackTypes
<1>21. CASE EndWithError(r)
  BY <1>21, EndWithErrorTypes
<1>22. CASE ForwardFailed(r)
  BY <1>22, ForwardFailedTypes
<1>23. CASE RecordOk(r)
  BY <1>23, RecordOkTypes
<1>24. CASE RecordFails(r)
  BY <1>24, RecordFailsTypes
<1>25. CASE Commit(r)
  BY <1>25, CommitTypes
<1>26. CASE Return(r)
  BY <1>26, ReturnTypes
<1>27. CASE WriteBody(r)
  BY <1>27, WriteBodyTypes
<1>28. CASE Crash(r)
  BY <1>28, CrashTypes
<1>29. CASE ClientLeaves(r)
  BY <1>29, ClientLeavesTypes
<1>30. CASE SlotOnDone(r)
  BY <1>30, SlotOnDoneTypes
<1>31. CASE QueueOnDone(r)
  BY <1>31, QueueOnDoneTypes
<1> QED BY <1>1, <1>2, <1>3, <1>4, <1>5, <1>6, <1>7, <1>8, <1>9, <1>10, <1>11,
     <1>12, <1>13, <1>14, <1>15, <1>16, <1>17, <1>18, <1>19, <1>20, <1>21,
     <1>22, <1>23, <1>24, <1>25, <1>26, <1>27, <1>28, <1>29, <1>30, <1>31 DEF
     RequestStep, Step

LEMMA NextTypes ==
  ASSUME TypeInv, [Next]_vars
  PROVE  TypeInv'
<1>1. ASSUME NEW r \in Requests, RequestStep(r) PROVE TypeInv'
  BY <1>1, StepTypes
<1>2. ASSUME NEW a \in Accounts, LockExpires(a) \/ LoseTTL(a) \/ ForceRelease(a)
      PROVE  TypeInv'
  BY <1>2, LockExpiresTypes, LoseTTLTypes, ForceReleaseTypes
<1>3. CASE UNCHANGED vars
  BY <1>3 DEF vars, reqVars, stateVars, lockVars, outVars, billVars, TypeInv,
     PlaceTypes, FailoverTypes, LockTypes, WriterTypes, BillTypes, ChoiceMade
<1> QED BY <1>1, <1>2, <1>3 DEF Next, RequestStep

\* Every step leaves the types as they are: the inductive type invariant.
THEOREM TypesInvariant == Spec => []TypeInv
<1>1. Init => TypeInv
  <2> SUFFICES ASSUME Init PROVE TypeInv
    OBVIOUS
  <2>1. PlaceTypes
    BY GatewayAssumption DEF Init, PlaceTypes, Pcs
  <2>2. FailoverTypes
    BY GatewayAssumption DEF Init, FailoverTypes, NoRetries
  <2>3. LockTypes /\ WriterTypes /\ BillTypes
    BY DEF Init, LockTypes, WriterTypes, BillTypes
  <2>4. ChoiceMade
    BY <2>1 DEF Init, PlaceTypes, ChoiceMade, Chosen
  <2> QED BY <2>1, <2>2, <2>3, <2>4 DEF TypeInv
<1>2. TypeInv /\ [Next]_vars => TypeInv'
  BY NextTypes
<1> QED BY <1>1, <1>2, PTL DEF Spec

\* Every variable of the handlers keeps its type.
THEOREM GatewayTypes == Spec => []TypeOK
BY TypesInvariant, TypeInvImpliesTypeOK, PTL

-----------------------------------------------------------------------------
(* The inductive invariant *)

\* The places in the handler before an attempt, and in one.
Before == {"select", "queue", "reserve"}
During == {"sending", "streaming", "failed", "record", "commit"}

\* The writer an attempt of a request has.
WriterOf(m) == CASE m = "stream" -> "terminal"
                 [] m = "buffer" -> "buffer"
                 [] OTHER -> "none"

Ends(S) == {x \in S : x[2] = "end"}

\* What belongs to one request at its place in the handler: its slot and its
\* place in the queue,
Placed(r) ==
  /\ slot[r] # NoAccount =>
       pc[r] \in {"queue", "reserve", "sending", "streaming", "dead"}
  /\ r \in queued => pc[r] \in {"reserve", "sending"}
  /\ Alive(r) => mode[r] \in AllModes

\* the writer, and that content comes from the current attempt only,
Captured(r) ==
  /\ pc[r] \in Before => capture[r] = "none"
  /\ pc[r] \in During => capture[r] = WriterOf(mode[r])
  /\ capture[r] = "none" /\ pc[r] # "dead" => held[r] = {}
  /\ pc[r] = "done" => capture[r] = "none"

FromAttempt(r) ==
  /\ pc[r] \in Before \cup {"sending"} =>
       Contents(shown[r]) = {} /\ held[r] = {}
  /\ pc[r] = "failed" /\ error[r] = "too_long" => Contents(shown[r]) = {}
  /\ Alive(r) => \A x \in Contents(shown[r]) \cup Contents(held[r]) :
                   x[1] = attempt[r]
  /\ pc[r] \in During /\ capture[r] = "buffer" => Contents(shown[r]) = {}
  /\ \A x, y \in Contents(shown[r]) : x[1] = y[1]

\* that the end is held back until the charge is published,
Billed(r) == r \in charged \/ (mode[r] = "stream" /\ r \in unsure)

EndHeld(r) ==
  /\ Ends(held[r]) # {} => pc[r] \in {"record", "commit", "dead"}
  /\ pc[r] = "commit" => mode[r] # "plain" /\ Billed(r)
  /\ mode[r] # "plain" /\ Ends(shown[r]) # {} => Billed(r)

\* and the reservation.
Reserved(r) ==
  /\ pc[r] \in Before => r \notin published
  /\ pc[r] \in Before \cup {"sending", "streaming", "failed", "record"} =>
       r \notin finalized
  /\ r \notin unsure /\ pc[r] # "dead" =>
       /\ open[r] \subseteq IF pc[r] \in Reserving THEN {acct[r]} ELSE {}
       /\ open[r] # {} => r \in published \ finalized

Local(r) ==
  /\ Placed(r) /\ Captured(r) /\ FromAttempt(r) /\ EndHeld(r) /\ Reserved(r)

\* Who holds the lock of an account.
LockInv ==
  /\ \A r \in queued \ lapsed : lock[acct[r]] = r
  /\ \A a \in Accounts, r \in Requests :
       lock[a] = r => r \in queued /\ acct[r] = a

\* The retries on the same account, one by one.
Spent(f) == {x \in Accounts \X (1 .. MaxSame) : x[2] <= f[x[1]]}

\* The attempts one failover state allows.
Budget(r) == MaxSwitches[r] + 1 + MaxSame * Cardinality(Accounts)

Counted(r) ==
  /\ switches[r] <= MaxSwitches[r]
  /\ attempt[r] <= (IF group[r] = "primary" THEN 0 ELSE Budget(r))
                   + switches[r] + Cardinality(Spent(same[r]))
                   + (IF pc[r] \in Reserving THEN 1 ELSE 0)

\* A step of one request leaves the others alone.
Untouched(s) ==
  /\ pc'[s] = pc[s] /\ mode'[s] = mode[s] /\ group'[s] = group[s]
  /\ attempt'[s] = attempt[s] /\ acct'[s] = acct[s] /\ same'[s] = same[s]
  /\ switches'[s] = switches[s] /\ error'[s] = error[s]
  /\ slot'[s] = slot[s] /\ (s \in queued' <=> s \in queued)
  /\ capture'[s] = capture[s] /\ held'[s] = held[s] /\ shown'[s] = shown[s]
  /\ (s \in published' <=> s \in published)
  /\ (s \in finalized' <=> s \in finalized)
  /\ open'[s] = open[s]
  /\ (s \in charged' <=> s \in charged) /\ (s \in unsure' <=> s \in unsure)

LEMMA LocalFrame ==
  ASSUME NEW s \in Requests, Untouched(s), Local(s)
  PROVE  Local(s)'
<1>1. Placed(s)'
  BY DEF Untouched, Local, Placed, Alive
<1>2. Captured(s)'
  BY DEF Untouched, Local, Captured, Before, During, WriterOf
<1>3. FromAttempt(s)'
  BY DEF Untouched, Local, FromAttempt, Before, During, Contents, Alive
<1>4. EndHeld(s)'
  BY DEF Untouched, Local, EndHeld, Ends, Billed
<1>5. Reserved(s)'
  BY DEF Untouched, Local, Reserved, Before, Reserving
<1> QED BY <1>1, <1>2, <1>3, <1>4, <1>5 DEF Local

\* What is no content.
LEMMA Kinds ==
  Contents({}) = {} /\ \A n : Contents({<<n, "error">>}) = {}
BY DEF Contents, Content

\* An error message shows nothing but what was held back.
LEMMA ReplyShows ==
  ASSUME TypeInv, NEW r \in Requests, NEW sse, Reply(r, sse)
  PROVE  /\ Contents(shown'[r]) \subseteq Contents(shown[r]) \cup Contents(held[r])
         /\ Contents(held'[r]) \subseteq Contents(held[r])
<1> DEFINE e == {<<attempt[r], "error">>}
<1>1. held'[r] \in {held[r], {}, held[r] \cup e}
  BY DEF Reply, CommitBuffer, TypeInv, WriterTypes
<1>2. shown'[r] \in {shown[r], shown[r] \cup e, shown[r] \cup (held[r] \cup e)}
  BY DEF Reply, CommitBuffer, TypeInv, WriterTypes
<1>3. Contents(e) = {}
  BY Kinds
<1> HIDE DEF e
<1>4. /\ Contents(held[r] \cup e) \subseteq Contents(held[r])
      /\ Contents(shown[r] \cup e) \subseteq Contents(shown[r])
      /\ Contents(shown[r] \cup (held[r] \cup e)) \subseteq
           Contents(shown[r]) \cup Contents(held[r])
  BY <1>3 DEF Contents
<1>5. Contents({}) = {}
  BY Kinds
<1> QED BY <1>1, <1>2, <1>4, <1>5

LEMMA SelectFrame ==
  ASSUME TypeInv, NEW r \in Requests, Select(r),
         NEW s \in Requests, s # r
  PROVE  Untouched(s)
BY DEF Select, Candidates, Goto, MayPing, reqVars, lockVars, billVars,
   Untouched, TypeInv, PlaceTypes, FailoverTypes, LockTypes, WriterTypes,
   BillTypes

LEMMA SlotTimeoutFrame ==
  ASSUME TypeInv, NEW r \in Requests, SlotTimeout(r),
         NEW s \in Requests, s # r
  PROVE  Untouched(s)
BY DEF SlotTimeout, Candidates, Reply, Holds, CommitBuffer, Contents, Goto,
   reqVars, stateVars, lockVars, billVars, Untouched, TypeInv, PlaceTypes,
   FailoverTypes, LockTypes, WriterTypes, BillTypes

LEMMA InterceptFrame ==
  ASSUME TypeInv, NEW r \in Requests, Intercept(r),
         NEW s \in Requests, s # r
  PROVE  Untouched(s)
BY DEF Intercept, Candidates, Goto, reqVars, stateVars, lockVars, billVars,
   Untouched, TypeInv, PlaceTypes, FailoverTypes, LockTypes, WriterTypes,
   BillTypes

LEMMA BackoffFrame ==
  ASSUME TypeInv, NEW r \in Requests, Backoff(r),
         NEW s \in Requests, s # r
  PROVE  Untouched(s)
BY DEF Backoff, reqVars, lockVars, outVars, billVars, Untouched, TypeInv,
   PlaceTypes, FailoverTypes, LockTypes, WriterTypes, BillTypes

LEMMA NoneLeftFrame ==
  ASSUME TypeInv, NEW r \in Requests, NoneLeft(r),
         NEW s \in Requests, s # r
  PROVE  Untouched(s)
BY DEF NoneLeft, Reply, Holds, CommitBuffer, Contents, outVars, Goto, reqVars,
   stateVars, lockVars, billVars, Untouched, TypeInv, PlaceTypes,
   FailoverTypes, LockTypes, WriterTypes, BillTypes

LEMMA QueueAcquireFrame ==
  ASSUME TypeInv, NEW r \in Requests, QueueAcquire(r),
         NEW s \in Requests, s # r
  PROVE  Untouched(s)
BY DEF QueueAcquire, Goto, MayPing, reqVars, stateVars, billVars, Untouched,
   TypeInv, PlaceTypes, FailoverTypes, LockTypes, WriterTypes, BillTypes

LEMMA QueueFailOpenFrame ==
  ASSUME TypeInv, NEW r \in Requests, QueueFailOpen(r),
         NEW s \in Requests, s # r
  PROVE  Untouched(s)
BY DEF QueueFailOpen, Goto, reqVars, stateVars, outVars, billVars, Untouched,
   TypeInv, PlaceTypes, FailoverTypes, LockTypes, WriterTypes, BillTypes

LEMMA QueueTimeoutFrame ==
  ASSUME TypeInv, NEW r \in Requests, QueueTimeout(r),
         NEW s \in Requests, s # r
  PROVE  Untouched(s)
BY DEF QueueTimeout, Goto, MayPing, reqVars, stateVars, lockVars, billVars,
   Untouched, TypeInv, PlaceTypes, FailoverTypes, LockTypes, WriterTypes,
   BillTypes

LEMMA ReserveFailsFrame ==
  ASSUME TypeInv, NEW r \in Requests, ReserveFails(r),
         NEW s \in Requests, s # r
  PROVE  Untouched(s)
BY DEF ReserveFails, ReleaseSlot, ReleaseQueue, Reply, Holds, CommitBuffer,
   Contents, Goto, reqVars, stateVars, Untouched, TypeInv, PlaceTypes,
   FailoverTypes, LockTypes, WriterTypes, BillTypes

LEMMA ForwardFrame ==
  ASSUME TypeInv, NEW r \in Requests, Forward(r),
         NEW s \in Requests, s # r
  PROVE  Untouched(s)
BY DEF Forward, Goto, reqVars, lockVars, Untouched, TypeInv, PlaceTypes,
   FailoverTypes, LockTypes, WriterTypes, BillTypes

LEMMA AcceptedFrame ==
  ASSUME TypeInv, NEW r \in Requests, Accepted(r),
         NEW s \in Requests, s # r
  PROVE  Untouched(s)
BY DEF Accepted, ReleaseQueue, Goto, reqVars, stateVars, outVars, billVars,
   Untouched, TypeInv, PlaceTypes, FailoverTypes, LockTypes, WriterTypes,
   BillTypes

LEMMA RefusedFrame ==
  ASSUME TypeInv, NEW r \in Requests, Refused(r),
         NEW s \in Requests, s # r
  PROVE  Untouched(s)
BY DEF Refused, Returned, ReleaseQueue, ReleaseSlot, Goto, reqVars, outVars,
   billVars, Untouched, TypeInv, PlaceTypes, FailoverTypes, LockTypes,
   WriterTypes, BillTypes

LEMMA FinishesFrame ==
  ASSUME TypeInv, NEW r \in Requests, Finishes(r),
         NEW s \in Requests, s # r
  PROVE  Untouched(s)
BY DEF Finishes, Returned, ReleaseQueue, ReleaseSlot, Goto, reqVars, stateVars,
   billVars, Untouched, TypeInv, PlaceTypes, FailoverTypes, LockTypes,
   WriterTypes, BillTypes

LEMMA BreaksFrame ==
  ASSUME TypeInv, NEW r \in Requests, Breaks(r),
         NEW s \in Requests, s # r
  PROVE  Untouched(s)
BY DEF Breaks, Returned, ReleaseQueue, ReleaseSlot, Goto, reqVars, outVars,
   billVars, Untouched, TypeInv, PlaceTypes, FailoverTypes, LockTypes,
   WriterTypes, BillTypes

LEMMA GiveUpStreamedFrame ==
  ASSUME TypeInv, NEW r \in Requests, GiveUpStreamed(r),
         NEW s \in Requests, s # r
  PROVE  Untouched(s)
BY DEF GiveUpStreamed, Written, Contents, Reply, Holds, CommitBuffer, Leave,
   Goto, reqVars, lockVars, billVars, Untouched, TypeInv, PlaceTypes,
   FailoverTypes, LockTypes, WriterTypes, BillTypes

LEMMA RetrySameFrame ==
  ASSUME TypeInv, NEW r \in Requests, RetrySame(r),
         NEW s \in Requests, s # r
  PROVE  Untouched(s)
BY DEF RetrySame, CanSwitch, Written, Contents, MayRetry, Again, Abandon,
   PublishRelease, Goto, reqVars, lockVars, Untouched, TypeInv, PlaceTypes,
   FailoverTypes, LockTypes, WriterTypes, BillTypes

LEMMA SwitchFrame ==
  ASSUME TypeInv, NEW r \in Requests, Switch(r),
         NEW s \in Requests, s # r
  PROVE  Untouched(s)
BY DEF Switch, CanSwitch, Written, Contents, MayRetry, Again, Abandon,
   PublishRelease, Goto, reqVars, lockVars, Untouched, TypeInv, PlaceTypes,
   FailoverTypes, LockTypes, WriterTypes, BillTypes

LEMMA ExhaustedFrame ==
  ASSUME TypeInv, NEW r \in Requests, Exhausted(r),
         NEW s \in Requests, s # r
  PROVE  Untouched(s)
BY DEF Exhausted, CanSwitch, Written, Contents, MayRetry, Reply, Holds,
   CommitBuffer, Leave, Goto, reqVars, lockVars, billVars, Untouched, TypeInv,
   PlaceTypes, FailoverTypes, LockTypes, WriterTypes, BillTypes

LEMMA CanceledFrame ==
  ASSUME TypeInv, NEW r \in Requests, Canceled(r),
         NEW s \in Requests, s # r
  PROVE  Untouched(s)
BY DEF Canceled, CanSwitch, Written, Contents, MayRetry, Leave, Goto, reqVars,
   lockVars, billVars, Untouched, TypeInv, PlaceTypes, FailoverTypes,
   LockTypes, WriterTypes, BillTypes

LEMMA UseFallbackFrame ==
  ASSUME TypeInv, NEW r \in Requests, UseFallback(r),
         NEW s \in Requests, s # r
  PROVE  Untouched(s)
BY DEF UseFallback, Again, Abandon, PublishRelease, Goto, lockVars, Untouched,
   TypeInv, PlaceTypes, FailoverTypes, LockTypes, WriterTypes, BillTypes

LEMMA EndWithErrorFrame ==
  ASSUME TypeInv, NEW r \in Requests, EndWithError(r),
         NEW s \in Requests, s # r
  PROVE  Untouched(s)
BY DEF EndWithError, Reply, Holds, CommitBuffer, Contents, Leave, Goto,
   reqVars, lockVars, billVars, Untouched, TypeInv, PlaceTypes, FailoverTypes,
   LockTypes, WriterTypes, BillTypes

LEMMA ForwardFailedFrame ==
  ASSUME TypeInv, NEW r \in Requests, ForwardFailed(r),
         NEW s \in Requests, s # r
  PROVE  Untouched(s)
BY DEF ForwardFailed, Reply, Holds, CommitBuffer, Contents, Written, Leave,
   Goto, reqVars, lockVars, billVars, Untouched, TypeInv, PlaceTypes,
   FailoverTypes, LockTypes, WriterTypes, BillTypes

LEMMA RecordOkFrame ==
  ASSUME TypeInv, NEW r \in Requests, RecordOk(r),
         NEW s \in Requests, s # r
  PROVE  Untouched(s)
BY DEF RecordOk, Goto, reqVars, stateVars, lockVars, outVars, Untouched,
   TypeInv, PlaceTypes, FailoverTypes, LockTypes, WriterTypes, BillTypes

LEMMA RecordFailsFrame ==
  ASSUME TypeInv, NEW r \in Requests, RecordFails(r),
         NEW s \in Requests, s # r
  PROVE  Untouched(s)
BY DEF RecordFails, Goto, reqVars, stateVars, lockVars, Untouched, TypeInv,
   PlaceTypes, FailoverTypes, LockTypes, WriterTypes, BillTypes

LEMMA CommitFrame ==
  ASSUME TypeInv, NEW r \in Requests, Commit(r),
         NEW s \in Requests, s # r
  PROVE  Untouched(s)
BY DEF Commit, CommitBuffer, Contents, Goto, reqVars, stateVars, lockVars,
   billVars, Untouched, TypeInv, PlaceTypes, FailoverTypes, LockTypes,
   WriterTypes, BillTypes

LEMMA ReturnFrame ==
  ASSUME TypeInv, NEW r \in Requests, Return(r),
         NEW s \in Requests, s # r
  PROVE  Untouched(s)
BY DEF Return, Abandon, PublishRelease, Forget, Goto, lockVars, Untouched,
   TypeInv, PlaceTypes, FailoverTypes, LockTypes, WriterTypes, BillTypes

LEMMA WriteBodyFrame ==
  ASSUME TypeInv, NEW r \in Requests, WriteBody(r),
         NEW s \in Requests, s # r
  PROVE  Untouched(s)
BY DEF WriteBody, reqVars, stateVars, lockVars, billVars, Untouched, TypeInv,
   PlaceTypes, FailoverTypes, LockTypes, WriterTypes, BillTypes

LEMMA CrashFrame ==
  ASSUME TypeInv, NEW r \in Requests, Crash(r),
         NEW s \in Requests, s # r
  PROVE  Untouched(s)
BY DEF Crash, Alive, Forget, Goto, outVars, billVars, Untouched, TypeInv,
   PlaceTypes, FailoverTypes, LockTypes, WriterTypes, BillTypes

LEMMA ClientLeavesFrame ==
  ASSUME TypeInv, NEW r \in Requests, ClientLeaves(r),
         NEW s \in Requests, s # r
  PROVE  Untouched(s)
BY DEF ClientLeaves, Alive, reqVars, stateVars, lockVars, outVars, billVars,
   Untouched, TypeInv, PlaceTypes, FailoverTypes, LockTypes, WriterTypes,
   BillTypes

LEMMA SlotOnDoneFrame ==
  ASSUME TypeInv, NEW r \in Requests, SlotOnDone(r),
         NEW s \in Requests, s # r
  PROVE  Untouched(s)
BY DEF SlotOnDone, Alive, ReleaseSlot, reqVars, stateVars, lockVars, outVars,
   billVars, Untouched, TypeInv, PlaceTypes, FailoverTypes, LockTypes,
   WriterTypes, BillTypes

LEMMA QueueOnDoneFrame ==
  ASSUME TypeInv, NEW r \in Requests, QueueOnDone(r),
         NEW s \in Requests, s # r
  PROVE  Untouched(s)
BY DEF QueueOnDone, Alive, ReleaseQueue, reqVars, stateVars, outVars, billVars,
   Untouched, TypeInv, PlaceTypes, FailoverTypes, LockTypes, WriterTypes,
   BillTypes

LEMMA LockExpiresFrame ==
  ASSUME TypeInv, NEW a \in Accounts, LockExpires(a),
         NEW s \in Requests
  PROVE  Untouched(s)
BY DEF LockExpires, reqVars, stateVars, outVars, billVars, Untouched, TypeInv,
   PlaceTypes, FailoverTypes, LockTypes, WriterTypes, BillTypes

LEMMA LoseTTLFrame ==
  ASSUME TypeInv, NEW a \in Accounts, LoseTTL(a),
         NEW s \in Requests
  PROVE  Untouched(s)
BY DEF LoseTTL, reqVars, stateVars, outVars, billVars, Untouched, TypeInv,
   PlaceTypes, FailoverTypes, LockTypes, WriterTypes, BillTypes

LEMMA ForceReleaseFrame ==
  ASSUME TypeInv, NEW a \in Accounts, ForceRelease(a),
         NEW s \in Requests
  PROVE  Untouched(s)
BY DEF ForceRelease, reqVars, stateVars, outVars, billVars, Untouched, TypeInv,
   PlaceTypes, FailoverTypes, LockTypes, WriterTypes, BillTypes

LEMMA SelectLocal ==
  ASSUME TypeInv, TypeInv', NEW r \in Requests, Local(r), Select(r)
  PROVE  Local(r)'
<1>1. Placed(r)'
  BY GatewayAssumption DEF Select, Candidates, Goto, MayPing, reqVars,
     lockVars, billVars, Local, Placed, Alive, TypeInv, PlaceTypes,
     FailoverTypes, LockTypes, WriterTypes, BillTypes
<1>2. Captured(r)'
  BY GatewayAssumption DEF Select, Candidates, Goto, MayPing, reqVars,
     lockVars, billVars, Local, Captured, Before, During, WriterOf, AllModes,
     TypeInv, PlaceTypes, FailoverTypes, LockTypes, WriterTypes, BillTypes
<1>3. FromAttempt(r)'
  BY GatewayAssumption DEF Select, Candidates, Goto, MayPing, reqVars,
     lockVars, billVars, Local, FromAttempt, Captured, Before, During,
     Contents, Alive, WriterOf, TypeInv, PlaceTypes, FailoverTypes, LockTypes,
     WriterTypes, BillTypes
<1>4. EndHeld(r)'
  BY GatewayAssumption DEF Select, Candidates, Goto, MayPing, reqVars,
     lockVars, billVars, Local, EndHeld, Captured, Ends, Billed, During,
     WriterOf, TypeInv, PlaceTypes, FailoverTypes, LockTypes, WriterTypes,
     BillTypes
<1>5. Reserved(r)'
  BY GatewayAssumption DEF Select, Candidates, Goto, MayPing, reqVars,
     lockVars, billVars, Local, Reserved, Before, Reserving, TypeInv,
     PlaceTypes, FailoverTypes, LockTypes, WriterTypes, BillTypes
<1> QED BY <1>1, <1>2, <1>3, <1>4, <1>5 DEF Local

LEMMA SlotTimeoutLocal ==
  ASSUME TypeInv, TypeInv', NEW r \in Requests, Local(r), SlotTimeout(r)
  PROVE  Local(r)'
<1>1. Placed(r)'
  BY GatewayAssumption DEF SlotTimeout, Candidates, Reply, Holds, CommitBuffer,
     Contents, Goto, reqVars, stateVars, lockVars, billVars, Local, Placed,
     Alive, TypeInv, PlaceTypes, FailoverTypes, LockTypes, WriterTypes,
     BillTypes
<1>2. Captured(r)'
  BY GatewayAssumption DEF SlotTimeout, Candidates, Reply, Holds, CommitBuffer,
     Contents, Goto, reqVars, stateVars, lockVars, billVars, Local, Captured,
     Before, During, WriterOf, AllModes, TypeInv, PlaceTypes, FailoverTypes,
     LockTypes, WriterTypes, BillTypes
<1>3. FromAttempt(r)'
  BY GatewayAssumption DEF SlotTimeout, Candidates, Reply, Holds, CommitBuffer,
     Contents, Goto, reqVars, stateVars, lockVars, billVars, Local,
     FromAttempt, Captured, Before, During, Alive, WriterOf, TypeInv,
     PlaceTypes, FailoverTypes, LockTypes, WriterTypes, BillTypes
<1>4. EndHeld(r)'
  BY GatewayAssumption DEF SlotTimeout, Candidates, Reply, Holds, CommitBuffer,
     Contents, Goto, reqVars, stateVars, lockVars, billVars, Local, EndHeld,
     Captured, Ends, Billed, During, WriterOf, TypeInv, PlaceTypes,
     FailoverTypes, LockTypes, WriterTypes, BillTypes
<1>5. Reserved(r)'
  BY GatewayAssumption DEF SlotTimeout, Candidates, Reply, Holds, CommitBuffer,
     Contents, Goto, reqVars, stateVars, lockVars, billVars, Local, Reserved,
     Before, Reserving, TypeInv, PlaceTypes, FailoverTypes, LockTypes,
     WriterTypes, BillTypes
<1> QED BY <1>1, <1>2, <1>3, <1>4, <1>5 DEF Local

LEMMA InterceptLocal ==
  ASSUME TypeInv, TypeInv', NEW r \in Requests, Local(r), Intercept(r)
  PROVE  Local(r)'
<1>1. Placed(r)'
  BY GatewayAssumption DEF Intercept, Candidates, Goto, reqVars, stateVars,
     lockVars, billVars, Local, Placed, Alive, TypeInv, PlaceTypes,
     FailoverTypes, LockTypes, WriterTypes, BillTypes
<1>2. Captured(r)'
  BY GatewayAssumption DEF Intercept, Candidates, Goto, reqVars, stateVars,
     lockVars, billVars, Local, Captured, Before, During, WriterOf, AllModes,
     TypeInv, PlaceTypes, FailoverTypes, LockTypes, WriterTypes, BillTypes
<1>3. FromAttempt(r)'
  BY GatewayAssumption DEF Intercept, Candidates, Goto, reqVars, stateVars,
     lockVars, billVars, Local, FromAttempt, Captured, Before, During,
     Contents, Alive, WriterOf, TypeInv, PlaceTypes, FailoverTypes, LockTypes,
     WriterTypes, BillTypes
<1>4. EndHeld(r)'
  BY GatewayAssumption DEF Intercept, Candidates, Goto, reqVars, stateVars,
     lockVars, billVars, Local, EndHeld, Captured, Ends, Billed, During,
     WriterOf, TypeInv, PlaceTypes, FailoverTypes, LockTypes, WriterTypes,
     BillTypes
<1>5. Reserved(r)'
  BY GatewayAssumption DEF Intercept, Candidates, Goto, reqVars, stateVars,
     lockVars, billVars, Local, Reserved, Before, Reserving, TypeInv,
     PlaceTypes, FailoverTypes, LockTypes, WriterTypes, BillTypes
<1> QED BY <1>1, <1>2, <1>3, <1>4, <1>5 DEF Local

LEMMA BackoffLocal ==
  ASSUME TypeInv, TypeInv', NEW r \in Requests, Local(r), Backoff(r)
  PROVE  Local(r)'
<1>1. Placed(r)'
  BY GatewayAssumption DEF Backoff, reqVars, lockVars, outVars, billVars,
     Local, Placed, Alive, TypeInv, PlaceTypes, FailoverTypes, LockTypes,
     WriterTypes, BillTypes
<1>2. Captured(r)'
  BY GatewayAssumption DEF Backoff, reqVars, lockVars, outVars, billVars,
     Local, Captured, Before, During, WriterOf, AllModes, TypeInv, PlaceTypes,
     FailoverTypes, LockTypes, WriterTypes, BillTypes
<1>3. FromAttempt(r)'
  BY GatewayAssumption DEF Backoff, reqVars, lockVars, outVars, billVars,
     Local, FromAttempt, Captured, Before, During, Contents, Alive, WriterOf,
     TypeInv, PlaceTypes, FailoverTypes, LockTypes, WriterTypes, BillTypes
<1>4. EndHeld(r)'
  BY GatewayAssumption DEF Backoff, reqVars, lockVars, outVars, billVars,
     Local, EndHeld, Captured, Ends, Billed, During, WriterOf, TypeInv,
     PlaceTypes, FailoverTypes, LockTypes, WriterTypes, BillTypes
<1>5. Reserved(r)'
  BY GatewayAssumption DEF Backoff, reqVars, lockVars, outVars, billVars,
     Local, Reserved, Before, Reserving, TypeInv, PlaceTypes, FailoverTypes,
     LockTypes, WriterTypes, BillTypes
<1> QED BY <1>1, <1>2, <1>3, <1>4, <1>5 DEF Local

LEMMA NoneLeftLocal ==
  ASSUME TypeInv, TypeInv', NEW r \in Requests, Local(r), NoneLeft(r)
  PROVE  Local(r)'
<1>1. Placed(r)'
  BY GatewayAssumption DEF NoneLeft, Reply, Holds, CommitBuffer, Contents,
     outVars, Goto, reqVars, stateVars, lockVars, billVars, Local, Placed,
     Alive, TypeInv, PlaceTypes, FailoverTypes, LockTypes, WriterTypes,
     BillTypes
<1>2. Captured(r)'
  BY GatewayAssumption DEF NoneLeft, Reply, Holds, CommitBuffer, Contents,
     outVars, Goto, reqVars, stateVars, lockVars, billVars, Local, Captured,
     Before, During, WriterOf, AllModes, TypeInv, PlaceTypes, FailoverTypes,
     LockTypes, WriterTypes, BillTypes
<1>3. FromAttempt(r)'
  BY GatewayAssumption DEF NoneLeft, Reply, Holds, CommitBuffer, Contents,
     outVars, Goto, reqVars, stateVars, lockVars, billVars, Local, FromAttempt,
     Captured, Before, During, Alive, WriterOf, TypeInv, PlaceTypes,
     FailoverTypes, LockTypes, WriterTypes, BillTypes
<1>4. EndHeld(r)'
  BY GatewayAssumption DEF NoneLeft, Reply, Holds, CommitBuffer, Contents,
     outVars, Goto, reqVars, stateVars, lockVars, billVars, Local, EndHeld,
     Captured, Ends, Billed, During, WriterOf, TypeInv, PlaceTypes,
     FailoverTypes, LockTypes, WriterTypes, BillTypes
<1>5. Reserved(r)'
  BY GatewayAssumption DEF NoneLeft, Reply, Holds, CommitBuffer, Contents,
     outVars, Goto, reqVars, stateVars, lockVars, billVars, Local, Reserved,
     Before, Reserving, TypeInv, PlaceTypes, FailoverTypes, LockTypes,
     WriterTypes, BillTypes
<1> QED BY <1>1, <1>2, <1>3, <1>4, <1>5 DEF Local

LEMMA QueueAcquireLocal ==
  ASSUME TypeInv, TypeInv', NEW r \in Requests, Local(r), QueueAcquire(r)
  PROVE  Local(r)'
<1>1. Placed(r)'
  BY GatewayAssumption DEF QueueAcquire, Goto, MayPing, reqVars, stateVars,
     billVars, Local, Placed, Alive, TypeInv, PlaceTypes, FailoverTypes,
     LockTypes, WriterTypes, BillTypes
<1>2. Captured(r)'
  BY GatewayAssumption DEF QueueAcquire, Goto, MayPing, reqVars, stateVars,
     billVars, Local, Captured, Before, During, WriterOf, AllModes, TypeInv,
     PlaceTypes, FailoverTypes, LockTypes, WriterTypes, BillTypes
<1>3. FromAttempt(r)'
  BY GatewayAssumption DEF QueueAcquire, Goto, MayPing, reqVars, stateVars,
     billVars, Local, FromAttempt, Captured, Before, During, Contents, Alive,
     WriterOf, TypeInv, PlaceTypes, FailoverTypes, LockTypes, WriterTypes,
     BillTypes
<1>4. EndHeld(r)'
  BY GatewayAssumption DEF QueueAcquire, Goto, MayPing, reqVars, stateVars,
     billVars, Local, EndHeld, Captured, Ends, Billed, During, WriterOf,
     TypeInv, PlaceTypes, FailoverTypes, LockTypes, WriterTypes, BillTypes
<1>5. Reserved(r)'
  BY GatewayAssumption DEF QueueAcquire, Goto, MayPing, reqVars, stateVars,
     billVars, Local, Reserved, Before, Reserving, TypeInv, PlaceTypes,
     FailoverTypes, LockTypes, WriterTypes, BillTypes
<1> QED BY <1>1, <1>2, <1>3, <1>4, <1>5 DEF Local

LEMMA QueueFailOpenLocal ==
  ASSUME TypeInv, TypeInv', NEW r \in Requests, Local(r), QueueFailOpen(r)
  PROVE  Local(r)'
<1>1. Placed(r)'
  BY GatewayAssumption DEF QueueFailOpen, Goto, reqVars, stateVars, outVars,
     billVars, Local, Placed, Alive, TypeInv, PlaceTypes, FailoverTypes,
     LockTypes, WriterTypes, BillTypes
<1>2. Captured(r)'
  BY GatewayAssumption DEF QueueFailOpen, Goto, reqVars, stateVars, outVars,
     billVars, Local, Captured, Before, During, WriterOf, AllModes, TypeInv,
     PlaceTypes, FailoverTypes, LockTypes, WriterTypes, BillTypes
<1>3. FromAttempt(r)'
  BY GatewayAssumption DEF QueueFailOpen, Goto, reqVars, stateVars, outVars,
     billVars, Local, FromAttempt, Captured, Before, During, Contents, Alive,
     WriterOf, TypeInv, PlaceTypes, FailoverTypes, LockTypes, WriterTypes,
     BillTypes
<1>4. EndHeld(r)'
  BY GatewayAssumption DEF QueueFailOpen, Goto, reqVars, stateVars, outVars,
     billVars, Local, EndHeld, Captured, Ends, Billed, During, WriterOf,
     TypeInv, PlaceTypes, FailoverTypes, LockTypes, WriterTypes, BillTypes
<1>5. Reserved(r)'
  BY GatewayAssumption DEF QueueFailOpen, Goto, reqVars, stateVars, outVars,
     billVars, Local, Reserved, Before, Reserving, TypeInv, PlaceTypes,
     FailoverTypes, LockTypes, WriterTypes, BillTypes
<1> QED BY <1>1, <1>2, <1>3, <1>4, <1>5 DEF Local

LEMMA QueueTimeoutLocal ==
  ASSUME TypeInv, TypeInv', NEW r \in Requests, Local(r), QueueTimeout(r)
  PROVE  Local(r)'
<1>1. Placed(r)'
  BY GatewayAssumption DEF QueueTimeout, Goto, MayPing, reqVars, stateVars,
     lockVars, billVars, Local, Placed, Alive, TypeInv, PlaceTypes,
     FailoverTypes, LockTypes, WriterTypes, BillTypes
<1>2. Captured(r)'
  BY GatewayAssumption DEF QueueTimeout, Goto, MayPing, reqVars, stateVars,
     lockVars, billVars, Local, Captured, Before, During, WriterOf, AllModes,
     TypeInv, PlaceTypes, FailoverTypes, LockTypes, WriterTypes, BillTypes
<1>3. FromAttempt(r)'
  BY GatewayAssumption DEF QueueTimeout, Goto, MayPing, reqVars, stateVars,
     lockVars, billVars, Local, FromAttempt, Captured, Before, During,
     Contents, Alive, WriterOf, TypeInv, PlaceTypes, FailoverTypes, LockTypes,
     WriterTypes, BillTypes
<1>4. EndHeld(r)'
  BY GatewayAssumption DEF QueueTimeout, Goto, MayPing, reqVars, stateVars,
     lockVars, billVars, Local, EndHeld, Captured, Ends, Billed, During,
     WriterOf, TypeInv, PlaceTypes, FailoverTypes, LockTypes, WriterTypes,
     BillTypes
<1>5. Reserved(r)'
  BY GatewayAssumption DEF QueueTimeout, Goto, MayPing, reqVars, stateVars,
     lockVars, billVars, Local, Reserved, Before, Reserving, TypeInv,
     PlaceTypes, FailoverTypes, LockTypes, WriterTypes, BillTypes
<1> QED BY <1>1, <1>2, <1>3, <1>4, <1>5 DEF Local

LEMMA ReserveFailsLocal ==
  ASSUME TypeInv, TypeInv', NEW r \in Requests, Local(r), ReserveFails(r)
  PROVE  Local(r)'
<1>1. Placed(r)'
  BY GatewayAssumption DEF ReserveFails, ReleaseSlot, ReleaseQueue, Reply,
     Holds, CommitBuffer, Contents, Goto, reqVars, stateVars, Local, Placed,
     Alive, TypeInv, PlaceTypes, FailoverTypes, LockTypes, WriterTypes,
     BillTypes
<1>2. Captured(r)'
  BY GatewayAssumption DEF ReserveFails, ReleaseSlot, ReleaseQueue, Reply,
     Holds, CommitBuffer, Contents, Goto, reqVars, stateVars, Local, Captured,
     Before, During, WriterOf, AllModes, TypeInv, PlaceTypes, FailoverTypes,
     LockTypes, WriterTypes, BillTypes
<1>3. FromAttempt(r)'
  BY GatewayAssumption DEF ReserveFails, ReleaseSlot, ReleaseQueue, Reply,
     Holds, CommitBuffer, Contents, Goto, reqVars, stateVars, Local,
     FromAttempt, Captured, Before, During, Alive, WriterOf, TypeInv,
     PlaceTypes, FailoverTypes, LockTypes, WriterTypes, BillTypes
<1>4. EndHeld(r)'
  BY GatewayAssumption DEF ReserveFails, ReleaseSlot, ReleaseQueue, Reply,
     Holds, CommitBuffer, Contents, Goto, reqVars, stateVars, Local, EndHeld,
     Captured, Ends, Billed, During, WriterOf, TypeInv, PlaceTypes,
     FailoverTypes, LockTypes, WriterTypes, BillTypes
<1>5. Reserved(r)'
  BY GatewayAssumption DEF ReserveFails, ReleaseSlot, ReleaseQueue, Reply,
     Holds, CommitBuffer, Contents, Goto, reqVars, stateVars, Local, Reserved,
     Before, Reserving, TypeInv, PlaceTypes, FailoverTypes, LockTypes,
     WriterTypes, BillTypes
<1> QED BY <1>1, <1>2, <1>3, <1>4, <1>5 DEF Local

LEMMA ForwardLocal ==
  ASSUME TypeInv, TypeInv', NEW r \in Requests, Local(r), Forward(r)
  PROVE  Local(r)'
<1>1. Placed(r)'
  BY GatewayAssumption DEF Forward, Goto, reqVars, lockVars, Local, Placed,
     Alive, TypeInv, PlaceTypes, FailoverTypes, LockTypes, WriterTypes,
     BillTypes
<1>2. Captured(r)'
  <2>1. mode[r] \in AllModes /\ capture[r] = "none" /\ held[r] = {}
    BY DEF Forward, Local, Placed, Captured, Before, Alive
  <2>2. r \notin published
    BY DEF Forward, Local, Reserved, Before
  <2>3. capture'[r] = WriterOf(mode[r])
    BY <2>1, <2>2 DEF Forward, WriterOf, AllModes, TypeInv, WriterTypes
  <2>4. pc'[r] = "sending" /\ mode'[r] = mode[r] /\ held'[r] = {}
    BY <2>1 DEF Forward, Goto, reqVars, TypeInv, PlaceTypes
  <2> QED BY <2>3, <2>4 DEF Captured, Before, WriterOf
<1>3. FromAttempt(r)'
  BY GatewayAssumption DEF Forward, Goto, reqVars, lockVars, Local,
     FromAttempt, Captured, Before, During, Contents, Alive, WriterOf, TypeInv,
     PlaceTypes, FailoverTypes, LockTypes, WriterTypes, BillTypes
<1>4. EndHeld(r)'
  BY GatewayAssumption DEF Forward, Goto, reqVars, lockVars, Local, EndHeld,
     Captured, Ends, Billed, During, WriterOf, TypeInv, PlaceTypes,
     FailoverTypes, LockTypes, WriterTypes, BillTypes
<1>5. Reserved(r)'
  BY GatewayAssumption DEF Forward, Goto, reqVars, lockVars, Local, Reserved,
     Before, Reserving, TypeInv, PlaceTypes, FailoverTypes, LockTypes,
     WriterTypes, BillTypes
<1> QED BY <1>1, <1>2, <1>3, <1>4, <1>5 DEF Local

LEMMA AcceptedLocal ==
  ASSUME TypeInv, TypeInv', NEW r \in Requests, Local(r), Accepted(r)
  PROVE  Local(r)'
<1>1. Placed(r)'
  BY GatewayAssumption DEF Accepted, ReleaseQueue, Goto, reqVars, stateVars,
     outVars, billVars, Local, Placed, Alive, TypeInv, PlaceTypes,
     FailoverTypes, LockTypes, WriterTypes, BillTypes
<1>2. Captured(r)'
  BY GatewayAssumption DEF Accepted, ReleaseQueue, Goto, reqVars, stateVars,
     outVars, billVars, Local, Captured, Before, During, WriterOf, AllModes,
     TypeInv, PlaceTypes, FailoverTypes, LockTypes, WriterTypes, BillTypes
<1>3. FromAttempt(r)'
  BY GatewayAssumption DEF Accepted, ReleaseQueue, Goto, reqVars, stateVars,
     outVars, billVars, Local, FromAttempt, Captured, Before, During, Contents,
     Alive, WriterOf, TypeInv, PlaceTypes, FailoverTypes, LockTypes,
     WriterTypes, BillTypes
<1>4. EndHeld(r)'
  BY GatewayAssumption DEF Accepted, ReleaseQueue, Goto, reqVars, stateVars,
     outVars, billVars, Local, EndHeld, Captured, Ends, Billed, During,
     WriterOf, TypeInv, PlaceTypes, FailoverTypes, LockTypes, WriterTypes,
     BillTypes
<1>5. Reserved(r)'
  BY GatewayAssumption DEF Accepted, ReleaseQueue, Goto, reqVars, stateVars,
     outVars, billVars, Local, Reserved, Before, Reserving, TypeInv,
     PlaceTypes, FailoverTypes, LockTypes, WriterTypes, BillTypes
<1> QED BY <1>1, <1>2, <1>3, <1>4, <1>5 DEF Local

LEMMA RefusedLocal ==
  ASSUME TypeInv, TypeInv', NEW r \in Requests, Local(r), Refused(r)
  PROVE  Local(r)'
<1>1. Placed(r)'
  BY GatewayAssumption DEF Refused, Returned, ReleaseQueue, ReleaseSlot, Goto,
     reqVars, outVars, billVars, Local, Placed, Alive, TypeInv, PlaceTypes,
     FailoverTypes, LockTypes, WriterTypes, BillTypes
<1>2. Captured(r)'
  BY GatewayAssumption DEF Refused, Returned, ReleaseQueue, ReleaseSlot, Goto,
     reqVars, outVars, billVars, Local, Captured, Before, During, WriterOf,
     AllModes, TypeInv, PlaceTypes, FailoverTypes, LockTypes, WriterTypes,
     BillTypes
<1>3. FromAttempt(r)'
  BY GatewayAssumption DEF Refused, Returned, ReleaseQueue, ReleaseSlot, Goto,
     reqVars, outVars, billVars, Local, FromAttempt, Captured, Before, During,
     Contents, Alive, WriterOf, TypeInv, PlaceTypes, FailoverTypes, LockTypes,
     WriterTypes, BillTypes
<1>4. EndHeld(r)'
  BY GatewayAssumption DEF Refused, Returned, ReleaseQueue, ReleaseSlot, Goto,
     reqVars, outVars, billVars, Local, EndHeld, Captured, Ends, Billed,
     During, WriterOf, TypeInv, PlaceTypes, FailoverTypes, LockTypes,
     WriterTypes, BillTypes
<1>5. Reserved(r)'
  BY GatewayAssumption DEF Refused, Returned, ReleaseQueue, ReleaseSlot, Goto,
     reqVars, outVars, billVars, Local, Reserved, Before, Reserving, TypeInv,
     PlaceTypes, FailoverTypes, LockTypes, WriterTypes, BillTypes
<1> QED BY <1>1, <1>2, <1>3, <1>4, <1>5 DEF Local

LEMMA FinishesLocal ==
  ASSUME TypeInv, TypeInv', NEW r \in Requests, Local(r), Finishes(r)
  PROVE  Local(r)'
<1>1. Placed(r)'
  BY GatewayAssumption DEF Finishes, Returned, ReleaseQueue, ReleaseSlot, Goto,
     reqVars, stateVars, billVars, Local, Placed, Alive, TypeInv, PlaceTypes,
     FailoverTypes, LockTypes, WriterTypes, BillTypes
<1>2. Captured(r)'
  BY GatewayAssumption DEF Finishes, Returned, ReleaseQueue, ReleaseSlot, Goto,
     reqVars, stateVars, billVars, Local, Captured, Before, During, WriterOf,
     AllModes, TypeInv, PlaceTypes, FailoverTypes, LockTypes, WriterTypes,
     BillTypes
<1>3. FromAttempt(r)'
  <2> DEFINE e == {<<attempt[r], "end">>}
  <2>1. /\ pc[r] = "streaming" /\ pc'[r] = "record"
        /\ attempt'[r] = attempt[r] /\ capture'[r] = capture[r]
        /\ \/ /\ shown'[r] = shown[r] \cup e /\ held'[r] = held[r]
              /\ capture[r] = "none"
           \/ shown'[r] = shown[r] /\ held'[r] = held[r] \cup e
    BY DEF Finishes, Returned, Goto, stateVars, TypeInv, PlaceTypes, WriterTypes
  <2>2. \A x \in Contents(shown[r]) \cup Contents(held[r]) : x[1] = attempt[r]
    BY <2>1 DEF Local, FromAttempt, Alive
  <2>3. \A x \in Contents(e) : x[1] = attempt[r]
    BY DEF Contents
  <2>4. capture[r] = "buffer" => Contents(shown[r]) = {}
    BY <2>1 DEF Local, FromAttempt, During
  <2> HIDE DEF e
  <2>5. \A x \in Contents(shown'[r]) \cup Contents(held'[r]) : x[1] = attempt[r]
    BY <2>1, <2>2, <2>3 DEF Contents
  <2>6. capture[r] = "buffer" => Contents(shown'[r]) = {}
    BY <2>1, <2>4
  <2> QED BY <2>1, <2>5, <2>6 DEF FromAttempt, Before
<1>4. EndHeld(r)'
  <2>1. /\ pc[r] = "streaming" /\ pc'[r] = "record" /\ mode'[r] = mode[r]
        /\ \/ capture[r] = "none"
           \/ shown'[r] = shown[r]
        /\ UNCHANGED <<charged, unsure>>
    BY DEF Finishes, Returned, Goto, reqVars, billVars, TypeInv, PlaceTypes,
       WriterTypes
  <2>2. mode[r] \in AllModes /\ capture[r] = WriterOf(mode[r])
    BY <2>1 DEF Local, Placed, Captured, Alive, During
  <2>3. capture[r] = "none" => mode[r] = "plain"
    BY <2>2 DEF WriterOf, AllModes
  <2>4. mode[r] # "plain" /\ Ends(shown[r]) # {} => Billed(r)
    BY DEF Local, EndHeld
  <2> QED BY <2>1, <2>3, <2>4 DEF EndHeld, Billed, Ends
<1>5. Reserved(r)'
  BY GatewayAssumption DEF Finishes, Returned, ReleaseQueue, ReleaseSlot, Goto,
     reqVars, stateVars, billVars, Local, Reserved, Before, Reserving, TypeInv,
     PlaceTypes, FailoverTypes, LockTypes, WriterTypes, BillTypes
<1> QED BY <1>1, <1>2, <1>3, <1>4, <1>5 DEF Local

LEMMA BreaksLocal ==
  ASSUME TypeInv, TypeInv', NEW r \in Requests, Local(r), Breaks(r)
  PROVE  Local(r)'
<1>1. Placed(r)'
  BY GatewayAssumption DEF Breaks, Returned, ReleaseQueue, ReleaseSlot, Goto,
     reqVars, outVars, billVars, Local, Placed, Alive, TypeInv, PlaceTypes,
     FailoverTypes, LockTypes, WriterTypes, BillTypes
<1>2. Captured(r)'
  BY GatewayAssumption DEF Breaks, Returned, ReleaseQueue, ReleaseSlot, Goto,
     reqVars, outVars, billVars, Local, Captured, Before, During, WriterOf,
     AllModes, TypeInv, PlaceTypes, FailoverTypes, LockTypes, WriterTypes,
     BillTypes
<1>3. FromAttempt(r)'
  BY GatewayAssumption DEF Breaks, Returned, ReleaseQueue, ReleaseSlot, Goto,
     reqVars, outVars, billVars, Local, FromAttempt, Captured, Before, During,
     Contents, Alive, WriterOf, TypeInv, PlaceTypes, FailoverTypes, LockTypes,
     WriterTypes, BillTypes
<1>4. EndHeld(r)'
  BY GatewayAssumption DEF Breaks, Returned, ReleaseQueue, ReleaseSlot, Goto,
     reqVars, outVars, billVars, Local, EndHeld, Captured, Ends, Billed,
     During, WriterOf, TypeInv, PlaceTypes, FailoverTypes, LockTypes,
     WriterTypes, BillTypes
<1>5. Reserved(r)'
  BY GatewayAssumption DEF Breaks, Returned, ReleaseQueue, ReleaseSlot, Goto,
     reqVars, outVars, billVars, Local, Reserved, Before, Reserving, TypeInv,
     PlaceTypes, FailoverTypes, LockTypes, WriterTypes, BillTypes
<1> QED BY <1>1, <1>2, <1>3, <1>4, <1>5 DEF Local

LEMMA GiveUpStreamedLocal ==
  ASSUME TypeInv, TypeInv', NEW r \in Requests, Local(r), GiveUpStreamed(r)
  PROVE  Local(r)'
<1>1. Placed(r)'
  BY GatewayAssumption DEF GiveUpStreamed, Written, Contents, Reply, Holds,
     CommitBuffer, Leave, Goto, reqVars, lockVars, billVars, Local, Placed,
     Alive, TypeInv, PlaceTypes, FailoverTypes, LockTypes, WriterTypes,
     BillTypes
<1>2. Captured(r)'
  BY GatewayAssumption DEF GiveUpStreamed, Written, Contents, Reply, Holds,
     CommitBuffer, Leave, Goto, reqVars, lockVars, billVars, Local, Captured,
     Before, During, WriterOf, AllModes, TypeInv, PlaceTypes, FailoverTypes,
     LockTypes, WriterTypes, BillTypes
<1>3. FromAttempt(r)'
  <2>1. /\ Contents(shown'[r]) \subseteq Contents(shown[r]) \cup Contents(held[r])
        /\ Contents(held'[r]) \subseteq Contents(held[r])
    BY ReplyShows DEF GiveUpStreamed
  <2>2. /\ pc[r] = "failed" /\ pc'[r] = "return"
        /\ attempt'[r] = attempt[r]
    BY DEF GiveUpStreamed, Leave, Goto, TypeInv, PlaceTypes
  <2>3. \A x \in Contents(shown[r]) \cup Contents(held[r]) : x[1] = attempt[r]
    BY <2>2 DEF Local, FromAttempt, Alive
  <2> QED BY <2>1, <2>2, <2>3 DEF FromAttempt, Before, During
<1>4. EndHeld(r)'
  BY GatewayAssumption DEF GiveUpStreamed, Written, Contents, Reply, Holds,
     CommitBuffer, Leave, Goto, reqVars, lockVars, billVars, Local, EndHeld,
     Captured, Ends, Billed, During, WriterOf, TypeInv, PlaceTypes,
     FailoverTypes, LockTypes, WriterTypes, BillTypes
<1>5. Reserved(r)'
  BY GatewayAssumption DEF GiveUpStreamed, Written, Contents, Reply, Holds,
     CommitBuffer, Leave, Goto, reqVars, lockVars, billVars, Local, Reserved,
     Before, Reserving, TypeInv, PlaceTypes, FailoverTypes, LockTypes,
     WriterTypes, BillTypes
<1> QED BY <1>1, <1>2, <1>3, <1>4, <1>5 DEF Local

LEMMA RetrySameLocal ==
  ASSUME TypeInv, TypeInv', NEW r \in Requests, Local(r), RetrySame(r)
  PROVE  Local(r)'
<1>1. Placed(r)'
  BY GatewayAssumption DEF RetrySame, CanSwitch, Written, Contents, MayRetry,
     Again, Abandon, PublishRelease, Goto, reqVars, lockVars, Local, Placed,
     Alive, TypeInv, PlaceTypes, FailoverTypes, LockTypes, WriterTypes,
     BillTypes
<1>2. Captured(r)'
  BY GatewayAssumption DEF RetrySame, CanSwitch, Written, Contents, MayRetry,
     Again, Abandon, PublishRelease, Goto, reqVars, lockVars, Local, Captured,
     Before, During, WriterOf, AllModes, TypeInv, PlaceTypes, FailoverTypes,
     LockTypes, WriterTypes, BillTypes
<1>3. FromAttempt(r)'
  BY GatewayAssumption DEF RetrySame, CanSwitch, Written, Contents, MayRetry,
     Again, Abandon, PublishRelease, Goto, reqVars, lockVars, Local,
     FromAttempt, Captured, Before, During, Alive, WriterOf, TypeInv,
     PlaceTypes, FailoverTypes, LockTypes, WriterTypes, BillTypes
<1>4. EndHeld(r)'
  BY GatewayAssumption DEF RetrySame, CanSwitch, Written, Contents, MayRetry,
     Again, Abandon, PublishRelease, Goto, reqVars, lockVars, Local, EndHeld,
     Captured, Ends, Billed, During, WriterOf, TypeInv, PlaceTypes,
     FailoverTypes, LockTypes, WriterTypes, BillTypes
<1>5. Reserved(r)'
  BY GatewayAssumption DEF RetrySame, CanSwitch, Written, Contents, MayRetry,
     Again, Abandon, PublishRelease, Goto, reqVars, lockVars, Local, Reserved,
     Before, Reserving, TypeInv, PlaceTypes, FailoverTypes, LockTypes,
     WriterTypes, BillTypes
<1> QED BY <1>1, <1>2, <1>3, <1>4, <1>5 DEF Local

LEMMA SwitchLocal ==
  ASSUME TypeInv, TypeInv', NEW r \in Requests, Local(r), Switch(r)
  PROVE  Local(r)'
<1>1. Placed(r)'
  BY GatewayAssumption DEF Switch, CanSwitch, Written, Contents, MayRetry,
     Again, Abandon, PublishRelease, Goto, reqVars, lockVars, Local, Placed,
     Alive, TypeInv, PlaceTypes, FailoverTypes, LockTypes, WriterTypes,
     BillTypes
<1>2. Captured(r)'
  BY GatewayAssumption DEF Switch, CanSwitch, Written, Contents, MayRetry,
     Again, Abandon, PublishRelease, Goto, reqVars, lockVars, Local, Captured,
     Before, During, WriterOf, AllModes, TypeInv, PlaceTypes, FailoverTypes,
     LockTypes, WriterTypes, BillTypes
<1>3. FromAttempt(r)'
  BY GatewayAssumption DEF Switch, CanSwitch, Written, Contents, MayRetry,
     Again, Abandon, PublishRelease, Goto, reqVars, lockVars, Local,
     FromAttempt, Captured, Before, During, Alive, WriterOf, TypeInv,
     PlaceTypes, FailoverTypes, LockTypes, WriterTypes, BillTypes
<1>4. EndHeld(r)'
  BY GatewayAssumption DEF Switch, CanSwitch, Written, Contents, MayRetry,
     Again, Abandon, PublishRelease, Goto, reqVars, lockVars, Local, EndHeld,
     Captured, Ends, Billed, During, WriterOf, TypeInv, PlaceTypes,
     FailoverTypes, LockTypes, WriterTypes, BillTypes
<1>5. Reserved(r)'
  BY GatewayAssumption DEF Switch, CanSwitch, Written, Contents, MayRetry,
     Again, Abandon, PublishRelease, Goto, reqVars, lockVars, Local, Reserved,
     Before, Reserving, TypeInv, PlaceTypes, FailoverTypes, LockTypes,
     WriterTypes, BillTypes
<1> QED BY <1>1, <1>2, <1>3, <1>4, <1>5 DEF Local

LEMMA ExhaustedLocal ==
  ASSUME TypeInv, TypeInv', NEW r \in Requests, Local(r), Exhausted(r)
  PROVE  Local(r)'
<1>1. Placed(r)'
  BY GatewayAssumption DEF Exhausted, CanSwitch, Written, Contents, MayRetry,
     Reply, Holds, CommitBuffer, Leave, Goto, reqVars, lockVars, billVars,
     Local, Placed, Alive, TypeInv, PlaceTypes, FailoverTypes, LockTypes,
     WriterTypes, BillTypes
<1>2. Captured(r)'
  BY GatewayAssumption DEF Exhausted, CanSwitch, Written, Contents, MayRetry,
     Reply, Holds, CommitBuffer, Leave, Goto, reqVars, lockVars, billVars,
     Local, Captured, Before, During, WriterOf, AllModes, TypeInv, PlaceTypes,
     FailoverTypes, LockTypes, WriterTypes, BillTypes
<1>3. FromAttempt(r)'
  <2>1. /\ Contents(shown'[r]) \subseteq Contents(shown[r]) \cup Contents(held[r])
        /\ Contents(held'[r]) \subseteq Contents(held[r])
    BY ReplyShows DEF Exhausted
  <2>2. /\ pc[r] = "failed" /\ pc'[r] = "return"
        /\ attempt'[r] = attempt[r]
    BY DEF Exhausted, CanSwitch, Leave, Goto, TypeInv, PlaceTypes
  <2>3. \A x \in Contents(shown[r]) \cup Contents(held[r]) : x[1] = attempt[r]
    BY <2>2 DEF Local, FromAttempt, Alive
  <2> QED BY <2>1, <2>2, <2>3 DEF FromAttempt, Before, During
<1>4. EndHeld(r)'
  BY GatewayAssumption DEF Exhausted, CanSwitch, Written, Contents, MayRetry,
     Reply, Holds, CommitBuffer, Leave, Goto, reqVars, lockVars, billVars,
     Local, EndHeld, Captured, Ends, Billed, During, WriterOf, TypeInv,
     PlaceTypes, FailoverTypes, LockTypes, WriterTypes, BillTypes
<1>5. Reserved(r)'
  BY GatewayAssumption DEF Exhausted, CanSwitch, Written, Contents, MayRetry,
     Reply, Holds, CommitBuffer, Leave, Goto, reqVars, lockVars, billVars,
     Local, Reserved, Before, Reserving, TypeInv, PlaceTypes, FailoverTypes,
     LockTypes, WriterTypes, BillTypes
<1> QED BY <1>1, <1>2, <1>3, <1>4, <1>5 DEF Local

LEMMA CanceledLocal ==
  ASSUME TypeInv, TypeInv', NEW r \in Requests, Local(r), Canceled(r)
  PROVE  Local(r)'
<1>1. Placed(r)'
  BY GatewayAssumption DEF Canceled, CanSwitch, Written, Contents, MayRetry,
     Leave, Goto, reqVars, lockVars, billVars, Local, Placed, Alive, TypeInv,
     PlaceTypes, FailoverTypes, LockTypes, WriterTypes, BillTypes
<1>2. Captured(r)'
  BY GatewayAssumption DEF Canceled, CanSwitch, Written, Contents, MayRetry,
     Leave, Goto, reqVars, lockVars, billVars, Local, Captured, Before, During,
     WriterOf, AllModes, TypeInv, PlaceTypes, FailoverTypes, LockTypes,
     WriterTypes, BillTypes
<1>3. FromAttempt(r)'
  BY GatewayAssumption DEF Canceled, CanSwitch, Written, Contents, MayRetry,
     Leave, Goto, reqVars, lockVars, billVars, Local, FromAttempt, Captured,
     Before, During, Alive, WriterOf, TypeInv, PlaceTypes, FailoverTypes,
     LockTypes, WriterTypes, BillTypes
<1>4. EndHeld(r)'
  BY GatewayAssumption DEF Canceled, CanSwitch, Written, Contents, MayRetry,
     Leave, Goto, reqVars, lockVars, billVars, Local, EndHeld, Captured, Ends,
     Billed, During, WriterOf, TypeInv, PlaceTypes, FailoverTypes, LockTypes,
     WriterTypes, BillTypes
<1>5. Reserved(r)'
  BY GatewayAssumption DEF Canceled, CanSwitch, Written, Contents, MayRetry,
     Leave, Goto, reqVars, lockVars, billVars, Local, Reserved, Before,
     Reserving, TypeInv, PlaceTypes, FailoverTypes, LockTypes, WriterTypes,
     BillTypes
<1> QED BY <1>1, <1>2, <1>3, <1>4, <1>5 DEF Local

LEMMA UseFallbackLocal ==
  ASSUME TypeInv, TypeInv', NEW r \in Requests, Local(r), UseFallback(r)
  PROVE  Local(r)'
<1>1. Placed(r)'
  BY GatewayAssumption DEF UseFallback, Again, Abandon, PublishRelease, Goto,
     lockVars, Local, Placed, Alive, TypeInv, PlaceTypes, FailoverTypes,
     LockTypes, WriterTypes, BillTypes
<1>2. Captured(r)'
  BY GatewayAssumption DEF UseFallback, Again, Abandon, PublishRelease, Goto,
     lockVars, Local, Captured, Before, During, WriterOf, AllModes, TypeInv,
     PlaceTypes, FailoverTypes, LockTypes, WriterTypes, BillTypes
<1>3. FromAttempt(r)'
  BY GatewayAssumption DEF UseFallback, Again, Abandon, PublishRelease, Goto,
     lockVars, Local, FromAttempt, Captured, Before, During, Contents, Alive,
     WriterOf, TypeInv, PlaceTypes, FailoverTypes, LockTypes, WriterTypes,
     BillTypes
<1>4. EndHeld(r)'
  BY GatewayAssumption DEF UseFallback, Again, Abandon, PublishRelease, Goto,
     lockVars, Local, EndHeld, Captured, Ends, Billed, During, WriterOf,
     TypeInv, PlaceTypes, FailoverTypes, LockTypes, WriterTypes, BillTypes
<1>5. Reserved(r)'
  BY GatewayAssumption DEF UseFallback, Again, Abandon, PublishRelease, Goto,
     lockVars, Local, Reserved, Before, Reserving, TypeInv, PlaceTypes,
     FailoverTypes, LockTypes, WriterTypes, BillTypes
<1> QED BY <1>1, <1>2, <1>3, <1>4, <1>5 DEF Local

LEMMA EndWithErrorLocal ==
  ASSUME TypeInv, TypeInv', NEW r \in Requests, Local(r), EndWithError(r)
  PROVE  Local(r)'
<1>1. Placed(r)'
  BY GatewayAssumption DEF EndWithError, Reply, Holds, CommitBuffer, Contents,
     Leave, Goto, reqVars, lockVars, billVars, Local, Placed, Alive, TypeInv,
     PlaceTypes, FailoverTypes, LockTypes, WriterTypes, BillTypes
<1>2. Captured(r)'
  BY GatewayAssumption DEF EndWithError, Reply, Holds, CommitBuffer, Contents,
     Leave, Goto, reqVars, lockVars, billVars, Local, Captured, Before, During,
     WriterOf, AllModes, TypeInv, PlaceTypes, FailoverTypes, LockTypes,
     WriterTypes, BillTypes
<1>3. FromAttempt(r)'
  <2>1. /\ Contents(shown'[r]) \subseteq Contents(shown[r]) \cup Contents(held[r])
        /\ Contents(held'[r]) \subseteq Contents(held[r])
    BY ReplyShows DEF EndWithError
  <2>2. /\ pc[r] = "failed" /\ pc'[r] = "return"
        /\ attempt'[r] = attempt[r]
    BY DEF EndWithError, Leave, Goto, TypeInv, PlaceTypes
  <2>3. \A x \in Contents(shown[r]) \cup Contents(held[r]) : x[1] = attempt[r]
    BY <2>2 DEF Local, FromAttempt, Alive
  <2> QED BY <2>1, <2>2, <2>3 DEF FromAttempt, Before, During
<1>4. EndHeld(r)'
  BY GatewayAssumption DEF EndWithError, Reply, Holds, CommitBuffer, Contents,
     Leave, Goto, reqVars, lockVars, billVars, Local, EndHeld, Captured, Ends,
     Billed, During, WriterOf, TypeInv, PlaceTypes, FailoverTypes, LockTypes,
     WriterTypes, BillTypes
<1>5. Reserved(r)'
  BY GatewayAssumption DEF EndWithError, Reply, Holds, CommitBuffer, Contents,
     Leave, Goto, reqVars, lockVars, billVars, Local, Reserved, Before,
     Reserving, TypeInv, PlaceTypes, FailoverTypes, LockTypes, WriterTypes,
     BillTypes
<1> QED BY <1>1, <1>2, <1>3, <1>4, <1>5 DEF Local

LEMMA ForwardFailedLocal ==
  ASSUME TypeInv, TypeInv', NEW r \in Requests, Local(r), ForwardFailed(r)
  PROVE  Local(r)'
<1>1. Placed(r)'
  BY GatewayAssumption DEF ForwardFailed, Reply, Holds, CommitBuffer, Contents,
     Written, Leave, Goto, reqVars, lockVars, billVars, Local, Placed, Alive,
     TypeInv, PlaceTypes, FailoverTypes, LockTypes, WriterTypes, BillTypes
<1>2. Captured(r)'
  BY GatewayAssumption DEF ForwardFailed, Reply, Holds, CommitBuffer, Contents,
     Written, Leave, Goto, reqVars, lockVars, billVars, Local, Captured,
     Before, During, WriterOf, AllModes, TypeInv, PlaceTypes, FailoverTypes,
     LockTypes, WriterTypes, BillTypes
<1>3. FromAttempt(r)'
  BY GatewayAssumption DEF ForwardFailed, Reply, Holds, CommitBuffer, Contents,
     Written, Leave, Goto, reqVars, lockVars, billVars, Local, FromAttempt,
     Captured, Before, During, Alive, WriterOf, TypeInv, PlaceTypes,
     FailoverTypes, LockTypes, WriterTypes, BillTypes
<1>4. EndHeld(r)'
  BY GatewayAssumption DEF ForwardFailed, Reply, Holds, CommitBuffer, Contents,
     Written, Leave, Goto, reqVars, lockVars, billVars, Local, EndHeld,
     Captured, Ends, Billed, During, WriterOf, TypeInv, PlaceTypes,
     FailoverTypes, LockTypes, WriterTypes, BillTypes
<1>5. Reserved(r)'
  BY GatewayAssumption DEF ForwardFailed, Reply, Holds, CommitBuffer, Contents,
     Written, Leave, Goto, reqVars, lockVars, billVars, Local, Reserved,
     Before, Reserving, TypeInv, PlaceTypes, FailoverTypes, LockTypes,
     WriterTypes, BillTypes
<1> QED BY <1>1, <1>2, <1>3, <1>4, <1>5 DEF Local

LEMMA RecordOkLocal ==
  ASSUME TypeInv, TypeInv', NEW r \in Requests, Local(r), RecordOk(r)
  PROVE  Local(r)'
<1>1. Placed(r)'
  BY GatewayAssumption DEF RecordOk, Goto, reqVars, stateVars, lockVars,
     outVars, Local, Placed, Alive, TypeInv, PlaceTypes, FailoverTypes,
     LockTypes, WriterTypes, BillTypes
<1>2. Captured(r)'
  BY GatewayAssumption DEF RecordOk, Goto, reqVars, stateVars, lockVars,
     outVars, Local, Captured, Before, During, WriterOf, AllModes, TypeInv,
     PlaceTypes, FailoverTypes, LockTypes, WriterTypes, BillTypes
<1>3. FromAttempt(r)'
  BY GatewayAssumption DEF RecordOk, Goto, reqVars, stateVars, lockVars,
     outVars, Local, FromAttempt, Captured, Before, During, Contents, Alive,
     WriterOf, TypeInv, PlaceTypes, FailoverTypes, LockTypes, WriterTypes,
     BillTypes
<1>4. EndHeld(r)'
  BY GatewayAssumption DEF RecordOk, Goto, reqVars, stateVars, lockVars,
     outVars, Local, EndHeld, Captured, Ends, Billed, During, WriterOf,
     TypeInv, PlaceTypes, FailoverTypes, LockTypes, WriterTypes, BillTypes
<1>5. Reserved(r)'
  BY GatewayAssumption DEF RecordOk, Goto, reqVars, stateVars, lockVars,
     outVars, Local, Reserved, Before, Reserving, TypeInv, PlaceTypes,
     FailoverTypes, LockTypes, WriterTypes, BillTypes
<1> QED BY <1>1, <1>2, <1>3, <1>4, <1>5 DEF Local

LEMMA RecordFailsLocal ==
  ASSUME TypeInv, TypeInv', NEW r \in Requests, Local(r), RecordFails(r)
  PROVE  Local(r)'
<1>1. Placed(r)'
  BY GatewayAssumption DEF RecordFails, Goto, reqVars, stateVars, lockVars,
     Local, Placed, Alive, TypeInv, PlaceTypes, FailoverTypes, LockTypes,
     WriterTypes, BillTypes
<1>2. Captured(r)'
  BY GatewayAssumption DEF RecordFails, Goto, reqVars, stateVars, lockVars,
     Local, Captured, Before, During, WriterOf, AllModes, TypeInv, PlaceTypes,
     FailoverTypes, LockTypes, WriterTypes, BillTypes
<1>3. FromAttempt(r)'
  BY GatewayAssumption DEF RecordFails, Goto, reqVars, stateVars, lockVars,
     Local, FromAttempt, Captured, Before, During, Contents, Alive, WriterOf,
     TypeInv, PlaceTypes, FailoverTypes, LockTypes, WriterTypes, BillTypes
<1>4. EndHeld(r)'
  BY GatewayAssumption DEF RecordFails, Goto, reqVars, stateVars, lockVars,
     Local, EndHeld, Captured, Ends, Billed, During, WriterOf, TypeInv,
     PlaceTypes, FailoverTypes, LockTypes, WriterTypes, BillTypes
<1>5. Reserved(r)'
  BY GatewayAssumption DEF RecordFails, Goto, reqVars, stateVars, lockVars,
     Local, Reserved, Before, Reserving, TypeInv, PlaceTypes, FailoverTypes,
     LockTypes, WriterTypes, BillTypes
<1> QED BY <1>1, <1>2, <1>3, <1>4, <1>5 DEF Local

LEMMA CommitLocal ==
  ASSUME TypeInv, TypeInv', NEW r \in Requests, Local(r), Commit(r)
  PROVE  Local(r)'
<1>1. Placed(r)'
  BY GatewayAssumption DEF Commit, CommitBuffer, Contents, Goto, reqVars,
     stateVars, lockVars, billVars, Local, Placed, Alive, TypeInv, PlaceTypes,
     FailoverTypes, LockTypes, WriterTypes, BillTypes
<1>2. Captured(r)'
  BY GatewayAssumption DEF Commit, CommitBuffer, Contents, Goto, reqVars,
     stateVars, lockVars, billVars, Local, Captured, Before, During, WriterOf,
     AllModes, TypeInv, PlaceTypes, FailoverTypes, LockTypes, WriterTypes,
     BillTypes
<1>3. FromAttempt(r)'
  <2>1. /\ pc[r] = "commit" /\ pc'[r] = "return" /\ attempt'[r] = attempt[r]
        /\ shown'[r] \in {shown[r], shown[r] \cup held[r],
                          shown[r] \cup {<<attempt[r], "error">>}}
        /\ held'[r] = {}
    BY DEF Commit, CommitBuffer, Goto, stateVars, TypeInv, PlaceTypes,
       WriterTypes
  <2>2. \A x \in Contents(shown[r]) \cup Contents(held[r]) : x[1] = attempt[r]
    BY <2>1 DEF Local, FromAttempt, Alive
  <2>3. Contents(shown'[r]) \subseteq Contents(shown[r]) \cup Contents(held[r])
    BY <2>1, Kinds DEF Contents
  <2>4. Contents(held'[r]) = {}
    BY <2>1, Kinds
  <2> QED BY <2>1, <2>2, <2>3, <2>4 DEF FromAttempt, Before, During
<1>4. EndHeld(r)'
  BY GatewayAssumption DEF Commit, CommitBuffer, Contents, Goto, reqVars,
     stateVars, lockVars, billVars, Local, EndHeld, Captured, Ends, Billed,
     During, WriterOf, TypeInv, PlaceTypes, FailoverTypes, LockTypes,
     WriterTypes, BillTypes
<1>5. Reserved(r)'
  BY GatewayAssumption DEF Commit, CommitBuffer, Contents, Goto, reqVars,
     stateVars, lockVars, billVars, Local, Reserved, Before, Reserving,
     TypeInv, PlaceTypes, FailoverTypes, LockTypes, WriterTypes, BillTypes
<1> QED BY <1>1, <1>2, <1>3, <1>4, <1>5 DEF Local

LEMMA ReturnLocal ==
  ASSUME TypeInv, TypeInv', NEW r \in Requests, Local(r), Return(r)
  PROVE  Local(r)'
<1>1. Placed(r)'
  BY GatewayAssumption DEF Return, Abandon, PublishRelease, Forget, Goto,
     lockVars, Local, Placed, Alive, TypeInv, PlaceTypes, FailoverTypes,
     LockTypes, WriterTypes, BillTypes
<1>2. Captured(r)'
  BY GatewayAssumption DEF Return, Abandon, PublishRelease, Forget, Goto,
     lockVars, Local, Captured, Before, During, WriterOf, AllModes, TypeInv,
     PlaceTypes, FailoverTypes, LockTypes, WriterTypes, BillTypes
<1>3. FromAttempt(r)'
  BY GatewayAssumption DEF Return, Abandon, PublishRelease, Forget, Goto,
     lockVars, Local, FromAttempt, Captured, Before, During, Contents, Alive,
     WriterOf, TypeInv, PlaceTypes, FailoverTypes, LockTypes, WriterTypes,
     BillTypes
<1>4. EndHeld(r)'
  BY GatewayAssumption DEF Return, Abandon, PublishRelease, Forget, Goto,
     lockVars, Local, EndHeld, Captured, Ends, Billed, During, WriterOf,
     TypeInv, PlaceTypes, FailoverTypes, LockTypes, WriterTypes, BillTypes
<1>5. Reserved(r)'
  BY GatewayAssumption DEF Return, Abandon, PublishRelease, Forget, Goto,
     lockVars, Local, Reserved, Before, Reserving, TypeInv, PlaceTypes,
     FailoverTypes, LockTypes, WriterTypes, BillTypes
<1> QED BY <1>1, <1>2, <1>3, <1>4, <1>5 DEF Local

LEMMA WriteBodyLocal ==
  ASSUME TypeInv, TypeInv', NEW r \in Requests, Local(r), WriteBody(r)
  PROVE  Local(r)'
<1>1. Placed(r)'
  BY GatewayAssumption DEF WriteBody, reqVars, stateVars, lockVars, billVars,
     Local, Placed, Alive, TypeInv, PlaceTypes, FailoverTypes, LockTypes,
     WriterTypes, BillTypes
<1>2. Captured(r)'
  BY GatewayAssumption DEF WriteBody, reqVars, stateVars, lockVars, billVars,
     Local, Captured, Before, During, WriterOf, AllModes, TypeInv, PlaceTypes,
     FailoverTypes, LockTypes, WriterTypes, BillTypes
<1>3. FromAttempt(r)'
  <2> DEFINE e == {<<attempt[r], "body">>}
  <2>1. /\ pc[r] = "streaming" /\ pc'[r] = "streaming"
        /\ attempt'[r] = attempt[r] /\ capture'[r] = capture[r]
        /\ \/ /\ shown'[r] = shown[r] \cup held[r] \cup e /\ held'[r] = {}
              /\ capture[r] # "buffer"
           \/ shown'[r] = shown[r] /\ held'[r] = held[r] \cup e
    BY DEF WriteBody, stateVars, TypeInv, PlaceTypes, WriterTypes
  <2>2. \A x \in Contents(shown[r]) \cup Contents(held[r]) : x[1] = attempt[r]
    BY <2>1 DEF Local, FromAttempt, Alive
  <2>3. \A x \in Contents(e) : x[1] = attempt[r]
    BY DEF Contents
  <2>4. capture[r] = "buffer" => Contents(shown[r]) = {}
    BY <2>1 DEF Local, FromAttempt, During
  <2> HIDE DEF e
  <2>5. \A x \in Contents(shown'[r]) \cup Contents(held'[r]) : x[1] = attempt[r]
    BY <2>1, <2>2, <2>3 DEF Contents
  <2>6. capture[r] = "buffer" => Contents(shown'[r]) = {}
    BY <2>1, <2>4
  <2> QED BY <2>1, <2>5, <2>6 DEF FromAttempt, Before
<1>4. EndHeld(r)'
  BY GatewayAssumption DEF WriteBody, reqVars, stateVars, lockVars, billVars,
     Local, EndHeld, Captured, Ends, Billed, During, WriterOf, TypeInv,
     PlaceTypes, FailoverTypes, LockTypes, WriterTypes, BillTypes
<1>5. Reserved(r)'
  BY GatewayAssumption DEF WriteBody, reqVars, stateVars, lockVars, billVars,
     Local, Reserved, Before, Reserving, TypeInv, PlaceTypes, FailoverTypes,
     LockTypes, WriterTypes, BillTypes
<1> QED BY <1>1, <1>2, <1>3, <1>4, <1>5 DEF Local

LEMMA CrashLocal ==
  ASSUME TypeInv, TypeInv', NEW r \in Requests, Local(r), Crash(r)
  PROVE  Local(r)'
<1>1. Placed(r)'
  BY GatewayAssumption DEF Crash, Alive, Forget, Goto, outVars, billVars,
     Local, Placed, TypeInv, PlaceTypes, FailoverTypes, LockTypes, WriterTypes,
     BillTypes
<1>2. Captured(r)'
  BY GatewayAssumption DEF Crash, Alive, Forget, Goto, outVars, billVars,
     Local, Captured, Before, During, WriterOf, AllModes, TypeInv, PlaceTypes,
     FailoverTypes, LockTypes, WriterTypes, BillTypes
<1>3. FromAttempt(r)'
  BY GatewayAssumption DEF Crash, Alive, Forget, Goto, outVars, billVars,
     Local, FromAttempt, Captured, Before, During, Contents, WriterOf, TypeInv,
     PlaceTypes, FailoverTypes, LockTypes, WriterTypes, BillTypes
<1>4. EndHeld(r)'
  BY GatewayAssumption DEF Crash, Alive, Forget, Goto, outVars, billVars,
     Local, EndHeld, Captured, Ends, Billed, During, WriterOf, TypeInv,
     PlaceTypes, FailoverTypes, LockTypes, WriterTypes, BillTypes
<1>5. Reserved(r)'
  BY GatewayAssumption DEF Crash, Alive, Forget, Goto, outVars, billVars,
     Local, Reserved, Before, Reserving, TypeInv, PlaceTypes, FailoverTypes,
     LockTypes, WriterTypes, BillTypes
<1> QED BY <1>1, <1>2, <1>3, <1>4, <1>5 DEF Local

LEMMA ClientLeavesLocal ==
  ASSUME TypeInv, TypeInv', NEW r \in Requests, Local(r), ClientLeaves(r)
  PROVE  Local(r)'
<1>1. Placed(r)'
  BY GatewayAssumption DEF ClientLeaves, Alive, reqVars, stateVars, lockVars,
     outVars, billVars, Local, Placed, TypeInv, PlaceTypes, FailoverTypes,
     LockTypes, WriterTypes, BillTypes
<1>2. Captured(r)'
  BY GatewayAssumption DEF ClientLeaves, Alive, reqVars, stateVars, lockVars,
     outVars, billVars, Local, Captured, Before, During, WriterOf, AllModes,
     TypeInv, PlaceTypes, FailoverTypes, LockTypes, WriterTypes, BillTypes
<1>3. FromAttempt(r)'
  BY GatewayAssumption DEF ClientLeaves, Alive, reqVars, stateVars, lockVars,
     outVars, billVars, Local, FromAttempt, Captured, Before, During, Contents,
     WriterOf, TypeInv, PlaceTypes, FailoverTypes, LockTypes, WriterTypes,
     BillTypes
<1>4. EndHeld(r)'
  BY GatewayAssumption DEF ClientLeaves, Alive, reqVars, stateVars, lockVars,
     outVars, billVars, Local, EndHeld, Captured, Ends, Billed, During,
     WriterOf, TypeInv, PlaceTypes, FailoverTypes, LockTypes, WriterTypes,
     BillTypes
<1>5. Reserved(r)'
  BY GatewayAssumption DEF ClientLeaves, Alive, reqVars, stateVars, lockVars,
     outVars, billVars, Local, Reserved, Before, Reserving, TypeInv,
     PlaceTypes, FailoverTypes, LockTypes, WriterTypes, BillTypes
<1> QED BY <1>1, <1>2, <1>3, <1>4, <1>5 DEF Local

LEMMA SlotOnDoneLocal ==
  ASSUME TypeInv, TypeInv', NEW r \in Requests, Local(r), SlotOnDone(r)
  PROVE  Local(r)'
<1>1. Placed(r)'
  BY GatewayAssumption DEF SlotOnDone, Alive, ReleaseSlot, reqVars, stateVars,
     lockVars, outVars, billVars, Local, Placed, TypeInv, PlaceTypes,
     FailoverTypes, LockTypes, WriterTypes, BillTypes
<1>2. Captured(r)'
  BY GatewayAssumption DEF SlotOnDone, Alive, ReleaseSlot, reqVars, stateVars,
     lockVars, outVars, billVars, Local, Captured, Before, During, WriterOf,
     AllModes, TypeInv, PlaceTypes, FailoverTypes, LockTypes, WriterTypes,
     BillTypes
<1>3. FromAttempt(r)'
  BY GatewayAssumption DEF SlotOnDone, Alive, ReleaseSlot, reqVars, stateVars,
     lockVars, outVars, billVars, Local, FromAttempt, Captured, Before, During,
     Contents, WriterOf, TypeInv, PlaceTypes, FailoverTypes, LockTypes,
     WriterTypes, BillTypes
<1>4. EndHeld(r)'
  BY GatewayAssumption DEF SlotOnDone, Alive, ReleaseSlot, reqVars, stateVars,
     lockVars, outVars, billVars, Local, EndHeld, Captured, Ends, Billed,
     During, WriterOf, TypeInv, PlaceTypes, FailoverTypes, LockTypes,
     WriterTypes, BillTypes
<1>5. Reserved(r)'
  BY GatewayAssumption DEF SlotOnDone, Alive, ReleaseSlot, reqVars, stateVars,
     lockVars, outVars, billVars, Local, Reserved, Before, Reserving, TypeInv,
     PlaceTypes, FailoverTypes, LockTypes, WriterTypes, BillTypes
<1> QED BY <1>1, <1>2, <1>3, <1>4, <1>5 DEF Local

LEMMA QueueOnDoneLocal ==
  ASSUME TypeInv, TypeInv', NEW r \in Requests, Local(r), QueueOnDone(r)
  PROVE  Local(r)'
<1>1. Placed(r)'
  BY GatewayAssumption DEF QueueOnDone, Alive, ReleaseQueue, reqVars,
     stateVars, outVars, billVars, Local, Placed, TypeInv, PlaceTypes,
     FailoverTypes, LockTypes, WriterTypes, BillTypes
<1>2. Captured(r)'
  BY GatewayAssumption DEF QueueOnDone, Alive, ReleaseQueue, reqVars,
     stateVars, outVars, billVars, Local, Captured, Before, During, WriterOf,
     AllModes, TypeInv, PlaceTypes, FailoverTypes, LockTypes, WriterTypes,
     BillTypes
<1>3. FromAttempt(r)'
  BY GatewayAssumption DEF QueueOnDone, Alive, ReleaseQueue, reqVars,
     stateVars, outVars, billVars, Local, FromAttempt, Captured, Before,
     During, Contents, WriterOf, TypeInv, PlaceTypes, FailoverTypes, LockTypes,
     WriterTypes, BillTypes
<1>4. EndHeld(r)'
  BY GatewayAssumption DEF QueueOnDone, Alive, ReleaseQueue, reqVars,
     stateVars, outVars, billVars, Local, EndHeld, Captured, Ends, Billed,
     During, WriterOf, TypeInv, PlaceTypes, FailoverTypes, LockTypes,
     WriterTypes, BillTypes
<1>5. Reserved(r)'
  BY GatewayAssumption DEF QueueOnDone, Alive, ReleaseQueue, reqVars,
     stateVars, outVars, billVars, Local, Reserved, Before, Reserving, TypeInv,
     PlaceTypes, FailoverTypes, LockTypes, WriterTypes, BillTypes
<1> QED BY <1>1, <1>2, <1>3, <1>4, <1>5 DEF Local

LEMMA StepFrame ==
  ASSUME TypeInv, NEW r \in Requests, RequestStep(r),
         NEW s \in Requests, s # r
  PROVE  Untouched(s)
<1>1. CASE Select(r)
  BY <1>1, SelectFrame
<1>2. CASE SlotTimeout(r)
  BY <1>2, SlotTimeoutFrame
<1>3. CASE Intercept(r)
  BY <1>3, InterceptFrame
<1>4. CASE Backoff(r)
  BY <1>4, BackoffFrame
<1>5. CASE NoneLeft(r)
  BY <1>5, NoneLeftFrame
<1>6. CASE QueueAcquire(r)
  BY <1>6, QueueAcquireFrame
<1>7. CASE QueueFailOpen(r)
  BY <1>7, QueueFailOpenFrame
<1>8. CASE QueueTimeout(r)
  BY <1>8, QueueTimeoutFrame
<1>9. CASE ReserveFails(r)
  BY <1>9, ReserveFailsFrame
<1>10. CASE Forward(r)
  BY <1>10, ForwardFrame
<1>11. CASE Accepted(r)
  BY <1>11, AcceptedFrame
<1>12. CASE Refused(r)
  BY <1>12, RefusedFrame
<1>13. CASE Finishes(r)
  BY <1>13, FinishesFrame
<1>14. CASE Breaks(r)
  BY <1>14, BreaksFrame
<1>15. CASE GiveUpStreamed(r)
  BY <1>15, GiveUpStreamedFrame
<1>16. CASE RetrySame(r)
  BY <1>16, RetrySameFrame
<1>17. CASE Switch(r)
  BY <1>17, SwitchFrame
<1>18. CASE Exhausted(r)
  BY <1>18, ExhaustedFrame
<1>19. CASE Canceled(r)
  BY <1>19, CanceledFrame
<1>20. CASE UseFallback(r)
  BY <1>20, UseFallbackFrame
<1>21. CASE EndWithError(r)
  BY <1>21, EndWithErrorFrame
<1>22. CASE ForwardFailed(r)
  BY <1>22, ForwardFailedFrame
<1>23. CASE RecordOk(r)
  BY <1>23, RecordOkFrame
<1>24. CASE RecordFails(r)
  BY <1>24, RecordFailsFrame
<1>25. CASE Commit(r)
  BY <1>25, CommitFrame
<1>26. CASE Return(r)
  BY <1>26, ReturnFrame
<1>27. CASE WriteBody(r)
  BY <1>27, WriteBodyFrame
<1>28. CASE Crash(r)
  BY <1>28, CrashFrame
<1>29. CASE ClientLeaves(r)
  BY <1>29, ClientLeavesFrame
<1>30. CASE SlotOnDone(r)
  BY <1>30, SlotOnDoneFrame
<1>31. CASE QueueOnDone(r)
  BY <1>31, QueueOnDoneFrame
<1> QED BY <1>1, <1>2, <1>3, <1>4, <1>5, <1>6, <1>7, <1>8, <1>9, <1>10, <1>11,
     <1>12, <1>13, <1>14, <1>15, <1>16, <1>17, <1>18, <1>19, <1>20, <1>21,
     <1>22, <1>23, <1>24, <1>25, <1>26, <1>27, <1>28, <1>29, <1>30, <1>31 DEF
     RequestStep, Step

LEMMA StepLocal ==
  ASSUME TypeInv, TypeInv', NEW r \in Requests, Local(r), RequestStep(r)
  PROVE  Local(r)'
<1>1. CASE Select(r)
  BY <1>1, SelectLocal
<1>2. CASE SlotTimeout(r)
  BY <1>2, SlotTimeoutLocal
<1>3. CASE Intercept(r)
  BY <1>3, InterceptLocal
<1>4. CASE Backoff(r)
  BY <1>4, BackoffLocal
<1>5. CASE NoneLeft(r)
  BY <1>5, NoneLeftLocal
<1>6. CASE QueueAcquire(r)
  BY <1>6, QueueAcquireLocal
<1>7. CASE QueueFailOpen(r)
  BY <1>7, QueueFailOpenLocal
<1>8. CASE QueueTimeout(r)
  BY <1>8, QueueTimeoutLocal
<1>9. CASE ReserveFails(r)
  BY <1>9, ReserveFailsLocal
<1>10. CASE Forward(r)
  BY <1>10, ForwardLocal
<1>11. CASE Accepted(r)
  BY <1>11, AcceptedLocal
<1>12. CASE Refused(r)
  BY <1>12, RefusedLocal
<1>13. CASE Finishes(r)
  BY <1>13, FinishesLocal
<1>14. CASE Breaks(r)
  BY <1>14, BreaksLocal
<1>15. CASE GiveUpStreamed(r)
  BY <1>15, GiveUpStreamedLocal
<1>16. CASE RetrySame(r)
  BY <1>16, RetrySameLocal
<1>17. CASE Switch(r)
  BY <1>17, SwitchLocal
<1>18. CASE Exhausted(r)
  BY <1>18, ExhaustedLocal
<1>19. CASE Canceled(r)
  BY <1>19, CanceledLocal
<1>20. CASE UseFallback(r)
  BY <1>20, UseFallbackLocal
<1>21. CASE EndWithError(r)
  BY <1>21, EndWithErrorLocal
<1>22. CASE ForwardFailed(r)
  BY <1>22, ForwardFailedLocal
<1>23. CASE RecordOk(r)
  BY <1>23, RecordOkLocal
<1>24. CASE RecordFails(r)
  BY <1>24, RecordFailsLocal
<1>25. CASE Commit(r)
  BY <1>25, CommitLocal
<1>26. CASE Return(r)
  BY <1>26, ReturnLocal
<1>27. CASE WriteBody(r)
  BY <1>27, WriteBodyLocal
<1>28. CASE Crash(r)
  BY <1>28, CrashLocal
<1>29. CASE ClientLeaves(r)
  BY <1>29, ClientLeavesLocal
<1>30. CASE SlotOnDone(r)
  BY <1>30, SlotOnDoneLocal
<1>31. CASE QueueOnDone(r)
  BY <1>31, QueueOnDoneLocal
<1> QED BY <1>1, <1>2, <1>3, <1>4, <1>5, <1>6, <1>7, <1>8, <1>9, <1>10, <1>11,
     <1>12, <1>13, <1>14, <1>15, <1>16, <1>17, <1>18, <1>19, <1>20, <1>21,
     <1>22, <1>23, <1>24, <1>25, <1>26, <1>27, <1>28, <1>29, <1>30, <1>31 DEF
     RequestStep, Step

LEMMA NextLocal ==
  ASSUME TypeInv, TypeInv', NEW s \in Requests, Local(s), [Next]_vars
  PROVE  Local(s)'
<1>1. ASSUME NEW r \in Requests, RequestStep(r) PROVE Local(s)'
  BY <1>1, StepLocal, StepFrame, LocalFrame
<1>2. ASSUME NEW a \in Accounts, LockExpires(a) \/ LoseTTL(a) \/ ForceRelease(a)
      PROVE  Local(s)'
  BY <1>2, LockExpiresFrame, LoseTTLFrame, ForceReleaseFrame, LocalFrame
<1>3. CASE UNCHANGED vars
  <2>1. Untouched(s)
    BY <1>3 DEF vars, reqVars, stateVars, lockVars, outVars, billVars, Untouched
  <2> QED BY <2>1, LocalFrame
<1> QED BY <1>1, <1>2, <1>3 DEF Next, RequestStep

\* What holds at each place of the handler of a request, in every reachable state.
THEOREM LocalInvariant == Spec => [](\A r \in Requests : Local(r))
<1>1. Init => \A r \in Requests : Local(r)
  <2> SUFFICES ASSUME Init, NEW r \in Requests PROVE Local(r)
    OBVIOUS
  <2>1. /\ pc[r] \in {"done", "select"}
        /\ pc[r] = "select" => mode[r] \in AllModes
        /\ slot[r] = NoAccount /\ capture[r] = "none"
        /\ held[r] = {} /\ shown[r] = {} /\ open[r] = {}
        /\ queued = {} /\ published = {} /\ finalized = {}
    BY GatewayAssumption DEF Init
  <2>2. Placed(r) /\ Captured(r)
    BY <2>1 DEF Placed, Captured, Alive, Before, During
  <2>3. FromAttempt(r) /\ EndHeld(r)
    BY <2>1 DEF FromAttempt, EndHeld, Contents, Ends, During
  <2>4. Reserved(r)
    BY <2>1 DEF Reserved
  <2> QED BY <2>2, <2>3, <2>4 DEF Local
<1>2. TypeInv /\ TypeInv' /\ (\A r \in Requests : Local(r)) /\ [Next]_vars
        => (\A r \in Requests : Local(r))'
  BY NextLocal
<1> QED BY <1>1, <1>2, TypesInvariant, PTL DEF Spec

\* A client never receives content of two attempts, however often the handler
\* retries and switches accounts.
THEOREM AnswersNotSpliced == Spec => []NoSplice
<1>1. (\A r \in Requests : Local(r)) => NoSplice
  BY DEF Local, FromAttempt, NoSplice
<1> QED BY <1>1, LocalInvariant, PTL

\* The end of a billed stream and a buffered answer are shown only after the
\* charge was published, or its publication of a stream reported an error.
THEOREM EndsCharged == Spec => []EndIsCharged
<1>1. (\A r \in Requests : Local(r)) => EndIsCharged
  BY DEF Local, EndHeld, Billed, Ends, EndIsCharged
<1> QED BY <1>1, LocalInvariant, PTL

\* Unless a publication fails, no reservation outlives its attempt.
THEOREM ReservationsSettle == Spec => []ReservationsSettled
<1>1. (\A r \in Requests : Local(r)) => ReservationsSettled
  BY DEF Local, Reserved, ReservationsSettled
<1> QED BY <1>1, LocalInvariant, PTL

-----------------------------------------------------------------------------
(* The user message lock *)

LEMMA ReleaseQueueLock ==
  ASSUME TypeInv, \A s \in Requests : Placed(s), LockInv, NEW r \in Requests,
         ReleaseQueue(r), acct' = acct
  PROVE  LockInv'
<1>1. queued' = queued \ {r} /\ lapsed' = lapsed \ {r}
  BY DEF ReleaseQueue
<1>2. CASE lock' = lock /\ ~(r \in queued /\ lock[acct[r]] = r)
  BY <1>1, <1>2 DEF LockInv, TypeInv, LockTypes
<1>3. CASE /\ lock[acct[r]] = r
           /\ lock' \in {[lock EXCEPT ![acct[r]] = Free],
                         [lock EXCEPT ![acct[r]] = Orphan]}
  <2>1. \A s \in queued' \ lapsed' : lock'[acct'[s]] = s
    <3> SUFFICES ASSUME NEW s \in queued' \ lapsed' PROVE lock'[acct[s]] = s
      OBVIOUS
    <3>1. s \in queued \ lapsed /\ s # r /\ lock[acct[s]] = s
      BY <1>1 DEF LockInv
    <3>2. acct[s] \in Accounts
      BY <3>1 DEF Placed, TypeInv, LockTypes, ChoiceMade, Chosen
    <3>3. acct[s] # acct[r]
      BY <1>3, <3>1
    <3> QED BY <1>3, <3>1, <3>2, <3>3 DEF TypeInv, LockTypes
  <2>2. \A a \in Accounts, s \in Requests :
          lock'[a] = s => s \in queued' /\ acct'[s] = a
    <3> SUFFICES ASSUME NEW a \in Accounts, NEW s \in Requests, lock'[a] = s
                 PROVE  s \in queued' /\ acct[s] = a
      OBVIOUS
    <3>1. a # acct[r] /\ lock[a] = s
      BY <1>3, GatewayAssumption DEF TypeInv, LockTypes
    <3> QED BY <1>1, <3>1 DEF LockInv
  <2> QED BY <2>1, <2>2 DEF LockInv
<1> QED BY <1>2, <1>3 DEF ReleaseQueue

\* A request that is not queued may change its account.
LEMMA MovesLock ==
  ASSUME TypeInv, LockInv, NEW r \in Requests, r \notin queued,
         \A s \in Requests \ {r} : acct'[s] = acct[s], UNCHANGED lockVars
  PROVE  LockInv'
BY DEF LockInv, lockVars, TypeInv, LockTypes

LEMMA SelectLock ==
  ASSUME TypeInv, \A s \in Requests : Placed(s), LockInv, NEW r \in Requests,
         Select(r)
  PROVE  LockInv'
<1>1. r \notin queued
  BY DEF Select, Placed
<1>2. \A s \in Requests \ {r} : acct'[s] = acct[s]
  BY DEF Select, TypeInv, FailoverTypes
<1> QED BY <1>1, <1>2, MovesLock DEF Select

LEMMA SlotTimeoutLock ==
  ASSUME TypeInv, \A s \in Requests : Placed(s), LockInv, NEW r \in Requests, SlotTimeout(r)
  PROVE  LockInv'
BY GatewayAssumption DEF SlotTimeout, Goto, reqVars, stateVars, lockVars,
   billVars, LockInv, Placed, TypeInv, PlaceTypes, FailoverTypes, LockTypes,
   ChoiceMade, Chosen

LEMMA InterceptLock ==
  ASSUME TypeInv, \A s \in Requests : Placed(s), LockInv, NEW r \in Requests, Intercept(r)
  PROVE  LockInv'
BY GatewayAssumption DEF Intercept, Goto, reqVars, stateVars, lockVars,
   billVars, LockInv, Placed, TypeInv, PlaceTypes, FailoverTypes, LockTypes,
   ChoiceMade, Chosen

LEMMA BackoffLock ==
  ASSUME TypeInv, \A s \in Requests : Placed(s), LockInv, NEW r \in Requests, Backoff(r)
  PROVE  LockInv'
BY GatewayAssumption DEF Backoff, reqVars, lockVars, outVars, billVars,
   LockInv, Placed, TypeInv, PlaceTypes, FailoverTypes, LockTypes, ChoiceMade,
   Chosen

LEMMA NoneLeftLock ==
  ASSUME TypeInv, \A s \in Requests : Placed(s), LockInv, NEW r \in Requests, NoneLeft(r)
  PROVE  LockInv'
BY GatewayAssumption DEF NoneLeft, outVars, Goto, reqVars, stateVars, lockVars,
   billVars, LockInv, Placed, TypeInv, PlaceTypes, FailoverTypes, LockTypes,
   ChoiceMade, Chosen

LEMMA QueueAcquireLock ==
  ASSUME TypeInv, \A s \in Requests : Placed(s), LockInv, NEW r \in Requests, QueueAcquire(r)
  PROVE  LockInv'
BY GatewayAssumption DEF QueueAcquire, Goto, reqVars, stateVars, billVars,
   LockInv, Placed, TypeInv, PlaceTypes, FailoverTypes, LockTypes, ChoiceMade,
   Chosen

LEMMA QueueFailOpenLock ==
  ASSUME TypeInv, \A s \in Requests : Placed(s), LockInv, NEW r \in Requests,
         QueueFailOpen(r)
  PROVE  LockInv'
<1>1. lock' = lock \/ (lock[acct[r]] = Free /\ lock' = [lock EXCEPT ![acct[r]] = Orphan])
  BY DEF QueueFailOpen
<1>2. UNCHANGED <<queued, lapsed, acct>>
  BY DEF QueueFailOpen, stateVars
<1>3. \A a \in Accounts, s \in Requests : lock'[a] = s <=> lock[a] = s
  BY <1>1, GatewayAssumption DEF TypeInv, LockTypes
<1>4. \A s \in queued : acct[s] \in Accounts
  BY DEF Placed, TypeInv, ChoiceMade, Chosen, LockTypes
<1> QED BY <1>2, <1>3, <1>4 DEF LockInv, TypeInv, LockTypes

LEMMA QueueTimeoutLock ==
  ASSUME TypeInv, \A s \in Requests : Placed(s), LockInv, NEW r \in Requests, QueueTimeout(r)
  PROVE  LockInv'
BY GatewayAssumption DEF QueueTimeout, Goto, reqVars, stateVars, lockVars,
   billVars, LockInv, Placed, TypeInv, PlaceTypes, FailoverTypes, LockTypes,
   ChoiceMade, Chosen

LEMMA ReserveFailsLock ==
  ASSUME TypeInv, \A s \in Requests : Placed(s), LockInv, NEW r \in Requests,
         ReserveFails(r)
  PROVE  LockInv'
BY ReleaseQueueLock DEF ReserveFails, stateVars

LEMMA ForwardLock ==
  ASSUME TypeInv, \A s \in Requests : Placed(s), LockInv, NEW r \in Requests, Forward(r)
  PROVE  LockInv'
BY GatewayAssumption DEF Forward, Goto, reqVars, lockVars, LockInv, Placed,
   TypeInv, PlaceTypes, FailoverTypes, LockTypes, ChoiceMade, Chosen

LEMMA AcceptedLock ==
  ASSUME TypeInv, \A s \in Requests : Placed(s), LockInv, NEW r \in Requests,
         Accepted(r)
  PROVE  LockInv'
BY ReleaseQueueLock DEF Accepted, stateVars

LEMMA RefusedLock ==
  ASSUME TypeInv, \A s \in Requests : Placed(s), LockInv, NEW r \in Requests,
         Refused(r)
  PROVE  LockInv'
BY ReleaseQueueLock DEF Refused, Returned

LEMMA FinishesLock ==
  ASSUME TypeInv, \A s \in Requests : Placed(s), LockInv, NEW r \in Requests,
         Finishes(r)
  PROVE  LockInv'
BY ReleaseQueueLock DEF Finishes, Returned, stateVars

LEMMA BreaksLock ==
  ASSUME TypeInv, \A s \in Requests : Placed(s), LockInv, NEW r \in Requests,
         Breaks(r)
  PROVE  LockInv'
BY ReleaseQueueLock DEF Breaks, Returned

LEMMA GiveUpStreamedLock ==
  ASSUME TypeInv, \A s \in Requests : Placed(s), LockInv, NEW r \in Requests, GiveUpStreamed(r)
  PROVE  LockInv'
BY GatewayAssumption DEF GiveUpStreamed, Leave, Goto, reqVars, lockVars,
   billVars, LockInv, Placed, TypeInv, PlaceTypes, FailoverTypes, LockTypes,
   ChoiceMade, Chosen

LEMMA RetrySameLock ==
  ASSUME TypeInv, \A s \in Requests : Placed(s), LockInv, NEW r \in Requests,
         RetrySame(r)
  PROVE  LockInv'
<1>1. r \notin queued
  BY DEF RetrySame, CanSwitch, Again, Placed
<1>2. \A s \in Requests \ {r} : acct'[s] = acct[s]
  BY DEF RetrySame, CanSwitch, Again, TypeInv, FailoverTypes
<1> QED BY <1>1, <1>2, MovesLock DEF RetrySame

LEMMA SwitchLock ==
  ASSUME TypeInv, \A s \in Requests : Placed(s), LockInv, NEW r \in Requests,
         Switch(r)
  PROVE  LockInv'
<1>1. r \notin queued
  BY DEF Switch, CanSwitch, Again, Placed
<1>2. \A s \in Requests \ {r} : acct'[s] = acct[s]
  BY DEF Switch, CanSwitch, Again, TypeInv, FailoverTypes
<1> QED BY <1>1, <1>2, MovesLock DEF Switch

LEMMA ExhaustedLock ==
  ASSUME TypeInv, \A s \in Requests : Placed(s), LockInv, NEW r \in Requests, Exhausted(r)
  PROVE  LockInv'
BY GatewayAssumption DEF Exhausted, CanSwitch, Leave, Goto, reqVars, lockVars,
   billVars, LockInv, Placed, TypeInv, PlaceTypes, FailoverTypes, LockTypes,
   ChoiceMade, Chosen

LEMMA CanceledLock ==
  ASSUME TypeInv, \A s \in Requests : Placed(s), LockInv, NEW r \in Requests, Canceled(r)
  PROVE  LockInv'
BY GatewayAssumption DEF Canceled, CanSwitch, Leave, Goto, reqVars, lockVars,
   billVars, LockInv, Placed, TypeInv, PlaceTypes, FailoverTypes, LockTypes,
   ChoiceMade, Chosen

LEMMA UseFallbackLock ==
  ASSUME TypeInv, \A s \in Requests : Placed(s), LockInv, NEW r \in Requests,
         UseFallback(r)
  PROVE  LockInv'
<1>1. r \notin queued
  BY DEF UseFallback, Again, Placed
<1>2. \A s \in Requests \ {r} : acct'[s] = acct[s]
  BY DEF UseFallback, Again, TypeInv, FailoverTypes
<1> QED BY <1>1, <1>2, MovesLock DEF UseFallback

LEMMA EndWithErrorLock ==
  ASSUME TypeInv, \A s \in Requests : Placed(s), LockInv, NEW r \in Requests, EndWithError(r)
  PROVE  LockInv'
BY GatewayAssumption DEF EndWithError, Leave, Goto, reqVars, lockVars,
   billVars, LockInv, Placed, TypeInv, PlaceTypes, FailoverTypes, LockTypes,
   ChoiceMade, Chosen

LEMMA ForwardFailedLock ==
  ASSUME TypeInv, \A s \in Requests : Placed(s), LockInv, NEW r \in Requests, ForwardFailed(r)
  PROVE  LockInv'
BY GatewayAssumption DEF ForwardFailed, Leave, Goto, reqVars, lockVars,
   billVars, LockInv, Placed, TypeInv, PlaceTypes, FailoverTypes, LockTypes,
   ChoiceMade, Chosen

LEMMA RecordOkLock ==
  ASSUME TypeInv, \A s \in Requests : Placed(s), LockInv, NEW r \in Requests, RecordOk(r)
  PROVE  LockInv'
BY GatewayAssumption DEF RecordOk, Goto, reqVars, stateVars, lockVars, outVars,
   LockInv, Placed, TypeInv, PlaceTypes, FailoverTypes, LockTypes, ChoiceMade,
   Chosen

LEMMA RecordFailsLock ==
  ASSUME TypeInv, \A s \in Requests : Placed(s), LockInv, NEW r \in Requests, RecordFails(r)
  PROVE  LockInv'
BY GatewayAssumption DEF RecordFails, Goto, reqVars, stateVars, lockVars,
   LockInv, Placed, TypeInv, PlaceTypes, FailoverTypes, LockTypes, ChoiceMade,
   Chosen

LEMMA CommitLock ==
  ASSUME TypeInv, \A s \in Requests : Placed(s), LockInv, NEW r \in Requests, Commit(r)
  PROVE  LockInv'
BY GatewayAssumption DEF Commit, Goto, reqVars, stateVars, lockVars, billVars,
   LockInv, Placed, TypeInv, PlaceTypes, FailoverTypes, LockTypes, ChoiceMade,
   Chosen

LEMMA ReturnLock ==
  ASSUME TypeInv, \A s \in Requests : Placed(s), LockInv, NEW r \in Requests,
         Return(r)
  PROVE  LockInv'
<1>1. r \notin queued
  BY DEF Return, Forget, Placed
<1>2. \A s \in Requests \ {r} : acct'[s] = acct[s]
  BY DEF Return, Forget, TypeInv, FailoverTypes
<1> QED BY <1>1, <1>2, MovesLock DEF Return

LEMMA WriteBodyLock ==
  ASSUME TypeInv, \A s \in Requests : Placed(s), LockInv, NEW r \in Requests, WriteBody(r)
  PROVE  LockInv'
BY GatewayAssumption DEF WriteBody, reqVars, stateVars, lockVars, billVars,
   LockInv, Placed, TypeInv, PlaceTypes, FailoverTypes, LockTypes, ChoiceMade,
   Chosen

LEMMA CrashLock ==
  ASSUME TypeInv, \A s \in Requests : Placed(s), LockInv, NEW r \in Requests, Crash(r)
  PROVE  LockInv'
BY GatewayAssumption DEF Crash, Forget, Goto, outVars, billVars, LockInv,
   Placed, TypeInv, PlaceTypes, FailoverTypes, LockTypes, ChoiceMade, Chosen

LEMMA ClientLeavesLock ==
  ASSUME TypeInv, \A s \in Requests : Placed(s), LockInv, NEW r \in Requests, ClientLeaves(r)
  PROVE  LockInv'
BY GatewayAssumption DEF ClientLeaves, reqVars, stateVars, lockVars, outVars,
   billVars, LockInv, Placed, TypeInv, PlaceTypes, FailoverTypes, LockTypes,
   ChoiceMade, Chosen

LEMMA SlotOnDoneLock ==
  ASSUME TypeInv, \A s \in Requests : Placed(s), LockInv, NEW r \in Requests, SlotOnDone(r)
  PROVE  LockInv'
BY GatewayAssumption DEF SlotOnDone, reqVars, stateVars, lockVars, outVars,
   billVars, LockInv, Placed, TypeInv, PlaceTypes, FailoverTypes, LockTypes,
   ChoiceMade, Chosen

LEMMA QueueOnDoneLock ==
  ASSUME TypeInv, \A s \in Requests : Placed(s), LockInv, NEW r \in Requests,
         QueueOnDone(r)
  PROVE  LockInv'
BY ReleaseQueueLock DEF QueueOnDone, stateVars

LEMMA LockExpiresLock ==
  ASSUME TypeInv, \A s \in Requests : Placed(s), LockInv, NEW a \in Accounts, LockExpires(a)
  PROVE  LockInv'
BY GatewayAssumption DEF LockExpires, reqVars, stateVars, outVars, billVars,
   LockInv, Placed, TypeInv, PlaceTypes, FailoverTypes, LockTypes, ChoiceMade,
   Chosen

LEMMA LoseTTLLock ==
  ASSUME TypeInv, \A s \in Requests : Placed(s), LockInv, NEW a \in Accounts, LoseTTL(a)
  PROVE  LockInv'
BY GatewayAssumption DEF LoseTTL, reqVars, stateVars, outVars, billVars,
   LockInv, Placed, TypeInv, PlaceTypes, FailoverTypes, LockTypes, ChoiceMade,
   Chosen

LEMMA ForceReleaseLock ==
  ASSUME TypeInv, \A s \in Requests : Placed(s), LockInv, NEW a \in Accounts, ForceRelease(a)
  PROVE  LockInv'
BY GatewayAssumption DEF ForceRelease, reqVars, stateVars, outVars, billVars,
   LockInv, Placed, TypeInv, PlaceTypes, FailoverTypes, LockTypes, ChoiceMade,
   Chosen

LEMMA StepLock ==
  ASSUME TypeInv, \A s \in Requests : Placed(s), LockInv,
         NEW r \in Requests, RequestStep(r)
  PROVE  LockInv'
<1>1. CASE Select(r)
  BY <1>1, SelectLock
<1>2. CASE SlotTimeout(r)
  BY <1>2, SlotTimeoutLock
<1>3. CASE Intercept(r)
  BY <1>3, InterceptLock
<1>4. CASE Backoff(r)
  BY <1>4, BackoffLock
<1>5. CASE NoneLeft(r)
  BY <1>5, NoneLeftLock
<1>6. CASE QueueAcquire(r)
  BY <1>6, QueueAcquireLock
<1>7. CASE QueueFailOpen(r)
  BY <1>7, QueueFailOpenLock
<1>8. CASE QueueTimeout(r)
  BY <1>8, QueueTimeoutLock
<1>9. CASE ReserveFails(r)
  BY <1>9, ReserveFailsLock
<1>10. CASE Forward(r)
  BY <1>10, ForwardLock
<1>11. CASE Accepted(r)
  BY <1>11, AcceptedLock
<1>12. CASE Refused(r)
  BY <1>12, RefusedLock
<1>13. CASE Finishes(r)
  BY <1>13, FinishesLock
<1>14. CASE Breaks(r)
  BY <1>14, BreaksLock
<1>15. CASE GiveUpStreamed(r)
  BY <1>15, GiveUpStreamedLock
<1>16. CASE RetrySame(r)
  BY <1>16, RetrySameLock
<1>17. CASE Switch(r)
  BY <1>17, SwitchLock
<1>18. CASE Exhausted(r)
  BY <1>18, ExhaustedLock
<1>19. CASE Canceled(r)
  BY <1>19, CanceledLock
<1>20. CASE UseFallback(r)
  BY <1>20, UseFallbackLock
<1>21. CASE EndWithError(r)
  BY <1>21, EndWithErrorLock
<1>22. CASE ForwardFailed(r)
  BY <1>22, ForwardFailedLock
<1>23. CASE RecordOk(r)
  BY <1>23, RecordOkLock
<1>24. CASE RecordFails(r)
  BY <1>24, RecordFailsLock
<1>25. CASE Commit(r)
  BY <1>25, CommitLock
<1>26. CASE Return(r)
  BY <1>26, ReturnLock
<1>27. CASE WriteBody(r)
  BY <1>27, WriteBodyLock
<1>28. CASE Crash(r)
  BY <1>28, CrashLock
<1>29. CASE ClientLeaves(r)
  BY <1>29, ClientLeavesLock
<1>30. CASE SlotOnDone(r)
  BY <1>30, SlotOnDoneLock
<1>31. CASE QueueOnDone(r)
  BY <1>31, QueueOnDoneLock
<1> QED BY <1>1, <1>2, <1>3, <1>4, <1>5, <1>6, <1>7, <1>8, <1>9, <1>10, <1>11,
     <1>12, <1>13, <1>14, <1>15, <1>16, <1>17, <1>18, <1>19, <1>20, <1>21,
     <1>22, <1>23, <1>24, <1>25, <1>26, <1>27, <1>28, <1>29, <1>30, <1>31 DEF
     RequestStep, Step

LEMMA NextLock ==
  ASSUME TypeInv, \A s \in Requests : Placed(s), LockInv, [Next]_vars
  PROVE  LockInv'
<1>1. ASSUME NEW r \in Requests, RequestStep(r) PROVE LockInv'
  BY <1>1, StepLock
<1>2. ASSUME NEW a \in Accounts, LockExpires(a) \/ LoseTTL(a) \/ ForceRelease(a)
      PROVE  LockInv'
  BY <1>2, LockExpiresLock, LoseTTLLock, ForceReleaseLock
<1>3. CASE UNCHANGED vars
  BY <1>3 DEF vars, stateVars, lockVars, LockInv
<1> QED BY <1>1, <1>2, <1>3 DEF Next, RequestStep

\* Whoever is queued and has not lost the lock holds it, and who holds it is
\* queued for this account.
THEOREM LockInvariant == Spec => []LockInv
<1>1. Init => LockInv
  BY GatewayAssumption DEF Init, LockInv
<1>2. TypeInv /\ (\A r \in Requests : Local(r)) /\ LockInv /\ [Next]_vars
        => LockInv'
  BY NextLock DEF Local
<1> QED BY <1>1, <1>2, TypesInvariant, LocalInvariant, PTL DEF Spec

\* No two requests believe to hold the lock of an account, but for those whose
\* lock expired or was forced from them.
THEOREM SendersExclude == Spec => []OneSender
<1>1. LockInv => OneSender
  BY DEF LockInv, OneSender
<1> QED BY <1>1, LockInvariant, PTL

\* A handler that ended occupies no slot, owns no lock and left no writer in
\* place, whatever way it took.
THEOREM HandlersClean == Spec => []NothingHeld
<1>1. (\A r \in Requests : Local(r)) /\ LockInv => NothingHeld
  BY DEF Local, Placed, Captured, LockInv, NothingHeld
<1> QED BY <1>1, LocalInvariant, LockInvariant, PTL

-----------------------------------------------------------------------------
(* How often failover tries *)

LEMMA SpentBound ==
  ASSUME NEW f
  PROVE  /\ IsFiniteSet(Spent(f)) /\ Cardinality(Spent(f)) \in Nat
         /\ Cardinality(Spent(f)) <= MaxSame * Cardinality(Accounts)
         /\ MaxSame * Cardinality(Accounts) \in Nat
<1> DEFINE P == Accounts \X (1 .. MaxSame)
<1>1. IsFiniteSet(1 .. MaxSame) /\ Cardinality(1 .. MaxSame) = MaxSame
  BY GatewayAssumption, FS_Interval
<1>2. IsFiniteSet(P) /\ Cardinality(P) = Cardinality(Accounts) * MaxSame
  BY <1>1, GatewayAssumption, FS_Product
<1>3. Spent(f) \in SUBSET P
  BY DEF Spent
<1>4. Cardinality(Accounts) \in Nat
  BY GatewayAssumption, FS_CardinalityType
<1>5. Cardinality(Accounts) * MaxSame = MaxSame * Cardinality(Accounts)
  BY <1>4, GatewayAssumption
<1>6. MaxSame * Cardinality(Accounts) \in Nat
  BY <1>4, GatewayAssumption
<1> HIDE DEF P
<1>7. IsFiniteSet(Spent(f)) /\ Cardinality(Spent(f)) <= Cardinality(P)
  BY <1>2, <1>3, FS_Subset
<1>8. Cardinality(Spent(f)) \in Nat
  BY <1>7, FS_CardinalityType
<1> QED BY <1>2, <1>5, <1>6, <1>7, <1>8

LEMMA BudgetType ==
  ASSUME NEW r \in Requests, NEW f
  PROVE  /\ Budget(r) \in Nat /\ MaxSwitches[r] \in Nat
         /\ MaxSwitches[r] + 1 + Cardinality(Spent(f)) <= Budget(r)
BY SpentBound, GatewayAssumption DEF Budget

\* While the failover state stays as it is, so does what is counted.
LEMMA CountedFrame ==
  ASSUME NEW s \in Requests, Counted(s), attempt'[s] = attempt[s],
         group'[s] = group[s], switches'[s] = switches[s], same'[s] = same[s],
         pc[s] \in Reserving => pc'[s] \in Reserving, TypeInv
  PROVE  Counted(s)'
<1>1. Spent(same'[s]) = Spent(same[s])
  BY DEF Spent
<1>2. /\ Budget(s) \in Nat /\ Cardinality(Spent(same[s])) \in Nat
      /\ attempt[s] \in Nat /\ switches[s] \in Nat
  BY SpentBound, BudgetType DEF TypeInv, FailoverTypes
<1>3. Budget(s)' = Budget(s)
  BY DEF Budget
<1> QED BY <1>1, <1>2, <1>3 DEF Counted

\* A failover state just begun.
LEMMA CountedAnew ==
  ASSUME NEW r \in Requests, attempt'[r] = 0, switches'[r] = 0
  PROVE  Counted(r)'
<1>1. /\ Budget(r) \in Nat /\ MaxSwitches[r] \in Nat
      /\ Cardinality(Spent(same'[r])) \in Nat
  BY SpentBound, BudgetType
<1>2. Budget(r)' = Budget(r)
  BY DEF Budget
<1> QED BY <1>1, <1>2 DEF Counted

LEMMA ForwardCounted ==
  ASSUME TypeInv, NEW r \in Requests, Counted(r), Forward(r)
  PROVE  Counted(r)'
<1>1. /\ pc[r] = "reserve" /\ pc'[r] = "sending"
      /\ attempt'[r] = attempt[r] + 1 /\ group'[r] = group[r]
      /\ switches'[r] = switches[r] /\ same'[r] = same[r]
  BY DEF Forward, Goto, reqVars, TypeInv, PlaceTypes, FailoverTypes
<1>2. Spent(same'[r]) = Spent(same[r]) /\ Budget(r)' = Budget(r)
  BY <1>1 DEF Spent, Budget
<1>3. /\ Budget(r) \in Nat /\ Cardinality(Spent(same[r])) \in Nat
      /\ attempt[r] \in Nat /\ switches[r] \in Nat
  BY SpentBound, BudgetType DEF TypeInv, FailoverTypes
<1> QED BY <1>1, <1>2, <1>3 DEF Counted, Reserving

\* A retry on the same account is one more pair.
LEMMA RetrySameCounted ==
  ASSUME TypeInv, NEW r \in Requests, Counted(r), RetrySame(r)
  PROVE  Counted(r)'
<1> DEFINE n == same[r][acct[r]]
<1>1. /\ pc[r] = "failed" /\ pc'[r] = "select" /\ n < MaxSame
      /\ attempt'[r] = attempt[r] /\ group'[r] = group[r]
      /\ switches'[r] = switches[r]
      /\ same'[r] = [same[r] EXCEPT ![acct[r]] = n + 1]
  BY DEF RetrySame, CanSwitch, MayRetry, Again, Goto, reqVars, TypeInv,
     PlaceTypes, FailoverTypes
<1>2. acct[r] \in Accounts /\ same[r] \in [Accounts -> 0 .. MaxSame] /\ n \in Nat
  BY <1>1, GatewayAssumption DEF TypeInv, ChoiceMade, Chosen, FailoverTypes
<1>3. Spent(same'[r]) = Spent(same[r]) \cup {<<acct[r], n + 1>>}
  <2>1. ASSUME NEW x \in Accounts \X (1 .. MaxSame)
        PROVE  x \in Spent(same'[r]) <=> x \in Spent(same[r]) \cup {<<acct[r], n + 1>>}
    <3>1. x[1] \in Accounts /\ x[2] \in Nat /\ x = <<x[1], x[2]>>
      BY GatewayAssumption
    <3>2. CASE x[1] = acct[r]
      <4>1. same'[r][x[1]] = n + 1 /\ same[r][x[1]] = n
        BY <1>1, <1>2, <3>2
      <4>2. x = <<acct[r], n + 1>> <=> x[2] = n + 1
        BY <3>1, <3>2
      <4> HIDE DEF n
      <4> QED BY <1>2, <3>1, <4>1, <4>2 DEF Spent
    <3>3. CASE x[1] # acct[r]
      <4>1. same'[r][x[1]] = same[r][x[1]]
        BY <1>1, <1>2, <3>1, <3>3
      <4>2. x # <<acct[r], n + 1>>
        BY <3>3
      <4> QED BY <4>1, <4>2 DEF Spent
    <3> QED BY <3>2, <3>3
  <2>2. <<acct[r], n + 1>> \in Accounts \X (1 .. MaxSame)
    BY <1>1, <1>2, GatewayAssumption
  <2>3. Spent(same'[r]) \subseteq Accounts \X (1 .. MaxSame)
    BY DEF Spent
  <2>4. Spent(same[r]) \subseteq Accounts \X (1 .. MaxSame)
    BY DEF Spent
  <2> HIDE DEF n
  <2> QED BY <2>1, <2>2, <2>3, <2>4
<1>4. <<acct[r], n + 1>> \notin Spent(same[r])
  BY <1>2 DEF Spent
<1>5. Cardinality(Spent(same'[r])) = Cardinality(Spent(same[r])) + 1
  BY <1>3, <1>4, SpentBound, FS_AddElement
<1>6. Budget(r)' = Budget(r)
  BY DEF Budget
<1>7. /\ Budget(r) \in Nat /\ Cardinality(Spent(same[r])) \in Nat
      /\ attempt[r] \in Nat /\ switches[r] \in Nat
  BY SpentBound, BudgetType DEF TypeInv, FailoverTypes
<1> QED BY <1>1, <1>5, <1>6, <1>7 DEF Counted, Reserving

LEMMA SwitchCounted ==
  ASSUME TypeInv, NEW r \in Requests, Counted(r), Switch(r)
  PROVE  Counted(r)'
<1>1. /\ pc[r] = "failed" /\ pc'[r] = "select"
      /\ attempt'[r] = attempt[r] /\ group'[r] = group[r]
      /\ switches[r] < MaxSwitches[r] /\ switches'[r] = switches[r] + 1
      /\ same'[r] = same[r]
  BY DEF Switch, CanSwitch, Again, Goto, reqVars, TypeInv, PlaceTypes,
     FailoverTypes
<1>2. Spent(same'[r]) = Spent(same[r]) /\ Budget(r)' = Budget(r)
  BY <1>1 DEF Spent, Budget
<1>3. /\ Budget(r) \in Nat /\ Cardinality(Spent(same[r])) \in Nat
      /\ attempt[r] \in Nat /\ switches[r] \in Nat /\ MaxSwitches[r] \in Nat
  BY SpentBound, BudgetType DEF TypeInv, FailoverTypes
<1> QED BY <1>1, <1>2, <1>3 DEF Counted, Reserving

\* The fallback group starts anew; what the primary one used is within Budget.
LEMMA UseFallbackCounted ==
  ASSUME TypeInv, NEW r \in Requests, Counted(r), UseFallback(r)
  PROVE  Counted(r)'
<1>1. /\ group[r] = "primary" /\ group'[r] = "fallback"
      /\ attempt'[r] = attempt[r] /\ switches'[r] = 0
  BY DEF UseFallback, Again, TypeInv, PlaceTypes, FailoverTypes
<1>2. Budget(r)' = Budget(r)
  BY DEF Budget
<1>3. Cardinality(Spent(same'[r])) \in Nat
  BY SpentBound
<1>4. /\ Budget(r) \in Nat /\ Cardinality(Spent(same[r])) \in Nat
      /\ attempt[r] \in Nat /\ switches[r] \in Nat /\ MaxSwitches[r] \in Nat
      /\ MaxSwitches[r] + 1 + Cardinality(Spent(same[r])) <= Budget(r)
  BY SpentBound, BudgetType DEF TypeInv, FailoverTypes
<1>5. attempt[r] <= Budget(r)
  BY <1>1, <1>4 DEF Counted
<1> QED BY <1>1, <1>2, <1>3, <1>4, <1>5 DEF Counted

LEMMA SelectCounted ==
  ASSUME TypeInv, NEW r \in Requests, Counted(r), Select(r)
  PROVE  Counted(r)'
BY CountedFrame DEF Select, Goto, reqVars, Reserving, TypeInv, PlaceTypes

LEMMA SlotTimeoutCounted ==
  ASSUME TypeInv, NEW r \in Requests, Counted(r), SlotTimeout(r)
  PROVE  Counted(r)'
BY CountedFrame DEF SlotTimeout, Goto, reqVars, stateVars, Reserving, TypeInv,
   PlaceTypes

LEMMA InterceptCounted ==
  ASSUME TypeInv, NEW r \in Requests, Counted(r), Intercept(r)
  PROVE  Counted(r)'
BY CountedFrame DEF Intercept, Goto, reqVars, stateVars, Reserving, TypeInv,
   PlaceTypes

LEMMA BackoffCounted ==
  ASSUME TypeInv, NEW r \in Requests, Counted(r), Backoff(r)
  PROVE  Counted(r)'
BY CountedFrame DEF Backoff, reqVars, Reserving, TypeInv, PlaceTypes

LEMMA NoneLeftCounted ==
  ASSUME TypeInv, NEW r \in Requests, Counted(r), NoneLeft(r)
  PROVE  Counted(r)'
BY CountedFrame DEF NoneLeft, Goto, reqVars, stateVars, Reserving, TypeInv,
   PlaceTypes

LEMMA QueueAcquireCounted ==
  ASSUME TypeInv, NEW r \in Requests, Counted(r), QueueAcquire(r)
  PROVE  Counted(r)'
BY CountedFrame DEF QueueAcquire, Goto, reqVars, stateVars, Reserving, TypeInv,
   PlaceTypes

LEMMA QueueFailOpenCounted ==
  ASSUME TypeInv, NEW r \in Requests, Counted(r), QueueFailOpen(r)
  PROVE  Counted(r)'
BY CountedFrame DEF QueueFailOpen, Goto, reqVars, stateVars, Reserving,
   TypeInv, PlaceTypes

LEMMA QueueTimeoutCounted ==
  ASSUME TypeInv, NEW r \in Requests, Counted(r), QueueTimeout(r)
  PROVE  Counted(r)'
BY CountedFrame DEF QueueTimeout, Goto, reqVars, stateVars, Reserving, TypeInv,
   PlaceTypes

LEMMA ReserveFailsCounted ==
  ASSUME TypeInv, NEW r \in Requests, Counted(r), ReserveFails(r)
  PROVE  Counted(r)'
BY CountedFrame DEF ReserveFails, ReleaseSlot, Goto, reqVars, stateVars,
   Reserving, TypeInv, PlaceTypes

LEMMA AcceptedCounted ==
  ASSUME TypeInv, NEW r \in Requests, Counted(r), Accepted(r)
  PROVE  Counted(r)'
BY CountedFrame DEF Accepted, Goto, reqVars, stateVars, Reserving, TypeInv,
   PlaceTypes

LEMMA RefusedCounted ==
  ASSUME TypeInv, NEW r \in Requests, Counted(r), Refused(r)
  PROVE  Counted(r)'
BY CountedFrame DEF Refused, Returned, ReleaseSlot, Goto, reqVars, Reserving,
   TypeInv, PlaceTypes

LEMMA FinishesCounted ==
  ASSUME TypeInv, NEW r \in Requests, Counted(r), Finishes(r)
  PROVE  Counted(r)'
BY CountedFrame DEF Finishes, Returned, ReleaseSlot, Goto, reqVars, stateVars,
   Reserving, TypeInv, PlaceTypes

LEMMA BreaksCounted ==
  ASSUME TypeInv, NEW r \in Requests, Counted(r), Breaks(r)
  PROVE  Counted(r)'
BY CountedFrame DEF Breaks, Returned, ReleaseSlot, Goto, reqVars, Reserving,
   TypeInv, PlaceTypes

LEMMA GiveUpStreamedCounted ==
  ASSUME TypeInv, NEW r \in Requests, Counted(r), GiveUpStreamed(r)
  PROVE  Counted(r)'
BY CountedFrame DEF GiveUpStreamed, Leave, Goto, reqVars, Reserving, TypeInv,
   PlaceTypes

LEMMA ExhaustedCounted ==
  ASSUME TypeInv, NEW r \in Requests, Counted(r), Exhausted(r)
  PROVE  Counted(r)'
BY CountedFrame DEF Exhausted, CanSwitch, Leave, Goto, reqVars, Reserving,
   TypeInv, PlaceTypes

LEMMA CanceledCounted ==
  ASSUME TypeInv, NEW r \in Requests, Counted(r), Canceled(r)
  PROVE  Counted(r)'
BY CountedFrame DEF Canceled, CanSwitch, Leave, Goto, reqVars, Reserving,
   TypeInv, PlaceTypes

LEMMA EndWithErrorCounted ==
  ASSUME TypeInv, NEW r \in Requests, Counted(r), EndWithError(r)
  PROVE  Counted(r)'
BY CountedFrame DEF EndWithError, Leave, Goto, reqVars, Reserving, TypeInv,
   PlaceTypes

LEMMA ForwardFailedCounted ==
  ASSUME TypeInv, NEW r \in Requests, Counted(r), ForwardFailed(r)
  PROVE  Counted(r)'
BY CountedFrame DEF ForwardFailed, Leave, Goto, reqVars, Reserving, TypeInv,
   PlaceTypes

LEMMA RecordOkCounted ==
  ASSUME TypeInv, NEW r \in Requests, Counted(r), RecordOk(r)
  PROVE  Counted(r)'
BY CountedFrame DEF RecordOk, Goto, reqVars, stateVars, Reserving, TypeInv,
   PlaceTypes

LEMMA RecordFailsCounted ==
  ASSUME TypeInv, NEW r \in Requests, Counted(r), RecordFails(r)
  PROVE  Counted(r)'
BY CountedFrame DEF RecordFails, Goto, reqVars, stateVars, Reserving, TypeInv,
   PlaceTypes

LEMMA CommitCounted ==
  ASSUME TypeInv, NEW r \in Requests, Counted(r), Commit(r)
  PROVE  Counted(r)'
BY CountedFrame DEF Commit, Goto, reqVars, stateVars, Reserving, TypeInv,
   PlaceTypes

LEMMA ReturnCounted ==
  ASSUME TypeInv, NEW r \in Requests, Return(r)
  PROVE  Counted(r)'
BY CountedAnew DEF Return, Forget, TypeInv, FailoverTypes

LEMMA WriteBodyCounted ==
  ASSUME TypeInv, NEW r \in Requests, Counted(r), WriteBody(r)
  PROVE  Counted(r)'
BY CountedFrame DEF WriteBody, reqVars, stateVars, Reserving, TypeInv,
   PlaceTypes

LEMMA CrashCounted ==
  ASSUME TypeInv, NEW r \in Requests, Crash(r)
  PROVE  Counted(r)'
BY CountedAnew DEF Crash, Forget, TypeInv, FailoverTypes

LEMMA ClientLeavesCounted ==
  ASSUME TypeInv, NEW r \in Requests, Counted(r), ClientLeaves(r)
  PROVE  Counted(r)'
BY CountedFrame DEF ClientLeaves, reqVars, stateVars, Reserving, TypeInv,
   PlaceTypes

LEMMA SlotOnDoneCounted ==
  ASSUME TypeInv, NEW r \in Requests, Counted(r), SlotOnDone(r)
  PROVE  Counted(r)'
BY CountedFrame DEF SlotOnDone, ReleaseSlot, reqVars, stateVars, Reserving,
   TypeInv, PlaceTypes

LEMMA QueueOnDoneCounted ==
  ASSUME TypeInv, NEW r \in Requests, Counted(r), QueueOnDone(r)
  PROVE  Counted(r)'
BY CountedFrame DEF QueueOnDone, reqVars, stateVars, Reserving, TypeInv,
   PlaceTypes

LEMMA StepCounted ==
  ASSUME TypeInv, NEW r \in Requests, Counted(r), RequestStep(r)
  PROVE  Counted(r)'
<1>1. CASE Select(r)
  BY <1>1, SelectCounted
<1>2. CASE SlotTimeout(r)
  BY <1>2, SlotTimeoutCounted
<1>3. CASE Intercept(r)
  BY <1>3, InterceptCounted
<1>4. CASE Backoff(r)
  BY <1>4, BackoffCounted
<1>5. CASE NoneLeft(r)
  BY <1>5, NoneLeftCounted
<1>6. CASE QueueAcquire(r)
  BY <1>6, QueueAcquireCounted
<1>7. CASE QueueFailOpen(r)
  BY <1>7, QueueFailOpenCounted
<1>8. CASE QueueTimeout(r)
  BY <1>8, QueueTimeoutCounted
<1>9. CASE ReserveFails(r)
  BY <1>9, ReserveFailsCounted
<1>10. CASE Forward(r)
  BY <1>10, ForwardCounted
<1>11. CASE Accepted(r)
  BY <1>11, AcceptedCounted
<1>12. CASE Refused(r)
  BY <1>12, RefusedCounted
<1>13. CASE Finishes(r)
  BY <1>13, FinishesCounted
<1>14. CASE Breaks(r)
  BY <1>14, BreaksCounted
<1>15. CASE GiveUpStreamed(r)
  BY <1>15, GiveUpStreamedCounted
<1>16. CASE RetrySame(r)
  BY <1>16, RetrySameCounted
<1>17. CASE Switch(r)
  BY <1>17, SwitchCounted
<1>18. CASE Exhausted(r)
  BY <1>18, ExhaustedCounted
<1>19. CASE Canceled(r)
  BY <1>19, CanceledCounted
<1>20. CASE UseFallback(r)
  BY <1>20, UseFallbackCounted
<1>21. CASE EndWithError(r)
  BY <1>21, EndWithErrorCounted
<1>22. CASE ForwardFailed(r)
  BY <1>22, ForwardFailedCounted
<1>23. CASE RecordOk(r)
  BY <1>23, RecordOkCounted
<1>24. CASE RecordFails(r)
  BY <1>24, RecordFailsCounted
<1>25. CASE Commit(r)
  BY <1>25, CommitCounted
<1>26. CASE Return(r)
  BY <1>26, ReturnCounted
<1>27. CASE WriteBody(r)
  BY <1>27, WriteBodyCounted
<1>28. CASE Crash(r)
  BY <1>28, CrashCounted
<1>29. CASE ClientLeaves(r)
  BY <1>29, ClientLeavesCounted
<1>30. CASE SlotOnDone(r)
  BY <1>30, SlotOnDoneCounted
<1>31. CASE QueueOnDone(r)
  BY <1>31, QueueOnDoneCounted
<1> QED BY <1>1, <1>2, <1>3, <1>4, <1>5, <1>6, <1>7, <1>8, <1>9, <1>10, <1>11,
     <1>12, <1>13, <1>14, <1>15, <1>16, <1>17, <1>18, <1>19, <1>20, <1>21,
     <1>22, <1>23, <1>24, <1>25, <1>26, <1>27, <1>28, <1>29, <1>30, <1>31 DEF
     RequestStep, Step

LEMMA NextCounted ==
  ASSUME TypeInv, NEW s \in Requests, Counted(s), [Next]_vars
  PROVE  Counted(s)'
<1>0. Untouched(s) => Counted(s)'
  BY CountedFrame DEF Untouched
<1>1. ASSUME NEW r \in Requests, RequestStep(r) PROVE Counted(s)'
  BY <1>0, <1>1, StepCounted, StepFrame
<1>2. ASSUME NEW a \in Accounts, LockExpires(a) \/ LoseTTL(a) \/ ForceRelease(a)
      PROVE  Counted(s)'
  BY <1>0, <1>2, LockExpiresFrame, LoseTTLFrame, ForceReleaseFrame
<1>3. CASE UNCHANGED vars
  BY <1>0, <1>3 DEF vars, reqVars, stateVars, lockVars, outVars, billVars,
     Untouched
<1> QED BY <1>1, <1>2, <1>3 DEF Next, RequestStep

\* Failover calls Forward boundedly often, whatever the accounts answer: per
\* failover state once, once for each switch and once for each retry on an account.
THEOREM FailoverBounded == Spec => []AttemptsBounded
<1>1. Init => \A r \in Requests : Counted(r)
  <2> SUFFICES ASSUME Init, NEW r \in Requests PROVE Counted(r)
    OBVIOUS
  <2>1. /\ Budget(r) \in Nat /\ MaxSwitches[r] \in Nat
        /\ Cardinality(Spent(same[r])) \in Nat
    BY SpentBound, BudgetType
  <2>2. attempt[r] = 0 /\ switches[r] = 0
    BY DEF Init
  <2> QED BY <2>1, <2>2 DEF Counted
<1>2. TypeInv /\ (\A r \in Requests : Counted(r)) /\ [Next]_vars
        => (\A r \in Requests : Counted(r))'
  BY NextCounted
<1>3. TypeInv /\ (\A r \in Requests : Counted(r)) => AttemptsBounded
  <2> SUFFICES ASSUME TypeInv, NEW r \in Requests, Counted(r)
               PROVE  attempt[r] <= (IF group[r] = "primary" THEN 1 ELSE 2)
                                    * Budget(r)
    BY DEF AttemptsBounded, Budget
  <2>1. /\ Budget(r) \in Nat /\ MaxSwitches[r] \in Nat
        /\ MaxSwitches[r] + 1 + Cardinality(Spent(same[r])) <= Budget(r)
        /\ Cardinality(Spent(same[r])) \in Nat
        /\ attempt[r] \in Nat /\ switches[r] \in Nat
    BY SpentBound, BudgetType DEF TypeInv, FailoverTypes
  <2>2. attempt[r] <= (IF group[r] = "primary" THEN 0 ELSE Budget(r)) + Budget(r)
    BY <2>1 DEF Counted
  <2> QED BY <2>1, <2>2
<1> QED BY <1>1, <1>2, <1>3, TypesInvariant, PTL DEF Spec

=============================================================================

---------------------------- MODULE UsageCharging ----------------------------
(***************************************************************************)
(* What the billing pipeline promises, without streams, threads or tables: *)
(* a request is debited at most once, for an event that was really         *)
(* accepted and with that event's fingerprint, for good; and an event is   *)
(* closed only after its request was debited with its fingerprint or       *)
(* someone gave it up explicitly.                                          *)
(***************************************************************************)
EXTENDS Integers

CONSTANTS
  Events,     \* usage charge events
  Chargeable, \* those that debit
  Keys,       \* billing keys
  KeyOf,      \* the key of each event
  PrintOf,    \* the fingerprint of each event
  NoPrint     \* not billed

VARIABLES
  accepted, \* events in the durable stream
  billed,   \* billed[k]: the fingerprint k was billed with
  debits,   \* debits[k]: how often k was debited
  givenUp,  \* events sent to the dead letter stream, or tried to
  closed    \* events no one will look at again

vars == <<accepted, billed, debits, givenUp, closed>>

Init ==
  /\ accepted = {} /\ givenUp = {} /\ closed = {}
  /\ billed = [k \in Keys |-> NoPrint]
  /\ debits = [k \in Keys |-> 0]

Accept(e) ==
  /\ accepted' = accepted \cup {e}
  /\ UNCHANGED <<billed, debits, givenUp, closed>>

Bill(e) ==
  /\ e \in accepted \cap Chargeable
  /\ billed[KeyOf[e]] = NoPrint /\ debits[KeyOf[e]] = 0
  /\ billed' = [billed EXCEPT ![KeyOf[e]] = PrintOf[e]]
  /\ debits' = [debits EXCEPT ![KeyOf[e]] = 1]
  /\ UNCHANGED <<accepted, givenUp, closed>>

GiveUp(e) ==
  /\ e \in accepted
  /\ givenUp' = givenUp \cup {e}
  /\ UNCHANGED <<accepted, billed, debits, closed>>

Close(e) ==
  /\ e \in accepted
  /\ \/ e \in givenUp
     \/ e \notin Chargeable
     \/ billed[KeyOf[e]] = PrintOf[e]
  /\ closed' = closed \cup {e}
  /\ UNCHANGED <<accepted, billed, debits, givenUp>>

Next == \E e \in Events : Accept(e) \/ Bill(e) \/ GiveUp(e) \/ Close(e)

Spec == Init /\ [][Next]_vars
=============================================================================

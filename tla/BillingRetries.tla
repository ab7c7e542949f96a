--------------------------- MODULE BillingRetries ---------------------------
(***************************************************************************)
(* BillingPipeline with a history variable that counts how often the       *)
(* handler was called for each entry.                                      *)
(***************************************************************************)
EXTENDS BillingPipeline

\* Every billing process starts one recovery thread.
ASSUME ThreadsAssumption == IsFiniteSet(Threads) /\ Recoverers # {}

VARIABLE tries \* tries[i]: times the handler ran for entry i

\* Thread t calls the handler for entry i in this step.
Calls(t, i) == pc[t] = "next" /\ pc'[t] \in {"dedup", "commit"} /\ cur'[t] = i

CountedInit == Init /\ tries = [i \in Entries |-> 0]

CountedNext ==
  /\ Next
  /\ tries' = [i \in Entries |->
                 IF \E t \in Threads : Calls(t, i) THEN tries[i] + 1 ELSE tries[i]]

CountedSpec == CountedInit /\ [][CountedNext]_<<vars, tries>>

\* The handler runs at most MaxRetryCount times for an entry, the first delivery
\* included, and once more for every billing process but one: processMessage
\* checks a count that XPENDING reported before the XCLAIM, and the recovery
\* thread of another process may have claimed the entry in between.
HandlerRunsBounded ==
  \A i \in Entries : tries[i] <= MaxRetryCount + Cardinality(Recoverers) - 1
=============================================================================

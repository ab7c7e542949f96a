------------------------------- MODULE MCBilling -------------------------------
(***************************************************************************)
(* Instances of BillingPipeline for TLC.                                   *)
(***************************************************************************)
EXTENDS BillingPipeline, TLC

CONSTANTS c1, c2, f1, k1, a1, fp1, fp2, w1, w2, p1

\* One charge whose publish may be repeated.
OneCharge == {c1}
OneChargeKey == c1 :> k1
OneChargeKind == c1 :> "charge"
OneChargeAccount == c1 :> a1
OneChargePrint == c1 :> fp1
NoLog == c1 :> FALSE
WithLog == c1 :> TRUE

\* A streamed request's finalization, and a charge under the same request id
\* whose content differs.
Clash == {f1, c2}
ClashKey == [e \in Clash |-> k1]
ClashKind == f1 :> "finalize" @@ c2 :> "charge"
ClashAccount == [e \in Clash |-> a1]
ClashPrint == f1 :> fp1 @@ c2 :> fp2
ClashLog == [e \in Clash |-> e = f1]

\* A process with a reader and its recovery thread.
OneProc == w1 :> p1 @@ w2 :> p1
=============================================================================

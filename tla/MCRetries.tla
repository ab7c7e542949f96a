------------------------------- MODULE MCRetries -------------------------------
(***************************************************************************)
(* An instance of BillingRetries for TLC.                                  *)
(***************************************************************************)
EXTENDS BillingRetries, MCBilling

CONSTANTS r1, w3, p2

\* A reservation.
OneReserve == {r1}
ReserveKey == r1 :> k1
ReserveKind == r1 :> "reserve"
ReserveAccount == r1 :> a1
ReservePrint == r1 :> fp1
ReserveLog == r1 :> FALSE

\* Two billing processes; of the second only the recovery thread takes part.
TwoProcs == OneProc @@ w3 :> p2
=============================================================================

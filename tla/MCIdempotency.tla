---------------------------- MODULE MCIdempotency ----------------------------
(***************************************************************************)
(* Idempotency with interchangeable callers.                               *)
(***************************************************************************)
EXTENDS Idempotency, TLC

Symmetry == Permutations(Callers) \cup Permutations(Prints)
=============================================================================

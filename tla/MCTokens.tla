------------------------------- MODULE MCTokens -------------------------------
(***************************************************************************)
(* An instance of TokenRefresh for TLC: two requests of a gateway, or one  *)
(* of them and the background job of the worker, or one of both and the    *)
(* scheduler's cache, or each of these and an administrator.               *)
(***************************************************************************)
EXTENDS TokenRefresh, TLC

CONSTANTS q1, q2, w1, a1, s1, g1, k1, c1

MCProcOf == q1 :> g1 @@ q2 :> g1 @@ w1 :> k1 @@ a1 :> c1
MCCasts == {{q1, q2}, {q1, w1}, {q1, s1}, {w1, s1},
            {q1, a1}, {w1, a1}, {a1, s1}}
MCMaxFaults == [c \in MCCasts |-> CASE c = {q1, q2} -> 0
                                 [] a1 \in c     -> 1
                                 [] OTHER        -> 2]
=============================================================================

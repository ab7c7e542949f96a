------------------------------ MODULE MCGateway ------------------------------
(***************************************************************************)
(* An instance of GatewayRequest for TLC: a stream that may use two        *)
(* accounts, a buffered request with a fallback group, or two requests     *)
(* billed afterwards that meet at one account.                             *)
(***************************************************************************)
EXTENDS GatewayRequest

CONSTANTS r1, r2, r3, r4, a1, a2

MCRequests == {r1, r2, r3, r4}
MCAccounts == {a1, a2}
MCSerialized == {a1}

\* A stream that may fail over to a second account; a buffered request with a
\* fallback group; and two requests that meet in the queue of one account.
Together(S, m) == [r \in MCRequests |-> IF r \in S THEN m ELSE "absent"]
MCMixes == {Together({r1}, "stream"), Together({r2}, "buffer"),
            Together({r3, r4}, "plain")}
MCPrimary == [r \in MCRequests |-> IF r = r1 THEN {a1, a2} ELSE {a1}]
MCFallback == [r \in MCRequests |-> IF r = r2 THEN {a1} ELSE {}]
MCMaxSwitches == [r \in MCRequests |-> IF r \in {r1, r2} THEN 1 ELSE 0]
=============================================================================

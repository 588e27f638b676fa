------------------------- MODULE MCGatewayCounters -------------------------
(* Two workers for TLC: w1 serves r1, r2 and r3, w2 serves r4 and r5.      *)
EXTENDS GatewayCounters

CONSTANTS w1, w2, r1, r2, r3, r4, r5

MCWorkerOf == [r \in Requests |-> IF r \in {r4, r5} THEN w2 ELSE w1]
=============================================================================

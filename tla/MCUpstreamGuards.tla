-------------------------- MODULE MCUpstreamGuards --------------------------
(* Two workers for TLC: w1 serves r1 and r2, w2 serves r3.                 *)
EXTENDS UpstreamGuards

CONSTANTS w1, w2, r1, r2, r3

MCWorkerOf == [r \in Requests |-> IF r = r3 THEN w2 ELSE w1]
=============================================================================

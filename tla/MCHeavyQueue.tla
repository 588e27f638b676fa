--------------------------- MODULE MCHeavyQueue ---------------------------
(* Two limit keys for TLC.  The streams r1, r2, r3 and the plain request   *)
(* p1 belong to k1, the streams r4, r5 to k2.                              *)
EXTENDS HeavyQueue

CONSTANTS k1, k2, r1, r2, r3, r4, r5, p1

MCKeyOf == [r \in Requests |-> IF r \in {r4, r5} THEN k2 ELSE k1]
=============================================================================

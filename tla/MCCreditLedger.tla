--------------------------- MODULE MCCreditLedger ---------------------------
(* Small instances of CreditLedger for TLC: two users, and for each run    *)
(* the calls whose races it is about.  Amounts are chosen so that the      *)
(* opening balance pays for some of the calls but not for all of them.     *)
EXTENDS CreditLedger

CONSTANTS u1, u2, r1, r2, k1, k2, o1, o2, s1, s2

MCOrderUser == [o \in Orders |-> u1]
MCOrderCredits == [o \in Orders |-> IF o = o1 THEN 1 ELSE 2]

Debit(u, n, r) == [op |-> "debit_credits", user |-> u, amount |-> n, request |-> r]
Usage(u, n, r, k) ==
    [op |-> "record_usage_and_debit", user |-> u, amount |-> n, request |-> r,
     key |-> k]
Log(u, r) == [op |-> "insert_usage_log", user |-> u, request |-> r]
Complete(u, o, s) ==
    [op |-> "complete_credit_order", user |-> u, order |-> o, checkout |-> s]
Adjust(u, n, d, k) ==
    [op |-> "admin_adjust_credits", user |-> u, amount |-> n, direction |-> d,
     key |-> k]
OpsAdjust(u, n, kind, k) ==
    [op |-> "ops_ledger_adjustment", user |-> u, amount |-> n, kind |-> kind,
     key |-> k]

(* Two requests under one idempotency key, a repeat of one of them without *)
(* the key, a free call, an image debit and a failure log for a request    *)
(* that is also charged.                                                   *)
UsageCallsMC ==
    {Usage(u1, 1, r1, k1), Usage(u1, 1, r2, k1), Usage(u1, 0, r2, None),
     Debit(u1, 2, r1), Log(u1, r1), Usage(u2, 1, r2, None)}

(* Two orders under two sessions, one order for the wrong user too, and   *)
(* one admin key used for different adjustments, beside an ops reversal.   *)
AccountCallsMC ==
    {Complete(u1, o1, s1), Complete(u1, o1, s2), Complete(u1, o2, s1),
     Complete(u2, o1, s1), Adjust(u1, 1, "add", k1), Adjust(u1, 3, "deduct", k1),
     OpsAdjust(u1, 2, "ops_reverse", k1)}

(* The two ops kinds under one key; twice the same call is what races. *)
OpsCallsMC == {OpsAdjust(u1, 1, "ops_grant", k1), OpsAdjust(u1, 2, "ops_reverse", k1)}
=============================================================================

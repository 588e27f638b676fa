------------------------------- MODULE BatchItems -------------------------------
(***************************************************************************)
(* What a batch promises for each of its items, whoever writes the rows:   *)
(* an item is charged at most once and only after it was started, it is    *)
(* not started again once it is charged, it succeeds only when it is       *)
(* charged, and succeeded and cancelled are final.  A cancelled item was   *)
(* never charged.  A failed item may still be charged, and may still       *)
(* succeed then: its execution outlives whoever gave it up.                *)
(***************************************************************************)
CONSTANT Items

VARIABLES
    item,    \* the status of each item
    charged  \* the items that were paid for

vars == <<item, charged>>

Init ==
    /\ item = [i \in Items |-> "pending"]
    /\ charged = {}

Set(S, status) == item' = [i \in Items |-> IF i \in S THEN status ELSE item[i]]

Are(S, statuses) == \A i \in S : item[i] \in statuses

Start(i) ==
    /\ item[i] = "pending"
    /\ i \notin charged
    /\ Set({i}, "running")
    /\ UNCHANGED charged

Requeue(i) ==
    /\ item[i] = "running"
    /\ i \notin charged
    /\ Set({i}, "pending")
    /\ UNCHANGED charged

Charge(i) ==
    /\ item[i] \in {"running", "cancel_requested", "failed"}
    /\ i \notin charged
    /\ charged' = charged \cup {i}
    /\ UNCHANGED item

Succeed(i) ==
    /\ item[i] \in {"running", "cancel_requested", "failed"}
    /\ i \in charged
    /\ Set({i}, "succeeded")
    /\ UNCHANGED charged

Fail(i) ==
    /\ item[i] \in {"pending", "running", "cancel_requested"}
    /\ Set({i}, "failed")
    /\ UNCHANGED charged

(* The cancel of a batch is one statement for all items of a status.       *)
Cancel(S) ==
    /\ Are(S, {"pending"})
    /\ S \cap charged = {}
    /\ Set(S, "cancelled")
    /\ UNCHANGED charged

RequestCancel(S) ==
    /\ Are(S, {"running"})
    /\ Set(S, "cancel_requested")
    /\ UNCHANGED charged

Next ==
    \/ \E i \in Items :
          Start(i) \/ Requeue(i) \/ Charge(i) \/ Succeed(i) \/ Fail(i)
    \/ \E S \in SUBSET Items : Cancel(S) \/ RequestCancel(S)

Spec == Init /\ [][Next]_vars
=============================================================================

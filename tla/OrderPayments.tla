----------------------------- MODULE OrderPayments -----------------------------
(***************************************************************************)
(* What complete_credit_order promises to those who call it, without its   *)
(* locks, lookups and replays: an order is completed once, under a session *)
(* that no other order has, and its user is credited in the same step and  *)
(* at no other time.  Both the procedure and the shop around it speak of   *)
(* orders and topups in these terms.                                       *)
(***************************************************************************)
CONSTANTS Orders, Checkouts, OrderUser, None,
          Stored  \* the orders that are there from the start

VARIABLES
    orders,  \* per order, its status and its checkout session
    topups   \* pairs of a user and the session the user was credited for

vars == <<orders, topups>>

Init ==
    /\ orders = [o \in Orders |->
          [status |-> IF o \in Stored THEN "pending" ELSE "none", checkout |-> None]]
    /\ topups = {}

Set(o, status, s) ==
    orders' = [orders EXCEPT ![o] = [status |-> status, checkout |-> s]]

IsFree(o, s) == \A other \in Orders \ {o} : orders[other].checkout # s

Insert(o) ==
    /\ orders[o].status = "none"
    /\ Set(o, "pending", None)
    /\ UNCHANGED topups

(* The shop says which session the order will be paid in.                  *)
Assign(o, s) ==
    /\ orders[o] = [status |-> "pending", checkout |-> None]
    /\ IsFree(o, s)
    /\ Set(o, "pending", s)
    /\ UNCHANGED topups

Complete(o, s) ==
    /\ orders[o].status = "pending"
    /\ orders[o].checkout \in {None, s}
    /\ IsFree(o, s)
    /\ \A t \in topups : t[2] # s
    /\ Set(o, "paid", s)
    /\ topups' = topups \cup {<<OrderUser[o], s>>}

Next ==
    \E o \in Orders :
        Insert(o) \/ \E s \in Checkouts : Assign(o, s) \/ Complete(o, s)

Spec == Init /\ [][Next]_vars
=============================================================================

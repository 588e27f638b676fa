----------------------------- MODULE ImageLifecycle -----------------------------
(***************************************************************************)
(* What asynchronous image generation promises the customer and the books, *)
(* whoever works on a task and however often: a task is accepted while     *)
(* there is credit, it is charged at most once and only after the provider *)
(* made an image for it, it is completed only when it is charged, and a    *)
(* completed task never changes again.  A failed task may still be         *)
(* completed by an image that arrives late.                                *)
(***************************************************************************)
EXTENDS Integers

CONSTANTS Tasks, Balance, Price

VARIABLES
    status,   \* per task
    images,   \* tasks for which the provider made an image
    balance,  \* what is left of the user's credits
    debited   \* tasks that were charged

vars == <<status, images, balance, debited>>

Init ==
    /\ status = [t \in Tasks |-> "none"]
    /\ images = {}
    /\ balance = Balance
    /\ debited = {}

Set(t, to) == status' = [status EXCEPT ![t] = to]

Started(t) == status[t] \notin {"none", "queued"}

Open(t) == status[t] \in {"processing", "failed", "retryable_timeout"}

Accept(t) ==
    /\ status[t] = "none"
    /\ balance > 0
    /\ Set(t, "queued")
    /\ UNCHANGED <<images, balance, debited>>

Begin(t) ==
    /\ status[t] = "queued"
    /\ Set(t, "processing")
    /\ UNCHANGED <<images, balance, debited>>

Provide(t) ==
    /\ Started(t)
    /\ images' = images \cup {t}
    /\ UNCHANGED <<status, balance, debited>>

Charge(t) ==
    /\ Open(t)
    /\ t \in images \ debited
    /\ balance >= Price
    /\ balance' = balance - Price
    /\ debited' = debited \cup {t}
    /\ UNCHANGED <<status, images>>

(* Also once more, for a task that only timed out.                         *)
Fail(t) ==
    /\ status[t] \in {"processing", "retryable_timeout"}
    /\ \E to \in {"failed", "retryable_timeout"} : Set(t, to)
    /\ UNCHANGED <<images, balance, debited>>

Complete(t) ==
    /\ Open(t)
    /\ t \in debited
    /\ Set(t, "completed")
    /\ UNCHANGED <<images, balance, debited>>

(* The user's other requests.                                              *)
Spend ==
    /\ balance >= Price
    /\ balance' = balance - Price
    /\ UNCHANGED <<status, images, debited>>

Next ==
    \/ \E t \in Tasks :
          \/ Accept(t) \/ Begin(t) \/ Provide(t)
          \/ Charge(t) \/ Fail(t) \/ Complete(t)
    \/ Spend

Spec == Init /\ [][Next]_vars
=============================================================================

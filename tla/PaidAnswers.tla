------------------------------ MODULE PaidAnswers ------------------------------
(***************************************************************************)
(* What the chat API promises the owner of a key, without permits, models, *)
(* providers, retries and streams: a request has one outcome and keeps it, *)
(* it asks for its debit at most once and not after its client has left,   *)
(* and an answer is only given when somebody paid for it.                  *)
(***************************************************************************)
EXTENDS Naturals

CONSTANTS Requests, IdemKey, NoKey, Credits

VARIABLES
    outcome,  \* per request: new, open, then ok or failed
    left,     \* requests whose client has left
    bills,    \* per request, the debits it asked for
    balance, paid, charged

account == <<balance, paid, charged>>
vars == <<outcome, left, bills, account>>

Init ==
    /\ outcome = [r \in Requests |-> "new"]
    /\ left = {}
    /\ bills = [r \in Requests |-> 0]
    /\ balance = Credits /\ paid = {} /\ charged = {}

Ends(r, o) == outcome[r] = "open" /\ outcome' = [outcome EXCEPT ![r] = o]

Accept(r) ==
    /\ outcome[r] = "new"
    /\ outcome' = [outcome EXCEPT ![r] = "open"]
    /\ UNCHANGED <<left, bills, account>>

Refuse(r) ==
    /\ outcome[r] = "new"
    /\ outcome' = [outcome EXCEPT ![r] = "failed"]
    /\ UNCHANGED <<left, bills, account>>

Leave(r) ==
    /\ outcome[r] # "new"
    /\ left' = left \cup {r}
    /\ UNCHANGED <<outcome, bills, account>>

Ask(r) ==
    /\ outcome[r] = "open"
    /\ bills[r] = 0 /\ r \notin left
    /\ bills' = [bills EXCEPT ![r] = 1]
    /\ UNCHANGED <<outcome, left, account>>

(* The account pays, and the request learns of it or does not.             *)
Settle(r) ==
    /\ bills[r] = 1 /\ r \notin paid /\ IdemKey[r] \notin charged
    /\ balance > 0 /\ balance' = balance - 1
    /\ paid' = paid \cup {r}
    /\ charged' = charged \cup ({IdemKey[r]} \ {NoKey})
    /\ \E o \in {"ok", "failed"} : Ends(r, o)
    /\ UNCHANGED <<left, bills>>

(* The answer another request under the same key has paid for.             *)
Repeat(r) ==
    /\ IdemKey[r] \in charged
    /\ Ends(r, "ok")
    /\ UNCHANGED <<left, bills, account>>

Fail(r) ==
    /\ Ends(r, "failed")
    /\ UNCHANGED <<left, bills, account>>

(* The account pays for something else.                                    *)
Spend ==
    /\ balance > 0 /\ balance' = balance - 1
    /\ UNCHANGED <<outcome, left, bills, paid, charged>>

Next ==
    \/ \E r \in Requests : \/ Accept(r) \/ Refuse(r) \/ Leave(r) \/ Ask(r)
                           \/ Settle(r) \/ Repeat(r) \/ Fail(r)
    \/ Spend

Spec == Init /\ [][Next]_vars
=============================================================================

------------------------------- MODULE Wallet -------------------------------
(***************************************************************************)
(* What a user's credit account promises, without transactions or locks:   *)
(* the account is opened once, and from then on its balance moves only by  *)
(* posting one row to one account at a time, whose balance_after is the    *)
(* new balance.  A request is debited once and a checkout credited once,   *)
(* over all accounts, and no posting overdraws.                            *)
(***************************************************************************)
EXTENDS Integers, Sequences

CONSTANTS Users

VARIABLES balance, ledger

Init ==
    /\ balance = [u \in Users |-> 0]
    /\ ledger = [u \in Users |-> <<>>]

Posted(type, ref) ==
    \E u \in Users : \E i \in DOMAIN ledger[u] :
        ledger[u][i].type = type /\ ledger[u][i].reference_id = ref

(* One row more on u's account, which now stands at balance_after; the     *)
(* other accounts are untouched.                                           *)
AppendRow(u, row) ==
    /\ ledger' = [ledger EXCEPT ![u] = Append(@, row)]
    /\ balance' = [balance EXCEPT ![u] = row.balance_after]
    /\ row.balance_after = balance[u] + row.amount
    /\ row.balance_after >= 0

OneRowMore(u) == Len(ledger'[u]) = Len(ledger[u]) + 1

NewRow(u) == ledger'[u][Len(ledger'[u])]

Open(u) ==
    /\ ledger[u] = <<>>
    /\ OneRowMore(u)
    /\ AppendRow(u, NewRow(u))
    /\ NewRow(u).type = "grant"

Post(u) ==
    /\ ledger[u] # <<>>
    /\ OneRowMore(u)
    /\ AppendRow(u, NewRow(u))
    /\ CASE NewRow(u).type = "debit" ->
              /\ NewRow(u).amount <= 0
              /\ ~Posted("debit", NewRow(u).reference_id)
         [] NewRow(u).type = "topup" ->
              /\ NewRow(u).amount > 0
              /\ ~Posted("topup", NewRow(u).reference_id)
         [] NewRow(u).type = "adjustment" -> NewRow(u).amount # 0
         [] OTHER -> FALSE

Next == \E u \in Users : Open(u) \/ Post(u)

Spec == Init /\ [][Next]_<<balance, ledger>>
=============================================================================

---------------------------- MODULE CreditLedger ----------------------------
(***************************************************************************)
(* The money of Tokfai: the stored procedures of supabase/migrations that  *)
(* move a user's credits_balance and append to credit_ledger.              *)
(*                                                                         *)
(* Every procedure is one READ COMMITTED transaction run by a Postgres     *)
(* backend.  A backend takes one step per statement whose result another   *)
(* transaction can change: taking an order row or an advisory lock         *)
(* ("lock"), the duplicate lookup ("lookup"), SELECT ... FOR UPDATE on the *)
(* profile ("profile"), and, once every lock is held, the writes with the  *)
(* unique-index checks and the COMMIT in one step ("commit").  The writes  *)
(* of a transaction are invisible until it commits, so one step for them   *)
(* loses nothing: two transactions can collide on a unique index only if   *)
(* one of them commits first.                                              *)
(***************************************************************************)
EXTENDS Integers, Sequences, FiniteSets

CONSTANTS
    Users,          \* profiles.id
    Backends,       \* concurrent Postgres connections
    Requests,       \* request ids: usage_logs.request_id, debit reference_id
    UsageKeys,      \* (api_key_id, idempotency_key, endpoint) of usage_logs
    AdminKeys,      \* (actor_user_id, idempotency_key) of admin_audit_logs
    OpsKeys,        \* idempotency keys of the ops CLI
    Orders,         \* credit_orders.id
    Checkouts,      \* Stripe checkout session ids
    OrderUser,      \* credit_orders.user_id
    OrderCredits,   \* credit_orders.credits, in millionths of a credit
    SignupBonus,    \* v_signup_bonus
    None,           \* SQL NULL, and "nobody" in a lock table
    Calls           \* the calls the API, the webhook and the operators issue

(* The arguments each procedure reads.  Amounts are integers: the columns  *)
(* are numeric(20, 6) and the API rounds up to six decimals.               *)
DebitCalls ==
    [op: {"debit_credits"}, user: Users, amount: Nat, request: Requests]
UsageCalls ==
    [op: {"record_usage_and_debit"}, user: Users, amount: Nat,
     request: Requests, key: UsageKeys \cup {None}]
LogCalls ==
    [op: {"insert_usage_log"}, user: Users, request: Requests]
OrderCalls ==
    [op: {"complete_credit_order"}, user: Users, order: Orders,
     checkout: Checkouts]
AdminCalls ==
    [op: {"admin_adjust_credits"}, user: Users, amount: Nat \ {0},
     direction: {"add", "deduct"}, key: AdminKeys]
OpsCalls ==
    [op: {"ops_ledger_adjustment"}, user: Users, amount: Nat \ {0},
     kind: {"ops_grant", "ops_reverse"}, key: OpsKeys]

AllCalls == DebitCalls \cup UsageCalls \cup LogCalls
            \cup OrderCalls \cup AdminCalls \cup OpsCalls

ASSUME CallsAssumption == Calls \subseteq AllCalls
ASSUME OrdersAssumption == /\ OrderUser \in [Orders -> Users]
                           /\ OrderCredits \in [Orders -> Nat \ {0}]
ASSUME BonusAssumption == SignupBonus \in Nat
ASSUME NoneAssumption ==
    None \notin Users \cup Backends \cup UsageKeys \cup Checkouts \cup Calls

VARIABLES
    profiles,         \* ids that have a row in profiles
    credits_balance,  \* profiles.credits_balance
    total_used,       \* profiles.total_credits_used
    total_purchased,  \* profiles.total_credits_purchased
    credit_ledger,    \* per user, the rows in the order they were committed
    usage_logs,       \* set of rows
    credit_orders,    \* per order, its status and stripe_checkout_session_id
    admin_audit_logs, \* set of rows
    profileLock,      \* per user, the backend whose FOR UPDATE holds the row
    orderLock,        \* per order, likewise
    advisoryLock,     \* per admin key, the holder of pg_advisory_xact_lock
    call,             \* per backend, the call it runs, or None
    pc,               \* per backend, the statement it is at
    v_balance         \* per backend, the local variable of that name

tables == <<profiles, credits_balance, total_used, total_purchased,
            credit_ledger, usage_logs, credit_orders, admin_audit_logs>>
locks == <<profileLock, orderLock, advisoryLock>>
control == <<call, pc, v_balance>>
vars == <<tables, locks, control>>

-----------------------------------------------------------------------------
(* Rows and the unique indexes over them. *)

(* credit_ledger_debit_ref_idx and credit_ledger_topup_ref_idx; adjustment *)
(* rows are under no unique index.                                         *)
HasRow(type, ref) ==
    \E u \in Users : \E i \in DOMAIN credit_ledger[u] :
        /\ credit_ledger[u][i].type = type
        /\ credit_ledger[u][i].reference_id = ref

(* usage_logs.request_id UNIQUE *)
RequestLogged(r) == \E row \in usage_logs : row.request_id = r

(* usage_logs_idempotency_charged_idx, which is also what                  *)
(* lookup_usage_idempotency searches; a null key matches nothing.          *)
ChargedUnder(k) ==
    /\ k # None
    /\ \E row \in usage_logs : row.key = k /\ row.billing_status = "charged"

(* Mutant: the column without its UNIQUE constraint. *)
CheckoutNotUnique(o, s) == FALSE

(* credit_orders.stripe_checkout_session_id UNIQUE *)
CheckoutOfAnother(o, s) ==
    \E other \in Orders \ {o} : credit_orders[other].checkout = s

(* Mutant: a failed outcome does not count as one. *)
SucceededAuditOf(k) ==
    {row \in admin_audit_logs : row.key = k /\ row.status = "succeeded"}

(* admin_audit_logs_idempotency_idx, and the rows the admin lookup reads *)
AuditOf(k) == {row \in admin_audit_logs : row.key = k}

-----------------------------------------------------------------------------
Init ==
    /\ profiles = {}
    /\ credits_balance = [u \in Users |-> 0]
    /\ total_used = [u \in Users |-> 0]
    /\ total_purchased = [u \in Users |-> 0]
    /\ credit_ledger = [u \in Users |-> <<>>]
    /\ usage_logs = {}
    /\ credit_orders = [o \in Orders |-> [status |-> "pending", checkout |-> None]]
    /\ admin_audit_logs = {}
    /\ profileLock = [u \in Users |-> None]
    /\ orderLock = [o \in Orders |-> None]
    /\ advisoryLock = [k \in AdminKeys |-> None]
    /\ call = [b \in Backends |-> None]
    /\ pc = [b \in Backends |-> "idle"]
    /\ v_balance = [b \in Backends |-> 0]

(* Mutant: pg_advisory_lock, which outlives the transaction, instead of    *)
(* pg_advisory_xact_lock.                                                  *)
EndKeepsAdvisoryLock(b) ==
    /\ profileLock' = [u \in Users |->
                         IF profileLock[u] = b THEN None ELSE profileLock[u]]
    /\ orderLock' = [o \in Orders |->
                         IF orderLock[o] = b THEN None ELSE orderLock[o]]
    /\ UNCHANGED advisoryLock
    /\ call' = [call EXCEPT ![b] = None]
    /\ pc' = [pc EXCEPT ![b] = "idle"]
    /\ v_balance' = [v_balance EXCEPT ![b] = 0]

(* COMMIT or ROLLBACK: the backend drops its locks and is free again. *)
EndTransaction(b) ==
    /\ profileLock' = [u \in Users |->
                         IF profileLock[u] = b THEN None ELSE profileLock[u]]
    /\ orderLock' = [o \in Orders |->
                         IF orderLock[o] = b THEN None ELSE orderLock[o]]
    /\ advisoryLock' = [k \in AdminKeys |->
                         IF advisoryLock[k] = b THEN None ELSE advisoryLock[k]]
    /\ call' = [call EXCEPT ![b] = None]
    /\ pc' = [pc EXCEPT ![b] = "idle"]
    /\ v_balance' = [v_balance EXCEPT ![b] = 0]

At(b, place, op) == pc[b] = place /\ call[b].op = op

(* update profiles set credits_balance = v_new_balance, and the ledger row *)
(* that says so.                                                           *)
Post(b, type, amount, ref) ==
    LET u == call[b].user
        after == v_balance[b] + amount
    IN  /\ credits_balance' = [credits_balance EXCEPT ![u] = after]
        /\ credit_ledger' = [credit_ledger EXCEPT ![u] = Append(@,
              [type |-> type, amount |-> amount, balance_after |-> after,
               reference_id |-> ref, reason |-> call[b].op])]

-----------------------------------------------------------------------------
(* auth.users got a row: the trigger creates the profile and its bonus.    *)
SignUp(u) ==
    /\ u \notin profiles
    /\ profiles' = profiles \cup {u}
    /\ credits_balance' = [credits_balance EXCEPT ![u] = SignupBonus]
    /\ credit_ledger' = [credit_ledger EXCEPT ![u] = Append(@,
          [type |-> "grant", amount |-> SignupBonus,
           balance_after |-> SignupBonus,
           reference_id |-> <<"signup_bonus", u>>, reason |-> "signup_bonus"])]
    /\ UNCHANGED <<total_used, total_purchased, usage_logs, credit_orders,
                   admin_audit_logs, locks, control>>

(* The first statement of each procedure that others can influence. *)
FirstStatement(op) ==
    CASE op = "debit_credits" -> "profile"
      [] op = "insert_usage_log" -> "commit"
      [] op \in {"complete_credit_order", "admin_adjust_credits"} -> "lock"
      [] op \in {"record_usage_and_debit", "ops_ledger_adjustment"} -> "lookup"

(* The API, the webhook or an operator issues a call; retries and          *)
(* duplicates are the same call issued again, at once or later.            *)
Begin(b) ==
    /\ pc[b] = "idle"
    /\ \E c \in Calls :
        /\ call' = [call EXCEPT ![b] = c]
        /\ pc' = [pc EXCEPT ![b] = FirstStatement(c.op)]
    /\ UNCHANGED <<tables, locks, v_balance>>

(* The connection or the client dies: Postgres rolls the transaction back. *)
Disconnect(b) ==
    /\ pc[b] # "idle"
    /\ EndTransaction(b)
    /\ UNCHANGED tables

-----------------------------------------------------------------------------
(* Locks that block, and lookups that are answered from what has committed *)
(* so far.                                                                 *)

(* select * from credit_orders where id = p_order_id for update *)
LockOrder(b) ==
    /\ At(b, "lock", "complete_credit_order")
    /\ orderLock[call[b].order] = None
    /\ orderLock' = [orderLock EXCEPT ![call[b].order] = b]
    /\ pc' = [pc EXCEPT ![b] = "lookup"]
    /\ UNCHANGED <<tables, profileLock, advisoryLock, call, v_balance>>

(* pg_advisory_xact_lock(actor || ':' || idempotency_key) *)
LockAdminKey(b) ==
    /\ At(b, "lock", "admin_adjust_credits")
    /\ advisoryLock[call[b].key] = None
    /\ advisoryLock' = [advisoryLock EXCEPT ![call[b].key] = b]
    /\ pc' = [pc EXCEPT ![b] = "lookup"]
    /\ UNCHANGED <<tables, profileLock, orderLock, call, v_balance>>

(* What the duplicate lookup of the call finds. *)
AlreadyApplied(c) ==
    CASE c.op = "record_usage_and_debit" -> ChargedUnder(c.key)
      [] c.op = "complete_credit_order" ->
            \/ credit_orders[c.order].status = "paid"
            \/ HasRow("topup", <<"stripe_checkout", c.checkout>>)
      [] c.op = "admin_adjust_credits" -> AuditOf(c.key) # {}
      [] c.op = "ops_ledger_adjustment" -> HasRow("adjustment", <<c.kind, c.key>>)

(* Mutant: the session of the order is not compared. *)
MismatchOfUserOnly(c) == c.op = "complete_credit_order" /\ OrderUser[c.order] # c.user

(* The order belongs to somebody else, or to another checkout session. *)
Mismatch(c) ==
    /\ c.op = "complete_credit_order"
    /\ \/ OrderUser[c.order] # c.user
       \/ credit_orders[c.order].checkout \notin {None, c.checkout}

(* Nothing applied yet: go on to lock the profile. *)
LookupMiss(b) ==
    /\ pc[b] = "lookup"
    /\ ~AlreadyApplied(call[b])
    /\ ~Mismatch(call[b])
    /\ pc' = [pc EXCEPT ![b] = "profile"]
    /\ UNCHANGED <<tables, locks, call, v_balance>>

(* Mutant: the replay stores the session without the unique check. *)
LookupHitOverwrites(b) ==
    /\ pc[b] = "lookup"
    /\ AlreadyApplied(call[b])
    /\ ~Mismatch(call[b])
    /\ credit_orders' =
          IF call[b].op = "complete_credit_order"
          THEN [credit_orders EXCEPT ![call[b].order] =
                  [status |-> "paid", checkout |-> call[b].checkout]]
          ELSE credit_orders
    /\ EndTransaction(b)
    /\ UNCHANGED <<profiles, credits_balance, total_used, total_purchased,
                   credit_ledger, usage_logs, admin_audit_logs>>

(* A replay returns the earlier result and writes nothing, except that     *)
(* complete_credit_order marks its order paid and stores the session.      *)
LookupHit(b) ==
    /\ pc[b] = "lookup"
    /\ AlreadyApplied(call[b])
    /\ ~Mismatch(call[b])
    /\ credit_orders' =
          IF /\ call[b].op = "complete_credit_order"
             /\ ~CheckoutOfAnother(call[b].order, call[b].checkout)
          THEN [credit_orders EXCEPT ![call[b].order] =
                  [status |-> "paid", checkout |-> call[b].checkout]]
          ELSE credit_orders
    /\ EndTransaction(b)
    /\ UNCHANGED <<profiles, credits_balance, total_used, total_purchased,
                   credit_ledger, usage_logs, admin_audit_logs>>

RefuseMismatch(b) ==
    /\ pc[b] = "lookup"
    /\ Mismatch(call[b])
    /\ EndTransaction(b)
    /\ UNCHANGED tables

(* Mutant: the select without FOR UPDATE. *)
ReadProfile(b) ==
    /\ pc[b] = "profile"
    /\ call[b].user \in profiles
    /\ v_balance' = [v_balance EXCEPT ![b] = credits_balance[call[b].user]]
    /\ pc' = [pc EXCEPT ![b] = "commit"]
    /\ UNCHANGED <<tables, locks, call>>

(* select credits_balance into v_balance ... for update *)
LockProfile(b) ==
    LET u == call[b].user IN
    /\ pc[b] = "profile"
    /\ u \in profiles
    /\ profileLock[u] = None
    /\ profileLock' = [profileLock EXCEPT ![u] = b]
    /\ v_balance' = [v_balance EXCEPT ![b] = credits_balance[u]]
    /\ pc' = [pc EXCEPT ![b] = "commit"]
    /\ UNCHANGED <<tables, orderLock, advisoryLock, call>>

Audit(b, status, row) ==
    admin_audit_logs' = admin_audit_logs \cup
        {[key |-> call[b].key, user |-> call[b].user, status |-> status,
          ledger_row |-> row]}

(* v_balance is null: every procedure fails, the admin one after leaving a *)
(* failed audit row behind.                                                *)
ProfileNotFound(b) ==
    /\ pc[b] = "profile"
    /\ call[b].user \notin profiles
    /\ IF call[b].op = "admin_adjust_credits" /\ AuditOf(call[b].key) = {}
       THEN Audit(b, "failed", 0)
       ELSE UNCHANGED admin_audit_logs
    /\ EndTransaction(b)
    /\ UNCHANGED <<profiles, credits_balance, total_used, total_purchased,
                   credit_ledger, usage_logs, credit_orders>>

-----------------------------------------------------------------------------
(* The writes.  One action per procedure, and one for all the ways a       *)
(* procedure ends without writing.                                         *)

CanDebit(b) ==
    /\ v_balance[b] >= call[b].amount
    /\ ~HasRow("debit", <<"request", call[b].request>>)

DebitCredits(b) ==
    LET c == call[b] IN
    /\ At(b, "commit", "debit_credits")
    /\ CanDebit(b)
    /\ Post(b, "debit", -c.amount, <<"request", c.request>>)
    /\ total_used' = [total_used EXCEPT ![c.user] = @ + c.amount]
    /\ EndTransaction(b)
    /\ UNCHANGED <<profiles, total_purchased, usage_logs, credit_orders,
                   admin_audit_logs>>

(* Mutants: usage_logs without the idempotency index; a lookup of the      *)
(* balance that is never compared.                                         *)
CanRecordUsageTwice(b) ==
    /\ v_balance[b] >= call[b].amount
    /\ ~RequestLogged(call[b].request)
    /\ call[b].amount > 0 => ~HasRow("debit", <<"request", call[b].request>>)

CanRecordUsageUnpaid(b) ==
    /\ ~RequestLogged(call[b].request)
    /\ call[b].amount > 0 => /\ ~HasRow("debit", <<"request", call[b].request>>)
                             /\ ~ChargedUnder(call[b].key)

CanRecordUsage(b) ==
    LET c == call[b] IN
    /\ v_balance[b] >= c.amount
    /\ ~RequestLogged(c.request)
    /\ c.amount > 0 => /\ ~HasRow("debit", <<"request", c.request>>)
                       /\ ~ChargedUnder(c.key)

(* A free call leaves the balance alone and logs a not_billable row.       *)
RecordUsageAndDebit(b) ==
    LET c == call[b] IN
    /\ At(b, "commit", "record_usage_and_debit")
    /\ CanRecordUsage(b)
    /\ IF c.amount > 0
       THEN /\ Post(b, "debit", -c.amount, <<"request", c.request>>)
            /\ total_used' = [total_used EXCEPT ![c.user] = @ + c.amount]
       ELSE UNCHANGED <<credits_balance, credit_ledger, total_used>>
    /\ usage_logs' = usage_logs \cup
          {[request_id |-> c.request, user |-> c.user, key |-> c.key,
            credits_charged |-> c.amount,
            billing_status |-> IF c.amount > 0 THEN "charged" ELSE "not_billable",
            debit_row |-> IF c.amount > 0 THEN Len(credit_ledger[c.user]) + 1 ELSE 0]}
    /\ EndTransaction(b)
    /\ UNCHANGED <<profiles, total_purchased, credit_orders, admin_audit_logs>>

(* The API logs a request that failed, outside any procedure. *)
InsertUsageLog(b) ==
    LET c == call[b] IN
    /\ At(b, "commit", "insert_usage_log")
    /\ ~RequestLogged(c.request)
    /\ usage_logs' = usage_logs \cup
          {[request_id |-> c.request, user |-> c.user, key |-> None,
            credits_charged |-> 0, billing_status |-> "not_billable",
            debit_row |-> 0]}
    /\ EndTransaction(b)
    /\ UNCHANGED <<profiles, credits_balance, total_used, total_purchased,
                   credit_ledger, credit_orders, admin_audit_logs>>

(* The topup row may hit its unique index inside a sub-block that catches  *)
(* the violation: then the new balance stays and no row is written.        *)
CompleteCreditOrder(b) ==
    LET c == call[b]
        credits == OrderCredits[c.order]
        ref == <<"stripe_checkout", c.checkout>>
    IN
    /\ At(b, "commit", "complete_credit_order")
    /\ ~CheckoutOfAnother(c.order, c.checkout)
    /\ IF HasRow("topup", ref)
       THEN /\ credits_balance' =
                 [credits_balance EXCEPT ![c.user] = v_balance[b] + credits]
            /\ UNCHANGED credit_ledger
       ELSE Post(b, "topup", credits, ref)
    /\ total_purchased' = [total_purchased EXCEPT ![c.user] = @ + credits]
    /\ credit_orders' = [credit_orders EXCEPT ![c.order] =
          [status |-> "paid", checkout |-> c.checkout]]
    /\ EndTransaction(b)
    /\ UNCHANGED <<profiles, total_used, usage_logs, admin_audit_logs>>

Signed(c) == IF c.direction = "add" THEN c.amount ELSE -c.amount

CanAdjust(b) == v_balance[b] + Signed(call[b]) >= 0

(* reference_id is a fresh uuid: the row's own place in the ledger is one. *)
AdminAdjustCredits(b) ==
    LET c == call[b]
        row == Len(credit_ledger[c.user]) + 1
    IN
    /\ At(b, "commit", "admin_adjust_credits")
    /\ AuditOf(c.key) = {}
    /\ IF CanAdjust(b)
       THEN /\ Post(b, "adjustment", Signed(c), <<"admin_adjustment", row>>)
            /\ Audit(b, "succeeded", row)
       ELSE /\ Audit(b, "failed", 0)
            /\ UNCHANGED <<credits_balance, credit_ledger>>
    /\ EndTransaction(b)
    /\ UNCHANGED <<profiles, total_used, total_purchased, usage_logs,
                   credit_orders>>

OpsSigned(c) == IF c.kind = "ops_grant" THEN c.amount ELSE -c.amount

CanOpsAdjust(b) == v_balance[b] + OpsSigned(call[b]) >= 0

(* Mutant: a reversal is counted as a purchase too. *)
OpsAdjustmentAllPurchased(b) ==
    LET c == call[b] IN
    /\ At(b, "commit", "ops_ledger_adjustment")
    /\ CanOpsAdjust(b)
    /\ Post(b, "adjustment", OpsSigned(c), <<c.kind, c.key>>)
    /\ total_purchased' = [total_purchased EXCEPT ![c.user] = @ + c.amount]
    /\ EndTransaction(b)
    /\ UNCHANGED <<profiles, total_used, usage_logs, credit_orders,
                   admin_audit_logs>>

OpsLedgerAdjustment(b) ==
    LET c == call[b] IN
    /\ At(b, "commit", "ops_ledger_adjustment")
    /\ CanOpsAdjust(b)
    /\ Post(b, "adjustment", OpsSigned(c), <<c.kind, c.key>>)
    /\ total_purchased' =
          IF c.kind = "ops_grant"
          THEN [total_purchased EXCEPT ![c.user] = @ + c.amount]
          ELSE total_purchased
    /\ EndTransaction(b)
    /\ UNCHANGED <<profiles, total_used, usage_logs, credit_orders,
                   admin_audit_logs>>

(* insufficient_credits, or a unique violation that nothing catches: the   *)
(* whole transaction rolls back.                                           *)
Accepted(b) ==
    CASE call[b].op = "debit_credits" -> CanDebit(b)
      [] call[b].op = "record_usage_and_debit" -> CanRecordUsage(b)
      [] call[b].op = "insert_usage_log" -> ~RequestLogged(call[b].request)
      [] call[b].op = "complete_credit_order" ->
            ~CheckoutOfAnother(call[b].order, call[b].checkout)
      [] call[b].op = "admin_adjust_credits" -> AuditOf(call[b].key) = {}
      [] call[b].op = "ops_ledger_adjustment" -> CanOpsAdjust(b)

Reject(b) ==
    /\ pc[b] = "commit"
    /\ ~Accepted(b)
    /\ EndTransaction(b)
    /\ UNCHANGED tables

-----------------------------------------------------------------------------
Commit(b) ==
    \/ DebitCredits(b)
    \/ RecordUsageAndDebit(b)
    \/ InsertUsageLog(b)
    \/ CompleteCreditOrder(b)
    \/ AdminAdjustCredits(b)
    \/ OpsLedgerAdjustment(b)
    \/ Reject(b)

(* What a running transaction does next by itself. *)
Run(b) ==
    \/ LookupMiss(b)
    \/ LookupHit(b)
    \/ RefuseMismatch(b)
    \/ ProfileNotFound(b)
    \/ Commit(b)

Acquire(b) == LockOrder(b) \/ LockAdminKey(b) \/ LockProfile(b)

Next ==
    \/ \E u \in Users : SignUp(u)
    \/ \E b \in Backends : Begin(b) \/ Disconnect(b) \/ Acquire(b) \/ Run(b)

Spec == Init /\ [][Next]_vars

(* Postgres keeps running a transaction, and grants a row or advisory lock *)
(* to its waiters in turn.  Nobody has to sign up, call or disconnect.     *)
Fairness == \A b \in Backends : WF_vars(Run(b)) /\ SF_vars(Acquire(b))

FairSpec == Spec /\ Fairness

-----------------------------------------------------------------------------
(* Properties. *)

Ops == {"debit_credits", "record_usage_and_debit", "insert_usage_log",
        "complete_credit_order", "admin_adjust_credits", "ops_ledger_adjustment"}

References ==
    {"signup_bonus", "request", "stripe_checkout", "admin_adjustment",
     "ops_grant", "ops_reverse"}
       \X (Users \cup Requests \cup Checkouts \cup OpsKeys \cup Nat)

Reasons == Ops \cup {"signup_bonus"}

LedgerRows == [type: {"grant", "debit", "topup", "adjustment"}, amount: Int,
               balance_after: Int, reference_id: References, reason: Reasons]

UsageRows == [request_id: Requests, user: Users, key: UsageKeys \cup {None},
              credits_charged: Nat, billing_status: {"charged", "not_billable"},
              debit_row: Nat]

AuditRows == [key: AdminKeys, user: Users, status: {"succeeded", "failed"},
              ledger_row: Nat]

OrderRows == [status: {"pending", "paid"}, checkout: Checkouts \cup {None}]

Places == {"idle", "lock", "lookup", "profile", "commit"}

(* The tables hold the columns their migrations declare, a lock is held by *)
(* at most one backend, and a backend is somewhere in a procedure.         *)
TypeOK ==
    /\ profiles \subseteq Users
    /\ credits_balance \in [Users -> Int]
    /\ total_used \in [Users -> Int]
    /\ total_purchased \in [Users -> Int]
    /\ credit_ledger \in [Users -> Seq(LedgerRows)]
    /\ usage_logs \subseteq UsageRows
    /\ credit_orders \in [Orders -> OrderRows]
    /\ admin_audit_logs \subseteq AuditRows
    /\ profileLock \in [Users -> Backends \cup {None}]
    /\ orderLock \in [Orders -> Backends \cup {None}]
    /\ advisoryLock \in [AdminKeys -> Backends \cup {None}]
    /\ call \in [Backends -> Calls \cup {None}]
    /\ pc \in [Backends -> Places]
    /\ v_balance \in [Backends -> Int]

(* The ledger explains the balance: a user's first row is the opening      *)
(* balance, each later row's balance_after is the one before it plus the   *)
(* row's amount, and the last one is credits_balance.  Nothing moves the   *)
(* balance without a row, also when the topup insert hits its unique index *)
(* and the new balance survives (complete_credit_order, 0034).             *)
LedgerExplainsBalance ==
    \A u \in Users :
        LET rows == credit_ledger[u] IN
        IF u \in profiles
        THEN /\ rows # <<>>
             /\ rows[1].balance_after = rows[1].amount
             /\ \A i \in 2..Len(rows) :
                   rows[i].balance_after = rows[i - 1].balance_after + rows[i].amount
             /\ credits_balance[u] = rows[Len(rows)].balance_after
        ELSE rows = <<>> /\ credits_balance[u] = 0

(* Concurrent debits and deductions never take a balance below zero, now   *)
(* or at any point of its history, although each procedure compares the    *)
(* amount with a balance it read in an earlier statement.                  *)
NeverOverdrawn ==
    \A u \in Users :
        /\ credits_balance[u] >= 0
        /\ \A i \in DOMAIN credit_ledger[u] : credit_ledger[u][i].balance_after >= 0

(* record_usage_and_debit charges and logs together or not at all: its     *)
(* debit rows and the charged usage rows are one to one, with the same     *)
(* request, user and amount, and a key is charged at most once however     *)
(* many calls race past lookup_usage_idempotency.                          *)
ChargesMatchUsage ==
    LET charged == {row \in usage_logs : row.billing_status = "charged"} IN
    /\ \A row \in charged :
          /\ row.debit_row \in DOMAIN credit_ledger[row.user]
          /\ LET debit == credit_ledger[row.user][row.debit_row] IN
                /\ debit.type = "debit"
                /\ debit.reference_id = <<"request", row.request_id>>
                /\ debit.amount = -row.credits_charged
    /\ \A u \in Users : \A i \in DOMAIN credit_ledger[u] :
          credit_ledger[u][i].reason = "record_usage_and_debit" =>
             \E row \in charged : row.user = u /\ row.debit_row = i
    /\ \A r1, r2 \in charged : r1.key = r2.key /\ r1.key # None => r1 = r2

(* A paid order has exactly one topup row, its user's and for its credits, *)
(* and a topup row has exactly one paid order: duplicate webhooks and two  *)
(* orders racing on one checkout session credit once.                      *)
PaidOrdersAreCredited ==
    LET paid == {o \in Orders : credit_orders[o].status = "paid"}
        Topups(u) == {i \in DOMAIN credit_ledger[u] :
                         credit_ledger[u][i].type = "topup"}
        TopupOf(o, i) == credit_ledger[OrderUser[o]][i].reference_id =
                            <<"stripe_checkout", credit_orders[o].checkout>>
    IN
    /\ \A o \in paid :
          \E i \in Topups(OrderUser[o]) :
             /\ \A j \in Topups(OrderUser[o]) : TopupOf(o, j) <=> i = j
             /\ credit_ledger[OrderUser[o]][i].amount = OrderCredits[o]
    /\ \A u \in Users : \A i \in Topups(u) :
          \E o \in paid : OrderUser[o] = u /\ TopupOf(o, i)

(* An admin key has one outcome: at most one audit row, which if it        *)
(* succeeded names the one adjustment row written for it; no adjustment of *)
(* admin_adjust_credits is without its audit row.                          *)
AdminOutcomeOnce ==
    /\ \A r1, r2 \in admin_audit_logs : r1.key = r2.key => r1 = r2
    /\ \A row \in admin_audit_logs : row.status = "succeeded" =>
          /\ row.ledger_row \in DOMAIN credit_ledger[row.user]
          /\ credit_ledger[row.user][row.ledger_row].reason = "admin_adjust_credits"
    /\ \A u \in Users : \A i \in DOMAIN credit_ledger[u] :
          credit_ledger[u][i].reason = "admin_adjust_credits" =>
             Cardinality({row \in admin_audit_logs : /\ row.user = u
                                                     /\ row.ledger_row = i}) = 1

(* What a row adds to the two running totals of its profile.               *)
Spent(row) == IF row.type = "debit" THEN -row.amount ELSE 0

Bought(row) ==
    IF row.type = "topup" \/ row.reference_id[1] = "ops_grant"
    THEN row.amount ELSE 0

SumSpent(rows) ==
    LET sum[i \in 0 .. Len(rows)] ==
            IF i = 0 THEN 0 ELSE sum[i - 1] + Spent(rows[i])
    IN  sum[Len(rows)]

SumBought(rows) ==
    LET sum[i \in 0 .. Len(rows)] ==
            IF i = 0 THEN 0 ELSE sum[i - 1] + Bought(rows[i])
    IN  sum[Len(rows)]

(* The running totals of a profile are the sums of its ledger: what debits *)
(* took, and what checkouts and ops grants (not admin adjustments) added.  *)
TotalsMatchLedger ==
    \A u \in Users :
        /\ total_used[u] = SumSpent(credit_ledger[u])
        /\ total_purchased[u] = SumBought(credit_ledger[u])

(* docs/p765-usage-ledger-safety.md says ops_ledger_adjustment is          *)
(* "Idempotent via reference_id": one adjustment row per kind and key.     *)
OpsAdjustmentOnce ==
    \A u, w \in Users :
        \A i \in DOMAIN credit_ledger[u], j \in DOMAIN credit_ledger[w] :
            /\ credit_ledger[u][i].reason = "ops_ledger_adjustment"
            /\ credit_ledger[u][i].reference_id = credit_ledger[w][j].reference_id
            => u = w /\ i = j

(* What a paid order says never changes again, whatever is replayed at it. *)
PaidIsFinal ==
    [][\A o \in Orders : credit_orders[o].status = "paid" =>
          credit_orders'[o] = credit_orders[o]]_credit_orders

(* Every call returns: no order of the order, advisory and profile locks   *)
(* makes two procedures wait for each other, and none keeps a lock.        *)
CallsReturn == \A b \in Backends : pc[b] # "idle" ~> pc[b] = "idle"

-----------------------------------------------------------------------------
(* The inductive invariant behind the safety properties. *)

(* A backend holds a call exactly while it is busy, and only the calls     *)
(* that have such a statement are at it.                                   *)
CallsInPlace ==
    \A b \in Backends :
        /\ pc[b] = "idle" <=> call[b] = None
        /\ pc[b] = "lock" =>
              call[b].op \in {"complete_credit_order", "admin_adjust_credits"}
        /\ pc[b] = "lookup" =>
              call[b].op \in {"complete_credit_order", "admin_adjust_credits",
                              "record_usage_and_debit", "ops_ledger_adjustment"}
        /\ pc[b] = "profile" => call[b].op # "insert_usage_log"

(* Until it commits, a transaction that read the balance FOR UPDATE holds  *)
(* the row, so what it read is still what the table says.                  *)
HeldBalanceIsCurrent ==
    \A b \in Backends :
        pc[b] = "commit" /\ call[b].op # "insert_usage_log" =>
           /\ call[b].user \in profiles
           /\ profileLock[call[b].user] = b
           /\ v_balance[b] = credits_balance[call[b].user]

(* complete_credit_order holds the order it found pending, its own user's  *)
(* and under no other session, up to the commit.                           *)
HeldOrderIsPending ==
    \A b \in Backends :
        LET c == call[b] IN
        pc[b] \in {"lookup", "profile", "commit"} /\ c.op = "complete_credit_order" =>
           /\ orderLock[c.order] = b
           /\ pc[b] # "lookup" =>
                 /\ OrderUser[c.order] = c.user
                 /\ credit_orders[c.order].status = "pending"
                 /\ credit_orders[c.order].checkout \in {None, c.checkout}

(* A session that was topped up is the session of a paid order. *)
TopupHasPaidOrder ==
    \A s \in Checkouts : HasRow("topup", <<"stripe_checkout", s>>) =>
        \E o \in Orders : /\ credit_orders[o].status = "paid"
                          /\ credit_orders[o].checkout = s

PaidHasCheckout ==
    \A o \in Orders : credit_orders[o].status = "paid" => credit_orders[o].checkout # None

LedgerInv ==
    /\ TypeOK
    /\ CallsInPlace
    /\ HeldBalanceIsCurrent
    /\ HeldOrderIsPending
    /\ TopupHasPaidOrder
    /\ PaidHasCheckout
    /\ LedgerExplainsBalance
    /\ NeverOverdrawn

-----------------------------------------------------------------------------
(* The account abstraction every balance change must be an instance of.    *)
W == INSTANCE Wallet WITH balance <- credits_balance, ledger <- credit_ledger
ImplementsWallet == W!Spec

(* The promise of complete_credit_order to the shop.                       *)
ToppedUp ==
    {t \in Users \X Checkouts : \E i \in DOMAIN credit_ledger[t[1]] :
        /\ credit_ledger[t[1]][i].type = "topup"
        /\ credit_ledger[t[1]][i].reference_id = <<"stripe_checkout", t[2]>>}

O == INSTANCE OrderPayments WITH orders <- credit_orders, topups <- ToppedUp,
                                 Stored <- Orders
ImplementsOrderPayments == O!Spec
=============================================================================

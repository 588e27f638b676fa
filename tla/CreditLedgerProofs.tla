------------------------- MODULE CreditLedgerProofs -------------------------
(***************************************************************************)
(* Proofs about CreditLedger, for any number of users, backends, orders    *)
(* and any set of calls.                                                   *)
(***************************************************************************)
EXTENDS CreditLedger, FiniteSetTheorems, WellFoundedInduction, TLAPS

(* The op of a call says which arguments it carries. *)
LEMMA CallArguments ==
    ASSUME NEW c \in Calls
    PROVE  /\ c.user \in Users
           /\ c.op = "debit_credits" => c \in DebitCalls
           /\ c.op = "record_usage_and_debit" => c \in UsageCalls
           /\ c.op = "insert_usage_log" => c \in LogCalls
           /\ c.op = "complete_credit_order" => c \in OrderCalls
           /\ c.op = "admin_adjust_credits" => c \in AdminCalls
           /\ c.op = "ops_ledger_adjustment" => c \in OpsCalls
           /\ c.op \in Ops
<1>1. c \in AllCalls
  BY CallsAssumption
<1>2. c \in DebitCalls => c.op = "debit_credits" /\ c.user \in Users
  BY DEF DebitCalls
<1>3. c \in UsageCalls => c.op = "record_usage_and_debit" /\ c.user \in Users
  BY DEF UsageCalls
<1>4. c \in LogCalls => c.op = "insert_usage_log" /\ c.user \in Users
  BY DEF LogCalls
<1>5. c \in OrderCalls => c.op = "complete_credit_order" /\ c.user \in Users
  BY DEF OrderCalls
<1>6. c \in AdminCalls => c.op = "admin_adjust_credits" /\ c.user \in Users
  BY DEF AdminCalls
<1>7. c \in OpsCalls => c.op = "ops_ledger_adjustment" /\ c.user \in Users
  BY DEF OpsCalls
<1> QED
  BY <1>1, <1>2, <1>3, <1>4, <1>5, <1>6, <1>7 DEF AllCalls, Ops

(* A busy backend runs one of the calls. *)
LEMMA BusyRunsCall ==
    ASSUME TypeOK, CallsInPlace, NEW b \in Backends, pc[b] # "idle"
    PROVE  call[b] \in Calls
BY DEF TypeOK, CallsInPlace

ControlOK ==
    /\ profileLock \in [Users -> Backends \cup {None}]
    /\ orderLock \in [Orders -> Backends \cup {None}]
    /\ advisoryLock \in [AdminKeys -> Backends \cup {None}]
    /\ call \in [Backends -> Calls \cup {None}]
    /\ pc \in [Backends -> Places]
    /\ v_balance \in [Backends -> Int]

(* Ending a transaction keeps the types of locks and local variables. *)
LEMMA EndKeepsTypes ==
    ASSUME TypeOK, NEW b \in Backends, EndTransaction(b)
    PROVE  ControlOK'
BY DEF TypeOK, EndTransaction, ControlOK, Places

(* Posting a row keeps the types of balances and ledgers. *)
LEMMA PostKeepsTypes ==
    ASSUME TypeOK, NEW b \in Backends, call[b] \in Calls,
           NEW type \in {"grant", "debit", "topup", "adjustment"},
           NEW amount \in Int, NEW ref \in References,
           Post(b, type, amount, ref)
    PROVE  /\ credits_balance' \in [Users -> Int]
           /\ credit_ledger' \in [Users -> Seq(LedgerRows)]
<1>1. call[b].op \in Ops /\ call[b].user \in Users
  BY CallArguments
<1> DEFINE after == v_balance[b] + amount
           row == [type |-> type, amount |-> amount, balance_after |-> after,
                   reference_id |-> ref, reason |-> call[b].op]
<1>2. after \in Int
  BY DEF TypeOK
<1>3. row \in LedgerRows
  BY <1>1, <1>2 DEF LedgerRows, Reasons
<1>4. Append(credit_ledger[call[b].user], row) \in Seq(LedgerRows)
  BY <1>1, <1>3 DEF TypeOK
<1> QED
  BY <1>1, <1>2, <1>4 DEF TypeOK, Post

-----------------------------------------------------------------------------
(* Type correctness. *)

(* What the action of a call that ends its transaction leaves to show: the *)
(* tables.                                                                 *)
TablesOK ==
    /\ profiles \subseteq Users
    /\ credits_balance \in [Users -> Int]
    /\ total_used \in [Users -> Int]
    /\ total_purchased \in [Users -> Int]
    /\ credit_ledger \in [Users -> Seq(LedgerRows)]
    /\ usage_logs \subseteq UsageRows
    /\ credit_orders \in [Orders -> OrderRows]
    /\ admin_audit_logs \subseteq AuditRows

LEMMA TypesSplit == TypeOK <=> TablesOK /\ ControlOK
BY DEF TypeOK, TablesOK, ControlOK

LEMMA TypesSplitPrime == TablesOK' /\ ControlOK' => TypeOK'
BY DEF TypeOK, TablesOK, ControlOK

LEMMA TypeInit == Init => TypeOK
<1> SUFFICES ASSUME Init PROVE TypeOK
  OBVIOUS
<1>1. TablesOK
  BY DEF Init, TablesOK, OrderRows
<1>2. ControlOK
  BY DEF Init, ControlOK, Places
<1> QED
  BY <1>1, <1>2, TypesSplit

(* Opening an account. *)
LEMMA SignUpType ==
    ASSUME TypeOK, NEW u \in Users, SignUp(u)
    PROVE  TypeOK'
<1> DEFINE row == [type |-> "grant", amount |-> SignupBonus,
                   balance_after |-> SignupBonus,
                   reference_id |-> <<"signup_bonus", u>>,
                   reason |-> "signup_bonus"]
<1>1. row \in LedgerRows
  BY BonusAssumption DEF LedgerRows, References, Reasons
<1>2. Append(credit_ledger[u], row) \in Seq(LedgerRows)
  BY <1>1 DEF TypeOK
<1>3. TablesOK'
  BY <1>2, BonusAssumption DEF TypeOK, SignUp, TablesOK
<1>4. ControlOK'
  BY DEF TypeOK, SignUp, ControlOK, locks, control
<1> QED
  BY <1>3, <1>4, TypesSplitPrime

(* Steps that only move a backend along. *)
LEMMA MoveType ==
    ASSUME TypeOK, CallsInPlace, NEW b \in Backends,
           Begin(b) \/ Acquire(b) \/ LookupMiss(b)
    PROVE  TypeOK'
<1>1. TablesOK'
  BY DEF TypeOK, TablesOK, Begin, Acquire, LockOrder, LockAdminKey,
         LockProfile, LookupMiss, tables
<1>2. CASE Begin(b)
  <2>1. PICK c \in Calls : /\ call' = [call EXCEPT ![b] = c]
                           /\ pc' = [pc EXCEPT ![b] = FirstStatement(c.op)]
    BY <1>2 DEF Begin
  <2>2. FirstStatement(c.op) \in Places
    BY CallArguments DEF FirstStatement, Places, Ops
  <2>3. ControlOK'
    BY <1>2, <2>1, <2>2 DEF TypeOK, ControlOK, Begin, locks
  <2> QED
    BY <1>1, <2>3, TypesSplitPrime
<1>3. CASE Acquire(b) \/ LookupMiss(b)
  <2>1. pc[b] # "idle"
    BY <1>3 DEF Acquire, LockOrder, LockAdminKey, LockProfile, LookupMiss, At
  <2>2. /\ call[b].user \in Users
        /\ call[b].op = "complete_credit_order" => call[b].order \in Orders
        /\ call[b].op = "admin_adjust_credits" => call[b].key \in AdminKeys
    BY <2>1, BusyRunsCall, CallArguments DEF OrderCalls, AdminCalls
  <2>3. ASSUME LockOrder(b) PROVE ControlOK'
    BY <2>2, <2>3 DEF TypeOK, ControlOK, Places, LockOrder, At
  <2>4. ASSUME LockAdminKey(b) PROVE ControlOK'
    BY <2>2, <2>4 DEF TypeOK, ControlOK, Places, LockAdminKey, At
  <2>5. ASSUME LockProfile(b) PROVE ControlOK'
    BY <2>2, <2>5 DEF TypeOK, ControlOK, Places, LockProfile
  <2>6. ASSUME LookupMiss(b) PROVE ControlOK'
    BY <2>6 DEF TypeOK, ControlOK, Places, LookupMiss, locks
  <2> QED
    BY <1>1, <1>3, <2>3, <2>4, <2>5, <2>6, TypesSplitPrime DEF Acquire
<1> QED
  BY <1>2, <1>3

(* Steps that end a transaction: each leaves the tables well typed. *)
LEMMA EndType ==
    ASSUME TypeOK, CallsInPlace, NEW b \in Backends,
           Disconnect(b) \/ LookupHit(b) \/ RefuseMismatch(b)
             \/ ProfileNotFound(b) \/ Commit(b)
    PROVE  TypeOK'
<1>1. pc[b] # "idle"
  BY DEF Disconnect, LookupHit, RefuseMismatch, ProfileNotFound, Commit,
     DebitCredits, RecordUsageAndDebit, InsertUsageLog, CompleteCreditOrder,
     AdminAdjustCredits, OpsLedgerAdjustment, Reject, At
<1>2. call[b] \in Calls
  BY <1>1, BusyRunsCall
<1> DEFINE c == call[b]
<1>3. /\ c.user \in Users
      /\ c.op \in Ops
  BY <1>2, CallArguments
<1>4. EndTransaction(b)
  BY DEF Disconnect, LookupHit, RefuseMismatch, ProfileNotFound, Commit,
     DebitCredits, RecordUsageAndDebit, InsertUsageLog, CompleteCreditOrder,
     AdminAdjustCredits, OpsLedgerAdjustment, Reject
<1>5. ControlOK'
  BY <1>4, EndKeepsTypes
<1>6. CASE Disconnect(b) \/ RefuseMismatch(b) \/ Reject(b)
  <2>1. TablesOK'
    BY <1>6 DEF TypeOK, TablesOK, Disconnect, RefuseMismatch, Reject, tables
  <2> QED
    BY <1>5, <2>1, TypesSplitPrime
<1>7. CASE LookupHit(b)
  <2>1. c.op = "complete_credit_order" => c.order \in Orders /\ c.checkout \in Checkouts
    BY <1>2, CallArguments DEF OrderCalls
  <2>2. credit_orders' \in [Orders -> OrderRows]
    BY <1>7, <2>1 DEF LookupHit, TypeOK, OrderRows
  <2>3. TablesOK'
    BY <1>7, <2>2 DEF TypeOK, TablesOK, LookupHit
  <2> QED
    BY <1>5, <2>3, TypesSplitPrime
<1>8. CASE ProfileNotFound(b)
  <2>1. c.op = "admin_adjust_credits" => c.key \in AdminKeys
    BY <1>2, CallArguments DEF AdminCalls
  <2>2. admin_audit_logs' \subseteq AuditRows
    BY <1>3, <1>8, <2>1 DEF ProfileNotFound, Audit, TypeOK, AuditRows
  <2>3. TablesOK'
    BY <1>8, <2>2 DEF TypeOK, TablesOK, ProfileNotFound
  <2> QED
    BY <1>5, <2>3, TypesSplitPrime
<1>9. CASE DebitCredits(b)
  <2>1. c \in DebitCalls
    BY <1>2, <1>9, CallArguments DEF DebitCredits, At
  <2>2. -c.amount \in Int /\ <<"request", c.request>> \in References
    BY <2>1 DEF DebitCalls, References
  <2>3. /\ credits_balance' \in [Users -> Int]
        /\ credit_ledger' \in [Users -> Seq(LedgerRows)]
    BY <1>2, <1>9, <2>2, PostKeepsTypes DEF DebitCredits
  <2>4. total_used' \in [Users -> Int]
    BY <1>3, <1>9, <2>1 DEF TypeOK, DebitCredits, DebitCalls
  <2>5. TablesOK'
    BY <1>9, <2>3, <2>4 DEF TypeOK, TablesOK, DebitCredits
  <2> QED
    BY <1>5, <2>5, TypesSplitPrime
<1>10. CASE RecordUsageAndDebit(b)
  <2>1. c \in UsageCalls
    BY <1>2, <1>10, CallArguments DEF RecordUsageAndDebit, At
  <2>2. -c.amount \in Int /\ <<"request", c.request>> \in References
    BY <2>1 DEF UsageCalls, References
  <2>3. /\ credits_balance' \in [Users -> Int]
        /\ credit_ledger' \in [Users -> Seq(LedgerRows)]
        /\ total_used' \in [Users -> Int]
    <3>1. CASE c.amount > 0
      BY <1>2, <1>3, <1>10, <2>1, <2>2, <3>1, PostKeepsTypes
      DEF RecordUsageAndDebit, TypeOK, UsageCalls
    <3>2. CASE ~(c.amount > 0)
      BY <1>10, <3>2 DEF RecordUsageAndDebit, TypeOK
    <3> QED
      BY <3>1, <3>2
  <2>4. Len(credit_ledger[c.user]) + 1 \in Nat
    BY <1>3 DEF TypeOK
  <2>5. usage_logs' \subseteq UsageRows
    BY <1>3, <1>10, <2>1, <2>4 DEF RecordUsageAndDebit, TypeOK, UsageRows, UsageCalls
  <2>6. TablesOK'
    BY <1>10, <2>3, <2>5 DEF TypeOK, TablesOK, RecordUsageAndDebit
  <2> QED
    BY <1>5, <2>6, TypesSplitPrime
<1>11. CASE InsertUsageLog(b)
  <2>1. c \in LogCalls
    BY <1>2, <1>11, CallArguments DEF InsertUsageLog, At
  <2>2. usage_logs' \subseteq UsageRows
    BY <1>11, <2>1 DEF InsertUsageLog, TypeOK, UsageRows, LogCalls
  <2>3. TablesOK'
    BY <1>11, <2>2 DEF TypeOK, TablesOK, InsertUsageLog
  <2> QED
    BY <1>5, <2>3, TypesSplitPrime
<1>12. CASE CompleteCreditOrder(b)
  <2>1. c \in OrderCalls
    BY <1>2, <1>12, CallArguments DEF CompleteCreditOrder, At
  <2>2. /\ OrderCredits[c.order] \in Int
        /\ <<"stripe_checkout", c.checkout>> \in References
    BY <2>1, OrdersAssumption DEF OrderCalls, References
  <2>3. /\ credits_balance' \in [Users -> Int]
        /\ credit_ledger' \in [Users -> Seq(LedgerRows)]
    <3>1. CASE HasRow("topup", <<"stripe_checkout", c.checkout>>)
      <4>1. /\ credits_balance' = [credits_balance EXCEPT
                  ![c.user] = v_balance[b] + OrderCredits[c.order]]
            /\ credit_ledger' = credit_ledger
        BY <1>12, <3>1 DEF CompleteCreditOrder
      <4>2. v_balance[b] \in Int
        BY <1>3 DEF TypeOK
      <4> QED
        BY <1>3, <2>2, <4>1, <4>2 DEF TypeOK
    <3>2. CASE ~HasRow("topup", <<"stripe_checkout", c.checkout>>)
      BY <1>2, <1>12, <2>2, <3>2, PostKeepsTypes DEF CompleteCreditOrder
    <3> QED
      BY <3>1, <3>2
  <2>4. total_purchased' \in [Users -> Int]
    BY <1>3, <1>12, <2>2 DEF CompleteCreditOrder, TypeOK
  <2>5. credit_orders' \in [Orders -> OrderRows]
    BY <1>12, <2>1 DEF CompleteCreditOrder, TypeOK, OrderRows, OrderCalls
  <2>6. TablesOK'
    BY <1>12, <2>3, <2>4, <2>5 DEF TypeOK, TablesOK, CompleteCreditOrder
  <2> QED
    BY <1>5, <2>6, TypesSplitPrime
<1>13. CASE AdminAdjustCredits(b)
  <2>1. c \in AdminCalls
    BY <1>2, <1>13, CallArguments DEF AdminAdjustCredits, At
  <2> DEFINE row == Len(credit_ledger[c.user]) + 1
  <2>2. row \in Nat
    BY <1>3 DEF TypeOK
  <2>3. Signed(c) \in Int /\ <<"admin_adjustment", row>> \in References
    BY <2>1, <2>2 DEF AdminCalls, References, Signed
  <2>4. /\ credits_balance' \in [Users -> Int]
        /\ credit_ledger' \in [Users -> Seq(LedgerRows)]
    <3>1. CASE CanAdjust(b)
      BY <1>2, <1>13, <2>3, <3>1, PostKeepsTypes DEF AdminAdjustCredits
    <3>2. CASE ~CanAdjust(b)
      BY <1>13, <3>2 DEF AdminAdjustCredits, TypeOK
    <3> QED
      BY <3>1, <3>2
  <2>5. admin_audit_logs' \subseteq AuditRows
    BY <1>13, <2>1, <2>2 DEF AdminAdjustCredits, Audit, TypeOK, AuditRows, AdminCalls
  <2>6. TablesOK'
    BY <1>13, <2>4, <2>5 DEF TypeOK, TablesOK, AdminAdjustCredits
  <2> QED
    BY <1>5, <2>6, TypesSplitPrime
<1>14. CASE OpsLedgerAdjustment(b)
  <2>1. c \in OpsCalls
    BY <1>2, <1>14, CallArguments DEF OpsLedgerAdjustment, At
  <2>2. OpsSigned(c) \in Int /\ <<c.kind, c.key>> \in References
    BY <2>1 DEF OpsCalls, References, OpsSigned
  <2>3. /\ credits_balance' \in [Users -> Int]
        /\ credit_ledger' \in [Users -> Seq(LedgerRows)]
    BY <1>2, <1>14, <2>2, PostKeepsTypes DEF OpsLedgerAdjustment
  <2>4. total_purchased' \in [Users -> Int]
    BY <1>3, <1>14, <2>1 DEF OpsLedgerAdjustment, TypeOK, OpsCalls
  <2>5. TablesOK'
    BY <1>14, <2>3, <2>4 DEF TypeOK, TablesOK, OpsLedgerAdjustment
  <2> QED
    BY <1>5, <2>5, TypesSplitPrime
<1> QED
  BY <1>6, <1>7, <1>8, <1>9, <1>10, <1>11, <1>12, <1>13, <1>14 DEF Commit

LEMMA TypeStep ==
    ASSUME TypeOK, CallsInPlace, [Next]_vars
    PROVE  TypeOK'
<1>1. CASE UNCHANGED vars
  BY <1>1 DEF TypeOK, vars, tables, locks, control
<1>2. ASSUME NEW u \in Users, SignUp(u) PROVE TypeOK'
  BY <1>2, SignUpType
<1>3. ASSUME NEW b \in Backends, Begin(b) \/ Acquire(b) \/ LookupMiss(b) PROVE TypeOK'
  BY <1>3, MoveType
<1>4. ASSUME NEW b \in Backends,
             Disconnect(b) \/ LookupHit(b) \/ RefuseMismatch(b)
               \/ ProfileNotFound(b) \/ Commit(b)
      PROVE  TypeOK'
  BY <1>4, EndType
<1> QED
  BY <1>1, <1>2, <1>3, <1>4 DEF Next, Run

-----------------------------------------------------------------------------
(* What a step of one backend leaves alone. *)

Steps(b) == Begin(b) \/ Disconnect(b) \/ Acquire(b) \/ Run(b)

Ends(b) ==
    \/ Disconnect(b) \/ LookupHit(b) \/ RefuseMismatch(b) \/ ProfileNotFound(b)
    \/ Commit(b)

LEMMA EndsIsEndTransaction ==
    ASSUME NEW b \in Backends, Ends(b)
    PROVE  EndTransaction(b)
BY DEF Ends, Disconnect, LookupHit, RefuseMismatch, ProfileNotFound, Commit,
   DebitCredits, RecordUsageAndDebit, InsertUsageLog, CompleteCreditOrder,
   AdminAdjustCredits, OpsLedgerAdjustment, Reject

LEMMA StepKinds ==
    ASSUME NEW b \in Backends, Steps(b)
    PROVE  Begin(b) \/ LockOrder(b) \/ LockAdminKey(b) \/ LockProfile(b)
           \/ LookupMiss(b) \/ Ends(b)
BY DEF Steps, Ends, Run, Acquire

OthersAlone(b) ==
    \A x \in Backends \ {b} :
        /\ pc'[x] = pc[x] /\ call'[x] = call[x] /\ v_balance'[x] = v_balance[x]
        /\ \A u \in Users : profileLock[u] = x => profileLock'[u] = x
        /\ \A o \in Orders : orderLock[o] = x => orderLock'[o] = x

LEMMA NoneIsNobody == None \notin Backends /\ None \notin Calls /\ None \notin Checkouts
BY NoneAssumption

LEMMA Isolation ==
    ASSUME TypeOK, CallsInPlace, NEW b \in Backends, Steps(b)
    PROVE  OthersAlone(b)
<1>1. CASE Begin(b)
  BY <1>1 DEF TypeOK, Begin, locks, OthersAlone
<1>2. CASE LockOrder(b)
  BY <1>2, NoneIsNobody DEF TypeOK, LockOrder, OthersAlone
<1>3. CASE LockAdminKey(b)
  BY <1>3 DEF TypeOK, LockAdminKey, OthersAlone
<1>4. CASE LockProfile(b)
  BY <1>4, NoneIsNobody DEF TypeOK, LockProfile, OthersAlone
<1>5. CASE LookupMiss(b)
  BY <1>5 DEF TypeOK, LookupMiss, locks, OthersAlone
<1>6. CASE Ends(b)
  BY <1>6, EndsIsEndTransaction DEF TypeOK, EndTransaction, OthersAlone
<1> QED
  BY <1>1, <1>2, <1>3, <1>4, <1>5, <1>6, StepKinds

(* Where a step takes the backend that takes it. *)
LEMMA Progress ==
    ASSUME TypeOK, CallsInPlace, NEW b \in Backends, Steps(b)
    PROVE  \/ Ends(b) /\ pc'[b] = "idle" /\ call'[b] = None
           \/ /\ pc[b] = "idle" /\ call'[b] \in Calls
              /\ pc'[b] = FirstStatement(call'[b].op)
           \/ LockOrder(b) /\ pc'[b] = "lookup" /\ call'[b] = call[b]
           \/ LockAdminKey(b) /\ pc'[b] = "lookup" /\ call'[b] = call[b]
           \/ LookupMiss(b) /\ pc'[b] = "profile" /\ call'[b] = call[b]
           \/ LockProfile(b) /\ pc'[b] = "commit" /\ call'[b] = call[b]
<1>1. CASE Begin(b)
  BY <1>1 DEF TypeOK, Begin
<1>2. CASE LockOrder(b) \/ LockAdminKey(b) \/ LockProfile(b) \/ LookupMiss(b)
  BY <1>2 DEF TypeOK, LockOrder, LockAdminKey, LockProfile, LookupMiss
<1>3. CASE Ends(b)
  BY <1>3, EndsIsEndTransaction DEF TypeOK, EndTransaction
<1> QED
  BY <1>1, <1>2, <1>3, StepKinds

LEMMA SignUpIsolated ==
    ASSUME NEW u \in Users, SignUp(u)
    PROVE  UNCHANGED <<locks, control>>
BY DEF SignUp

(* Every call starts at the statement CallsInPlace expects it at. *)
LEMMA FirstStatementInPlace ==
    ASSUME NEW op \in Ops
    PROVE  /\ FirstStatement(op) \in {"lock", "lookup", "profile", "commit"}
           /\ FirstStatement(op) = "lock" =>
                op \in {"complete_credit_order", "admin_adjust_credits"}
           /\ FirstStatement(op) = "lookup" =>
                op \in {"record_usage_and_debit", "ops_ledger_adjustment"}
           /\ FirstStatement(op) = "profile" => op = "debit_credits"
           /\ FirstStatement(op) = "commit" => op = "insert_usage_log"
BY DEF FirstStatement, Ops

LEMMA PlaceStep ==
    ASSUME TypeOK, CallsInPlace, [Next]_vars
    PROVE  CallsInPlace'
<1> DEFINE Placed(x) ==
        /\ pc[x] = "idle" <=> call[x] = None
        /\ pc[x] = "lock" =>
              call[x].op \in {"complete_credit_order", "admin_adjust_credits"}
        /\ pc[x] = "lookup" =>
              call[x].op \in {"complete_credit_order", "admin_adjust_credits",
                              "record_usage_and_debit", "ops_ledger_adjustment"}
        /\ pc[x] = "profile" => call[x].op # "insert_usage_log"
<1>1. CASE UNCHANGED <<locks, control>>
  BY <1>1 DEF CallsInPlace, control
<1>2. ASSUME NEW b \in Backends, Steps(b) PROVE CallsInPlace'
  <2>1. Placed(b)'
    <3>1. CASE Ends(b) /\ pc'[b] = "idle" /\ call'[b] = None
      BY <3>1
    <3>2. CASE /\ pc[b] = "idle" /\ call'[b] \in Calls
               /\ pc'[b] = FirstStatement(call'[b].op)
      <4>1. call'[b].op \in Ops /\ call'[b] # None
        BY <3>2, CallArguments, NoneIsNobody
      <4> QED
        BY <3>2, <4>1, FirstStatementInPlace
    <3>3. CASE \/ LockOrder(b) /\ pc'[b] = "lookup" /\ call'[b] = call[b]
               \/ LockAdminKey(b) /\ pc'[b] = "lookup" /\ call'[b] = call[b]
      BY <3>3 DEF LockOrder, LockAdminKey, At, CallsInPlace
    <3>4. CASE LookupMiss(b) /\ pc'[b] = "profile" /\ call'[b] = call[b]
      BY <3>4 DEF LookupMiss, CallsInPlace
    <3>5. CASE LockProfile(b) /\ pc'[b] = "commit" /\ call'[b] = call[b]
      BY <3>5 DEF LockProfile, CallsInPlace
    <3> QED
      BY <1>2, <3>1, <3>2, <3>3, <3>4, <3>5, Progress
  <2>2. \A x \in Backends \ {b} : Placed(x)'
    BY <1>2, Isolation DEF OthersAlone, CallsInPlace
  <2> QED
    BY <2>1, <2>2 DEF CallsInPlace
<1>3. CASE \E u \in Users : SignUp(u)
  BY <1>1, <1>3, SignUpIsolated
<1>4. CASE UNCHANGED vars
  BY <1>1, <1>4 DEF vars
<1> QED
  BY <1>2, <1>3, <1>4 DEF Next, Steps

-----------------------------------------------------------------------------
(* What a step does to balances and ledgers: nothing, or open an account,  *)
(* or post one row on behalf of a backend that holds the profile.          *)

Quiet == UNCHANGED <<profiles, credits_balance, credit_ledger>>

Posts(b) ==
    /\ pc[b] = "commit" /\ call[b].op # "insert_usage_log"
    /\ profiles' = profiles
    /\ \E type \in {"debit", "topup", "adjustment"}, amount \in Int, ref \in References :
          /\ v_balance[b] + amount >= 0
          /\ type = "topup" => amount > 0 /\ ref[1] = "stripe_checkout"
          /\ type = "debit" => amount <= 0
          /\ type = "adjustment" => amount # 0
          /\ type # "adjustment" => ~HasRow(type, ref)
          /\ Post(b, type, amount, ref)

(* A topup row for a session nobody else has cannot be there already: the  *)
(* branch that keeps the balance without a row is dead.                    *)
LEMMA TopupIsNew ==
    ASSUME LedgerInv, NEW b \in Backends, CompleteCreditOrder(b)
    PROVE  ~HasRow("topup", <<"stripe_checkout", call[b].checkout>>)
<1> DEFINE c == call[b]
<1>1. /\ pc[b] = "commit"
      /\ c.op = "complete_credit_order"
      /\ ~CheckoutOfAnother(c.order, c.checkout)
  BY DEF CompleteCreditOrder, At
<1>2. c \in OrderCalls
  BY <1>1, BusyRunsCall, CallArguments DEF LedgerInv
<1>3. credit_orders[c.order].status = "pending"
  BY <1>1 DEF LedgerInv, HeldOrderIsPending
<1>4. SUFFICES ASSUME HasRow("topup", <<"stripe_checkout", c.checkout>>)
               PROVE  FALSE
  OBVIOUS
<1>5. PICK o \in Orders : /\ credit_orders[o].status = "paid"
                          /\ credit_orders[o].checkout = c.checkout
  BY <1>2, <1>4 DEF LedgerInv, TopupHasPaidOrder, OrderCalls
<1>6. o # c.order
  BY <1>3, <1>5
<1> QED
  BY <1>1, <1>5, <1>6 DEF CheckoutOfAnother

LEMMA CommitPosts ==
    ASSUME LedgerInv, NEW b \in Backends, Commit(b)
    PROVE  Quiet \/ Posts(b)
<1> DEFINE c == call[b]
<1>1. CASE DebitCredits(b)
  <2>1. pc[b] = "commit" /\ c.op = "debit_credits"
    BY <1>1 DEF DebitCredits, At
  <2>2. c \in DebitCalls
    BY <2>1, BusyRunsCall, CallArguments DEF LedgerInv
  <2>3. -c.amount \in Int /\ -c.amount <= 0 /\ <<"request", c.request>> \in References
    BY <2>2 DEF DebitCalls, References
  <2>4. v_balance[b] + (-c.amount) >= 0
    BY <1>1, <2>2 DEF DebitCredits, CanDebit, DebitCalls, LedgerInv, TypeOK
  <2> QED
    BY <1>1, <2>1, <2>3, <2>4 DEF DebitCredits, CanDebit, Posts
<1>2. CASE RecordUsageAndDebit(b)
  <2>1. pc[b] = "commit" /\ c.op = "record_usage_and_debit"
    BY <1>2 DEF RecordUsageAndDebit, At
  <2>2. c \in UsageCalls
    BY <2>1, BusyRunsCall, CallArguments DEF LedgerInv
  <2>3. -c.amount \in Int /\ -c.amount <= 0 /\ <<"request", c.request>> \in References
    BY <2>2 DEF UsageCalls, References
  <2>4. v_balance[b] + (-c.amount) >= 0
    BY <1>2, <2>2 DEF RecordUsageAndDebit, CanRecordUsage, UsageCalls, LedgerInv, TypeOK
  <2>5. CASE c.amount > 0
    BY <1>2, <2>1, <2>3, <2>4, <2>5 DEF RecordUsageAndDebit, CanRecordUsage, Posts
  <2>6. CASE ~(c.amount > 0)
    BY <1>2, <2>6 DEF RecordUsageAndDebit, Quiet
  <2> QED
    BY <2>5, <2>6
<1>3. CASE CompleteCreditOrder(b)
  <2>1. pc[b] = "commit" /\ c.op = "complete_credit_order"
    BY <1>3 DEF CompleteCreditOrder, At
  <2>2. c \in OrderCalls
    BY <2>1, BusyRunsCall, CallArguments DEF LedgerInv
  <2> DEFINE ref == <<"stripe_checkout", c.checkout>>
             credits == OrderCredits[c.order]
  <2>3. credits \in Int /\ credits > 0 /\ ref \in References /\ ref[1] = "stripe_checkout"
    BY <2>2, OrdersAssumption DEF OrderCalls, References
  <2>4. ~HasRow("topup", ref)
    BY <1>3, TopupIsNew
  <2>5. v_balance[b] >= 0
    BY <2>1, <2>2 DEF LedgerInv, HeldBalanceIsCurrent, NeverOverdrawn, OrderCalls
  <2>6. v_balance[b] + credits >= 0
    BY <2>3, <2>5 DEF LedgerInv, TypeOK
  <2> QED
    BY <1>3, <2>1, <2>3, <2>4, <2>6 DEF CompleteCreditOrder, Posts
<1>4. CASE AdminAdjustCredits(b)
  <2>1. pc[b] = "commit" /\ c.op = "admin_adjust_credits"
    BY <1>4 DEF AdminAdjustCredits, At
  <2>2. c \in AdminCalls
    BY <2>1, BusyRunsCall, CallArguments DEF LedgerInv
  <2> DEFINE row == Len(credit_ledger[c.user]) + 1
  <2>3. row \in Nat
    BY <2>2 DEF AdminCalls, LedgerInv, TypeOK
  <2>4. /\ Signed(c) \in Int /\ Signed(c) # 0
        /\ <<"admin_adjustment", row>> \in References
    BY <2>2, <2>3 DEF AdminCalls, References, Signed
  <2>5. CASE CanAdjust(b)
    BY <1>4, <2>1, <2>4, <2>5 DEF AdminAdjustCredits, CanAdjust, Posts
  <2>6. CASE ~CanAdjust(b)
    BY <1>4, <2>6 DEF AdminAdjustCredits, Quiet
  <2> QED
    BY <2>5, <2>6
<1>5. CASE OpsLedgerAdjustment(b)
  <2>1. pc[b] = "commit" /\ c.op = "ops_ledger_adjustment"
    BY <1>5 DEF OpsLedgerAdjustment, At
  <2>2. c \in OpsCalls
    BY <2>1, BusyRunsCall, CallArguments DEF LedgerInv
  <2>3. /\ OpsSigned(c) \in Int /\ OpsSigned(c) # 0
        /\ <<c.kind, c.key>> \in References
    BY <2>2 DEF OpsCalls, References, OpsSigned
  <2> QED
    BY <1>5, <2>1, <2>3 DEF OpsLedgerAdjustment, CanOpsAdjust, Posts
<1>6. CASE InsertUsageLog(b) \/ Reject(b)
  BY <1>6 DEF InsertUsageLog, Reject, tables, Quiet
<1> QED
  BY <1>1, <1>2, <1>3, <1>4, <1>5, <1>6 DEF Commit

LEMMA LedgerStep ==
    ASSUME LedgerInv, [Next]_vars
    PROVE  \/ Quiet
           \/ \E u \in Users : SignUp(u)
           \/ \E b \in Backends : Posts(b)
<1>1. CASE UNCHANGED vars
  BY <1>1 DEF vars, tables, Quiet
<1>2. CASE \E u \in Users : SignUp(u)
  BY <1>2
<1>3. ASSUME NEW b \in Backends, Steps(b)
      PROVE  Quiet \/ Posts(b)
  <2>1. CASE Commit(b)
    BY <2>1, CommitPosts
  <2>2. CASE ~Commit(b)
    BY <1>3, <2>2 DEF Steps, Run, Acquire, Begin, Disconnect, LockOrder,
       LockAdminKey, LockProfile, LookupMiss, LookupHit, RefuseMismatch,
       ProfileNotFound, tables, Quiet
  <2> QED
    BY <2>1, <2>2
<1> QED
  BY <1>1, <1>2, <1>3 DEF Next, Steps

-----------------------------------------------------------------------------
(* A backend that posts holds the profile, so no other backend at its      *)
(* commit is reading the balance it moves.                                 *)
LEMMA PostsMovesOwn ==
    ASSUME LedgerInv, NEW b \in Backends, Posts(b)
    PROVE  /\ call[b].user \in profiles
           /\ call[b].user \in Users
           /\ profileLock[call[b].user] = b
           /\ \A u \in Users \ {call[b].user} :
                /\ credits_balance'[u] = credits_balance[u]
                /\ credit_ledger'[u] = credit_ledger[u]
<1>1. /\ call[b].user \in profiles
      /\ profileLock[call[b].user] = b
  BY DEF Posts, LedgerInv, HeldBalanceIsCurrent
<1>2. call[b].user \in Users
  BY <1>1 DEF LedgerInv, TypeOK
<1> QED
  BY <1>1, <1>2 DEF Posts, Post, LedgerInv, TypeOK

LEMMA HeldBalanceStep ==
    ASSUME LedgerInv, [Next]_vars
    PROVE  HeldBalanceIsCurrent'
<1> DEFINE Held(x) ==
        pc[x] = "commit" /\ call[x].op # "insert_usage_log" =>
           /\ call[x].user \in profiles
           /\ profileLock[call[x].user] = x
           /\ v_balance[x] = credits_balance[call[x].user]
<1>1. CASE UNCHANGED vars
  BY <1>1 DEF vars, tables, locks, control, LedgerInv, HeldBalanceIsCurrent
<1>2. ASSUME NEW u \in Users, SignUp(u) PROVE HeldBalanceIsCurrent'
  BY <1>2 DEF SignUp, locks, control, LedgerInv, HeldBalanceIsCurrent, TypeOK
<1>3. ASSUME NEW b \in Backends, Steps(b), ~\E u \in Users : SignUp(u)
      PROVE  HeldBalanceIsCurrent'
  <2>1. Quiet \/ Posts(b)
    BY <1>3, CommitPosts DEF Steps, Run, Acquire, Begin, Disconnect, LockOrder,
       LockAdminKey, LockProfile, LookupMiss, LookupHit, RefuseMismatch,
       ProfileNotFound, tables, Quiet
  <2>2. Held(b)'
    <3>1. CASE Ends(b) /\ pc'[b] = "idle"
      BY <3>1
    <3>2. CASE /\ pc[b] = "idle" /\ call'[b] \in Calls
               /\ pc'[b] = FirstStatement(call'[b].op)
      BY <3>2, CallArguments, FirstStatementInPlace
    <3>3. CASE pc'[b] = "lookup" \/ pc'[b] = "profile"
      BY <3>3
    <3>4. CASE LockProfile(b) /\ pc'[b] = "commit" /\ call'[b] = call[b]
      BY <3>4 DEF LockProfile, tables, LedgerInv, TypeOK
    <3> QED
      BY <1>3, <3>1, <3>2, <3>3, <3>4, Progress DEF LedgerInv
  <2>3. ASSUME NEW x \in Backends \ {b} PROVE Held(x)'
    <3>1. SUFFICES ASSUME pc[x] = "commit", call[x].op # "insert_usage_log"
                   PROVE  Held(x)'
      BY <1>3, Isolation DEF OthersAlone, LedgerInv
    <3>2. /\ call[x].user \in profiles
          /\ profileLock[call[x].user] = x
          /\ v_balance[x] = credits_balance[call[x].user]
          /\ call[x].user \in Users
      BY <3>1 DEF LedgerInv, HeldBalanceIsCurrent, TypeOK
    <3>3. /\ profileLock'[call[x].user] = x
          /\ v_balance'[x] = v_balance[x] /\ call'[x] = call[x]
      BY <1>3, <3>2, Isolation DEF OthersAlone, LedgerInv
    <3>4. CASE Quiet
      BY <3>2, <3>3, <3>4 DEF Quiet
    <3>5. CASE Posts(b)
      <4>1. call[x].user # call[b].user
        BY <3>2, <3>5, PostsMovesOwn
      <4> QED
        BY <3>2, <3>3, <3>5, <4>1, PostsMovesOwn DEF Posts
    <3> QED
      BY <2>1, <3>4, <3>5
  <2> QED
    BY <2>2, <2>3 DEF HeldBalanceIsCurrent
<1> QED
  BY <1>1, <1>2, <1>3 DEF Next, Steps

LEMMA ExplainsStep ==
    ASSUME LedgerInv, [Next]_vars
    PROVE  LedgerExplainsBalance' /\ NeverOverdrawn'
<1> DEFINE Explained(u) ==
        LET rows == credit_ledger[u] IN
        IF u \in profiles
        THEN /\ rows # <<>>
             /\ rows[1].balance_after = rows[1].amount
             /\ \A i \in 2..Len(rows) :
                   rows[i].balance_after = rows[i - 1].balance_after + rows[i].amount
             /\ credits_balance[u] = rows[Len(rows)].balance_after
        ELSE rows = <<>> /\ credits_balance[u] = 0
     Solvent(u) ==
        /\ credits_balance[u] >= 0
        /\ \A i \in DOMAIN credit_ledger[u] : credit_ledger[u][i].balance_after >= 0
<1>0. \A u \in Users : Explained(u) /\ Solvent(u)
  BY DEF LedgerInv, LedgerExplainsBalance, NeverOverdrawn
<1>1. CASE Quiet
  BY <1>0, <1>1 DEF Quiet, LedgerExplainsBalance, NeverOverdrawn
<1>2. ASSUME NEW w \in Users, SignUp(w)
      PROVE  LedgerExplainsBalance' /\ NeverOverdrawn'
  <2>1. \A u \in Users \ {w} : Explained(u)' /\ Solvent(u)'
    BY <1>0, <1>2 DEF SignUp, LedgerInv, TypeOK
  <2> DEFINE row == [type |-> "grant", amount |-> SignupBonus,
                     balance_after |-> SignupBonus,
                     reference_id |-> <<"signup_bonus", w>>,
                     reason |-> "signup_bonus"]
  <2>2. /\ credit_ledger'[w] = Append(<<>>, row)
        /\ credits_balance'[w] = SignupBonus
        /\ w \in profiles'
    BY <1>0, <1>2 DEF SignUp, LedgerInv, TypeOK
  <2>3. /\ Len(credit_ledger'[w]) = 1
        /\ credit_ledger'[w][1] = row
        /\ DOMAIN credit_ledger'[w] = {1}
        /\ credit_ledger'[w] # <<>>
    BY <2>2
  <2>4. Explained(w)' /\ Solvent(w)'
    BY <2>2, <2>3, BonusAssumption
  <2> QED
    BY <2>1, <2>4 DEF LedgerExplainsBalance, NeverOverdrawn
<1>3. ASSUME NEW b \in Backends, Posts(b)
      PROVE  LedgerExplainsBalance' /\ NeverOverdrawn'
  <2>0. PICK w \in Users : w = call[b].user
    BY <1>3, PostsMovesOwn
  <2> DEFINE old == credit_ledger[w]
             new == credit_ledger'[w]
  <2>1. ASSUME NEW u \in Users \ {w} PROVE Explained(u)' /\ Solvent(u)'
    <3>1. credits_balance'[u] = credits_balance[u] /\ credit_ledger'[u] = credit_ledger[u]
      BY <1>3, <2>0, PostsMovesOwn
    <3>2. profiles' = profiles
      BY <1>3 DEF Posts
    <3> QED
      BY <1>0, <3>1, <3>2
  <2>2. w \in profiles /\ w \in Users /\ profiles' = profiles
    BY <1>3, <2>0, PostsMovesOwn DEF Posts
  <2>3. v_balance[b] = credits_balance[w]
    BY <1>3, <2>0 DEF Posts, LedgerInv, HeldBalanceIsCurrent
  <2>4. PICK type \in {"debit", "topup", "adjustment"}, amount \in Int, ref \in References :
          v_balance[b] + amount >= 0 /\ Post(b, type, amount, ref)
    BY <1>3 DEF Posts
  <2> DEFINE after == v_balance[b] + amount
             row == [type |-> type, amount |-> amount, balance_after |-> after,
                     reference_id |-> ref, reason |-> call[b].op]
  <2>5. new = Append(old, row) /\ credits_balance'[w] = after /\ after >= 0
    BY <2>0, <2>2, <2>4 DEF Post, LedgerInv, TypeOK
  <2>6. old \in Seq(LedgerRows) /\ old # <<>> /\ Len(old) \in Nat /\ Len(old) > 0
    BY <1>0, <2>2 DEF LedgerInv, TypeOK
  <2>7. /\ Len(new) = Len(old) + 1
        /\ \A i \in 1..Len(old) : new[i] = old[i]
        /\ new[Len(old) + 1] = row
        /\ DOMAIN new = 1..(Len(old) + 1)
        /\ DOMAIN old = 1..Len(old)
        /\ new # <<>>
    <3> HIDE DEF old, row
    <3>1. new = Append(old, row)
      BY <2>5
    <3> QED
      BY <2>6, <3>1
  <2>8. row.balance_after = after /\ row.amount = amount
    OBVIOUS
  <2>9. /\ credits_balance[w] = old[Len(old)].balance_after
        /\ old[1].balance_after = old[1].amount
        /\ \A i \in 2..Len(old) : old[i].balance_after = old[i - 1].balance_after + old[i].amount
        /\ \A i \in 1..Len(old) : old[i].balance_after >= 0
    BY <1>0, <2>2, <2>7
  <2>10. Solvent(w)'
    <3> HIDE DEF old, row, after
    <3>1. \A i \in 1..(Len(old) + 1) : new[i].balance_after >= 0
      BY <2>5, <2>6, <2>7, <2>8, <2>9
    <3> QED
      BY <2>5, <2>7, <3>1
  <2>11. Explained(w)'
    <3> HIDE DEF old, row
    <3>1. new[1].balance_after = new[1].amount
      BY <2>6, <2>7, <2>9
    <3>2. ASSUME NEW i \in 2..(Len(old) + 1)
          PROVE  new[i].balance_after = new[i - 1].balance_after + new[i].amount
      <4>1. CASE i \in 2..Len(old)
        BY <2>6, <2>7, <2>9, <4>1
      <4>2. CASE i = Len(old) + 1
        BY <2>3, <2>6, <2>7, <2>8, <2>9, <4>2
      <4> QED
        BY <2>6, <4>1, <4>2
    <3>3. credits_balance'[w] = new[Len(new)].balance_after
      BY <2>5, <2>7, <2>8
    <3> QED
      BY <2>2, <2>7, <3>1, <3>2, <3>3
  <2> QED
    BY <2>1, <2>10, <2>11 DEF LedgerExplainsBalance, NeverOverdrawn
<1> QED
  BY <1>1, <1>2, <1>3, LedgerStep

-----------------------------------------------------------------------------
(* What a step does to orders: only complete_credit_order writes one, its  *)
(* own, which it holds locked and marks paid.                              *)

MarksPaid(b) ==
    LET c == call[b] IN
    /\ c \in OrderCalls
    /\ orderLock[c.order] = b
    /\ credit_orders[c.order].checkout \in {None, c.checkout}
    /\ credit_orders' = [credit_orders EXCEPT ![c.order] =
          [status |-> "paid", checkout |-> c.checkout]]

LEMMA OrderStep ==
    ASSUME LedgerInv, NEW b \in Backends, Steps(b)
    PROVE  \/ UNCHANGED credit_orders
           \/ MarksPaid(b) /\ Ends(b)
<1> DEFINE c == call[b]
<1>1. CASE LookupHit(b)
  <2>1. CASE /\ c.op = "complete_credit_order"
             /\ ~CheckoutOfAnother(c.order, c.checkout)
    <3>1. pc[b] = "lookup" /\ ~Mismatch(c)
      BY <1>1 DEF LookupHit
    <3>2. c \in OrderCalls
      BY <2>1, <3>1, BusyRunsCall, CallArguments DEF LedgerInv
    <3>3. orderLock[c.order] = b
      BY <2>1, <3>1 DEF LedgerInv, HeldOrderIsPending
    <3> QED
      BY <1>1, <2>1, <3>1, <3>2, <3>3 DEF LookupHit, Mismatch, MarksPaid, Ends
  <2>2. CASE ~(/\ c.op = "complete_credit_order"
               /\ ~CheckoutOfAnother(c.order, c.checkout))
    BY <1>1, <2>2 DEF LookupHit
  <2> QED
    BY <2>1, <2>2
<1>2. CASE CompleteCreditOrder(b)
  <2>1. pc[b] = "commit" /\ c.op = "complete_credit_order"
    BY <1>2 DEF CompleteCreditOrder, At
  <2>2. c \in OrderCalls
    BY <2>1, BusyRunsCall, CallArguments DEF LedgerInv
  <2>3. /\ orderLock[c.order] = b
        /\ credit_orders[c.order].checkout \in {None, c.checkout}
    BY <2>1 DEF LedgerInv, HeldOrderIsPending
  <2> QED
    BY <1>2, <2>2, <2>3 DEF CompleteCreditOrder, MarksPaid, Ends, Commit
<1>3. CASE ~LookupHit(b) /\ ~CompleteCreditOrder(b)
  BY <1>3 DEF Steps, Run, Acquire, Begin, Disconnect, LockOrder, LockAdminKey,
     LockProfile, LookupMiss, RefuseMismatch, ProfileNotFound, Commit,
     DebitCredits, RecordUsageAndDebit, InsertUsageLog, AdminAdjustCredits,
     OpsLedgerAdjustment, Reject, tables
<1> QED
  BY <1>1, <1>2, <1>3

LEMMA SignUpOrders ==
    ASSUME NEW u \in Users, SignUp(u) PROVE UNCHANGED credit_orders
BY DEF SignUp

LEMMA HeldOrderStep ==
    ASSUME LedgerInv, [Next]_vars
    PROVE  HeldOrderIsPending'
<1> DEFINE HoldsOrder(x) ==
        pc[x] \in {"lookup", "profile", "commit"} /\ call[x].op = "complete_credit_order" =>
           /\ orderLock[call[x].order] = x
           /\ pc[x] # "lookup" =>
                 /\ OrderUser[call[x].order] = call[x].user
                 /\ credit_orders[call[x].order].status = "pending"
                 /\ credit_orders[call[x].order].checkout \in {None, call[x].checkout}
<1>0. \A x \in Backends : HoldsOrder(x)
  BY DEF LedgerInv, HeldOrderIsPending
<1>1. CASE UNCHANGED <<locks, control, credit_orders>>
  BY <1>1 DEF locks, control, LedgerInv, HeldOrderIsPending
<1>2. ASSUME NEW b \in Backends, Steps(b)
      PROVE  HeldOrderIsPending'
  <2>1. HoldsOrder(b)'
    <3>1. CASE Ends(b) /\ pc'[b] = "idle"
      BY <3>1
    <3>2. CASE /\ pc[b] = "idle" /\ call'[b] \in Calls
               /\ pc'[b] = FirstStatement(call'[b].op)
      BY <3>2, CallArguments, FirstStatementInPlace
    <3>3. CASE LockOrder(b) /\ pc'[b] = "lookup" /\ call'[b] = call[b]
      <4>1. call[b] \in OrderCalls
        BY <3>3, BusyRunsCall, CallArguments DEF LockOrder, At, LedgerInv
      <4> QED
        BY <3>3, <4>1 DEF LockOrder, OrderCalls, LedgerInv, TypeOK
    <3>4. CASE LockAdminKey(b) /\ pc'[b] = "lookup" /\ call'[b] = call[b]
      BY <3>4 DEF LockAdminKey, At
    <3>5. CASE LookupMiss(b) /\ pc'[b] = "profile" /\ call'[b] = call[b]
      <4>1. SUFFICES ASSUME call[b].op = "complete_credit_order"
                     PROVE  HoldsOrder(b)'
        BY <3>5
      <4>2. call[b] \in OrderCalls
        BY <3>5, <4>1, BusyRunsCall, CallArguments DEF LookupMiss, LedgerInv
      <4>3. /\ ~(credit_orders[call[b].order].status = "paid")
            /\ OrderUser[call[b].order] = call[b].user
            /\ credit_orders[call[b].order].checkout \in {None, call[b].checkout}
        BY <3>5, <4>1 DEF LookupMiss, AlreadyApplied, Mismatch
      <4>4. credit_orders[call[b].order].status = "pending"
        BY <4>2, <4>3 DEF LedgerInv, TypeOK, OrderRows, OrderCalls
      <4>5. orderLock[call[b].order] = b
        BY <1>0, <3>5, <4>1 DEF LookupMiss
      <4> QED
        BY <3>5, <4>3, <4>4, <4>5 DEF LookupMiss, tables, locks
    <3>6. CASE LockProfile(b) /\ pc'[b] = "commit" /\ call'[b] = call[b]
      BY <1>0, <3>6 DEF LockProfile, tables
    <3> QED
      BY <1>2, <3>1, <3>2, <3>3, <3>4, <3>5, <3>6, Progress DEF LedgerInv
  <2>2. ASSUME NEW x \in Backends \ {b} PROVE HoldsOrder(x)'
    <3>1. SUFFICES ASSUME pc[x] \in {"lookup", "profile", "commit"},
                          call[x].op = "complete_credit_order"
                   PROVE  HoldsOrder(x)'
      BY <1>2, Isolation DEF OthersAlone, LedgerInv
    <3>2. call[x] \in OrderCalls
      BY <3>1, BusyRunsCall, CallArguments DEF LedgerInv
    <3>3. orderLock[call[x].order] = x /\ call[x].order \in Orders
      BY <1>0, <3>1, <3>2 DEF OrderCalls
    <3>4. /\ orderLock'[call[x].order] = x
          /\ call'[x] = call[x] /\ pc'[x] = pc[x]
      BY <1>2, <3>3, Isolation DEF OthersAlone, LedgerInv
    <3>5. credit_orders'[call[x].order] = credit_orders[call[x].order]
      <4>1. CASE MarksPaid(b)
        <5>1. call[b].order # call[x].order
          BY <3>3, <4>1 DEF MarksPaid
        <5> QED
          BY <3>3, <4>1, <5>1 DEF MarksPaid, LedgerInv, TypeOK
      <4> QED
        BY <1>2, <4>1, OrderStep
    <3> QED
      BY <1>0, <3>1, <3>4, <3>5
  <2> QED
    BY <2>1, <2>2 DEF HeldOrderIsPending
<1>3. CASE \E u \in Users : SignUp(u)
  BY <1>1, <1>3, SignUpIsolated, SignUpOrders
<1>4. CASE UNCHANGED vars
  BY <1>1, <1>4 DEF vars, tables
<1> QED
  BY <1>2, <1>3, <1>4 DEF Next, Steps

(* A paid order keeps its status and its session. *)
LEMMA PaidStaysPaid ==
    ASSUME LedgerInv, [Next]_vars, NEW o \in Orders, credit_orders[o].status = "paid"
    PROVE  credit_orders'[o] = credit_orders[o]
<1>1. CASE UNCHANGED credit_orders
  BY <1>1
<1>2. ASSUME NEW b \in Backends, MarksPaid(b)
      PROVE  credit_orders'[o] = credit_orders[o]
  <2>1. CASE o # call[b].order
    BY <1>2, <2>1 DEF MarksPaid, LedgerInv, TypeOK
  <2>2. CASE o = call[b].order
    <3>1. credit_orders[o].checkout = call[b].checkout
      BY <1>2, <2>2 DEF MarksPaid, LedgerInv, PaidHasCheckout
    <3>2. credit_orders[o] = [status |-> "paid", checkout |-> call[b].checkout]
      BY <3>1 DEF LedgerInv, TypeOK, OrderRows
    <3> QED
      BY <1>2, <2>2, <3>2 DEF MarksPaid, LedgerInv, TypeOK
  <2> QED
    BY <2>1, <2>2
<1> QED
  BY <1>1, <1>2, OrderStep, SignUpOrders DEF Next, Steps, vars, tables

LEMMA PaidHasCheckoutStep ==
    ASSUME LedgerInv, [Next]_vars
    PROVE  PaidHasCheckout'
<1>1. CASE UNCHANGED credit_orders
  BY <1>1 DEF LedgerInv, PaidHasCheckout
<1>2. ASSUME NEW b \in Backends, MarksPaid(b) PROVE PaidHasCheckout'
  BY <1>2, NoneIsNobody DEF MarksPaid, OrderCalls, LedgerInv, TypeOK, PaidHasCheckout
<1> QED
  BY <1>1, <1>2, OrderStep, SignUpOrders DEF Next, Steps, vars, tables

(* Posting a row adds that row and no other. *)
LEMMA RowsAfterPost ==
    ASSUME TypeOK, NEW b \in Backends, call[b].user \in Users,
           NEW type, NEW amount, NEW ref, Post(b, type, amount, ref),
           NEW t, NEW r, HasRow(t, r)'
    PROVE  HasRow(t, r) \/ (t = type /\ r = ref)
<1> DEFINE w == call[b].user
           old == credit_ledger[w]
           row == [type |-> type, amount |-> amount,
                   balance_after |-> v_balance[b] + amount,
                   reference_id |-> ref, reason |-> call[b].op]
<1>1. credit_ledger' = [credit_ledger EXCEPT ![w] = Append(old, row)]
  BY DEF Post
<1>2. old \in Seq(LedgerRows)
  BY DEF TypeOK
<1>a. PICK u \in Users : \E i \in DOMAIN credit_ledger'[u] :
         credit_ledger'[u][i].type = t /\ credit_ledger'[u][i].reference_id = r
  BY DEF HasRow
<1>3. PICK i \in DOMAIN credit_ledger'[u] :
         credit_ledger'[u][i].type = t /\ credit_ledger'[u][i].reference_id = r
  BY <1>a
<1>4. CASE u # w
  BY <1>1, <1>3, <1>4 DEF HasRow, TypeOK
<1>5. CASE u = w
  <2>1. credit_ledger'[u] = Append(old, row)
    BY <1>1, <1>5 DEF TypeOK
  <2>2. i \in 1..(Len(old) + 1)
    <3> HIDE DEF old, row
    <3> QED
      BY <1>2, <1>3, <2>1
  <2>3. CASE i \in 1..Len(old)
    <3>1. Append(old, row)[i] = old[i] /\ i \in DOMAIN old
      <4> HIDE DEF old, row
      <4> QED
        BY <1>2, <2>3
    <3> QED
      BY <1>3, <2>1, <3>1 DEF HasRow
  <2>4. CASE i = Len(old) + 1
    <3>1. Append(old, row)[i] = row
      <4> HIDE DEF old, row
      <4> QED
        BY <1>2, <2>4
    <3> QED
      BY <1>3, <2>1, <3>1
  <2>5. Len(old) \in Nat
    BY <1>2
  <2> QED
    BY <2>2, <2>3, <2>4, <2>5
<1> QED
  BY <1>4, <1>5

(* A topup row appears only when complete_credit_order pays an order under *)
(* its session.                                                            *)
LEMMA NewTopup ==
    ASSUME LedgerInv, [Next]_vars, NEW s \in Checkouts,
           HasRow("topup", <<"stripe_checkout", s>>)',
           ~HasRow("topup", <<"stripe_checkout", s>>)
    PROVE  \E b \in Backends : CompleteCreditOrder(b) /\ call[b].checkout = s
<1> DEFINE ref == <<"stripe_checkout", s>>
<1>1. CASE UNCHANGED credit_ledger
  BY <1>1 DEF HasRow
<1>2. ASSUME NEW w \in Users, SignUp(w) PROVE FALSE
  <2> DEFINE row == [type |-> "grant", amount |-> SignupBonus,
                     balance_after |-> SignupBonus,
                     reference_id |-> <<"signup_bonus", w>>,
                     reason |-> "signup_bonus"]
  <2>1. credit_ledger' = [credit_ledger EXCEPT ![w] = Append(<<>>, row)]
    BY <1>2 DEF SignUp, LedgerInv, LedgerExplainsBalance
  <2>a. PICK u \in Users : \E i \in DOMAIN credit_ledger'[u] :
          credit_ledger'[u][i].type = "topup" /\ credit_ledger'[u][i].reference_id = ref
    BY DEF HasRow
  <2>2. PICK i \in DOMAIN credit_ledger'[u] :
          credit_ledger'[u][i].type = "topup" /\ credit_ledger'[u][i].reference_id = ref
    BY <2>a
  <2>3. CASE u # w
    BY <2>1, <2>2, <2>3 DEF HasRow, LedgerInv, TypeOK
  <2>4. CASE u = w
    <3>1. credit_ledger'[u] = Append(<<>>, row)
      BY <2>1, <2>4 DEF LedgerInv, TypeOK
    <3>2. i = 1 /\ credit_ledger'[u][1] = row
      BY <2>2, <3>1
    <3> QED
      BY <2>2, <3>2
  <2> QED
    BY <2>3, <2>4
<1>3. ASSUME NEW b \in Backends, Commit(b)
      PROVE  CompleteCreditOrder(b) /\ call[b].checkout = s
  <2>1. pc[b] # "idle"
    BY <1>3 DEF Commit, DebitCredits, RecordUsageAndDebit, InsertUsageLog,
       CompleteCreditOrder, AdminAdjustCredits, OpsLedgerAdjustment, Reject, At
  <2>2. call[b].user \in Users
    BY <2>1, BusyRunsCall, CallArguments DEF LedgerInv
  <2>3. ASSUME NEW type, NEW amount, NEW r,
             Post(b, type, amount, r)
        PROVE  type = "topup" /\ r = ref
    BY <2>2, <2>3, RowsAfterPost DEF LedgerInv
  <2>4. CASE DebitCredits(b)
    BY <2>3, <2>4 DEF DebitCredits
  <2>5. CASE RecordUsageAndDebit(b)
    BY <1>1, <2>3, <2>5 DEF RecordUsageAndDebit, HasRow
  <2>6. CASE AdminAdjustCredits(b)
    BY <1>1, <2>3, <2>6 DEF AdminAdjustCredits, HasRow
  <2>7. CASE OpsLedgerAdjustment(b)
    BY <2>3, <2>7 DEF OpsLedgerAdjustment
  <2>8. CASE InsertUsageLog(b) \/ Reject(b)
    BY <2>8 DEF InsertUsageLog, Reject, tables, HasRow
  <2>9. CASE CompleteCreditOrder(b)
    <3>1. CASE HasRow("topup", <<"stripe_checkout", call[b].checkout>>)
      BY <2>9, <3>1 DEF CompleteCreditOrder, HasRow
    <3>2. CASE ~HasRow("topup", <<"stripe_checkout", call[b].checkout>>)
      BY <2>3, <2>9, <3>2 DEF CompleteCreditOrder
    <3> QED
      BY <2>9, <3>1, <3>2
  <2> QED
    BY <1>3, <2>4, <2>5, <2>6, <2>7, <2>8, <2>9 DEF Commit
<1>4. ASSUME NEW b \in Backends, Steps(b), ~Commit(b) PROVE FALSE
  BY <1>1, <1>4 DEF Steps, Run, Acquire, Begin, Disconnect, LockOrder, LockAdminKey,
     LockProfile, LookupMiss, LookupHit, RefuseMismatch, ProfileNotFound, tables, HasRow
<1> QED
  BY <1>1, <1>2, <1>3, <1>4 DEF Next, Steps, vars, tables

LEMMA TopupStep ==
    ASSUME LedgerInv, [Next]_vars
    PROVE  TopupHasPaidOrder'
<1> SUFFICES ASSUME NEW s \in Checkouts, HasRow("topup", <<"stripe_checkout", s>>)'
             PROVE  \E o \in Orders : /\ credit_orders'[o].status = "paid"
                                      /\ credit_orders'[o].checkout = s
  BY DEF TopupHasPaidOrder
<1>1. CASE HasRow("topup", <<"stripe_checkout", s>>)
  <2>1. PICK o \in Orders : /\ credit_orders[o].status = "paid"
                            /\ credit_orders[o].checkout = s
    BY <1>1 DEF LedgerInv, TopupHasPaidOrder
  <2> QED
    BY <2>1, PaidStaysPaid
<1>2. CASE ~HasRow("topup", <<"stripe_checkout", s>>)
  <2>1. PICK b \in Backends : CompleteCreditOrder(b) /\ call[b].checkout = s
    BY <1>2, NewTopup
  <2>2. call[b] \in OrderCalls
    BY <2>1, BusyRunsCall, CallArguments DEF CompleteCreditOrder, At, LedgerInv
  <2> QED
    BY <2>1, <2>2 DEF CompleteCreditOrder, OrderCalls, LedgerInv, TypeOK
<1> QED
  BY <1>1, <1>2

-----------------------------------------------------------------------------
LEMMA LedgerInvInit == Init => LedgerInv
<1> SUFFICES ASSUME Init PROVE LedgerInv
  OBVIOUS
<1>1. TypeOK
  BY TypeInit
<1>2. CallsInPlace /\ HeldBalanceIsCurrent /\ HeldOrderIsPending
  BY DEF Init, CallsInPlace, HeldBalanceIsCurrent, HeldOrderIsPending
<1>3. TopupHasPaidOrder /\ PaidHasCheckout
  BY DEF Init, TopupHasPaidOrder, HasRow, PaidHasCheckout
<1>4. LedgerExplainsBalance /\ NeverOverdrawn
  BY DEF Init, LedgerExplainsBalance, NeverOverdrawn
<1> QED
  BY <1>1, <1>2, <1>3, <1>4 DEF LedgerInv

(* LedgerInv is inductive: type correctness, what each backend holds, and  *)
(* the relation of balances, ledgers and orders.                           *)
THEOREM LedgerInvariant == Spec => []LedgerInv
<1>1. Init => LedgerInv
  BY LedgerInvInit
<1>2. LedgerInv /\ [Next]_vars => LedgerInv'
  <2> SUFFICES ASSUME LedgerInv, [Next]_vars PROVE LedgerInv'
    OBVIOUS
  <2>1. TypeOK' /\ CallsInPlace'
    BY TypeStep, PlaceStep DEF LedgerInv
  <2>2. HeldBalanceIsCurrent' /\ HeldOrderIsPending'
    BY HeldBalanceStep, HeldOrderStep
  <2>3. TopupHasPaidOrder' /\ PaidHasCheckout'
    BY TopupStep, PaidHasCheckoutStep
  <2>4. LedgerExplainsBalance' /\ NeverOverdrawn'
    BY ExplainsStep
  <2> QED
    BY <2>1, <2>2, <2>3, <2>4 DEF LedgerInv
<1> QED
  BY <1>1, <1>2, PTL DEF Spec

(* Every balance is the last balance_after of an unbroken chain of ledger  *)
(* rows, in every reachable state of every instance.                       *)
THEOREM LedgerExplainsBalanceAlways == Spec => []LedgerExplainsBalance
<1>1. LedgerInv => LedgerExplainsBalance
  BY DEF LedgerInv
<1> QED
  BY <1>1, LedgerInvariant, PTL

(* No balance is or ever was negative. *)
THEOREM NeverOverdrawnAlways == Spec => []NeverOverdrawn
<1>1. LedgerInv => NeverOverdrawn
  BY DEF LedgerInv
<1> QED
  BY <1>1, LedgerInvariant, PTL

(* The row of a paid order never changes again. *)
THEOREM PaidIsFinalAlways == Spec => PaidIsFinal
<1>1. LedgerInv /\ [Next]_vars =>
        [\A o \in Orders : credit_orders[o].status = "paid" =>
            credit_orders'[o] = credit_orders[o]]_credit_orders
  BY PaidStaysPaid
<1> QED
  BY <1>1, LedgerInvariant, PTL DEF Spec, PaidIsFinal

-----------------------------------------------------------------------------
(* A step adds at most one row to the ledger, at the end of one user's.    *)

Adds(w, row) ==
    /\ \A u \in Users : \A i \in DOMAIN credit_ledger[u] :
          i \in DOMAIN credit_ledger'[u] /\ credit_ledger'[u][i] = credit_ledger[u][i]
    /\ \A u \in Users : \A i \in DOMAIN credit_ledger'[u] :
          \/ i \in DOMAIN credit_ledger[u]
          \/ u = w /\ i = Len(credit_ledger[w]) + 1
    /\ Len(credit_ledger[w]) + 1 \in DOMAIN credit_ledger'[w]
    /\ credit_ledger'[w][Len(credit_ledger[w]) + 1] = row

LEMMA AppendAdds ==
    ASSUME TypeOK, NEW w \in Users, NEW row,
           credit_ledger' = [credit_ledger EXCEPT ![w] = Append(@, row)]
    PROVE  Adds(w, row)
<1> DEFINE old == credit_ledger[w]
<1>1. old \in Seq(LedgerRows)
  BY DEF TypeOK
<1>2. /\ credit_ledger'[w] = Append(old, row)
      /\ \A u \in Users \ {w} : credit_ledger'[u] = credit_ledger[u]
  BY DEF TypeOK
<1>3. /\ Len(old) \in Nat
      /\ DOMAIN old = 1 .. Len(old)
      /\ DOMAIN Append(old, row) = 1 .. (Len(old) + 1)
      /\ \A i \in 1 .. Len(old) : Append(old, row)[i] = old[i]
      /\ Append(old, row)[Len(old) + 1] = row
  <2> HIDE DEF old
  <2> QED
    BY <1>1
<1> HIDE DEF old
<1>4. /\ \A i \in DOMAIN old : i \in DOMAIN Append(old, row)
                               /\ Append(old, row)[i] = old[i]
      /\ \A i \in DOMAIN Append(old, row) : i \in DOMAIN old \/ i = Len(old) + 1
      /\ Len(old) + 1 \in DOMAIN Append(old, row)
  BY <1>3
<1>5. Append(old, row)[Len(old) + 1] = row
  BY <1>3
<1>6. /\ \A u \in Users : \A i \in DOMAIN credit_ledger[u] :
            i \in DOMAIN credit_ledger'[u] /\ credit_ledger'[u][i] = credit_ledger[u][i]
      /\ \A u \in Users : \A i \in DOMAIN credit_ledger'[u] :
            i \in DOMAIN credit_ledger[u] \/ (u = w /\ i = Len(credit_ledger[w]) + 1)
  BY <1>2, <1>4, Zenon DEF old
<1> QED
  BY <1>2, <1>4, <1>5, <1>6 DEF Adds, old

PostedRow(b, type, amount, ref) ==
    [type |-> type, amount |-> amount, balance_after |-> v_balance[b] + amount,
     reference_id |-> ref, reason |-> call[b].op]

LEMMA PostAdds ==
    ASSUME TypeOK, NEW b \in Backends, call[b].user \in Users,
           NEW type, NEW amount, NEW ref, Post(b, type, amount, ref)
    PROVE  Adds(call[b].user, PostedRow(b, type, amount, ref))
<1>1. credit_ledger' = [credit_ledger EXCEPT ![call[b].user] =
                            Append(@, PostedRow(b, type, amount, ref))]
  BY DEF Post, PostedRow
<1> QED
  BY <1>1, AppendAdds

BonusRow(u) ==
    [type |-> "grant", amount |-> SignupBonus, balance_after |-> SignupBonus,
     reference_id |-> <<"signup_bonus", u>>, reason |-> "signup_bonus"]

LEMMA SignUpAdds ==
    ASSUME TypeOK, NEW u \in Users, SignUp(u) PROVE Adds(u, BonusRow(u))
<1>1. credit_ledger' = [credit_ledger EXCEPT ![u] = Append(@, BonusRow(u))]
  BY DEF SignUp, BonusRow
<1> QED
  BY <1>1, AppendAdds

(* The procedures by what they write, and everything else.                 *)
Writes(b) == DebitCredits(b) \/ RecordUsageAndDebit(b) \/ InsertUsageLog(b)
             \/ CompleteCreditOrder(b) \/ AdminAdjustCredits(b) \/ OpsLedgerAdjustment(b)

LEMMA WriterIsCall ==
    ASSUME LedgerInv, NEW b \in Backends, Writes(b)
    PROVE  pc[b] = "commit" /\ call[b] \in Calls /\ call[b].user \in Users
<1>1. pc[b] = "commit"
  BY DEF Writes, DebitCredits, RecordUsageAndDebit, InsertUsageLog, CompleteCreditOrder,
     AdminAdjustCredits, OpsLedgerAdjustment, At
<1>2. call[b] \in Calls
  BY <1>1, BusyRunsCall DEF LedgerInv
<1> QED
  BY <1>1, <1>2, CallArguments

LEMMA StepWrites ==
    ASSUME LedgerInv, [Next]_vars
    PROVE  \/ UNCHANGED <<credit_ledger, usage_logs>>
           \/ \E u \in Users : SignUp(u)
           \/ \E b \in Backends : Writes(b)
<1>1. ASSUME NEW b \in Backends, Steps(b), ~Writes(b)
      PROVE  UNCHANGED <<credit_ledger, usage_logs>>
  BY <1>1 DEF Writes, Commit, Steps, Run, Acquire, Begin, Disconnect, LockOrder,
     LockAdminKey, LockProfile, LookupMiss, LookupHit, RefuseMismatch, ProfileNotFound,
     Reject, tables
<1>2. CASE UNCHANGED vars
  BY <1>2 DEF vars, tables
<1> QED
  BY <1>1, <1>2 DEF Next, Steps

-----------------------------------------------------------------------------
(* Charges and usage rows, one to one.                                     *)

Backed(row) ==
    /\ row.debit_row \in DOMAIN credit_ledger[row.user]
    /\ credit_ledger[row.user][row.debit_row].type = "debit"
    /\ credit_ledger[row.user][row.debit_row].reference_id = <<"request", row.request_id>>
    /\ credit_ledger[row.user][row.debit_row].amount = -row.credits_charged

Charged == {row \in usage_logs : row.billing_status = "charged"}

LoggedAt(u, i) == \E row \in Charged : row.user = u /\ row.debit_row = i

ChargesParts ==
    /\ \A row \in Charged : Backed(row)
    /\ \A u \in Users : \A i \in DOMAIN credit_ledger[u] :
          credit_ledger[u][i].reason = "record_usage_and_debit" => LoggedAt(u, i)
    /\ \A r1, r2 \in Charged : r1.key = r2.key /\ r1.key # None => r1 = r2

LEMMA ChargesSplit == ChargesMatchUsage <=> ChargesParts
BY DEF ChargesMatchUsage, ChargesParts, Charged, Backed, LoggedAt

(* A row of another procedure leaves the relation as it is.                *)
LEMMA OtherRow ==
    ASSUME LedgerInv, ChargesParts, UNCHANGED usage_logs,
           NEW w \in Users, NEW row, row.reason # "record_usage_and_debit", Adds(w, row)
    PROVE  ChargesParts'
<1>1. Charged' = Charged /\ Charged \subseteq UsageRows
  BY DEF Charged, LedgerInv, TypeOK
<1>2. ASSUME NEW r \in Charged PROVE Backed(r)'
  <2>1. r.user \in Users /\ Backed(r)
    BY <1>1 DEF ChargesParts, UsageRows
  <2> QED
    BY <2>1 DEF Backed, Adds
<1>3. ASSUME NEW u \in Users, NEW i \in DOMAIN credit_ledger'[u],
             credit_ledger'[u][i].reason = "record_usage_and_debit"
      PROVE  LoggedAt(u, i)
  <2>1. i \in DOMAIN credit_ledger[u] /\ credit_ledger'[u][i] = credit_ledger[u][i]
    BY <1>3 DEF Adds
  <2> QED
    BY <1>3, <2>1 DEF ChargesParts
<1>4. \A u, i : LoggedAt(u, i)' <=> LoggedAt(u, i)
  BY <1>1 DEF LoggedAt
<1>5. \A r \in Charged' : Backed(r)'
  BY <1>1, <1>2
<1>6. \A u \in Users : \A i \in DOMAIN credit_ledger'[u] :
         credit_ledger'[u][i].reason = "record_usage_and_debit" => LoggedAt(u, i)'
  BY <1>3, <1>4
<1> QED
  BY <1>1, <1>5, <1>6 DEF ChargesParts

(* So does a usage row that charges nothing.                               *)
LEMMA FreeRow ==
    ASSUME ChargesParts, UNCHANGED credit_ledger,
           NEW x, usage_logs' = usage_logs \cup {x}, x.billing_status # "charged"
    PROVE  ChargesParts'
<1>1. Charged' = Charged
  BY DEF Charged
<1> QED
  BY <1>1 DEF ChargesParts, Backed, LoggedAt

(* A charge adds a usage row and its debit row, under a key that has none. *)
LEMMA ChargeIsLogged ==
    ASSUME LedgerInv, ChargesParts, NEW b \in Backends,
           RecordUsageAndDebit(b), call[b].amount > 0
    PROVE  ChargesParts'
<1> DEFINE c == call[b]
           n == Len(credit_ledger[c.user]) + 1
           debit == PostedRow(b, "debit", -c.amount, <<"request", c.request>>)
<1>0. PICK x : x = [request_id |-> c.request, user |-> c.user, key |-> c.key,
                    credits_charged |-> c.amount, billing_status |-> "charged",
                    debit_row |-> n]
  OBVIOUS
<1>1. c.user \in Users /\ c.op = "record_usage_and_debit" /\ ~ChargedUnder(c.key)
  BY WriterIsCall DEF Writes, RecordUsageAndDebit, At, CanRecordUsage
<1>2. Adds(c.user, debit)
  BY <1>1, PostAdds DEF RecordUsageAndDebit, LedgerInv
<1>3. /\ usage_logs' = usage_logs \cup {x}
      /\ x.billing_status = "charged"
  BY <1>0 DEF RecordUsageAndDebit
<1>4. /\ Charged' = Charged \cup {x}
      /\ Charged \subseteq UsageRows
  BY <1>3 DEF Charged, LedgerInv, TypeOK
<1>5. /\ debit.type = "debit" /\ debit.reference_id = <<"request", c.request>>
      /\ debit.amount = -c.amount
  BY DEF PostedRow
<1>6. Backed(x)'
  <2>1. n \in DOMAIN credit_ledger'[c.user] /\ credit_ledger'[c.user][n] = debit
    BY <1>2 DEF Adds
  <2> HIDE DEF debit, n
  <2>2. /\ x.user = c.user /\ x.debit_row = n /\ x.request_id = c.request
        /\ x.credits_charged = c.amount
    BY <1>0 DEF n
  <2> HIDE DEF c
  <2> QED
    BY <1>5, <2>1, <2>2 DEF Backed
<1>7. ASSUME NEW r \in Charged PROVE Backed(r)'
  <2>1. r.user \in Users /\ Backed(r)
    BY <1>4 DEF ChargesParts, UsageRows
  <2> QED
    BY <1>2, <2>1 DEF Backed, Adds
<1>8. \A r \in Charged' : Backed(r)'
  BY <1>4, <1>6, <1>7
<1>9. ASSUME NEW u \in Users, NEW i \in DOMAIN credit_ledger'[u],
             credit_ledger'[u][i].reason = "record_usage_and_debit"
      PROVE  LoggedAt(u, i)'
  <2>1. CASE i \in DOMAIN credit_ledger[u]
    <3>1. credit_ledger'[u][i] = credit_ledger[u][i]
      BY <1>2, <2>1 DEF Adds
    <3>2. LoggedAt(u, i)
      BY <1>9, <2>1, <3>1 DEF ChargesParts
    <3> QED
      BY <1>4, <3>2 DEF LoggedAt
  <2>2. CASE u = c.user /\ i = n
    <3>1. x \in Charged' /\ x.user = u /\ x.debit_row = i
      BY <1>0, <1>4, <2>2
    <3> QED
      BY <3>1 DEF LoggedAt
  <2> QED
    BY <1>2, <2>1, <2>2 DEF Adds
<1>10. \A r \in Charged : r.key = c.key => c.key = None
  BY <1>1 DEF ChargedUnder, Charged
<1>11. \A r1, r2 \in Charged' : r1.key = r2.key /\ r1.key # None => r1 = r2
  <2>1. x.key = c.key
    BY <1>0
  <2> HIDE DEF c
  <2> QED
    BY <1>4, <1>10, <2>1 DEF ChargesParts
<1> QED
  BY <1>8, <1>9, <1>11 DEF ChargesParts

LEMMA ChargesStep ==
    ASSUME LedgerInv, ChargesParts, [Next]_vars
    PROVE  ChargesParts'
<1>1. CASE UNCHANGED <<credit_ledger, usage_logs>>
  BY <1>1 DEF ChargesParts, Charged, Backed, LoggedAt
<1>2. ASSUME NEW u \in Users, SignUp(u) PROVE ChargesParts'
  BY <1>2, SignUpAdds, OtherRow DEF SignUp, BonusRow, LedgerInv
<1>3. ASSUME NEW b \in Backends, Writes(b) PROVE ChargesParts'
  <2>1. call[b].user \in Users /\ TypeOK
    BY <1>3, WriterIsCall DEF LedgerInv
  <2>2. ASSUME NEW type, NEW amount, NEW ref, Post(b, type, amount, ref),
               call[b].op # "record_usage_and_debit", UNCHANGED usage_logs
        PROVE  ChargesParts'
    <3>1. PICK w, row : w = call[b].user /\ row = PostedRow(b, type, amount, ref)
      OBVIOUS
    <3>2. Adds(w, row) /\ w \in Users
      BY <2>1, <2>2, <3>1, PostAdds
    <3>3. row.reason # "record_usage_and_debit"
      BY <2>2, <3>1 DEF PostedRow
    <3> QED
      BY <2>2, <3>2, <3>3, OtherRow
  <2>3. CASE DebitCredits(b)
    BY <2>2, <2>3 DEF DebitCredits, At
  <2>4. CASE CompleteCreditOrder(b)
    <3>1. ~HasRow("topup", <<"stripe_checkout", call[b].checkout>>)
      BY <2>4, TopupIsNew
    <3> QED
      BY <2>2, <2>4, <3>1 DEF CompleteCreditOrder, At
  <2>5. CASE AdminAdjustCredits(b)
    <3>1. CASE CanAdjust(b)
      BY <2>2, <2>5, <3>1 DEF AdminAdjustCredits, At
    <3>2. CASE ~CanAdjust(b)
      BY <1>1, <2>5, <3>2 DEF AdminAdjustCredits
    <3> QED
      BY <3>1, <3>2
  <2>6. CASE OpsLedgerAdjustment(b)
    BY <2>2, <2>6 DEF OpsLedgerAdjustment, At
  <2>7. CASE InsertUsageLog(b)
    <3>1. PICK x : x = [request_id |-> call[b].request, user |-> call[b].user, key |-> None,
                        credits_charged |-> 0, billing_status |-> "not_billable",
                        debit_row |-> 0]
      OBVIOUS
    <3>2. /\ usage_logs' = usage_logs \cup {x} /\ x.billing_status # "charged"
          /\ UNCHANGED credit_ledger
      BY <2>7, <3>1 DEF InsertUsageLog
    <3> QED
      BY <3>2, FreeRow
  <2>8. CASE RecordUsageAndDebit(b) /\ call[b].amount > 0
    BY <2>8, ChargeIsLogged
  <2>9. CASE RecordUsageAndDebit(b) /\ ~(call[b].amount > 0)
    <3>1. PICK x : x = [request_id |-> call[b].request, user |-> call[b].user,
                        key |-> call[b].key, credits_charged |-> call[b].amount,
                        billing_status |-> "not_billable", debit_row |-> 0]
      OBVIOUS
    <3>2. /\ usage_logs' = usage_logs \cup {x} /\ x.billing_status # "charged"
          /\ UNCHANGED credit_ledger
      BY <2>9, <3>1 DEF RecordUsageAndDebit
    <3> QED
      BY <3>2, FreeRow
  <2> QED
    BY <1>3, <2>3, <2>4, <2>5, <2>6, <2>7, <2>8, <2>9 DEF Writes
<1> QED
  BY <1>1, <1>2, <1>3, StepWrites

(* Debits and usage rows are written together or not at all, and an        *)
(* idempotency key is charged once, however many calls race past its       *)
(* lookup.                                                                 *)
THEOREM ChargesMatchUsageAlways == Spec => []ChargesMatchUsage
<1>1. Init => ChargesParts
  BY DEF Init, ChargesParts, Charged
<1>2. LedgerInv /\ ChargesParts /\ [Next]_vars => ChargesParts'
  BY ChargesStep
<1>3. ChargesParts => ChargesMatchUsage
  BY ChargesSplit
<1> QED
  BY <1>1, <1>2, <1>3, LedgerInvariant, PTL DEF Spec

-----------------------------------------------------------------------------
(* Paid orders and topups, one to one.                                     *)

TopupAt(u, i, s) ==
    /\ i \in DOMAIN credit_ledger[u]
    /\ credit_ledger[u][i].type = "topup"
    /\ credit_ledger[u][i].reference_id = <<"stripe_checkout", s>>

Credited(o) ==
    \E i : /\ TopupAt(OrderUser[o], i, credit_orders[o].checkout)
           /\ credit_ledger[OrderUser[o]][i].amount = OrderCredits[o]
           /\ \A j : TopupAt(OrderUser[o], j, credit_orders[o].checkout) => j = i

OrderedAt(u, i) ==
    \E o \in Orders : /\ credit_orders[o].status = "paid" /\ OrderUser[o] = u
                      /\ TopupAt(u, i, credit_orders[o].checkout)

PaidParts ==
    /\ \A o \in Orders : credit_orders[o].status = "paid" => Credited(o)
    /\ \A u \in Users : \A i \in DOMAIN credit_ledger[u] :
          credit_ledger[u][i].type = "topup" => OrderedAt(u, i)

LEMMA PaidSplit == PaidParts => PaidOrdersAreCredited
<1> SUFFICES ASSUME PaidParts PROVE PaidOrdersAreCredited
  OBVIOUS
<1> DEFINE Topups(u) == {i \in DOMAIN credit_ledger[u] : credit_ledger[u][i].type = "topup"}
           TopupOf(o, i) == credit_ledger[OrderUser[o]][i].reference_id =
                                <<"stripe_checkout", credit_orders[o].checkout>>
<1>1. ASSUME NEW o \in Orders, credit_orders[o].status = "paid"
      PROVE  \E i \in Topups(OrderUser[o]) :
                /\ \A j \in Topups(OrderUser[o]) : TopupOf(o, j) <=> i = j
                /\ credit_ledger[OrderUser[o]][i].amount = OrderCredits[o]
  <2>1. PICK i : /\ TopupAt(OrderUser[o], i, credit_orders[o].checkout)
                 /\ credit_ledger[OrderUser[o]][i].amount = OrderCredits[o]
                 /\ \A j : TopupAt(OrderUser[o], j, credit_orders[o].checkout) => j = i
    BY <1>1 DEF PaidParts, Credited
  <2>2. i \in Topups(OrderUser[o])
    BY <2>1 DEF TopupAt
  <2>3. \A j \in Topups(OrderUser[o]) : TopupOf(o, j) <=> i = j
    BY <2>1 DEF TopupAt
  <2> QED
    BY <2>1, <2>2, <2>3
<1>2. ASSUME NEW u \in Users, NEW i \in Topups(u)
      PROVE  \E o \in Orders : /\ credit_orders[o].status = "paid"
                               /\ OrderUser[o] = u /\ TopupOf(o, i)
  <2>1. OrderedAt(u, i)
    BY <1>2 DEF PaidParts
  <2> QED
    BY <2>1 DEF OrderedAt, TopupAt
<1> DEFINE paid == {o \in Orders : credit_orders[o].status = "paid"}
<1>3. \A o \in paid :
         \E i \in Topups(OrderUser[o]) :
            /\ \A j \in Topups(OrderUser[o]) : TopupOf(o, j) <=> i = j
            /\ credit_ledger[OrderUser[o]][i].amount = OrderCredits[o]
  BY <1>1
<1>4. \A u \in Users : \A i \in Topups(u) :
         \E o \in paid : OrderUser[o] = u /\ TopupOf(o, i)
  <2> HIDE DEF Topups, TopupOf
  <2> QED
    BY <1>2, Zenon
<1> QED
  BY <1>3, <1>4, Zenon DEF PaidOrdersAreCredited

(* A replay finds its order paid under the same session already, or, if    *)
(* another order has the session, writes nothing: only a completion        *)
(* changes an order.                                                       *)
LEMMA ReplayKeepsOrders ==
    ASSUME LedgerInv, NEW b \in Backends, LookupHit(b)
    PROVE  UNCHANGED credit_orders
<1> DEFINE c == call[b]
<1>1. CASE c.op = "complete_credit_order" /\ ~CheckoutOfAnother(c.order, c.checkout)
  <2>1. pc[b] = "lookup" /\ ~Mismatch(c) /\ AlreadyApplied(c)
    BY DEF LookupHit
  <2>2. c \in OrderCalls
    BY <1>1, <2>1, BusyRunsCall, CallArguments DEF LedgerInv
  <2>3. /\ c.order \in Orders /\ c.checkout \in Checkouts
        /\ credit_orders[c.order] \in OrderRows
    BY <2>2 DEF OrderCalls, LedgerInv, TypeOK
  <2>4. credit_orders[c.order].checkout \in {None, c.checkout}
    BY <1>1, <2>1 DEF Mismatch
  <2>5. credit_orders[c.order].status = "paid"
    <3>1. ASSUME HasRow("topup", <<"stripe_checkout", c.checkout>>)
          PROVE  credit_orders[c.order].status = "paid"
      <4>1. PICK o \in Orders : /\ credit_orders[o].status = "paid"
                                /\ credit_orders[o].checkout = c.checkout
        BY <2>3, <3>1 DEF LedgerInv, TopupHasPaidOrder
      <4>2. o = c.order
        BY <1>1, <4>1 DEF CheckoutOfAnother
      <4> QED
        BY <4>1, <4>2
    <3> QED
      BY <1>1, <2>1, <3>1 DEF AlreadyApplied
  <2>6. credit_orders[c.order].checkout = c.checkout
    BY <2>3, <2>4, <2>5 DEF LedgerInv, PaidHasCheckout
  <2>7. credit_orders[c.order] = [status |-> "paid", checkout |-> c.checkout]
    BY <2>3, <2>5, <2>6 DEF OrderRows
  <2>8. credit_orders' = [credit_orders EXCEPT ![c.order] = credit_orders[c.order]]
    BY <1>1, <2>7 DEF LookupHit
  <2> QED
    BY <2>8 DEF LedgerInv, TypeOK
<1>2. CASE ~(c.op = "complete_credit_order" /\ ~CheckoutOfAnother(c.order, c.checkout))
  BY <1>2 DEF LookupHit
<1> QED
  BY <1>1, <1>2

LEMMA OrdersStep ==
    ASSUME LedgerInv, [Next]_vars
    PROVE  \/ UNCHANGED credit_orders
           \/ \E b \in Backends : CompleteCreditOrder(b)
<1>1. ASSUME NEW b \in Backends, Steps(b), ~CompleteCreditOrder(b)
      PROVE  UNCHANGED credit_orders
  <2>1. CASE LookupHit(b)
    BY <2>1, ReplayKeepsOrders
  <2>2. CASE ~LookupHit(b)
    BY <1>1, <2>2 DEF Steps, Run, Acquire, Begin, Disconnect, LockOrder, LockAdminKey,
       LockProfile, LookupMiss, RefuseMismatch, ProfileNotFound, Commit,
       DebitCredits, RecordUsageAndDebit, InsertUsageLog, AdminAdjustCredits,
       OpsLedgerAdjustment, Reject, tables
  <2> QED
    BY <2>1, <2>2
<1>2. CASE UNCHANGED vars
  BY <1>2 DEF vars, tables
<1> QED
  BY <1>1, <1>2, SignUpOrders DEF Next, Steps

(* A row that is no topup leaves orders and topups as they are.            *)
LEMMA NoTopupRow ==
    ASSUME LedgerInv, PaidParts, UNCHANGED credit_orders,
           NEW w \in Users, NEW row, row.type # "topup", Adds(w, row)
    PROVE  PaidParts'
<1>1. \A u \in Users : \A i : \A s : TopupAt(u, i, s)' <=> TopupAt(u, i, s)
  BY DEF TopupAt, Adds
<1>2. ASSUME NEW o \in Orders, credit_orders'[o].status = "paid" PROVE Credited(o)'
  <2>1. OrderUser[o] \in Users /\ Credited(o)
    BY <1>2, OrdersAssumption DEF PaidParts
  <2>2. PICK i : /\ TopupAt(OrderUser[o], i, credit_orders[o].checkout)
                 /\ credit_ledger[OrderUser[o]][i].amount = OrderCredits[o]
                 /\ \A j : TopupAt(OrderUser[o], j, credit_orders[o].checkout) => j = i
    BY <2>1 DEF Credited
  <2>3. credit_ledger'[OrderUser[o]][i] = credit_ledger[OrderUser[o]][i]
    BY <2>1, <2>2 DEF TopupAt, Adds
  <2>4. \A j : TopupAt(OrderUser[o], j, credit_orders[o].checkout)'
               <=> TopupAt(OrderUser[o], j, credit_orders[o].checkout)
    <3>1. PICK s : s = credit_orders[o].checkout
      OBVIOUS
    <3>2. credit_orders'[o].checkout = s
      BY <3>1
    <3>3. \A j : TopupAt(OrderUser[o], j, s)' <=> TopupAt(OrderUser[o], j, s)
      BY <1>1, <2>1
    <3> QED
      BY <3>1, <3>2, <3>3, Zenon DEF TopupAt
  <2> QED
    BY <2>2, <2>3, <2>4 DEF Credited
<1>3. ASSUME NEW u \in Users, NEW i \in DOMAIN credit_ledger'[u],
             credit_ledger'[u][i].type = "topup"
      PROVE  OrderedAt(u, i)'
  <2>1. i \in DOMAIN credit_ledger[u] /\ credit_ledger[u][i].type = "topup"
    BY <1>3 DEF Adds
  <2>2. PICK o \in Orders : /\ credit_orders[o].status = "paid" /\ OrderUser[o] = u
                            /\ TopupAt(u, i, credit_orders[o].checkout)
    BY <2>1 DEF PaidParts, OrderedAt
  <2>3. TopupAt(u, i, credit_orders[o].checkout)'
    BY <1>1, <2>2 DEF TopupAt
  <2> QED
    BY <2>2, <2>3 DEF OrderedAt
<1> QED
  BY <1>2, <1>3 DEF PaidParts

(* A topup row is the one topup that adding it adds. *)
LEMMA AddedTopup ==
    ASSUME TypeOK, NEW w \in Users, NEW row, Adds(w, row), row.type = "topup",
           NEW s, row.reference_id = <<"stripe_checkout", s>>
    PROVE  \A u \in Users : \A i : \A t :
              TopupAt(u, i, t)' <=>
                 (TopupAt(u, i, t) \/ (u = w /\ i = Len(credit_ledger[w]) + 1 /\ t = s))
<1>1. PICK n : n = Len(credit_ledger[w]) + 1
  OBVIOUS
<1>2. ASSUME NEW u \in Users, NEW i, NEW t
      PROVE  TopupAt(u, i, t)' <=> (TopupAt(u, i, t) \/ (u = w /\ i = n /\ t = s))
  <2>1. CASE i \in DOMAIN credit_ledger[u]
    <3>1. i \in DOMAIN credit_ledger'[u] /\ credit_ledger'[u][i] = credit_ledger[u][i]
      BY <2>1 DEF Adds
    <3>2. ~(u = w /\ i = n)
      <4>1. credit_ledger[w] \in Seq(LedgerRows)
        BY DEF TypeOK
      <4>2. n \notin DOMAIN credit_ledger[w]
        BY <1>1, <4>1
      <4> QED
        BY <2>1, <4>2
    <3> QED
      BY <2>1, <3>1, <3>2 DEF TopupAt
  <2>2. CASE i \notin DOMAIN credit_ledger[u]
    <3>1. ~TopupAt(u, i, t)
      BY <2>2 DEF TopupAt
    <3>2. CASE u = w /\ i = n
      <4>1. i \in DOMAIN credit_ledger'[u] /\ credit_ledger'[u][i] = row
        BY <1>1, <3>2 DEF Adds
      <4>2. TopupAt(u, i, t)' <=> t = s
        BY <4>1 DEF TopupAt
      <4> QED
        BY <3>1, <3>2, <4>2
    <3>3. CASE ~(u = w /\ i = n)
      <4>1. i \notin DOMAIN credit_ledger'[u]
        BY <1>1, <2>2, <3>3 DEF Adds
      <4> QED
        BY <3>1, <3>3, <4>1 DEF TopupAt
    <3> QED
      BY <3>2, <3>3
  <2> QED
    BY <2>1, <2>2
<1> QED
  BY <1>1, <1>2

(* A completion adds the one topup of its order, under a session no other  *)
(* order has.                                                              *)
LEMMA CompletionCredits ==
    ASSUME LedgerInv, PaidParts, NEW b \in Backends, CompleteCreditOrder(b)
    PROVE  PaidParts'
<1>1. PICK o, s, w, n, row :
         /\ o = call[b].order /\ s = call[b].checkout /\ w = call[b].user
         /\ n = Len(credit_ledger[w]) + 1
         /\ row = PostedRow(b, "topup", OrderCredits[o], <<"stripe_checkout", s>>)
  OBVIOUS
<1>2. pc[b] = "commit" /\ call[b].op = "complete_credit_order" /\ ~CheckoutOfAnother(o, s)
  BY <1>1 DEF CompleteCreditOrder, At
<1>3. call[b] \in OrderCalls
  BY <1>2, BusyRunsCall, CallArguments DEF LedgerInv
<1>4. /\ o \in Orders /\ s \in Checkouts /\ w \in Users
      /\ OrderUser[o] = w /\ credit_orders[o].status = "pending"
  BY <1>1, <1>2, <1>3 DEF OrderCalls, LedgerInv, HeldOrderIsPending
<1>5. ~HasRow("topup", <<"stripe_checkout", s>>)
  BY <1>1, TopupIsNew
<1>6. Adds(w, row)
  BY <1>1, <1>4, <1>5, PostAdds DEF CompleteCreditOrder, LedgerInv
<1>7. /\ row.type = "topup" /\ row.amount = OrderCredits[o]
      /\ row.reference_id = <<"stripe_checkout", s>>
  BY <1>1 DEF PostedRow
<1>8. /\ credit_orders'[o].status = "paid" /\ credit_orders'[o].checkout = s
      /\ \A p \in Orders \ {o} : credit_orders'[p] = credit_orders[p]
                                 /\ credit_orders[p].checkout # s
  BY <1>1, <1>2, <1>4 DEF CompleteCreditOrder, CheckoutOfAnother, LedgerInv, TypeOK
<1>9. \A u \in Users : \A i : \A t :
         TopupAt(u, i, t)' <=> (TopupAt(u, i, t) \/ (u = w /\ i = n /\ t = s))
  BY <1>1, <1>4, <1>6, <1>7, AddedTopup DEF LedgerInv
<1>10. \A u \in Users : \A i : ~TopupAt(u, i, s)
  BY <1>5 DEF TopupAt, HasRow
<1>11. ASSUME NEW p \in Orders, credit_orders'[p].status = "paid" PROVE Credited(p)'
  <2>1. CASE p = o
    <3>1. \A j : TopupAt(w, j, s)' <=> j = n
      BY <1>4, <1>9, <1>10
    <3>2. credit_ledger'[w][n].amount = OrderCredits[o]
      BY <1>1, <1>6, <1>7 DEF Adds
    <3>3. credit_orders'[p].checkout = s /\ OrderUser[p] = w
      BY <1>4, <1>8, <2>1
    <3> QED
      BY <2>1, <3>1, <3>2, <3>3 DEF Credited, TopupAt
  <2>2. CASE p # o
    <3>1. credit_orders'[p] = credit_orders[p] /\ credit_orders[p].checkout # s
      BY <1>8, <2>2
    <3>2. OrderUser[p] \in Users /\ Credited(p)
      BY <1>11, <3>1, OrdersAssumption DEF PaidParts
    <3>3. PICK i : /\ TopupAt(OrderUser[p], i, credit_orders[p].checkout)
                   /\ credit_ledger[OrderUser[p]][i].amount = OrderCredits[p]
                   /\ \A j : TopupAt(OrderUser[p], j, credit_orders[p].checkout) => j = i
      BY <3>2 DEF Credited
    <3>4. credit_ledger'[OrderUser[p]][i] = credit_ledger[OrderUser[p]][i]
      BY <1>6, <3>2, <3>3 DEF TopupAt, Adds
    <3>5. PICK t : t = credit_orders[p].checkout
      OBVIOUS
    <3>6. \A j : TopupAt(OrderUser[p], j, t)' <=> TopupAt(OrderUser[p], j, t)
      BY <1>9, <3>1, <3>2, <3>5
    <3>7. credit_orders'[p].checkout = t
      BY <3>1, <3>5
    <3>8. PICK u : u = OrderUser[p]
      OBVIOUS
    <3>9. /\ TopupAt(u, i, t)' /\ credit_ledger'[u][i].amount = OrderCredits[p]
          /\ \A j : TopupAt(u, j, t)' => j = i
      BY <3>3, <3>4, <3>5, <3>6, <3>8
    <3> QED
      BY <3>7, <3>8, <3>9 DEF Credited, TopupAt
  <2> QED
    BY <2>1, <2>2
<1>12. ASSUME NEW u \in Users, NEW i \in DOMAIN credit_ledger'[u],
              credit_ledger'[u][i].type = "topup"
       PROVE  OrderedAt(u, i)'
  <2>1. CASE i \in DOMAIN credit_ledger[u]
    <3>1. credit_ledger[u][i].type = "topup"
      BY <1>6, <1>12, <2>1 DEF Adds
    <3>2. PICK p \in Orders : /\ credit_orders[p].status = "paid" /\ OrderUser[p] = u
                              /\ TopupAt(u, i, credit_orders[p].checkout)
      BY <2>1, <3>1 DEF PaidParts, OrderedAt
    <3>3. credit_orders'[p] = credit_orders[p]
      BY <1>4, <1>8, <3>2
    <3>4. PICK t : t = credit_orders[p].checkout
      OBVIOUS
    <3>5. TopupAt(u, i, t)'
      BY <1>9, <3>2, <3>4
    <3> QED
      BY <3>2, <3>3, <3>4, <3>5 DEF OrderedAt, TopupAt
  <2>2. CASE u = w /\ i = n
    <3>1. TopupAt(u, i, s)'
      BY <1>9, <2>2
    <3> QED
      BY <1>4, <1>8, <2>2, <3>1 DEF OrderedAt, TopupAt
  <2> QED
    BY <1>1, <1>6, <2>1, <2>2 DEF Adds
<1> QED
  BY <1>11, <1>12 DEF PaidParts

LEMMA PaidStep ==
    ASSUME LedgerInv, PaidParts, [Next]_vars
    PROVE  PaidParts'
<1>1. CASE \E b \in Backends : CompleteCreditOrder(b)
  BY <1>1, CompletionCredits
<1>2. CASE UNCHANGED credit_orders /\ ~ \E b \in Backends : CompleteCreditOrder(b)
  <2>1. CASE UNCHANGED credit_ledger
    <3>1. /\ \A o \in Orders : Credited(o)' <=> Credited(o)
          /\ \A u \in Users : \A i : OrderedAt(u, i)' <=> OrderedAt(u, i)
      BY <1>2, <2>1, Zenon DEF Credited, OrderedAt, TopupAt
    <3> QED
      BY <1>2, <2>1, <3>1 DEF PaidParts
  <2>2. ASSUME NEW u \in Users, SignUp(u) PROVE PaidParts'
    BY <1>2, <2>2, SignUpAdds, NoTopupRow DEF BonusRow, LedgerInv
  <2>3. ASSUME NEW b \in Backends, Writes(b) PROVE PaidParts'
    <3>1. call[b].user \in Users /\ TypeOK
      BY <2>3, WriterIsCall DEF LedgerInv
    <3>2. ASSUME NEW type, NEW amount, NEW ref, Post(b, type, amount, ref), type # "topup"
          PROVE  PaidParts'
      <4>1. PICK w, row : w = call[b].user /\ row = PostedRow(b, type, amount, ref)
        OBVIOUS
      <4>2. Adds(w, row) /\ w \in Users
        BY <3>1, <3>2, <4>1, PostAdds
      <4>3. row.type # "topup"
        BY <3>2, <4>1 DEF PostedRow
      <4> QED
        BY <1>2, <4>2, <4>3, NoTopupRow
    <3> QED
      BY <1>2, <2>1, <2>3, <3>2 DEF Writes, DebitCredits, RecordUsageAndDebit,
         InsertUsageLog, AdminAdjustCredits, OpsLedgerAdjustment
  <2> QED
    BY <2>1, <2>2, <2>3, StepWrites
<1> QED
  BY <1>1, <1>2, OrdersStep

(* However often and closely webhooks are repeated, and whichever orders   *)
(* race for a session, a paid order has one topup and a topup one paid     *)
(* order.                                                                  *)
THEOREM PaidOrdersAreCreditedAlways == Spec => []PaidOrdersAreCredited
<1>1. Init => PaidParts
  BY DEF Init, PaidParts
<1>2. LedgerInv /\ PaidParts /\ [Next]_vars => PaidParts'
  BY PaidStep
<1>3. PaidParts => PaidOrdersAreCredited
  BY PaidSplit
<1> QED
  BY <1>1, <1>2, <1>3, LedgerInvariant, PTL DEF Spec

-----------------------------------------------------------------------------
(* Admin keys and their outcomes.                                          *)

Naming(u, i) == {row \in admin_audit_logs : row.user = u /\ row.ledger_row = i}

AdminRow(u, i) == /\ i \in DOMAIN credit_ledger[u]
                  /\ credit_ledger[u][i].reason = "admin_adjust_credits"

(* A failed outcome names no row, which is what keeps the one outcome of   *)
(* an adjustment the only one that names it.                               *)
AdminParts ==
    /\ \A r1, r2 \in admin_audit_logs : r1.key = r2.key => r1 = r2
    /\ \A row \in admin_audit_logs :
          /\ row.status = "succeeded" => AdminRow(row.user, row.ledger_row)
          /\ row.status = "failed" => row.ledger_row = 0
    /\ \A u \in Users : \A i \in DOMAIN credit_ledger[u] :
          AdminRow(u, i) => \E x : Naming(u, i) = {x}

LEMMA AdminSplit == ASSUME LedgerInv, AdminParts PROVE AdminOutcomeOnce
<1>1. \A row \in admin_audit_logs : row.status = "succeeded" =>
          /\ row.ledger_row \in DOMAIN credit_ledger[row.user]
          /\ credit_ledger[row.user][row.ledger_row].reason = "admin_adjust_credits"
  BY DEF AdminParts, AdminRow
<1>2. ASSUME NEW u \in Users, NEW i \in DOMAIN credit_ledger[u],
             credit_ledger[u][i].reason = "admin_adjust_credits"
      PROVE  Cardinality({row \in admin_audit_logs : /\ row.user = u
                                                     /\ row.ledger_row = i}) = 1
  <2>1. PICK x : Naming(u, i) = {x}
    BY <1>2 DEF AdminParts, AdminRow
  <2>2. Cardinality({x}) = 1
    BY FS_Singleton
  <2>3. {row \in admin_audit_logs : /\ row.user = u /\ row.ledger_row = i} = {x}
    BY <2>1 DEF Naming
  <2> QED
    BY <2>2, <2>3
<1> QED
  BY <1>1, <1>2 DEF AdminOutcomeOnce, AdminParts

(* A row of another procedure, without an audit.                           *)
LEMMA OtherProcedure ==
    ASSUME LedgerInv, AdminParts, UNCHANGED admin_audit_logs,
           NEW w \in Users, NEW row, row.reason # "admin_adjust_credits", Adds(w, row)
    PROVE  AdminParts'
<1>1. \A u \in Users : \A i : AdminRow(u, i)' <=> AdminRow(u, i)
  BY DEF AdminRow, Adds
<1>2. \A x \in admin_audit_logs : x.user \in Users
  BY DEF LedgerInv, TypeOK, AuditRows
<1>3. \A u, i : Naming(u, i)' = Naming(u, i)
  BY DEF Naming
<1>4. \A x \in admin_audit_logs :
         x.status = "succeeded" => AdminRow(x.user, x.ledger_row)'
  BY <1>1, <1>2 DEF AdminParts
<1>5. \A u \in Users : \A i \in DOMAIN credit_ledger'[u] :
         AdminRow(u, i)' => \E x : Naming(u, i)' = {x}
  <2>1. ASSUME NEW u \in Users, NEW i \in DOMAIN credit_ledger'[u], AdminRow(u, i)'
        PROVE  \E x : Naming(u, i)' = {x}
    <3>1. AdminRow(u, i) /\ i \in DOMAIN credit_ledger[u]
      BY <1>1, <2>1 DEF AdminRow
    <3>2. \E x : Naming(u, i) = {x}
      BY <3>1 DEF AdminParts
    <3> QED
      BY <1>3, <3>2
  <2> QED
    BY <2>1
<1> QED
  BY <1>4, <1>5 DEF AdminParts

(* A failed outcome, under a key that has none.                            *)
LEMMA FailureAudited ==
    ASSUME LedgerInv, AdminParts, UNCHANGED credit_ledger,
           NEW a, a.status = "failed", a.ledger_row = 0,
           AuditOf(a.key) = {}, admin_audit_logs' = admin_audit_logs \cup {a}
    PROVE  AdminParts'
<1>1. \A r1, r2 \in admin_audit_logs' : r1.key = r2.key => r1 = r2
  BY DEF AdminParts, AuditOf
<1>2. \A u, i : AdminRow(u, i)' <=> AdminRow(u, i)
  BY DEF AdminRow
<1>3. \A row \in admin_audit_logs' :
          /\ row.status = "succeeded" => AdminRow(row.user, row.ledger_row)'
          /\ row.status = "failed" => row.ledger_row = 0
  BY <1>2 DEF AdminParts
<1>4. ASSUME NEW u \in Users, NEW i \in DOMAIN credit_ledger'[u], AdminRow(u, i)'
      PROVE  \E x : Naming(u, i)' = {x}
  <2>1. i \in DOMAIN credit_ledger[u] /\ AdminRow(u, i)
    BY <1>2, <1>4
  <2>2. i # 0
    <3>1. credit_ledger[u] \in Seq(LedgerRows)
      BY DEF LedgerInv, TypeOK
    <3> QED
      BY <2>1, <3>1
  <2>3. Naming(u, i)' = Naming(u, i)
    BY <2>2 DEF Naming
  <2> QED
    BY <2>1, <2>3 DEF AdminParts
<1> QED
  BY <1>1, <1>3, <1>4 DEF AdminParts

(* An adjustment and its outcome, which names the row it has just written. *)
LEMMA SuccessAudited ==
    ASSUME LedgerInv, AdminParts, NEW w \in Users, NEW n, NEW row, NEW a,
           n = Len(credit_ledger[w]) + 1, Adds(w, row), row.reason = "admin_adjust_credits",
           a.status = "succeeded", a.ledger_row = n, a.user = w,
           AuditOf(a.key) = {}, admin_audit_logs' = admin_audit_logs \cup {a}
    PROVE  AdminParts'
<1>1. \A r1, r2 \in admin_audit_logs' : r1.key = r2.key => r1 = r2
  BY DEF AdminParts, AuditOf
<1>2. /\ \A u \in Users : credit_ledger[u] \in Seq(LedgerRows)
      /\ admin_audit_logs \subseteq AuditRows
  BY DEF LedgerInv, TypeOK
<1>3. n \notin DOMAIN credit_ledger[w] /\ n # 0
  <2>1. credit_ledger[w] \in Seq(LedgerRows)
    BY <1>2
  <2> QED
    BY <2>1
<1>4. AdminRow(w, n)'
  BY DEF Adds, AdminRow
<1>5. \A u \in Users : \A i : AdminRow(u, i) => AdminRow(u, i)'
  BY DEF Adds, AdminRow
<1>6. \A x \in admin_audit_logs' :
          /\ x.status = "succeeded" => AdminRow(x.user, x.ledger_row)'
          /\ x.status = "failed" => x.ledger_row = 0
  <2>1. ASSUME NEW x \in admin_audit_logs
        PROVE  /\ x.status = "succeeded" => AdminRow(x.user, x.ledger_row)'
               /\ x.status = "failed" => x.ledger_row = 0
    <3>1. x.user \in Users
      BY <1>2 DEF AuditRows
    <3> QED
      BY <1>5, <3>1 DEF AdminParts
  <2>2. a.status # "failed" /\ AdminRow(a.user, a.ledger_row)'
    BY <1>4
  <2> QED
    BY <2>1, <2>2
<1>7. ASSUME NEW u \in Users, NEW i \in DOMAIN credit_ledger'[u], AdminRow(u, i)'
      PROVE  \E x : Naming(u, i)' = {x}
  <2>1. CASE i \in DOMAIN credit_ledger[u]
    <3>1. AdminRow(u, i)
      BY <1>7, <2>1 DEF Adds, AdminRow
    <3>2. ~(a.user = u /\ a.ledger_row = i)
      BY <1>3, <2>1
    <3>3. Naming(u, i)' = Naming(u, i)
      BY <3>2 DEF Naming
    <3>4. \E x : Naming(u, i) = {x}
      BY <2>1, <3>1 DEF AdminParts
    <3> QED
      BY <3>3, <3>4
  <2>2. CASE u = w /\ i = n
    <3>1. Naming(w, n) = {}
      <4>1. ASSUME NEW x \in admin_audit_logs, x.user = w, x.ledger_row = n PROVE FALSE
        <5>1. x.status \in {"succeeded", "failed"}
          BY <1>2 DEF AuditRows
        <5>2. ~AdminRow(w, n)
          BY <1>3 DEF AdminRow
        <5> QED
          BY <1>3, <4>1, <5>1, <5>2 DEF AdminParts
      <4> QED
        BY <4>1 DEF Naming
    <3>2. Naming(w, n)' = {a}
      BY <3>1 DEF Naming
    <3> QED
      BY <2>2, <3>2
  <2> QED
    BY <2>1, <2>2 DEF Adds
<1> QED
  BY <1>1, <1>6, <1>7 DEF AdminParts

LEMMA AuditsStep ==
    ASSUME LedgerInv, [Next]_vars
    PROVE  \/ UNCHANGED admin_audit_logs
           \/ \E b \in Backends : AdminAdjustCredits(b) \/ ProfileNotFound(b)
<1>1. ASSUME NEW b \in Backends, Steps(b), ~AdminAdjustCredits(b), ~ProfileNotFound(b)
      PROVE  UNCHANGED admin_audit_logs
  BY <1>1 DEF Steps, Run, Acquire, Begin, Disconnect, LockOrder, LockAdminKey,
     LockProfile, LookupMiss, LookupHit, RefuseMismatch, Commit, DebitCredits,
     RecordUsageAndDebit, InsertUsageLog, CompleteCreditOrder, OpsLedgerAdjustment,
     Reject, tables
<1>2. ASSUME NEW u \in Users, SignUp(u) PROVE UNCHANGED admin_audit_logs
  BY <1>2 DEF SignUp
<1>3. CASE UNCHANGED vars
  BY <1>3 DEF vars, tables
<1> QED
  BY <1>1, <1>2, <1>3 DEF Next, Steps

LEMMA AdminStep ==
    ASSUME LedgerInv, AdminParts, [Next]_vars
    PROVE  AdminParts'
<1> USE DEF LedgerInv
<1>1. CASE UNCHANGED <<credit_ledger, admin_audit_logs>>
  <2>1. /\ \A u, i : AdminRow(u, i)' <=> AdminRow(u, i)
        /\ \A u, i : Naming(u, i)' = Naming(u, i)
    BY <1>1 DEF AdminRow, Naming
  <2> QED
    BY <1>1, <2>1 DEF AdminParts
<1>2. ASSUME NEW b \in Backends, ProfileNotFound(b) PROVE AdminParts'
  <2>1. UNCHANGED credit_ledger
    BY <1>2 DEF ProfileNotFound
  <2>2. CASE UNCHANGED admin_audit_logs
    BY <1>1, <2>1, <2>2
  <2>3. CASE ~ UNCHANGED admin_audit_logs
    <3>1. AuditOf(call[b].key) = {} /\ Audit(b, "failed", 0)
      BY <1>2, <2>3 DEF ProfileNotFound
    <3>2. PICK a : a = [key |-> call[b].key, user |-> call[b].user, status |-> "failed",
                        ledger_row |-> 0]
      OBVIOUS
    <3>3. /\ a.status = "failed" /\ a.ledger_row = 0 /\ AuditOf(a.key) = {}
          /\ admin_audit_logs' = admin_audit_logs \cup {a}
      BY <3>1, <3>2 DEF Audit
    <3> QED
      BY <2>1, <3>3, FailureAudited
  <2> QED
    BY <2>2, <2>3
<1>3. ASSUME NEW b \in Backends, AdminAdjustCredits(b) PROVE AdminParts'
  <2>1. call[b].user \in Users /\ TypeOK
    BY <1>3, WriterIsCall DEF Writes
  <2>2. AuditOf(call[b].key) = {} /\ call[b].op = "admin_adjust_credits"
    BY <1>3 DEF AdminAdjustCredits, At
  <2>3. PICK w, n, amount, ref, row :
           /\ w = call[b].user /\ n = Len(credit_ledger[w]) + 1
           /\ amount = Signed(call[b]) /\ ref = <<"admin_adjustment", n>>
           /\ row = PostedRow(b, "adjustment", amount, ref)
    OBVIOUS
  <2>4. CASE CanAdjust(b)
    <3>1. Post(b, "adjustment", amount, ref) /\ Audit(b, "succeeded", n)
      BY <1>3, <2>3, <2>4 DEF AdminAdjustCredits
    <3>2. Adds(w, row) /\ row.reason = "admin_adjust_credits"
      BY <2>1, <2>2, <2>3, <3>1, PostAdds DEF PostedRow
    <3>3. PICK a : a = [key |-> call[b].key, user |-> w, status |-> "succeeded",
                        ledger_row |-> n]
      OBVIOUS
    <3>4. /\ a.status = "succeeded" /\ a.ledger_row = n /\ a.user = w
          /\ AuditOf(a.key) = {} /\ admin_audit_logs' = admin_audit_logs \cup {a}
      BY <2>2, <2>3, <3>1, <3>3 DEF Audit
    <3> QED
      BY <2>1, <2>3, <3>2, <3>4, SuccessAudited
  <2>5. CASE ~CanAdjust(b)
    <3>1. Audit(b, "failed", 0) /\ UNCHANGED credit_ledger
      BY <1>3, <2>5 DEF AdminAdjustCredits
    <3>2. PICK a : a = [key |-> call[b].key, user |-> call[b].user, status |-> "failed",
                        ledger_row |-> 0]
      OBVIOUS
    <3>3. /\ a.status = "failed" /\ a.ledger_row = 0 /\ AuditOf(a.key) = {}
          /\ admin_audit_logs' = admin_audit_logs \cup {a}
      BY <2>2, <3>1, <3>2 DEF Audit
    <3> QED
      BY <3>1, <3>3, FailureAudited
  <2> QED
    BY <2>4, <2>5
<1>4. CASE UNCHANGED admin_audit_logs /\ ~ \E b \in Backends : AdminAdjustCredits(b)
  <2>1. ASSUME NEW u \in Users, SignUp(u) PROVE AdminParts'
    BY <1>4, <2>1, SignUpAdds, OtherProcedure DEF BonusRow
  <2>2. ASSUME NEW b \in Backends, Writes(b) PROVE AdminParts'
    <3>1. call[b].user \in Users /\ TypeOK
      BY <2>2, WriterIsCall
    <3>2. ASSUME NEW type, NEW amount, NEW ref, Post(b, type, amount, ref),
                 call[b].op # "admin_adjust_credits"
          PROVE  AdminParts'
      <4>1. PICK w, row : w = call[b].user /\ row = PostedRow(b, type, amount, ref)
        OBVIOUS
      <4>2. Adds(w, row) /\ w \in Users
        BY <3>1, <3>2, <4>1, PostAdds
      <4>3. row.reason # "admin_adjust_credits"
        BY <3>2, <4>1 DEF PostedRow
      <4> QED
        BY <1>4, <4>2, <4>3, OtherProcedure
    <3> QED
      BY <1>1, <1>4, <2>2, <3>2 DEF Writes, DebitCredits, RecordUsageAndDebit, At,
         InsertUsageLog, CompleteCreditOrder, OpsLedgerAdjustment
  <2> QED
    BY <1>1, <1>4, <2>1, <2>2, StepWrites
<1> QED
  BY <1>2, <1>3, <1>4, AuditsStep

(* An admin key has one outcome for good, and an adjustment one key.       *)
THEOREM AdminOutcomeOnceAlways == Spec => []AdminOutcomeOnce
<1>1. Init => AdminParts
  BY DEF Init, AdminParts
<1>2. LedgerInv /\ AdminParts /\ [Next]_vars => AdminParts'
  BY AdminStep
<1>3. LedgerInv /\ AdminParts => AdminOutcomeOnce
  BY AdminSplit
<1> QED
  BY <1>1, <1>2, <1>3, LedgerInvariant, PTL DEF Spec

-----------------------------------------------------------------------------
(* The running totals are the sums of the ledger.  The sum of a sequence   *)
(* is what the recursion of SumSpent says it is for any function that      *)
(* satisfies its equation: there is at most one such function, and each    *)
(* posted row extends it.                                                  *)

(* s[i] is the sum of c[1], ..., c[i]. *)
SumsUpTo(s, c, n) == s = [i \in 0 .. n |-> IF i = 0 THEN 0 ELSE s[i - 1] + c[i]]

LEMMA SumsAt ==
    ASSUME NEW n \in Nat, NEW c, NEW s, SumsUpTo(s, c, n)
    PROVE  /\ s[0] = 0
           /\ \A i \in 1 .. n : s[i] = s[i - 1] + c[i]
<1> DEFINE rhs == [i \in 0 .. n |-> IF i = 0 THEN 0 ELSE s[i - 1] + c[i]]
<1>1. s = rhs
  BY DEF SumsUpTo
<1>2. rhs[0] = 0 /\ \A i \in 1 .. n : rhs[i] = s[i - 1] + c[i]
  OBVIOUS
<1> QED
  BY <1>1, <1>2

Less == {ss \in Nat \X Nat : ss[1] < ss[2]}

LEMMA SumsAgree ==
    ASSUME NEW n \in Nat, NEW c, NEW f, NEW g, SumsUpTo(f, c, n), SumsUpTo(g, c, n)
    PROVE  f[n] = g[n]
<1> DEFINE S == {i \in 0 .. n : f[i] # g[i]}
<1>1. SUFFICES ASSUME S # {} PROVE FALSE
  OBVIOUS
<1>2. IsWellFoundedOn(Less, Nat)
  BY NatLessThanWellFounded, Zenon DEF OpToRel, Less
<1>3. S \in SUBSET Nat
  OBVIOUS
<1>4. PICK i \in S : \A y \in S : ~(<<y, i>> \in Less)
  BY <1>1, <1>2, <1>3, WFMin
<1>5. /\ f[0] = 0 /\ g[0] = 0
      /\ \A j \in 1 .. n : f[j] = f[j - 1] + c[j] /\ g[j] = g[j - 1] + c[j]
  BY SumsAt
<1>6. i \in 1 .. n
  BY <1>4, <1>5
<1>7. i - 1 \notin S
  <2>1. i - 1 \in Nat /\ i \in Nat /\ i - 1 < i
    BY <1>6
  <2>2. <<i - 1, i>> \in Less
    BY <2>1 DEF Less
  <2> QED
    BY <1>4, <2>2
<1>8. f[i - 1] = g[i - 1]
  BY <1>6, <1>7
<1> QED
  BY <1>4, <1>5, <1>6, <1>8

SpentIn(rows) == [i \in 1 .. Len(rows) |-> Spent(rows[i])]
BoughtIn(rows) == [i \in 1 .. Len(rows) |-> Bought(rows[i])]

LEMMA SumSpentIs ==
    ASSUME NEW rows, Len(rows) \in Nat, NEW s, SumsUpTo(s, SpentIn(rows), Len(rows))
    PROVE  SumSpent(rows) = s[Len(rows)]
<1> DEFINE n == Len(rows)
           sum == CHOOSE f : f = [i \in 0 .. n |->
                     IF i = 0 THEN 0 ELSE f[i - 1] + Spent(rows[i])]
<1>1. \A f : [i \in 0 .. n |-> IF i = 0 THEN 0 ELSE f[i - 1] + Spent(rows[i])]
           = [i \in 0 .. n |-> IF i = 0 THEN 0 ELSE f[i - 1] + SpentIn(rows)[i]]
  BY DEF SpentIn
<1>2. s = [i \in 0 .. n |-> IF i = 0 THEN 0 ELSE s[i - 1] + Spent(rows[i])]
  BY <1>1 DEF SumsUpTo
<1>3. sum = [i \in 0 .. n |-> IF i = 0 THEN 0 ELSE sum[i - 1] + Spent(rows[i])]
  BY <1>2
<1>4. SumsUpTo(sum, SpentIn(rows), n)
  BY <1>1, <1>3 DEF SumsUpTo
<1>5. sum[n] = s[n]
  BY <1>4, SumsAgree
<1>6. SumSpent(rows) = sum[n]
  BY DEF SumSpent
<1> QED
  BY <1>5, <1>6

LEMMA SumBoughtIs ==
    ASSUME NEW rows, Len(rows) \in Nat, NEW s, SumsUpTo(s, BoughtIn(rows), Len(rows))
    PROVE  SumBought(rows) = s[Len(rows)]
<1> DEFINE n == Len(rows)
           sum == CHOOSE f : f = [i \in 0 .. n |->
                     IF i = 0 THEN 0 ELSE f[i - 1] + Bought(rows[i])]
<1>1. \A f : [i \in 0 .. n |-> IF i = 0 THEN 0 ELSE f[i - 1] + Bought(rows[i])]
           = [i \in 0 .. n |-> IF i = 0 THEN 0 ELSE f[i - 1] + BoughtIn(rows)[i]]
  BY DEF BoughtIn
<1>2. s = [i \in 0 .. n |-> IF i = 0 THEN 0 ELSE s[i - 1] + Bought(rows[i])]
  BY <1>1 DEF SumsUpTo
<1>3. sum = [i \in 0 .. n |-> IF i = 0 THEN 0 ELSE sum[i - 1] + Bought(rows[i])]
  BY <1>2
<1>4. SumsUpTo(sum, BoughtIn(rows), n)
  BY <1>1, <1>3 DEF SumsUpTo
<1>5. sum[n] = s[n]
  BY <1>4, SumsAgree
<1>6. SumBought(rows) = sum[n]
  BY DEF SumBought
<1> QED
  BY <1>5, <1>6

LEMMA SumsGrow ==
    ASSUME NEW n \in Nat, NEW c, NEW d, NEW s, SumsUpTo(s, c, n),
           \A i \in 1 .. n : d[i] = c[i]
    PROVE  \E t : SumsUpTo(t, d, n + 1) /\ t[n + 1] = s[n] + d[n + 1]
<1> DEFINE t == [i \in 0 .. n + 1 |-> IF i = n + 1 THEN s[n] + d[n + 1] ELSE s[i]]
           rhs == [i \in 0 .. n + 1 |-> IF i = 0 THEN 0 ELSE t[i - 1] + d[i]]
<1>1. s[0] = 0 /\ \A i \in 1 .. n : s[i] = s[i - 1] + c[i]
  BY SumsAt
<1>2. \A i \in 0 .. n + 1 : t[i] = rhs[i]
  <2>1. t[0] = 0 /\ rhs[0] = 0
    BY <1>1
  <2>2. ASSUME NEW i \in 1 .. n PROVE t[i] = rhs[i]
    <3>1. t[i] = s[i] /\ t[i - 1] = s[i - 1]
      OBVIOUS
    <3>2. rhs[i] = s[i - 1] + d[i]
      BY <3>1
    <3> QED
      BY <1>1, <3>1, <3>2
  <2>3. t[n + 1] = rhs[n + 1]
    OBVIOUS
  <2> HIDE DEF t, rhs
  <2> QED
    BY <2>1, <2>2, <2>3
<1>3. t = rhs
  BY <1>2
<1>4. SumsUpTo(t, d, n + 1)
  BY <1>3 DEF SumsUpTo
<1>5. t[n + 1] = s[n] + d[n + 1]
  OBVIOUS
<1> QED
  BY <1>4, <1>5

(* x is what the rows of one ledger spent, by some sequence of sums.       *)
HasSpent(rows, x) ==
    \E s : SumsUpTo(s, SpentIn(rows), Len(rows)) /\ x = s[Len(rows)]

HasBought(rows, x) ==
    \E s : SumsUpTo(s, BoughtIn(rows), Len(rows)) /\ x = s[Len(rows)]

LEMMA HasSpentIs ==
    ASSUME NEW rows \in Seq(LedgerRows), NEW x, HasSpent(rows, x)
    PROVE  x = SumSpent(rows)
<1>1. PICK s : SumsUpTo(s, SpentIn(rows), Len(rows)) /\ x = s[Len(rows)]
  BY DEF HasSpent
<1> QED
  BY <1>1, SumSpentIs

LEMMA HasBoughtIs ==
    ASSUME NEW rows \in Seq(LedgerRows), NEW x, HasBought(rows, x)
    PROVE  x = SumBought(rows)
<1>1. PICK s : SumsUpTo(s, BoughtIn(rows), Len(rows)) /\ x = s[Len(rows)]
  BY DEF HasBought
<1> QED
  BY <1>1, SumBoughtIs

LEMMA NothingYet == HasSpent(<<>>, 0) /\ HasBought(<<>>, 0)
<1> DEFINE s == [i \in 0 .. 0 |-> 0]
<1>1. \A c : SumsUpTo(s, c, 0) /\ s[0] = 0
  BY DEF SumsUpTo
<1>2. Len(<<>>) = 0
  OBVIOUS
<1> QED
  BY <1>1, <1>2 DEF HasSpent, HasBought

LEMMA RowIsAdded ==
    ASSUME NEW rows \in Seq(LedgerRows), NEW row,
           NEW x, NEW y, HasSpent(rows, x), HasBought(rows, y)
    PROVE  /\ HasSpent(Append(rows, row), x + Spent(row))
           /\ HasBought(Append(rows, row), y + Bought(row))
<1> DEFINE n == Len(rows)
           more == Append(rows, row)
<1>1. /\ n \in Nat /\ Len(more) = n + 1
      /\ \A i \in 1 .. n : more[i] = rows[i]
      /\ more[n + 1] = row
  OBVIOUS
<1> HIDE DEF n, more
<1>2. /\ \A i \in 1 .. n : SpentIn(more)[i] = SpentIn(rows)[i]
      /\ \A i \in 1 .. n : BoughtIn(more)[i] = BoughtIn(rows)[i]
      /\ SpentIn(more)[n + 1] = Spent(row)
      /\ BoughtIn(more)[n + 1] = Bought(row)
  BY <1>1 DEF SpentIn, BoughtIn, n
<1>3. PICK s : SumsUpTo(s, SpentIn(rows), n) /\ x = s[n]
  BY DEF HasSpent, n
<1>4. PICK t : SumsUpTo(t, BoughtIn(rows), n) /\ y = t[n]
  BY DEF HasBought, n
<1>5. \E f : SumsUpTo(f, SpentIn(more), n + 1) /\ f[n + 1] = s[n] + SpentIn(more)[n + 1]
  BY <1>1, <1>2, <1>3, SumsGrow
<1>6. \E f : SumsUpTo(f, BoughtIn(more), n + 1) /\ f[n + 1] = t[n] + BoughtIn(more)[n + 1]
  BY <1>1, <1>2, <1>4, SumsGrow
<1>7. HasSpent(more, x + Spent(row))
  BY <1>1, <1>2, <1>3, <1>5 DEF HasSpent
<1>8. HasBought(more, y + Bought(row))
  BY <1>1, <1>2, <1>4, <1>6 DEF HasBought
<1> QED
  BY <1>7, <1>8 DEF more

(* The totals by the sums of the rows, a form each posted row extends.     *)
TotalsParts ==
    \A u \in Users : /\ HasSpent(credit_ledger[u], total_used[u])
                     /\ HasBought(credit_ledger[u], total_purchased[u])

(* A posted row and what it adds to the totals of its account.             *)
Books(w, row) ==
    /\ credit_ledger' = [credit_ledger EXCEPT ![w] = Append(@, row)]
    /\ \A u \in Users \ {w} : /\ total_used'[u] = total_used[u]
                             /\ total_purchased'[u] = total_purchased[u]
    /\ total_used'[w] = total_used[w] + Spent(row)
    /\ total_purchased'[w] = total_purchased[w] + Bought(row)

LEMMA BooksKeepsTotals ==
    ASSUME TypeOK, TotalsParts, NEW w \in Users, NEW row, Books(w, row)
    PROVE  TotalsParts'
<1>1. credit_ledger[w] \in Seq(LedgerRows)
  BY DEF TypeOK
<1>2. /\ HasSpent(Append(credit_ledger[w], row), total_used[w] + Spent(row))
      /\ HasBought(Append(credit_ledger[w], row), total_purchased[w] + Bought(row))
  BY <1>1, RowIsAdded DEF TotalsParts
<1>3. /\ credit_ledger'[w] = Append(credit_ledger[w], row)
      /\ \A u \in Users \ {w} : credit_ledger'[u] = credit_ledger[u]
  BY DEF Books, TypeOK
<1>4. /\ HasSpent(credit_ledger'[w], total_used'[w])
      /\ HasBought(credit_ledger'[w], total_purchased'[w])
  BY <1>2, <1>3 DEF Books
<1>5. \A u \in Users \ {w} : /\ HasSpent(credit_ledger'[u], total_used'[u])
                            /\ HasBought(credit_ledger'[u], total_purchased'[u])
  BY <1>3 DEF Books, TotalsParts
<1> QED
  BY <1>4, <1>5 DEF TotalsParts

LEMMA TypedTotals ==
    ASSUME TypeOK, NEW w \in Users
    PROVE  total_used[w] \in Int /\ total_purchased[w] \in Int
BY DEF TypeOK

LEMMA SignUpBooks ==
    ASSUME LedgerInv, NEW w \in Users, SignUp(w)
    PROVE  Books(w, BonusRow(w))
<1>1. Spent(BonusRow(w)) = 0 /\ Bought(BonusRow(w)) = 0
  BY DEF Spent, Bought, BonusRow
<1> QED
  BY <1>1, TypedTotals DEF SignUp, Books, BonusRow, LedgerInv

(* What each procedure's row is worth to the totals. *)
LEMMA RowWorth ==
    ASSUME NEW b, NEW type, NEW amount \in Int, NEW ref
    PROVE  /\ type = "debit" => Spent(PostedRow(b, type, amount, ref)) = -amount
           /\ type # "debit" => Spent(PostedRow(b, type, amount, ref)) = 0
           /\ type = "topup" \/ ref[1] = "ops_grant" =>
                Bought(PostedRow(b, type, amount, ref)) = amount
           /\ type # "topup" /\ ref[1] # "ops_grant" =>
                Bought(PostedRow(b, type, amount, ref)) = 0
BY DEF Spent, Bought, PostedRow

LEMMA PostIsAppend ==
    ASSUME NEW b \in Backends, NEW type, NEW amount, NEW ref, Post(b, type, amount, ref)
    PROVE  credit_ledger' = [credit_ledger EXCEPT ![call[b].user] =
                               Append(@, PostedRow(b, type, amount, ref))]
BY DEF Post, PostedRow

TotalsAlone == UNCHANGED <<credit_ledger, total_used, total_purchased>>

LEMMA WriterBooks ==
    ASSUME LedgerInv, NEW b \in Backends, Writes(b)
    PROVE  TotalsAlone \/ \E row : Books(call[b].user, row)
<1> DEFINE c == call[b]
<1>1. c \in Calls /\ c.user \in Users
  BY WriterIsCall
<1>2. total_used[c.user] \in Int /\ total_purchased[c.user] \in Int
  BY <1>1, TypedTotals DEF LedgerInv
<1>3. CASE DebitCredits(b)
  <2>1. c.amount \in Nat
    BY <1>1, <1>3, CallArguments DEF DebitCredits, At, DebitCalls
  <2>2. PICK row : row = PostedRow(b, "debit", -c.amount, <<"request", c.request>>)
    OBVIOUS
  <2>3. Spent(row) = c.amount /\ Bought(row) = 0
    BY <2>1, <2>2, RowWorth
  <2>4. credit_ledger' = [credit_ledger EXCEPT ![c.user] = Append(@, row)]
    BY <1>3, <2>2, PostIsAppend DEF DebitCredits
  <2>5. Books(c.user, row)
    BY <1>1, <1>2, <1>3, <2>3, <2>4 DEF DebitCredits, Books, LedgerInv, TypeOK
  <2> QED
    BY <2>5
<1>4. CASE RecordUsageAndDebit(b) /\ c.amount > 0
  <2>1. c.amount \in Nat
    BY <1>1, <1>4, CallArguments DEF RecordUsageAndDebit, At, UsageCalls
  <2>2. PICK row : row = PostedRow(b, "debit", -c.amount, <<"request", c.request>>)
    OBVIOUS
  <2>3. Spent(row) = c.amount /\ Bought(row) = 0
    BY <2>1, <2>2, RowWorth
  <2>4. credit_ledger' = [credit_ledger EXCEPT ![c.user] = Append(@, row)]
    BY <1>4, <2>2, PostIsAppend DEF RecordUsageAndDebit
  <2>5. Books(c.user, row)
    BY <1>1, <1>2, <1>4, <2>3, <2>4 DEF RecordUsageAndDebit, Books, LedgerInv, TypeOK
  <2> QED
    BY <2>5
<1>5. CASE RecordUsageAndDebit(b) /\ ~(c.amount > 0)
  BY <1>5 DEF RecordUsageAndDebit, TotalsAlone
<1>6. CASE InsertUsageLog(b)
  BY <1>6 DEF InsertUsageLog, TotalsAlone
<1>7. CASE CompleteCreditOrder(b)
  <2>1. OrderCredits[c.order] \in Int
    BY <1>1, <1>7, CallArguments, OrdersAssumption DEF CompleteCreditOrder, At, OrderCalls
  <2>2. PICK row : row = PostedRow(b, "topup", OrderCredits[c.order],
                                   <<"stripe_checkout", c.checkout>>)
    OBVIOUS
  <2>3. Spent(row) = 0 /\ Bought(row) = OrderCredits[c.order]
    BY <2>1, <2>2, RowWorth
  <2>4. credit_ledger' = [credit_ledger EXCEPT ![c.user] = Append(@, row)]
    <3>1. ~HasRow("topup", <<"stripe_checkout", c.checkout>>)
      BY <1>7, TopupIsNew
    <3>2. Post(b, "topup", OrderCredits[c.order], <<"stripe_checkout", c.checkout>>)
      BY <1>7, <3>1 DEF CompleteCreditOrder
    <3> QED
      BY <2>2, <3>2, PostIsAppend
  <2>5. Books(c.user, row)
    BY <1>1, <1>2, <1>7, <2>3, <2>4 DEF CompleteCreditOrder, Books, LedgerInv, TypeOK
  <2> QED
    BY <2>5
<1>8. CASE AdminAdjustCredits(b) /\ CanAdjust(b)
  <2>1. Signed(c) \in Int
    BY <1>1, <1>8, CallArguments DEF AdminAdjustCredits, At, AdminCalls, Signed
  <2>2. PICK ref : ref = <<"admin_adjustment", Len(credit_ledger[c.user]) + 1>>
    OBVIOUS
  <2>3. PICK row : row = PostedRow(b, "adjustment", Signed(c), ref)
    OBVIOUS
  <2>4. Spent(row) = 0 /\ Bought(row) = 0
    <3>1. ref[1] = "admin_adjustment"
      BY <2>2
    <3> QED
      BY <2>1, <2>3, <3>1, RowWorth
  <2>5. credit_ledger' = [credit_ledger EXCEPT ![c.user] = Append(@, row)]
    BY <1>8, <2>2, <2>3, PostIsAppend DEF AdminAdjustCredits
  <2>6. Books(c.user, row)
    BY <1>1, <1>2, <1>8, <2>4, <2>5 DEF AdminAdjustCredits, Books
  <2> QED
    BY <2>6
<1>9. CASE AdminAdjustCredits(b) /\ ~CanAdjust(b)
  BY <1>9 DEF AdminAdjustCredits, TotalsAlone
<1>10. CASE OpsLedgerAdjustment(b)
  <2>1. c.amount \in Nat /\ c.kind \in {"ops_grant", "ops_reverse"} /\ OpsSigned(c) \in Int
    BY <1>1, <1>10, CallArguments DEF OpsLedgerAdjustment, At, OpsCalls, OpsSigned
  <2>2. PICK ref : ref = <<c.kind, c.key>>
    OBVIOUS
  <2>3. PICK row : row = PostedRow(b, "adjustment", OpsSigned(c), ref)
    OBVIOUS
  <2>4. ref[1] = c.kind
    BY <2>2
  <2>5. Spent(row) = 0 /\ Bought(row) = IF c.kind = "ops_grant" THEN c.amount ELSE 0
    BY <2>1, <2>3, <2>4, RowWorth DEF OpsSigned
  <2>6. credit_ledger' = [credit_ledger EXCEPT ![c.user] = Append(@, row)]
    BY <1>10, <2>2, <2>3, PostIsAppend DEF OpsLedgerAdjustment
  <2>7. Books(c.user, row)
    BY <1>1, <1>2, <1>10, <2>5, <2>6 DEF OpsLedgerAdjustment, Books, LedgerInv, TypeOK
  <2> QED
    BY <2>7
<1> QED
  BY <1>3, <1>4, <1>5, <1>6, <1>7, <1>8, <1>9, <1>10 DEF Writes

LEMMA TotalsStep ==
    ASSUME LedgerInv, TotalsParts, [Next]_vars
    PROVE  TotalsParts'
<1>1. CASE TotalsAlone
  BY <1>1 DEF TotalsAlone, TotalsParts
<1>2. ASSUME NEW u \in Users, SignUp(u) PROVE TotalsParts'
  BY <1>2, SignUpBooks, BooksKeepsTotals DEF LedgerInv
<1>3. ASSUME NEW b \in Backends, Writes(b) PROVE TotalsParts'
  <2>1. call[b].user \in Users
    BY <1>3, WriterIsCall
  <2> QED
    BY <1>1, <1>3, <2>1, WriterBooks, BooksKeepsTotals DEF LedgerInv
<1>4. ASSUME NEW b \in Backends, Steps(b), ~Writes(b)
      PROVE  TotalsAlone
  BY <1>4 DEF Writes, Commit, Steps, Run, Acquire, Begin, Disconnect, LockOrder,
     LockAdminKey, LockProfile, LookupMiss, LookupHit, RefuseMismatch, ProfileNotFound,
     Reject, tables, TotalsAlone
<1>5. CASE UNCHANGED vars
  BY <1>1, <1>5 DEF vars, tables, TotalsAlone
<1> QED
  BY <1>1, <1>2, <1>3, <1>4, <1>5 DEF Next, Steps

(* The running totals of every profile are the sums of its ledger, in      *)
(* every reachable state of every instance.                                *)
THEOREM TotalsMatchLedgerAlways == Spec => []TotalsMatchLedger
<1>1. Init => TotalsParts
  BY NothingYet DEF Init, TotalsParts
<1>2. LedgerInv /\ TotalsParts /\ [Next]_vars => TotalsParts'
  BY TotalsStep
<1>3. LedgerInv /\ TotalsParts => TotalsMatchLedger
  <2> SUFFICES ASSUME LedgerInv, TotalsParts, NEW u \in Users
               PROVE  /\ total_used[u] = SumSpent(credit_ledger[u])
                      /\ total_purchased[u] = SumBought(credit_ledger[u])
    BY DEF TotalsMatchLedger
  <2>1. credit_ledger[u] \in Seq(LedgerRows)
    BY DEF LedgerInv, TypeOK
  <2> QED
    BY <2>1, HasSpentIs, HasBoughtIs DEF TotalsParts
<1> QED
  BY <1>1, <1>2, <1>3, LedgerInvariant, PTL DEF Spec

-----------------------------------------------------------------------------
(* CreditLedger implements Wallet. *)

LEMMA PostedIsHasRow ==
    ASSUME NEW type, NEW ref
    PROVE  W!Posted(type, ref) <=> HasRow(type, ref)
BY DEF W!Posted, HasRow

(* Opening an account is Wallet's Open. *)
LEMMA SignUpOpens ==
    ASSUME LedgerInv, NEW w \in Users, SignUp(w)
    PROVE  W!Open(w)
<1> DEFINE row == [type |-> "grant", amount |-> SignupBonus,
                   balance_after |-> SignupBonus,
                   reference_id |-> <<"signup_bonus", w>>,
                   reason |-> "signup_bonus"]
<1>1. credit_ledger[w] = <<>> /\ credits_balance[w] = 0
  BY DEF SignUp, LedgerInv, LedgerExplainsBalance
<1>2. /\ credit_ledger' = [credit_ledger EXCEPT ![w] = Append(@, row)]
      /\ credits_balance' = [credits_balance EXCEPT ![w] = SignupBonus]
  BY DEF SignUp
<1>3. credit_ledger'[w] = Append(<<>>, row)
  BY <1>1, <1>2 DEF LedgerInv, TypeOK
<1>4. /\ Len(credit_ledger'[w]) = Len(credit_ledger[w]) + 1
      /\ credit_ledger'[w][Len(credit_ledger'[w])] = row
  BY <1>1, <1>3
<1>5. W!OneRowMore(w) /\ W!NewRow(w) = row
  BY <1>4 DEF W!OneRowMore, W!NewRow
<1>6. W!AppendRow(w, row)
  BY <1>1, <1>2, BonusAssumption DEF W!AppendRow
<1> QED
  BY <1>1, <1>5, <1>6 DEF W!Open

(* A posting is Wallet's Post. *)
LEMMA PostsPost ==
    ASSUME LedgerInv, NEW b \in Backends, Posts(b)
    PROVE  W!Post(call[b].user)
<1>1. PICK w \in Users : w = call[b].user
  BY PostsMovesOwn
<1> DEFINE old == credit_ledger[w]
<1>2. w \in profiles /\ v_balance[b] = credits_balance[w]
  BY <1>1 DEF Posts, LedgerInv, HeldBalanceIsCurrent
<1>3. old # <<>> /\ old \in Seq(LedgerRows)
  BY <1>2 DEF LedgerInv, LedgerExplainsBalance, TypeOK
<1>4. PICK type \in {"debit", "topup", "adjustment"}, amount \in Int, ref \in References :
        /\ v_balance[b] + amount >= 0
        /\ type = "topup" => amount > 0
        /\ type = "debit" => amount <= 0
        /\ type = "adjustment" => amount # 0
        /\ type # "adjustment" => ~HasRow(type, ref)
        /\ Post(b, type, amount, ref)
  BY DEF Posts
<1> DEFINE after == v_balance[b] + amount
           row == [type |-> type, amount |-> amount, balance_after |-> after,
                   reference_id |-> ref, reason |-> call[b].op]
<1>5. /\ credit_ledger' = [credit_ledger EXCEPT ![w] = Append(@, row)]
      /\ credits_balance' = [credits_balance EXCEPT ![w] = after]
  BY <1>1, <1>4 DEF Post
<1>6. credit_ledger'[w] = Append(old, row)
  BY <1>5 DEF LedgerInv, TypeOK
<1>7. Len(Append(old, row)) = Len(old) + 1 /\ Append(old, row)[Len(old) + 1] = row
  <2> HIDE DEF old, row
  <2> QED
    BY <1>3
<1>8. W!OneRowMore(w) /\ W!NewRow(w) = row
  BY <1>6, <1>7 DEF W!OneRowMore, W!NewRow
<1>9. W!AppendRow(w, row)
  BY <1>2, <1>4, <1>5 DEF W!AppendRow
<1>10. CASE type = "debit"
  BY <1>1, <1>3, <1>4, <1>8, <1>9, <1>10, PostedIsHasRow DEF W!Post
<1>11. CASE type = "topup"
  BY <1>1, <1>3, <1>4, <1>8, <1>9, <1>11, PostedIsHasRow DEF W!Post
<1>12. CASE type = "adjustment"
  BY <1>1, <1>3, <1>4, <1>8, <1>9, <1>12 DEF W!Post
<1> QED
  BY <1>4, <1>10, <1>11, <1>12

(* The procedures, with their locks, lookups, aborts and retries, are an   *)
(* account that only ever posts single rows.                               *)
THEOREM LedgerImplementsWallet == Spec => ImplementsWallet
<1>1. Init => W!Init
  BY DEF Init, W!Init
<1>2. LedgerInv /\ [Next]_vars => [W!Next]_<<credits_balance, credit_ledger>>
  <2> SUFFICES ASSUME LedgerInv, [Next]_vars
               PROVE  [W!Next]_<<credits_balance, credit_ledger>>
    OBVIOUS
  <2>1. CASE Quiet
    BY <2>1 DEF Quiet
  <2>2. ASSUME NEW u \in Users, SignUp(u) PROVE W!Next
    BY <2>2, SignUpOpens DEF W!Next
  <2>3. ASSUME NEW b \in Backends, Posts(b) PROVE W!Next
    BY <2>3, PostsPost, PostsMovesOwn DEF W!Next
  <2> QED
    BY <2>1, <2>2, <2>3, LedgerStep
<1> QED
  BY <1>1, <1>2, LedgerInvariant, PTL DEF Spec, ImplementsWallet, W!Spec
-----------------------------------------------------------------------------
(* CreditLedger implements OrderPayments. *)

LEMMA ToppedUpAt ==
    ASSUME NEW u \in Users, NEW s \in Checkouts
    PROVE  <<u, s>> \in ToppedUp <=> \E i : TopupAt(u, i, s)
BY DEF ToppedUp, TopupAt

LEMMA ToppedUpAtPrime ==
    ASSUME NEW u \in Users, NEW s \in Checkouts
    PROVE  <<u, s>> \in ToppedUp' <=> \E i : TopupAt(u, i, s)'
BY DEF ToppedUp, TopupAt

LEMMA OtherRowTopsNobodyUp ==
    ASSUME NEW w \in Users, NEW row, row.type # "topup", Adds(w, row)
    PROVE  ToppedUp' = ToppedUp
<1>1. \A u \in Users : \A i : \A s : TopupAt(u, i, s)' <=> TopupAt(u, i, s)
  BY DEF TopupAt, Adds
<1>2. ASSUME NEW u \in Users, NEW s \in Checkouts
      PROVE  <<u, s>> \in ToppedUp' <=> <<u, s>> \in ToppedUp
  BY <1>1, ToppedUpAt, ToppedUpAtPrime
<1>3. ToppedUp \subseteq Users \X Checkouts /\ ToppedUp' \subseteq Users \X Checkouts
  BY DEF ToppedUp
<1> QED
  BY <1>2, <1>3

(* Nothing but a completion of an order tops anybody up.                   *)
LEMMA TopUpStep ==
    ASSUME LedgerInv, [Next]_vars
    PROVE  \/ ToppedUp' = ToppedUp
           \/ \E b \in Backends : CompleteCreditOrder(b)
<1>1. CASE UNCHANGED credit_ledger
  BY <1>1 DEF ToppedUp
<1>2. ASSUME NEW u \in Users, SignUp(u) PROVE ToppedUp' = ToppedUp
  BY <1>2, SignUpAdds, OtherRowTopsNobodyUp DEF BonusRow, LedgerInv
<1>3. ASSUME NEW b \in Backends, Writes(b), ~CompleteCreditOrder(b)
      PROVE  ToppedUp' = ToppedUp
  <2>1. call[b].user \in Users /\ TypeOK
    BY <1>3, WriterIsCall DEF LedgerInv
  <2>2. ASSUME NEW type, NEW amount, NEW ref, Post(b, type, amount, ref), type # "topup"
        PROVE  ToppedUp' = ToppedUp
    <3>1. PICK w, row : w = call[b].user /\ row = PostedRow(b, type, amount, ref)
      OBVIOUS
    <3>2. Adds(w, row) /\ w \in Users
      BY <2>1, <2>2, <3>1, PostAdds
    <3>3. row.type # "topup"
      BY <2>2, <3>1 DEF PostedRow
    <3> QED
      BY <3>2, <3>3, OtherRowTopsNobodyUp
  <2>3. CASE UNCHANGED credit_ledger
    BY <2>3 DEF ToppedUp
  <2>4. CASE DebitCredits(b)
    BY <2>2, <2>4 DEF DebitCredits
  <2>5. CASE RecordUsageAndDebit(b)
    BY <2>2, <2>3, <2>5 DEF RecordUsageAndDebit
  <2>6. CASE AdminAdjustCredits(b)
    BY <2>2, <2>3, <2>6 DEF AdminAdjustCredits
  <2>7. CASE OpsLedgerAdjustment(b)
    BY <2>2, <2>7 DEF OpsLedgerAdjustment
  <2>8. CASE InsertUsageLog(b)
    BY <2>3, <2>8 DEF InsertUsageLog
  <2> QED
    BY <1>3, <2>4, <2>5, <2>6, <2>7, <2>8 DEF Writes
<1> QED
  BY <1>1, <1>2, <1>3, StepWrites

(* A completion is OrderPayments' Complete: under its lock the order is    *)
(* still pending and under no other session, and the session is new.       *)
LEMMA CompletionCompletes ==
    ASSUME LedgerInv, NEW b \in Backends, CompleteCreditOrder(b)
    PROVE  \E o \in Orders : \E s \in Checkouts : O!Complete(o, s)
<1>1. PICK o, s, w, row :
         /\ o = call[b].order /\ s = call[b].checkout /\ w = call[b].user
         /\ row = PostedRow(b, "topup", OrderCredits[o], <<"stripe_checkout", s>>)
  OBVIOUS
<1>2. pc[b] = "commit" /\ call[b].op = "complete_credit_order" /\ ~CheckoutOfAnother(o, s)
  BY <1>1 DEF CompleteCreditOrder, At
<1>3. call[b] \in OrderCalls
  BY <1>2, BusyRunsCall, CallArguments DEF LedgerInv
<1>4. /\ o \in Orders /\ s \in Checkouts /\ w \in Users /\ OrderUser[o] = w
      /\ credit_orders[o].status = "pending" /\ credit_orders[o].checkout \in {None, s}
  BY <1>1, <1>2, <1>3 DEF OrderCalls, LedgerInv, HeldOrderIsPending
<1>5. ~HasRow("topup", <<"stripe_checkout", s>>)
  BY <1>1, TopupIsNew
<1>6. Adds(w, row)
  BY <1>1, <1>4, <1>5, PostAdds DEF CompleteCreditOrder, LedgerInv
<1>7. row.type = "topup" /\ row.reference_id = <<"stripe_checkout", s>>
  BY <1>1 DEF PostedRow
<1>8. \A u \in Users : \A i : \A t :
         TopupAt(u, i, t)' <=>
            (TopupAt(u, i, t) \/ (u = w /\ i = Len(credit_ledger[w]) + 1 /\ t = s))
  BY <1>4, <1>6, <1>7, AddedTopup DEF LedgerInv
<1>9. ASSUME NEW u \in Users, NEW t \in Checkouts
      PROVE  <<u, t>> \in ToppedUp' <=> (<<u, t>> \in ToppedUp \/ (u = w /\ t = s))
  BY <1>8, ToppedUpAt, ToppedUpAtPrime
<1>10. ToppedUp' = ToppedUp \cup {<<w, s>>}
  <2>1. ToppedUp \subseteq Users \X Checkouts /\ ToppedUp' \subseteq Users \X Checkouts
    BY DEF ToppedUp
  <2> QED
    BY <1>4, <1>9, <2>1
<1>11. \A t \in ToppedUp : t[2] # s
  BY <1>5 DEF ToppedUp, HasRow
<1>12. O!IsFree(o, s)
  BY <1>2 DEF O!IsFree, CheckoutOfAnother
<1>13. O!Set(o, "paid", s)
  BY <1>1 DEF CompleteCreditOrder, O!Set
<1> QED
  BY <1>4, <1>10, <1>11, <1>12, <1>13 DEF O!Complete

(* complete_credit_order, with its row lock, its lookups, its replays and  *)
(* the unique violations it catches, completes an order once and credits   *)
(* its user in the same step and at no other time.                         *)
THEOREM LedgerImplementsOrderPayments == Spec => ImplementsOrderPayments
<1>1. Init => O!Init
  <2> SUFFICES ASSUME Init PROVE O!Init
    OBVIOUS
  <2>1. ToppedUp = {}
    BY DEF Init, ToppedUp
  <2> QED
    BY <2>1 DEF Init, O!Init
<1>2. LedgerInv /\ [Next]_vars => [O!Next]_<<credit_orders, ToppedUp>>
  <2> SUFFICES ASSUME LedgerInv, [Next]_vars
               PROVE  [O!Next]_<<credit_orders, ToppedUp>>
    OBVIOUS
  <2>1. CASE \E b \in Backends : CompleteCreditOrder(b)
    BY <2>1, CompletionCompletes DEF O!Next
  <2>2. CASE ~ \E b \in Backends : CompleteCreditOrder(b)
    BY <2>2, OrdersStep, TopUpStep
  <2> QED
    BY <2>1, <2>2
<1> QED
  BY <1>1, <1>2, LedgerInvariant, PTL DEF Spec, ImplementsOrderPayments, O!Spec, O!vars
=============================================================================

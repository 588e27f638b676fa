--------------------------- MODULE StripeCheckout ---------------------------
(***************************************************************************)
(* Buying credits: createCheckoutSession writes a pending order, opens a   *)
(* checkout session at Stripe and saves its id in the order; the customer  *)
(* completes it; Stripe reports checkout.session.completed until it is     *)
(* answered 200, and handleStripeWebhook completes the order.              *)
(*                                                                         *)
(* A step is one statement or one request to Stripe; complete_credit_order *)
(* is one step (CreditLedger has its statements).  A fault is a statement  *)
(* or a request that fails, before or after it took effect, or a process   *)
(* that dies; the two ends are the same for what is stored.                *)
(***************************************************************************)
EXTENDS Naturals, FiniteSets

CONSTANTS
    Users,
    Orders,        \* credit_orders.id, one per call of createCheckoutSession
    OrderUser,     \* the user who makes that call
    Sessions,      \* checkout session ids
    Customers,     \* Stripe customer ids
    Deliveries,    \* webhook requests that may be under way at a time
    None,
    MaxFaults,
    MaxDeleted     \* customers that may be deleted at Stripe

ASSUME CheckoutAssumption ==
    /\ OrderUser \in [Orders -> Users]
    /\ None \notin Orders \cup Sessions \cup Customers
    /\ MaxFaults \in Nat /\ MaxDeleted \in Nat

VARIABLES
    stored,         \* profiles.stripe_customer_id
    credit_orders,  \* per order its status and its checkout session
    topups,         \* per session, its topup rows in credit_ledger
    pc, customer, session, again,  \* createCheckoutSession, per order
    customers, deleted,            \* at Stripe: customers made and deleted
    metadata,       \* at Stripe: the order a session was opened for
    completed,      \* at Stripe: the sessions their customer completed
    acknowledged,   \* sessions whose event was answered 200
    webhook,        \* per delivery, what it does next, and about what
    faults

checkout == <<pc, customer, session, again>>
stripe == <<customers, deleted, metadata>>
vars == <<stored, credit_orders, topups, checkout, stripe, completed,
          acknowledged, webhook, faults>>

Idle == [at |-> "idle", session |-> None, order |-> None]
Opened == {s \in Sessions : metadata[s] # None}

(* Stripe makes up a new id; which one makes no difference.                *)
NewId(S) == CHOOSE x \in S : TRUE

Init ==
    /\ stored = [u \in Users |-> None]
    /\ credit_orders = [o \in Orders |-> [status |-> "none", session |-> None]]
    /\ topups = [s \in Sessions |-> 0]
    /\ pc = [o \in Orders |-> "idle"]
    /\ customer = [o \in Orders |-> None]
    /\ session = [o \in Orders |-> None]
    /\ again = [o \in Orders |-> FALSE]
    /\ customers = {} /\ deleted = {}
    /\ metadata = [s \in Sessions |-> None]
    /\ completed = {} /\ acknowledged = {}
    /\ webhook = [d \in Deliveries |-> Idle]
    /\ faults = 0

Fault == faults < MaxFaults /\ faults' = faults + 1

(***************************************************************************)
(* createCheckoutSession                                                   *)
(***************************************************************************)
At(o, p) == pc[o] = p
Goto(o, p) == pc' = [pc EXCEPT ![o] = p]
Return(o, p) ==
    /\ Goto(o, p)
    /\ customer' = [customer EXCEPT ![o] = None]
    /\ session' = [session EXCEPT ![o] = None]
    /\ again' = [again EXCEPT ![o] = FALSE]

beside == <<topups, completed, acknowledged, webhook>>

(* The profile is read before the customer is looked up at Stripe.         *)
LoadProfile(o) ==
    /\ At(o, "idle")
    /\ customer' = [customer EXCEPT ![o] = stored[OrderUser[o]]]
    /\ Goto(o, IF stored[OrderUser[o]] = None THEN "newCustomer" ELSE "retrieve")
    /\ UNCHANGED <<stored, credit_orders, session, again, stripe, beside, faults>>

(* ensureStripeCustomer: a deleted customer is replaced.                   *)
RetrieveCustomer(o) ==
    /\ At(o, "retrieve")
    /\ Goto(o, IF customer[o] \in deleted THEN "newCustomer" ELSE "insert")
    /\ UNCHANGED <<stored, credit_orders, customer, session, again, stripe, beside, faults>>

CreateCustomer(o) ==
    /\ At(o, "newCustomer")
    /\ Customers \ customers # {}
    /\ LET c == NewId(Customers \ customers) IN
       /\ customers' = customers \cup {c}
       /\ customer' = [customer EXCEPT ![o] = c]
    /\ Goto(o, "saveCustomer")
    /\ UNCHANGED <<stored, credit_orders, session, again, deleted, metadata, beside, faults>>

PersistCustomer(o) ==
    /\ At(o, "saveCustomer")
    /\ stored' = [stored EXCEPT ![OrderUser[o]] = customer[o]]
    /\ Goto(o, IF again[o] THEN "create" ELSE "insert")
    /\ UNCHANGED <<credit_orders, customer, session, again, stripe, beside, faults>>

InsertedOrder(o) == [credit_orders EXCEPT ![o].status = "pending"]

InsertOrder(o) ==
    /\ At(o, "insert")
    /\ credit_orders' = InsertedOrder(o)
    /\ Goto(o, "create")
    /\ UNCHANGED <<stored, customer, session, again, stripe, beside, faults>>

Open(o, s) == metadata' = [metadata EXCEPT ![s] = o]

CreateSession(o) ==
    /\ At(o, "create") /\ customer[o] \notin deleted
    /\ Sessions \ Opened # {}
    /\ LET s == NewId(Sessions \ Opened) IN
       /\ Open(o, s)
       /\ session' = [session EXCEPT ![o] = s]
    /\ Goto(o, "save")
    /\ UNCHANGED <<stored, credit_orders, customer, again, customers, deleted, beside, faults>>

(* Stripe refuses a customer deleted in the meantime: once, the handler    *)
(* makes a new one and tries again with it.                                *)
CustomerRefused(o) ==
    /\ At(o, "create") /\ customer[o] \in deleted
    /\ IF again[o] THEN Return(o, "failed")
       ELSE /\ again' = [again EXCEPT ![o] = TRUE]
            /\ Goto(o, "newCustomer")
            /\ UNCHANGED <<customer, session>>
    /\ UNCHANGED <<stored, credit_orders, stripe, beside, faults>>

(* Mutant: the row is written anew, pending, although it may be paid.      *)
SavedSessionResets(o) ==
    [credit_orders EXCEPT ![o] = [status |-> "pending", session |-> session[o]]]

SavedSession(o) == [credit_orders EXCEPT ![o].session = session[o]]

(* The answer with the session's url follows.                              *)
SaveSession(o) ==
    /\ At(o, "save")
    /\ credit_orders' = SavedSession(o)
    /\ Return(o, "done")
    /\ UNCHANGED <<stored, stripe, beside, faults>>

(* A step that fails ends the call with an error: nothing was stored, or   *)
(* what was stored stays without an answer.                                *)
CheckoutFails(o) ==
    /\ Fault
    /\ pc[o] \in {"retrieve", "newCustomer", "saveCustomer", "insert", "create", "save"}
    /\ Return(o, "failed")
    /\ \/ UNCHANGED <<stored, credit_orders, metadata, customers>>
       \/ /\ At(o, "newCustomer") /\ Customers \ customers # {}
          /\ customers' = customers \cup {NewId(Customers \ customers)}
          /\ UNCHANGED <<stored, credit_orders, metadata>>
       \/ /\ At(o, "saveCustomer")
          /\ stored' = [stored EXCEPT ![OrderUser[o]] = customer[o]]
          /\ UNCHANGED <<credit_orders, metadata, customers>>
       \/ /\ At(o, "insert") /\ credit_orders' = InsertedOrder(o)
          /\ UNCHANGED <<stored, metadata, customers>>
       \/ /\ At(o, "create") /\ customer[o] \notin deleted /\ Sessions \ Opened # {}
          /\ Open(o, NewId(Sessions \ Opened))
          /\ UNCHANGED <<stored, credit_orders, customers>>
       \/ /\ At(o, "save") /\ credit_orders' = SavedSession(o)
          /\ UNCHANGED <<stored, metadata, customers>>
    /\ UNCHANGED <<deleted, beside>>

(***************************************************************************)
(* Stripe and its customers                                                *)
(***************************************************************************)
(* A session can be completed as soon as it is open: nothing below relies  *)
(* on its url being given out last.  Its payment may have arrived, arrive  *)
(* later or never, with a method that takes days: the event says which in  *)
(* payment_status, and the handler reads no such thing.                    *)
CompleteSession(s) ==
    /\ s \in Opened \ completed
    /\ completed' = completed \cup {s}
    /\ UNCHANGED <<stored, credit_orders, topups, checkout, stripe,
                   acknowledged, webhook, faults>>

DeleteCustomer(c) ==
    /\ Cardinality(deleted) < MaxDeleted
    /\ c \in customers \ deleted
    /\ deleted' = deleted \cup {c}
    /\ UNCHANGED <<stored, credit_orders, checkout, customers, metadata, beside, faults>>

(* The event is sent at least once, and again after it was answered.       *)
Deliver(d, s) ==
    /\ webhook[d].at = "idle" /\ s \in completed
    /\ webhook' = [webhook EXCEPT ![d] = [at |-> "ledger", session |-> s, order |-> None]]
    /\ UNCHANGED <<stored, credit_orders, topups, checkout, stripe, completed,
                   acknowledged, faults>>

(***************************************************************************)
(* handleStripeWebhook                                                     *)
(***************************************************************************)
shop == <<stored, checkout, stripe, completed>>
Step(d, p) == webhook' = [webhook EXCEPT ![d].at = p]

Acknowledge(d) ==
    /\ acknowledged' = acknowledged \cup {webhook[d].session}
    /\ webhook' = [webhook EXCEPT ![d] = Idle]

(* isCheckoutSessionAlreadyCredited                                        *)
CheckLedger(d) ==
    /\ webhook[d].at = "ledger"
    /\ \/ topups[webhook[d].session] > 0 /\ Acknowledge(d)
       \/ /\ topups[webhook[d].session] = 0 /\ Step(d, "bySession")
          /\ UNCHANGED acknowledged
    /\ UNCHANGED <<shop, credit_orders, topups, faults>>

(* An order found pending is completed in a later statement; one found     *)
(* paid is a duplicate.  (Nothing writes the other statuses of the column, *)
(* for which the handler answers 200 too.)                                 *)
Found(d, o) ==
    \/ credit_orders[o].status = "paid" /\ Acknowledge(d)
    \/ /\ credit_orders[o].status = "pending"
       /\ webhook' = [webhook EXCEPT ![d] = [@ EXCEPT !.at = "complete", !.order = o]]
       /\ UNCHANGED acknowledged

(* The order is looked for by the user of the session.                     *)
OrdersOfUser(s) == {o \in Orders : /\ credit_orders[o].status = "pending"
                                   /\ OrderUser[o] = OrderUser[metadata[s]]}

OrdersOf(s) == {o \in Orders : /\ credit_orders[o].status # "none"
                               /\ credit_orders[o].session = s}

(* Without the second lookup an unknown session is answered 200.           *)
LoadBySessionOnly(d) ==
    /\ webhook[d].at = "bySession"
    /\ \/ \E o \in OrdersOf(webhook[d].session) : Found(d, o)
       \/ OrdersOf(webhook[d].session) = {} /\ Acknowledge(d)
    /\ UNCHANGED <<shop, credit_orders, topups, faults>>

LoadBySession(d) ==
    /\ webhook[d].at = "bySession"
    /\ \/ \E o \in OrdersOf(webhook[d].session) : Found(d, o)
       \/ /\ OrdersOf(webhook[d].session) = {} /\ Step(d, "byMetadata")
          /\ UNCHANGED acknowledged
    /\ UNCHANGED <<shop, credit_orders, topups, faults>>

(* No order under the session's metadata either: 200 and no credit.        *)
LoadByMetadata(d) ==
    LET o == metadata[webhook[d].session] IN
    /\ webhook[d].at = "byMetadata"
    /\ IF credit_orders[o].status = "none" THEN Acknowledge(d) ELSE Found(d, o)
    /\ UNCHANGED <<shop, credit_orders, topups, faults>>

Mismatch(o, s) == credit_orders[o].session \notin {None, s}

(* Whether the order is paid is left to the handler's checks.              *)
AlreadyCreditedUnchecked(o, s) == FALSE

AlreadyCredited(o, s) == credit_orders[o].status = "paid" \/ topups[s] > 0

(* A replay stores the session and credits nothing; the procedure raises   *)
(* for the session of another order, which no delivery asks for.           *)
complete_credit_order(o, s) ==
    /\ ~ Mismatch(o, s)
    /\ topups' = IF AlreadyCredited(o, s) THEN topups ELSE [topups EXCEPT ![s] = @ + 1]
    /\ credit_orders' = [credit_orders EXCEPT ![o] = [status |-> "paid", session |-> s]]

Complete(d) ==
    /\ webhook[d].at = "complete"
    /\ complete_credit_order(webhook[d].order, webhook[d].session)
    /\ Acknowledge(d)
    /\ UNCHANGED <<shop, faults>>

(* An error of a lookup or of the procedure is logged and answered 200.    *)
DeliveryFailsQuietly(d) ==
    /\ Fault
    /\ webhook[d].at # "idle"
    /\ Acknowledge(d)
    /\ UNCHANGED <<shop, credit_orders, topups>>

(* An error is answered 500, a dead process or a lost answer counts as one *)
(* for Stripe.                                                             *)
DeliveryFails(d) ==
    /\ Fault
    /\ webhook[d].at # "idle"
    /\ webhook' = [webhook EXCEPT ![d] = Idle]
    /\ \/ UNCHANGED <<credit_orders, topups>>
       \/ /\ webhook[d].at = "complete"
          /\ complete_credit_order(webhook[d].order, webhook[d].session)
    /\ UNCHANGED <<shop, acknowledged>>

Handle(d) ==
    CheckLedger(d) \/ LoadBySession(d) \/ LoadByMetadata(d) \/ Complete(d)

Checkout(o) ==
    \/ LoadProfile(o) \/ RetrieveCustomer(o) \/ CreateCustomer(o) \/ PersistCustomer(o)
    \/ InsertOrder(o) \/ CreateSession(o) \/ CustomerRefused(o) \/ SaveSession(o)
    \/ CheckoutFails(o)

Next ==
    \/ \E o \in Orders : Checkout(o)
    \/ \E s \in Sessions : CompleteSession(s) \/ \E d \in Deliveries : Deliver(d, s)
    \/ \E c \in Customers : DeleteCustomer(c)
    \/ \E d \in Deliveries : Handle(d) \/ DeliveryFails(d)

Spec == Init /\ [][Next]_vars

(* A request under way goes on, and Stripe repeats an event that has not   *)
(* been answered 200, whatever else it sends.                              *)
Redeliver(s) == s \notin acknowledged /\ \E d \in Deliveries : Deliver(d, s)

FairSpec ==
    /\ Spec
    /\ \A d \in Deliveries : WF_vars(Handle(d))
    /\ \A s \in Sessions : SF_vars(Redeliver(s))

(***************************************************************************)
(* Properties                                                              *)
(***************************************************************************)
Steps == {"idle", "retrieve", "newCustomer", "saveCustomer", "insert", "create",
          "save", "done", "failed"}
Places == {"idle", "ledger", "bySession", "byMetadata", "complete"}

TypeOK ==
    /\ stored \in [Users -> Customers \cup {None}]
    /\ credit_orders \in [Orders -> [status: {"none", "pending", "paid"},
                                     session: Sessions \cup {None}]]
    /\ topups \in [Sessions -> Nat]
    /\ pc \in [Orders -> Steps]
    /\ customer \in [Orders -> Customers \cup {None}]
    /\ session \in [Orders -> Sessions \cup {None}]
    /\ again \in [Orders -> BOOLEAN]
    /\ customers \subseteq Customers /\ deleted \subseteq customers
    /\ metadata \in [Sessions -> Orders \cup {None}]
    /\ completed \subseteq Opened
    /\ acknowledged \subseteq completed
    /\ webhook \in [Deliveries -> [at: Places, session: Sessions \cup {None},
                                   order: Orders \cup {None}]]
    /\ faults \in 0..MaxFaults

(* A session is opened for an order that is stored, and no order ever has  *)
(* the session of another: not in its row, not in the call that opened it, *)
(* not in a delivery that is about to complete it, so that the procedure   *)
(* never raises credit_order_session_mismatch.                             *)
SessionsKeepTheirOrder ==
    /\ \A s \in Opened : credit_orders[metadata[s]].status # "none"
    /\ \A o \in Orders : /\ credit_orders[o].session # None =>
                              metadata[credit_orders[o].session] = o
                         /\ session[o] # None => metadata[session[o]] = o
    /\ \A s, t \in Opened : metadata[s] = metadata[t] => s = t
    /\ \A d \in Deliveries : webhook[d].at = "complete" =>
          /\ webhook[d].order = metadata[webhook[d].session]
          /\ ~ Mismatch(webhook[d].order, webhook[d].session)

CheckoutInv == TypeOK /\ SessionsKeepTheirOrder

(* What Stripe will not report again has been credited: a session answered *)
(* 200 has its topup, whatever duplicates, errors and lost answers went    *)
(* before (handleCheckoutSessionCompleted answers 200 on five paths).      *)
AcknowledgedIsCredited ==
    \A s \in acknowledged :
        /\ topups[s] = 1
        /\ credit_orders[metadata[s]] = [status |-> "paid", session |-> s]

(* Deliveries of one event that overtake each other between the handler's  *)
(* checks credit it once, and an order has the status paid exactly when    *)
(* its own session was credited.                                           *)
OneCreditPerSession ==
    /\ \A s \in Sessions :
          /\ topups[s] <= 1
          /\ topups[s] = 1 => credit_orders[metadata[s]].status = "paid"
    /\ \A o \in Orders : credit_orders[o].status = "paid" =>
          \E s \in Sessions : /\ credit_orders[o].session = s
                              /\ metadata[s] = o /\ topups[s] = 1

(* Every completed session, and so every payment, is credited in the end:  *)
(* Stripe repeats what was not answered 200, and errors are answered 500.  *)
CompletedIsCredited == \A s \in Sessions : s \in completed ~> topups[s] = 1

(* What the shop makes of complete_credit_order is what the procedure      *)
(* promises.                                                               *)
Credited == {<<OrderUser[metadata[s]], s>> : s \in {x \in Sessions : topups[x] > 0}}

OrderState == [o \in Orders |-> [status |-> credit_orders[o].status,
                                 checkout |-> credit_orders[o].session]]

O == INSTANCE OrderPayments WITH orders <- OrderState, topups <- Credited,
                                 Checkouts <- Sessions, Stored <- {}
ImplementsOrderPayments == O!Spec
=============================================================================

------------------------ MODULE StripeCheckoutProofs ------------------------
(***************************************************************************)
(* Proofs about checkout and webhook, for any users, orders, sessions,     *)
(* customers and deliveries, and any number of faults.                     *)
(***************************************************************************)
EXTENDS StripeCheckout, TLAPS

(* Where a call of createCheckoutSession stands says what it has stored.   *)
Fresh(o) ==
    \/ pc[o] \in {"idle", "retrieve", "insert"}
    \/ pc[o] \in {"newCustomer", "saveCustomer"} /\ ~ again[o]

Unopened(o) ==
    pc[o] \in {"idle", "retrieve", "newCustomer", "saveCustomer", "insert", "create"}

CallsInPlace ==
    \A o \in Orders :
        /\ Fresh(o) => credit_orders[o].status = "none"
        /\ ~ Fresh(o) => credit_orders[o].status # "none" \/ pc[o] = "failed"
        /\ Unopened(o) => \A s \in Sessions : metadata[s] # o
        /\ session[o] # None <=> pc[o] = "save"
        /\ again[o] => pc[o] \in {"newCustomer", "saveCustomer", "create", "save"}

(* A delivery, and a topup, is about a session its customer completed.     *)
EventsInPlace ==
    /\ \A d \in Deliveries : webhook[d].at # "idle" => webhook[d].session \in completed
    /\ \A s \in Sessions : topups[s] > 0 => s \in completed

Money == SessionsKeepTheirOrder /\ AcknowledgedIsCredited /\ OneCreditPerSession

IInv == TypeOK /\ Money /\ CallsInPlace /\ EventsInPlace

-----------------------------------------------------------------------------
LEMMA FreshSession ==
    ASSUME TypeOK, Sessions \ Opened # {}, NEW s, s = NewId(Sessions \ Opened)
    PROVE  s \in Sessions /\ metadata[s] = None
<1>1. s \in Sessions \ Opened
  BY DEF NewId
<1>2. QED
  BY <1>1 DEF Opened

LEMMA FreshCustomer ==
    ASSUME Customers \ customers # {}
    PROVE  NewId(Customers \ customers) \in Customers
  BY DEF NewId

(* What a completed session is about: its order is stored, and it is the   *)
(* only session of that order.                                             *)
LEMMA CompletedSession ==
    ASSUME IInv, NEW s \in completed
    PROVE  /\ s \in Sessions /\ s \in Opened /\ metadata[s] \in Orders
           /\ credit_orders[metadata[s]].status # "none"
           /\ \A t \in Sessions : metadata[t] = metadata[s] => t = s
<1>1. s \in Sessions /\ s \in Opened /\ metadata[s] # None
  BY DEF IInv, TypeOK, Opened
<1>2. metadata[s] \in Orders
  BY <1>1 DEF IInv, TypeOK
<1>3. \A t \in Sessions : metadata[t] = metadata[s] => t \in Opened
  BY <1>1 DEF Opened
<1>4. QED
  BY <1>1, <1>2, <1>3 DEF IInv, Money, SessionsKeepTheirOrder

(* A session is credited exactly when its order is paid, and the order     *)
(* then has that session.                                                  *)
LEMMA CreditedSession ==
    ASSUME IInv, NEW s \in completed,
           topups[s] > 0 \/ credit_orders[metadata[s]].status = "paid"
    PROVE  /\ topups[s] = 1
           /\ credit_orders[metadata[s]] = [status |-> "paid", session |-> s]
<1>1. /\ s \in Sessions /\ metadata[s] \in Orders
      /\ \A t \in Sessions : metadata[t] = metadata[s] => t = s
  BY CompletedSession
<1>2. /\ topups[s] \in Nat /\ topups[s] <= 1
      /\ credit_orders[metadata[s]] \in [status: {"none", "pending", "paid"},
                                         session: Sessions \cup {None}]
  BY <1>1 DEF IInv, TypeOK, Money, OneCreditPerSession
<1>3. credit_orders[metadata[s]].status = "paid"
  BY <1>1, <1>2 DEF IInv, Money, OneCreditPerSession
<1>4. PICK t \in Sessions : /\ credit_orders[metadata[s]].session = t
                            /\ metadata[t] = metadata[s] /\ topups[t] = 1
  BY <1>1, <1>3 DEF IInv, Money, OneCreditPerSession
<1>5. t = s
  BY <1>1, <1>4
<1>6. QED
  BY <1>2, <1>3, <1>4, <1>5

-----------------------------------------------------------------------------
LEMMA InitHolds == ASSUME Init PROVE IInv
<1>1. TypeOK
  BY CheckoutAssumption DEF Init, TypeOK, Steps, Places, Idle, Opened
<1>2. Opened = {}
  BY DEF Init, Opened
<1>3. Money
  BY <1>2 DEF Init, Money, SessionsKeepTheirOrder, AcknowledgedIsCredited,
              OneCreditPerSession, Idle
<1>4. CallsInPlace /\ EventsInPlace
  BY CheckoutAssumption DEF Init, CallsInPlace, EventsInPlace, Fresh, Unopened, Idle
<1>5. QED
  BY <1>1, <1>3, <1>4 DEF IInv

(* Steps that leave the tables and Stripe's sessions as they are.          *)
LEMMA MoneyStays ==
    ASSUME IInv, UNCHANGED <<credit_orders, topups, metadata, completed, acknowledged, webhook>>,
           \A o \in Orders : session'[o] \in {session[o], None}
    PROVE  Money' /\ EventsInPlace' /\ Opened' = Opened
<1>1. Opened' = Opened
  BY DEF Opened
<1>2. SessionsKeepTheirOrder'
  BY <1>1 DEF IInv, Money, SessionsKeepTheirOrder, Mismatch
<1>3. AcknowledgedIsCredited' /\ OneCreditPerSession'
  BY DEF IInv, Money, AcknowledgedIsCredited, OneCreditPerSession
<1>4. EventsInPlace'
  BY DEF IInv, EventsInPlace
<1>5. QED
  BY <1>1, <1>2, <1>3, <1>4 DEF Money

(* A call that moves on, or returns.                                       *)
LEMMA Goes ==
    ASSUME TypeOK, NEW o \in Orders, NEW p \in Steps, Goto(o, p)
    PROVE  /\ pc' \in [Orders -> Steps] /\ pc'[o] = p
           /\ \A x \in Orders \ {o} : pc'[x] = pc[x]
  BY DEF TypeOK, Goto

LEMMA Returns ==
    ASSUME TypeOK, NEW o \in Orders, NEW p \in Steps, Return(o, p)
    PROVE  /\ pc' \in [Orders -> Steps] /\ pc'[o] = p
           /\ customer' \in [Orders -> Customers \cup {None}]
           /\ session' \in [Orders -> Sessions \cup {None}] /\ session'[o] = None
           /\ again' \in [Orders -> BOOLEAN] /\ again'[o] = FALSE
           /\ \A x \in Orders \ {o} : /\ pc'[x] = pc[x] /\ session'[x] = session[x]
                                      /\ again'[x] = again[x]
<1>1. Goto(o, p) /\ customer' = [customer EXCEPT ![o] = None]
      /\ session' = [session EXCEPT ![o] = None] /\ again' = [again EXCEPT ![o] = FALSE]
  BY DEF Return
<1>2. pc' \in [Orders -> Steps] /\ pc'[o] = p /\ \A x \in Orders \ {o} : pc'[x] = pc[x]
  BY <1>1, Goes
<1>3. QED
  BY <1>1, <1>2 DEF TypeOK

(* The steps up to the insert, and the customer's replacement.             *)
Preparing(o) ==
    LoadProfile(o) \/ RetrieveCustomer(o) \/ CreateCustomer(o) \/ PersistCustomer(o)

LEMMA PreparingKeeps ==
    ASSUME IInv, NEW o \in Orders, Preparing(o)
    PROVE  IInv'
<1>1. /\ UNCHANGED <<credit_orders, topups, metadata, completed, acknowledged, webhook>>
      /\ UNCHANGED <<session, again, deleted, faults>>
  BY DEF Preparing, LoadProfile, RetrieveCustomer, CreateCustomer, PersistCustomer, beside, stripe
<1>2. Money' /\ EventsInPlace' /\ Opened' = Opened
  BY <1>1, MoneyStays
<1>3. PICK p \in Steps :
         /\ Goto(o, p)
         /\ Fresh(o) \/ again[o]
         /\ p \in {"retrieve", "newCustomer", "saveCustomer", "insert", "create"}
         /\ p \in {"insert", "retrieve"} => Fresh(o)
         /\ p = "create" => again[o]
         /\ pc[o] \in {"idle", "retrieve", "newCustomer", "saveCustomer"}
  BY DEF Preparing, LoadProfile, RetrieveCustomer, CreateCustomer, PersistCustomer, At,
         Fresh, Steps
<1>4. /\ pc' \in [Orders -> Steps] /\ pc'[o] = p
      /\ \A x \in Orders \ {o} : pc'[x] = pc[x]
  BY <1>3, Goes DEF IInv
<1>5. customer' \in [Orders -> Customers \cup {None}] /\ customers' \subseteq Customers
      /\ customers \subseteq customers' /\ stored' \in [Users -> Customers \cup {None}]
  <2>1. CASE LoadProfile(o) \/ RetrieveCustomer(o)
    BY <2>1, CheckoutAssumption DEF LoadProfile, RetrieveCustomer, IInv, TypeOK, stripe
  <2>2. CASE CreateCustomer(o)
    BY <2>2, FreshCustomer DEF CreateCustomer, IInv, TypeOK
  <2>3. CASE PersistCustomer(o)
    BY <2>3, CheckoutAssumption DEF PersistCustomer, IInv, TypeOK, stripe
  <2>4. QED
    BY <2>1, <2>2, <2>3 DEF Preparing
<1>6. TypeOK'
  BY <1>1, <1>2, <1>4, <1>5 DEF IInv, TypeOK
<1>7. CallsInPlace'
  <2>1. SUFFICES ASSUME NEW x \in Orders
                 PROVE  /\ Fresh(x)' => credit_orders'[x].status = "none"
                        /\ ~ Fresh(x)' => credit_orders'[x].status # "none" \/ pc'[x] = "failed"
                        /\ Unopened(x)' => \A s \in Sessions : metadata'[s] # x
                        /\ session'[x] # None <=> pc'[x] = "save"
                        /\ again'[x] => pc'[x] \in {"newCustomer", "saveCustomer", "create", "save"}
    BY DEF CallsInPlace
  <2>2. CASE x = o
    BY <1>1, <1>3, <1>4, <2>2 DEF IInv, CallsInPlace, Fresh, Unopened
  <2>3. CASE x # o
    BY <1>1, <1>4, <2>3 DEF IInv, CallsInPlace, Fresh, Unopened
  <2>4. QED
    BY <2>2, <2>3
<1>8. QED
  BY <1>2, <1>6, <1>7 DEF IInv

-----------------------------------------------------------------------------
(* The three writes of a call, whether or not their answer arrives.        *)
Elsewhere == UNCHANGED <<topups, completed, acknowledged, webhook>>

LEMMA InsertKeepsMoney ==
    ASSUME IInv, NEW o \in Orders, At(o, "insert"), credit_orders' = InsertedOrder(o),
           Elsewhere, metadata' = metadata,
           \A x \in Orders : session'[x] \in {session[x], None}
    PROVE  /\ Money' /\ EventsInPlace' /\ Opened' = Opened
           /\ credit_orders' \in [Orders -> [status: {"none", "pending", "paid"},
                                            session: Sessions \cup {None}]]
           /\ credit_orders'[o].status # "none"
           /\ \A x \in Orders \ {o} : credit_orders'[x] = credit_orders[x]
<1> USE DEF Elsewhere
<1>1. /\ credit_orders[o].status = "none" /\ \A s \in Sessions : metadata[s] # o
      /\ credit_orders \in [Orders -> [status: {"none", "pending", "paid"},
                                       session: Sessions \cup {None}]]
      /\ metadata \in [Sessions -> Orders \cup {None}]
  BY DEF IInv, TypeOK, CallsInPlace, Fresh, Unopened, At
<1>2. /\ credit_orders' \in [Orders -> [status: {"none", "pending", "paid"},
                                        session: Sessions \cup {None}]]
      /\ credit_orders'[o].status = "pending"
      /\ credit_orders'[o].session = credit_orders[o].session
      /\ \A x \in Orders \ {o} : credit_orders'[x] = credit_orders[x]
  BY <1>1 DEF InsertedOrder
<1>3. Opened' = Opened /\ \A s \in Opened : metadata[s] # o /\ s \in Sessions
  BY <1>1 DEF Opened
<1>4. \A s \in completed : metadata[s] \in Orders \ {o}
  BY <1>1, CompletedSession
<1>5. \A d \in Deliveries : webhook[d].at = "complete" =>
          /\ webhook[d].order = metadata[webhook[d].session]
          /\ webhook[d].order \in Orders \ {o}
          /\ ~ Mismatch(webhook[d].order, webhook[d].session)
  BY <1>4 DEF IInv, Money, SessionsKeepTheirOrder, EventsInPlace
<1>6. SessionsKeepTheirOrder'
  <2>1. \A s \in Opened : credit_orders'[metadata[s]].status # "none"
    BY <1>1, <1>2, <1>3 DEF IInv, Money, SessionsKeepTheirOrder, Opened
  <2>2. \A x \in Orders : /\ credit_orders'[x].session # None =>
                               metadata[credit_orders'[x].session] = x
                          /\ session'[x] # None => metadata[session'[x]] = x
    BY <1>2 DEF IInv, Money, SessionsKeepTheirOrder
  <2>3. \A d \in Deliveries : webhook[d].at = "complete" =>
             ~ Mismatch(webhook[d].order, webhook[d].session)'
    BY <1>2, <1>5 DEF Mismatch
  <2>4. \A s, t \in Opened : metadata[s] = metadata[t] => s = t
    BY DEF IInv, Money, SessionsKeepTheirOrder
  <2>5. QED
    BY <1>3, <1>5, <2>1, <2>2, <2>3, <2>4 DEF SessionsKeepTheirOrder
<1>7. AcknowledgedIsCredited'
  <2>1. \A s \in acknowledged : s \in completed
    BY DEF IInv, TypeOK
  <2>2. QED
    BY <1>2, <1>4, <2>1 DEF IInv, Money, AcknowledgedIsCredited
<1>8. OneCreditPerSession'
  BY <1>2, <1>4 DEF IInv, Money, OneCreditPerSession, EventsInPlace
<1>9. EventsInPlace'
  BY DEF IInv, EventsInPlace
<1>10. QED
  BY <1>2, <1>3, <1>6, <1>7, <1>8, <1>9 DEF Money

LEMMA OpenKeepsMoney ==
    ASSUME IInv, NEW o \in Orders, At(o, "create"), Elsewhere, credit_orders' = credit_orders,
           NEW s \in Sessions, metadata[s] = None, Open(o, s),
           session'[o] \in {s, None}, \A x \in Orders \ {o} : session'[x] = session[x]
    PROVE  /\ Money' /\ EventsInPlace' /\ Opened' = Opened \cup {s}
           /\ metadata' \in [Sessions -> Orders \cup {None}] /\ metadata'[s] = o
           /\ \A t \in Sessions \ {s} : metadata'[t] = metadata[t]
<1> USE DEF Elsewhere
<1>1. /\ credit_orders[o].status # "none" /\ \A t \in Sessions : metadata[t] # o
      /\ metadata \in [Sessions -> Orders \cup {None}]
      /\ credit_orders \in [Orders -> [status: {"none", "pending", "paid"},
                                       session: Sessions \cup {None}]]
      /\ session \in [Orders -> Sessions \cup {None}]
  BY DEF IInv, TypeOK, CallsInPlace, Fresh, Unopened, At
<1>2. /\ metadata' \in [Sessions -> Orders \cup {None}] /\ metadata'[s] = o
      /\ \A t \in Sessions \ {s} : metadata'[t] = metadata[t]
  BY <1>1 DEF Open
<1>3. Opened' = Opened \cup {s} /\ s \notin Opened
  BY <1>2, CheckoutAssumption DEF Opened
<1>4. \A t \in completed : t \in Sessions \ {s} /\ metadata'[t] = metadata[t]
  BY <1>2, <1>3, CompletedSession
<1>5. SessionsKeepTheirOrder'
  <2>1. \A t \in Opened' : credit_orders[metadata'[t]].status # "none"
    BY <1>1, <1>2, <1>3 DEF IInv, Money, SessionsKeepTheirOrder, Opened
  <2>2. \A x \in Orders : /\ credit_orders[x].session # None =>
                               metadata'[credit_orders[x].session] = x
                          /\ session'[x] # None => metadata'[session'[x]] = x
    <3>1. \A x \in Orders : /\ credit_orders[x].session # None =>
                                 metadata[credit_orders[x].session] = x
                            /\ session[x] # None => metadata[session[x]] = x
      BY DEF IInv, Money, SessionsKeepTheirOrder
    <3>2. \A x \in Orders : x # None
      BY CheckoutAssumption
    <3>3. QED
      BY <1>1, <1>2, <3>1, <3>2
  <2>3. \A t, v \in Opened' : metadata'[t] = metadata'[v] => t = v
    <3>1. \A t, v \in Opened : metadata[t] = metadata[v] => t = v
      BY DEF IInv, Money, SessionsKeepTheirOrder
    <3>2. \A t \in Opened : t \in Sessions \ {s}
      BY <1>3 DEF Opened
    <3>3. QED
      BY <1>1, <1>2, <1>3, <3>1, <3>2
  <2>4. \A d \in Deliveries : webhook[d].at = "complete" =>
          /\ webhook[d].order = metadata'[webhook[d].session]
          /\ ~ Mismatch(webhook[d].order, webhook[d].session)'
    BY <1>4 DEF IInv, Money, SessionsKeepTheirOrder, EventsInPlace, Mismatch
  <2>5. QED
    BY <2>1, <2>2, <2>3, <2>4 DEF SessionsKeepTheirOrder
<1>6. AcknowledgedIsCredited'
  <2>1. \A t \in acknowledged : t \in completed
    BY DEF IInv, TypeOK
  <2>2. QED
    BY <1>4, <2>1 DEF IInv, Money, AcknowledgedIsCredited
<1>7. OneCreditPerSession'
  <2>1. \A t \in Sessions : metadata[t] \in Orders => metadata'[t] = metadata[t]
    BY <1>2, CheckoutAssumption
  <2>2. QED
    BY <1>4, <2>1 DEF IInv, Money, OneCreditPerSession, EventsInPlace
<1>8. EventsInPlace'
  BY DEF IInv, EventsInPlace
<1>9. QED
  BY <1>2, <1>3, <1>5, <1>6, <1>7, <1>8 DEF Money

(* The order may have been completed meanwhile: under the same session.    *)
LEMMA SaveKeepsMoney ==
    ASSUME IInv, NEW o \in Orders, At(o, "save"), credit_orders' = SavedSession(o),
           Elsewhere, metadata' = metadata,
           \A x \in Orders : session'[x] \in {session[x], None}
    PROVE  /\ Money' /\ EventsInPlace' /\ Opened' = Opened
           /\ credit_orders' \in [Orders -> [status: {"none", "pending", "paid"},
                                            session: Sessions \cup {None}]]
           /\ \A x \in Orders : credit_orders'[x].status = credit_orders[x].status
<1> USE DEF Elsewhere
<1>1. PICK s \in Sessions : s = session[o] /\ metadata[s] = o
  BY CheckoutAssumption
     DEF IInv, TypeOK, CallsInPlace, At, Money, SessionsKeepTheirOrder
<1>2. /\ metadata \in [Sessions -> Orders \cup {None}]
      /\ credit_orders \in [Orders -> [status: {"none", "pending", "paid"},
                                       session: Sessions \cup {None}]]
  BY DEF IInv, TypeOK
<1>3. /\ credit_orders' \in [Orders -> [status: {"none", "pending", "paid"},
                                        session: Sessions \cup {None}]]
      /\ credit_orders'[o].status = credit_orders[o].status
      /\ credit_orders'[o].session = s
      /\ \A x \in Orders \ {o} : credit_orders'[x] = credit_orders[x]
  BY <1>1, <1>2 DEF SavedSession
<1>4. Opened' = Opened /\ s \in Opened
  BY <1>1, CheckoutAssumption DEF Opened
<1>5. \A t \in Opened : metadata[t] = o => t = s
  BY <1>1, <1>4 DEF IInv, Money, SessionsKeepTheirOrder
<1>6. credit_orders[o].session \in {s, None}
  <2>1. credit_orders[o].session # None =>
           /\ credit_orders[o].session \in Sessions
           /\ metadata[credit_orders[o].session] = o
    BY <1>2 DEF IInv, Money, SessionsKeepTheirOrder
  <2>2. QED
    BY <1>5, <2>1, CheckoutAssumption DEF Opened
<1>7. SessionsKeepTheirOrder'
  <2>1. \A t \in Opened : credit_orders'[metadata[t]].status # "none"
    BY <1>2, <1>3 DEF IInv, Money, SessionsKeepTheirOrder, Opened
  <2>2. \A x \in Orders : /\ credit_orders'[x].session # None =>
                               metadata[credit_orders'[x].session] = x
                          /\ session'[x] # None => metadata[session'[x]] = x
    BY <1>1, <1>3 DEF IInv, Money, SessionsKeepTheirOrder
  <2>3. \A d \in Deliveries : webhook[d].at = "complete" =>
          /\ webhook[d].order = metadata[webhook[d].session]
          /\ ~ Mismatch(webhook[d].order, webhook[d].session)'
    <3>1. SUFFICES ASSUME NEW d \in Deliveries, webhook[d].at = "complete"
                   PROVE  /\ webhook[d].order = metadata[webhook[d].session]
                          /\ ~ Mismatch(webhook[d].order, webhook[d].session)'
      OBVIOUS
    <3>2. /\ webhook[d].order = metadata[webhook[d].session]
          /\ ~ Mismatch(webhook[d].order, webhook[d].session)
          /\ webhook[d].session \in completed
      BY <3>1 DEF IInv, Money, SessionsKeepTheirOrder, EventsInPlace
    <3>3. webhook[d].order \in Orders /\ webhook[d].session \in Opened
      BY <3>2, CompletedSession
    <3>4. QED
      BY <1>3, <1>5, <3>2, <3>3 DEF Mismatch
  <2>4. \A t, v \in Opened : metadata[t] = metadata[v] => t = v
    BY DEF IInv, Money, SessionsKeepTheirOrder
  <2>5. QED
    BY <1>4, <2>1, <2>2, <2>3, <2>4 DEF SessionsKeepTheirOrder
<1>8. \A x \in Orders : credit_orders[x].status = "paid" =>
          credit_orders'[x] = credit_orders[x]
  <2>1. credit_orders[o].status = "paid" => credit_orders[o].session # None
    BY CheckoutAssumption DEF IInv, Money, OneCreditPerSession
  <2>2. credit_orders[o].status = "paid" => credit_orders'[o].session = credit_orders[o].session
    BY <1>3, <1>6, <2>1
  <2>3. QED
    BY <1>2, <1>3, <2>2
<1>9. AcknowledgedIsCredited'
  <2>1. \A t \in acknowledged : t \in completed /\ metadata[t] \in Orders
    BY CompletedSession DEF IInv, TypeOK
  <2>2. \A t \in acknowledged :
           /\ topups[t] = 1
           /\ credit_orders[metadata[t]] = [status |-> "paid", session |-> t]
    BY DEF IInv, Money, AcknowledgedIsCredited
  <2>3. ASSUME NEW t \in acknowledged
        PROVE  credit_orders[metadata[t]].status = "paid"
    <3>1. t \in Sessions /\ topups[t] = 1
      BY <2>1, <2>2, CompletedSession
    <3>2. QED
      BY <3>1 DEF IInv, Money, OneCreditPerSession
  <2>4. \A t \in acknowledged : credit_orders'[metadata[t]] = credit_orders[metadata[t]]
    BY <1>8, <2>1, <2>3
  <2>5. QED
    BY <2>2, <2>4 DEF AcknowledgedIsCredited
<1>10. OneCreditPerSession'
  <2>1. \A t \in completed : metadata[t] \in Orders
    BY CompletedSession
  <2>2. \A x \in Orders : credit_orders'[x].status = credit_orders[x].status
    BY <1>3
  <2>3. QED
    BY <1>8, <2>1, <2>2 DEF IInv, Money, OneCreditPerSession, EventsInPlace
<1>11. EventsInPlace'
  BY DEF IInv, EventsInPlace
<1>12. QED
  BY <1>3, <1>4, <1>7, <1>9, <1>10, <1>11 DEF Money

-----------------------------------------------------------------------------
(* What is left of the invariant once the money is settled.                *)
LEMMA CallMoves ==
    ASSUME IInv, NEW o \in Orders, Opened' = Opened \/ Opened \subseteq Opened',
           \A x \in Orders \ {o} :
              /\ pc'[x] = pc[x] /\ session'[x] = session[x] /\ again'[x] = again[x]
              /\ credit_orders'[x].status = credit_orders[x].status
              /\ \A s \in Sessions : metadata'[s] = x => metadata[s] = x,
           /\ Fresh(o)' => credit_orders'[o].status = "none"
           /\ ~ Fresh(o)' => credit_orders'[o].status # "none" \/ pc'[o] = "failed"
           /\ Unopened(o)' => \A s \in Sessions : metadata'[s] # o
           /\ session'[o] # None <=> pc'[o] = "save"
           /\ again'[o] => pc'[o] \in {"newCustomer", "saveCustomer", "create", "save"}
    PROVE  CallsInPlace'
<1>1. ASSUME NEW x \in Orders, x # o
      PROVE  /\ Fresh(x)' => credit_orders'[x].status = "none"
             /\ ~ Fresh(x)' => credit_orders'[x].status # "none" \/ pc'[x] = "failed"
             /\ Unopened(x)' => \A s \in Sessions : metadata'[s] # x
             /\ session'[x] # None <=> pc'[x] = "save"
             /\ again'[x] => pc'[x] \in {"newCustomer", "saveCustomer", "create", "save"}
  BY <1>1 DEF IInv, CallsInPlace, Fresh, Unopened
<1>2. QED
  BY <1>1 DEF CallsInPlace

LEMMA InsertKeeps == ASSUME IInv, NEW o \in Orders, InsertOrder(o) PROVE IInv'
<1>1. /\ At(o, "insert") /\ credit_orders' = InsertedOrder(o) /\ Goto(o, "create")
      /\ Elsewhere /\ UNCHANGED <<stored, customer, session, again, customers, deleted,
                                  metadata, faults>>
  BY DEF InsertOrder, beside, stripe, Elsewhere
<1>2. /\ Money' /\ EventsInPlace' /\ Opened' = Opened
      /\ credit_orders' \in [Orders -> [status: {"none", "pending", "paid"},
                                        session: Sessions \cup {None}]]
      /\ credit_orders'[o].status # "none"
      /\ \A x \in Orders \ {o} : credit_orders'[x] = credit_orders[x]
  BY <1>1, InsertKeepsMoney
<1>3. /\ pc' \in [Orders -> Steps] /\ pc'[o] = "create"
      /\ \A x \in Orders \ {o} : pc'[x] = pc[x]
  BY <1>1, Goes DEF IInv, Steps
<1>4. TypeOK'
  BY <1>1, <1>2, <1>3 DEF IInv, TypeOK, Elsewhere
<1>5. CallsInPlace'
  BY <1>1, <1>2, <1>3, CallMoves DEF IInv, CallsInPlace, Fresh, Unopened, At
<1>6. QED
  BY <1>2, <1>4, <1>5 DEF IInv

LEMMA CreateKeeps == ASSUME IInv, NEW o \in Orders, CreateSession(o) PROVE IInv'
<1>1. PICK s : s = NewId(Sessions \ Opened)
  OBVIOUS
<1>2. /\ At(o, "create") /\ Sessions \ Opened # {} /\ Open(o, s)
      /\ session' = [session EXCEPT ![o] = s] /\ Goto(o, "save")
      /\ Elsewhere /\ UNCHANGED <<stored, credit_orders, customer, again, customers,
                                  deleted, faults>>
  BY <1>1 DEF CreateSession, beside, Elsewhere
<1>3. s \in Sessions /\ metadata[s] = None
  BY <1>1, <1>2, FreshSession DEF IInv
<1>4. /\ session' \in [Orders -> Sessions \cup {None}] /\ session'[o] = s
      /\ \A x \in Orders \ {o} : session'[x] = session[x]
  BY <1>2, <1>3 DEF IInv, TypeOK
<1>5. /\ Money' /\ EventsInPlace' /\ Opened' = Opened \cup {s}
      /\ metadata' \in [Sessions -> Orders \cup {None}] /\ metadata'[s] = o
      /\ \A t \in Sessions \ {s} : metadata'[t] = metadata[t]
  BY <1>2, <1>3, <1>4, OpenKeepsMoney
<1>6. /\ pc' \in [Orders -> Steps] /\ pc'[o] = "save"
      /\ \A x \in Orders \ {o} : pc'[x] = pc[x]
  BY <1>2, Goes DEF IInv, Steps
<1>7. TypeOK'
  BY <1>2, <1>4, <1>5, <1>6 DEF IInv, TypeOK, Elsewhere
<1>8. s # None
  BY <1>3, CheckoutAssumption
<1>9. credit_orders'[o].status # "none"
  BY <1>2 DEF IInv, CallsInPlace, Fresh, At
<1>10. /\ ~ Fresh(o)' /\ ~ Unopened(o)'
       /\ session'[o] # None <=> pc'[o] = "save"
  BY <1>4, <1>6, <1>8 DEF Fresh, Unopened
<1>11. \A x \in Orders \ {o} : \A t \in Sessions : metadata'[t] = x => metadata[t] = x
  BY <1>5
<1>12. again' = again /\ credit_orders' = credit_orders /\ Opened \subseteq Opened'
  BY <1>2, <1>5
<1>13. CallsInPlace'
  BY <1>4, <1>6, <1>9, <1>10, <1>11, <1>12, CallMoves
<1>14. QED
  BY <1>5, <1>7, <1>13 DEF IInv

LEMMA SaveKeeps == ASSUME IInv, NEW o \in Orders, SaveSession(o) PROVE IInv'
<1>1. /\ At(o, "save") /\ credit_orders' = SavedSession(o) /\ Return(o, "done")
      /\ Elsewhere /\ UNCHANGED <<stored, customers, deleted, metadata, faults>>
  BY DEF SaveSession, beside, stripe, Elsewhere
<1>2. /\ pc' \in [Orders -> Steps] /\ pc'[o] = "done"
      /\ customer' \in [Orders -> Customers \cup {None}]
      /\ session' \in [Orders -> Sessions \cup {None}] /\ session'[o] = None
      /\ again' \in [Orders -> BOOLEAN] /\ again'[o] = FALSE
      /\ \A x \in Orders \ {o} : /\ pc'[x] = pc[x] /\ session'[x] = session[x]
                                 /\ again'[x] = again[x]
  BY <1>1, Returns DEF IInv, Steps
<1>3. /\ Money' /\ EventsInPlace' /\ Opened' = Opened
      /\ credit_orders' \in [Orders -> [status: {"none", "pending", "paid"},
                                        session: Sessions \cup {None}]]
      /\ \A x \in Orders : credit_orders'[x].status = credit_orders[x].status
  BY <1>1, <1>2, SaveKeepsMoney
<1>4. TypeOK'
  BY <1>1, <1>2, <1>3 DEF IInv, TypeOK, Elsewhere
<1>5. CallsInPlace'
  BY <1>1, <1>2, <1>3, CallMoves DEF IInv, CallsInPlace, Fresh, Unopened, At
<1>6. QED
  BY <1>3, <1>4, <1>5 DEF IInv

LEMMA RefusedKeeps == ASSUME IInv, NEW o \in Orders, CustomerRefused(o) PROVE IInv'
<1>1. /\ At(o, "create") /\ Elsewhere
      /\ UNCHANGED <<stored, credit_orders, customers, deleted, metadata, faults>>
  BY DEF CustomerRefused, beside, stripe, Elsewhere
<1>2. CASE again[o]
  <2>1. Return(o, "failed")
    BY <1>2 DEF CustomerRefused
  <2>2. /\ pc' \in [Orders -> Steps] /\ pc'[o] = "failed"
        /\ customer' \in [Orders -> Customers \cup {None}]
        /\ session' \in [Orders -> Sessions \cup {None}] /\ session'[o] = None
        /\ again' \in [Orders -> BOOLEAN] /\ again'[o] = FALSE
        /\ \A x \in Orders \ {o} : /\ pc'[x] = pc[x] /\ session'[x] = session[x]
                                   /\ again'[x] = again[x]
    BY <2>1, Returns DEF IInv, Steps
  <2>3. Money' /\ EventsInPlace' /\ Opened' = Opened
    BY <1>1, <2>2, MoneyStays DEF Elsewhere
  <2>4. TypeOK'
    BY <1>1, <2>2, <2>3 DEF IInv, TypeOK, Elsewhere
  <2>5. CallsInPlace'
    BY <1>1, <2>2, <2>3, CallMoves DEF IInv, CallsInPlace, Fresh, Unopened, At
  <2>6. QED
    BY <2>3, <2>4, <2>5 DEF IInv
<1>3. CASE ~ again[o]
  <2>1. /\ again' = [again EXCEPT ![o] = TRUE] /\ Goto(o, "newCustomer")
        /\ UNCHANGED <<customer, session>>
    BY <1>3 DEF CustomerRefused
  <2>2. /\ pc' \in [Orders -> Steps] /\ pc'[o] = "newCustomer"
        /\ \A x \in Orders \ {o} : pc'[x] = pc[x]
    BY <2>1, Goes DEF IInv, Steps
  <2>3. /\ again' \in [Orders -> BOOLEAN] /\ again'[o] = TRUE
        /\ \A x \in Orders \ {o} : again'[x] = again[x]
    BY <2>1 DEF IInv, TypeOK
  <2>4. Money' /\ EventsInPlace' /\ Opened' = Opened
    BY <1>1, <2>1, MoneyStays DEF Elsewhere
  <2>5. TypeOK'
    BY <1>1, <2>1, <2>2, <2>3, <2>4 DEF IInv, TypeOK, Elsewhere
  <2>6. CallsInPlace'
    BY <1>1, <2>1, <2>2, <2>3, <2>4, CallMoves DEF IInv, CallsInPlace, Fresh, Unopened, At
  <2>7. QED
    BY <2>4, <2>5, <2>6 DEF IInv
<1>4. QED
  BY <1>2, <1>3

(* A call that fails has done all of a step or none of it.                 *)
LEMMA CheckoutFailsKeeps == ASSUME IInv, NEW o \in Orders, CheckoutFails(o) PROVE IInv'
<1>1. /\ Return(o, "failed") /\ Elsewhere /\ deleted' = deleted /\ faults' \in 0..MaxFaults
  BY CheckoutAssumption DEF CheckoutFails, Fault, beside, Elsewhere, IInv, TypeOK
<1>2. /\ pc' \in [Orders -> Steps] /\ pc'[o] = "failed"
      /\ customer' \in [Orders -> Customers \cup {None}]
      /\ session' \in [Orders -> Sessions \cup {None}] /\ session'[o] = None
      /\ again' \in [Orders -> BOOLEAN] /\ again'[o] = FALSE
      /\ \A x \in Orders \ {o} : /\ pc'[x] = pc[x] /\ session'[x] = session[x]
                                 /\ again'[x] = again[x]
  BY <1>1, Returns DEF IInv, Steps
<1>3. \A x \in Orders : session'[x] \in {session[x], None}
  BY <1>2
<1> DEFINE Kept ==
       /\ Money' /\ EventsInPlace' /\ Opened \subseteq Opened'
       /\ customers \subseteq customers' /\ customers' \subseteq Customers
       /\ stored' \in [Users -> Customers \cup {None}]
       /\ credit_orders' \in [Orders -> [status: {"none", "pending", "paid"},
                                         session: Sessions \cup {None}]]
       /\ metadata' \in [Sessions -> Orders \cup {None}]
       /\ \A x \in Orders \ {o} : credit_orders'[x].status = credit_orders[x].status
       /\ \A x \in Orders \ {o} : \A s \in Sessions : metadata'[s] = x => metadata[s] = x
<1>4. Kept
  <2>1. CASE UNCHANGED <<stored, credit_orders, metadata, customers>>
    <3>1. Money' /\ EventsInPlace' /\ Opened' = Opened
      BY <1>1, <1>3, <2>1, MoneyStays DEF Elsewhere
    <3>2. QED
      BY <2>1, <3>1 DEF IInv, TypeOK
  <2>2. CASE /\ Customers \ customers # {}
             /\ customers' = customers \cup {NewId(Customers \ customers)}
             /\ UNCHANGED <<stored, credit_orders, metadata>>
    <3>1. Money' /\ EventsInPlace' /\ Opened' = Opened
      BY <1>1, <1>3, <2>2, MoneyStays DEF Elsewhere
    <3>2. customers \subseteq customers' /\ customers' \subseteq Customers
      BY <2>2, FreshCustomer DEF IInv, TypeOK
    <3>3. QED
      BY <2>2, <3>1, <3>2 DEF IInv, TypeOK
  <2>3. CASE /\ stored' = [stored EXCEPT ![OrderUser[o]] = customer[o]]
             /\ UNCHANGED <<credit_orders, metadata, customers>>
    <3>1. Money' /\ EventsInPlace' /\ Opened' = Opened
      BY <1>1, <1>3, <2>3, MoneyStays DEF Elsewhere
    <3>2. stored' \in [Users -> Customers \cup {None}]
      BY <2>3, CheckoutAssumption DEF IInv, TypeOK
    <3>3. QED
      BY <2>3, <3>1, <3>2 DEF IInv, TypeOK
  <2>4. CASE /\ At(o, "insert") /\ credit_orders' = InsertedOrder(o)
             /\ UNCHANGED <<stored, metadata, customers>>
    <3>1. /\ Money' /\ EventsInPlace' /\ Opened' = Opened
          /\ credit_orders' \in [Orders -> [status: {"none", "pending", "paid"},
                                            session: Sessions \cup {None}]]
          /\ \A x \in Orders \ {o} : credit_orders'[x] = credit_orders[x]
      BY <1>1, <1>3, <2>4, InsertKeepsMoney
    <3>2. QED
      BY <2>4, <3>1 DEF IInv, TypeOK
  <2>5. CASE /\ At(o, "create") /\ Sessions \ Opened # {}
             /\ Open(o, NewId(Sessions \ Opened))
             /\ UNCHANGED <<stored, credit_orders, customers>>
    <3>1. PICK s : s = NewId(Sessions \ Opened)
      OBVIOUS
    <3>2. s \in Sessions /\ metadata[s] = None
      BY <2>5, <3>1, FreshSession DEF IInv
    <3>3. Open(o, s) /\ credit_orders' = credit_orders
      BY <2>5, <3>1
    <3>4. /\ Money' /\ EventsInPlace' /\ Opened' = Opened \cup {s}
          /\ metadata' \in [Sessions -> Orders \cup {None}] /\ metadata'[s] = o
          /\ \A t \in Sessions \ {s} : metadata'[t] = metadata[t]
      BY <1>1, <1>2, <2>5, <3>2, <3>3, OpenKeepsMoney
    <3>5. \A x \in Orders \ {o} : \A t \in Sessions : metadata'[t] = x => metadata[t] = x
      BY <3>4
    <3>6. QED
      BY <2>5, <3>4, <3>5 DEF IInv, TypeOK
  <2>6. CASE /\ At(o, "save") /\ credit_orders' = SavedSession(o)
             /\ UNCHANGED <<stored, metadata, customers>>
    <3>1. /\ Money' /\ EventsInPlace' /\ Opened' = Opened
          /\ credit_orders' \in [Orders -> [status: {"none", "pending", "paid"},
                                            session: Sessions \cup {None}]]
          /\ \A x \in Orders : credit_orders'[x].status = credit_orders[x].status
      BY <1>1, <1>3, <2>6, SaveKeepsMoney
    <3>2. QED
      BY <2>6, <3>1 DEF IInv, TypeOK
  <2>7. QED
    BY <2>1, <2>2, <2>3, <2>4, <2>5, <2>6 DEF CheckoutFails
<1>5. TypeOK'
  <2>1. completed' \subseteq Opened' /\ acknowledged' \subseteq completed' /\ deleted' \subseteq customers'
    BY <1>1, <1>4 DEF IInv, TypeOK, Elsewhere
  <2>2. topups' = topups /\ webhook' = webhook
    BY <1>1 DEF Elsewhere
  <2>3. QED
    BY <1>1, <1>2, <1>4, <2>1, <2>2 DEF IInv, TypeOK
<1>6. CallsInPlace'
  <2>1. ~ Fresh(o)' /\ ~ Unopened(o)'
    BY <1>2 DEF Fresh, Unopened
  <2>2. session'[o] # None <=> pc'[o] = "save"
    BY <1>2
  <2>3. QED
    BY <1>2, <1>4, <2>1, <2>2, CallMoves
<1>7. QED
  BY <1>4, <1>5, <1>6 DEF IInv

LEMMA CheckoutKeeps == ASSUME IInv, NEW o \in Orders, Checkout(o) PROVE IInv'
<1>1. CASE Preparing(o)
  BY <1>1, PreparingKeeps
<1>2. CASE ~ Preparing(o)
  BY <1>2, InsertKeeps, CreateKeeps, SaveKeeps, RefusedKeeps, CheckoutFailsKeeps
     DEF Checkout, Preparing
<1>3. QED
  BY <1>1, <1>2

-----------------------------------------------------------------------------
(* Stripe and its customers.                                               *)
LEMMA CallsStay ==
    ASSUME IInv, UNCHANGED <<pc, session, again, metadata>>,
           \A o \in Orders : credit_orders'[o].status = "none" <=> credit_orders[o].status = "none"
    PROVE  CallsInPlace' /\ Opened' = Opened
  BY DEF IInv, CallsInPlace, Fresh, Unopened, Opened

LEMMA CompleteSessionKeeps == ASSUME IInv, NEW s \in Sessions, CompleteSession(s) PROVE IInv'
<1>1. /\ s \in Opened /\ completed' = completed \cup {s}
      /\ UNCHANGED <<stored, credit_orders, topups, pc, customer, session, again, customers,
                     deleted, metadata, acknowledged, webhook, faults>>
  BY DEF CompleteSession, checkout, stripe
<1>2. CallsInPlace' /\ Opened' = Opened
  BY <1>1, CallsStay
<1>3. TypeOK'
  BY <1>1, <1>2 DEF IInv, TypeOK
<1>4. SessionsKeepTheirOrder' /\ AcknowledgedIsCredited' /\ OneCreditPerSession'
  BY <1>1, <1>2 DEF IInv, Money, SessionsKeepTheirOrder, Mismatch, AcknowledgedIsCredited,
                    OneCreditPerSession
<1>5. EventsInPlace'
  BY <1>1 DEF IInv, EventsInPlace
<1>6. QED
  BY <1>2, <1>3, <1>4, <1>5 DEF IInv, Money

LEMMA DeleteCustomerKeeps == ASSUME IInv, NEW c \in Customers, DeleteCustomer(c) PROVE IInv'
<1>1. /\ c \in customers /\ deleted' = deleted \cup {c}
      /\ UNCHANGED <<stored, credit_orders, topups, pc, customer, session, again, customers,
                     metadata, completed, acknowledged, webhook, faults>>
  BY DEF DeleteCustomer, checkout, beside
<1>2. CallsInPlace' /\ Opened' = Opened
  BY <1>1, CallsStay
<1>3. TypeOK'
  BY <1>1, <1>2 DEF IInv, TypeOK
<1>4. Money' /\ EventsInPlace'
  BY <1>1, MoneyStays
<1>5. QED
  BY <1>2, <1>3, <1>4 DEF IInv

(* A delivery that moves on without touching the tables.                   *)
LEMMA MoveKeeps ==
    ASSUME IInv, UNCHANGED <<shop, credit_orders, topups, acknowledged>>, faults' \in 0..MaxFaults,
           NEW d \in Deliveries,
           NEW w \in [at: Places, session: Sessions \cup {None}, order: Orders \cup {None}],
           webhook' = [webhook EXCEPT ![d] = w],
           w.at # "idle" => w.session \in completed,
           w.at = "complete" => w.order = metadata[w.session] /\ ~ Mismatch(w.order, w.session)
    PROVE  IInv'
<1>1. UNCHANGED <<stored, credit_orders, topups, pc, customer, session, again, customers,
                  deleted, metadata, completed, acknowledged>>
  BY DEF shop, checkout, stripe
<1>2. CallsInPlace' /\ Opened' = Opened
  BY <1>1, CallsStay
<1>3. webhook'[d] = w /\ \A x \in Deliveries \ {d} : webhook'[x] = webhook[x]
  BY DEF IInv, TypeOK
<1>4. TypeOK'
  BY <1>1, <1>2 DEF IInv, TypeOK
<1>5. \A x \in Deliveries : webhook'[x].at = "complete" =>
         /\ webhook'[x].order = metadata[webhook'[x].session]
         /\ ~ Mismatch(webhook'[x].order, webhook'[x].session)
  BY <1>3 DEF IInv, Money, SessionsKeepTheirOrder
<1>6. SessionsKeepTheirOrder'
  BY <1>1, <1>2, <1>5 DEF IInv, Money, SessionsKeepTheirOrder, Mismatch
<1>7. AcknowledgedIsCredited' /\ OneCreditPerSession'
  BY <1>1 DEF IInv, Money, AcknowledgedIsCredited, OneCreditPerSession
<1>8. EventsInPlace'
  BY <1>1, <1>3 DEF IInv, EventsInPlace
<1>9. QED
  BY <1>2, <1>4, <1>6, <1>7, <1>8 DEF IInv, Money

LEMMA IdleIsPlaced ==
    Idle \in [at: Places, session: Sessions \cup {None}, order: Orders \cup {None}]
  BY DEF Idle, Places

LEMMA DeliverKeeps ==
    ASSUME IInv, NEW d \in Deliveries, NEW s \in Sessions, Deliver(d, s) PROVE IInv'
<1>1. /\ s \in completed
      /\ webhook' = [webhook EXCEPT ![d] = [at |-> "ledger", session |-> s, order |-> None]]
      /\ UNCHANGED <<shop, credit_orders, topups, acknowledged>> /\ faults' = faults
  BY DEF Deliver, shop
<1>2. faults' \in 0..MaxFaults
  BY <1>1 DEF IInv, TypeOK
<1>3. [at |-> "ledger", session |-> s, order |-> None]
         \in [at: Places, session: Sessions \cup {None}, order: Orders \cup {None}]
  BY DEF Places
<1>4. QED
  BY <1>1, <1>2, <1>3, MoveKeeps

(* A delivery answered 200 is about a session that is credited.            *)
LEMMA AcknowledgeKeeps ==
    ASSUME IInv, UNCHANGED <<shop, credit_orders, topups, faults>>, NEW d \in Deliveries,
           webhook[d].at # "idle", Acknowledge(d),
           \/ topups[webhook[d].session] > 0
           \/ credit_orders[metadata[webhook[d].session]].status = "paid"
    PROVE  IInv'
<1>1. PICK s \in completed : s = webhook[d].session
  BY DEF IInv, EventsInPlace
<1>2. acknowledged' = acknowledged \cup {s} /\ webhook' = [webhook EXCEPT ![d] = Idle]
  BY <1>1 DEF Acknowledge
<1>3. UNCHANGED <<stored, credit_orders, topups, pc, customer, session, again, customers,
                  deleted, metadata, completed, faults>>
  BY DEF shop, checkout, stripe
<1>4. /\ topups[s] = 1 /\ credit_orders[metadata[s]] = [status |-> "paid", session |-> s]
  BY <1>1, CreditedSession
<1>5. CallsInPlace' /\ Opened' = Opened
  BY <1>3, CallsStay
<1>6. \A x \in Deliveries : webhook'[x] \in {webhook[x], Idle}
  BY <1>2 DEF IInv, TypeOK
<1>7. TypeOK'
  BY <1>2, <1>3, <1>5, IdleIsPlaced DEF IInv, TypeOK
<1>8. SessionsKeepTheirOrder'
  BY <1>3, <1>5, <1>6 DEF IInv, Money, SessionsKeepTheirOrder, Mismatch, Idle
<1>9. AcknowledgedIsCredited'
  BY <1>2, <1>3, <1>4 DEF IInv, Money, AcknowledgedIsCredited
<1>10. OneCreditPerSession'
  BY <1>3 DEF IInv, Money, OneCreditPerSession
<1>11. EventsInPlace'
  BY <1>3, <1>6 DEF IInv, EventsInPlace, Idle
<1>12. QED
  BY <1>5, <1>7, <1>8, <1>9, <1>10, <1>11 DEF IInv, Money

LEMMA StepKeeps ==
    ASSUME IInv, UNCHANGED <<shop, credit_orders, topups, acknowledged, faults>>,
           NEW d \in Deliveries, webhook[d].at # "idle",
           NEW p \in Places, p # "complete", Step(d, p)
    PROVE  IInv'
<1>1. PICK w : w = [webhook[d] EXCEPT !.at = p]
  OBVIOUS
<1>2. /\ w \in [at: Places, session: Sessions \cup {None}, order: Orders \cup {None}]
      /\ w.at = p /\ w.session = webhook[d].session
  BY <1>1 DEF IInv, TypeOK
<1>3. webhook' = [webhook EXCEPT ![d] = w]
  BY <1>1 DEF Step, IInv, TypeOK
<1>4. w.session \in completed /\ faults' \in 0..MaxFaults
  BY <1>2 DEF IInv, EventsInPlace, TypeOK
<1>5. QED
  BY <1>2, <1>3, <1>4, MoveKeeps

LEMMA CheckLedgerKeeps == ASSUME IInv, NEW d \in Deliveries, CheckLedger(d) PROVE IInv'
<1>1. webhook[d].at = "ledger" /\ UNCHANGED <<shop, credit_orders, topups, faults>>
  BY DEF CheckLedger
<1>2. CASE topups[webhook[d].session] > 0 /\ Acknowledge(d)
  BY <1>1, <1>2, AcknowledgeKeeps
<1>3. CASE Step(d, "bySession") /\ acknowledged' = acknowledged
  BY <1>1, <1>3, StepKeeps DEF Places
<1>4. QED
  BY <1>2, <1>3 DEF CheckLedger

(* The order a lookup finds is the one the session was opened for.         *)
LEMMA FoundKeeps ==
    ASSUME IInv, NEW d \in Deliveries, webhook[d].at # "idle",
           UNCHANGED <<shop, credit_orders, topups, faults>>,
           NEW o \in Orders, o = metadata[webhook[d].session], Found(d, o)
    PROVE  IInv'
<1>1. CASE credit_orders[o].status = "paid" /\ Acknowledge(d)
  BY <1>1, AcknowledgeKeeps
<1>2. CASE /\ webhook' = [webhook EXCEPT ![d] = [@ EXCEPT !.at = "complete", !.order = o]]
           /\ acknowledged' = acknowledged
  <2>1. PICK s \in completed : s = webhook[d].session
    BY DEF IInv, EventsInPlace
  <2>2. s \in Opened /\ \A t \in Opened : metadata[t] = o => t = s
    BY <2>1, CompletedSession DEF Opened, IInv, Money, SessionsKeepTheirOrder
  <2>3. ~ Mismatch(o, s)
    <3>1. credit_orders[o].session \in Sessions \cup {None}
      BY DEF IInv, TypeOK
    <3>2. credit_orders[o].session # None => metadata[credit_orders[o].session] = o
      BY DEF IInv, Money, SessionsKeepTheirOrder
    <3>3. credit_orders[o].session # None => credit_orders[o].session \in Opened
      BY <3>1, <3>2, CheckoutAssumption DEF Opened
    <3>4. QED
      BY <2>2, <3>2, <3>3 DEF Mismatch
  <2>4. PICK w : w = [webhook[d] EXCEPT !.at = "complete", !.order = o]
    OBVIOUS
  <2>5. /\ w \in [at: Places, session: Sessions \cup {None}, order: Orders \cup {None}]
        /\ w.at = "complete" /\ w.session = s /\ w.order = o
    <3>1. webhook[d] \in [at: Places, session: Sessions \cup {None}, order: Orders \cup {None}]
      BY DEF IInv, TypeOK
    <3>2. QED
      BY <2>1, <2>4, <3>1 DEF Places
  <2>6. webhook' = [webhook EXCEPT ![d] = w]
    BY <1>2, <2>4 DEF IInv, TypeOK
  <2>7. faults' \in 0..MaxFaults /\ UNCHANGED <<shop, credit_orders, topups, acknowledged>>
    BY <1>2 DEF IInv, TypeOK
  <2>8. QED
    BY <2>1, <2>3, <2>5, <2>6, <2>7, MoveKeeps
<1>3. QED
  BY <1>1, <1>2 DEF Found

LEMMA LoadBySessionKeeps == ASSUME IInv, NEW d \in Deliveries, LoadBySession(d) PROVE IInv'
<1>1. webhook[d].at = "bySession" /\ UNCHANGED <<shop, credit_orders, topups, faults>>
  BY DEF LoadBySession
<1>2. CASE Step(d, "byMetadata") /\ acknowledged' = acknowledged
  BY <1>1, <1>2, StepKeeps DEF Places
<1>3. CASE \E o \in OrdersOf(webhook[d].session) : Found(d, o)
  <2>1. PICK o \in OrdersOf(webhook[d].session) : Found(d, o)
    BY <1>3
  <2>2. webhook[d].session # None
    BY <1>1, CheckoutAssumption, CompletedSession DEF IInv, EventsInPlace
  <2>3. o \in Orders /\ o = metadata[webhook[d].session]
    BY <2>1, <2>2 DEF OrdersOf, IInv, Money, SessionsKeepTheirOrder
  <2>4. QED
    BY <1>1, <2>1, <2>3, FoundKeeps
<1>4. QED
  BY <1>2, <1>3 DEF LoadBySession

LEMMA LoadByMetadataKeeps == ASSUME IInv, NEW d \in Deliveries, LoadByMetadata(d) PROVE IInv'
<1>1. webhook[d].at = "byMetadata" /\ UNCHANGED <<shop, credit_orders, topups, faults>>
  BY DEF LoadByMetadata
<1>2. /\ metadata[webhook[d].session] \in Orders
      /\ credit_orders[metadata[webhook[d].session]].status # "none"
  BY <1>1, CompletedSession DEF IInv, EventsInPlace
<1>3. Found(d, metadata[webhook[d].session])
  BY <1>2 DEF LoadByMetadata
<1>4. QED
  BY <1>1, <1>2, <1>3, FoundKeeps

-----------------------------------------------------------------------------
(* The procedure credits the session and pays its order, or replays.       *)
LEMMA CompletedKeeps ==
    ASSUME IInv, NEW d \in Deliveries, webhook[d].at = "complete", shop' = shop,
           faults' \in 0..MaxFaults,
           complete_credit_order(webhook[d].order, webhook[d].session),
           webhook' = [webhook EXCEPT ![d] = Idle],
           acknowledged' \in {acknowledged, acknowledged \cup {webhook[d].session}}
    PROVE  IInv'
<1>1. UNCHANGED <<stored, pc, customer, session, again, customers, deleted, metadata, completed>>
  BY DEF shop, checkout, stripe
<1>2. PICK s \in completed : s = webhook[d].session
  BY DEF IInv, EventsInPlace
<1>3. /\ s \in Sessions /\ s \in Opened /\ metadata[s] \in Orders
      /\ credit_orders[metadata[s]].status # "none"
      /\ \A t \in Sessions : metadata[t] = metadata[s] => t = s
  BY CompletedSession
<1>4. PICK o \in Orders : o = metadata[s] /\ o = webhook[d].order
  BY <1>2, <1>3 DEF IInv, Money, SessionsKeepTheirOrder
<1>5. /\ topups \in [Sessions -> Nat]
      /\ credit_orders \in [Orders -> [status: {"none", "pending", "paid"},
                                       session: Sessions \cup {None}]]
  BY DEF IInv, TypeOK
<1>6. /\ topups' = IF AlreadyCredited(o, s) THEN topups ELSE [topups EXCEPT ![s] = @ + 1]
      /\ credit_orders' = [credit_orders EXCEPT ![o] = [status |-> "paid", session |-> s]]
  BY <1>2, <1>4 DEF complete_credit_order
<1>7. /\ credit_orders' \in [Orders -> [status: {"none", "pending", "paid"},
                                        session: Sessions \cup {None}]]
      /\ credit_orders'[o] = [status |-> "paid", session |-> s]
      /\ \A x \in Orders \ {o} : credit_orders'[x] = credit_orders[x]
  BY <1>3, <1>5, <1>6
<1>8. /\ topups' \in [Sessions -> Nat] /\ topups'[s] = 1
      /\ \A t \in Sessions \ {s} : topups'[t] = topups[t]
  <2>1. CASE AlreadyCredited(o, s)
    BY <1>4, <1>5, <1>6, <2>1, CreditedSession DEF AlreadyCredited
  <2>2. CASE ~ AlreadyCredited(o, s)
    <3>1. topups[s] = 0 /\ topups' = [topups EXCEPT ![s] = @ + 1]
      BY <1>3, <1>5, <1>6, <2>2 DEF AlreadyCredited
    <3>2. QED
      BY <1>3, <1>5, <3>1
  <2>3. QED
    BY <2>1, <2>2
<1>9. credit_orders'[o].status = "paid" /\ credit_orders'[o].session = s
  BY <1>7
<1>10. CallsInPlace' /\ Opened' = Opened
  <2>1. \A x \in Orders : credit_orders'[x].status = "none" <=> credit_orders[x].status = "none"
    BY <1>3, <1>4, <1>7, <1>9
  <2>2. QED
    BY <1>1, <2>1, CallsStay
<1>11. \A x \in Deliveries : webhook'[x] \in {webhook[x], Idle}
  BY DEF IInv, TypeOK
<1>12. TypeOK'
  <2>1. acknowledged' \subseteq completed
    BY <1>2 DEF IInv, TypeOK
  <2>2. QED
    BY <1>1, <1>7, <1>8, <1>10, <2>1, IdleIsPlaced DEF IInv, TypeOK
<1>13. SessionsKeepTheirOrder'
  <2>1. \A t \in Opened : credit_orders'[metadata[t]].status # "none"
    BY <1>5, <1>7, <1>9 DEF IInv, TypeOK, Money, SessionsKeepTheirOrder, Opened
  <2>2. \A x \in Orders : /\ credit_orders'[x].session # None =>
                               metadata[credit_orders'[x].session] = x
                          /\ session[x] # None => metadata[session[x]] = x
    <3>1. \A x \in Orders : /\ credit_orders[x].session # None =>
                                 metadata[credit_orders[x].session] = x
                            /\ session[x] # None => metadata[session[x]] = x
      BY DEF IInv, Money, SessionsKeepTheirOrder
    <3>2. metadata[credit_orders'[o].session] = o
      BY <1>4, <1>9
    <3>3. \A x \in Orders \ {o} : credit_orders'[x].session = credit_orders[x].session
      BY <1>7
    <3>4. QED
      BY <3>1, <3>2, <3>3
  <2>3. \A x \in Deliveries : webhook'[x].at = "complete" =>
           /\ webhook'[x].order = metadata[webhook'[x].session]
           /\ credit_orders'[webhook'[x].order].session \in {None, webhook'[x].session}
    <3>1. SUFFICES ASSUME NEW x \in Deliveries, webhook'[x].at = "complete"
                   PROVE  /\ webhook'[x].order = metadata[webhook'[x].session]
                          /\ credit_orders'[webhook'[x].order].session \in {None, webhook'[x].session}
      OBVIOUS
    <3>2. webhook'[x] = webhook[x]
      BY <1>11, <3>1 DEF Idle
    <3>3. /\ webhook[x].session \in completed
          /\ webhook[x].order = metadata[webhook[x].session]
          /\ ~ Mismatch(webhook[x].order, webhook[x].session)
      BY <3>1, <3>2 DEF IInv, Money, SessionsKeepTheirOrder, EventsInPlace
    <3>4. webhook[x].session \in Sessions /\ webhook[x].order \in Orders
      BY <3>3, CompletedSession
    <3>5. CASE webhook[x].order = o
      BY <1>3, <1>4, <1>9, <3>2, <3>3, <3>4, <3>5
    <3>6. CASE webhook[x].order # o
      BY <1>7, <3>2, <3>3, <3>4, <3>6 DEF Mismatch
    <3>7. QED
      BY <3>5, <3>6
  <2>4. \A t, v \in Opened : metadata[t] = metadata[v] => t = v
    BY DEF IInv, Money, SessionsKeepTheirOrder
  <2>5. QED
    BY <1>1, <1>10, <2>1, <2>2, <2>3, <2>4 DEF SessionsKeepTheirOrder, Mismatch
<1>14. AcknowledgedIsCredited'
  <2>1. SUFFICES ASSUME NEW t \in acknowledged'
                 PROVE  /\ topups'[t] = 1
                        /\ credit_orders'[metadata[t]] = [status |-> "paid", session |-> t]
    BY <1>1 DEF AcknowledgedIsCredited
  <2>2. CASE t = s
    BY <1>4, <1>7, <1>8, <2>2
  <2>3. CASE t # s
    <3>1. t \in acknowledged /\ t \in completed
      BY <1>2, <2>1, <2>3 DEF IInv, TypeOK
    <3>2. t \in Sessions /\ metadata[t] \in Orders \ {o}
      BY <1>3, <1>4, <2>3, <3>1, CompletedSession
    <3>3. topups'[t] = topups[t] /\ credit_orders'[metadata[t]] = credit_orders[metadata[t]]
      BY <1>7, <1>8, <2>3, <3>2
    <3>4. /\ topups[t] = 1
          /\ credit_orders[metadata[t]] = [status |-> "paid", session |-> t]
      BY <3>1 DEF IInv, Money, AcknowledgedIsCredited
    <3>5. QED
      BY <3>3, <3>4
  <2>4. QED
    BY <2>2, <2>3
<1>15. OneCreditPerSession'
  <2>1. ASSUME NEW t \in Sessions
        PROVE  /\ topups'[t] <= 1
               /\ topups'[t] = 1 => credit_orders'[metadata[t]].status = "paid"
    <3>1. CASE t = s
      <4>1. topups'[t] = 1 /\ metadata[t] = o
        BY <1>4, <1>8, <3>1
      <4>2. QED
        BY <1>9, <4>1
    <3>2. CASE t # s
      <4>1. /\ topups'[t] = topups[t] /\ topups[t] <= 1
            /\ topups[t] = 1 => t \in completed /\ credit_orders[metadata[t]].status = "paid"
        BY <1>8, <3>2 DEF IInv, Money, OneCreditPerSession, EventsInPlace
      <4>2. t \in completed => metadata[t] \in Orders \ {o}
        BY <1>3, <1>4, <3>2, CompletedSession
      <4>3. QED
        BY <1>7, <4>1, <4>2
    <3>3. QED
      BY <3>1, <3>2
  <2>2. ASSUME NEW x \in Orders, credit_orders'[x].status = "paid"
        PROVE  \E t \in Sessions : /\ credit_orders'[x].session = t
                                   /\ metadata[t] = x /\ topups'[t] = 1
    <3>1. CASE x = o
      BY <1>3, <1>4, <1>8, <1>9, <3>1
    <3>2. CASE x # o
      <4>1. credit_orders'[x] = credit_orders[x]
        BY <1>7, <3>2
      <4>2. PICK t \in Sessions : /\ credit_orders[x].session = t
                                  /\ metadata[t] = x /\ topups[t] = 1
        BY <2>2, <4>1 DEF IInv, Money, OneCreditPerSession
      <4>3. t # s
        BY <1>4, <3>2, <4>2
      <4>4. QED
        BY <1>8, <4>1, <4>2, <4>3
    <3>3. QED
      BY <3>1, <3>2
  <2>3. QED
    BY <1>1, <2>1, <2>2 DEF OneCreditPerSession
<1>16. EventsInPlace'
  <2>1. \A t \in Sessions : topups'[t] > 0 => t \in completed
    BY <1>8 DEF IInv, EventsInPlace
  <2>2. QED
    BY <1>1, <1>11, <2>1 DEF IInv, EventsInPlace, Idle
<1>17. QED
  BY <1>10, <1>12, <1>13, <1>14, <1>15, <1>16 DEF IInv, Money

LEMMA CompleteKeeps == ASSUME IInv, NEW d \in Deliveries, Complete(d) PROVE IInv'
<1>1. /\ webhook[d].at = "complete" /\ UNCHANGED <<shop, faults>>
      /\ complete_credit_order(webhook[d].order, webhook[d].session)
      /\ acknowledged' = acknowledged \cup {webhook[d].session}
      /\ webhook' = [webhook EXCEPT ![d] = Idle]
  BY DEF Complete, Acknowledge
<1>2. faults' \in 0..MaxFaults
  BY <1>1 DEF IInv, TypeOK
<1>3. QED
  BY <1>1, <1>2, CompletedKeeps

LEMMA DeliveryFailsKeeps == ASSUME IInv, NEW d \in Deliveries, DeliveryFails(d) PROVE IInv'
<1>1. /\ webhook' = [webhook EXCEPT ![d] = Idle] /\ UNCHANGED <<shop, acknowledged>>
      /\ faults' \in 0..MaxFaults
  BY CheckoutAssumption DEF DeliveryFails, Fault, IInv, TypeOK
<1>2. CASE UNCHANGED <<credit_orders, topups>>
  <2>1. Idle.at = "idle"
    BY DEF Idle
  <2>2. QED
    BY <1>1, <1>2, <2>1, IdleIsPlaced, MoveKeeps
<1>3. CASE /\ webhook[d].at = "complete"
           /\ complete_credit_order(webhook[d].order, webhook[d].session)
  BY <1>1, <1>3, CompletedKeeps
<1>4. QED
  BY <1>2, <1>3 DEF DeliveryFails

-----------------------------------------------------------------------------
LEMMA NextKeeps == ASSUME IInv, [Next]_vars PROVE IInv'
<1>1. ASSUME NEW o \in Orders, Checkout(o) PROVE IInv'
  BY <1>1, CheckoutKeeps
<1>2. ASSUME NEW s \in Sessions, CompleteSession(s) PROVE IInv'
  BY <1>2, CompleteSessionKeeps
<1>3. ASSUME NEW s \in Sessions, NEW d \in Deliveries, Deliver(d, s) PROVE IInv'
  BY <1>3, DeliverKeeps
<1>4. ASSUME NEW c \in Customers, DeleteCustomer(c) PROVE IInv'
  BY <1>4, DeleteCustomerKeeps
<1>5. ASSUME NEW d \in Deliveries, Handle(d) \/ DeliveryFails(d) PROVE IInv'
  BY <1>5, CheckLedgerKeeps, LoadBySessionKeeps, LoadByMetadataKeeps, CompleteKeeps,
     DeliveryFailsKeeps DEF Handle
<1>6. CASE UNCHANGED vars
  <2>1. UNCHANGED <<shop, credit_orders, topups, acknowledged, webhook, faults>>
    BY <1>6 DEF vars, shop
  <2>2. UNCHANGED <<stored, pc, customer, session, again, customers, deleted, metadata, completed>>
    BY <2>1 DEF shop, checkout, stripe
  <2>3. CallsInPlace' /\ Opened' = Opened
    BY <2>1, <2>2, CallsStay
  <2>4. Money' /\ EventsInPlace'
    BY <2>1, <2>2, MoneyStays
  <2>5. TypeOK'
    BY <2>1, <2>2, <2>3 DEF IInv, TypeOK
  <2>6. QED
    BY <2>3, <2>4, <2>5 DEF IInv
<1>7. QED
  BY <1>1, <1>2, <1>3, <1>4, <1>5, <1>6 DEF Next

LEMMA IInvAlways == Spec => []IInv
<1>1. Init => IInv
  BY InitHolds
<1>2. IInv /\ [Next]_vars => IInv'
  BY NextKeeps
<1>3. QED
  BY <1>1, <1>2, PTL DEF Spec

(* No order ever has another's session, whichever of the handler's two     *)
(* lookups finds it, so that the procedure never raises a mismatch.        *)
THEOREM CheckoutInvariant == Spec => []CheckoutInv
<1>1. IInv => CheckoutInv
  BY DEF IInv, Money, CheckoutInv
<1>2. QED
  BY <1>1, IInvAlways, PTL

(* What was answered 200 was credited, on every path of the handler.       *)
THEOREM AcknowledgedWereCredited == Spec => []AcknowledgedIsCredited
<1>1. IInv => AcknowledgedIsCredited
  BY DEF IInv, Money
<1>2. QED
  BY <1>1, IInvAlways, PTL

(* However often and however closely an event is delivered, it is credited *)
(* once, and an order is paid exactly when its session was credited.       *)
THEOREM OneCreditPerSessionAlways == Spec => []OneCreditPerSession
<1>1. IInv => OneCreditPerSession
  BY DEF IInv, Money
<1>2. QED
  BY <1>1, IInvAlways, PTL

-----------------------------------------------------------------------------
(* The shop implements OrderPayments.                                      *)

(* What a step may do to orders, topups and the metadata behind them.      *)
Aside == /\ UNCHANGED <<credit_orders, topups>>
         /\ \A s \in Sessions : topups[s] > 0 => metadata'[s] = metadata[s]

Inserts(o) == At(o, "insert") /\ credit_orders' = InsertedOrder(o)
              /\ UNCHANGED <<topups, metadata>>

Saves(o) == At(o, "save") /\ credit_orders' = SavedSession(o)
            /\ UNCHANGED <<topups, metadata>>

Completes(d) == /\ webhook[d].at = "complete" /\ UNCHANGED metadata
                /\ complete_credit_order(webhook[d].order, webhook[d].session)

LEMMA CreditedIsOpened ==
    ASSUME IInv, NEW s \in Sessions, topups[s] > 0
    PROVE  topups[s] = 1 /\ s \in completed /\ metadata[s] \in Orders
<1>1. topups[s] = 1 /\ s \in completed
  BY DEF IInv, TypeOK, Money, OneCreditPerSession, EventsInPlace
<1>2. QED
  BY <1>1, CompletedSession

LEMMA OpeningIsAside ==
    ASSUME IInv, UNCHANGED <<credit_orders, topups>>, Sessions \ Opened # {},
           NEW o \in Orders, Open(o, NewId(Sessions \ Opened))
    PROVE  Aside
<1>1. PICK s : s = NewId(Sessions \ Opened)
  OBVIOUS
<1>2. s \in Sessions /\ metadata[s] = None /\ metadata' = [metadata EXCEPT ![s] = o]
  BY <1>1, FreshSession DEF IInv, Open
<1>3. \A t \in Sessions : topups[t] > 0 => t # s
  BY <1>2, CreditedIsOpened, CheckoutAssumption
<1>4. QED
  BY <1>2, <1>3 DEF Aside, IInv, TypeOK

LEMMA CheckoutKinds ==
    ASSUME IInv, NEW o \in Orders, Checkout(o)
    PROVE  Aside \/ Inserts(o) \/ Saves(o)
<1>1. credit_orders' = credit_orders /\ topups' = topups /\ metadata' = metadata => Aside
  BY DEF Aside
<1>2. CASE InsertOrder(o)
  BY <1>2 DEF InsertOrder, Inserts, beside, stripe
<1>3. CASE SaveSession(o)
  BY <1>3 DEF SaveSession, Saves, beside, stripe
<1>4. CASE CreateSession(o)
  BY <1>4, OpeningIsAside DEF CreateSession, beside
<1>5. CASE CheckoutFails(o)
  <2>1. topups' = topups
    BY <1>5 DEF CheckoutFails, beside
  <2>2. CASE At(o, "insert") /\ credit_orders' = InsertedOrder(o) /\ UNCHANGED metadata
    BY <2>1, <2>2 DEF Inserts
  <2>3. CASE At(o, "save") /\ credit_orders' = SavedSession(o) /\ UNCHANGED metadata
    BY <2>1, <2>3 DEF Saves
  <2>4. CASE /\ Sessions \ Opened # {} /\ Open(o, NewId(Sessions \ Opened))
             /\ UNCHANGED credit_orders
    BY <2>1, <2>4, OpeningIsAside
  <2>5. QED
    BY <1>1, <1>5, <2>1, <2>2, <2>3, <2>4 DEF CheckoutFails
<1>6. CASE LoadProfile(o) \/ RetrieveCustomer(o) \/ CreateCustomer(o) \/ PersistCustomer(o)
             \/ CustomerRefused(o)
  BY <1>1, <1>6 DEF LoadProfile, RetrieveCustomer, CreateCustomer, PersistCustomer,
                    CustomerRefused, beside, stripe
<1>7. QED
  BY <1>2, <1>3, <1>4, <1>5, <1>6 DEF Checkout

LEMMA StepKinds ==
    ASSUME IInv, [Next]_vars
    PROVE  \/ Aside
           \/ \E o \in Orders : Inserts(o) \/ Saves(o)
           \/ \E d \in Deliveries : Completes(d)
<1>1. credit_orders' = credit_orders /\ topups' = topups /\ metadata' = metadata => Aside
  BY DEF Aside
<1>2. ASSUME NEW o \in Orders, Checkout(o) PROVE Aside \/ Inserts(o) \/ Saves(o)
  BY <1>2, CheckoutKinds
<1>3. ASSUME NEW s \in Sessions, NEW d \in Deliveries, CompleteSession(s) \/ Deliver(d, s) PROVE Aside
  BY <1>1, <1>3 DEF CompleteSession, Deliver, stripe
<1>4. ASSUME NEW s \in Sessions, CompleteSession(s) PROVE Aside
  BY <1>1, <1>4 DEF CompleteSession, stripe
<1>5. ASSUME NEW c \in Customers, DeleteCustomer(c) PROVE Aside
  BY <1>1, <1>5 DEF DeleteCustomer, beside
<1>6. ASSUME NEW d \in Deliveries, Handle(d) \/ DeliveryFails(d) PROVE Aside \/ Completes(d)
  <2>1. metadata' = metadata
    BY <1>6 DEF Handle, CheckLedger, LoadBySession, LoadByMetadata, Complete, DeliveryFails,
                shop, stripe
  <2>2. CASE CheckLedger(d) \/ LoadBySession(d) \/ LoadByMetadata(d)
    BY <1>1, <2>1, <2>2 DEF CheckLedger, LoadBySession, LoadByMetadata
  <2>3. CASE Complete(d)
    BY <2>1, <2>3 DEF Complete, Completes
  <2>4. CASE DeliveryFails(d)
    BY <1>1, <2>1, <2>4 DEF DeliveryFails, Completes
  <2>5. QED
    BY <1>6, <2>2, <2>3, <2>4 DEF Handle
<1>7. CASE UNCHANGED vars
  BY <1>1, <1>7 DEF vars, stripe
<1>8. QED
  BY <1>2, <1>3, <1>4, <1>5, <1>6, <1>7 DEF Next

(* Of the tables, only the order named changes.                            *)
LEMMA OneOrderSet ==
    ASSUME IInv, NEW o \in Orders, NEW x,
           credit_orders' = [credit_orders EXCEPT ![o] = x]
    PROVE  O!Set(o, x.status, x.session)
<1>1. /\ credit_orders'[o] = x
      /\ \A y \in Orders \ {o} : credit_orders'[y] = credit_orders[y]
  BY DEF IInv, TypeOK
<1>2. OrderState' = [y \in Orders |-> [status |-> credit_orders'[y].status,
                                       checkout |-> credit_orders'[y].session]]
  BY DEF OrderState
<1>3. QED
  BY <1>1, <1>2 DEF O!Set, OrderState

LEMMA CreditedStays ==
    ASSUME IInv, Aside \/ UNCHANGED <<topups, metadata>>
    PROVE  Credited' = Credited
<1>1. \A s \in Sessions : topups'[s] = topups[s] /\ (topups[s] > 0 => metadata'[s] = metadata[s])
  BY DEF Aside
<1>2. QED
  BY <1>1 DEF Credited

(* An order that has a session has its own, which no other order has.      *)
LEMMA OwnSession ==
    ASSUME IInv, NEW o \in Orders, NEW s \in Sessions, metadata[s] = o
    PROVE  credit_orders[o].session \in {None, s} /\ O!IsFree(o, s)
<1>1. \A x \in Orders : /\ credit_orders[x].session \in Sessions \cup {None}
                        /\ credit_orders[x].session # None =>
                              metadata[credit_orders[x].session] = x
  BY DEF IInv, TypeOK, Money, SessionsKeepTheirOrder
<1>2. \A t \in Sessions : metadata[t] = o => t = s
  BY CheckoutAssumption DEF IInv, Money, SessionsKeepTheirOrder, Opened
<1>3. \A x \in Orders \ {o} : credit_orders[x].session # s
  BY <1>1, CheckoutAssumption
<1>4. QED
  BY <1>1, <1>2, <1>3 DEF O!IsFree, OrderState

LEMMA InsertsIsInsert ==
    ASSUME IInv, NEW o \in Orders, Inserts(o)
    PROVE  O!Insert(o)
<1>1. credit_orders[o].status = "none" /\ \A s \in Sessions : metadata[s] # o
  BY DEF Inserts, IInv, CallsInPlace, Fresh, Unopened, At
<1>2. credit_orders[o].session = None
  BY <1>1 DEF IInv, TypeOK, Money, SessionsKeepTheirOrder
<1>3. PICK x : x = [credit_orders[o] EXCEPT !.status = "pending"]
  OBVIOUS
<1>4. x.status = "pending" /\ x.session = None
  BY <1>2, <1>3 DEF IInv, TypeOK
<1>5. credit_orders' = [credit_orders EXCEPT ![o] = x]
  BY <1>3 DEF Inserts, InsertedOrder
<1>6. O!Set(o, "pending", None)
  BY <1>4, <1>5, OneOrderSet
<1>7. Credited' = Credited
  BY CreditedStays DEF Inserts
<1>8. OrderState[o].status = "none"
  BY <1>1 DEF OrderState
<1>9. QED
  BY <1>6, <1>7, <1>8 DEF O!Insert

(* A session is saved in an order that has none, or once more after the    *)
(* webhook saved it.                                                       *)
LEMMA SavesIsAssign ==
    ASSUME IInv, NEW o \in Orders, Saves(o)
    PROVE  UNCHANGED <<OrderState, Credited>> \/ \E s \in Sessions : O!Assign(o, s)
<1>1. PICK s \in Sessions : s = session[o] /\ metadata[s] = o
  BY CheckoutAssumption
     DEF Saves, IInv, TypeOK, CallsInPlace, At, Money, SessionsKeepTheirOrder
<1>2. credit_orders[o].session \in {None, s} /\ O!IsFree(o, s)
  BY <1>1, OwnSession
<1>3. credit_orders[o] \in [status: {"none", "pending", "paid"}, session: Sessions \cup {None}]
  BY DEF IInv, TypeOK
<1>4. Credited' = Credited
  BY CreditedStays DEF Saves
<1>5. PICK x : x = [credit_orders[o] EXCEPT !.session = s]
  OBVIOUS
<1>6. x.status = credit_orders[o].status /\ x.session = s
  BY <1>3, <1>5
<1>7. credit_orders' = [credit_orders EXCEPT ![o] = x]
  BY <1>1, <1>5 DEF Saves, SavedSession
<1>8. CASE credit_orders[o].session = s
  <2>1. x = credit_orders[o]
    BY <1>3, <1>5, <1>8
  <2>2. credit_orders' = credit_orders
    BY <1>7, <2>1 DEF IInv, TypeOK
  <2>3. QED
    BY <1>4, <2>2 DEF OrderState
<1>9. CASE credit_orders[o].session # s
  <2>1. credit_orders[o].session = None
    BY <1>2, <1>9
  <2>2. credit_orders[o].status # "none"
    BY DEF Saves, At, IInv, CallsInPlace, Fresh
  <2>3. credit_orders[o].status # "paid"
    BY <2>1, CheckoutAssumption DEF IInv, Money, OneCreditPerSession
  <2>4. credit_orders[o].status = "pending"
    BY <1>3, <2>2, <2>3
  <2>5. OrderState[o] = [status |-> "pending", checkout |-> None]
    BY <2>1, <2>4 DEF OrderState
  <2>6. O!Set(o, "pending", s)
    BY <1>6, <1>7, <2>4, OneOrderSet
  <2>7. QED
    BY <1>2, <1>4, <2>5, <2>6 DEF O!Assign
<1>10. QED
  BY <1>8, <1>9

(* The procedure completes the order of a session that was not credited,   *)
(* or finds everything as it should be.                                    *)
LEMMA CompletesIsComplete ==
    ASSUME IInv, NEW d \in Deliveries, Completes(d)
    PROVE  \/ UNCHANGED <<OrderState, Credited>>
           \/ \E o \in Orders : \E s \in Sessions : O!Complete(o, s)
<1>1. PICK s \in completed : s = webhook[d].session
  BY DEF Completes, IInv, EventsInPlace
<1>2. s \in Sessions /\ metadata[s] \in Orders /\ credit_orders[metadata[s]].status # "none"
  BY CompletedSession
<1>3. PICK o \in Orders : o = metadata[s] /\ o = webhook[d].order
  BY <1>1, <1>2 DEF Completes, IInv, Money, SessionsKeepTheirOrder
<1>4. PICK x : x = [status |-> "paid", session |-> s]
  OBVIOUS
<1>5. /\ topups' = IF AlreadyCredited(o, s) THEN topups ELSE [topups EXCEPT ![s] = @ + 1]
      /\ credit_orders' = [credit_orders EXCEPT ![o] = x] /\ metadata' = metadata
  BY <1>1, <1>3, <1>4 DEF Completes, complete_credit_order
<1>6. credit_orders[o].session \in {None, s} /\ O!IsFree(o, s)
  BY <1>2, <1>3, OwnSession
<1>7. /\ topups \in [Sessions -> Nat]
      /\ credit_orders \in [Orders -> [status: {"none", "pending", "paid"},
                                       session: Sessions \cup {None}]]
  BY DEF IInv, TypeOK
<1>8. CASE AlreadyCredited(o, s)
  <2>1. credit_orders[o] = x
    BY <1>3, <1>4, <1>8, CreditedSession DEF AlreadyCredited
  <2>2. credit_orders' = credit_orders /\ topups' = topups
    BY <1>5, <1>7, <1>8, <2>1
  <2>3. QED
    BY <1>5, <2>2, CreditedStays DEF OrderState
<1>9. CASE ~ AlreadyCredited(o, s)
  <2>1. topups[s] = 0 /\ credit_orders[o].status = "pending"
    BY <1>2, <1>3, <1>7, <1>9 DEF AlreadyCredited
  <2>2. /\ topups'[s] = 1 /\ \A t \in Sessions \ {s} : topups'[t] = topups[t]
    BY <1>2, <1>5, <1>7, <1>9, <2>1
  <2>3. Credited' = Credited \cup {<<OrderUser[o], s>>}
    <3>1. \A t \in Sessions : topups'[t] > 0 <=> (topups[t] > 0 \/ t = s)
      BY <2>1, <2>2
    <3>2. QED
      BY <1>2, <1>3, <1>5, <3>1 DEF Credited
  <2>4. \A t \in Credited : t[2] # s
    BY <2>1 DEF Credited
  <2>5. OrderState[o].status = "pending" /\ OrderState[o].checkout \in {None, s}
    BY <1>6, <2>1 DEF OrderState
  <2>6. O!Set(o, "paid", s)
    <3>1. x.status = "paid" /\ x.session = s
      BY <1>4
    <3>2. QED
      BY <1>5, <3>1, OneOrderSet
  <2>7. QED
    BY <1>2, <1>6, <2>3, <2>4, <2>5, <2>6 DEF O!Complete
<1>10. QED
  BY <1>8, <1>9

(* What the shop stores and credits is what complete_credit_order          *)
(* promises, whatever calls fail, and however deliveries repeat and race.  *)
THEOREM CheckoutImplementsOrderPayments == Spec => ImplementsOrderPayments
<1>1. Init => O!Init
  BY DEF Init, O!Init, OrderState, Credited
<1>2. IInv /\ [Next]_vars => [O!Next]_<<OrderState, Credited>>
  <2>1. SUFFICES ASSUME IInv, [Next]_vars PROVE [O!Next]_<<OrderState, Credited>>
    OBVIOUS
  <2>2. CASE Aside
    <3>1. OrderState' = OrderState /\ Credited' = Credited
      BY <2>1, <2>2, CreditedStays DEF Aside, OrderState
    <3>2. QED
      BY <3>1
  <2>3. ASSUME NEW o \in Orders, Inserts(o) PROVE O!Next
    BY <2>1, <2>3, InsertsIsInsert DEF O!Next
  <2>4. ASSUME NEW o \in Orders, Saves(o)
        PROVE  UNCHANGED <<OrderState, Credited>> \/ O!Next
    BY <2>1, <2>4, SavesIsAssign DEF O!Next
  <2>5. ASSUME NEW d \in Deliveries, Completes(d)
        PROVE  UNCHANGED <<OrderState, Credited>> \/ O!Next
    BY <2>1, <2>5, CompletesIsComplete DEF O!Next
  <2>6. QED
    BY <2>1, <2>2, <2>3, <2>4, <2>5, StepKinds
<1>3. QED
  BY <1>1, <1>2, IInvAlways, PTL DEF Spec, ImplementsOrderPayments, O!Spec, O!vars
=============================================================================

SPECIFICATION FairSpec

CONSTANTS
    u = u
    o1 = o1
    o2 = o2
    d1 = d1
    d2 = d2
    None = None
    Users = {u}
    Orders = {o1, o2}
    OrderUser <- MCOrderUser
    Sessions = {1, 2}
    Customers = {1, 2, 3}
    Deliveries = {d1, d2}
    MaxFaults = 1
    MaxDeleted = 1

INVARIANT CheckoutInv
INVARIANT AcknowledgedIsCredited
INVARIANT OneCreditPerSession
PROPERTY CompletedIsCredited
PROPERTY ImplementsOrderPayments

SPECIFICATION FairSpec

CONSTANTS
    u1 = u1
    u2 = u2
    r1 = r1
    r2 = r2
    k1 = k1
    k2 = k2
    o1 = o1
    o2 = o2
    s1 = s1
    s2 = s2
    None = None
    Users = {u1, u2}
    Backends = {b1, b2}
    Requests = {r1, r2}
    UsageKeys = {k1}
    AdminKeys = {k1, k2}
    OpsKeys = {k1, k2}
    Orders = {o1, o2}
    Checkouts = {s1, s2}
    OrderUser <- MCOrderUser
    OrderCredits <- MCOrderCredits
    SignupBonus = 2
    Calls <- AccountCallsMC

INVARIANT LedgerExplainsBalance
INVARIANT PaidOrdersAreCredited
INVARIANT AdminOutcomeOnce
INVARIANT TotalsMatchLedger
PROPERTY ImplementsOrderPayments
PROPERTY CallsReturn

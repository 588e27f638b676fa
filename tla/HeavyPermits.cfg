SPECIFICATION Spec

CONSTANTS
    k1 = k1
    k2 = k2
    r1 = r1
    r2 = r2
    r3 = r3
    r4 = r4
    r5 = r5
    p1 = p1
    Keys = {k1, k2}
    Requests = {r1, r2, r3, r4, r5, p1}
    Queueing = {r1, r2, r3, r4, r5}
    KeyOf <- MCKeyOf
    ConcurrencyLimit = 1
    MaxWaitersPerKey = 2
    MaxWaitersGlobal = 2

INVARIANT QueueInv
INVARIANT SlotsAreHeld
PROPERTY ImplementsSemaphore
PROPERTY WaitersAreServed

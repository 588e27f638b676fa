SPECIFICATION GSpec

CONSTANTS
    w1 = w1
    w2 = w2
    r1 = r1
    r2 = r2
    r3 = r3
    Workers = {w1, w2}
    Requests = {r1, r2, r3}
    WorkerOf <- MCWorkerOf
    Limit = 2
    MaxFaults = 0
    Threshold = 3

INVARIANT MemoryIsExact
INVARIANT NoPhantomSlots
PROPERTY TimeoutsDegrade

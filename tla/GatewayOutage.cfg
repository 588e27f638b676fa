SPECIFICATION FaultySpec

CONSTANTS
    w1 = w1
    w2 = w2
    r1 = r1
    r2 = r2
    r3 = r3
    r4 = r4
    r5 = r5
    Workers = {w1, w2}
    Requests = {r1, r2, r4}
    WorkerOf <- MCWorkerOf
    Limit = 1
    MaxFaults = 1

INVARIANT NobodyIsShutOut

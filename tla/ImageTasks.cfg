SPECIFICATION Spec

CONSTANTS
    Tasks = {t1}
    Candidates = 2
    Nano = {2}
    Balance = 2
    Price = 1
    MaxFaults = 1

INVARIANT ImageInv
INVARIANT SweepYieldsToWorker
INVARIANT CompletedIsPaid
INVARIANT DebitIsBacked
INVARIANT PaidIsDelivered
PROPERTY ImplementsImageLifecycle
PROPERTY TaskEnds
PROPERTY TimedOutIsReconciled

CHECK_DEADLOCK FALSE

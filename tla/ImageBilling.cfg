SPECIFICATION Spec

CONSTANTS
    Tasks = {t1}
    Candidates = 2
    Nano = {2}
    Balance = 2
    Price = 1
    MaxFaults = 0


INVARIANT NoDebitOnNonBillable

CHECK_DEADLOCK FALSE

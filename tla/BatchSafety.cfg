SPECIFICATION FairSpec

CONSTANTS
    Items = {1, 2}
    Concurrency = 1
    MaxAttempts = 2

INVARIANT BatchInv
PROPERTY ImplementsBatchItems
INVARIANT HeaderNeverOverstates
PROPERTY NoStartAfterCancel
PROPERTY BatchCompletes
PROPERTY RepairClosesBatch

CHECK_DEADLOCK FALSE

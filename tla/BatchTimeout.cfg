SPECIFICATION Spec

CONSTANTS
    Items = {1}
    Concurrency = 1
    MaxAttempts = 2

INVARIANT FailedItemsAreNotCharged

CHECK_DEADLOCK FALSE

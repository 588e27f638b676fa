SPECIFICATION FairSpec

CONSTANTS
    a = a
    b = b
    key = key
    NoKey = NoKey
    Requests = {a, b}
    Streams = {a}
    Abortable = {a, b}
    Heavy = {a, b}
    Alias = {a}
    Models = {1, 2, 3}
    Chain <- MCChain
    ProvidersOf <- MCProvidersOf
    IdemKey <- MCIdemKey
    KeyLimit = 1
    HeavyLimit = 1
    UpstreamLimit = 1
    MaxRefetch = 1
    Credits = 1

INVARIANT ChatInv
PROPERTY ImplementsPaidAnswers
INVARIANT AnswersArePaid
PROPERTY AbortedRequestsStop
PROPERTY EveryRequestEnds

CHECK_DEADLOCK FALSE

SPECIFICATION FairSpec
CONSTANTS
    Requests = 1
    MaxTries = 3
    MaxPending = 1
    MaxNonce = 2
    Externals = 0
    LossySend = FALSE
    MaxDrops = 0
PROPERTY OriginalAwaitedAfterFailedReprice

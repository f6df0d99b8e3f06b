SPECIFICATION FairSpec
CONSTANTS
    Requests = 2
    MaxTries = 3
    MaxPending = 2
    MaxNonce = 1
    Externals = 1
    LossySend = TRUE
    MaxDrops = 1
INVARIANTS
    MinedOnce
    CancelledIsSettled
PROPERTY EveryRequestAnswered
CHECK_DEADLOCK FALSE

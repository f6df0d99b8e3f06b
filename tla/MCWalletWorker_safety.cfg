SPECIFICATION Spec
CONSTANTS
    Requests = 3
    MaxTries = 3
    MaxPending = 2
    MaxNonce = 2
    Externals = 0
    LossySend = TRUE
    MaxDrops = 0
INVARIANTS
    CapacityRespected
    NonceNeverAhead
    NonceOrder
CHECK_DEADLOCK FALSE

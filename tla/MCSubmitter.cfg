SPECIFICATION FairSpec
CONSTANTS
    Orders = {o1, o2}
    MaxCrashes = 1
    MaxPendingTransactions = 1
    MaxTries = 2
    NewOrdersDelay = 0
    EvaluationRetryInterval = 1
    MaxEvaluationDuration = 1
    Prioritised = {o1}
    MaxTime = 1
INVARIANTS
    NoPromiseForgotten
    CapacityForOthers
    PendingQueueInOrder
    SentAgainOnlyAfterFailure
PROPERTIES
    PriorityNotUnprofitable
    OrdersSettle
CHECK_DEADLOCK FALSE

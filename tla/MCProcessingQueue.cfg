SPECIFICATION FairSpec
CONSTANTS
    NoOrder = NoOrder
    Orders = {o1, o2, o3}
    MaxTries = 2
    MaxConcurrent = 2
INVARIANTS
    SizeCountsOrders
    PendingCountCoversPromises
    QueuesHoldOrdersOnce
    TriesBounded
PROPERTIES
    ImplementsPipeline
    EveryOrderReturned

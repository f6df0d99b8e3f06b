SPECIFICATION FairSpec
CONSTANTS
    Workers <- AllWorkers
    Bridges <- AllBridges
    MaxVerifications = 2
    MaxFailures = 1
    MaxRestarts = 1
INVARIANTS
    AnnouncedOnceUnlessRaced
    OrdersKnowMessage
    ProofOnlyIfVerifiable
    PriorityKept
    VAAMissedOnlyIfRecoveryFirst
PROPERTIES
    ImplementsStore
    ProvedBecomesOrder
CHECK_DEADLOCK FALSE

SPECIFICATION CollectorsSpec
CONSTANTS
    Workers <- AllWorkers
    Bridges <- AllBridges
    MaxVerifications = 2
    MaxFailures = 0
    MaxRestarts = 0
INVARIANTS
    AnnouncedOnce
CHECK_DEADLOCK FALSE

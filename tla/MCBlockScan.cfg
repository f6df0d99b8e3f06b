SPECIFICATION FairSpec
CONSTANTS
    MaxHead = 6
    MaxReorgs = 1
    ReorgDepth = 2
    NodeLag = 1
    BlockDelay = 2
    StartingBlock <- Offset
    StoppingBlock = 3
    MaxBlocks = 1
    NoBlock = NoBlock
INVARIANTS
    ScannedOnceWithoutGap
    NoEventSkipped
    HandledEventsAreFinal
PROPERTIES
    StatusIncreases
    EveryBlockHandled

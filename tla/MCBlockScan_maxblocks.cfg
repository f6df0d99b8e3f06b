SPECIFICATION Spec
CONSTANTS
    MaxHead = 4
    MaxReorgs = 0
    ReorgDepth = 1
    NodeLag = 0
    BlockDelay = 0
    StartingBlock = 0
    StoppingBlock = 9
    MaxBlocks = 2
    NoBlock = NoBlock
INVARIANT QueryWithinMaxBlocks

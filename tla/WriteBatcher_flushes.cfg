CONSTANTS
    Records = {1, 2, 3, 4}
    MaxAttempts = 1
    n1 = n1
    n2 = n2
    NoNode = NoNode
    Nodes <- MCNodes
    Target <- MCTarget
    Poison = {4}
    BATCH_SIZE = 3
    SERIALIZE_FLUSHES = TRUE
    MaxOutages = 1
    MaxErrors = 1
SPECIFICATION FairBatcherSpec
INVARIANTS BatcherTypeOK NoOrphanedWaiter VerdictIsCommitted NeighboursSpared NewestWins
PROPERTY EveryWaiterAnswered
CHECK_DEADLOCK FALSE

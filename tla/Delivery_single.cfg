CONSTANTS
    Records = {1, 2, 3, 4}
    MaxAttempts <- MCAttempts
    n1 = n1
    n2 = n2
    NoNode = NoNode
    Nodes <- MCNodes
    Target <- MCTarget
    Poison = {}
    Controls = {3}
    Malformed = {2}
    NoId = {4}
    BATCH_MODE = FALSE
    BATCH_SIZE = 2
    SERIALIZE_FLUSHES = FALSE
    DeliveryLimit = 1
    Prefetch = 2
    MaxOutages = 1
    MaxErrors = 1
    MaxDisruptions = 1
SPECIFICATION DeliverySpec
INVARIANT AckedIsCommitted
PROPERTY KeepsContract
CHECK_DEADLOCK FALSE

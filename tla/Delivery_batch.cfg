CONSTANTS
    Records = {1, 2}
    MaxAttempts <- MCAttempts
    n1 = n1
    n2 = n2
    NoNode = NoNode
    Nodes <- MCNodes
    Target <- MCTarget
    Poison = {2}
    Controls = {}
    Malformed = {}
    NoId = {}
    BATCH_MODE = TRUE
    BATCH_SIZE = 2
    SERIALIZE_FLUSHES = FALSE
    DeliveryLimit = 1
    Prefetch = 2
    MaxOutages = 1
    MaxErrors = 1
    MaxDisruptions = 1
SPECIFICATION FairDeliverySpec
INVARIANTS DeliveryTypeOK AckedIsCommitted NothingStranded ReturnsAreCharged
PROPERTIES KeepsContract EveryMessageSettled
CHECK_DEADLOCK FALSE

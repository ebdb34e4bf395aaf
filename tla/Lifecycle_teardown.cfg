CONSTANTS
    DATA_TYPES <- MCTypes
    Script <- OneExtraction
    CONSUMER_CANCEL_DELAY = "any"
    Transports = {c1, c2}
    none = none
    MAX_STARTUP_RETRIES = 2
    MaxFailures = 1
    MaxRequeues = 1
SPECIFICATION Spec
INVARIANTS TypeOK GaugeMatchesTags NoGhostConsumer NoLostSubscription ExitIsHonest
CHECK_DEADLOCK FALSE

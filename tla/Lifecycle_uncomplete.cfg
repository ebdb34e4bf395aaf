CONSTANTS
    DATA_TYPES <- MCTypes
    Script <- SignalsOnly
    CONSUMER_CANCEL_DELAY = "long"
    Transports = {c1, c2}
    none = none
    MAX_STARTUP_RETRIES = 2
    MaxFailures = 0
    MaxRequeues = 0
SPECIFICATION Spec
PROPERTY UncompletedOnlyWithBacklog
CHECK_DEADLOCK FALSE

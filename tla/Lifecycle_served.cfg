CONSTANTS
    DATA_TYPES <- MCTypes
    Script <- Reopened
    CONSUMER_CANCEL_DELAY = "long"
    Transports = {c1, c2}
    none = none
    MAX_STARTUP_RETRIES = 2
    MaxFailures = 1
    MaxRequeues = 0
SPECIFICATION ServedSpec
PROPERTIES RequestServed IncompleteTypeServed NewWorkServed ShutdownCompletes StartupDecides
INVARIANT RecoveryOwnsTransport
CHECK_DEADLOCK FALSE

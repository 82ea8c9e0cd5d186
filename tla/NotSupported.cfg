SPECIFICATION ExecutorSpec
CONSTANTS
    LOCK_TEMPLATE = 1
    UNLOCK_TEMPLATE = 2
    INIT_ALGORITHM = 3
    VENDOR_COMMAND_BEGIN = 10000
    PROPERTY_INIT_ALGORITHM = 1
    PROPERTY_MODE_FREEZE = 5
    PROPERTY_MODE_UNFREEZE = 6
    Requests = {r1}
    Modes <- MCModes
    KeyVectors <- MCKeyVectors
    Results <- MCResults
    MaxEvents = 1
INVARIANT FailMeansNotIdentified
CHECK_DEADLOCK FALSE

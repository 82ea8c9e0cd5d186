SPECIFICATION ExecutorFairSpec
CONSTANTS
    LOCK_TEMPLATE = 1
    UNLOCK_TEMPLATE = 2
    INIT_ALGORITHM = 3
    VENDOR_COMMAND_BEGIN = 10000
    PROPERTY_INIT_ALGORITHM = 1
    PROPERTY_MODE_FREEZE = 5
    PROPERTY_MODE_UNFREEZE = 6
    Requests = {r1}
    Modes <- MCModes
    KeyVectors <- MCKeyVectors
    Results <- MCResults
    MaxEvents = 2
INVARIANT SuccessMeansServed
INVARIANT HostGetsWhatWasAsked
INVARIANT HeardAsSaid
INVARIANT BuzzAnnouncesFailure
PROPERTY EventsAreHeard
CHECK_DEADLOCK FALSE

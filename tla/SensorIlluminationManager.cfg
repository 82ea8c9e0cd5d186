SPECIFICATION FairSpec
CONSTANTS
    Tasks = {t1, t2}
    Executors = {e1, e2}
    Brightness = {b1}
    NoTask = NoTask
    NoExecutor = NoExecutor
    NoBrightness = NoBrightness
    MaxEvents = 2
    CesReliable = FALSE
    HasPowerManager = TRUE
INVARIANT TypeOK
INVARIANT OnlyOwnersLight
INVARIANT LitHasTimeout
INVARIANT OwnerHasTask
INVARIANT NoSubscriptionLeak
INVARIANT ReferencedLives
PROPERTY OnlyLateDestructorsUnsubscribe
PROPERTY GoesDark
PROPERTY TaskReleased
PROPERTY ImplementsLease

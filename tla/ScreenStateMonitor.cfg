SPECIFICATION MonitorSpec
CONSTANTS
    MaxEvents = 3
    CesReliable = FALSE
    HasPowerManager = TRUE
INVARIANT TracksScreen
PROPERTY CatchesUp
PROPERTY RecoversFromStray

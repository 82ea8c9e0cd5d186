SPECIFICATION Spec
CONSTANTS
    Tasks = {t1, t2}
    Executors = {e1}
    Brightness = {b1}
    NoTask = NoTask
    NoExecutor = NoExecutor
    NoBrightness = NoBrightness
    MaxEvents = 1
    CesReliable = TRUE
    HasPowerManager = TRUE
INVARIANT SkipsOnlyIfScreenOff

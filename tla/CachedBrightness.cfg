SPECIFICATION Spec
CONSTANTS
    Tasks = {t1}
    Executors = {e1}
    Brightness = {b1, b2}
    NoTask = NoTask
    NoExecutor = NoExecutor
    NoBrightness = NoBrightness
    MaxEvents = 1
    CesReliable = TRUE
    HasPowerManager = TRUE
INVARIANT DrawnForBrightness

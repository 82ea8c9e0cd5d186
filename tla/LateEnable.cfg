SPECIFICATION DriverSpec
CONSTANTS
    Threads = {fw, t1}
    Framework = fw
    Executors = {e1, e2}
    NoExecutor = NoExecutor
    Processors = {illumination}
    Illumination = illumination
    CommandIds = {"ENABLE", "DISABLE", "TURN_ON", "UNKNOWN"}
    MaxBatch = 1
PROPERTY RefusedOnlyForUser

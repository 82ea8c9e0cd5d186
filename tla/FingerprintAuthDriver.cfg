SPECIFICATION DriverFairSpec
CONSTANTS
    Threads = {fw, t1, t2}
    Framework = fw
    Executors = {e1, e2}
    NoExecutor = NoExecutor
    Processors = {illumination}
    Illumination = illumination
    CommandIds = {"ENABLE", "DISABLE"}
    MaxBatch = 2
INVARIANT OwnerIsListed
INVARIANT OnlyLateOwnersRemain
INVARIANT DeadOwnerNotForgotten
PROPERTY DeadLeaseEnds

SPECIFICATION LockSpec
CONSTANTS
    Framework = fw
    IpcThreads = {ipc1, ipc2}
    Tasks = {t1}
    NoTask = NoTask
    MaxExecutors = 1
    MaxBatch = 1
INVARIANT NoCyclicWait
INVARIANT SomebodyGoesOn
PROPERTY EveryCallReturns

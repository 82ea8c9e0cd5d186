SPECIFICATION DispatchSpec
CONSTANTS
    Threads = {t1, t2}
    Executors = {e1}
    NoExecutor = NoExecutor
    Processors = {p1, p2}
    CommandIds = {c1, c2}
    MaxBatch = 2
SYMMETRY Symmetry
INVARIANT BatchSeesOneTable

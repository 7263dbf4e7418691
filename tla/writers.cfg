SPECIFICATION FairSpec
CONSTANTS
    w1 = w1
    w2 = w2
    o1 = o1
    Writers = {w1, w2}
    Objects = {o1}
    Pruners = {}
    NotifyArgs = {FALSE, TRUE}
    MaxRows = 2
    MaxBatch = 1
    MaxEnqueued = 1
    BatchSize = 1
    MaxFailures = 1
INVARIANTS TypeOK ObjectOrder
PROPERTIES CursorsAppearInOrder WokenRowsAreFannedOut DrainsTakeEveryRow
CHECK_DEADLOCK FALSE

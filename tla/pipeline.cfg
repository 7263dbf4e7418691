SPECIFICATION Spec
CONSTANTS
    w1 = w1
    p1 = p1
    p2 = p2
    o1 = o1
    Writers = {w1}
    Objects = {o1}
    Pruners = {p1, p2}
    NotifyArgs = {TRUE}
    MaxRows = 3
    MaxBatch = 2
    MaxEnqueued = 0
    BatchSize = 2
    MaxFailures = 1
SYMMETRY Symmetry
INVARIANTS
    PrunedWasBroadcast
    BatchIsRetained
    WindowIsDense
    Inv
PROPERTIES
    WatermarksOnlyRise
    FanoutHasNoGap
    ImplementsLog
CHECK_DEADLOCK FALSE

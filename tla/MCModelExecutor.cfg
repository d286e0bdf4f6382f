CONSTANTS
    Requests       = {r1, r2}
    Workers        = {w1, w2}
    QueueCapacity  = 1
    max_batch_size = 2
    MaxStarts      = 1
    MayStop        = TRUE
SPECIFICATION FairSpec
INVARIANTS OnePlace QueueSizeExact MetricsAccount NoOrphans
PROPERTIES StopReturns
CHECK_DEADLOCK FALSE

CONSTANTS
    Requests       = {r1}
    Workers        = {w1}
    QueueCapacity  = 1
    max_batch_size = 1
    MaxStarts      = 1
    MayStop        = FALSE
SPECIFICATION FairSpec
PROPERTIES Answered
CHECK_DEADLOCK FALSE

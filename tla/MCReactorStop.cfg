CONSTANTS
    Fibers        = {a}
    Acceptor      = a
    PoolThreads   = {p1}
    QueueCapacity = 1
    WordSize      = 4
SPECIFICATION FairSpec
PROPERTIES StopEndsTheLoop
CHECK_DEADLOCK FALSE

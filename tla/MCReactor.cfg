CONSTANTS
    Fibers        = {a, s1, s2}
    Acceptor      = a
    PoolThreads   = {p1, p2}
    QueueCapacity = 1
    WordSize      = 4
SPECIFICATION FairSpec
INVARIANTS OneHome PendingExact
PROPERTIES Woken
CHECK_DEADLOCK FALSE

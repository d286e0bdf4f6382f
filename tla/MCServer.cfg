SPECIFICATION ServerSpec
CONSTANTS
    IdBytes    = 2
    CountBytes = 2
    ElemBytes  = 2
    Elems      = 2
    MaxElems   = 3
    Frames     = 2
    Lengths    = {0, 1, 2, 3, 4}
    Models     = {m1}
    Metas      = {d1, d2}
    Execs      = {e1, e2}
    Callers    = {c1}
    Admins     = {a1, a2}
    Writers    = {w1, w2}
    Readers    = {r1}
    Words      = {x, y}
    MaxWrites  = 4
INVARIANTS
    FramedUnlessHeaderSplit
    CallsKeepExecutors
    ValidUntilReload
    Quiet
    WritersExclusive
PROPERTIES
    EndsWithClient
    ResolvedByShutdown
    NoTornReads
    AllReturn
CHECK_DEADLOCK FALSE

SPECIFICATION Spec
CONSTANTS
    ArenaBlocks = 3
    block_size = 3
    ArenaSizes = {0, 2}
    Alignments = {1, 2}
    Residues = {0, 1}
    ArenaStride = 16
    SlabChunks = 2
    ChunkObjects = 2
    Payloads = {11, 12, 13}
    MailboxCapacity = 2
    PayloadBytes = {0, 1, 3}
    MaxPayload = 4
    LatencyBits = 3
    Latencies = {0, 1, 3, 7}
    MaxSamples = 4
    Shapes <- MCShapes
    BufferSizes = {1, 6}
    MaxBatch = 3
    Dirs = {"a", "b"}
    Versions = {1, 2}
    Configured = {1, 3}
    SLOTS = 4
    TICK_NS = 2
    Timers = {t1, t2, t3}
    Delays = {0, 8, 12}
    Rearms = {0, 10}
    MaxNow = 18
    Capacity = 4
    WordSize = 8
    Items = {i1, i2}
    NoItem = NoItem
    Thieves = {s1, s2}
    initial_capacity = 1
    MaxPushes = 3
SYMMETRY Symmetry
INVARIANTS
    ArenaDisjoint
    ArenaBlocksOwned
    ArenaBytes
    SlabFreeListExact
    PayloadsOwned
    FrameRoundTrip
    CorruptionDetected
    PercentileRank
    BatchLikeSingle
    ScanFaithful
    FiresOnTime
    NeverTwice
    NothingLost
PROPERTIES
    AbstractSpec
    RefusesWhenFull
    Ends
CHECK_DEADLOCK FALSE

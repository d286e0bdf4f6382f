SPECIFICATION ArenaSpec
CONSTANTS
    ArenaBlocks = 3
    block_size = 3
    ArenaSizes = {0, 2}
    Alignments = {1, 2}
    Residues = {0, 1}
    ArenaStride = 16
INVARIANT ArenaFreesAll
CHECK_DEADLOCK FALSE

CONSTANTS
    IdBytes    = 2
    CountBytes = 2
    ElemBytes  = 2
    Elems      = 2
    MaxElems   = 3
    Frames     = 2
    Lengths    = {0, 1, 2, 3, 4}
SPECIFICATION SessionSpec
INVARIANT Framed
CHECK_DEADLOCK FALSE

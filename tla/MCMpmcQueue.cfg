CONSTANTS
    Producers  = {p1, p2}
    Consumers  = {c1, c2}
    Items      = {a, b}
    Capacity   = 2
    MaxTickets = 3
    NoItem     = NoItem
SPECIFICATION FairSpec
INVARIANTS TypeOK SlotExclusive NoOverwrite
PROPERTIES FullIsFull EmptyIsEmpty AbstractSpec AlwaysDrained
CHECK_DEADLOCK FALSE

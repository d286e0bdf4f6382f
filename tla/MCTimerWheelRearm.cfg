CONSTANTS
    SLOTS   = 4
    TICK_NS = 2
    Timers  = {t1, t2, t3, t4}
    Delays  = {0}
    Rearms  = {8}
    MaxNow  = 12
SPECIFICATION WheelSpec
INVARIANT NeverEarly
CHECK_DEADLOCK FALSE

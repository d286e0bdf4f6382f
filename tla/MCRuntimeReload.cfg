SPECIFICATION RuntimeSpec
CONSTANTS
    Models = {m1}
    Metas = {d1, d2}
    Execs = {e1}
    Callers = {c1}
    Admins = {a1}
INVARIANTS
    NoDangling
CHECK_DEADLOCK FALSE

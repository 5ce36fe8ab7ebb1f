SPECIFICATION Spec
CONSTANTS
    Procs = {p1, p2}
    Threads = {t1}
    Commands = {c1, c2, c3}
    Faults = {}
    None = None
INVARIANT
    NoLostUpdate
CHECK_DEADLOCK FALSE

SPECIFICATION Spec
CONSTANTS
    Threads = {t1, t2}
    Pushers = {p1}
    MaxEdits = 6
    Faults = {"edit", "stop", "reject", "unreadable", "lookup", "fetch"}
SYMMETRY Symmetric
INVARIANTS
    TypeOK
    OnlyPublicShown
    NothingStranded
CHECK_DEADLOCK FALSE

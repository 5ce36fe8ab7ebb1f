SPECIFICATION FairSpec
CONSTANTS
    Threads = {t1, t2}
    Pushers = {p1}
    MaxEdits = 4
    Faults = {"edit", "reject"}
PROPERTIES
    SucceedsOnlyWhenDone
    Converges
CHECK_DEADLOCK FALSE

SPECIFICATION Spec
CONSTANTS
    Procs = {p1, p2}
    Threads = {t1}
    Commands = {c1, c2, c3, c4}
    Faults = {"churn", "lookup", "legacy"}
    None = None
SYMMETRY Symmetric
INVARIANTS
    TypeOK
    OutcomesTrue
    MigrationFaithful
    ArchivePreserved
    EditsOneState
    NoPromotion
PROPERTY
    LogPromise
CHECK_DEADLOCK FALSE

SPECIFICATION Spec
CONSTANTS
    None = None
    Threads = {t1, t2}
    Procs = {p1, p2}
    Nodes = {n1}
    Flavors = {"rfc", "task"}
    Statuses <- CanonicalStatuses
    Edges <- MCEdges
    Initial <- MCInitial
    Guards <- DefaultGuards
    Denied <- DefaultDenied
    Kinds = {"action", "comment"}
    Names = {"done"}
    Flags = {"resolve", "fast"}
    Commands = {"new", "tui_new", "say", "tui_say", "tui_revise", "link", "edit",
                "evidence", "mark", "tui_mark", "revise_body", "revise_node",
                "retype", "state", "bulk", "supersede"}
    MaxCommands = 3
SYMMETRY Symmetric
INVARIANTS
    TypeOK
    StatusReachable
    BulkGuarded
    ChecksRespected
    SupersedeBothSides
CHECK_DEADLOCK FALSE

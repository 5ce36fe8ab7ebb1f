SPECIFICATION CloneSpec
CONSTANTS
    None = None
    remoteA = remoteA
    remoteB = remoteB
    Remotes <- OneRemote
    Worktrees = {main, feature}
    Threads = {thread}
    Branches <- AllThere
    MaxEdits = 1
INVARIANTS NeverImported
CHECK_DEADLOCK FALSE

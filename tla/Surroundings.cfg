SPECIFICATION SurroundingsSpec
CONSTANTS
    None = None
    \* PolicyFile
    Files <- MCFiles
    Bodies <- MCBodies
    Words = {"done", "accepted", "review", "open"}
    \* Clones
    remoteA = remoteA
    remoteB = remoteB
    Remotes <- TwoRemotes
    Worktrees = {main, feature}
    Threads = {thread1}
    Branches <- OldAndNew
    MaxEdits = 2
SYMMETRY WorktreeSymmetry
INVARIANTS
    MovesObeyPolicy ChecksObeyPolicy VerifyForetells
    ImportsOnlyByHook DoctorContent
CHECK_DEADLOCK FALSE

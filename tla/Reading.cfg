SPECIFICATION ReadingSpec
CONSTANTS
    None = None
    \* LegacyChain
    ThreadKinds = {"rfc", "issue", "dec"}
    RawStates = {"open", "closed", "rejected", "bogus"}
    NodeTypes = {"claim", "objection"}
    RawLifecycles = {"record", "execution", "bogus"}
    Tags = {"decision"}
    BadTags = {}
    Slips = {"state", "say"}
    MaxCommits = 4
    MaxOther = 3
    \* BatchReader
    Store <- MCStore
    Reads <- MCReads
    MultiLine = {"two lines"}
    MaxDepth = 2
    MaxFaults = 3
    \* References
    Ambiguous = Ambiguous
    Lower = {"a", "b"}
    Digits = {"1"}
    TokenLen = 3
    SequentialLen = 2
    MinPrefix = 2
    KindPrefixes <- MCKindPrefixes
    NewIds <- MCNewIds
    NodeIds <- MCNodeIds
    Aliases <- MCAliases
    Derived <- MCDerived
    Questions <- MCQuestions
    Starts <- MCStarts
    MaxChanges = 2
    MaxFailures = 1
    \* History
    ThreadFlavor = "task"
    BodyTexts = {"b1", "b2"}
    HistoryNodes = {"n1"}
    MaxLog = 5
    \* NodeTree
    NodeCount = 3
    Clock <- MCClock
    \* IndexRepair
    FilePaths = {"a", "b"}
    Modules = {"m"}
    Contents = {"c1", "c2"}
    MaxUser = 4
INVARIANTS
    CutoverAgrees LifecycleKept CleanReportLosesNothing
    AnswersTrue
    NoGuess KeepsMeaning
    HistoryEndsAtTip
    PaneTrue
    RepairCarries
CHECK_DEADLOCK FALSE

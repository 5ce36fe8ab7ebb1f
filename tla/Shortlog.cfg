SPECIFICATION HistorySpec
CONSTANTS
    None = None
    ThreadFlavor = "task"
    BodyTexts = {}
    HistoryNodes = {"n1"}
    MaxLog = 4
INVARIANT
    DatedByItsMove
CHECK_DEADLOCK FALSE

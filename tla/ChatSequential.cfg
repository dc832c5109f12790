SPECIFICATION Spec
CONSTANTS
    Sessions = {s1, s2}
    Calls = {c1, c2}
    Titles = {t1}
    AutoTitle = AutoTitle
    Histories = {NoHistory, h1}
    NoHistory = NoHistory
    Brought <- BroughtMessages
    NoSession = NoSession
    NoTitle = NoTitle
    Overlap = FALSE
    Faults = {"model", "store", "crash", "preview"}
    MaxTurns = 3
    Size <- Sizes
    MaxMessages = 4
    MaxTokens = 9
INVARIANT TypeOK
PROPERTY ChatKeepsLog
CHECK_DEADLOCK FALSE

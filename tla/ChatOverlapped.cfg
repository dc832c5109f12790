SPECIFICATION Spec
CONSTANTS
    Sessions = {s1, s2}
    Calls = {c1, c2}
    Titles = {t1}
    AutoTitle = AutoTitle
    Histories = {NoHistory, h1}
    NoHistory = NoHistory
    Brought <- BroughtMessages
    NoSession = NoSession
    NoTitle = NoTitle
    Overlap = TRUE
    Faults = {"store", "crash"}
    MaxTurns = 4
    Size <- Sizes
    MaxMessages = 4
    MaxTokens = 9
INVARIANTS
    UncontestedTurnsKept
    StoredInOrder
    QuietRenamesHold
    QuietDeletionsHold
    HistoryIsNewest
SYMMETRY Symmetry
CHECK_DEADLOCK FALSE

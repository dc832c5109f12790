SPECIFICATION Spec
CONSTANTS
    a = a
    other = other
    b1 = b1
    b2 = b2
    c1 = c1
    c2 = c2
    Agents = {a, other}
    Defaults = {a}
    Blank = blank
    Named = named
    Values = {blank, named, own}
    NoRow = norow
    BlockIds = {b1, b2}
    Contents = {c1, c2}
    Inputs <- MCInputs
    Requests <- MCRequests
    Saved <- NoneOrTwoBlocks
    Editors = {t1, t2}
    Callers = {t1, t2}
    p1 = p1
    p2 = p2
    Providers = {p1, p2}
    NoProvider = noprovider
    Route <- TwoProviders
    BatchSize = 2
    MaxRetries = 1
    MaxTraces = 2
    Service = {"busy", "refused", "garbled", "short"}
    Mentions <- Names
    Bare = {c2}
    DiaryLimit = 2
    MaxAudit = 2
    Encoder = encoder
    Earlier <- OneEvent
    MaxTexts = 3
    MaxNotes = 2
    Modes = {TRUE, FALSE}
    MaxRequests = 2
    Faults = {"persona", "diary", "prompt", "cut", "preview", "cancel", "crash"}
SYMMETRY Symmetry
INVARIANTS PromptIsAsShown PoolIsFaithful AuditIsOrdered
PROPERTY EditsAreLocal
CHECK_DEADLOCK FALSE

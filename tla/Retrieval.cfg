SPECIFICATION Spec
CONSTANTS
    a1 = a1
    a2 = a2
    Agents = {a1, a2}
    Shared = shared
    Private = private
    NoRow = norow
    Gone = gone
    MaxRows = 3
    MaxChunks = 2
    SeedRows <- OneShared
    ClearFirst = a1
    TopRecall = 2
    TopRerank = 2
    TopFinal = 1
    Hops = 1
    MaxDiffused = 2
    Persistent = TRUE
    Tasks = {t1, t2}
    Faults = {"table", "index", "graph", "file", "short", "crash"}
    MaxEvents = 3
    Kept <- NoneOrOne
SYMMETRY TaskSymmetry
INVARIANTS ShownIsSound IndexesFollowTable TextSearchIsFull
CHECK_DEADLOCK FALSE

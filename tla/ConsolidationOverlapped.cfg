SPECIFICATION Spec
CONSTANTS
    Agents = {a1}
    Facts = {f1, f2, mute}
    Mute = mute
    Alike <- SameTopic
    NoRow = NoRow
    MaxRows = 4
    MaxImp = 3
    Tasks = {t1, t2}
    NoAgent = NoAgent
    DecayOn = FALSE
    WkdOn = TRUE
    PageSize = 4
    MaxCluster = 5
    MaxMerges = 1
    ArchiveAfter = 2
    Overlap = TRUE
    Clients = {"demote"}
    Faults = {"store", "graph"}
    MaxDay = 0
    MaxIngest = 2
    MaxRuns = 2
INVARIANTS
    ArchivingIsSafe
SYMMETRY AgentSymmetry
CHECK_DEADLOCK FALSE

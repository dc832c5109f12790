SPECIFICATION FairSpec
CONSTANTS
    Agents = {a1}
    Facts = {f1}
    Mute = mute
    Alike <- SameTopic
    NoRow = NoRow
    MaxRows = 3
    MaxImp = 3
    Tasks = {t1, t2}
    NoAgent = NoAgent
    DecayOn = TRUE
    WkdOn = TRUE
    PageSize = 2
    MaxCluster = 5
    MaxMerges = 1
    ArchiveAfter = 1
    Overlap = FALSE
    Clients = {"promote", "demote", "purge"}
    Faults = {"store"}
    MaxDay = 1
    MaxIngest = 2
    MaxRuns = 1
PROPERTIES
    PromotionIsEarned
    CycleEnds
    ImportanceNeverRises
CHECK_DEADLOCK FALSE

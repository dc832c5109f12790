SPECIFICATION Spec
CONSTANTS
    a = a
    b = b
    n1 = n1
    n2 = n2
    n3 = n3
    n4 = n4
    Agents = {a, b}
    Shared = shared
    NoAgent = none
    Nodes = {n1, n2, n3, n4}
    NoNode = nonode
    MaxEdges = 3
    NoEdge = noedge
    Relations = {"follows", "shares_tag", "seeded"}
    Keys = {"memory_id"}
    ChunkKeys = {"memory_id"}
    SeedKeys = {}
    MaxWeight = 2
    Tasks = {t1, t2}
    Backends = {"cozo"}
    Faults = {"cozo"}
    Unlucky = {t1}
    Alike <- SomeAlike
    MaxMerges = 1
    ChunkCount = 2
    SeedCount = 2
    SeedLinks <- OneLink
    Stored <- EmptyOrAbsorbed
    Modes = {FALSE}
    Clients = {"delete", "update", "clear"}
    MaxStarts = 2
PROPERTY MergeIsAtomic
CHECK_DEADLOCK FALSE

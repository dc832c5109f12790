SPECIFICATION SessionSpec
CONSTANTS
    Agents = {a1, a2}
    Mems = {m1, m2}
    Tasks = {t1, t2}
    NoEntry = NoEntry
    NoAgent = NoAgent
    MaxPuts = 2
    Faults = {"save", "load", "crash"}
    Overlap = TRUE
INVARIANTS
    TypeOK
    CacheIsolated
    SnapshotsIsolated
    SnapshotsReplayable
    UnexposedRecoverable
SYMMETRY Symmetry

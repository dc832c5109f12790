SPECIFICATION FairSessionSpec
CONSTANTS
    Agents = {a1, a2, a3}
    Mems = {m1}
    Tasks = {t1}
    NoEntry = NoEntry
    NoAgent = NoAgent
    MaxPuts = 3
    Faults = {"save"}
    Overlap = FALSE
INVARIANTS
    OneLiveAllRecoverable
PROPERTIES
    SwitchKeepsContexts
    SwitchReturns

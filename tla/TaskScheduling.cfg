SPECIFICATION FairSpec
CONSTANTS
    Ids = {1, 2}
    Requests = {r1, r2}
    Every = {1}
    Manual = Manual
    Never = Never
    NoTask = NoTask
    Faults = {"store", "cancel", "panic", "crash"}
    MaxTime = 1
    MaxEvents = 3
INVARIANTS
    TypeOK
    RunningIsOwned
    ChangesAreSignalled
    QuietDeletionsHold
PROPERTIES
    RunTimesAreSpaced
    DueIsRun
CHECK_DEADLOCK FALSE

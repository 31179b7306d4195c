SPECIFICATION Spec
CONSTANTS
    group = group
    Groups <- MCGroups
    Deltas <- MCDeltas
    MAX_TASKS = 1
    MaxSpawns = 2
    MaxCalls = 5
CHECK_DEADLOCK FALSE
INVARIANTS
    TypeOK
    HandleOnce
    NoCircularAwait
    NoLostWakeup
PROPERTIES
    WaitsEnd

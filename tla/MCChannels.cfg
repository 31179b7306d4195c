SPECIFICATION Patient
CONSTANTS
    main = main
    worker = worker
    other = other
    Threads <- TwoThreads
    Caps <- MCCaps
    Ops = {"send", "recv", "try_recv", "close", "select"}
    MAX_CHANNELS = 3
    MaxIds = 2
    MaxCalls = 4
CHECK_DEADLOCK FALSE
INVARIANTS
    TypeOK
    InOrderOnce
PROPERTIES
    NullIsFinal
    SelectEnds

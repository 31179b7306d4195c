SPECIFICATION Spec
CONSTANTS
    main = main
    worker = worker
    other = other
    Threads <- TwoThreads
    Caps <- MCBounded
    Ops = {"send", "recv", "try_recv", "close", "select"}
    MAX_CHANNELS = 2
    MaxIds = 1
    MaxCalls = 4
CHECK_DEADLOCK FALSE
PROPERTIES
    SelectTimesOut

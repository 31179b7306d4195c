SPECIFICATION Patient
CONSTANTS
    main = main
    worker = worker
    other = other
    Threads <- MCThreads
    Caps <- MCBounded
    Ops = {"send", "recv", "try_recv", "close", "select"}
    MAX_CHANNELS = 2
    MaxIds = 1
    MaxCalls = 4
CHECK_DEADLOCK FALSE
PROPERTIES
    RecvWakes
    SendWakes

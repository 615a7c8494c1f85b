\* Two connections, three descriptors, SIGINT at any time.
CONSTANTS
    MaxConn = 2
    MaxFd = 3
    MaxRequests = 1
    EarlySignal = TRUE
SPECIFICATION FairLifeSpec
CHECK_DEADLOCK FALSE
PROPERTIES
    RunEndsAfterStop

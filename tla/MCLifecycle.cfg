\* Two connections, three descriptors, SIGINT once the node is up.
CONSTANTS
    MaxConn = 2
    MaxFd = 3
    MaxRequests = 1
    EarlySignal = FALSE
SPECIFICATION FairLifeSpec
CHECK_DEADLOCK FALSE
INVARIANTS
    LifeTypeOK
    DescriptorsOwned
    NoCrossTalk
    NoUseAfterRelease
    NoTerminate
PROPERTIES
    StopEnds

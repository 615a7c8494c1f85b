\* Commands run only while the balancer sleeps: counts are exact and the load evens out.
CONSTANTS
    MaxKey = 5
    MidKey = 4
    Value = {v1}
    NoValue = NoValue
    NumDataNodes = 2
    SPLIT_THRESHOLD = 2
    BALANCE_DIFF_THRESHOLD = 3
    NoStorage = {}
    Client = {c1}
    ClientWindow = "asleep"
    LateRequests = FALSE
    MaxOps = 6
    MaxTimeouts = 0
    MaxMasterCrashes = 0
    MaxNodeCrashes = 0
    MaxSaveFaults = 0
SPECIFICATION FairSpec
INVARIANTS
    CountsExact
PROPERTIES
    EventuallyBalanced

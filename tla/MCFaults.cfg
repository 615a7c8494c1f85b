\* Commands at any time; crashes, timeouts, failed saves and late requests.
CONSTANTS
    MaxKey = 2
    MidKey = 1
    Value = {v1}
    NoValue = NoValue
    NumDataNodes = 2
    SPLIT_THRESHOLD = 2
    BALANCE_DIFF_THRESHOLD = 2
    NoStorage = {}
    Client = {c1}
    ClientWindow = "always"
    LateRequests = TRUE
    MaxOps = 3
    MaxTimeouts = 1
    MaxMasterCrashes = 1
    MaxNodeCrashes = 1
    MaxSaveFaults = 1
SPECIFICATION Spec
INVARIANTS
    TabletsPartition
    TabletIdsUnique
    ReplyShift

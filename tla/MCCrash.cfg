\* Crashes of the Master and of DataNodes, also inside a handler; no timeouts, saves succeed.
CONSTANTS
    MaxKey = 4
    MidKey = 4
    Value = {v1}
    NoValue = NoValue
    NumDataNodes = 2
    SPLIT_THRESHOLD = 2
    BALANCE_DIFF_THRESHOLD = 3
    NoStorage = {}
    Client = {c1}
    ClientWindow = "noMigration"
    LateRequests = FALSE
    MaxOps = 5
    MaxTimeouts = 0
    MaxMasterCrashes = 1
    MaxNodeCrashes = 1
    MaxSaveFaults = 0
SPECIFICATION Spec
INVARIANTS
    PutsSurvive
    DeletesAreDurable

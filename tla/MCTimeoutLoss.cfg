\* A timeout shifts the replies of a connection: what becomes of the data.
CONSTANTS
    MaxKey = 4
    MidKey = 4
    Value = {v1}
    NoValue = NoValue
    NumDataNodes = 2
    SPLIT_THRESHOLD = 2
    BALANCE_DIFF_THRESHOLD = 3
    NoStorage = {}
    Client = {c1}
    ClientWindow = "noMigration"
    LateRequests = FALSE
    MaxOps = 4
    MaxTimeouts = 1
    MaxMasterCrashes = 0
    MaxNodeCrashes = 0
    MaxSaveFaults = 0
SPECIFICATION Spec
INVARIANTS
    PutsSurvive

\* Commands may overlap synchronisation and splits but no migration; no faults.
\* Two clients, two values.
CONSTANTS
    MaxKey = 4
    MidKey = 4
    Value = {v1, v2}
    NoValue = NoValue
    NumDataNodes = 2
    SPLIT_THRESHOLD = 2
    BALANCE_DIFF_THRESHOLD = 3
    NoStorage = {}
    Client = {c1, c2}
    ClientWindow = "noMigration"
    LateRequests = FALSE
    MaxOps = 5
    MaxTimeouts = 0
    MaxMasterCrashes = 0
    MaxNodeCrashes = 0
    MaxSaveFaults = 0
SPECIFICATION Spec
SYMMETRY Symmetry
INVARIANTS
    TypeOK
    OwnerHoldsLatest
    NoStrayData
PROPERTIES
    ImplementsKVStore

\* The balancer splits while a worker walks the table.
CONSTANTS
    MaxKey = 4
    MidKey = 3
    NumDataNodes = 2
    SPLIT_THRESHOLD = 2
    BALANCE_DIFF_THRESHOLD = 3
    ColonKeys = {}
    SplitsRace = TRUE
    MaxCommands = 1
    MaxChanges = 3
    MaxCrashes = 0
SPECIFICATION FetchSpec
CHECK_DEADLOCK FALSE
INVARIANTS
    FreshRoute

\* Two commands, two table changes, one crash; timeouts at any receive, inside a frame too.
CONSTANTS
    MaxKey = 4
    MidKey = 3
    NumDataNodes = 2
    SPLIT_THRESHOLD = 2
    BALANCE_DIFF_THRESHOLD = 3
    ColonKeys = {}
    SplitsRace = FALSE
    MaxCommands = 2
    MaxChanges = 2
    MaxCrashes = 1
SPECIFICATION FairFetchSpec
CHECK_DEADLOCK FALSE
INVARIANTS
    FreshRoute
    ReconnectWorks
    BufferAligned
PROPERTIES
    CommandEnds

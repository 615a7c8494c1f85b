\* All ordered tables of up to MaxKey + 1 tablets.
CONSTANTS
    MaxKey = 6
    MidKey = 3
    NumDataNodes = 2
    SPLIT_THRESHOLD = 2
    BALANCE_DIFF_THRESHOLD = 3
    Tables <- MCTables
SPECIFICATION FairSearchSpec
CHECK_DEADLOCK FALSE
INVARIANTS
    SearchInv
    SearchCorrect
    ProbesShrink
PROPERTIES
    SearchEnds

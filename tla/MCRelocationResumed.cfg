CONSTANTS
    NumItems = 2
    MaxUnusual = 0
    Limit = 1
    MaxMoves = 0
    MaxChanges = 1
SPECIFICATION FairSpec
PROPERTIES
    CorrectedIsResumed
CHECK_DEADLOCK FALSE

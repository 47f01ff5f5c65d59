CONSTANTS
    NumItems = 2
    MaxUnusual = 1
    Limit = 1
    MaxMoves = 1
    MaxChanges = 1
SPECIFICATION FairSpec
INVARIANTS
    ReadersFenced
PROPERTIES
    CertifiedIsTrue
    RelocationCompletes
CHECK_DEADLOCK FALSE

CONSTANTS
    g1 = g1
    g2 = g2
    Locator = {g1, g2}
    BatchLimit = 1
    MaxChanges <- BusyAndQuiet
    MaxFaults = 1
    NoCut = NoCut
SPECIFICATION FairSpec
INVARIANTS
    NoChangeForgotten
PROPERTIES
    EveryChangeIsPublished
    Quiesces
CHECK_DEADLOCK FALSE

CONSTANTS
    Galleries = {g1, g2}
    MaxLocators = 1
    MaxBacklog = 2
    MaxFaults = 3
SPECIFICATION FairSpec
INVARIANTS
    LeaseReturned
PROPERTIES
    AcknowledgedOnlyIfClean
    WorkGetsPublished
CHECK_DEADLOCK FALSE

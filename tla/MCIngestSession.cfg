CONSTANTS
    MaxCalls = 3
    MaxRetries = 2
    MaxLease = 8
SPECIFICATION FairSessionSpec
INVARIANTS
    CallsCarryTheNewestReceipt
    FailureFencesCalls
PROPERTIES
    SessionEnds
CHECK_DEADLOCK FALSE

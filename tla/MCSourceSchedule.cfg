CONSTANTS
    Quiet = 2
    MaxWait = 3
    MaxTime = 7
    NoTime = NoTime
SPECIFICATION ScheduleSpec
INVARIANTS
    WaitIsBounded
    RetryBacksOff
PROPERTIES
    ImplementsScanLedger
CHECK_DEADLOCK FALSE

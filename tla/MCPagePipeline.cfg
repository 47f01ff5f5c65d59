SPECIFICATION Spec
CONSTANTS
    Pages = 3
    Workers = 2
    MaxFaults = 3
INVARIANTS
    RejectedIsInvalid
    NothingLeftBehind
    ErrorsPropagate
PROPERTIES
    EventuallySettled

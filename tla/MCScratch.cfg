CONSTANTS
    Procs = {p, q}
    Runs = {r1, r2}
    Linked = {r1}
    Early <- MCEarly
    Limit = 3
    MaxFaults = 2
    NoRun = NoRun
    Nobody = Nobody
SPECIFICATION FairSpec
INVARIANTS
    LiveWorkspaceKept
    NoUnownedBytes
PROPERTIES
    AbandonedReclaimed
CHECK_DEADLOCK FALSE

CONSTANTS
    p = p
    q = q
    t1 = t1
    t2 = t2
    t3 = t3
    Token = {t1, t2, t3}
    Path = {p, q}
    PathOf <- MCPathOf
    Stripe = {p, q}
    StripeOf <- MCStripeOf
    NoToken = NoToken
    w1 = w1
    w2 = w2
    Writer = {w1, w2}
    Cleaner = Cleaner
    CleanupItems = 1
    MaxFaults = 2
SPECIFICATION FairSpec
INVARIANTS
    EvidenceIsDurable
    NoOrphanStaging
    CleanupNeverRefused
PROPERTIES
    ReleasedIsCleaned
CHECK_DEADLOCK FALSE

CONSTANTS
    a = a
    b = b
    tok1a = tok1a
    tok1b = tok1b
    tok1aAgain = tok1aAgain
    tok2a = tok2a
    NumResource = 2
    Digest = {a, b}
    Token = {tok1a, tok1b, tok2a}
    ResOf <- MCResOf
    DigestOf <- MCDigestOf
    MaxRevision = 3
    Limit = 2
    MaxFaults = 2
    NoFile = NoFile
    Alien = Alien
    Foreign = FALSE
    NoDigest = NoDigest
SPECIFICATION FairSpec
INVARIANTS
    JournalReadable
    UnfencedReadersSeeHead
    FenceIsDurable
    ReadyIsDurable
    NeverRefused
    NoOrphanBytes
    OldBytesOutliveReplacement
PROPERTIES
    EventuallyPublished
    ImplementsPublishedLibrary
CHECK_DEADLOCK FALSE

CONSTANTS
    a = a
    b = b
    tok1a = tok1a
    tok1b = tok1b
    tok1aAgain = tok1aAgain
    tok2a = tok2a
    NumResource = 2
    Digest = {a, b}
    Token = {tok1a, tok1aAgain, tok1b, tok2a}
    ResOf <- MCResOf
    DigestOf <- MCDigestOf
    MaxRevision = 2
    Limit = 2
    MaxFaults = 2
    NoFile = NoFile
    Alien = Alien
    Foreign = TRUE
    NoDigest = NoDigest
SPECIFICATION Spec
PROPERTIES
    ForeignBytesSurvive
CHECK_DEADLOCK FALSE

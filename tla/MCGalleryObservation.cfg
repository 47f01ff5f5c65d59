SPECIFICATION Spec
CONSTANTS
    Root = Root
    Elsewhere = Elsewhere
    None = None
    c = c
    d = d
    g = g
    h = h
    a = a
    b = b
    info = info
    p = p
    o = o
    Collection = {c, d}
    Gallery = {g, h}
    Edited = {g}
    Name = {a, b}
    Info = info
    Page = {p}
    Other = {o}
    Home <- MCHome
    Called <- MCCalled
    Rank <- MCRank
    Published <- MCPublished
    PageLimit = 1
    MaxChanges = 2
INVARIANTS
    SteadyGalleriesFound
    AbsenceWasReal
    ObservedAtOnce
    OnlyFinishedDownloads

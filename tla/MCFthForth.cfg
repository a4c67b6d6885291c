CONSTANTS
    a = a
    LocalName = {a}
    Dummy = Dummy
    MAX_LOCALS = 2
    MaxCode = 5
    MaxLeft = 3
    f = f
    g = g
    s = s
    w = w
    Name = {f, g, s}
    Symbol = {s}
    Nameless = Nameless
    Forth = Forth
    NoWid = NoWid
    Wid = {Forth, w}
    Bucket = {0, 1}
    BucketOf <- MCBucketOf
    MAX_WORDLISTS = 2
    MaxMem = 3
SPECIFICATION ForthSpec
INVARIANTS BranchesResolved DoBodiesClosed FramesMatch ChainsEnd FindsMeaning
PROPERTIES RefinesNames
CHECK_DEADLOCK FALSE

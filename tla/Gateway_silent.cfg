CONSTANTS
    a = a
    b = b
    c1 = c1
    c2 = c2
    none = none
    short = short
    long = long
    Reqs = {r1, r2}
    Entities = {a, b}
    Shards = {0, 1}
    Concepts = {c1, c2}
    NoNode = NoNode
    Texts = {none, short, long}
    TripletsOf <- MCTripletsOf
    Home <- MCHome
    WellFormed = {a, b}
    Menu <- MenuTwo
    NoReq = NoReq
    Faults = {"statement"}
    MaxInFlight = 1
    MaxClock = 0
SPECIFICATION Spec
SYMMETRY ReqSymmetry
CHECK_DEADLOCK FALSE
INVARIANT PurgedAndVerified

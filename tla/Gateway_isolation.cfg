CONSTANTS
    a = a
    b = b
    c1 = c1
    c2 = c2
    none = none
    short = short
    long = long
    Reqs = {r1, r2, r3}
    Entities = {a, b}
    Shards = {0, 1}
    Concepts = {c1, c2}
    NoNode = NoNode
    Texts = {none, short, long}
    TripletsOf <- MCTripletsOf
    Home <- MCHome
    WellFormed = {a, b}
    Menu <- MenuAll
    NoReq = NoReq
    Faults = {}
    MaxInFlight = 1
    MaxClock = 0
SPECIFICATION Spec
SYMMETRY ReqSymmetry
CHECK_DEADLOCK FALSE
INVARIANT OthersUntouched

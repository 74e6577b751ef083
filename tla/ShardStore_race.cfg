CONSTANTS
    Tasks = {p1, p2}
    Entities = {e1, e2}
    Shards = {0}
    Home <- MCHome
    NoCall = NoCall
    LanceFaults = FALSE
    MaxRows = 1
SPECIFICATION Spec
INVARIANT InsertSucceeds

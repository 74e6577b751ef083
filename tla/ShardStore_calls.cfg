CONSTANTS
    Tasks = {p1, p2, p3}
    Entities = {e1, e2}
    Shards = {0, 1}
    Home <- MCHome
    NoCall = NoCall
    LanceFaults = TRUE
    MaxRows = 2
SPECIFICATION FairSpec
INVARIANTS
    TypeOK
    GuardsMatch
    PurgeExclusive
    FreshSnapshot
    PurgeLeavesNothing
    RowsAreHome
PROPERTIES
    OnlyOwnRowsDeleted
    Linearizable
    CallsEnd

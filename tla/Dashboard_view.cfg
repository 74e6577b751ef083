CONSTANTS
    d1 = d1
    d2 = d2
    e1 = e1
    e2 = e2
    Events <- MCEvents
    Sessions = {s1, s2}
    MaxEvents = 3
    Docs = {d1, d2}
    Owner <- MCOwnerOne
    AuditIds = {i1, i2}
    SameSecond = FALSE
    Slots = {"batch", "unlearn", "others"}
    NoSocket = NoSocket
SPECIFICATION DashboardSpec
SYMMETRY Symmetry
CHECK_DEADLOCK FALSE
INVARIANTS
    TypeOK
    PurgedIsNotActive
    LinksJoin
    HookAlive
    PurgedIsCertified

CONSTANTS
    d1 = d1
    d2 = d2
    e1 = e1
    e2 = e2
    Events <- MCEvents
    Sessions = {s1, s2}
    MaxEvents = 3
    Docs = {d1}
    Owner <- MCOwnerOne
    AuditIds = {i1}
    SameSecond = FALSE
    Slots = {"others"}
    NoSocket = NoSocket
SPECIFICATION DashboardSpec
CHECK_DEADLOCK FALSE
PROPERTY EveryEventProcessed

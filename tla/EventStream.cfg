CONSTANTS
    Events = {event}
    Sessions = {s1}
    Capacity = 2
    MaxEvents = 6
    MaxWire = 2
SPECIFICATION FairSpec
CHECK_DEADLOCK FALSE
INVARIANTS
    StreamTypeOK
    InOrder
    MissedOnlyWhenLagging
PROPERTIES
    SessionsEnd
    EventsArrive
    IsFeed

CONSTANTS
    d1 = d1
    d2 = d2
    e1 = e1
    e2 = e2
    Docs = {d1, d2}
    Owner <- MCOwner
    AuditIds = {i1}
    NoEntity = NoEntity
    Partial = Partial
    NoText = NoText
    Malformed = Malformed
    Typed = {e1, NoEntity}
    NoDoc = NoDoc
    NoCert = NoCert
    MaxRequests = 2
    MaxVerifications = 2
    Panels <- MCPanels
SPECIFICATION Spec
INVARIANTS
    TypeOK
    NoStuckButton
    SelectedIsKnown
    DrawerSettles
PROPERTY PurgeExplodes

CONSTANTS
    a = a
    b = b
    a1 = a1
    b2 = b2
    b1 = b1
    Docs = {a1, b1, b2}
    Entities = {a, b}
    Owner <- MCOwner
    Hash <- MCHash
    Payloads <- MCPayloads
    Settings <- MCSettings
    NotANumber = NotANumber
    EnvKeys = {k}
    RandomKeys = {r1, r2}
    None = None
    MaxStarts = 3
SPECIFICATION Spec
SYMMETRY Symmetry
INVARIANTS
    TypeOK
    EdgesStayTrue
    SaidIsRecorded
    SignaturesAgree
PROPERTY ZeroTouchesNothing

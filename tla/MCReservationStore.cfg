SPECIFICATION Spec
CONSTANTS
    Reservation = {r1, r2}
    Position = {p1, p2}
    Candidate = {c1, c2}
    Book = {b1}
    Null = Null
    MaxFaults = 2
SYMMETRY IdSymmetry
INVARIANTS
    TypeOK
    AuditTrailSound
    CacheAgreesWithRow
    SelectedRowsStayLegal
    NoneLeftBehind
PROPERTIES
    NoUnauditedMove
    ImplementsLedger

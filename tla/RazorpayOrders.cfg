SPECIFICATION Spec
CONSTANTS
    Requests = {r1, r2, r3}
    Keys = {k1, k2}
    Payloads = {p1, p2}
    Orders = {o1, o2, o3}
    Unusable = {o3}
    None = None
INVARIANTS
    TypeOK
    AtMostOneOrderPerKey
    ConflictsAreReal
PROPERTIES
    ReservationSettles
    ImplementsLedger
CHECK_DEADLOCK FALSE

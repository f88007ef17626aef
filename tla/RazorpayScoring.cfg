SPECIFICATION Spec
CONSTANTS
    Requests = {r1, r2}
    card = card
    partial = partial
    netbanking = netbanking
    o1 = o1
    o2 = o2
    Payments <- MCPayments
    Orders = {o1, o2}
    OrderOf <- MCOrderOf
    NotCardOrInr = {netbanking}
    WrongAmount = {partial}
    Contexts = {c1, c2, late}
    TooLate = {late}
    Models = {m1, m2}
    MaxMisroutes = 1
    MaxRestarts = 1
    None = None
SYMMETRY MCSymmetry
INVARIANTS
    TypeOK
    AnswersAreBound
PROPERTIES
    ScoredOnce
CHECK_DEADLOCK FALSE
